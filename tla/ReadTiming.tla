----------------------------- MODULE ReadTiming -----------------------------
(***************************************************************************)
(* What the configuration of i2s_mic means in time: i2s_mic_init() derives *)
(* a wait slice from it, and read_one_buffer() cuts the caller's timeout   *)
(* into slices on the FreeRTOS clock.                                      *)
(*                                                                         *)
(* I2SMic has the same calls without time, for any number of readers and   *)
(* with the failures of the driver; here the control task, one reader and  *)
(* the DMA share a tick counter that wraps.                                *)
(*                                                                         *)
(* A wait of n ticks ends when the counter has advanced by n.  A task that *)
(* could run may be kept from the CPU, the reader by up to Late ticks      *)
(* between two looks at the clock; the control task is not kept waiting,   *)
(* so that what delays stop() here is the reader.                          *)
(*                                                                         *)
(* Only a read with a finite timeout looks at the tick counter: it is      *)
(* followed during such a read, and may say anything when one begins.      *)
(***************************************************************************)
EXTENDS MicConfig

CONSTANTS
  Hz,            \* CONFIG_FREERTOS_HZ
  Word,          \* 2^32: one more than the largest TickType_t and uint32_t
  Configs,       \* the configurations an application tries
  Streamed,      \* bound of the model: those it starts, and reads with
  Timeouts,      \* timeout_ms of the calls
  Forever,       \* portMAX_DELAY
  Starts,        \* what the tick counter says when a read begins
  Late

TickMs    == 1000 \div Hz                \* portTICK_PERIOD_MS
Ticks(ms) == (ms * Hz) \div 1000         \* pdMS_TO_TICKS

SliceOf(c)  == SliceMs(FramesOf(c), c.rate)

(* A tick rate that does not divide 1000 makes every tick count for less   *)
(* than it lasts, one below 50 rounds the minimal slice to nothing, and    *)
(* what is compared with a timeout must not wrap before the timeout ends.  *)
ASSUME TimingAssumption ==
  /\ Hz \in 1 .. 1000 /\ 1000 % Hz = 0 /\ TickMs <= MinSlice
  /\ \A c \in Configs : {c.rate, c.bits, c.channels, c.count, c.size} \subseteq Int
  /\ Streamed \subseteq Configs
  /\ Word \in Nat /\ Late \in Nat /\ Forever \in Timeouts
  /\ Starts # {} /\ Starts \subseteq 0 .. Word - 1
  /\ Timeouts \ {Forever} \subseteq Nat
  /\ \A t \in Timeouts \ {Forever}, c \in Streamed :
       t + 2 * SliceOf(c) + 2 * (Late + 1) * TickMs < Word

VARIABLES
  tick,       \* xTaskGetTickCount()
  \* i2s_mic_init(): the configuration of the call (a set of one, empty
  \* between calls) and what it answers
  asked, answer,
  \* s_mic and the channel's configuration: a set of one, empty when
  \* UNINITIALIZED
  published,
  \* the component and the channel
  running, chan, sem, ready, age, stalled,
  \* the control task: its step, and the ticks since its call began
  ctl, blocked,
  \* the reader: its step, timeout, t0, slice, ticks left to wait, result
  pc, timeout, t0, wait, last, due, ret,
  \* history of the read: its age in ticks if its timeout is finite, the ticks it
  \* was kept waiting for the CPU and those that passed since it last looked
  \* at the clock, the ticks since stop(), whether start() was called again
  spent, lag, since, stopped, restarted

cfgVars == <<asked, answer, published>>
chVars  == <<running, chan, sem, ready, age, stalled>>
ctlVars == <<ctl, blocked>>
rdVars  == <<pc, timeout, t0, wait, last, due, ret>>
history == <<spent, lag, since, stopped, restarted>>
vars    == <<tick, cfgVars, chVars, ctlVars, rdVars, history>>

Init ==
  /\ tick = 0
  /\ asked = {} /\ answer = "none" /\ published = {}
  /\ running = FALSE /\ chan = "off" /\ sem = FALSE /\ ready = 0 /\ age = 0
  /\ stalled = FALSE
  /\ ctl = "idle" /\ blocked = 0
  /\ pc = "idle" /\ timeout = Forever /\ t0 = 0 /\ wait = 0 /\ last = FALSE
  /\ due = 0 /\ ret = "OK"
  /\ spent = 0 /\ lag = 0 /\ since = 0 /\ stopped = 0 /\ restarted = FALSE

Mic      == CHOOSE p \in published : TRUE
Slice    == Mic.slice_ms
QueueLen == Mic.config.count - 1
Period   == (PeriodMs(FramesOf(Mic.config), Mic.config.rate) + TickMs - 1) \div TickMs  \* in ticks

Inside == pc # "idle"
DmaOn  == chan # "off"

-----------------------------------------------------------------------------
(* i2s_mic_init() and i2s_mic_deinit(), by the control task.               *)
Answer(c) ==
  IF ~ArgsOK(c) THEN "INVALID_ARG"
  ELSE IF published # {} THEN "INVALID_STATE"
  ELSE IF ActualSize(c) # c.size THEN "INVALID_SIZE" ELSE "OK"

(* Bound of the model: init() is called before capture is started, or      *)
(* after deinit(), and a second time with few configurations; a call at    *)
(* any other moment would change nothing.                                  *)
Tried  == IF published = {} THEN Configs ELSE Streamed
Unused ==
  /\ ctl = "idle" /\ ~running /\ ~restarted
  /\ pc = "idle" /\ timeout = Forever /\ ret = "OK" /\ tick = 0

InitCall(c) ==
  /\ Unused /\ asked = {} /\ asked' = {c} /\ answer' = Answer(c)
  /\ published' =
       IF Answer(c) = "OK"
       THEN {[config |-> c, buf_size |-> ActualSize(c), slice_ms |-> SliceOf(c)]}
       ELSE published
  /\ UNCHANGED <<tick, chVars, ctlVars, rdVars, history>>

Return ==
  /\ asked # {} /\ asked' = {} /\ answer' = "none"
  /\ UNCHANGED <<tick, published, chVars, ctlVars, rdVars, history>>

Deinit ==
  /\ asked = {} /\ published # {} /\ ~running /\ ctl = "idle" /\ ~Inside
  /\ published' = {} /\ ready' = 0 /\ age' = 0
  /\ tick' = 0 /\ timeout' = Forever /\ t0' = 0 /\ ret' = "OK"
  /\ spent' = 0 /\ lag' = 0 /\ since' = 0 /\ stopped' = 0 /\ restarted' = FALSE
  /\ UNCHANGED <<asked, answer, running, chan, sem, stalled, ctlVars, pc, wait, last, due>>

(* Between calls of init(), and with a configuration the model streams.    *)
InUse == asked = {} /\ \E p \in published : p.config \in Streamed

-----------------------------------------------------------------------------
(* The DMA: a buffer is finished once in a period, or -- should the bus    *)
(* clock fail -- never again.                                              *)
Deliver ==
  /\ DmaOn /\ ~stalled
  /\ ready' = IF ready = QueueLen THEN ready ELSE ready + 1
  /\ age' = 0
  /\ UNCHANGED <<tick, cfgVars, running, chan, sem, stalled, ctlVars, rdVars, history>>

-----------------------------------------------------------------------------
(* The control task *)

StopClear ==
  /\ ctl = "idle" /\ running
  /\ running' = FALSE /\ ctl' = "disable" /\ stopped' = 0
  /\ UNCHANGED <<tick, cfgVars, chan, sem, ready, age, stalled, blocked, rdVars, spent, lag, since,
                 restarted>>

StopDisable ==
  /\ ctl = "disable"
  /\ chan' = "READY" /\ ctl' = "wait"
  /\ UNCHANGED <<tick, cfgVars, running, sem, ready, age, stalled, blocked, rdVars, history>>

StopWait ==
  /\ ctl = "wait" /\ sem
  /\ sem' = FALSE /\ chan' = "off" /\ ctl' = "idle" /\ blocked' = 0
  /\ UNCHANGED <<tick, cfgVars, running, ready, age, stalled, rdVars, history>>

(* i2s_channel_enable() and `running`.  A reader that comes between the    *)
(* two leaves as if it had come before.                                    *)
Start ==
  /\ ctl = "idle" /\ ~running /\ InUse
  /\ running' = TRUE /\ chan' = "RUNNING" /\ sem' = TRUE /\ ready' = 0 /\ age' = 0
  /\ restarted' = TRUE /\ stalled' \in BOOLEAN
  /\ UNCHANGED <<tick, cfgVars, ctlVars, rdVars, spent, lag, since, stopped>>

-----------------------------------------------------------------------------
(* The reader *)

Goto(step) == pc' = step /\ UNCHANGED <<timeout, t0, wait, last, due, ret>>
ReturnWith(e) ==
  /\ pc' = "idle" /\ ret' = e
  /\ wait' = 0 /\ last' = FALSE /\ due' = 0 /\ UNCHANGED <<timeout, t0>>

Call(t) ==
  /\ ~Inside /\ InUse
  /\ pc' = "top" /\ timeout' = t /\ tick' \in Starts /\ t0' = tick' /\ ret' = "OK"
  /\ spent' = 0 /\ lag' = 0 /\ since' = 0 /\ stopped' = 0 /\ restarted' = FALSE
  /\ UNCHANGED <<cfgVars, chVars, ctlVars, wait, last, due>>

\* MUTANT of ElapsedMs: the difference the other way round.
ElapsedMsSwapped == (((t0 - tick) % Word) * TickMs) % Word

(* Unsigned 32-bit arithmetic, twice. *)
ElapsedMs == (((tick - t0) % Word) * TickMs) % Word

RemainingMs == IF ElapsedMs >= timeout THEN 0 ELSE timeout - ElapsedMs

\* MUTANT of WaitMs: the caller's timeout goes to the driver.
WaitMsAsCaller == IF timeout = Forever THEN Slice ELSE RemainingMs

WaitMs == IF timeout # Forever /\ RemainingMs <= Slice THEN RemainingMs ELSE Slice

(* The top of the loop: stopped, or one more slice. *)
RdTop ==
  /\ pc = "top"
  /\ IF ~running THEN ReturnWith("INVALID_STATE")
     ELSE /\ wait' = WaitMs
          /\ last' = (timeout # Forever /\ RemainingMs <= Slice)
          /\ pc' = "enter" /\ UNCHANGED <<timeout, t0, due, ret>>
  /\ lag' = 0 /\ since' = 0
  /\ UNCHANGED <<tick, cfgVars, chVars, ctlVars, spent, stopped, restarted>>

(* i2s_channel_read() begins: it may wait for the semaphore for `wait`.    *)
RdEnter ==
  /\ pc = "enter"
  /\ pc' = "sem" /\ due' = Ticks(wait)
  /\ UNCHANGED <<tick, cfgVars, chVars, ctlVars, timeout, t0, wait, last, ret, history>>

RdSem ==
  /\ pc = "sem" /\ sem
  /\ sem' = FALSE /\ Goto("loop")
  /\ UNCHANGED <<tick, cfgVars, running, chan, ready, age, stalled, ctlVars, history>>

RdSemTimeout ==
  /\ pc = "sem" /\ ~sem /\ due = 0
  /\ pc' = "post" /\ ret' = "NOT_ENABLED"
  /\ UNCHANGED <<tick, cfgVars, chVars, ctlVars, timeout, t0, wait, last, due, history>>

(* The copy loop: a wait for a buffer begins, for `wait` again; or the     *)
(* channel is no longer RUNNING.                                           *)
RdLoop ==
  /\ pc = "loop"
  /\ IF chan = "RUNNING"
     THEN pc' = "queue" /\ due' = Ticks(wait) /\ UNCHANGED ret
     ELSE pc' = "give" /\ ret' = "SHORT" /\ UNCHANGED due
  /\ UNCHANGED <<tick, cfgVars, chVars, ctlVars, timeout, t0, wait, last, history>>

RdReceive ==
  /\ pc = "queue" /\ ready > 0
  /\ ready' = ready - 1 /\ Goto("give")
  /\ UNCHANGED <<tick, cfgVars, running, chan, sem, age, stalled, ctlVars, history>>

RdQueueTimeout ==
  /\ pc = "queue" /\ ready = 0 /\ due = 0
  /\ pc' = "give" /\ ret' = "TIMEOUT"
  /\ UNCHANGED <<tick, cfgVars, chVars, ctlVars, timeout, t0, wait, last, due, history>>

RdGive ==
  /\ pc = "give"
  /\ sem' = TRUE /\ Goto("post")
  /\ UNCHANGED <<tick, cfgVars, running, chan, ready, age, stalled, ctlVars, history>>

(* After the driver call: a slice that found nothing is retried unless it  *)
(* was the last.                                                           *)
Retried == ret \in {"TIMEOUT", "NOT_ENABLED"} /\ running /\ ~last
RdPost ==
  /\ pc = "post"
  /\ IF Retried THEN pc' = "top" /\ ret' = "OK" /\ UNCHANGED <<timeout, t0, wait, last, due>>
     ELSE ReturnWith(CASE ret = "OK" -> "OK"
                       [] ret \in {"TIMEOUT", "NOT_ENABLED"} /\ running -> "TIMEOUT"
                       [] OTHER -> "INVALID_STATE")
  /\ UNCHANGED <<tick, cfgVars, chVars, ctlVars, history>>

-----------------------------------------------------------------------------
(* The clock *)

Blocked == due > 0 /\ ((pc = "sem" /\ ~sem) \/ (pc = "queue" /\ ready = 0))

MayPass ==
  /\ ctl = "idle" \/ (ctl = "wait" /\ ~sem)
  /\ (DmaOn /\ ~stalled) => age < Period
  /\ (Inside /\ ~Blocked) => lag < Late

Tick ==
  /\ MayPass
  /\ age' = IF DmaOn /\ ~stalled THEN age + 1 ELSE 0
  /\ due' = IF Blocked THEN due - 1 ELSE due
  /\ blocked' = IF ctl = "idle" THEN blocked ELSE blocked + 1
  /\ IF Inside
       THEN /\ since' = since + 1
            /\ lag' = IF Blocked THEN lag ELSE lag + 1
            /\ stopped' = IF running THEN 0 ELSE stopped + 1
       ELSE UNCHANGED <<since, lag, stopped>>
  /\ IF Inside /\ timeout # Forever
       THEN tick' = (tick + 1) % Word /\ spent' = spent + 1
       ELSE UNCHANGED <<tick, spent>>
  /\ UNCHANGED <<cfgVars, running, chan, sem, ready, stalled, ctl, pc, timeout, t0,
                 wait, last, ret, restarted>>

Reader ==
  \/ RdTop \/ RdEnter \/ RdSem \/ RdSemTimeout \/ RdLoop \/ RdReceive
  \/ RdQueueTimeout \/ RdGive \/ RdPost

Next ==
  \/ (\E c \in Tried : InitCall(c)) \/ Return \/ Deinit
  \/ Deliver \/ StopClear \/ StopDisable \/ StopWait \/ Start
  \/ (\E t \in Timeouts : Call(t)) \/ Reader \/ Tick

Spec == Init /\ [][Next]_vars

-----------------------------------------------------------------------------
(* What the driver can do with an accepted configuration, whatever the     *)
(* order of the checks: a ring of at least two, and buffers of k whole     *)
(* frames that fit the DMA (i2s_mic.h 45-75, 83-89).                       *)
FrameBytes(c) == CASE c.bits = 16 /\ c.slots = "MONO"   -> 2
                   [] c.bits = 16 /\ c.slots = "STEREO" -> 4
                   [] c.bits = 32 /\ c.slots = "MONO"   -> 4
                   [] c.bits = 32 /\ c.slots = "STEREO" -> 8
                   [] OTHER -> 0
Allocatable(c) ==
  /\ FrameBytes(c) > 0 /\ c.rate > 0 /\ c.count > 1
  /\ c.channels = (IF c.slots = "MONO" THEN 1 ELSE 2)
  /\ \E k \in 1 .. DmaBytes \div FrameBytes(c) : c.size = k * FrameBytes(c)

(* init() accepts exactly what can be had as asked for, and refuses the    *)
(* rest; what it answers for a buffer that is too large is INVALID_SIZE    *)
(* (i2s_mic.c 110-123 and 182-190).                                        *)
AcceptsExactlyAllocatable ==
  \A c \in asked :
    /\ answer = "OK" => Allocatable(c)
    /\ answer \in {"INVALID_ARG", "INVALID_SIZE"} => ~Allocatable(c)
    /\ answer = "INVALID_SIZE" => c.size > DmaBytes

(* A running reader rarely wakes without data, a stopped one soon: a slice *)
(* covers two buffers in real time, and is less than 2 ms longer unless it *)
(* is the minimum (i2s_mic.c 59-61 and 198-205).                           *)
SliceCoversTwoBuffers ==
  \A p \in published :
    LET c == p.config  twice == 2 * 1000 * (c.size \div FrameBytes(c)) IN
    /\ p.slice_ms * c.rate >= twice
    /\ p.slice_ms = MinSlice \/ (p.slice_ms - 2) * c.rate < twice

(* init() is right for every configuration: in what it accepts, and in the *)
(* slice it derives (i2s_mic.c 105-217).                                   *)
InitIsExact == AcceptsExactlyAllocatable /\ SliceCoversTwoBuffers

TimedOut == pc = "idle" /\ ret = "TIMEOUT"

(* A read that times out has waited the whole time it was given, to the    *)
(* tick, although it waited in slices each cut to whole ticks, and across  *)
(* a wrap of the tick counter; portMAX_DELAY never times out (i2s_mic.h    *)
(* 142-144, i2s_mic.c 294-311).                                            *)
NotTooEarly == TimedOut => timeout # Forever /\ spent >= Ticks(timeout)

(* ... and not much longer: a timeout is late by what the task was kept    *)
(* from the CPU in the last two slices, unless start() made a driver call  *)
(* wait twice (i2s_mic.c 304-311, 329-331).                                *)
NotTooLate ==
  TimedOut => spent <= Ticks(timeout) + 2 * Late + (IF restarted THEN Ticks(Slice) ELSE 0)

(* A timeout comes when it is due (i2s_mic.c 294-332).                     *)
TimesOutOnTime == NotTooEarly /\ NotTooLate

(* A read outlives stop() by one slice at most, whatever timeout it was    *)
(* given (i2s_mic.c 34-38, test_lifecycle.c 5-13).                         *)
StopNoticed == Inside => stopped <= Ticks(Slice) + Late

(* stop() is kept waiting for a reader for one period, or one slice should *)
(* the bus clock have failed (i2s_mic.h 122-124, i2s_mic.c 277-279).       *)
StopBlocks ==
  blocked > 0 => blocked <= (IF stalled THEN Ticks(Slice) ELSE Period) + Late

(* A read that found nothing does not ask the driver again at once, however*)
(* short the buffers (i2s_mic.c 59-61).                                    *)
NoBusyPoll == (pc = "post" /\ Retried) => since >= 1
=============================================================================

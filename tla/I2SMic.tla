------------------------------- MODULE I2SMic -------------------------------
(***************************************************************************)
(* i2s_mic.c over the driver of I2SDriver: the tasks that call             *)
(* i2s_mic_read(), the one control task that calls init/start/stop/deinit  *)
(* (i2s_mic.h, lines 20-22) and the RX interrupt.                          *)
(*                                                                         *)
(* A critical section on s_mic.mux is one action.  Everything else is      *)
(* interleaved: each driver call, each read or write of s_mic outside the  *)
(* mux, is a step, and a program counter names the next one.               *)
(***************************************************************************)
EXTENDS I2SDriver

CONSTANTS
  Readers,    \* tasks that call i2s_mic_read()
  Sizes,      \* values of config->dma_buffer_size
  Lens,       \* values of the argument len of i2s_mic_read()
  MaxSlices   \* bound of the model: wait slices in a finite timeout

ASSUME MicAssumption ==
  /\ Sizes \subseteq Nat \ {0}
  /\ Lens \subseteq Nat
  /\ MaxSlices \in Nat

VARIABLES
  \* s_mic
  state, running, reader_active, overflow_count, rx, buf_size,
  \* the control task: next step, the size that was configured, last result
  ctl, req, ctlRet,
  \* each reader: next step, wait slices left, len, bytes_read, result
  pc, left, len, n, ret,
  \* history: buffers the current read has fetched, and whether a stop()
  \* ("stop"), or a stop() and a start() ("restart"), ran during it
  popped, missed

micVars == <<state, running, reader_active, overflow_count, rx, buf_size>>
ctlVars == <<ctl, req, ctlRet>>
rdVars  == <<pc, left, len, n, ret, popped, missed>>
vars    == <<drvVars, micVars, ctlVars, rdVars>>

Forever == MaxSlices + 1       \* timeout_ms = portMAX_DELAY
Slices  == 0 .. Forever

CtlSteps == {"idle",
  "init_std", "init_info", "init_cb", "init_fields", "init_publish", "init_fail",
  "deinit_del", "deinit_clear",
  "start_reset", "start_enable", "start_run", "start_state",
  "stop_clear", "stop_disable", "stop_wait", "stop_state"}

RdSteps == {"idle", "check", "sem", "loop", "fetch", "copy", "give", "post",
            "release"}

Errors  == {"FAIL", "TIMEOUT", "INVALID_ARG", "INVALID_SIZE", "INVALID_STATE"}
Results == Errors \cup {"OK"}

InDriver(r) == pc[r] \in {"loop", "fetch", "copy", "give"}   \* holds the semaphore
InCall(r)   == InDriver(r) \/ pc[r] = "sem"                  \* in i2s_channel_read()
Blocked(r)  == InCall(r) \/ pc[r] \in {"check", "post"}      \* in read_one_buffer()
Inside(r)   == Blocked(r) \/ pc[r] = "release"               \* owns reader_active

Init ==
  /\ DriverInit
  /\ state = "UNINIT" /\ running = FALSE /\ reader_active = FALSE
  /\ overflow_count = 0 /\ rx = FALSE /\ buf_size = 0
  /\ ctl = "idle" /\ req = 0 /\ ctlRet = "OK"
  /\ pc = [r \in Readers |-> "idle"] /\ left = [r \in Readers |-> 0]
  /\ len = [r \in Readers |-> 0] /\ n = [r \in Readers |-> 0]
  /\ ret = [r \in Readers |-> "OK"] /\ popped = [r \in Readers |-> 0]
  /\ missed = [r \in Readers |-> "no"]

(* The control task starts a call, goes on with step s, or returns e. *)
CtlStart(s)  == ctl' = s /\ ctlRet' = "OK" /\ UNCHANGED req
CtlGoto(s)   == ctl' = s /\ UNCHANGED <<req, ctlRet>>
CtlReturn(e) == ctl' = "idle" /\ ctlRet' = e /\ UNCHANGED req

-----------------------------------------------------------------------------
(* i2s_mic_init.  The checks of the other fields of the configuration are  *)
(* pure and come before the state is looked at.                            *)

InitCall(size) ==
  /\ ctl = "idle"
  /\ IF state # "UNINIT"
     THEN CtlReturn("INVALID_STATE") /\ UNCHANGED drvVars
     ELSE \/ /\ NewChannel
             /\ ctl' = "init_std" /\ req' = size /\ ctlRet' = "OK"
          \/ CtlReturn("FAIL") /\ UNCHANGED drvVars
  /\ UNCHANGED <<micVars, rdVars>>

(* A step of init() that fails with e jumps to `fail:`. *)
InitError(e) == ctl' = "init_fail" /\ ctlRet' = e /\ UNCHANGED req

InitStd ==
  /\ ctl = "init_std"
  /\ \/ InitStdMode(req) /\ CtlGoto("init_info")
     \/ UNCHANGED drvVars /\ InitError("FAIL")
  /\ UNCHANGED <<micVars, rdVars>>

(* The driver shrinks an oversized buffer silently; init() compares. *)
SizeIsActual == dmaBuf = req

InitInfo ==
  /\ ctl = "init_info"
  /\ \/ SizeIsActual /\ CtlGoto("init_cb")
     \/ ~SizeIsActual /\ InitError("INVALID_SIZE")
     \/ InitError("FAIL")
  /\ UNCHANGED <<drvVars, micVars, rdVars>>

InitCallbacks ==
  /\ ctl = "init_cb"
  /\ CtlGoto("init_fields") \/ InitError("FAIL")
  /\ UNCHANGED <<drvVars, micVars, rdVars>>

InitFields ==
  /\ ctl = "init_fields"
  /\ CtlGoto("init_publish")
  /\ rx' = TRUE /\ buf_size' = dmaBuf /\ overflow_count' = 0
  /\ running' = FALSE /\ reader_active' = FALSE
  /\ UNCHANGED <<drvVars, state, rdVars>>

InitPublish ==
  /\ ctl = "init_publish"
  /\ CtlReturn("OK")
  /\ state' = "INITIALIZED"
  /\ UNCHANGED <<drvVars, running, reader_active, overflow_count, rx, buf_size, rdVars>>

\* MUTANT of InitFail: the channel is not deleted.
InitFailLeaks ==
  /\ ctl = "init_fail"
  /\ CtlReturn(ctlRet)
  /\ UNCHANGED <<drvVars, micVars, rdVars>>

InitFail ==
  /\ ctl = "init_fail"
  /\ DelChannel
  /\ ctl' = "idle" /\ req' = 0 /\ UNCHANGED ctlRet
  /\ UNCHANGED <<micVars, rdVars>>

-----------------------------------------------------------------------------
(* i2s_mic_deinit *)

\* MUTANT of DeinitRefused: reader_active is not looked at.
DeinitIgnoresReader == state # "INITIALIZED"

DeinitRefused == state # "INITIALIZED" \/ reader_active

DeinitCall ==
  /\ ctl = "idle"
  /\ IF DeinitRefused
     THEN CtlReturn("INVALID_STATE") /\ UNCHANGED micVars
     ELSE /\ state' = "UNINIT" /\ CtlStart("deinit_del")
          /\ UNCHANGED <<running, reader_active, overflow_count, rx, buf_size>>
  /\ UNCHANGED <<drvVars, rdVars>>

DeinitDel ==
  /\ ctl = "deinit_del"
  /\ IF CanDelete THEN DelChannel ELSE UNCHANGED drvVars
  /\ ctlRet' = (IF CanDelete THEN "OK" ELSE "INVALID_STATE")
  /\ ctl' = "deinit_clear"
  /\ UNCHANGED <<req, micVars, rdVars>>

DeinitClear ==
  /\ ctl = "deinit_clear"
  /\ ctl' = "idle" /\ req' = 0 /\ UNCHANGED ctlRet
  /\ rx' = FALSE /\ buf_size' = 0
  /\ UNCHANGED <<drvVars, state, running, reader_active, overflow_count, rdVars>>

-----------------------------------------------------------------------------
(* i2s_mic_start *)

\* MUTANT of StartRefused: a second start() is let through.
StartWhileRunning == state = "UNINIT"

StartRefused == state # "INITIALIZED"

StartCall ==
  /\ ctl = "idle"
  /\ IF StartRefused THEN CtlReturn("INVALID_STATE") ELSE CtlStart("start_reset")
  /\ UNCHANGED <<drvVars, micVars, rdVars>>

StartReset ==
  /\ ctl = "start_reset"
  /\ overflow_count' = 0
  /\ CtlGoto("start_enable")
  /\ UNCHANGED <<drvVars, state, running, reader_active, rx, buf_size, rdVars>>

StartEnable ==
  /\ ctl = "start_enable"
  /\ IF chState = "READY" THEN Enable /\ CtlGoto("start_run")
                          ELSE UNCHANGED drvVars /\ CtlReturn("INVALID_STATE")
  /\ UNCHANGED <<micVars, rdVars>>

StartRun ==
  /\ ctl = "start_run"
  /\ running' = TRUE
  /\ CtlGoto("start_state")
  /\ missed' = [r \in Readers |-> IF missed[r] = "stop" THEN "restart" ELSE missed[r]]
  /\ UNCHANGED <<drvVars, state, reader_active, overflow_count, rx, buf_size,
                 pc, left, len, n, ret, popped>>

StartState ==
  /\ ctl = "start_state"
  /\ state' = "RUNNING"
  /\ CtlReturn("OK")
  /\ UNCHANGED <<drvVars, running, reader_active, overflow_count, rx, buf_size, rdVars>>

-----------------------------------------------------------------------------
(* i2s_mic_stop *)

StopCall ==
  /\ ctl = "idle"
  /\ IF state # "RUNNING" THEN CtlReturn("INVALID_STATE") ELSE CtlStart("stop_clear")
  /\ UNCHANGED <<drvVars, micVars, rdVars>>

\* MUTANT of StopClear: running is left set.
StopKeepsRunning ==
  /\ ctl = "stop_clear"
  /\ CtlGoto("stop_disable")
  /\ missed' = [r \in Readers |-> IF Blocked(r) THEN "stop" ELSE missed[r]]
  /\ UNCHANGED <<drvVars, micVars, pc, left, len, n, ret, popped>>

StopClear ==
  /\ ctl = "stop_clear"
  /\ running' = FALSE
  /\ CtlGoto("stop_disable")
  /\ missed' = [r \in Readers |-> IF Blocked(r) THEN "stop" ELSE missed[r]]
  /\ UNCHANGED <<drvVars, state, reader_active, overflow_count, rx, buf_size,
                 pc, left, len, n, ret, popped>>

StopDisable ==
  /\ ctl = "stop_disable"
  /\ IF chState = "RUNNING"
     THEN DisableBegin /\ CtlGoto("stop_wait")
     ELSE /\ UNCHANGED drvVars
          /\ ctl' = "stop_state" /\ ctlRet' = "INVALID_STATE" /\ UNCHANGED req
  /\ UNCHANGED <<micVars, rdVars>>

StopWait ==
  /\ ctl = "stop_wait"
  /\ DisableEnd
  /\ ctl' = "stop_state" /\ ctlRet' = "OK" /\ UNCHANGED req
  /\ UNCHANGED <<micVars, rdVars>>

StopState ==
  /\ ctl = "stop_state"
  /\ state' = "INITIALIZED"
  /\ CtlReturn(ctlRet)
  /\ UNCHANGED <<drvVars, running, reader_active, overflow_count, rx, buf_size, rdVars>>

-----------------------------------------------------------------------------
(* i2s_mic_read *)

(* Reader r goes on with step s, or leaves read_one_buffer() with e. *)
RdGoto(r, s)  == pc' = [pc EXCEPT ![r] = s] /\ UNCHANGED ret
RdReturn(r, e) == pc' = [pc EXCEPT ![r] = "release"] /\ ret' = [ret EXCEPT ![r] = e]

\* MUTANT of ReadCheck: reader_active is not looked at.
ReadCheckNoOwner(null, l) ==
  IF null THEN "INVALID_ARG"
  ELSE IF state = "UNINIT" THEN "INVALID_STATE"
  ELSE IF l # buf_size THEN "INVALID_SIZE" ELSE "OK"

\* MUTANT of ReadCheck: any length will do.
ReadCheckNoLen(null, l) ==
  IF null THEN "INVALID_ARG"
  ELSE IF state = "UNINIT" \/ reader_active THEN "INVALID_STATE" ELSE "OK"

(* What the checks of a read answer; OK claims the reader slot. *)
ReadCheck(null, l) ==
  IF null THEN "INVALID_ARG"
  ELSE IF state = "UNINIT" \/ reader_active THEN "INVALID_STATE"
  ELSE IF l # buf_size THEN "INVALID_SIZE" ELSE "OK"

ReadRefused(r, null, l) ==
  /\ pc[r] = "idle"
  /\ ReadCheck(null, l) # "OK"
  /\ ret' = [ret EXCEPT ![r] = ReadCheck(null, l)]
  /\ n' = [n EXCEPT ![r] = 0]
  /\ UNCHANGED <<drvVars, micVars, ctlVars, pc, left, len, popped, missed>>

ReadClaim(r, l, slices) ==
  /\ pc[r] = "idle"
  /\ ReadCheck(FALSE, l) = "OK"
  /\ reader_active' = TRUE
  /\ pc' = [pc EXCEPT ![r] = "check"] /\ ret' = [ret EXCEPT ![r] = "OK"]
  /\ left' = [left EXCEPT ![r] = slices] /\ len' = [len EXCEPT ![r] = l]
  /\ n' = [n EXCEPT ![r] = 0] /\ popped' = [popped EXCEPT ![r] = 0]
  /\ missed' = [missed EXCEPT ![r] = "no"]
  /\ UNCHANGED <<drvVars, state, running, overflow_count, rx, buf_size, ctlVars>>

(* Top of the slice loop: start a driver call, unless stopped. *)
RdCheck(r) ==
  /\ pc[r] = "check"
  /\ IF running THEN RdGoto(r, "sem") /\ n' = [n EXCEPT ![r] = 0]
                ELSE RdReturn(r, "INVALID_STATE") /\ UNCHANGED n
  /\ UNCHANGED <<drvVars, micVars, ctlVars, left, len, popped, missed>>

RdSem(r) ==
  /\ pc[r] = "sem"
  /\ TakeSem
  /\ RdGoto(r, "loop")
  /\ UNCHANGED <<micVars, ctlVars, left, len, n, popped, missed>>

(* The slice ends before the semaphore is given: "not enabled". *)
RdSemTimeout(r) ==
  /\ pc[r] = "sem" /\ ~sem
  /\ pc' = [pc EXCEPT ![r] = "post"] /\ ret' = [ret EXCEPT ![r] = "INVALID_STATE"]
  /\ UNCHANGED <<drvVars, micVars, ctlVars, left, len, n, popped, missed>>

(* The copy loop: all copied or no longer RUNNING, else one more pass. *)
RdLoop(r) ==
  /\ pc[r] = "loop"
  /\ IF n[r] < len[r] /\ chState = "RUNNING"
     THEN RdGoto(r, IF NeedsBuffer THEN "fetch" ELSE "copy")
     ELSE pc' = [pc EXCEPT ![r] = "give"] /\ ret' = [ret EXCEPT ![r] = "OK"]
  /\ UNCHANGED <<drvVars, micVars, ctlVars, left, len, n, popped, missed>>

RdReceive(r) ==
  /\ pc[r] = "fetch"
  /\ Receive
  /\ popped' = [popped EXCEPT ![r] = @ + 1]
  /\ RdGoto(r, "copy")
  /\ UNCHANGED <<micVars, ctlVars, left, len, n, missed>>

RdQueueTimeout(r) ==
  /\ pc[r] = "fetch" /\ q = << >>
  /\ pc' = [pc EXCEPT ![r] = "give"] /\ ret' = [ret EXCEPT ![r] = "TIMEOUT"]
  /\ UNCHANGED <<drvVars, micVars, ctlVars, left, len, n, popped, missed>>

RdCopy(r) ==
  /\ pc[r] = "copy"
  /\ Copy(len[r] - n[r])
  /\ n' = [n EXCEPT ![r] = @ + CopySize(len[r] - @)]
  /\ RdGoto(r, "loop")
  /\ UNCHANGED <<micVars, ctlVars, left, len, popped, missed>>

RdGive(r) ==
  /\ pc[r] = "give"
  /\ GiveSem
  /\ RdGoto(r, "post")
  /\ UNCHANGED <<micVars, ctlVars, left, len, n, popped, missed>>

\* MUTANT of StoppedDuringSlice: running is not looked at.
StoppedIgnored == FALSE

(* The second look at s_mic.running, after a slice that found nothing. *)
StoppedDuringSlice == ~running

(* What may remain of a timeout after one more slice: a slice lasts at     *)
(* least one tick, and longer if the task is delayed.                      *)
NextSlices(s) == IF s = Forever THEN {Forever} ELSE {t \in Slices : t < s}

\* MUTANT of RdPost: a retry starts with the full timeout.
RdPostFullRetry(r) ==
  /\ pc[r] = "post"
  /\ IF ret[r] = "OK"
     THEN RdReturn(r, IF n[r] = len[r] THEN "OK" ELSE "INVALID_STATE")
     ELSE IF StoppedDuringSlice THEN RdReturn(r, "INVALID_STATE")
     ELSE IF left[r] = 0 THEN RdReturn(r, "TIMEOUT")
     ELSE pc' = [pc EXCEPT ![r] = "check"] /\ ret' = [ret EXCEPT ![r] = "OK"]
  /\ UNCHANGED <<drvVars, micVars, ctlVars, left, len, n, popped, missed>>

(* After the driver call: a full copy or a stop ends the read; a slice     *)
(* that found nothing is retried unless it was the last.                   *)
RdPost(r) ==
  /\ pc[r] = "post"
  /\ IF ret[r] = "OK"
     THEN RdReturn(r, IF n[r] = len[r] THEN "OK" ELSE "INVALID_STATE") /\ UNCHANGED left
     ELSE IF StoppedDuringSlice THEN RdReturn(r, "INVALID_STATE") /\ UNCHANGED left
     ELSE IF left[r] = 0 THEN RdReturn(r, "TIMEOUT") /\ UNCHANGED left
     ELSE /\ pc' = [pc EXCEPT ![r] = "check"] /\ ret' = [ret EXCEPT ![r] = "OK"]
          /\ \E s \in NextSlices(left[r]) : left' = [left EXCEPT ![r] = s]
  /\ UNCHANGED <<drvVars, micVars, ctlVars, len, n, popped, missed>>

(* Give the reader slot up; bytes_read is len on success, 0 on an error,   *)
(* and the rest of the call's own state is gone.                           *)
RdRelease(r) ==
  /\ pc[r] = "release"
  /\ reader_active' = FALSE
  /\ n' = [n EXCEPT ![r] = IF ret[r] = "OK" THEN len[r] ELSE 0]
  /\ RdGoto(r, "idle")
  /\ left' = [left EXCEPT ![r] = 0] /\ len' = [len EXCEPT ![r] = 0]
  /\ popped' = [popped EXCEPT ![r] = 0] /\ missed' = [missed EXCEPT ![r] = "no"]
  /\ UNCHANGED <<drvVars, state, running, overflow_count, rx, buf_size, ctlVars>>

-----------------------------------------------------------------------------
(* The RX interrupt, with the callback mic_on_recv_q_ovf *)

\* MUTANT of CountOverflow: every finished buffer counts.
CountEveryBuffer(c) == c + 1

CountOverflow(c) == IF QueueFull THEN c + 1 ELSE c

RxIsr ==
  /\ DmaStep
  /\ overflow_count' = CountOverflow(overflow_count)
  /\ UNCHANGED <<state, running, reader_active, rx, buf_size, ctlVars, rdVars>>

(* The queries, which change nothing *)
GetOverflowCount == overflow_count
GetBufferSize == IF state = "UNINIT" THEN 0 ELSE buf_size

-----------------------------------------------------------------------------
ControlStep ==
  \/ InitStd \/ InitInfo \/ InitCallbacks \/ InitFields \/ InitPublish \/ InitFail
  \/ DeinitDel \/ DeinitClear
  \/ StartReset \/ StartEnable \/ StartRun \/ StartState
  \/ StopClear \/ StopDisable \/ StopWait \/ StopState

ControlCall ==
  \/ \E size \in Sizes : InitCall(size)
  \/ DeinitCall
  \/ StartCall
  \/ StopCall

ReaderStep(r) ==
  \/ RdCheck(r) \/ RdSem(r) \/ RdSemTimeout(r) \/ RdLoop(r) \/ RdReceive(r)
  \/ RdQueueTimeout(r) \/ RdCopy(r) \/ RdGive(r) \/ RdPost(r) \/ RdRelease(r)

ReaderCall(r) ==
  \/ \E null \in BOOLEAN, l \in Lens : ReadRefused(r, null, l)
  \/ \E l \in Lens, slices \in Slices : ReadClaim(r, l, slices)

Next ==
  \/ ControlStep
  \/ ControlCall
  \/ \E r \in Readers : ReaderStep(r) \/ ReaderCall(r)
  \/ RxIsr

Spec == Init /\ [][Next]_vars

(* A task that is inside a call goes on with it: the scheduler runs every  *)
(* ready task in the end and a wait has a finite slice.  Nothing obliges a *)
(* task to make a call, or the microphone to deliver.                      *)
Fairness == WF_vars(ControlStep) /\ \A r \in Readers : WF_vars(ReaderStep(r))

FairSpec == Spec /\ Fairness

-----------------------------------------------------------------------------
(* Safety *)

(* Every variable stays in its set, and the driver's queue within its      *)
(* capacity (i2s_mic.c, lines 63-82; sim_driver.c, lines 30-49).           *)
MicTypeOK ==
  /\ state \in {"UNINIT", "INITIALIZED", "RUNNING"}
  /\ running \in BOOLEAN /\ reader_active \in BOOLEAN /\ rx \in BOOLEAN
  /\ overflow_count \in Nat /\ buf_size \in 0 .. DmaMax
  /\ ctl \in CtlSteps /\ req \in Sizes \cup {0} /\ ctlRet \in Results

ReaderTypeOK ==
  /\ pc \in [Readers -> RdSteps] /\ left \in [Readers -> Slices]
  /\ len \in [Readers -> Lens \cup {0}] /\ n \in [Readers -> Nat]
  /\ ret \in [Readers -> Results] /\ popped \in [Readers -> Nat]
  /\ missed \in [Readers -> {"no", "stop", "restart"}]

TypeOK == DriverTypeOK /\ MicTypeOK /\ ReaderTypeOK

(* One reading task: never two tasks between the claim and the release of  *)
(* the reader slot, and the flag says exactly whether there is one         *)
(* (i2s_mic.h, lines 16-17; i2s_mic.c, lines 346-362).                     *)
SingleReader ==
  /\ \A r, s \in Readers : Inside(r) /\ Inside(s) => r = s
  /\ reader_active <=> \E r \in Readers : Inside(r)

(* deinit() never deletes the channel under a reader: as long as a task is *)
(* inside a read, the handle it uses is held and its channel exists        *)
(* (i2s_mic.c, lines 227-234 and 344-356).                                 *)
NoReadOfDeletedChannel ==
  \A r \in Readers : Inside(r) => rx /\ chState \in {"READY", "RUNNING"}

(* A reader that sees running starts its driver call on a channel whose    *)
(* DMA runs: running is set after the enable and cleared before the        *)
(* disable (i2s_mic.c, lines 256-262 and 273-279).                         *)
RunningMeansEnabled == running => chState = "RUNNING" /\ dmaOn

(* The driver refuses no call of the control task: i2s_mic.c never enables *)
(* a channel that is not ready, disables one that does not run or deletes  *)
(* one that does; and it zeroes the loss counter only while the interrupt  *)
(* cannot touch it (i2s_mic.c, lines 220, 236, 252-256 and 279).           *)
DriverCallsLegal ==
  /\ ctl = "start_reset"  => ~dmaOn
  /\ ctl = "start_enable" => chState = "READY" /\ ~dmaOn
  /\ ctl = "stop_disable" => chState = "RUNNING"
  /\ ctl \in {"init_fail", "deinit_del"} => chState # "RUNNING"

(* Once stop() has returned, nothing moves: the DMA is off, the driver     *)
(* keeps the semaphore and no reader is in its copy loop (i2s_mic.c, lines *)
(* 20-24 and 277-285).                                                     *)
QuietWhenStopped ==
  ctl = "idle" /\ state = "INITIALIZED" =>
    ~dmaOn /\ ~sem /\ \A r \in Readers : ~InDriver(r)

(* Every capture of the session is accounted for: read, waiting in the     *)
(* queue, or counted as lost -- exactly once (i2s_mic.c, lines 89-99; the  *)
(* "one honest loss counter" of README.md, line 28).                       *)
LossAccounting ==
  state # "UNINIT" /\ ctl # "start_enable" =>
    seq = sessFirst + taken + overflow_count + Len(q)

(* What is lost is the oldest audio: the next buffer a read would get is   *)
(* the one that follows everything read and everything counted             *)
(* (sim_driver.c, lines 114-120).                                          *)
QueueHeadIsNext ==
  state # "UNINIT" /\ ctl # "start_enable" /\ q # << >> =>
    stamp[Head(q)] = sessFirst + taken + overflow_count

(* A read of this session copies no audio captured before its start(): the *)
(* queue was emptied and the current buffer dropped (i2s_mic.c, line 255). *)
NoStaleAudio == \A r \in Readers : pc[r] = "copy" => currSeq >= sessFirst

(* The DMA is never filling a buffer that waits in the queue: the queue is *)
(* one shorter than the ring (sim_driver.c, line 138).                     *)
DmaNeverWritesQueued == \A i \in 1 .. Len(q) : q[i] # link

(* A copy is torn only by a reader a whole ring behind: the queue is full  *)
(* when it ends (README.md, lines 183-188).                                *)
TornMeansQueueFull ==
  \A r \in Readers :
    pc[r] \in {"loop", "give"} /\ popped[r] > 0 /\ torn => QueueFull

(* Each read fetches one buffer and delivers all of it, or fetches none:   *)
(* no retry, short read or timeout loses a buffer (i2s_mic.c, lines 39-42  *)
(* and 316-325).                                                           *)
OneBufferOrNothing ==
  \A r \in Readers : pc[r] = "release" =>
    IF ret[r] = "OK" THEN popped[r] = 1 /\ n[r] = dmaBuf ELSE popped[r] = 0

(* What init() publishes is what the application asked for: a complete,    *)
(* allocated channel whose DMA buffer has the configured size (i2s_mic.c,  *)
(* lines 175-190 and 207-215).                                             *)
PublishedAsConfigured ==
  state # "UNINIT" =>
    rx /\ chState \in {"READY", "RUNNING"} /\ dmaBuf = req /\ GetBufferSize = req

(* Between two control calls a channel is allocated exactly while the      *)
(* component is initialised: no failed init() leaks one (i2s_mic.c, lines  *)
(* 169-221 and 233-242).                                                   *)
NoChannelLeak == ctl = "idle" => (chState = "NONE" <=> state = "UNINIT")

(* The component's view of the channel is never wrong where a caller can   *)
(* rely on it (i2s_mic.c, lines 105-286).                                  *)
ChannelConsistent == RunningMeansEnabled /\ PublishedAsConfigured /\ NoChannelLeak

(* A read that stop() overtakes is told so: it ends with its last full     *)
(* buffer or INVALID_STATE, never with a timeout (i2s_mic.h, lines         *)
(* 120-122; i2s_mic.c, lines 325-328) -- as long as no start() follows     *)
(* before it looks.                                                        *)
StoppedReadLearnsOfStop ==
  \A r \in Readers :
    pc[r] = "release" /\ missed[r] = "stop" => ret[r] \in {"OK", "INVALID_STATE"}

(* The same without that proviso, as i2s_mic.h states it: what a read      *)
(* overtaken by stop() returns is INVALID_STATE or one last buffer of the  *)
(* session that was stopped.                                               *)
StopEndsBlockedRead ==
  \A r \in Readers :
    pc[r] = "release" /\ missed[r] = "restart" =>
      ret[r] = "INVALID_STATE" \/ (ret[r] = "OK" /\ currSeq < sessFirst)

(* i2s_mic.h, lines 24-27: when a torn buffer is possible, the overflow    *)
(* count is already rising.                                                *)
TornOnlyAfterOverflow ==
  \A r \in Readers :
    pc[r] = "release" /\ ret[r] = "OK" /\ torn => GetOverflowCount > 0

-----------------------------------------------------------------------------
(* Liveness *)

InStop == ctl \in {"stop_clear", "stop_disable", "stop_wait", "stop_state"}

(* stop() returns: the reader it waits for always gives the semaphore, and *)
(* no reader takes it again and again (i2s_mic.c, lines 273-285).          *)
StopReturns == InStop ~> ~InStop

Stopped == ctl = "idle" /\ state = "INITIALIZED"

(* A reader leaves its read after stop(), even one that waits forever and  *)
(* enters the driver when disable() has already finished, unless capture   *)
(* is started again (i2s_mic.c, lines 34-38).                              *)
ReaderLeavesAfterStop ==
  \A r \in Readers : Inside(r) /\ Stopped ~> ~Inside(r) \/ ~Stopped

(* A read with a finite timeout returns, whatever the control task does    *)
(* and although every slice may be retried (i2s_mic.c, lines 297-332).     *)
FiniteReadReturns ==
  \A r \in Readers : Inside(r) /\ left[r] # Forever ~> ~Inside(r)
=============================================================================

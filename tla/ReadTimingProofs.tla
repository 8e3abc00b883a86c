-------------------------- MODULE ReadTimingProofs --------------------------
(***************************************************************************)
(* init() is exact for every configuration, and a read and stop() keep to  *)
(* their times for every tick rate, word size, timeout and buffer that     *)
(* TimingAssumption admits.                                                *)
(***************************************************************************)
EXTENDS ReadTiming, TLAPS

ReadSteps == {"idle", "top", "enter", "sem", "loop", "queue", "give", "post"}
Holding   == {"loop", "queue", "give"}      \* the reader has the semaphore
Results   == {"OK", "TIMEOUT", "NOT_ENABLED", "SHORT", "INVALID_STATE"}

MicTypes ==
  /\ asked \subseteq Configs
  /\ answer \in {"none", "OK", "INVALID_ARG", "INVALID_STATE", "INVALID_SIZE"}
  /\ running \in BOOLEAN /\ sem \in BOOLEAN /\ stalled \in BOOLEAN
  /\ chan \in {"off", "READY", "RUNNING"} /\ ready \in Nat /\ age \in Nat
  /\ ctl \in {"idle", "disable", "wait"} /\ blocked \in Nat

ReadTypes ==
  /\ tick \in 0 .. Word - 1 /\ t0 \in 0 .. Word - 1
  /\ pc \in ReadSteps /\ timeout \in Timeouts /\ ret \in Results
  /\ wait \in Nat /\ due \in Nat /\ last \in BOOLEAN
  /\ spent \in Nat /\ lag \in Nat /\ since \in Nat /\ stopped \in Nat
  /\ restarted \in BOOLEAN

TypeOK == MicTypes /\ ReadTypes

-----------------------------------------------------------------------------
(* What init() answers and publishes *)

Accepted(c)  == ArgsOK(c) /\ ActualSize(c) = c.size
Published(c) == [config |-> c, buf_size |-> ActualSize(c), slice_ms |-> SliceOf(c)]

AnsweredRight ==
  \A c \in asked :
    /\ answer = "OK" => Accepted(c)
    /\ answer = "INVALID_ARG" => ~ArgsOK(c)
    /\ answer = "INVALID_SIZE" => ArgsOK(c) /\ ActualSize(c) # c.size

PublishedRight ==
  published # {} => \E c \in Configs : Accepted(c) /\ published = {Published(c)}

(* Whatever goes on, or has gone on, goes on with a streamed configuration.*)
UsedWhenBusy ==
  (running \/ ctl # "idle" \/ Inside \/ ret # "OK") =>
    published # {} /\ Mic.config \in Streamed

-----------------------------------------------------------------------------
(* The channel *)

(* The channel's state at each step of the control task.                   *)
ChannelOfStep ==
  /\ ctl = "idle" => chan = IF running THEN "RUNNING" ELSE "off"
  /\ ctl # "idle" => ~running
  /\ ctl = "disable" => chan = "RUNNING" /\ stopped = 0
  /\ ctl = "wait" => chan = "READY"
  /\ ctl # "wait" => blocked = 0

(* There is a semaphore to take while the channel is on, unless the reader *)
(* has it.                                                                 *)
OneToken ==
  /\ sem <=> (DmaOn /\ pc \notin Holding)
  /\ pc \in Holding => DmaOn

(* A buffer is due within a period.                                        *)
AgeInPeriod == age <= IF published = {} THEN 0 ELSE Period

-----------------------------------------------------------------------------
(* The wait of a read, in ticks *)

SliceTicks == Ticks(Slice)
WaitTicks  == Ticks(wait)
LimitTicks == Ticks(timeout)

Waiting == pc \notin {"idle", "top"}
Failed  == ret \in {"TIMEOUT", "NOT_ENABLED"}
Slept   == since - lag         \* since the last look at the clock, blocked

(* How long the reader has slept in its slice, and what is left of it.  It *)
(* may sleep twice if the channel came back while it waited for it.        *)
WaitOfStep ==
  /\ Inside => lag <= Late /\ lag <= since
  /\ pc \in {"top", "enter", "sem", "loop", "queue"} => ret = "OK"
  /\ pc = "enter" => Slept = 0
  /\ pc = "sem" => Slept + due = WaitTicks /\ (Slept = 0 \/ restarted \/ ~DmaOn)
  /\ pc = "loop" => Slept <= WaitTicks /\ (Slept = 0 \/ restarted)
  /\ pc = "queue" =>
       /\ due <= WaitTicks /\ WaitTicks <= Slept + due
       /\ Slept + due <= WaitTicks + IF restarted THEN WaitTicks ELSE 0
  /\ pc \in {"give", "post"} =>
       /\ Slept <= WaitTicks + IF restarted THEN WaitTicks ELSE 0
       /\ Failed => Slept >= WaitTicks

(* What the slice is cut to.                                               *)
SliceOfStep ==
  Waiting =>
    /\ WaitTicks <= SliceTicks
    /\ IF last THEN timeout # Forever ELSE wait = Slice

(* How late a timeout may be found to be, but for scheduling.              *)
Extra == IF restarted THEN SliceTicks ELSE 0

(* A read with a finite timeout: where the clock is, and how far the read  *)
(* had come when it last looked at it.                                     *)
ClockOfStep ==
  (Inside /\ timeout # Forever) =>
    /\ since <= spent
    /\ tick = IF t0 + spent < Word THEN t0 + spent ELSE t0 + spent - Word
    /\ pc = "top" => spent <= LimitTicks + Extra + lag
    /\ pc # "top" =>
         IF last
         THEN /\ spent - since <= LimitTicks + Extra + Late
              /\ WaitTicks = IF spent - since >= LimitTicks THEN 0
                             ELSE LimitTicks - (spent - since)
         ELSE spent - since + SliceTicks <= LimitTicks

-----------------------------------------------------------------------------
(* stop() *)

(* The longest the reader can still sleep before it looks at `running`.    *)
More == IF pc = "enter" THEN WaitTicks ELSE IF pc \in {"sem", "queue"} THEN due ELSE 0

StoppedInSlice == (Inside /\ ~running) => stopped + More <= SliceTicks + lag

(* The longest until a buffer wakes it.                                    *)
Wake == IF pc = "queue" /\ ready = 0 THEN Period - age ELSE 0

(* stop() waits for a reader that was in the driver before it; when that   *)
(* one has left the driver, none comes in again.                           *)
BlockedByReader ==
  /\ blocked > 0 => pc \in Holding \cup {"post", "idle", "top"}
  /\ (ctl = "wait" /\ pc \in Holding) =>
       IF stalled THEN blocked + More <= SliceTicks + lag
                  ELSE blocked + Wake <= Period + lag

TimingInv ==
  /\ TypeOK /\ AnsweredRight /\ PublishedRight /\ UsedWhenBusy
  /\ ChannelOfStep /\ OneToken /\ AgeInPeriod
  /\ WaitOfStep /\ SliceOfStep /\ ClockOfStep /\ TimesOutOnTime
  /\ StoppedInSlice /\ StopNoticed /\ BlockedByReader /\ StopBlocks

-----------------------------------------------------------------------------
(* Division, and ticks *)

LEMMA Division ==
  ASSUME NEW a \in Int, NEW b \in Nat \ {0}
  PROVE  /\ a \div b \in Int /\ b * (a \div b) <= a /\ a < b * (a \div b) + b
         /\ (a % b) = a - b * (a \div b)
         /\ a \in Nat => a \div b \in Nat
  OBVIOUS

LEMMA QuotientType == \A a \in Nat, b \in Nat \ {0} : a \div b \in Nat
  OBVIOUS

LEMMA Quotient ==
  ASSUME NEW a \in Int, NEW b \in Nat \ {0}, NEW k \in Int, b * k <= a, a < b * k + b
  PROVE  a \div b = k
  OBVIOUS

LEMMA Cancel ==
  ASSUME NEW h \in Nat \ {0}, NEW a \in Int, NEW b \in Int
  PROVE  /\ h * a <= h * b => a <= b
         /\ h * a < h * b => a < b
         /\ a <= b => h * a <= h * b
  OBVIOUS

(* What a counter of w values says. *)
LEMMA Within == \A w \in Nat \ {0} : \A a \in 0 .. w - 1 : (a % w) = a
  OBVIOUS

LEMMA Wrapped ==
  ASSUME NEW w \in Nat \ {0}, NEW a \in Int
  PROVE  /\ (a % w) \in 0 .. w - 1
         /\ a \in 0 .. w - 1 => (a % w) = a
         /\ a + w \in 0 .. w - 1 => (a % w) = a + w
         /\ a - w \in 0 .. w - 1 => (a % w) = a - w
  OBVIOUS

LEMMA TickLength ==
  /\ TickMs \in Nat \ {0} /\ Hz \in Nat \ {0} /\ Hz * TickMs = 1000
  /\ TickMs <= MinSlice /\ MinSlice \in Nat
<1>1. Hz \in Nat \ {0} /\ (1000 % Hz) = 0 /\ Hz <= 1000
  BY TimingAssumption
<1>2. Hz * TickMs = 1000 /\ TickMs \in Int
  BY <1>1, Division DEF TickMs
<1> QED
  BY <1>1, <1>2, TimingAssumption, ConfigAssumption

(* A wait is cut to whole ticks. *)
LEMMA TicksOf ==
  ASSUME NEW ms \in Nat
  PROVE  /\ Ticks(ms) \in Nat
         /\ TickMs * Ticks(ms) <= ms /\ ms < TickMs * Ticks(ms) + TickMs
<1> DEFINE k == Ticks(ms)
<1>1. ms * Hz \in Nat
  BY TickLength
<1>2. k \in Int /\ 1000 * k <= ms * Hz /\ ms * Hz < 1000 * k + 1000 /\ k >= 0
  BY <1>1, Division DEF Ticks
<1> HIDE DEF k
<1>3. Hz * (TickMs * k) = 1000 * k /\ Hz * (TickMs * k + TickMs) = 1000 * k + 1000
  BY <1>2, TickLength
<1>4. TickMs * k <= ms /\ ms < TickMs * k + TickMs
  <2>1. TickMs * k \in Int /\ TickMs * k + TickMs \in Int
    BY <1>2, TickLength
  <2>2. Hz * (TickMs * k) <= Hz * ms /\ Hz * ms < Hz * (TickMs * k + TickMs)
    BY <1>2, <1>3, TickLength
  <2> QED
    BY <2>1, <2>2, TickLength, Cancel
<1> QED
  BY <1>2, <1>4 DEF k

(* ... the longest of them, *)
LEMMA MostTicks ==
  ASSUME NEW ms \in Nat, NEW n \in Int, TickMs * n <= ms
  PROVE  n <= Ticks(ms)
<1>1. TickMs * n < TickMs * (Ticks(ms) + 1)
  BY TicksOf, TickLength
<1> QED
  BY <1>1, TicksOf, TickLength, Cancel

(* ... so that a longer wait is cut to no fewer, *)
LEMMA TicksGrow ==
  ASSUME NEW a \in Nat, NEW b \in Nat, a <= b
  PROVE  Ticks(a) <= Ticks(b)
<1>1. TickMs * Ticks(a) <= b /\ Ticks(a) \in Int
  BY TicksOf, TickLength
<1> QED
  BY <1>1, MostTicks

(* ... and what is left after whole ticks, to those that are left.         *)
LEMMA TicksLeft ==
  ASSUME NEW ms \in Nat, NEW n \in Nat, n * TickMs <= ms
  PROVE  Ticks(ms - n * TickMs) = Ticks(ms) - n
<1> DEFINE rest == ms - n * TickMs
<1>1. rest \in Nat
  BY TickLength
<1>2. TickMs * (Ticks(ms) - n) <= rest
  BY TicksOf, TickLength
<1>3. rest < TickMs * (Ticks(ms) - n + 1)
  BY TicksOf, TickLength
<1>4. Ticks(ms) - n <= Ticks(rest)
  BY <1>1, <1>2, TicksOf, MostTicks
<1>5. TickMs * Ticks(rest) < TickMs * (Ticks(ms) - n + 1)
  BY <1>1, <1>3, TicksOf, TickLength
<1>6. Ticks(rest) < Ticks(ms) - n + 1
  BY <1>1, <1>5, TicksOf, TickLength, Cancel
<1> QED
  BY <1>1, <1>4, <1>6, TicksOf

-----------------------------------------------------------------------------
(* init() *)

(* The fields of a configuration are numbers, and a frame is 2, 4 or 8     *)
(* bytes where the checks let it pass.                                     *)
LEMMA Fields ==
  ASSUME NEW c \in Configs
  PROVE  /\ c.rate \in Int /\ c.bits \in Int /\ c.channels \in Int
         /\ c.count \in Int /\ c.size \in Int
         /\ ArgsOK(c) => BytesPerFrame(c) \in {2, 4, 8} /\ BytesPerFrame(c) = FrameBytes(c)
<1>1. c.rate \in Int /\ c.bits \in Int /\ c.channels \in Int /\ c.count \in Int /\ c.size \in Int
  BY TimingAssumption
<1>2. ASSUME ArgsOK(c)
      PROVE  BytesPerFrame(c) \in {2, 4, 8} /\ BytesPerFrame(c) = FrameBytes(c)
  <2>1. 16 \div 8 = 2 /\ 32 \div 8 = 4
    OBVIOUS
  <2>2. c.bits = 16 \/ c.bits = 32
    BY <1>2 DEF ArgsOK
  <2>3. (c.channels = 1 /\ c.slots = "MONO") \/ (c.channels = 2 /\ c.slots = "STEREO")
    BY <1>2 DEF ArgsOK
  <2> QED
    BY <2>1, <2>2, <2>3 DEF BytesPerFrame, FrameBytes
<1> QED
  BY <1>1, <1>2

(* The driver takes a size as it is, or a smaller one.                     *)
LEMMA SizeTaken ==
  ASSUME NEW c \in Configs, ArgsOK(c)
  PROVE  /\ c.size <= DmaBytes => ActualSize(c) = c.size
         /\ c.size > DmaBytes => ActualSize(c) < c.size
<1> DEFINE f == BytesPerFrame(c)
           s == IF c.size > DmaBytes THEN DmaBytes - (DmaBytes % f) ELSE c.size
<1>1. f \in Nat \ {0} /\ c.count \in Nat \ {0} /\ c.size \in Int /\ DmaBytes \in Nat
  BY Fields, ConfigAssumption DEF ArgsOK
<1> HIDE DEF f
<1>2. s \in Int /\ (c.size > DmaBytes => s <= DmaBytes)
  BY <1>1, Wrapped
<1>3. TotalDma(c) = c.count * s
  BY DEF TotalDma, f
<1> HIDE DEF s
<1>4. TotalDma(c) \div c.count = s
  <2>1. c.count * s \in Int /\ c.count * s < c.count * s + c.count
    BY <1>1, <1>2
  <2> QED
    BY <1>1, <1>2, <1>3, <2>1, Quotient
<1> QED
  BY <1>1, <1>2, <1>4 DEF ActualSize, s

(* init() answers by what can be allocated.                                *)
LEMMA AcceptedIsAllocatable ==
  ASSUME NEW c \in Configs
  PROVE  /\ Accepted(c) => Allocatable(c)
         /\ ~ArgsOK(c) => ~Allocatable(c)
         /\ ArgsOK(c) /\ ActualSize(c) # c.size => ~Allocatable(c) /\ c.size > DmaBytes
<1> DEFINE f == FrameBytes(c)
<1>1. c.size \in Int /\ DmaBytes \in Nat
  BY Fields, ConfigAssumption
<1>2. ASSUME Accepted(c)
      PROVE  Allocatable(c)
  <2>1. f \in Nat \ {0} /\ (c.size % f) = 0 /\ c.size > 0 /\ c.size <= DmaBytes
    BY <1>1, <1>2, Fields, SizeTaken DEF Accepted, ArgsOK
  <2>2. f > 0 /\ c.rate > 0 /\ c.count > 1 /\ c.channels = IF c.slots = "MONO" THEN 1 ELSE 2
    BY <1>2, <2>1, Fields DEF Accepted, ArgsOK
  <2> HIDE DEF f
  <2> DEFINE k == c.size \div f
  <2>3. k \in Int /\ (c.size % f) = c.size - f * k
    BY <1>1, <2>1, Division
  <2> HIDE DEF k
  <2>4. c.size = f * k
    BY <1>1, <2>1, <2>3
  <2>5. k >= 1
    <3>1. f * 0 < f * k
      BY <2>1, <2>3, <2>4
    <3> QED
      BY <2>1, <2>3, <2>4, <3>1, Cancel
  <2>6. k <= DmaBytes \div f
    <3> DEFINE m == DmaBytes \div f
    <3>1. m \in Int /\ DmaBytes < f * m + f
      BY <1>1, <2>1, Division
    <3> HIDE DEF m
    <3>2. f * (m + 1) = f * m + f /\ f * m \in Int /\ m + 1 \in Int
      BY <2>1, <3>1
    <3>3. f * k < f * (m + 1)
      BY <1>1, <2>1, <2>3, <2>4, <3>1, <3>2
    <3>4. k < m + 1
      BY <2>1, <2>3, <2>4, <3>2, <3>3, Cancel
    <3> QED
      BY <2>3, <2>4, <3>1, <3>4 DEF m
  <2>7. DmaBytes \div f \in Int /\ c.size = k * f
    BY <1>1, <2>1, <2>3, <2>4, Division
  <2>8. \E j \in 1 .. DmaBytes \div f : c.size = j * f
    BY <2>3, <2>4, <2>5, <2>6, <2>7
  <2> QED
    BY <2>2, <2>8 DEF Allocatable, f
<1>3. ASSUME Allocatable(c)
      PROVE  ArgsOK(c) /\ c.size <= DmaBytes
  <2>1. c.bits \in {16, 32} /\ c.slots \in {"MONO", "STEREO"} /\ f \in {2, 4, 8}
    BY <1>3 DEF Allocatable, FrameBytes
  <2>2. c.rate > 0 /\ c.count >= 2 /\ c.channels = IF c.slots = "MONO" THEN 1 ELSE 2
    BY <1>3, Fields DEF Allocatable
  <2>3. 16 \div 8 = 2 /\ 32 \div 8 = 4
    OBVIOUS
  <2>4. BytesPerFrame(c) = f
    BY <2>1, <2>2, <2>3 DEF BytesPerFrame, FrameBytes
  <2>5. PICK k \in 1 .. DmaBytes \div f : c.size = k * f
    BY <1>3 DEF Allocatable
  <2> HIDE DEF f
  <2>6. c.size > 0 /\ (c.size % f) = 0
    BY <2>1, <2>5
  <2>7. c.size <= DmaBytes
    BY <1>1, <2>1, <2>5
  <2> QED
    BY <2>1, <2>2, <2>4, <2>6, <2>7 DEF ArgsOK
<1> QED
  BY <1>1, <1>2, <1>3, SizeTaken

(* A buffer's period is rounded up to the next ms.                         *)
LEMMA PeriodRounded ==
  ASSUME NEW frames \in Nat, NEW rate \in Nat \ {0}
  PROVE  /\ PeriodMs(frames, rate) \in Nat
         /\ rate * PeriodMs(frames, rate) >= frames * 1000
         /\ rate * (PeriodMs(frames, rate) - 1) < frames * 1000
<1> DEFINE p == PeriodMs(frames, rate)
           a == frames * 1000 + rate - 1
<1>1. a \in Nat
  OBVIOUS
<1>2. p = a \div rate
  BY DEF PeriodMs
<1> HIDE DEF p, a
<1>3. p \in Nat /\ rate * p <= a /\ a < rate * p + rate
  BY <1>1, <1>2, Division
<1>4. rate * (p - 1) = rate * p - rate /\ rate * p \in Int
  BY <1>3
<1> QED
  BY <1>3, <1>4 DEF p, a

(* A slice is twice that, or the minimum.                                  *)
LEMMA SliceCovers ==
  ASSUME NEW c \in Configs, ArgsOK(c)
  PROVE  /\ FramesOf(c) \in Nat /\ c.rate \in Nat \ {0}
         /\ FramesOf(c) = c.size \div FrameBytes(c)
         /\ SliceOf(c) \in Nat /\ SliceOf(c) >= MinSlice
         /\ SliceOf(c) * c.rate >= 2000 * FramesOf(c)
         /\ SliceOf(c) = MinSlice \/ (SliceOf(c) - 2) * c.rate < 2000 * FramesOf(c)
<1> DEFINE f == FramesOf(c)
           r == c.rate
           p == PeriodMs(f, r)
<1>1. f \in Nat /\ r \in Nat \ {0} /\ f = c.size \div FrameBytes(c)
  <2>1. r \in Nat \ {0} /\ c.size \in Nat
    BY Fields DEF ArgsOK
  <2>2. FrameBytes(c) \in Nat \ {0} /\ f = c.size \div FrameBytes(c)
    BY Fields DEF FramesOf
  <2>3. c.size \div FrameBytes(c) \in Nat
    BY <2>1, <2>2, QuotientType
  <2> QED
    BY <2>1, <2>2, <2>3
<1>2. SliceOf(c) = IF 2 * p < MinSlice THEN MinSlice ELSE 2 * p
  BY DEF SliceOf, SliceMs
<1> HIDE DEF f, r
<1>3. p \in Nat /\ r * p >= f * 1000 /\ r * (p - 1) < f * 1000
  BY <1>1, PeriodRounded
<1> HIDE DEF p
<1>4. MinSlice \in Nat
  BY ConfigAssumption
<1>5. (2 * p) * r >= 2000 * f /\ (2 * p - 2) * r < 2000 * f
  <2>1. (2 * p) * r = 2 * (r * p) /\ (2 * p - 2) * r = 2 * (r * (p - 1))
    BY <1>1, <1>3
  <2>2. r * p \in Int /\ r * (p - 1) \in Int
    BY <1>1, <1>3
  <2> QED
    BY <1>1, <1>3, <2>1, <2>2
<1>6. CASE 2 * p < MinSlice
  <2>1. MinSlice * r >= (2 * p) * r
    BY <1>1, <1>3, <1>4, <1>6, Cancel
  <2>2. MinSlice * r \in Int /\ (2 * p) * r \in Int
    BY <1>1, <1>3, <1>4
  <2> QED
    BY <1>1, <1>2, <1>4, <1>5, <1>6, <2>1, <2>2 DEF f, r
<1>7. CASE ~(2 * p < MinSlice)
  BY <1>1, <1>2, <1>3, <1>4, <1>5, <1>7 DEF f, r
<1> QED
  BY <1>6, <1>7

(* Both together: init() is exact.                                         *)
LEMMA ExactWhenRight ==
  ASSUME asked \subseteq Configs, AnsweredRight, PublishedRight
  PROVE  InitIsExact
<1>1. AcceptsExactlyAllocatable
  BY AcceptedIsAllocatable DEF AcceptsExactlyAllocatable, AnsweredRight
<1>2. SliceCoversTwoBuffers
  <2> SUFFICES ASSUME NEW p \in published
               PROVE  LET c == p.config  twice == 2 * 1000 * (c.size \div FrameBytes(c)) IN
                      /\ p.slice_ms * c.rate >= twice
                      /\ p.slice_ms = MinSlice \/ (p.slice_ms - 2) * c.rate < twice
    BY DEF SliceCoversTwoBuffers
  <2>1. PICK c \in Configs : Accepted(c) /\ p = Published(c)
    BY DEF PublishedRight
  <2>2. p.config = c /\ p.slice_ms = SliceOf(c)
    BY <2>1 DEF Published
  <2>3. 2 * 1000 * (c.size \div FrameBytes(c)) = 2000 * FramesOf(c)
    BY <2>1, SliceCovers DEF Accepted
  <2> QED
    BY <2>1, <2>2, <2>3, SliceCovers DEF Accepted
<1> QED
  BY <1>1, <1>2 DEF InitIsExact

(* The configuration that is published.                                    *)
LEMMA InUseNumbers ==
  ASSUME PublishedRight, published # {}
  PROVE  /\ Slice \in Nat /\ Slice = SliceOf(Mic.config)
         /\ SliceTicks \in Nat \ {0} /\ TickMs * SliceTicks <= Slice
         /\ Period \in Nat /\ QueueLen \in Nat \ {0}
<1>1. PICK c \in Configs : Accepted(c) /\ published = {Published(c)}
  BY DEF PublishedRight
<1>2. Mic = Published(c)
  BY <1>1 DEF Mic
<1>3. Mic.config = c /\ Mic.slice_ms = SliceOf(c)
  BY <1>2 DEF Published
<1>4. Slice \in Nat /\ Slice >= MinSlice /\ Slice = SliceOf(Mic.config)
  BY <1>1, <1>3, SliceCovers DEF Accepted, Slice
<1>5. SliceTicks \in Nat /\ TickMs * SliceTicks <= Slice
  BY <1>4, TicksOf DEF SliceTicks
<1>6. SliceTicks >= 1
  <2>1. TickMs * 1 <= Slice
    BY <1>4, TickLength
  <2> QED
    BY <1>4, <2>1, MostTicks DEF SliceTicks
<1>7. QueueLen \in Nat \ {0}
  BY <1>1, <1>3, Fields DEF QueueLen, Accepted, ArgsOK
<1>8. Period \in Nat
  <2> DEFINE p == PeriodMs(FramesOf(c), c.rate)
  <2>1. p \in Nat
    <3> DEFINE f == FramesOf(c)
               r == c.rate
    <3>1. f \in Nat /\ r \in Nat \ {0}
      BY <1>1, SliceCovers DEF Accepted
    <3> HIDE DEF f, r
    <3>2. PeriodMs(f, r) \in Nat
      BY <3>1, PeriodRounded
    <3> QED
      BY <3>2 DEF f, r
  <2>2. Period = (p + TickMs - 1) \div TickMs
    BY <1>3 DEF Period
  <2> HIDE DEF p
  <2>3. p + TickMs - 1 \in Nat
    BY <2>1, TickLength
  <2> QED
    BY <2>2, <2>3, TickLength, QuotientType
<1> QED
  BY <1>4, <1>5, <1>6, <1>7, <1>8

PeriodIsNumber == published # {} => Period \in Nat
LEMMA PeriodNumber == PublishedRight => PeriodIsNumber
  BY InUseNumbers DEF PeriodIsNumber

-----------------------------------------------------------------------------
(* The numbers of a state, and what a step leaves of them *)

LEMMA Settings ==
  /\ Word \in Nat \ {0} /\ Late \in Nat /\ Starts \subseteq 0 .. Word - 1
  /\ Forever \in Timeouts /\ \A t \in Timeouts : t # Forever => t \in Nat
<1>1. Word \in Nat /\ Late \in Nat /\ Starts \subseteq 0 .. Word - 1 /\ Forever \in Timeouts
  BY TimingAssumption
<1>2. PICK n \in Starts : TRUE
  BY TimingAssumption
<1>3. Word # 0
  BY <1>1, <1>2
<1>4. \A t \in Timeouts : t # Forever => t \in Nat
  BY TimingAssumption
<1> QED
  BY <1>1, <1>3, <1>4

(* A read with a finite timeout is over long before the clock wraps twice. *)
LEMMA FarFromWrap ==
  ASSUME TypeOK, PublishedRight, published # {}, Mic.config \in Streamed, timeout # Forever
  PROVE  /\ timeout \in Nat /\ LimitTicks \in Nat
         /\ TickMs * LimitTicks <= timeout /\ timeout < TickMs * LimitTicks + TickMs
         /\ TickMs * (LimitTicks + SliceTicks + 2 * Late + 1) < Word
         /\ LimitTicks + SliceTicks + 2 * Late + 1 < Word
<1>1. timeout \in Nat /\ Late \in Nat /\ Word \in Nat
  BY Settings DEF TypeOK, MicTypes, ReadTypes
<1>2. LimitTicks \in Nat /\ TickMs * LimitTicks <= timeout /\ timeout < TickMs * LimitTicks + TickMs
  BY <1>1, TicksOf DEF LimitTicks
<1>3. timeout + 2 * Slice + 2 * (Late + 1) * TickMs < Word
  BY TimingAssumption, InUseNumbers DEF TypeOK, MicTypes, ReadTypes
<1>4. SliceTicks \in Nat /\ TickMs * SliceTicks <= Slice /\ Slice \in Nat
  BY InUseNumbers
<1> DEFINE n == LimitTicks + SliceTicks + 2 * Late + 1
<1>5. TickMs * n = TickMs * LimitTicks + TickMs * SliceTicks + 2 * (Late * TickMs) + TickMs
  BY <1>1, <1>2, <1>4, TickLength
<1>6. 2 * (Late + 1) * TickMs = 2 * (Late * TickMs) + 2 * TickMs /\ Late * TickMs \in Nat
  BY <1>1, TickLength
<1>7. TickMs * n < Word
  <2>1. TickMs * LimitTicks \in Int /\ TickMs * SliceTicks \in Int
    BY <1>2, <1>4, TickLength
  <2> QED
    BY <1>1, <1>2, <1>3, <1>4, <1>5, <1>6, <2>1, TickLength
<1>8. n \in Nat
  BY <1>1, <1>2, <1>4
<1>9. n <= TickMs * n
  <2> HIDE DEF n
  <2> QED
    BY <1>8, TickLength
<1>10. n < Word
  <2>1. TickMs * n \in Int
    BY <1>8, TickLength
  <2> QED
    BY <1>1, <1>7, <1>8, <1>9, <2>1
<1> QED
  BY <1>1, <1>2, <1>7, <1>10

(* What is published fixes the slice and the period.                       *)
LEMMA SamePublished ==
  published' = published =>
    /\ Slice' = Slice /\ SliceTicks' = SliceTicks /\ Period' = Period
    /\ QueueLen' = QueueLen /\ (Mic.config)' = Mic.config
  BY DEF Slice, SliceTicks, Period, QueueLen, Mic

(* The time a read has since its call, as the tick counter tells it.       *)
LEMMA ElapsedIsSpent ==
  ASSUME TypeOK, PublishedRight, published # {}, Mic.config \in Streamed, timeout # Forever,
         tick = IF t0 + spent < Word THEN t0 + spent ELSE t0 + spent - Word,
         spent <= LimitTicks + SliceTicks + 2 * Late + 1
  PROVE  ElapsedMs = spent * TickMs /\ spent * TickMs \in Nat
<1>1. Word \in Nat \ {0} /\ t0 \in 0 .. Word - 1 /\ spent \in Nat /\ tick \in 0 .. Word - 1
  BY Settings DEF TypeOK, MicTypes, ReadTypes
<1> DEFINE n == LimitTicks + SliceTicks + 2 * Late + 1
<1>2. n \in Nat /\ n < Word /\ TickMs * n < Word
  BY FarFromWrap, InUseNumbers, Settings
<1>3. ((tick - t0) % Word) = spent
  <2>1. tick - t0 = spent \/ tick - t0 = spent - Word
    BY <1>1
  <2>2. spent \in 0 .. Word - 1
    BY <1>1, <1>2
  <2> DEFINE d == tick - t0
  <2>3. d \in Int
    BY <1>1
  <2> HIDE DEF d
  <2>4. d + Word \in 0 .. Word - 1 \/ d \in 0 .. Word - 1
    BY <1>1, <2>1, <2>2 DEF d
  <2>5. (d % Word) = IF d \in 0 .. Word - 1 THEN d ELSE d + Word
    BY <1>1, <2>3, <2>4, Wrapped
  <2> QED
    BY <1>1, <2>1, <2>2, <2>5 DEF d
<1> HIDE DEF n
<1>4. spent * TickMs \in 0 .. Word - 1
  <2>1. TickMs * spent <= TickMs * n
    BY <1>1, <1>2, TickLength, Cancel DEF n
  <2>2. TickMs * spent = spent * TickMs /\ spent * TickMs \in Nat /\ TickMs * n \in Int
    BY <1>1, <1>2, TickLength
  <2> QED
    BY <1>1, <1>2, <2>1, <2>2
<1>5. ((spent * TickMs) % Word) = spent * TickMs
  <2> DEFINE e == spent * TickMs
  <2>1. e \in 0 .. Word - 1 /\ e \in Int
    BY <1>1, <1>4
  <2> HIDE DEF e
  <2>2. (e % Word) = e
    BY <1>1, <2>1, Within
  <2> QED
    BY <2>2 DEF e
<1> QED
  BY <1>3, <1>4, <1>5 DEF ElapsedMs

-----------------------------------------------------------------------------
(* Types *)

LEMMA InitTiming == Init => TimingInv
<1> SUFFICES ASSUME Init
             PROVE  TimingInv
  OBVIOUS
<1>1. TypeOK
  <2>1. 0 \in 0 .. Word - 1
    BY Settings
  <2> QED
    BY <2>1, Settings DEF Init, TypeOK, MicTypes, ReadTypes, ReadSteps, Results
<1>2. AnsweredRight /\ PublishedRight /\ UsedWhenBusy
  BY DEF Init, AnsweredRight, PublishedRight, UsedWhenBusy, Inside
<1>3. ChannelOfStep /\ OneToken /\ AgeInPeriod
  BY DEF Init, ChannelOfStep, OneToken, AgeInPeriod, DmaOn, Holding
<1>4. WaitOfStep /\ SliceOfStep /\ ClockOfStep
  BY DEF Init, WaitOfStep, SliceOfStep, ClockOfStep, Inside, Waiting
<1>5. TimesOutOnTime /\ StoppedInSlice /\ StopNoticed /\ BlockedByReader /\ StopBlocks
  BY DEF Init, TimesOutOnTime, NotTooEarly, NotTooLate, TimedOut, StoppedInSlice,
         StopNoticed, Inside, BlockedByReader, StopBlocks
<1> QED
  BY <1>1, <1>2, <1>3, <1>4, <1>5 DEF TimingInv

(* The wait of the next slice is a number of ms.                           *)
LEMMA WaitType ==
  ASSUME TimingInv, running
  PROVE  WaitMs \in Nat
<1>1. Slice \in Nat
  BY InUseNumbers DEF TimingInv, UsedWhenBusy
<1>2. CASE timeout = Forever
  BY <1>1, <1>2 DEF WaitMs
<1>3. CASE timeout # Forever
  <2>1. timeout \in Nat /\ Word \in Nat \ {0}
    BY <1>3, Settings DEF TimingInv, TypeOK, MicTypes, ReadTypes
  <2>2. ElapsedMs \in Nat
    <3> DEFINE a == ((tick - t0) % Word) * TickMs
    <3>1. tick - t0 \in Int
      BY DEF TimingInv, TypeOK, MicTypes, ReadTypes
    <3>2. ((tick - t0) % Word) \in Int
      BY <2>1, <3>1, Wrapped
    <3>3. a \in Int
      BY <3>2, TickLength
    <3>4. ElapsedMs = (a % Word)
      BY DEF ElapsedMs
    <3> HIDE DEF a
    <3> QED
      BY <2>1, <3>3, <3>4, Wrapped
  <2> QED
    BY <1>1, <2>1, <2>2 DEF WaitMs, RemainingMs
<1> QED
  BY <1>2, <1>3

LEMMA MicTypesKeep ==
  ASSUME TimingInv, Next
  PROVE  MicTypes'
<1> USE DEF cfgVars, chVars, ctlVars, rdVars, history
<1>0. MicTypes
  BY DEF TimingInv, TypeOK
<1>1. ASSUME NEW c \in Tried, InitCall(c)
      PROVE  MicTypes'
  <2>1. c \in Configs
    BY TimingAssumption DEF Tried
  <2>2. Answer(c) \in {"none", "OK", "INVALID_ARG", "INVALID_STATE", "INVALID_SIZE"}
    BY DEF Answer
  <2> QED
    BY <1>0, <1>1, <2>1, <2>2 DEF InitCall, MicTypes
<1>2. CASE Return
  BY <1>0, <1>2 DEF Return, MicTypes
<1>3. CASE Deinit
  BY <1>0, <1>3 DEF Deinit, MicTypes
<1>4. CASE Deliver
  BY <1>0, <1>4 DEF Deliver, MicTypes
<1>5. CASE StopClear
  BY <1>0, <1>5 DEF StopClear, MicTypes
<1>6. CASE StopDisable
  BY <1>0, <1>6 DEF StopDisable, MicTypes
<1>7. CASE StopWait
  BY <1>0, <1>7 DEF StopWait, MicTypes
<1>8. CASE Start
  BY <1>0, <1>8 DEF Start, MicTypes
<1>9. ASSUME NEW t \in Timeouts, Call(t)
      PROVE  MicTypes'
  BY <1>0, <1>9 DEF Call, MicTypes
<1>10. CASE RdReceive
  BY <1>0, <1>10 DEF RdReceive, MicTypes
<1>11. CASE RdSem \/ RdGive
  BY <1>0, <1>11 DEF RdSem, RdGive, MicTypes
<1>12. CASE RdTop \/ RdEnter \/ RdSemTimeout \/ RdLoop \/ RdQueueTimeout \/ RdPost
  <2>1. UNCHANGED <<cfgVars, chVars, ctlVars>>
    BY <1>12 DEF RdTop, RdEnter, RdSemTimeout, RdLoop, RdQueueTimeout, RdPost
  <2> QED
    BY <1>0, <2>1 DEF MicTypes
<1>13. CASE Tick
  BY <1>0, <1>13 DEF Tick, MicTypes
<1> QED
  BY <1>1, <1>2, <1>3, <1>4, <1>5, <1>6, <1>7, <1>8, <1>9, <1>10, <1>11, <1>12, <1>13 DEF Next, Reader

LEMMA ReadTypesKeep ==
  ASSUME TimingInv, Next
  PROVE  ReadTypes'
<1> USE DEF rdVars, history, ReadSteps, Results
<1>0. ReadTypes /\ 0 \in 0 .. Word - 1 /\ Forever \in Timeouts
  BY Settings DEF TimingInv, TypeOK
<1>1. CASE \/ \E c \in Tried : InitCall(c)
           \/ Return \/ Deliver \/ StopDisable \/ StopWait
  <2>1. UNCHANGED <<tick, rdVars, history>>
    BY <1>1 DEF InitCall, Return, Deliver, StopDisable, StopWait
  <2> QED
    BY <1>0, <2>1 DEF ReadTypes
<1>2. CASE Deinit
  BY <1>0, <1>2 DEF Deinit, ReadTypes
<1>3. CASE StopClear
  BY <1>0, <1>3 DEF StopClear, ReadTypes
<1>4. CASE Start
  BY <1>0, <1>4 DEF Start, ReadTypes
<1>5. ASSUME NEW t \in Timeouts, Call(t)
      PROVE  ReadTypes'
  <2>1. tick' \in 0 .. Word - 1
    BY <1>5, Settings DEF Call
  <2> QED
    BY <1>0, <1>5, <2>1 DEF Call, ReadTypes
<1>6. CASE RdTop /\ ~running
  <2>1. pc' = "idle" /\ ret' = "INVALID_STATE" /\ wait' = 0 /\ due' = 0 /\ last' = FALSE
    BY <1>6 DEF RdTop, ReturnWith
  <2>2. lag' = 0 /\ since' = 0 /\ UNCHANGED <<tick, t0, timeout, spent, stopped, restarted>>
    BY <1>6 DEF RdTop, ReturnWith
  <2> QED
    BY <1>0, <2>1, <2>2 DEF ReadTypes
<1>7. CASE RdTop /\ running
  <2>1. WaitMs \in Nat
    BY <1>7, WaitType
  <2>2. wait' \in Nat /\ last' \in BOOLEAN
    BY <1>7, <2>1, Zenon DEF RdTop
  <2>3. pc' = "enter" /\ lag' = 0 /\ since' = 0
    BY <1>7 DEF RdTop
  <2>4. UNCHANGED <<tick, t0, timeout, due, ret, spent, stopped, restarted>>
    BY <1>7 DEF RdTop
  <2> QED
    BY <1>0, <2>2, <2>3, <2>4 DEF ReadTypes
<1>8. CASE RdEnter \/ RdLoop
  <2>1. Ticks(wait) \in Nat
    BY <1>0, TicksOf DEF ReadTypes
  <2> QED
    BY <1>0, <1>8, <2>1 DEF RdEnter, RdLoop, ReadTypes
<1>9. CASE RdSem \/ RdReceive \/ RdGive
  BY <1>0, <1>9 DEF RdSem, RdReceive, RdGive, Goto, ReadTypes
<1>10. CASE RdSemTimeout \/ RdQueueTimeout
  BY <1>0, <1>10 DEF RdSemTimeout, RdQueueTimeout, ReadTypes
<1>11. CASE RdPost
  <2>1. ret' \in Results /\ pc' \in ReadSteps
    BY <1>11 DEF RdPost, ReturnWith
  <2>2. wait' \in Nat /\ due' \in Nat /\ last' \in BOOLEAN
    <3>1. CASE Retried
      BY <1>0, <1>11, <3>1 DEF RdPost, ReadTypes
    <3>2. CASE ~Retried
      <4>1. wait' = 0 /\ due' = 0 /\ last' = FALSE
        BY <1>11, <3>2 DEF RdPost, ReturnWith
      <4> QED
        BY <4>1
    <3> QED
      BY <3>1, <3>2
  <2>3. UNCHANGED <<tick, t0, timeout, history>>
    BY <1>11 DEF RdPost, ReturnWith
  <2> QED
    BY <1>0, <2>1, <2>2, <2>3 DEF ReadTypes
<1>12. CASE Tick
  <2>1. tick' \in 0 .. Word - 1
    <3>1. ((tick + 1) % Word) \in 0 .. Word - 1
      BY <1>0, Settings, Wrapped DEF ReadTypes
    <3> QED
      BY <1>0, <1>12, <3>1 DEF Tick, ReadTypes
  <2>2. due' \in Nat
    BY <1>0, <1>12 DEF Tick, Blocked, ReadTypes
  <2>3. spent' \in Nat /\ lag' \in Nat /\ since' \in Nat /\ stopped' \in Nat
    BY <1>0, <1>12 DEF Tick, ReadTypes
  <2>4. UNCHANGED <<pc, timeout, t0, wait, last, ret, restarted>>
    BY <1>12 DEF Tick
  <2> QED
    BY <1>0, <2>1, <2>2, <2>3, <2>4 DEF ReadTypes
<1> QED
  BY <1>1, <1>2, <1>3, <1>4, <1>5, <1>6, <1>7, <1>8, <1>9, <1>10, <1>11, <1>12 DEF Next, Reader

-----------------------------------------------------------------------------
(* init(), and the channel *)

LEMMA ConfigKeeps ==
  ASSUME TimingInv, Next
  PROVE  (AnsweredRight /\ PublishedRight /\ UsedWhenBusy)'
<1> USE DEF cfgVars, chVars, ctlVars, rdVars, history
<1>0. AnsweredRight /\ PublishedRight /\ UsedWhenBusy /\ asked \subseteq Configs
  BY DEF TimingInv, TypeOK, MicTypes
<1>1. ASSUME NEW c \in Tried, InitCall(c)
      PROVE  (AnsweredRight /\ PublishedRight /\ UsedWhenBusy)'
  <2>1. c \in Configs
    BY TimingAssumption DEF Tried
  <2>2. AnsweredRight'
    BY <1>1 DEF InitCall, Answer, AnsweredRight, Accepted
  <2>3. PublishedRight'
    BY <1>0, <1>1, <2>1 DEF InitCall, Answer, PublishedRight, Accepted, Published
  <2>4. UsedWhenBusy'
    BY <1>1 DEF InitCall, Unused, UsedWhenBusy, Inside
  <2> QED
    BY <2>2, <2>3, <2>4
<1>2. CASE Return
  <2>1. AnsweredRight'
    BY <1>2 DEF Return, AnsweredRight
  <2>2. PublishedRight' /\ UsedWhenBusy'
    BY <1>0, <1>2, SamePublished DEF Return, PublishedRight, UsedWhenBusy, Inside
  <2> QED
    BY <2>1, <2>2
<1>3. CASE Deinit
  BY <1>0, <1>3 DEF Deinit, AnsweredRight, PublishedRight, UsedWhenBusy, Inside
<1>4. CASE Start \/ \E t \in Timeouts : Call(t)
  <2>1. UNCHANGED cfgVars /\ InUse
    BY <1>4 DEF Start, Call
  <2>2. published # {} /\ Mic.config \in Streamed
    <3>1. PICK p \in published : p.config \in Streamed
      BY <2>1 DEF InUse
    <3>2. PICK c \in Configs : published = {Published(c)}
      BY <1>0, <3>1 DEF PublishedRight
    <3>3. Mic = p
      BY <3>1, <3>2 DEF Mic
    <3> QED
      BY <3>1, <3>3
  <2> QED
    BY <1>0, <2>1, <2>2, SamePublished DEF AnsweredRight, PublishedRight, UsedWhenBusy
<1>5. CASE Deliver \/ StopClear \/ StopDisable \/ StopWait \/ Reader \/ Tick
  <2>1. UNCHANGED cfgVars
    BY <1>5 DEF Deliver, StopClear, StopDisable, StopWait, Reader, RdTop, RdEnter, RdSem,
                RdSemTimeout, RdLoop, RdReceive, RdQueueTimeout, RdGive, RdPost, Tick
  <2>2. running \/ ctl # "idle" \/ Inside \/ ret # "OK" \/ (Deliver \/ Tick)
    BY <1>5 DEF StopClear, StopDisable, StopWait, Reader, RdTop, RdEnter, RdSem,
                RdSemTimeout, RdLoop, RdReceive, RdQueueTimeout, RdGive, RdPost, Inside
  <2>3. Deliver \/ Tick => UNCHANGED <<running, ctl, pc, ret>>
    BY DEF Deliver, Tick
  <2> QED
    BY <1>0, <2>1, <2>2, <2>3, SamePublished
       DEF AnsweredRight, PublishedRight, UsedWhenBusy, Inside
<1> QED
  BY <1>1, <1>2, <1>3, <1>4, <1>5 DEF Next

(* The steps between init() and deinit().                                  *)
Working ==
  \/ Deliver \/ StopClear \/ StopDisable \/ StopWait \/ Start
  \/ (\E t \in Timeouts : Call(t)) \/ Reader \/ Tick

LEMMA WorkingKeeps ==
  ASSUME Working
  PROVE  /\ UNCHANGED cfgVars
         /\ Slice' = Slice /\ SliceTicks' = SliceTicks /\ Period' = Period
         /\ QueueLen' = QueueLen
<1>1. UNCHANGED cfgVars
  BY DEF Working, Deliver, StopClear, StopDisable, StopWait, Start, Call, Reader, RdTop, RdEnter,
         RdSem, RdSemTimeout, RdLoop, RdReceive, RdQueueTimeout, RdGive, RdPost, Tick
<1> QED
  BY <1>1, SamePublished DEF cfgVars

(* Start finds the channel off, and only stop() turns it off again.        *)
LEMMA ChannelKeeps ==
  ASSUME TimingInv, Next
  PROVE  (ChannelOfStep /\ OneToken /\ AgeInPeriod)'
<1> USE DEF cfgVars, chVars, ctlVars, rdVars, history
<1>0. ChannelOfStep /\ OneToken /\ AgeInPeriod /\ UsedWhenBusy /\ PublishedRight /\ TypeOK
  BY DEF TimingInv
<1>1. CASE (\E c \in Tried : InitCall(c)) \/ Return
  <2>1. UNCHANGED <<chVars, ctlVars, rdVars, history>>
    BY <1>1 DEF InitCall, Return
  <2>2. AgeInPeriod'
    <3>1. CASE published' = published
      BY <1>0, <2>1, <3>1, SamePublished DEF AgeInPeriod
    <3>2. CASE published' # published
      <4>1. published = {}
        BY <1>1, <3>2 DEF InitCall, Return, Answer
      <4>2. age' <= 0 /\ age' \in Nat
        BY <1>0, <2>1, <4>1 DEF AgeInPeriod, TypeOK, MicTypes
      <4>3. PeriodIsNumber'
        <5>1. PublishedRight'
          BY ConfigKeeps
        <5> QED
          BY <5>1, PeriodNumber, PTL
      <4> QED
        BY <4>2, <4>3 DEF AgeInPeriod, PeriodIsNumber
    <3> QED
      BY <3>1, <3>2
  <2> QED
    BY <1>0, <2>1, <2>2 DEF ChannelOfStep, OneToken, DmaOn
<1>2. CASE Deinit
  <2>1. ctl' = ctl /\ ctl = "idle" /\ pc' = pc /\ pc = "idle" /\ UNCHANGED <<running, chan, sem, blocked>>
    BY <1>2 DEF Deinit, Inside
  <2> QED
    BY <1>0, <1>2, <2>1 DEF Deinit, ChannelOfStep, OneToken, AgeInPeriod, DmaOn
<1>3. ASSUME Working, age' \in {0, age}
      PROVE  AgeInPeriod'
  BY <1>0, <1>3, WorkingKeeps, PeriodNumber DEF AgeInPeriod, PeriodIsNumber
<1>4. CASE Deliver
  <2>1. AgeInPeriod'
    BY <1>3, <1>4 DEF Working, Deliver
  <2> QED
    BY <1>0, <1>4, <2>1 DEF Deliver, ChannelOfStep, OneToken, DmaOn
<1>5. CASE StopClear \/ StopDisable \/ StopWait
  <2>1. AgeInPeriod'
    BY <1>3, <1>5 DEF Working, StopClear, StopDisable, StopWait
  <2> QED
    BY <1>0, <1>5, <2>1 DEF StopClear, StopDisable, StopWait, ChannelOfStep, OneToken, DmaOn
<1>6. CASE Start
  <2>1. AgeInPeriod'
    BY <1>3, <1>6 DEF Working, Start
  <2>2. ctl' = "idle" /\ running' = TRUE /\ chan' = "RUNNING" /\ sem' = TRUE /\ pc' = pc
    BY <1>6 DEF Start
  <2>3. pc \notin Holding /\ blocked' = 0
    BY <1>0, <1>6 DEF Start, ChannelOfStep, OneToken, DmaOn
  <2> QED
    BY <2>1, <2>2, <2>3 DEF ChannelOfStep, OneToken, DmaOn
<1>7. ASSUME NEW t \in Timeouts, Call(t)
      PROVE  (ChannelOfStep /\ OneToken /\ AgeInPeriod)'
  <2>1. AgeInPeriod'
    BY <1>3, <1>7 DEF Working, Call
  <2> QED
    BY <1>0, <1>7, <2>1 DEF Call, ChannelOfStep, OneToken, DmaOn, Inside, Holding
<1>8. CASE Reader
  <2>1. UNCHANGED <<running, chan, age, stalled, ctl, blocked, stopped>>
    BY <1>8 DEF Reader, RdTop, RdEnter, RdSem, RdSemTimeout, RdLoop, RdReceive, RdQueueTimeout,
                RdGive, RdPost
  <2>2. ChannelOfStep'
    BY <1>0, <2>1 DEF ChannelOfStep
  <2>3. AgeInPeriod'
    BY <1>3, <1>8, <2>1 DEF Working
  <2>4. OneToken'
    BY <1>0, <1>8, <2>1 DEF Reader, RdTop, RdEnter, RdSem, RdSemTimeout, RdLoop, RdReceive,
         RdQueueTimeout, RdGive, RdPost, Goto, ReturnWith, OneToken, DmaOn, Holding
  <2> QED
    BY <2>2, <2>3, <2>4
<1>9. CASE Tick
  <2>1. UNCHANGED <<running, chan, sem, ctl, pc, stalled>> /\ ctl # "disable"
    BY <1>9 DEF Tick, MayPass
  <2>2. AgeInPeriod'
    <3>1. CASE DmaOn /\ ~stalled
      <4>1. published # {}
        BY <1>0, <3>1 DEF UsedWhenBusy, ChannelOfStep, DmaOn, TypeOK, MicTypes
      <4>2. age < Period /\ age' = age + 1 /\ age \in Nat /\ Period \in Nat
        BY <1>0, <1>9, <3>1, <4>1, PeriodNumber DEF Tick, MayPass, TypeOK, MicTypes, PeriodIsNumber
      <4>3. age' <= Period
        BY <4>2
      <4> QED
        BY <1>9, <4>1, <4>3, WorkingKeeps DEF AgeInPeriod, Working
    <3>2. CASE ~(DmaOn /\ ~stalled)
      BY <1>3, <1>9, <3>2 DEF Working, Tick
    <3> QED
      BY <3>1, <3>2
  <2>3. ctl # "wait" => blocked' = blocked
    BY <1>0, <1>9, <2>1 DEF Tick, TypeOK, MicTypes
  <2>4. ChannelOfStep'
    BY <1>0, <2>1, <2>3 DEF ChannelOfStep
  <2> QED
    BY <1>0, <2>1, <2>2, <2>4 DEF OneToken, DmaOn
<1> QED
  BY <1>1, <1>2, <1>4, <1>5, <1>6, <1>7, <1>8, <1>9 DEF Next

-----------------------------------------------------------------------------
(* The wait of a read *)

LEMMA WaitNumbers ==
  ASSUME TimingInv
  PROVE  /\ wait \in Nat /\ WaitTicks \in Nat /\ Late \in Nat /\ due \in Nat
         /\ lag \in Nat /\ since \in Nat /\ spent \in Nat /\ stopped \in Nat
         /\ Inside => /\ published # {} /\ Mic.config \in Streamed
                      /\ Slice \in Nat /\ SliceTicks \in Nat \ {0}
<1>1. wait \in Nat /\ due \in Nat /\ lag \in Nat /\ since \in Nat /\ spent \in Nat /\ stopped \in Nat
  BY DEF TimingInv, TypeOK, ReadTypes
<1>2. Inside => published # {} /\ Mic.config \in Streamed
  BY DEF TimingInv, UsedWhenBusy
<1> QED
  BY <1>1, <1>2, TicksOf, Settings, InUseNumbers DEF TimingInv, WaitTicks

(* What the slice is cut to, at the top of the loop.                       *)
LEMMA NextSlice ==
  ASSUME TimingInv, RdTop, running
  PROVE  /\ wait' = WaitMs /\ wait' \in Nat /\ WaitTicks' \in Nat /\ WaitTicks' <= SliceTicks
         /\ last' <=> (timeout # Forever /\ RemainingMs <= Slice)
         /\ IF last' THEN wait' = RemainingMs ELSE wait' = Slice
<1>1. wait' = WaitMs /\ (last' <=> (timeout # Forever /\ RemainingMs <= Slice))
  BY Zenon DEF RdTop
<1>2. WaitMs \in Nat
  BY WaitType
<1>3. Slice \in Nat
  BY WaitNumbers DEF RdTop, Inside
<1>4. IF last' THEN wait' = RemainingMs /\ wait' <= Slice ELSE wait' = Slice
  BY <1>1 DEF WaitMs
<1>5. Ticks(wait') \in Nat /\ Ticks(wait') <= Ticks(Slice)
  BY <1>1, <1>2, <1>3, <1>4, TicksOf, TicksGrow
<1> QED
  BY <1>1, <1>2, <1>4, <1>5 DEF WaitTicks, SliceTicks

LEMMA WaitKeeps ==
  ASSUME TimingInv, Next
  PROVE  (WaitOfStep /\ SliceOfStep)'
<1> USE DEF cfgVars, chVars, ctlVars, rdVars, history
<1>0. WaitOfStep /\ SliceOfStep /\ OneToken /\ ChannelOfStep
  BY DEF TimingInv
<1>1. CASE (\E c \in Tried : InitCall(c)) \/ Deinit
  <2>1. pc' = "idle"
    BY <1>1 DEF InitCall, Unused, Deinit, Inside
  <2> QED
    BY <2>1 DEF WaitOfStep, SliceOfStep, Inside, Waiting
<1>2. CASE Return \/ Deliver \/ StopClear \/ StopDisable \/ StopWait
  <2>1. UNCHANGED <<rdVars, since, lag, restarted>>
    BY <1>2 DEF Return, Deliver, StopClear, StopDisable, StopWait
  <2>2. DmaOn' => DmaOn
    BY <1>0, <1>2 DEF Return, Deliver, StopClear, StopDisable, StopWait, DmaOn, ChannelOfStep
  <2>3. WaitOfStep'
    BY <1>0, <2>1, <2>2 DEF WaitOfStep, Inside, Slept, WaitTicks, Failed
  <2>4. Slice' = Slice /\ SliceTicks' = SliceTicks
    BY <1>2, WorkingKeeps, SamePublished DEF Working, Return
  <2>5. SliceOfStep'
    BY <1>0, <2>1, <2>4 DEF SliceOfStep, Waiting, WaitTicks
  <2> QED
    BY <2>3, <2>5
<1>3. CASE Start
  <2>1. UNCHANGED <<rdVars, since, lag>> /\ restarted' = TRUE /\ pc \notin Holding
    BY <1>0, <1>3 DEF Start, OneToken, ChannelOfStep, DmaOn
  <2>2. WaitOfStep'
    BY <1>0, <2>1, WaitNumbers DEF WaitOfStep, Inside, Slept, WaitTicks, Failed, Holding
  <2>3. SliceOfStep'
    BY <1>0, <1>3, <2>1, WorkingKeeps DEF SliceOfStep, Waiting, WaitTicks, Working
  <2> QED
    BY <2>2, <2>3
<1>4. ASSUME NEW t \in Timeouts, Call(t)
      PROVE  (WaitOfStep /\ SliceOfStep)'
  BY <1>4, Settings DEF Call, WaitOfStep, SliceOfStep, Inside, Waiting
<1>5. CASE RdTop /\ ~running
  <2>1. pc' = "idle"
    BY <1>5 DEF RdTop, ReturnWith
  <2> QED
    BY <2>1 DEF WaitOfStep, SliceOfStep, Inside, Waiting
<1>6. CASE RdTop /\ running
  <2>1. pc = "top" /\ pc' = "enter" /\ ret' = ret /\ lag' = 0 /\ since' = 0
    BY <1>6 DEF RdTop
  <2>2. WaitOfStep'
    BY <1>0, <2>1, Settings DEF WaitOfStep, Inside, Slept
  <2>3. SliceOfStep'
    <3>1. timeout' = timeout /\ Slice' = Slice /\ SliceTicks' = SliceTicks
      BY <1>6, WorkingKeeps DEF RdTop, Working, Reader
    <3> QED
      BY <1>6, <3>1, NextSlice DEF SliceOfStep
  <2> QED
    BY <2>2, <2>3
<1>7. CASE Reader /\ ~RdTop
  <2>1. Slice' = Slice /\ SliceTicks' = SliceTicks
    BY <1>7, WorkingKeeps DEF Working
  <2>2. CASE RdEnter
    BY <1>0, <2>1, <2>2, WaitNumbers
       DEF RdEnter, WaitOfStep, SliceOfStep, Inside, Slept, WaitTicks, Waiting
  <2>3. CASE RdSem
    BY <1>0, <2>1, <2>3, WaitNumbers
       DEF RdSem, Goto, WaitOfStep, SliceOfStep, Inside, Slept, WaitTicks, Waiting, OneToken
  <2>4. CASE RdSemTimeout
    BY <1>0, <2>1, <2>4, WaitNumbers
       DEF RdSemTimeout, WaitOfStep, SliceOfStep, Inside, Slept, WaitTicks, Waiting, Failed
  <2>5. CASE RdLoop
    BY <1>0, <2>1, <2>5, WaitNumbers
       DEF RdLoop, WaitOfStep, SliceOfStep, Inside, Slept, WaitTicks, Waiting, Failed
  <2>6. CASE RdReceive
    BY <1>0, <2>1, <2>6, WaitNumbers
       DEF RdReceive, Goto, WaitOfStep, SliceOfStep, Inside, Slept, WaitTicks, Waiting, Failed
  <2>7. CASE RdQueueTimeout
    BY <1>0, <2>1, <2>7, WaitNumbers
       DEF RdQueueTimeout, WaitOfStep, SliceOfStep, Inside, Slept, WaitTicks, Waiting, Failed
  <2>8. CASE RdGive
    BY <1>0, <2>1, <2>8, WaitNumbers
       DEF RdGive, Goto, WaitOfStep, SliceOfStep, Inside, Slept, WaitTicks, Waiting, Failed
  <2>9. CASE RdPost
    BY <1>0, <2>1, <2>9
       DEF RdPost, ReturnWith, WaitOfStep, SliceOfStep, Inside, Waiting
  <2> QED
    BY <1>7, <2>2, <2>3, <2>4, <2>5, <2>6, <2>7, <2>8, <2>9 DEF Reader
<1>8. CASE Tick
  <2>1. Slice' = Slice /\ SliceTicks' = SliceTicks
    BY <1>8, WorkingKeeps DEF Working
  <2>2. UNCHANGED <<pc, timeout, wait, last, ret, restarted, chan, sem>>
    BY <1>8 DEF Tick
  <2>3. Inside => /\ since' = since + 1
                  /\ lag' = IF Blocked THEN lag ELSE lag + 1
                  /\ due' = IF Blocked THEN due - 1 ELSE due
                  /\ Blocked \/ lag < Late
    BY <1>8 DEF Tick, MayPass
  <2>4. Blocked => due > 0 /\ ((pc = "sem" /\ ~sem) \/ pc = "queue")
    BY DEF Blocked
  <2>5. SliceOfStep'
    BY <1>0, <2>1, <2>2 DEF SliceOfStep, Waiting, WaitTicks
  <2>6. WaitOfStep'
    <3>1. CASE Inside /\ Blocked
      BY <1>0, <2>2, <2>3, <2>4, <3>1, WaitNumbers
         DEF WaitOfStep, Inside, Slept, WaitTicks, Failed, OneToken, DmaOn, Holding
    <3>2. CASE Inside /\ ~Blocked
      BY <1>0, <2>2, <2>3, <3>2, WaitNumbers
         DEF WaitOfStep, Inside, Slept, WaitTicks, Failed, DmaOn
    <3>3. CASE ~Inside
      BY <2>2, <3>3 DEF WaitOfStep, Inside
    <3> QED
      BY <3>1, <3>2, <3>3
  <2> QED
    BY <2>5, <2>6
<1> QED
  BY <1>1, <1>2, <1>3, <1>4, <1>5, <1>6, <1>7, <1>8 DEF Next

-----------------------------------------------------------------------------
(* The clock of a read *)

LEMMA FiniteNumbers ==
  ASSUME TimingInv, Inside, timeout # Forever
  PROVE  /\ timeout \in Nat /\ LimitTicks \in Nat /\ SliceTicks \in Nat \ {0} /\ Word \in Nat
         /\ Extra \in Nat /\ Extra <= SliceTicks
         /\ LimitTicks + SliceTicks + 2 * Late + 1 < Word
         /\ since <= spent /\ lag <= Late /\ since = Slept + lag
<1>1. published # {} /\ Mic.config \in Streamed /\ SliceTicks \in Nat \ {0}
  BY WaitNumbers
<1>2. TypeOK /\ PublishedRight
  BY DEF TimingInv
<1>3. Extra \in Nat /\ Extra <= SliceTicks
  BY <1>1 DEF Extra
<1>4. since <= spent /\ lag <= Late /\ since = Slept + lag
  BY WaitNumbers DEF TimingInv, ClockOfStep, WaitOfStep, Slept
<1> QED
  BY <1>1, <1>2, <1>3, <1>4, FarFromWrap, Settings

(* What a slice adds to the time of a read: less than it is long, or twice *)
(* that.                                                                   *)
LEMMA SpentBound ==
  ASSUME TimingInv, Inside, timeout # Forever
  PROVE  spent <= LimitTicks + SliceTicks + 2 * Late
<1> DEFINE s0 == spent - since
<1>1. s0 \in Nat /\ Slept \in Int /\ spent = s0 + Slept + lag
  BY FiniteNumbers, WaitNumbers DEF Slept
<1>2. CASE pc = "top"
  BY <1>2, FiniteNumbers, WaitNumbers DEF TimingInv, ClockOfStep
<1>3. CASE pc # "top"
  <2>1. Slept <= 2 * WaitTicks
    BY <1>3, WaitNumbers DEF TimingInv, WaitOfStep, TypeOK, ReadTypes, ReadSteps, Inside, Slept
  <2>2. WaitTicks <= SliceTicks
    BY <1>3 DEF TimingInv, SliceOfStep, Waiting, Inside
  <2>3. CASE last
    <3>1. /\ s0 <= LimitTicks + Extra + Late
          /\ WaitTicks = IF s0 >= LimitTicks THEN 0 ELSE LimitTicks - s0
      BY <1>3, <2>3 DEF TimingInv, ClockOfStep
    <3> HIDE DEF s0
    <3> QED
      BY <1>1, <2>1, <2>2, <3>1, FiniteNumbers, WaitNumbers
  <2>4. CASE ~last
    <3>1. s0 + SliceTicks <= LimitTicks
      BY <1>3, <2>4 DEF TimingInv, ClockOfStep
    <3> HIDE DEF s0
    <3> QED
      BY <1>1, <2>1, <2>2, <3>1, FiniteNumbers, WaitNumbers
  <2> QED
    BY <2>3, <2>4
<1> QED
  BY <1>2, <1>3

(* At the top of the loop the next slice is what is left of the timeout, to*)
(* the tick, unless more than a slice is left.                             *)
LEMMA SliceOfRest ==
  ASSUME TimingInv, RdTop, running, timeout # Forever
  PROVE  IF last' THEN WaitTicks' = IF spent >= LimitTicks THEN 0 ELSE LimitTicks - spent
                  ELSE spent + SliceTicks <= LimitTicks
<1>1. Inside
  BY DEF RdTop, Inside
<1>2. ElapsedMs = spent * TickMs /\ spent * TickMs \in Nat
  <2>1. tick = IF t0 + spent < Word THEN t0 + spent ELSE t0 + spent - Word
    BY <1>1 DEF TimingInv, ClockOfStep
  <2>2. spent <= LimitTicks + SliceTicks + 2 * Late + 1
    BY <1>1, SpentBound, FiniteNumbers, WaitNumbers
  <2> QED
    BY <1>1, <2>1, <2>2, ElapsedIsSpent, WaitNumbers DEF TimingInv
<1>3. timeout \in Nat /\ spent \in Nat /\ Slice \in Nat /\ SliceTicks \in Nat
  BY <1>1, FiniteNumbers, WaitNumbers
<1>4. /\ LimitTicks \in Nat /\ TickMs * LimitTicks <= timeout
      /\ timeout < TickMs * LimitTicks + TickMs /\ TickMs * SliceTicks <= Slice
  BY <1>3, WaitNumbers, <1>1, TicksOf DEF LimitTicks, SliceTicks
<1>5. WaitTicks' = Ticks(wait') /\ (last' <=> RemainingMs <= Slice) /\ (last' => wait' = RemainingMs)
  BY NextSlice DEF WaitTicks
<1>6. RemainingMs = IF spent * TickMs >= timeout THEN 0 ELSE timeout - spent * TickMs
  BY <1>2 DEF RemainingMs
<1>7. CASE spent * TickMs >= timeout
  <2>1. last' /\ wait' = 0
    BY <1>3, <1>5, <1>6, <1>7
  <2>2. Ticks(0) = 0
    BY TicksOf, TickLength
  <2>3. spent >= LimitTicks
    <3>1. TickMs * LimitTicks <= TickMs * spent
      BY <1>2, <1>3, <1>4, <1>7, TickLength
    <3> QED
      BY <1>3, <1>4, <3>1, TickLength, Cancel
  <2> QED
    BY <1>5, <2>1, <2>2, <2>3
<1>8. CASE spent * TickMs < timeout /\ last'
  <2>1. Ticks(timeout - spent * TickMs) = LimitTicks - spent
    BY <1>2, <1>3, <1>8, TicksLeft DEF LimitTicks
  <2>2. spent <= LimitTicks
    <3>1. TickMs * spent <= timeout
      BY <1>2, <1>3, <1>8, TickLength
    <3> QED
      BY <1>3, <3>1, MostTicks DEF LimitTicks
  <2> QED
    BY <1>2, <1>3, <1>4, <1>5, <1>6, <1>8, <2>1, <2>2
<1>9. CASE spent * TickMs < timeout /\ ~last'
  <2>1. timeout - spent * TickMs > Slice
    BY <1>2, <1>3, <1>5, <1>6, <1>9
  <2>2. TickMs * (spent + SliceTicks) = spent * TickMs + TickMs * SliceTicks
    BY <1>3, TickLength
  <2>3. TickMs * (spent + SliceTicks) <= timeout
    <3>1. TickMs * SliceTicks \in Int
      BY <1>3, TickLength
    <3> QED
      BY <1>2, <1>3, <1>4, <2>1, <2>2, <3>1
  <2>4. spent + SliceTicks <= LimitTicks
    BY <1>3, <2>3, MostTicks DEF LimitTicks
  <2> QED
    BY <1>9, <2>4
<1> QED
  BY <1>2, <1>3, <1>7, <1>8, <1>9

LEMMA ClockKeeps ==
  ASSUME TimingInv, Next
  PROVE  ClockOfStep'
<1> USE DEF cfgVars, chVars, ctlVars, rdVars, history
<1> SUFFICES ASSUME Inside', timeout' # Forever
             PROVE  ClockOfStep'
  BY DEF ClockOfStep
<1>0. ClockOfStep /\ WaitOfStep /\ SliceOfStep
  BY DEF TimingInv
<1>1. CASE (\E c \in Tried : InitCall(c)) \/ Deinit
  BY <1>1 DEF InitCall, Unused, Deinit, Inside
<1>2. CASE Return \/ Deliver \/ StopClear \/ StopDisable \/ StopWait
  <2>1. UNCHANGED <<tick, rdVars, spent, since, lag, restarted>>
    BY <1>2 DEF Return, Deliver, StopClear, StopDisable, StopWait
  <2>2. SliceTicks' = SliceTicks
    BY <1>2, WorkingKeeps, SamePublished DEF Working, Return
  <2> QED
    BY <1>0, <2>1, <2>2 DEF ClockOfStep, Inside, LimitTicks, WaitTicks, Extra
<1>3. CASE Start
  <2>1. UNCHANGED <<tick, rdVars, spent, since, lag>> /\ restarted' = TRUE
    BY <1>3 DEF Start
  <2>2. SliceTicks' = SliceTicks
    BY <1>3, WorkingKeeps DEF Working
  <2>3. Inside /\ timeout # Forever
    BY <2>1 DEF Inside
  <2>4. Extra' = SliceTicks /\ LimitTicks' = LimitTicks /\ WaitTicks' = WaitTicks
    BY <2>1, <2>2 DEF Extra, LimitTicks, WaitTicks
  <2> QED
    BY <1>0, <2>1, <2>2, <2>3, <2>4, FiniteNumbers, WaitNumbers DEF ClockOfStep, Inside
<1>4. CASE \E t \in Timeouts : Call(t)
  <2>1. /\ pc' = "top" /\ spent' = 0 /\ since' = 0 /\ lag' = 0 /\ restarted' = FALSE
        /\ tick' = t0' /\ t0' \in 0 .. Word - 1 /\ timeout' \in Timeouts
    BY <1>4, Settings DEF Call
  <2>2. LimitTicks' \in Nat
    BY <2>1, Settings, TicksOf DEF LimitTicks
  <2>3. Extra' = 0
    BY <2>1 DEF Extra
  <2>4. tick' = IF t0' + spent' < Word THEN t0' + spent' ELSE t0' + spent' - Word
    <3> DEFINE x == t0'
    <3>1. x \in 0 .. Word - 1
      BY <2>1
    <3> HIDE DEF x
    <3>2. x = IF x + 0 < Word THEN x + 0 ELSE x + 0 - Word
      BY <3>1, Settings
    <3> QED
      BY <2>1, <3>2 DEF x
  <2>5. spent' <= LimitTicks' + Extra' + lag' /\ since' <= spent'
    <3> DEFINE x == LimitTicks'
    <3>1. x \in Nat
      BY <2>2
    <3> HIDE DEF x
    <3>2. 0 <= x + 0 + 0
      BY <3>1
    <3> QED
      BY <2>1, <2>3, <3>2 DEF x
  <2> QED
    BY <2>1, <2>4, <2>5 DEF ClockOfStep
<1>5. CASE RdTop
  <2>1. running /\ pc = "top" /\ pc' = "enter" /\ lag' = 0 /\ since' = 0
    BY <1>5 DEF RdTop, ReturnWith, Inside
  <2>2. UNCHANGED <<tick, t0, timeout, spent, restarted>> /\ Inside
    BY <1>5, <2>1 DEF RdTop, Inside
  <2>3. SliceTicks' = SliceTicks /\ LimitTicks' = LimitTicks /\ Extra' = Extra
    BY <1>5, <2>2, WorkingKeeps DEF Working, Reader, LimitTicks, Extra
  <2>4. spent <= LimitTicks + Extra + lag
    BY <1>0, <2>1, <2>2 DEF ClockOfStep
  <2>5. IF last' THEN WaitTicks' = IF spent >= LimitTicks THEN 0 ELSE LimitTicks - spent
                 ELSE spent + SliceTicks <= LimitTicks
    BY <1>5, <2>1, <2>2, SliceOfRest
  <2>6. spent <= LimitTicks + Extra + Late /\ spent - 0 = spent
    BY <2>2, <2>4, FiniteNumbers, WaitNumbers
  <2> QED
    BY <1>0, <2>1, <2>2, <2>3, <2>5, <2>6, WaitNumbers DEF ClockOfStep
<1>6. CASE RdEnter \/ RdSem \/ RdSemTimeout \/ RdLoop \/ RdReceive \/ RdQueueTimeout \/ RdGive
  <2>1. UNCHANGED <<tick, t0, timeout, wait, last, spent, since, lag, restarted>>
    BY <1>6 DEF RdEnter, RdSem, RdSemTimeout, RdLoop, RdReceive, RdQueueTimeout, RdGive, Goto
  <2>2. pc \notin {"idle", "top"} /\ pc' # "top"
    BY <1>6 DEF RdEnter, RdSem, RdSemTimeout, RdLoop, RdReceive, RdQueueTimeout, RdGive, Goto
  <2>3. SliceTicks' = SliceTicks
    BY <1>6, WorkingKeeps DEF Working, Reader
  <2> QED
    BY <1>0, <2>1, <2>2, <2>3 DEF ClockOfStep, Inside, LimitTicks, WaitTicks, Extra
<1>7. CASE RdPost
  <2>1. Retried /\ pc = "post" /\ pc' = "top"
    BY <1>7 DEF RdPost, ReturnWith, Inside
  <2>2. UNCHANGED <<tick, t0, timeout, spent, since, lag, restarted>> /\ Inside /\ ~last
    BY <1>7, <2>1 DEF RdPost, Inside, Retried
  <2>3. SliceTicks' = SliceTicks /\ LimitTicks' = LimitTicks /\ Extra' = Extra
    BY <1>7, <2>2, WorkingKeeps DEF Working, Reader, LimitTicks, Extra
  <2>4. spent - since + SliceTicks <= LimitTicks
    BY <1>0, <2>1, <2>2 DEF ClockOfStep
  <2>5. Slept <= SliceTicks + Extra
    BY <1>0, <2>1, <2>2, WaitNumbers DEF WaitOfStep, SliceOfStep, Waiting, Extra, Slept
  <2>6. spent <= LimitTicks + Extra + lag
    BY <2>2, <2>4, <2>5, FiniteNumbers, WaitNumbers DEF Slept
  <2> QED
    BY <1>0, <2>1, <2>2, <2>3, <2>6 DEF ClockOfStep
<1>8. CASE Tick
  <2>1. UNCHANGED <<pc, t0, timeout, wait, last, restarted>> /\ Inside
    BY <1>8 DEF Tick, Inside
  <2>2. since' = since + 1 /\ spent' = spent + 1 /\ tick' = ((tick + 1) % Word)
    BY <1>8, <2>1 DEF Tick
  <2>3. pc = "top" => lag' = lag + 1
    BY <1>8, <2>1 DEF Tick, Blocked
  <2>4. SliceTicks' = SliceTicks /\ LimitTicks' = LimitTicks /\ Extra' = Extra /\ WaitTicks' = WaitTicks
    BY <1>8, <2>1, WorkingKeeps DEF Working, LimitTicks, Extra, WaitTicks
  <2>5. spent + 1 < Word
    BY <2>1, SpentBound, FiniteNumbers, WaitNumbers
  <2>6. tick' = IF t0 + spent' < Word THEN t0 + spent' ELSE t0 + spent' - Word
    <3>1. tick \in 0 .. Word - 1 /\ t0 \in 0 .. Word - 1 /\ Word \in Nat \ {0}
      BY Settings DEF TimingInv, TypeOK, ReadTypes
    <3>2. tick = IF t0 + spent < Word THEN t0 + spent ELSE t0 + spent - Word
      BY <1>0, <2>1 DEF ClockOfStep
    <3>3. ((tick + 1) % Word) = IF tick + 1 = Word THEN 0 ELSE tick + 1
      <4> DEFINE a == tick + 1
      <4>1. a \in Int /\ (a \in 0 .. Word - 1 \/ a - Word \in 0 .. Word - 1)
        BY <3>1
      <4> HIDE DEF a
      <4>2. (a % Word) = IF a \in 0 .. Word - 1 THEN a ELSE a - Word
        BY <3>1, <4>1, Wrapped
      <4> QED
        BY <3>1, <4>2 DEF a
    <3> QED
      BY <2>2, <2>5, <3>1, <3>2, <3>3, WaitNumbers
  <2>7. spent' - since' = spent - since
    BY <2>2, WaitNumbers
  <2>8. pc = "top" => spent' <= LimitTicks + Extra + lag'
    BY <1>0, <2>1, <2>2, <2>3, FiniteNumbers, WaitNumbers DEF ClockOfStep
  <2>9. since' <= spent'
    BY <2>1, <2>2, FiniteNumbers, WaitNumbers
  <2> QED
    BY <1>0, <2>1, <2>4, <2>6, <2>7, <2>8, <2>9 DEF ClockOfStep
<1> QED
  BY <1>1, <1>2, <1>3, <1>4, <1>5, <1>6, <1>7, <1>8 DEF Next, Reader

(* A read that times out has slept through its last slice.                 *)
LEMMA TimeoutKeeps ==
  ASSUME TimingInv, Next
  PROVE  TimesOutOnTime'
<1> USE DEF cfgVars, chVars, ctlVars, rdVars, history
<1> SUFFICES ASSUME TimedOut'
             PROVE  TimesOutOnTime'
  BY DEF TimesOutOnTime, NotTooEarly, NotTooLate
<1>1. CASE RdPost
  <2>1. pc = "post" /\ Failed /\ last /\ UNCHANGED <<timeout, spent, restarted>>
    <3>1. ~Retried /\ pc' = "idle" /\ ret' = "TIMEOUT"
      BY <1>1 DEF RdPost, TimedOut
    <3>2. Failed /\ running
      BY <1>1, <3>1 DEF RdPost, ReturnWith, Failed
    <3>3. last
      BY <3>1, <3>2 DEF Retried, Failed
    <3> QED
      BY <1>1, <3>1, <3>2, <3>3 DEF RdPost, ReturnWith
  <2>2. timeout # Forever /\ Inside
    BY <2>1 DEF TimingInv, SliceOfStep, Waiting, Inside
  <2> DEFINE s0 == spent - since
  <2>3. s0 \in Nat /\ Slept \in Int /\ spent = s0 + Slept + lag
    BY <2>2, FiniteNumbers, WaitNumbers DEF Slept
  <2>4. /\ s0 <= LimitTicks + Extra + Late
        /\ WaitTicks = IF s0 >= LimitTicks THEN 0 ELSE LimitTicks - s0
    BY <2>1, <2>2 DEF TimingInv, ClockOfStep
  <2>5. /\ Slept >= WaitTicks /\ WaitTicks <= SliceTicks
        /\ Slept <= WaitTicks + IF restarted THEN WaitTicks ELSE 0
    BY <2>1 DEF TimingInv, WaitOfStep, SliceOfStep, Waiting
  <2> HIDE DEF s0
  <2>6. spent >= LimitTicks
    BY <2>2, <2>3, <2>4, <2>5, FiniteNumbers, WaitNumbers
  <2>7. spent <= LimitTicks + 2 * Late + IF restarted THEN SliceTicks ELSE 0
    BY <2>2, <2>3, <2>4, <2>5, FiniteNumbers, WaitNumbers DEF Extra
  <2>8. Slice' = Slice
    BY <1>1, WorkingKeeps DEF Working, Reader
  <2> QED
    BY <2>1, <2>2, <2>6, <2>7, <2>8
       DEF TimesOutOnTime, NotTooEarly, NotTooLate, LimitTicks, SliceTicks
<1>2. CASE ~RdPost
  <2>1. TimedOut /\ UNCHANGED <<timeout, spent>> /\ published' = published
    BY <1>2 DEF Next, Reader, TimedOut, InitCall, Unused, Return, Deinit, Deliver, StopClear,
                StopDisable, StopWait, Start, Call, RdTop, RdEnter, RdSem, RdSemTimeout, RdLoop,
                RdReceive, RdQueueTimeout, RdGive, Tick, ReturnWith, Goto, Inside
  <2>2. restarted' = restarted \/ restarted' = TRUE
    BY <1>2, <2>1 DEF Next, Reader, TimedOut, InitCall, Unused, Return, Deinit, Deliver, StopClear,
                StopDisable, StopWait, Start, Call, RdTop, RdEnter, RdSem, RdSemTimeout, RdLoop,
                RdReceive, RdQueueTimeout, RdGive, Tick, ReturnWith, Goto, Inside
  <2>3. Slice' = Slice /\ SliceTicks \in Nat /\ restarted \in BOOLEAN
    BY <2>1, SamePublished, InUseNumbers DEF TimingInv, UsedWhenBusy, TimedOut, TypeOK, ReadTypes
  <2>4. spent \in Nat /\ Late \in Nat
    BY WaitNumbers
  <2>5. timeout # Forever /\ spent >= LimitTicks
    BY <2>1 DEF TimingInv, TimesOutOnTime, NotTooEarly, LimitTicks
  <2>6. spent <= LimitTicks + 2 * Late + IF restarted THEN SliceTicks ELSE 0
    BY <2>1 DEF TimingInv, TimesOutOnTime, NotTooLate, LimitTicks, SliceTicks
  <2>7. LimitTicks \in Nat
    BY <2>5, Settings, TicksOf DEF LimitTicks, TimingInv, TypeOK, ReadTypes
  <2>8. spent <= LimitTicks + 2 * Late + IF restarted' THEN SliceTicks ELSE 0
    BY <2>2, <2>3, <2>4, <2>6, <2>7
  <2> QED
    BY <2>1, <2>3, <2>5, <2>8
       DEF TimesOutOnTime, NotTooEarly, NotTooLate, LimitTicks, SliceTicks
<1> QED
  BY <1>1, <1>2

-----------------------------------------------------------------------------
(* stop() *)

(* What a reader can still sleep is within its slice.                      *)
LEMMA MoreInSlice ==
  ASSUME TimingInv, Inside
  PROVE  /\ More \in Nat /\ More <= SliceTicks
         /\ SliceTicks \in Nat /\ Late \in Nat /\ lag \in Nat /\ lag <= Late /\ stopped \in Nat
<1>1. SliceTicks \in Nat /\ Late \in Nat /\ lag \in Nat /\ lag <= Late /\ stopped \in Nat
  BY WaitNumbers DEF TimingInv, WaitOfStep
<1>2. pc = "sem" => due <= WaitTicks
  BY WaitNumbers DEF TimingInv, WaitOfStep, Slept, Inside
<1>3. pc = "queue" => due <= WaitTicks
  BY DEF TimingInv, WaitOfStep
<1>4. Waiting => WaitTicks <= SliceTicks
  BY DEF TimingInv, SliceOfStep
<1> QED
  BY <1>1, <1>2, <1>3, <1>4, WaitNumbers DEF More, Waiting

LEMMA StopKeeps ==
  ASSUME TimingInv, Next
  PROVE  (StoppedInSlice /\ StopNoticed)'
<1> USE DEF cfgVars, chVars, ctlVars, rdVars, history
<1> SUFFICES ASSUME Inside'
             PROVE  /\ ~running' => stopped' + More' <= SliceTicks' + lag'
                    /\ stopped' <= SliceTicks' + Late
  BY DEF StoppedInSlice, StopNoticed, SliceTicks
<1>0. /\ Inside => stopped <= SliceTicks + Late
      /\ Inside /\ ~running => stopped + More <= SliceTicks + lag
  BY DEF TimingInv, StoppedInSlice, StopNoticed, SliceTicks
<1>1. CASE (\E c \in Tried : InitCall(c)) \/ Deinit
  BY <1>1 DEF InitCall, Unused, Deinit, Inside
<1>2. CASE Return \/ Deliver \/ StopDisable \/ StopWait
  <2>1. UNCHANGED <<rdVars, running, stopped, lag>>
    BY <1>2 DEF Return, Deliver, StopDisable, StopWait
  <2>2. SliceTicks' = SliceTicks
    BY <1>2, WorkingKeeps, SamePublished DEF Working, Return
  <2> QED
    BY <1>0, <2>1, <2>2 DEF Inside, More, WaitTicks
<1>3. CASE StopClear
  <2>1. UNCHANGED <<rdVars, lag>> /\ stopped' = 0
    BY <1>3 DEF StopClear
  <2>2. SliceTicks' = SliceTicks
    BY <1>3, WorkingKeeps DEF Working
  <2>3. Inside /\ More' = More
    BY <2>1 DEF Inside, More, WaitTicks
  <2> QED
    BY <2>1, <2>2, <2>3, MoreInSlice
<1>4. CASE Start
  <2>1. UNCHANGED <<rdVars, stopped>> /\ running'
    BY <1>4 DEF Start
  <2>2. SliceTicks' = SliceTicks
    BY <1>4, WorkingKeeps DEF Working
  <2> QED
    BY <1>0, <2>1, <2>2 DEF Inside
<1>5. CASE \E t \in Timeouts : Call(t)
  <2>1. pc' = "top" /\ stopped' = 0 /\ lag' = 0
    BY <1>5 DEF Call
  <2>2. More' = 0
    BY <2>1 DEF More
  <2>3. SliceTicks' \in Nat
    <3>1. PublishedRight' /\ UsedWhenBusy'
      BY ConfigKeeps
    <3>2. PublishedRight
      BY DEF TimingInv
    <3>3. published' # {} /\ published' = published
      BY <1>5, <2>1, <3>1, WorkingKeeps DEF UsedWhenBusy, Inside, Working
    <3> QED
      BY <3>2, <3>3, InUseNumbers, SamePublished
  <2> QED
    <3>1. 0 <= SliceTicks' + Late
      <4> DEFINE x == SliceTicks'
      <4> HIDE DEF x
      <4>1. x \in Nat
        BY <2>3 DEF x
      <4>2. 0 <= x + Late
        BY <4>1, Settings
      <4> QED
        BY <4>2 DEF x
    <3>2. 0 + 0 <= SliceTicks' + 0
      <4> DEFINE x == SliceTicks'
      <4> HIDE DEF x
      <4>1. x \in Nat
        BY <2>3 DEF x
      <4>2. 0 + 0 <= x + 0
        BY <4>1
      <4> QED
        BY <4>2 DEF x
    <3> QED
      BY <2>1, <2>2, <3>1, <3>2
<1>6. CASE RdTop \/ RdPost
  <2>1. running /\ running' = running /\ stopped' = stopped /\ Inside
    BY <1>6 DEF RdTop, RdPost, Retried, ReturnWith, Inside
  <2>2. SliceTicks' = SliceTicks
    BY <1>6, WorkingKeeps DEF Working, Reader
  <2> QED
    BY <1>0, <2>1, <2>2
<1>7. CASE RdEnter \/ RdSem \/ RdSemTimeout \/ RdReceive \/ RdQueueTimeout \/ RdGive
  <2>1. Inside /\ UNCHANGED <<running, stopped, lag, wait>>
    BY <1>7 DEF RdEnter, RdSem, RdSemTimeout, RdReceive, RdQueueTimeout, RdGive, Goto, Inside
  <2>2. SliceTicks' = SliceTicks
    BY <1>7, WorkingKeeps DEF Working, Reader
  <2>3. More' = More \/ More' = 0
    BY <1>7 DEF RdEnter, RdSem, RdSemTimeout, RdReceive, RdQueueTimeout, RdGive, Goto, More, WaitTicks
  <2>4. ~running => stopped + More' <= SliceTicks + lag
    BY <1>0, <2>1, <2>3, MoreInSlice
  <2> QED
    BY <1>0, <2>1, <2>2, <2>4
<1>8. CASE RdLoop
  <2>1. Inside /\ Waiting /\ UNCHANGED <<running, stopped, lag, wait>>
    BY <1>8 DEF RdLoop, Inside, Waiting
  <2>2. SliceTicks' = SliceTicks
    BY <1>8, WorkingKeeps DEF Working, Reader
  <2>3. CASE chan = "RUNNING"
    <3>1. More' = WaitTicks
      BY <1>8, <2>3 DEF RdLoop, More, WaitTicks
    <3>2. WaitTicks <= SliceTicks
      BY <2>1 DEF TimingInv, SliceOfStep
    <3>3. ~running => stopped = 0
      BY <2>3 DEF TimingInv, ChannelOfStep, TypeOK, MicTypes
    <3>4. ~running => stopped + WaitTicks <= SliceTicks + lag
      BY <2>1, <3>2, <3>3, WaitNumbers
    <3> QED
      BY <1>0, <2>1, <2>2, <3>1, <3>4
  <2>4. CASE chan # "RUNNING"
    <3>1. More' = 0
      BY <1>8, <2>4 DEF RdLoop, More
    <3>2. ~running => stopped + 0 <= SliceTicks + lag
      BY <1>0, <2>1, MoreInSlice
    <3> QED
      BY <1>0, <2>1, <2>2, <3>1, <3>2
  <2> QED
    BY <2>3, <2>4
<1>9. CASE Tick
  <2>1. UNCHANGED <<pc, running, wait>> /\ Inside
    BY <1>9 DEF Tick, Inside
  <2>2. SliceTicks' = SliceTicks
    BY <1>9, WorkingKeeps DEF Working
  <2>3. stopped' = IF running THEN 0 ELSE stopped + 1
    BY <1>9, <2>1 DEF Tick
  <2>4. IF Blocked THEN lag' = lag /\ More' = More - 1
                   ELSE lag' = lag + 1 /\ lag < Late /\ More' = More
    BY <1>9, <2>1 DEF Tick, MayPass, Blocked, More, WaitTicks
  <2>5. Blocked => More > 0
    BY DEF Blocked, More
  <2>6. ~running => stopped + 1 + More' <= SliceTicks + lag'
    BY <1>0, <2>1, <2>4, <2>5, MoreInSlice
  <2>7. ~running => stopped + 1 <= SliceTicks + Late
    BY <1>0, <2>1, <2>4, <2>5, MoreInSlice
  <2>8. 0 <= SliceTicks + Late
    BY <2>1, MoreInSlice
  <2> QED
    BY <2>1, <2>2, <2>3, <2>6, <2>7, <2>8
<1> QED
  BY <1>1, <1>2, <1>3, <1>4, <1>5, <1>6, <1>7, <1>8, <1>9 DEF Next, Reader

(* The channel while stop() waits: nobody can take what it waits for but   *)
(* the reader that has it.                                                 *)
LEMMA BlockNumbers ==
  ASSUME TimingInv, ctl \in {"disable", "wait"}
  PROVE  /\ ~running /\ DmaOn /\ (~sem => pc \in Holding)
         /\ Period \in Nat /\ QueueLen \in Nat \ {0} /\ SliceTicks \in Nat
         /\ blocked \in Nat /\ age \in Nat /\ age <= Period
         /\ Wake \in Nat /\ Wake <= Period
<1>1. ~running /\ DmaOn
  BY DEF TimingInv, ChannelOfStep, DmaOn
<1>2. published # {}
  BY DEF TimingInv, UsedWhenBusy
<1>3. Period \in Nat /\ QueueLen \in Nat \ {0} /\ SliceTicks \in Nat
  BY <1>2, InUseNumbers DEF TimingInv
<1>4. blocked \in Nat /\ age \in Nat /\ age <= Period
  BY <1>2 DEF TimingInv, TypeOK, MicTypes, AgeInPeriod
<1>5. Wake \in Nat /\ Wake <= Period
  BY <1>3, <1>4 DEF Wake
<1>6. ~sem => pc \in Holding
  BY <1>1 DEF TimingInv, OneToken
<1> QED
  BY <1>1, <1>3, <1>4, <1>5, <1>6

LEMMA BlockedKeeps ==
  ASSUME TimingInv, Next
  PROVE  BlockedByReader'
<1> USE DEF cfgVars, chVars, ctlVars, rdVars, history
<1>0. /\ blocked > 0 => pc \in Holding \cup {"post", "idle", "top"}
      /\ (ctl = "wait" /\ pc \in Holding) =>
           IF stalled THEN blocked + More <= SliceTicks + lag
                      ELSE blocked + Wake <= Period + lag
  BY DEF TimingInv, BlockedByReader
<1> SUFFICES ASSUME ctl' = "wait"
             PROVE  BlockedByReader'
  <2>1. ctl' # "wait" => blocked' = 0
    BY ChannelKeeps DEF ChannelOfStep
  <2> QED
    BY <2>1 DEF BlockedByReader
<1>1. CASE (\E c \in Tried : InitCall(c)) \/ Deinit \/ StopClear \/ StopWait \/ Start
  BY <1>1 DEF InitCall, Unused, Deinit, StopClear, StopWait, Start
<1>2. CASE StopDisable
  <2>1. UNCHANGED <<pc, due, wait, lag, ready, age, stalled, blocked>> /\ blocked = 0
    BY <1>2 DEF StopDisable, TimingInv, ChannelOfStep
  <2>2. SliceTicks' = SliceTicks /\ Period' = Period
    BY <1>2, WorkingKeeps DEF Working
  <2>3. More' = More /\ Wake' = Wake
    BY <2>1, <2>2 DEF More, Wake, WaitTicks
  <2>4. pc \in Holding => More <= SliceTicks + lag /\ Wake <= Period + lag
    BY <1>2, MoreInSlice, BlockNumbers DEF StopDisable, Inside, Holding
  <2>5. pc \in Holding => More \in Nat /\ Wake \in Nat
    BY <1>2, MoreInSlice, BlockNumbers DEF StopDisable, Inside, Holding
  <2>6. pc \in Holding => 0 + More <= SliceTicks + lag /\ 0 + Wake <= Period + lag
    BY <2>4, <2>5
  <2> QED
    BY <2>1, <2>2, <2>3, <2>6 DEF BlockedByReader
<1>3. CASE Return
  <2>1. UNCHANGED <<published, chVars, ctlVars, rdVars, history>>
    BY <1>3 DEF Return
  <2>2. SliceTicks' = SliceTicks /\ Period' = Period
    BY <2>1, SamePublished
  <2> QED
    BY <1>0, <2>1, <2>2 DEF BlockedByReader, More, Wake, WaitTicks
<1>4. CASE Deliver
  <2>1. UNCHANGED <<pc, lag, stalled, blocked>> /\ ~stalled /\ ctl = "wait"
    BY <1>4 DEF Deliver
  <2>2. Period' = Period
    BY <1>4, WorkingKeeps DEF Working
  <2>3. ready' # 0
    BY <1>4, <2>1, BlockNumbers DEF Deliver, TimingInv, TypeOK, MicTypes
  <2>4. Wake' = 0
    BY <2>3 DEF Wake
  <2>5. pc \in Holding => blocked + 0 <= Period + lag
    BY <1>0, <2>1, BlockNumbers, WaitNumbers
  <2> QED
    BY <1>0, <2>1, <2>2, <2>4, <2>5 DEF BlockedByReader
<1>5. CASE \/ (\E t \in Timeouts : Call(t))
           \/ RdTop \/ RdEnter \/ RdSemTimeout \/ RdGive \/ RdPost
  <2>1. blocked' = blocked /\ ctl = "wait" /\ ~running
    BY <1>5, BlockNumbers DEF Call, RdTop, RdEnter, RdSemTimeout, RdGive, RdPost
  <2>2. pc' \notin Holding
    BY <1>5 DEF Call, RdTop, RdEnter, RdSemTimeout, RdGive, RdPost, Goto, ReturnWith, Holding
  <2>3. pc \in {"enter", "sem"} => ~(blocked > 0)
    BY <1>0 DEF Holding
  <2>4. pc \notin {"enter", "sem"} => pc' \in {"post", "idle", "top"}
    BY <1>5, <2>1 DEF Call, RdTop, RdEnter, RdSemTimeout, RdGive, RdPost, Goto, ReturnWith, Retried
  <2> QED
    BY <2>1, <2>2, <2>3, <2>4 DEF BlockedByReader
<1>6. CASE RdSem
  <2>1. pc = "sem" /\ pc' = "loop" /\ ctl = "wait" /\ UNCHANGED <<blocked, stalled, lag>>
    BY <1>6 DEF RdSem, Goto
  <2>2. SliceTicks' = SliceTicks /\ Period' = Period
    BY <1>6, WorkingKeeps DEF Working, Reader
  <2>3. More' = 0 /\ Wake' = 0
    BY <2>1 DEF More, Wake
  <2>4. blocked = 0
    BY <1>0, <2>1, BlockNumbers DEF Holding
  <2>5. 0 + 0 <= SliceTicks + lag /\ 0 + 0 <= Period + lag
    BY <2>1, BlockNumbers, WaitNumbers
  <2> QED
    BY <2>1, <2>2, <2>3, <2>4, <2>5 DEF BlockedByReader
<1>7. CASE RdLoop \/ RdReceive \/ RdQueueTimeout
  <2>1. /\ pc \in Holding /\ ctl = "wait" /\ pc' = "give"
        /\ UNCHANGED <<blocked, stalled, lag>>
    BY <1>7 DEF RdLoop, RdReceive, RdQueueTimeout, Goto, Holding, TimingInv, ChannelOfStep
  <2>2. SliceTicks' = SliceTicks /\ Period' = Period
    BY <1>7, WorkingKeeps DEF Working, Reader
  <2>3. More' = 0 /\ Wake' = 0
    BY <2>1 DEF More, Wake
  <2>4. Inside
    BY <2>1 DEF Inside, Holding
  <2>5. IF stalled THEN blocked + 0 <= SliceTicks + lag ELSE blocked + 0 <= Period + lag
    BY <1>0, <2>1, <2>4, BlockNumbers, MoreInSlice
  <2> QED
    BY <2>1, <2>2, <2>3, <2>5 DEF BlockedByReader, Holding
<1>8. CASE Tick
  <2>1. /\ UNCHANGED <<pc, ready, stalled, wait>> /\ ctl = "wait" /\ ~sem
        /\ blocked' = blocked + 1
    BY <1>8 DEF Tick, MayPass
  <2>2. pc \in Holding /\ Inside /\ DmaOn
    BY <2>1, BlockNumbers DEF Inside, Holding
  <2>3. SliceTicks' = SliceTicks /\ Period' = Period
    BY <1>8, WorkingKeeps DEF Working
  <2>4. IF Blocked THEN lag' = lag /\ More' = More - 1 /\ pc = "queue" /\ ready = 0
                   ELSE lag' = lag + 1 /\ More' = More
    BY <1>8, <2>1, <2>2 DEF Tick, Blocked, More, WaitTicks, Holding
  <2>5. CASE stalled
    <3>1. blocked + 1 + More' <= SliceTicks + lag'
      BY <1>0, <2>1, <2>2, <2>4, <2>5, BlockNumbers, MoreInSlice
    <3> QED
      BY <2>1, <2>2, <2>3, <2>5, <3>1 DEF BlockedByReader
  <2>6. CASE ~stalled
    <3>1. age' = age + 1 /\ age < Period
      BY <1>8, <2>2, <2>6 DEF Tick, MayPass
    <3>2. IF pc = "queue" /\ ready = 0 THEN Wake' = Wake - 1 ELSE Wake = 0 /\ Wake' = 0
      <4>1. pc = "queue" /\ ready = 0 => Wake' = Period - age' /\ Wake = Period - age
        BY <2>1, <2>3 DEF Wake
      <4>2. ~(pc = "queue" /\ ready = 0) => Wake = 0 /\ Wake' = 0
        BY <2>1 DEF Wake
      <4>3. Period - (age + 1) = Period - age - 1
        BY <2>1, BlockNumbers
      <4> QED
        BY <3>1, <4>1, <4>2, <4>3
    <3>3. blocked + 1 + Wake' <= Period + lag'
      BY <1>0, <2>1, <2>2, <2>4, <2>6, <3>2, BlockNumbers, MoreInSlice
    <3> QED
      BY <2>1, <2>2, <2>3, <2>6, <3>3 DEF BlockedByReader
  <2> QED
    BY <2>5, <2>6
<1> QED
  BY <1>1, <1>2, <1>3, <1>4, <1>5, <1>6, <1>7, <1>8 DEF Next, Reader

LEMMA StopBlocksKeeps ==
  ASSUME TimingInv, Next
  PROVE  StopBlocks'
<1> USE DEF cfgVars, chVars, ctlVars, rdVars, history
<1>0. StopBlocks /\ blocked \in Nat /\ (ctl # "wait" => blocked = 0)
  BY DEF TimingInv, ChannelOfStep, TypeOK, MicTypes
<1>1. CASE Tick
  <2>1. stalled' = stalled /\ SliceTicks' = SliceTicks /\ Period' = Period /\ Slice' = Slice
    BY <1>1, WorkingKeeps DEF Tick, Working
  <2>2. CASE ctl = "idle"
    BY <1>0, <1>1, <2>1, <2>2 DEF Tick, StopBlocks
  <2>3. CASE ctl = "wait" /\ ~sem
    <3>1. blocked' = blocked + 1 /\ pc \in Holding /\ Inside
      BY <1>1, <2>3, BlockNumbers DEF Tick, Inside, Holding
    <3>2. IF stalled THEN blocked + More <= SliceTicks + lag
                     ELSE blocked + Wake <= Period + lag
      BY <2>3, <3>1 DEF TimingInv, BlockedByReader
    <3>3. IF Blocked THEN (stalled => More > 0) /\ (~stalled => Wake > 0) ELSE lag < Late
      <4>1. ~Blocked => lag < Late
        BY <1>1, <3>1 DEF Tick, MayPass
      <4>2. Blocked => pc = "queue" /\ ready = 0 /\ due > 0
        BY <3>1 DEF Blocked, Holding
      <4>3. ~stalled => age < Period
        BY <1>1, <2>3, BlockNumbers DEF Tick, MayPass
      <4>4. Blocked => More > 0
        BY <4>2 DEF More
      <4>5. Blocked /\ ~stalled => Wake > 0
        BY <2>3, <4>2, <4>3, BlockNumbers DEF Wake
      <4> QED
        BY <4>1, <4>4, <4>5
    <3>4. blocked + 1 <= (IF stalled THEN SliceTicks ELSE Period) + Late
      BY <2>3, <3>1, <3>2, <3>3, BlockNumbers, MoreInSlice
    <3> QED
      BY <2>1, <3>1, <3>4 DEF StopBlocks, SliceTicks
  <2> QED
    BY <1>1, <2>2, <2>3 DEF Tick, MayPass
<1>2. CASE (\E c \in Tried : InitCall(c)) \/ Deinit \/ StopClear \/ StopDisable \/ StopWait \/ Start
  <2>1. blocked' = 0
    BY <1>0, <1>2 DEF InitCall, Unused, Deinit, StopClear, StopDisable, StopWait, Start
  <2> QED
    BY <2>1 DEF StopBlocks
<1>3. CASE Return
  BY <1>0, <1>3, SamePublished DEF Return, StopBlocks
<1>4. CASE Deliver \/ (\E t \in Timeouts : Call(t)) \/ Reader
  <2>1. UNCHANGED <<blocked, stalled>>
    BY <1>4 DEF Deliver, Call, Reader, RdTop, RdEnter, RdSem, RdSemTimeout, RdLoop, RdReceive,
                RdQueueTimeout, RdGive, RdPost
  <2>2. Slice' = Slice /\ Period' = Period
    BY <1>4, WorkingKeeps DEF Working
  <2> QED
    BY <1>0, <2>1, <2>2 DEF StopBlocks
<1> QED
  BY <1>1, <1>2, <1>3, <1>4 DEF Next

-----------------------------------------------------------------------------
(* The theorems *)

LEMMA StutterKeepsTiming ==
  ASSUME TimingInv, UNCHANGED vars
  PROVE  TimingInv'
<1> USE DEF vars, cfgVars, chVars, ctlVars, rdVars, history
<1>1. /\ SliceTicks' = SliceTicks /\ Period' = Period /\ Slice' = Slice
      /\ (Mic.config)' = Mic.config
  BY SamePublished
<1>2. /\ WaitTicks' = WaitTicks /\ LimitTicks' = LimitTicks /\ Slept' = Slept
      /\ Inside' = Inside /\ Waiting' = Waiting /\ Failed' = Failed /\ DmaOn' = DmaOn
  BY DEF WaitTicks, LimitTicks, Slept, Inside, Waiting, Failed, DmaOn
<1>3. Extra' = Extra /\ More' = More /\ Wake' = Wake /\ TimedOut' = TimedOut
  BY <1>1, <1>2 DEF Extra, More, Wake, TimedOut
<1>4. (TypeOK /\ AnsweredRight /\ PublishedRight /\ UsedWhenBusy)'
  BY <1>1, <1>2 DEF TimingInv, TypeOK, MicTypes, ReadTypes, AnsweredRight, PublishedRight, UsedWhenBusy
<1>5. (ChannelOfStep /\ OneToken /\ AgeInPeriod)'
  BY <1>1, <1>2 DEF TimingInv, ChannelOfStep, OneToken, AgeInPeriod
<1>6. (WaitOfStep /\ SliceOfStep)'
  BY <1>1, <1>2 DEF TimingInv, WaitOfStep, SliceOfStep
<1>7. (ClockOfStep /\ TimesOutOnTime)'
  BY <1>1, <1>2, <1>3 DEF TimingInv, ClockOfStep, TimesOutOnTime, NotTooEarly, NotTooLate
<1>8. (StoppedInSlice /\ StopNoticed /\ BlockedByReader /\ StopBlocks)'
  BY <1>1, <1>2, <1>3 DEF TimingInv, StoppedInSlice, StopNoticed, BlockedByReader, StopBlocks
<1> QED
  BY <1>4, <1>5, <1>6, <1>7, <1>8 DEF TimingInv

LEMMA NextKeepsTiming == TimingInv /\ [Next]_vars => TimingInv'
<1>1. ASSUME TimingInv, Next
      PROVE  TimingInv'
  <2>1. TypeOK'
    BY <1>1, MicTypesKeep, ReadTypesKeep DEF TypeOK
  <2> QED
    BY <1>1, <2>1, ConfigKeeps, ChannelKeeps, WaitKeeps, ClockKeeps, TimeoutKeeps, StopKeeps,
       BlockedKeeps, StopBlocksKeeps DEF TimingInv
<1> QED
  BY <1>1, StutterKeepsTiming

LEMMA AlwaysTiming == Spec => []TimingInv
  BY InitTiming, NextKeepsTiming, PTL DEF Spec

(* TypeOK: the tick counter and t0 stay in their word, the waits are       *)
(* numbers of ms, the calls answer what they may (i2s_mic.c 50-71,         *)
(* 294-332).                                                               *)
THEOREM TimingTypes == Spec => []TypeOK
<1>1. TimingInv => TypeOK
  BY DEF TimingInv
<1> QED
  BY <1>1, AlwaysTiming, PTL

(* init() accepts exactly the configurations that can be had as asked for, *)
(* and its slice covers two buffers, for every rate, format, count and     *)
(* size (i2s_mic.c 105-217).                                               *)
THEOREM AlwaysInitIsExact == Spec => []InitIsExact
<1>1. TimingInv => InitIsExact
  BY ExactWhenRight DEF TimingInv, TypeOK, MicTypes
<1> QED
  BY <1>1, AlwaysTiming, PTL

(* A timeout comes when it is due, for every timeout and wherever the tick *)
(* counter stood (i2s_mic.c 294-332).                                      *)
THEOREM AlwaysTimesOutOnTime == Spec => []TimesOutOnTime
<1>1. TimingInv => TimesOutOnTime
  BY DEF TimingInv
<1> QED
  BY <1>1, AlwaysTiming, PTL

(* A read outlives stop() by one slice at most (i2s_mic.c 34-38).          *)
THEOREM AlwaysStopNoticed == Spec => []StopNoticed
<1>1. TimingInv => StopNoticed
  BY DEF TimingInv
<1> QED
  BY <1>1, AlwaysTiming, PTL

(* stop() waits for a reader for one period, or one slice without the bus  *)
(* clock (i2s_mic.h 122-124, i2s_mic.c 277-279).                           *)
THEOREM AlwaysStopBlocks == Spec => []StopBlocks
<1>1. TimingInv => StopBlocks
  BY DEF TimingInv
<1> QED
  BY <1>1, AlwaysTiming, PTL

(* No slice is cut to nothing while there is time left, so that no read    *)
(* polls (i2s_mic.c 59-61).                                                *)
THEOREM AlwaysNoBusyPoll == Spec => []NoBusyPoll
<1>1. ASSUME TimingInv
      PROVE  NoBusyPoll
  <2> SUFFICES ASSUME pc = "post", Retried
               PROVE  since >= 1
    BY DEF NoBusyPoll
  <2>1. Slept >= WaitTicks /\ wait = Slice /\ Inside
    BY <1>1 DEF TimingInv, WaitOfStep, SliceOfStep, Waiting, Retried, Failed, Inside
  <2>2. WaitTicks = SliceTicks
    BY <2>1 DEF WaitTicks, SliceTicks
  <2> QED
    BY <1>1, <2>1, <2>2, WaitNumbers DEF Slept
<1> QED
  BY <1>1, AlwaysTiming, PTL
=============================================================================

---------------------------- MODULE I2SMicProofs ----------------------------
(***************************************************************************)
(* i2s_mic.c on its driver, for every ring and buffer size, every set of   *)
(* readers, every configuration and every bound:                           *)
(*   - what the driver's steps preserve, the ring's order and the types;   *)
(*   - how the control task, the readers and the channel are coordinated;  *)
(*   - what becomes of the captures: each is read, queued or counted as    *)
(*     lost, and one read delivers one whole buffer of its session or      *)
(*     nothing, and learns of a stop() that overtakes it;                  *)
(*   - that a client sees a MicStream.                                     *)
(***************************************************************************)
EXTENDS I2SMicStream, SequenceTheorems, TLAPS

-----------------------------------------------------------------------------
(* The atomic steps of the driver: what each preserves. *)

(* The DMA's next buffer is a buffer of the ring.                          *)
LEMMA NextDescInRing ==
  ASSUME NEW b \in Bufs
  PROVE  NextDesc(b) \in Bufs /\ NextDesc(b) = IF b = Desc - 1 THEN 0 ELSE b + 1
<1>1. Desc \in Nat /\ Desc >= 2 /\ b \in Nat /\ b <= Desc - 1
  BY DriverAssumption DEF Bufs
<1>2. CASE b = Desc - 1
  <2>1. b + 1 = Desc
    BY <1>1, <1>2
  <2>2. Desc % Desc = 0
    BY <1>1
  <2> QED
    BY <1>1, <1>2, <2>1, <2>2 DEF NextDesc, Bufs
<1>3. CASE b # Desc - 1
  <2>1. b + 1 \in Nat /\ b + 1 < Desc
    BY <1>1, <1>3
  <2>2. (b + 1) % Desc = b + 1
    BY <1>1, <2>1
  <2> QED
    BY <1>1, <1>3, <2>1, <2>2 DEF NextDesc, Bufs
<1> QED
  BY <1>2, <1>3

(* The ring's queue after an interrupt: within its capacity.               *)
LEMMA QueueAfterDmaStep ==
  ASSUME DriverTypeOK, DmaStep
  PROVE  /\ q' \in Seq(Bufs)
         /\ Len(q') = IF QueueFull THEN QCap ELSE Len(q) + 1
         /\ Len(q') <= QCap
<1>1. Desc \in Nat /\ Desc >= 2 /\ QCap \in Nat /\ QCap >= 1
  BY DriverAssumption DEF QCap
<1>2. q \in Seq(Bufs) /\ Len(q) \in Nat /\ Len(q) <= QCap /\ link \in Bufs
  BY LenProperties DEF DriverTypeOK
<1> DEFINE kept == IF QueueFull THEN Tail(q) ELSE q
<1>3. kept \in Seq(Bufs) /\ Len(kept) = IF QueueFull THEN QCap - 1 ELSE Len(q)
  <2>1. CASE QueueFull
    <3>1. q # << >>
      BY <1>1, <1>2, <2>1, EmptySeq DEF QueueFull
    <3> QED
      BY <1>2, <2>1, <3>1, HeadTailProperties DEF QueueFull
  <2>2. CASE ~QueueFull
    BY <1>2, <2>2
  <2> QED
    BY <2>1, <2>2
<1>4. q' = Append(kept, link)
  BY DEF DmaStep
<1>5. q' \in Seq(Bufs) /\ Len(q') = Len(kept) + 1
  BY <1>2, <1>3, <1>4, AppendProperties
<1> QED
  BY <1>1, <1>2, <1>3, <1>5 DEF QueueFull

(* Every step of the driver, with the sizes its callers pass.              *)
DriverStep ==
  \/ NewChannel \/ DelChannel \/ Enable \/ DisableBegin \/ DisableEnd
  \/ DmaStep \/ TakeSem \/ GiveSem \/ Receive
  \/ \E size \in Nat : InitStdMode(size)
  \/ \E size \in Nat : Copy(size) /\ rwPos <= dmaBuf
  \/ UNCHANGED drvVars

(* The type invariant of the driver is inductive.                          *)
LEMMA DriverTypeStep ==
  ASSUME DriverTypeOK, DriverStep
  PROVE  DriverTypeOK'
<1> USE DriverAssumption
<1>0. QCap \in Nat /\ 0 \in Bufs /\ << >> \in Seq(Bufs) /\ Len(<< >>) = 0 /\ Len(q) \in Nat
  BY EmptySeq, LenProperties DEF QCap, Bufs, DriverTypeOK
<1>1. CASE NewChannel \/ DelChannel
  <2>1. stamp' \in [Bufs -> Nat] /\ q' \in Seq(Bufs) /\ Len(q') <= QCap
    BY <1>0, <1>1 DEF NewChannel, DelChannel, BlankChannel
  <2>2. seq' \in 0 .. SeqBound /\ dmaBuf' \in 0 .. DmaMax
    BY <1>1 DEF NewChannel, DelChannel, BlankChannel
  <2>3. curr' \in Bufs \cup {NoBuf} /\ link' \in Bufs
    BY <1>0, <1>1 DEF NewChannel, DelChannel, BlankChannel
  <2>4. rwPos' \in Nat /\ currSeq' \in Nat /\ sessFirst' \in Nat /\ taken' \in Nat
    BY <1>1 DEF NewChannel, DelChannel, BlankChannel
  <2>5. sem' \in BOOLEAN /\ dmaOn' \in BOOLEAN /\ torn' \in BOOLEAN
    BY <1>1 DEF NewChannel, DelChannel, BlankChannel
  <2>6. chState' \in {"NONE", "REGISTERED", "READY", "RUNNING"}
    BY <1>1 DEF NewChannel, DelChannel, BlankChannel
  <2> QED
    BY <2>1, <2>2, <2>3, <2>4, <2>5, <2>6 DEF DriverTypeOK
<1>2. CASE Enable
  BY <1>0, <1>2 DEF Enable, DriverTypeOK, curVars
<1>3. CASE DisableBegin
  BY <1>3 DEF DisableBegin, DriverTypeOK, curVars, ringVars, sessVars
<1>10. CASE DisableEnd
  BY <1>0, <1>10 DEF DisableEnd, DriverTypeOK, ringVars, sessVars
<1>4. CASE DmaStep
  <2>1. NextDesc(link) \in Bufs
    BY NextDescInRing DEF DriverTypeOK
  <2>2. q' \in Seq(Bufs) /\ (Len(q) <= QCap)'
    BY <1>4, QueueAfterDmaStep DEF QCap
  <2>3. seq' \in 0 .. SeqBound /\ stamp' \in [Bufs -> Nat]
    BY <1>4 DEF DmaStep, DriverTypeOK
  <2> QED
    BY <1>4, <2>1, <2>2, <2>3 DEF DmaStep, DriverTypeOK, chVars, curVars, sessVars
<1>5. CASE TakeSem \/ GiveSem
  BY <1>0, <1>5 DEF TakeSem, GiveSem, DriverTypeOK, curVars, ringVars, sessVars, QCap
<1>6. CASE Receive
  <2>1. Head(q) \in Bufs /\ Tail(q) \in Seq(Bufs) /\ Len(Tail(q)) = Len(q) - 1
    BY <1>6, HeadTailProperties DEF Receive, DriverTypeOK
  <2>2. q' \in Seq(Bufs) /\ (Len(q) <= QCap)'
    BY <1>0, <1>6, <2>1 DEF Receive, DriverTypeOK, QCap
  <2>3. UNCHANGED <<chState, sem, dmaOn, dmaBuf, link, stamp, seq, sessFirst>>
    BY <1>6 DEF Receive, chVars
  <2>4. curr' \in Bufs /\ rwPos' \in Nat /\ torn' \in BOOLEAN
    BY <1>6, <2>1 DEF Receive
  <2>6. taken' \in Nat
    BY <1>6 DEF Receive, DriverTypeOK
  <2>5. currSeq' \in Nat
    BY <1>6, <2>1 DEF Receive, DriverTypeOK
  <2> QED
    BY <2>2, <2>3, <2>4, <2>5, <2>6 DEF DriverTypeOK
<1>7. ASSUME NEW size \in Nat, InitStdMode(size)
      PROVE  DriverTypeOK'
  <2>1. SmallerOf(size, DmaMax) \in 0 .. DmaMax
    BY DEF SmallerOf
  <2> QED
    BY <1>7, <2>1 DEF InitStdMode, DriverTypeOK, curVars, ringVars, sessVars, QCap
<1>8. ASSUME NEW size \in Nat, Copy(size), rwPos <= dmaBuf
      PROVE  DriverTypeOK'
  <2>1. CopySize(size) \in Nat
    BY <1>8 DEF CopySize, SmallerOf, DriverTypeOK
  <2>2. torn' \in BOOLEAN
    BY <1>8, Zenon DEF Copy, DriverTypeOK
  <2> QED
    BY <1>8, <2>1, <2>2 DEF Copy, DriverTypeOK, chVars, ringVars, sessVars, QCap
<1>9. CASE UNCHANGED drvVars
  BY <1>9 DEF DriverTypeOK, drvVars, chVars, ringVars, curVars, sessVars, QCap
<1> QED
  BY <1>1, <1>2, <1>3, <1>4, <1>5, <1>6, <1>7, <1>8, <1>9, <1>10 DEF DriverStep

-----------------------------------------------------------------------------
(* The buffer d places behind buffer b of the ring, for 1 <= d < Desc.     *)
Behind(b, d) == IF b >= d THEN b - d ELSE b + Desc - d

(* The queue s holds the last Len(s) buffers of the ring in the order they *)
(* were filled, each with the capture it was filled with.                  *)
HoldsLatest(s) ==
  \A i \in 1 .. Len(s) :
    /\ s[i] = Behind(link, Len(s) - i + 1)
    /\ stamp[s[i]] + Len(s) + 1 = seq + i

RingInOrder == HoldsLatest(q)

(* Taking the oldest entry away leaves the others in order.                *)
LEMMA TailHoldsLatest ==
  ASSUME DriverTypeOK, RingInOrder, q # << >>
  PROVE  Len(Tail(q)) = Len(q) - 1 /\ HoldsLatest(Tail(q))
<1>1. /\ Len(q) \in Nat /\ Len(Tail(q)) = Len(q) - 1
      /\ \A i \in 1 .. Len(q) - 1 : Tail(q)[i] = q[i + 1]
  BY HeadTailProperties, LenProperties DEF DriverTypeOK
<1>2. SUFFICES ASSUME NEW i \in 1 .. Len(Tail(q))
               PROVE  /\ Tail(q)[i] = Behind(link, Len(Tail(q)) - i + 1)
                      /\ stamp[Tail(q)[i]] + Len(Tail(q)) + 1 = seq + i
  BY <1>1 DEF HoldsLatest
<1>3. i + 1 \in 1 .. Len(q) /\ Tail(q)[i] = q[i + 1]
  BY <1>1
<1>4. /\ q[i + 1] = Behind(link, Len(q) - (i + 1) + 1)
      /\ stamp[q[i + 1]] + Len(q) + 1 = seq + (i + 1)
  BY <1>3 DEF RingInOrder, HoldsLatest
<1>5. Len(q) - (i + 1) + 1 = Len(Tail(q)) - i + 1
  BY <1>1
<1>6. stamp[q[i + 1]] \in Nat /\ seq \in Nat
  <2>1. q[i + 1] \in Bufs
    BY <1>3, ElementOfSeq DEF DriverTypeOK
  <2> QED
    BY <2>1, DriverAssumption DEF DriverTypeOK
<1>7. Tail(q)[i] = Behind(link, Len(Tail(q)) - i + 1)
  BY <1>3, <1>4, <1>5
<1>8. stamp[Tail(q)[i]] + Len(Tail(q)) + 1 = seq + i
  <2>1. stamp[q[i + 1]] + Len(q) + 1 = seq + (i + 1) /\ i \in Nat
    BY <1>2, <1>4
  <2> QED
    BY <2>1, <1>1, <1>3, <1>6
<1> QED
  BY <1>7, <1>8

(* A buffer behind b is another buffer of the ring, and one further behind *)
(* once the DMA moves on.                                                  *)
LEMMA BehindOther ==
  ASSUME NEW b \in Bufs, NEW d \in 1 .. Desc - 1
  PROVE  Behind(b, d) \in Bufs /\ Behind(b, d) # b
BY DriverAssumption DEF Behind, Bufs

LEMMA BehindMovesOn ==
  ASSUME NEW b \in Bufs, NEW d \in 1 .. Desc - 1
  PROVE  Behind(NextDesc(b), d + 1) = Behind(b, d) /\ Behind(NextDesc(b), 1) = b
<1>1. NextDesc(b) = IF b = Desc - 1 THEN 0 ELSE b + 1
  BY NextDescInRing
<1>2. CASE b = Desc - 1
  BY <1>1, <1>2, DriverAssumption DEF Behind, Bufs
<1>3. CASE b # Desc - 1
  BY <1>1, <1>3, DriverAssumption DEF Behind, Bufs
<1> QED
  BY <1>2, <1>3

(* The interrupt appends the buffer it finished.                           *)
LEMMA DmaStepKeepsRing ==
  ASSUME DriverTypeOK, RingInOrder, DmaStep
  PROVE  RingInOrder'
<1> DEFINE kept == IF QueueFull THEN Tail(q) ELSE q
<1>1. Desc \in Nat /\ Desc >= 2 /\ QCap = Desc - 1 /\ link \in Bufs /\ seq \in Nat
  BY DriverAssumption DEF QCap, DriverTypeOK
<1>2. /\ kept \in Seq(Bufs) /\ HoldsLatest(kept)
      /\ Len(kept) \in Nat /\ Len(kept) <= Desc - 2
  <2>1. q \in Seq(Bufs) /\ Len(q) \in Nat /\ Len(q) <= QCap
    BY LenProperties DEF DriverTypeOK
  <2>2. CASE QueueFull
    <3>1. q # << >>
      BY <1>1, <2>2, EmptySeq DEF QueueFull
    <3>2. Tail(q) \in Seq(Bufs)
      BY <2>1, <3>1, HeadTailProperties
    <3> QED
      BY <1>1, <2>1, <2>2, <3>1, <3>2, TailHoldsLatest DEF QueueFull
  <2>3. CASE ~QueueFull
    BY <1>1, <2>1, <2>3 DEF QueueFull, RingInOrder
  <2> QED
    BY <2>2, <2>3
<1>3. /\ q' = Append(kept, link) /\ link' = NextDesc(link) /\ seq' = seq + 1
      /\ stamp' = [stamp EXCEPT ![link] = seq]
  BY DEF DmaStep
<1>4. /\ Len(q') = Len(kept) + 1
      /\ \A i \in 1 .. Len(kept) : q'[i] = kept[i]
      /\ q'[Len(kept) + 1] = link
  <2> HIDE DEF kept
  <2> QED
    BY <1>1, <1>2, <1>3, AppendProperties
<1>5. SUFFICES ASSUME NEW i \in 1 .. Len(kept) + 1
               PROVE  /\ q'[i] = Behind(link', Len(kept) + 2 - i)
                      /\ stamp'[q'[i]] + (Len(kept) + 1) + 1 = seq + 1 + i
  <2>1. \A i \in 1 .. Len(q') : Len(q') - i + 1 = Len(kept) + 2 - i
    BY <1>2, <1>4
  <2> HIDE DEF kept
  <2> QED
    BY <1>2, <1>3, <1>4, <2>1 DEF RingInOrder, HoldsLatest
<1> HIDE DEF kept
<1>6. CASE i = Len(kept) + 1
  <2>1. q'[i] = link /\ Len(kept) + 2 - i = 1
    BY <1>2, <1>4, <1>6
  <2>2. Behind(link', 1) = link
    <3>1. 1 \in 1 .. Desc - 1
      BY <1>1
    <3> QED
      BY <1>1, <1>3, <3>1, BehindMovesOn
  <2>3. stamp'[link] = seq
    BY <1>1, <1>3 DEF DriverTypeOK
  <2> QED
    BY <1>1, <1>2, <1>6, <2>1, <2>2, <2>3
<1>7. CASE i # Len(kept) + 1
  <2> DEFINE d == Len(kept) - i + 1
  <2>1. i \in 1 .. Len(kept) /\ d \in 1 .. Desc - 1 /\ Len(kept) + 2 - i = d + 1
    BY <1>1, <1>2, <1>7
  <2>2. q'[i] = kept[i] /\ kept[i] = Behind(link, d) /\ stamp[kept[i]] + Len(kept) + 1 = seq + i
    BY <1>2, <1>4, <2>1 DEF HoldsLatest
  <2> HIDE DEF d
  <2>3. Behind(link', d + 1) = Behind(link, d)
    BY <1>1, <1>3, <2>1, BehindMovesOn
  <2>4. Behind(link, d) \in Bufs /\ Behind(link, d) # link
    BY <1>1, <2>1, BehindOther
  <2>5. stamp'[kept[i]] = stamp[kept[i]] /\ stamp[kept[i]] \in Nat
    BY <1>3, <2>2, <2>4 DEF DriverTypeOK
  <2>6. q'[i] = Behind(link', Len(kept) + 2 - i)
    BY <2>1, <2>2, <2>3
  <2>7. i \in Nat /\ stamp'[q'[i]] = stamp[kept[i]]
    BY <2>1, <2>2, <2>5
  <2>8. stamp'[q'[i]] + (Len(kept) + 1) + 1 = seq + 1 + i
    <3> DEFINE a == stamp[kept[i]]
               l == Len(kept)
    <3>1. /\ a \in Nat /\ l \in Nat /\ seq \in Nat /\ i \in Nat
          /\ a + l + 1 = seq + i /\ stamp'[q'[i]] = a
      BY <1>1, <1>2, <2>2, <2>5, <2>7
    <3> HIDE DEF a, l
    <3>2. a + (l + 1) + 1 = seq + 1 + i
      BY <3>1
    <3> QED
      BY <3>1, <3>2 DEF l
  <2> QED
    BY <2>6, <2>8
<1> QED
  BY <1>6, <1>7

(* Every step of the driver keeps the ring in order.                       *)
LEMMA RingStep ==
  ASSUME DriverTypeOK, RingInOrder, DriverStep
  PROVE  RingInOrder'
<1>1. CASE q' = << >>
  BY <1>1, EmptySeq DEF RingInOrder, HoldsLatest
<1>2. CASE Receive
  <2>1. q' = Tail(q) /\ UNCHANGED <<link, stamp, seq>>
    BY <1>2 DEF Receive
  <2>2. HoldsLatest(Tail(q))
    BY <1>2, TailHoldsLatest DEF Receive
  <2> QED
    BY <2>1, <2>2 DEF RingInOrder, HoldsLatest, Behind
<1>3. CASE DmaStep
  BY <1>3, DmaStepKeepsRing
<1>4. CASE UNCHANGED ringVars
  BY <1>4 DEF RingInOrder, HoldsLatest, Behind, ringVars
<1>5. q' = << >> \/ Receive \/ DmaStep \/ UNCHANGED ringVars
  BY DEF DriverStep, NewChannel, DelChannel, BlankChannel, Enable, DisableBegin,
     DisableEnd, TakeSem, GiveSem, InitStdMode, Copy, drvVars
<1> QED
  BY <1>1, <1>2, <1>3, <1>4, <1>5

-----------------------------------------------------------------------------
(* Type correctness *)

(* The next-state relation by actor.                                       *)
ControlNext == ControlStep \/ ControlCall
ReaderNext(r) == ReaderStep(r) \/ ReaderCall(r)

(* What a copy needs to be in range: the read position is inside the       *)
(* buffer, a fresh channel has no buffer yet, and a read never has more    *)
(* bytes than it asked for.                                                *)
CopyBounds ==
  /\ rwPos <= dmaBuf
  /\ ctl = "init_std" => dmaBuf = 0
  /\ \A r \in Readers : InCall(r) => n[r] <= len[r]

Typed == TypeOK /\ CopyBounds

(* Numbers of a typed state. *)
LEMMA Numbers ==
  ASSUME TypeOK, NEW r \in Readers
  PROVE  /\ n[r] \in Nat /\ len[r] \in Nat /\ left[r] \in Nat /\ popped[r] \in Nat
         /\ rwPos \in Nat /\ dmaBuf \in Nat
<1>1. n[r] \in Nat /\ popped[r] \in Nat
  BY DEF TypeOK, ReaderTypeOK
<1>2. len[r] \in Lens \cup {0}
  BY DEF TypeOK, ReaderTypeOK
<1>3. len[r] \in Nat
  <2>1. CASE len[r] \in Lens
    BY <2>1, MicAssumption, Zenon
  <2>2. CASE len[r] = 0
    BY <2>2
  <2> QED
    BY <1>2, <2>1, <2>2
<1>4. left[r] \in Slices
  BY DEF TypeOK, ReaderTypeOK
<1>5. left[r] \in Nat
  BY <1>4, MicAssumption DEF Slices
<1>6. rwPos \in Nat /\ dmaBuf \in Nat
  BY DriverAssumption DEF TypeOK, DriverTypeOK
<1> QED
  BY <1>1, <1>3, <1>5, <1>6

LEMMA NextByActor ==
  ASSUME [Next]_vars
  PROVE  ControlNext \/ (\E r \in Readers : ReaderNext(r)) \/ RxIsr \/ UNCHANGED vars
BY Zenon DEF Next, ControlNext, ReaderNext

(***************************************************************************)
(* The control task                                                        *)
(***************************************************************************)

(* The control task changes nothing of a read but the history of it.       *)
LEMMA ControlLeavesReads ==
  ASSUME ControlNext
  PROVE  UNCHANGED <<pc, left, len, n, ret, popped>>
<1>1. CASE ControlCall
  BY <1>1 DEF ControlCall, InitCall, DeinitCall, StartCall, StopCall, rdVars
<1>2. CASE ControlStep
  <2>1. CASE StartRun \/ StopClear
    BY <2>1 DEF StartRun, StopClear
  <2>2. CASE ~(StartRun \/ StopClear)
    BY <1>2, <2>2 DEF ControlStep, InitStd, InitInfo, InitCallbacks, InitFields,
       InitPublish, InitFail, DeinitDel, DeinitClear, StartReset, StartEnable,
       StartState, StopDisable, StopWait, StopState, rdVars
  <2> QED
    BY <2>1, <2>2
<1> QED
  BY <1>1, <1>2 DEF ControlNext

LEMMA ControlDriverStep ==
  ASSUME TypeOK, ControlNext
  PROVE  DriverStep
<1>1. CASE ControlCall
  BY <1>1 DEF ControlCall, InitCall, DeinitCall, StartCall, StopCall, DriverStep
<1>2. CASE InitStd
  <2>1. req \in Nat
    BY MicAssumption DEF TypeOK, MicTypeOK
  <2> QED
    BY <1>2, <2>1 DEF InitStd, DriverStep
<1>3. CASE ControlStep /\ ~InitStd
  BY <1>3 DEF ControlStep, InitInfo, InitCallbacks, InitFields,
     InitPublish, InitFail, DeinitDel, DeinitClear, StartReset, StartEnable,
     StartRun, StartState, StopClear, StopDisable, StopWait, StopState, DriverStep
<1> QED
  BY <1>1, <1>2, <1>3 DEF ControlNext

LEMMA ControlMicType ==
  ASSUME TypeOK, ControlNext
  PROVE  MicTypeOK'
<1> USE DEF TypeOK, MicTypeOK, CtlSteps, Results, Errors, CtlGoto, CtlReturn, CtlStart
<1>1. CASE ControlCall
  <2>1. ASSUME NEW size \in Sizes, InitCall(size)
        PROVE  MicTypeOK'
    BY <2>1 DEF InitCall, micVars
  <2>2. CASE DeinitCall
    BY <2>2 DEF DeinitCall, micVars
  <2>3. CASE StartCall \/ StopCall
    BY <2>3 DEF StartCall, StopCall, micVars
  <2> QED
    BY <1>1, <2>1, <2>2, <2>3 DEF ControlCall
<1>2. CASE InitStd \/ InitInfo \/ InitCallbacks
  BY <1>2 DEF InitStd, InitInfo, InitCallbacks, InitError, micVars
<1>3. CASE InitFields
  BY <1>3 DEF InitFields, DriverTypeOK
<1>4. CASE InitPublish \/ InitFail
  BY <1>4 DEF InitPublish, InitFail, micVars
<1>5. CASE DeinitDel
  BY <1>5 DEF DeinitDel, micVars
<1>10. CASE DeinitClear
  <2>1. 0 \in 0 .. DmaMax
    BY DriverAssumption
  <2> QED
    BY <1>10, <2>1 DEF DeinitClear
<1>6. CASE StartReset \/ StartEnable
  BY <1>6 DEF StartReset, StartEnable, micVars
<1>7. CASE StartRun \/ StartState
  BY <1>7 DEF StartRun, StartState
<1>8. CASE StopClear \/ StopState
  BY <1>8 DEF StopClear, StopState
<1>9. CASE StopDisable \/ StopWait
  BY <1>9 DEF StopDisable, StopWait, micVars
<1> QED
  BY <1>1, <1>2, <1>3, <1>4, <1>5, <1>6, <1>7, <1>8, <1>9, <1>10 DEF ControlNext, ControlStep

LEMMA ControlReaderType ==
  ASSUME TypeOK, ControlNext
  PROVE  ReaderTypeOK'
<1>1. UNCHANGED <<pc, left, len, n, ret, popped>>
  BY ControlLeavesReads
<1>2. missed' \in [Readers -> {"no", "stop", "restart"}]
  <2>1. CASE StartRun
    BY <2>1 DEF StartRun, TypeOK, ReaderTypeOK
  <2>2. CASE StopClear
    BY <2>2 DEF StopClear, TypeOK, ReaderTypeOK
  <2>3. CASE ~StartRun /\ ~StopClear
    <3>1. missed' = missed
      BY <2>3 DEF ControlNext, ControlCall, InitCall, DeinitCall, StartCall, StopCall,
         ControlStep, InitStd, InitInfo, InitCallbacks, InitFields,
         InitPublish, InitFail, DeinitDel, DeinitClear, StartReset, StartEnable,
         StartState, StopDisable, StopWait, StopState, rdVars
    <3> QED
      BY <3>1 DEF TypeOK, ReaderTypeOK
  <2> QED
    BY <2>1, <2>2, <2>3
<1> QED
  BY <1>1, <1>2 DEF TypeOK, ReaderTypeOK

LEMMA ControlCopyBounds ==
  ASSUME TypeOK, CopyBounds, ControlNext
  PROVE  CopyBounds'
<1>1. UNCHANGED <<pc, len, n>>
  BY ControlLeavesReads
<1>2. \A r \in Readers : (InCall(r) => n[r] <= len[r])'
  BY <1>1 DEF CopyBounds, InCall, InDriver
<1>3. (rwPos <= dmaBuf /\ (ctl = "init_std" => dmaBuf = 0))'
  <2>1. CASE ControlCall
    <3>1. ASSUME NEW size \in Sizes, InitCall(size)
          PROVE  (rwPos <= dmaBuf /\ (ctl = "init_std" => dmaBuf = 0))'
      BY <3>1 DEF InitCall, NewChannel, BlankChannel, CopyBounds, CtlReturn,
         drvVars, curVars, chVars
    <3>2. CASE DeinitCall \/ StartCall \/ StopCall
      BY <3>2 DEF DeinitCall, StartCall, StopCall, CopyBounds, CtlReturn, CtlStart,
         drvVars, curVars, chVars
    <3> QED
      BY <2>1, <3>1, <3>2 DEF ControlCall
  <2>2. CASE InitStd
    <3>1. CASE InitStdMode(req) /\ CtlGoto("init_info")
      <4>1. rwPos' = rwPos /\ rwPos = 0 /\ ctl' = "init_info"
        BY <2>2, <3>1 DEF InitStd, InitStdMode, CtlGoto, curVars, CopyBounds,
           TypeOK, DriverTypeOK
      <4>2. dmaBuf' \in Nat
        BY <3>1, DriverAssumption, MicAssumption DEF InitStdMode, SmallerOf, TypeOK, MicTypeOK
      <4> QED
        BY <4>1, <4>2
    <3>2. CASE UNCHANGED drvVars /\ InitError("FAIL")
      BY <3>2 DEF InitError, drvVars, curVars, chVars, CopyBounds
    <3> QED
      BY <2>2, <3>1, <3>2 DEF InitStd
  <2>3. CASE InitInfo \/ InitCallbacks \/ InitFields \/ InitPublish
    BY <2>3 DEF InitInfo, InitCallbacks, InitFields, InitPublish, InitError, CtlGoto,
       CtlReturn, drvVars, curVars, chVars, CopyBounds
  <2>4. CASE InitFail \/ DeinitDel \/ DeinitClear
    BY <2>4 DEF InitFail, DeinitDel, DeinitClear, DelChannel, BlankChannel,
       drvVars, curVars, chVars, CopyBounds
  <2>5. CASE StartReset \/ StartEnable \/ StartRun \/ StartState
    BY <2>5 DEF StartReset, StartEnable, StartRun, StartState, Enable, CtlGoto,
       CtlReturn, drvVars, curVars, chVars, CopyBounds
  <2>6. CASE StopClear \/ StopDisable \/ StopState
    BY <2>6 DEF StopClear, StopDisable, StopState, DisableBegin, CtlGoto, CtlReturn,
       drvVars, curVars, chVars, CopyBounds
  <2>7. CASE StopWait
    BY <2>7 DEF StopWait, DisableEnd, CopyBounds, TypeOK, DriverTypeOK
  <2> QED
    BY <2>1, <2>2, <2>3, <2>4, <2>5, <2>6, <2>7 DEF ControlNext, ControlStep
<1> QED
  BY <1>2, <1>3 DEF CopyBounds

(***************************************************************************)
(* The readers                                                             *)
(***************************************************************************)

(* A reader changes no state of the control task and none of s_mic but     *)
(* reader_active.                                                          *)
LEMMA ReaderLeavesControl ==
  ASSUME NEW r \in Readers, ReaderNext(r)
  PROVE  UNCHANGED <<ctlVars, state, running, overflow_count, rx, buf_size>>
BY DEF ReaderNext, ReaderCall, ReadRefused, ReadClaim, ReaderStep, RdCheck, RdSem,
   RdSemTimeout, RdLoop, RdReceive, RdQueueTimeout, RdCopy, RdGive, RdPost,
   RdRelease, micVars

(* A reader changes nothing of another read.                               *)
LEMMA ReaderLeavesOthers ==
  ASSUME TypeOK, NEW r \in Readers, NEW s \in Readers, r # s, ReaderNext(r)
  PROVE  /\ pc'[s] = pc[s] /\ left'[s] = left[s] /\ len'[s] = len[s] /\ n'[s] = n[s]
         /\ ret'[s] = ret[s] /\ popped'[s] = popped[s] /\ missed'[s] = missed[s]
<1> USE DEF TypeOK, ReaderTypeOK, RdGoto, RdReturn
<1>1. CASE ReaderCall(r)
  BY <1>1 DEF ReaderCall, ReadRefused, ReadClaim
<1>2. CASE RdCheck(r) \/ RdSem(r) \/ RdSemTimeout(r) \/ RdLoop(r)
  BY <1>2 DEF RdCheck, RdSem, RdSemTimeout, RdLoop
<1>3. CASE RdReceive(r) \/ RdQueueTimeout(r) \/ RdCopy(r) \/ RdGive(r)
  BY <1>3 DEF RdReceive, RdQueueTimeout, RdCopy, RdGive
<1>4. CASE RdPost(r)
  BY <1>4 DEF RdPost
<1>5. CASE RdRelease(r)
  BY <1>5 DEF RdRelease
<1> QED
  BY <1>1, <1>2, <1>3, <1>4, <1>5 DEF ReaderNext, ReaderStep

LEMMA ReaderDriverStep ==
  ASSUME TypeOK, CopyBounds, NEW r \in Readers, ReaderNext(r)
  PROVE  DriverStep
<1>1. CASE RdCopy(r)
  <2>1. n[r] <= len[r] /\ rwPos <= dmaBuf
    BY <1>1 DEF RdCopy, CopyBounds, InCall, InDriver
  <2>3. n[r] \in Nat /\ len[r] \in Nat
    BY Numbers
  <2>2. len[r] - n[r] \in Nat
    BY <2>1, <2>3
  <2> QED
    BY <1>1, <2>1, <2>2 DEF RdCopy, DriverStep
<1>2. CASE ReaderNext(r) /\ ~RdCopy(r)
  BY <1>2 DEF ReaderNext, ReaderCall, ReadRefused, ReadClaim, ReaderStep, RdCheck, RdSem,
     RdSemTimeout, RdLoop, RdReceive, RdQueueTimeout, RdGive, RdPost, RdRelease, DriverStep
<1> QED
  BY <1>1, <1>2

LEMMA ReaderTypes ==
  ASSUME TypeOK, CopyBounds, NEW r \in Readers, ReaderNext(r)
  PROVE  ReaderTypeOK'
<1> USE DEF TypeOK, ReaderTypeOK, RdSteps, Results, Errors, RdGoto, RdReturn
<1>1. CASE ReaderCall(r)
  <2>1. ASSUME NEW null \in BOOLEAN, NEW l \in Lens, ReadRefused(r, null, l)
        PROVE  ReaderTypeOK'
    BY <2>1 DEF ReadRefused, ReadCheck
  <2>2. ASSUME NEW l \in Lens, NEW slices \in Slices, ReadClaim(r, l, slices)
        PROVE  ReaderTypeOK'
    BY <2>2 DEF ReadClaim
  <2> QED
    BY <1>1, <2>1, <2>2 DEF ReaderCall
<1>2. CASE RdCheck(r)
  BY <1>2 DEF RdCheck
<1>3. CASE RdSem(r) \/ RdSemTimeout(r) \/ RdLoop(r)
  BY <1>3 DEF RdSem, RdSemTimeout, RdLoop
<1>4. CASE RdQueueTimeout(r) \/ RdGive(r)
  BY <1>4 DEF RdQueueTimeout, RdGive
<1>8. CASE RdReceive(r)
  BY <1>8 DEF RdReceive
<1>5. CASE RdCopy(r)
  <2>1. CopySize(len[r] - n[r]) \in Nat
    <3>1. n[r] <= len[r] /\ rwPos <= dmaBuf
      BY <1>5 DEF RdCopy, CopyBounds, InCall, InDriver
    <3>2. n[r] \in Nat /\ len[r] \in Nat /\ rwPos \in Nat /\ dmaBuf \in Nat
      BY Numbers
    <3> QED
      BY <3>1, <3>2 DEF CopySize, SmallerOf
  <2> QED
    BY <1>5, <2>1 DEF RdCopy
<1>6. CASE RdPost(r)
  <2>1. NextSlices(left[r]) \subseteq Slices
    BY DEF NextSlices
  <2> QED
    BY <1>6, <2>1 DEF RdPost
<1>7. CASE RdRelease(r)
  <2>1. len[r] \in Nat
    BY Numbers
  <2>2. 0 \in Slices
    BY MicAssumption DEF Slices, Forever
  <2> QED
    BY <1>7, <2>1, <2>2 DEF RdRelease
<1> QED
  BY <1>1, <1>2, <1>3, <1>4, <1>5, <1>6, <1>7, <1>8 DEF ReaderNext, ReaderStep

LEMMA ReaderMicType ==
  ASSUME TypeOK, NEW r \in Readers, ReaderNext(r)
  PROVE  MicTypeOK'
<1>1. UNCHANGED <<ctlVars, state, running, overflow_count, rx, buf_size>>
  BY ReaderLeavesControl
<1>2. reader_active' \in BOOLEAN
  BY DEF ReaderNext, ReaderCall, ReadRefused, ReadClaim, ReaderStep, RdCheck, RdSem,
     RdSemTimeout, RdLoop, RdReceive, RdQueueTimeout, RdCopy, RdGive, RdPost, RdRelease,
     micVars, TypeOK, MicTypeOK
<1> QED
  BY <1>1, <1>2 DEF TypeOK, MicTypeOK, ctlVars

(* A copy advances the read position and the bytes read by the same amount, *)
(* and neither beyond its end.                                             *)
LEMMA CopyAdvances ==
  ASSUME TypeOK, CopyBounds, NEW r \in Readers, RdCopy(r)
  PROVE  /\ n'[r] = n[r] + CopySize(len[r] - n[r])
         /\ rwPos' = rwPos + CopySize(len[r] - n[r])
         /\ n'[r] <= len[r] /\ rwPos' <= dmaBuf
<1>1. n[r] <= len[r] /\ rwPos <= dmaBuf
  BY DEF RdCopy, CopyBounds, InCall, InDriver
<1>2. n[r] \in Nat /\ len[r] \in Nat /\ rwPos \in Nat /\ dmaBuf \in Nat
  BY Numbers
<1>3. n'[r] = n[r] + CopySize(len[r] - n[r]) /\ rwPos' = rwPos + CopySize(len[r] - n[r])
  BY DEF RdCopy, Copy, TypeOK, ReaderTypeOK
<1> QED
  BY <1>1, <1>2, <1>3 DEF CopySize, SmallerOf

LEMMA ReaderCopyBounds ==
  ASSUME TypeOK, CopyBounds, NEW r \in Readers, ReaderNext(r)
  PROVE  CopyBounds'
<1>1. UNCHANGED <<ctl, dmaBuf>>
  <2>1. dmaBuf' = dmaBuf
    BY DEF ReaderNext, ReaderCall, ReadRefused, ReadClaim, ReaderStep, RdCheck, RdSem,
       RdSemTimeout, RdLoop, RdReceive, RdQueueTimeout, RdCopy, RdGive, RdPost, RdRelease,
       TakeSem, GiveSem, Receive, Copy, drvVars, chVars
  <2> QED
    BY <2>1, ReaderLeavesControl DEF ctlVars
<1>2. (rwPos <= dmaBuf)'
  <2>1. CASE RdCopy(r)
    BY <1>1, <2>1, CopyAdvances
  <2>2. CASE RdReceive(r)
    <3>1. rwPos' = 0
      BY <2>2 DEF RdReceive, Receive
    <3> QED
      BY <1>1, <3>1, DriverAssumption DEF TypeOK, DriverTypeOK
  <2>3. CASE ReaderNext(r) /\ ~RdCopy(r) /\ ~RdReceive(r)
    <3>1. rwPos' = rwPos
      BY <2>3 DEF ReaderNext, ReaderCall, ReadRefused, ReadClaim, ReaderStep, RdCheck, RdSem,
         RdSemTimeout, RdLoop, RdQueueTimeout, RdGive, RdPost, RdRelease,
         TakeSem, GiveSem, drvVars, curVars
    <3> QED
      BY <1>1, <3>1 DEF CopyBounds
  <2> QED
    BY <2>1, <2>2, <2>3
<1>3. ASSUME NEW s \in Readers
      PROVE  (InCall(s) => n[s] <= len[s])'
  <2> USE DEF InCall, InDriver, RdGoto, RdReturn
  <2>1. CASE s # r
    BY <2>1, ReaderLeavesOthers DEF CopyBounds
  <2>2. CASE s = r /\ RdCopy(r)
    <3>1. len' = len
      BY <2>2 DEF RdCopy
    <3> QED
      BY <2>2, <3>1, CopyAdvances
  <2>3. CASE s = r /\ RdCheck(r)
    <3>1. InCall(r)' => n'[r] = 0 /\ len' = len
      BY <2>3 DEF RdCheck, TypeOK, ReaderTypeOK
    <3> QED
      BY <2>3, <3>1, Numbers
  <2>4. CASE s = r /\ (RdSem(r) \/ RdLoop(r) \/ RdReceive(r) \/ RdQueueTimeout(r))
    BY <2>4 DEF RdSem, RdLoop, RdReceive, RdQueueTimeout, CopyBounds
  <2>5. CASE s = r /\ (RdSemTimeout(r) \/ RdGive(r) \/ RdPost(r) \/ RdRelease(r))
    BY <2>5 DEF RdSemTimeout, RdGive, RdPost, RdRelease, TypeOK, ReaderTypeOK
  <2>6. CASE s = r /\ ReaderCall(r)
    BY <2>6 DEF ReaderCall, ReadRefused, ReadClaim, TypeOK, ReaderTypeOK
  <2> QED
    BY <2>1, <2>2, <2>3, <2>4, <2>5, <2>6 DEF ReaderNext, ReaderStep
<1> QED
  BY <1>1, <1>2, <1>3 DEF CopyBounds

(***************************************************************************)
(* The interrupt, and type correctness                                     *)
(***************************************************************************)

LEMMA IsrTyped ==
  ASSUME Typed, RxIsr
  PROVE  Typed' /\ DriverStep
<1>1. DriverStep
  BY DEF RxIsr, DriverStep
<1>2. DriverTypeOK'
  BY <1>1, DriverTypeStep DEF Typed, TypeOK
<1>3. overflow_count' \in Nat
  BY DEF RxIsr, CountOverflow, Typed, TypeOK, MicTypeOK
<1>4. MicTypeOK' /\ ReaderTypeOK'
  BY <1>3 DEF RxIsr, ctlVars, rdVars, Typed, TypeOK, MicTypeOK, ReaderTypeOK
<1>5. CopyBounds'
  BY DEF RxIsr, DmaStep, chVars, curVars, ctlVars, rdVars, Typed, CopyBounds, InCall, InDriver
<1> QED
  BY <1>1, <1>2, <1>4, <1>5 DEF Typed, TypeOK

LEMMA InitTyped ==
  ASSUME Init
  PROVE  Typed
<1>1. 0 \in Bufs /\ QCap \in Nat /\ 0 \in 0 .. SeqBound /\ 0 \in 0 .. DmaMax
  BY DriverAssumption DEF Bufs, QCap
<1>2. DriverTypeOK
  <2>1. q \in Seq(Bufs) /\ Len(q) <= QCap
    BY <1>1, EmptySeq DEF Init, DriverInit
  <2>2. stamp \in [Bufs -> Nat]
    BY DEF Init, DriverInit
  <2>3. sem \in BOOLEAN /\ dmaOn \in BOOLEAN /\ torn \in BOOLEAN
    BY DEF Init, DriverInit
  <2> QED
    BY <1>1, <2>1, <2>2, <2>3 DEF Init, DriverInit, DriverTypeOK
<1>5. MicTypeOK
  BY <1>1 DEF Init, MicTypeOK, CtlSteps, Results
<1>3. ReaderTypeOK
  BY MicAssumption DEF Init, ReaderTypeOK, RdSteps, Results, Slices, Forever
<1>4. CopyBounds
  BY DEF Init, DriverInit, CopyBounds, InCall, InDriver
<1> QED
  BY <1>2, <1>3, <1>4, <1>5 DEF Typed, TypeOK

LEMMA NextTyped ==
  ASSUME Typed, [Next]_vars
  PROVE  Typed'
<1>1. CASE ControlNext
  <2>1. DriverTypeOK'
    BY <1>1, ControlDriverStep, DriverTypeStep DEF Typed, TypeOK
  <2> QED
    BY <1>1, <2>1, ControlMicType, ControlReaderType, ControlCopyBounds DEF Typed, TypeOK
<1>2. ASSUME NEW r \in Readers, ReaderNext(r)
      PROVE  Typed'
  <2>1. DriverTypeOK'
    BY <1>2, ReaderDriverStep, DriverTypeStep DEF Typed, TypeOK
  <2> QED
    BY <1>2, <2>1, ReaderMicType, ReaderTypes, ReaderCopyBounds DEF Typed, TypeOK
<1>3. CASE RxIsr
  BY <1>3, IsrTyped
<1>4. CASE UNCHANGED vars
  <2>1. UNCHANGED <<drvVars, micVars, ctlVars, rdVars>>
    BY <1>4 DEF vars
  <2>2. DriverTypeOK'
    BY <2>1, DriverTypeStep DEF DriverStep, Typed, TypeOK
  <2>3. MicTypeOK' /\ ReaderTypeOK'
    BY <2>1 DEF micVars, ctlVars, rdVars, Typed, TypeOK, MicTypeOK, ReaderTypeOK
  <2>4. UNCHANGED <<rwPos, dmaBuf, ctl, pc, n, len>>
    BY <2>1 DEF drvVars, chVars, curVars, ctlVars, rdVars
  <2>5. CopyBounds'
    BY <2>4 DEF Typed, CopyBounds, InCall, InDriver
  <2> QED
    BY <2>2, <2>3, <2>5 DEF Typed, TypeOK
<1> QED
  BY <1>1, <1>2, <1>3, <1>4, NextByActor

(* Type correctness (i2s_mic.c, lines 63-82; sim_driver.c, lines 30-49):   *)
(* whatever the calls, interrupts and timeouts, no variable leaves its set *)
(* and the driver's queue never holds more than its capacity.              *)
THEOREM TypeCorrect == Spec => []TypeOK
<1>1. Spec => []Typed
  BY InitTyped, NextTyped, PTL DEF Spec
<1>2. Typed => TypeOK
  BY DEF Typed
<1> QED
  BY <1>1, <1>2, PTL

-----------------------------------------------------------------------------
(* Coordination *)

(* s_mic.state while the control task is inside a call. *)
StateOfStep ==
  /\ ctl \in {"init_std", "init_info", "init_cb", "init_fields", "init_publish",
              "init_fail", "deinit_del", "deinit_clear"} => state = "UNINIT"
  /\ ctl \in {"start_reset", "start_enable", "start_run", "start_state"}
       => state = "INITIALIZED"
  /\ ctl \in {"stop_clear", "stop_disable", "stop_wait", "stop_state"}
       => state = "RUNNING"

(* The channel's state, from the step of the control task, or from         *)
(* s_mic.state between two calls.                                          *)
ChannelOfStep ==
  /\ ctl = "idle" => /\ state = "UNINIT" => chState = "NONE"
                     /\ state = "INITIALIZED" => chState = "READY"
                     /\ state = "RUNNING" => chState = "RUNNING"
  /\ ctl = "init_std" => chState = "REGISTERED"
  /\ ctl = "init_fail" => chState \in {"REGISTERED", "READY"}
  /\ ctl \in {"init_info", "init_cb", "init_fields", "init_publish", "deinit_del",
              "start_reset", "start_enable", "stop_wait", "stop_state"}
       => chState = "READY"
  /\ ctl \in {"start_run", "start_state", "stop_clear", "stop_disable"}
       => chState = "RUNNING"
  /\ ctl = "deinit_clear" => chState = "NONE"

RunningOfStep ==
  running <=> ctl \in {"start_state", "stop_clear"} \/ (ctl = "idle" /\ state = "RUNNING")

(* The DMA runs from the enable to the end of the disable. *)
DmaOfChannel == dmaOn <=> chState = "RUNNING" \/ ctl = "stop_wait"

(* The handle and the size of what is published, or about to be. *)
HandleHeld ==
  /\ ctl \in {"init_cb", "init_fields"} => dmaBuf = req
  /\ state # "UNINIT" \/ ctl = "init_publish" => rx /\ dmaBuf = req /\ buf_size = req

ControlInv ==
  StateOfStep /\ ChannelOfStep /\ RunningOfStep /\ DmaOfChannel /\ HandleHeld

(* Nobody is inside a read of an uninitialised component. *)
ReadersNeedInit == \A r \in Readers : Inside(r) => state # "UNINIT"

(* The semaphore is one token: given by the enable, held by a reader in    *)
(* its copy loop or by the disabled channel.                               *)
OneToken ==
  /\ sem => dmaOn
  /\ \A r \in Readers : InDriver(r) => ~sem /\ dmaOn

Coordination ==
  Typed /\ ControlInv /\ SingleReader /\ ReadersNeedInit /\ OneToken

-----------------------------------------------------------------------------
LEMMA InitCoordination ==
  ASSUME Init
  PROVE  Coordination
<1>1. Typed
  BY InitTyped
<1>2. ControlInv
  BY DEF Init, DriverInit, ControlInv, StateOfStep, ChannelOfStep, RunningOfStep,
     DmaOfChannel, HandleHeld
<1>3. SingleReader /\ ReadersNeedInit /\ OneToken
  BY DEF Init, DriverInit, SingleReader, ReadersNeedInit, OneToken, Inside, Blocked,
     InCall, InDriver
<1> QED
  BY <1>1, <1>2, <1>3 DEF Coordination

(* The control task keeps its own part. *)
LEMMA ControlKeepsControlInv ==
  ASSUME Typed, ControlInv, SingleReader, ReadersNeedInit, ControlNext
  PROVE  ControlInv'
<1> USE DEF ControlInv, StateOfStep, ChannelOfStep, RunningOfStep, DmaOfChannel,
            HandleHeld, CtlGoto, CtlStart, CtlReturn, drvVars, chVars, micVars
<1>1. ASSUME NEW size \in Sizes, InitCall(size)
      PROVE  ControlInv'
  BY <1>1 DEF InitCall, NewChannel, BlankChannel
<1>2. CASE DeinitCall
  BY <1>2 DEF DeinitCall, DeinitRefused
<1>3. CASE StartCall
  BY <1>3 DEF StartCall, StartRefused
<1>4. CASE StopCall
  BY <1>4 DEF StopCall
<1>5. CASE InitStd
  BY <1>5 DEF InitStd, InitStdMode, InitError
<1>6. CASE InitInfo
  BY <1>6 DEF InitInfo, SizeIsActual, InitError
<1>7. CASE InitCallbacks
  BY <1>7 DEF InitCallbacks, InitError
<1>8. CASE InitFields
  BY <1>8 DEF InitFields
<1>9. CASE InitPublish
  BY <1>9 DEF InitPublish
<1>10. CASE InitFail
  BY <1>10 DEF InitFail, DelChannel, BlankChannel
<1>11. CASE DeinitDel
  BY <1>11 DEF DeinitDel, DelChannel, BlankChannel, CanDelete
<1>12. CASE DeinitClear
  BY <1>12 DEF DeinitClear
<1>13. CASE StartReset
  BY <1>13 DEF StartReset
<1>14. CASE StartEnable
  BY <1>14 DEF StartEnable, Enable
<1>15. CASE StartRun
  BY <1>15 DEF StartRun
<1>16. CASE StartState
  BY <1>16 DEF StartState
<1>17. CASE StopClear
  BY <1>17 DEF StopClear
<1>18. CASE StopDisable
  BY <1>18 DEF StopDisable, DisableBegin
<1>19. CASE StopWait
  BY <1>19 DEF StopWait, DisableEnd
<1>20. CASE StopState
  BY <1>20 DEF StopState
<1> QED
  BY <1>1, <1>2, <1>3, <1>4, <1>5, <1>6, <1>7, <1>8, <1>9, <1>10, <1>11, <1>12,
     <1>13, <1>14, <1>15, <1>16, <1>17, <1>18, <1>19, <1>20
  DEF ControlNext, ControlCall, ControlStep

(* What the control task may do to the readers' part. *)
LEMMA ControlKeepsReaders ==
  ASSUME Coordination, ControlNext
  PROVE  SingleReader' /\ ReadersNeedInit' /\ OneToken'
<1>1. pc' = pc
  BY ControlLeavesReads
<1>2. \A r \in Readers : Inside(r)' = Inside(r) /\ InDriver(r)' = InDriver(r)
  BY <1>1 DEF Inside, Blocked, InCall, InDriver
<1>3. SingleReader'
  <2>1. CASE reader_active' = reader_active
    BY <1>2, <2>1, Zenon DEF Coordination, SingleReader
  <2>2. CASE InitFields
    <3>1. state = "UNINIT" /\ reader_active' = FALSE
      BY <2>2 DEF InitFields, Coordination, ControlInv, StateOfStep
    <3> QED
      BY <1>2, <3>1 DEF Coordination, SingleReader, ReadersNeedInit
  <2>3. reader_active' = reader_active \/ InitFields
    BY DEF ControlNext, ControlCall, InitCall, DeinitCall, StartCall, StopCall,
       ControlStep, InitStd, InitInfo, InitCallbacks, InitPublish, InitFail, DeinitDel,
       DeinitClear, StartReset, StartEnable, StartRun, StartState, StopClear,
       StopDisable, StopWait, StopState, micVars
  <2> QED
    BY <2>1, <2>2, <2>3
<1>4. ReadersNeedInit'
  <2>1. CASE DeinitCall
    <3>1. CASE DeinitRefused
      BY <1>2, <2>1, <3>1 DEF DeinitCall, micVars, Coordination, ReadersNeedInit
    <3>2. CASE ~DeinitRefused
      BY <1>2, <3>2 DEF DeinitRefused, Coordination, SingleReader, ReadersNeedInit
    <3> QED
      BY <3>1, <3>2
  <2>2. CASE ~DeinitCall
    <3>1. state' = state \/ state' # "UNINIT"
      BY <2>2 DEF ControlNext, ControlCall, InitCall, StartCall, StopCall,
         ControlStep, InitStd, InitInfo, InitCallbacks, InitFields, InitPublish, InitFail,
         DeinitDel, DeinitClear, StartReset, StartEnable, StartRun, StartState, StopClear,
         StopDisable, StopWait, StopState, micVars
    <3> QED
      BY <1>2, <3>1 DEF Coordination, ReadersNeedInit
  <2> QED
    BY <2>1, <2>2
<1>5. OneToken'
  <2> USE DEF Coordination, OneToken
  <2>1. CASE (ctl = "idle" /\ state = "UNINIT") \/ ctl \in {"init_fail", "deinit_del"}
    <3>1. \A r \in Readers : ~InDriver(r)
      BY <2>1 DEF ReadersNeedInit, Inside, Blocked, InCall, ControlInv, StateOfStep
    <3>2. (dmaOn' = dmaOn /\ sem' = sem) \/ ~sem'
      BY <2>1 DEF ControlNext, ControlCall, InitCall, DeinitCall, StartCall, StopCall,
         ControlStep, InitStd, InitInfo, InitCallbacks, InitFields, InitPublish, InitFail,
         DeinitDel, DeinitClear, StartReset, StartEnable, StartRun, StartState, StopClear,
         StopDisable, StopWait, StopState, NewChannel, DelChannel, BlankChannel,
         drvVars, chVars
    <3> QED
      BY <1>2, <3>1, <3>2
  <2>2. CASE StartEnable
    <3>1. CASE Enable
      <4>1. ~dmaOn
        BY <2>2 DEF StartEnable, ControlInv, ChannelOfStep, DmaOfChannel
      <4> QED
        BY <1>2, <3>1, <4>1 DEF Enable
    <3>2. CASE UNCHANGED drvVars
      BY <1>2, <3>2 DEF drvVars, chVars
    <3> QED
      BY <2>2, <3>1, <3>2 DEF StartEnable
  <2>3. CASE StopWait
    BY <1>2, <2>3 DEF StopWait, DisableEnd
  <2>4. CASE ~StartEnable /\ ~StopWait /\ ctl \notin {"init_fail", "deinit_del"}
             /\ ~(ctl = "idle" /\ state = "UNINIT")
    <3>1. sem' = sem /\ dmaOn' = dmaOn
      BY <2>4 DEF ControlNext, ControlCall, InitCall, DeinitCall, StartCall, StopCall,
         ControlStep, InitStd, InitStdMode, InitInfo, InitCallbacks, InitFields,
         InitPublish, InitFail, DeinitDel, DeinitClear, StartReset, StartRun, StartState,
         StopClear, StopDisable, DisableBegin, StopState, drvVars, chVars
    <3> QED
      BY <1>2, <3>1
  <2> QED
    BY <2>1, <2>2, <2>3, <2>4
<1> QED
  BY <1>3, <1>4, <1>5

(* No reader touches the control task's part. *)
LEMMA ReaderKeepsControlInv ==
  ASSUME ControlInv, NEW r \in Readers, ReaderNext(r)
  PROVE  ControlInv'
<1>1. UNCHANGED <<ctl, req, state, running, rx, buf_size>>
  BY ReaderLeavesControl DEF ctlVars
<1>2. UNCHANGED <<chState, dmaOn, dmaBuf>>
  BY DEF ReaderNext, ReaderCall, ReadRefused, ReadClaim, ReaderStep, RdCheck, RdSem,
     RdSemTimeout, RdLoop, RdReceive, RdQueueTimeout, RdCopy, RdGive, RdPost, RdRelease,
     TakeSem, GiveSem, Receive, Copy, drvVars, chVars
<1> QED
  BY <1>1, <1>2 DEF ControlInv, StateOfStep, ChannelOfStep, RunningOfStep,
     DmaOfChannel, HandleHeld

(* The reader slot: claimed only when free, and freed by its owner. *)
LEMMA ReaderKeepsSlot ==
  ASSUME Coordination, NEW r \in Readers, ReaderNext(r)
  PROVE  SingleReader' /\ ReadersNeedInit'
<1> USE DEF Inside, Blocked, InCall, InDriver
<1>1. \A s \in Readers : s # r => pc'[s] = pc[s]
  BY ReaderLeavesOthers DEF Coordination, Typed
<1>2. state' = state
  BY ReaderLeavesControl
<1>3. pc \in [Readers -> RdSteps]
  BY DEF Coordination, Typed, TypeOK, ReaderTypeOK
<1>4. CASE \E l \in Lens, slices \in Slices : ReadClaim(r, l, slices)
  <2>1. pc'[r] = "check" /\ reader_active' /\ ~reader_active /\ state # "UNINIT"
    BY <1>3, <1>4 DEF ReadClaim, ReadCheck
  <2>2. \A s \in Readers : ~Inside(s)
    BY <2>1 DEF Coordination, SingleReader
  <2> QED
    BY <1>1, <1>2, <2>1, <2>2 DEF SingleReader, ReadersNeedInit
<1>5. CASE RdRelease(r)
  <2>1. pc[r] = "release" /\ pc'[r] = "idle" /\ reader_active' = FALSE
    BY <1>3, <1>5 DEF RdRelease, RdGoto
  <2>2. \A s \in Readers : s # r => ~Inside(s)
    BY <2>1 DEF Coordination, SingleReader
  <2> QED
    BY <1>1, <1>2, <2>1, <2>2 DEF SingleReader, ReadersNeedInit
<1>6. CASE ~(\E l \in Lens, slices \in Slices : ReadClaim(r, l, slices)) /\ ~RdRelease(r)
  <2>1. Inside(r)' = Inside(r) /\ reader_active' = reader_active
    BY <1>3, <1>6 DEF ReaderNext, ReaderCall, ReadRefused, ReaderStep, RdCheck, RdSem,
       RdSemTimeout, RdLoop, RdReceive, RdQueueTimeout, RdCopy, RdGive, RdPost,
       RdGoto, RdReturn, micVars
  <2> QED
    BY <1>1, <1>2, <2>1 DEF Coordination, SingleReader, ReadersNeedInit
<1> QED
  BY <1>4, <1>5, <1>6

(* The semaphore passes from the channel to a reader and back. *)
LEMMA ReaderKeepsToken ==
  ASSUME Coordination, NEW r \in Readers, ReaderNext(r)
  PROVE  OneToken'
<1> USE DEF InDriver
<1>1. \A s \in Readers : s # r => pc'[s] = pc[s]
  BY ReaderLeavesOthers DEF Coordination, Typed
<1>2. pc \in [Readers -> RdSteps]
  BY DEF Coordination, Typed, TypeOK, ReaderTypeOK
<1>3. dmaOn' = dmaOn
  BY DEF ReaderNext, ReaderCall, ReadRefused, ReadClaim, ReaderStep, RdCheck, RdSem,
     RdSemTimeout, RdLoop, RdReceive, RdQueueTimeout, RdCopy, RdGive, RdPost, RdRelease,
     TakeSem, GiveSem, Receive, Copy, drvVars, chVars
<1>4. CASE RdSem(r)
  BY <1>1, <1>3, <1>4 DEF RdSem, TakeSem, Coordination, OneToken
<1>5. CASE RdGive(r)
  <2>1. pc[r] = "give" /\ pc'[r] = "post" /\ sem'
    BY <1>2, <1>5 DEF RdGive, RdGoto, GiveSem
  <2>2. \A s \in Readers : s # r => ~InDriver(s)
    BY <2>1 DEF Coordination, SingleReader, Inside, Blocked, InCall
  <2> QED
    BY <1>1, <1>3, <2>1, <2>2 DEF Coordination, OneToken
<1>6. CASE ~RdSem(r) /\ ~RdGive(r)
  <2>1. sem' = sem /\ (InDriver(r)' => InDriver(r))
    BY <1>2, <1>6 DEF ReaderNext, ReaderCall, ReadRefused, ReadClaim, ReaderStep, RdCheck,
       RdSemTimeout, RdLoop, RdReceive, RdQueueTimeout, RdCopy, RdPost, RdRelease,
       RdGoto, RdReturn, Receive, Copy, drvVars, chVars
  <2> QED
    BY <1>1, <1>3, <2>1 DEF Coordination, OneToken
<1> QED
  BY <1>4, <1>5, <1>6

(* An interrupt touches nothing of all this. *)
LEMMA IsrKeepsCoordination ==
  ASSUME Coordination, RxIsr
  PROVE  Coordination'
<1>1. Typed'
  BY IsrTyped DEF Coordination
<1>2. /\ UNCHANGED <<state, running, reader_active, rx, buf_size, ctl, req, pc>>
      /\ UNCHANGED <<chState, sem, dmaOn, dmaBuf>>
  BY DEF RxIsr, DmaStep, chVars, ctlVars, rdVars
<1>3. ControlInv'
  BY <1>2 DEF Coordination, ControlInv, StateOfStep, ChannelOfStep, RunningOfStep,
     DmaOfChannel, HandleHeld
<1>4. SingleReader' /\ ReadersNeedInit' /\ OneToken'
  BY <1>2 DEF Coordination, SingleReader, ReadersNeedInit, OneToken, Inside, Blocked,
     InCall, InDriver
<1> QED
  BY <1>1, <1>3, <1>4 DEF Coordination

LEMMA StutterKeepsCoordination ==
  ASSUME Coordination, UNCHANGED vars
  PROVE  Coordination'
<1>1. Typed'
  BY NextTyped DEF Coordination
<1>2. /\ UNCHANGED <<state, running, reader_active, rx, buf_size, ctl, req, pc>>
      /\ UNCHANGED <<chState, sem, dmaOn, dmaBuf>>
  BY DEF vars, drvVars, chVars, micVars, ctlVars, rdVars
<1>3. ControlInv'
  BY <1>2 DEF Coordination, ControlInv, StateOfStep, ChannelOfStep, RunningOfStep,
     DmaOfChannel, HandleHeld
<1>4. SingleReader' /\ ReadersNeedInit' /\ OneToken'
  BY <1>2 DEF Coordination, SingleReader, ReadersNeedInit, OneToken, Inside, Blocked,
     InCall, InDriver
<1> QED
  BY <1>1, <1>3, <1>4 DEF Coordination

LEMMA NextCoordination ==
  ASSUME Coordination, [Next]_vars
  PROVE  Coordination'
<1>1. Typed'
  BY NextTyped DEF Coordination
<1>2. CASE ControlNext
  BY <1>1, <1>2, ControlKeepsControlInv, ControlKeepsReaders DEF Coordination
<1>3. ASSUME NEW r \in Readers, ReaderNext(r)
      PROVE  Coordination'
  BY <1>1, <1>3, ReaderKeepsControlInv, ReaderKeepsSlot, ReaderKeepsToken DEF Coordination
<1> QED
  BY <1>2, <1>3, NextByActor, IsrKeepsCoordination, StutterKeepsCoordination

(* The control task, the readers and the driver stay coordinated (all of   *)
(* i2s_mic.c): the base of the theorems below.                             *)
THEOREM AlwaysCoordinated == Spec => []Coordination
  BY InitCoordination, NextCoordination, PTL DEF Spec

(* At most one task is between the claim and the release of the reader     *)
(* slot, and reader_active says whether there is one (i2s_mic.c, lines     *)
(* 346-362).                                                               *)
THEOREM AlwaysSingleReader == Spec => []SingleReader
<1>1. Coordination => SingleReader
  BY DEF Coordination
<1> QED
  BY <1>1, AlwaysCoordinated, PTL

(* No read uses a deleted channel, or a handle that was cleared            *)
(* (i2s_mic.c, lines 227-240 and 344-356).                                 *)
THEOREM NeverReadOfDeletedChannel == Spec => []NoReadOfDeletedChannel
<1>1. Coordination => NoReadOfDeletedChannel
  BY DEF Coordination, Typed, TypeOK, MicTypeOK, CtlSteps, ControlInv, StateOfStep,
     ChannelOfStep, HandleHeld, ReadersNeedInit, NoReadOfDeletedChannel
<1> QED
  BY <1>1, AlwaysCoordinated, PTL

(* running is true only while the channel is enabled and the DMA runs      *)
(* (i2s_mic.c, lines 256-262 and 273-279).                                 *)
THEOREM AlwaysRunningMeansEnabled == Spec => []RunningMeansEnabled
<1>1. Coordination => RunningMeansEnabled
  BY DEF Coordination, ControlInv, ChannelOfStep, RunningOfStep, DmaOfChannel,
     RunningMeansEnabled
<1> QED
  BY <1>1, AlwaysCoordinated, PTL

(* The driver refuses no call of the control task, and the loss counter is *)
(* reset only while the interrupt is off (i2s_mic.c, lines 220-279).       *)
THEOREM AlwaysDriverCallsLegal == Spec => []DriverCallsLegal
<1>1. Coordination => DriverCallsLegal
  BY DEF Coordination, ControlInv, ChannelOfStep, DmaOfChannel, DriverCallsLegal
<1> QED
  BY <1>1, AlwaysCoordinated, PTL

(* Between two calls of the control task a component that is initialised   *)
(* but not running is quiet (i2s_mic.c, lines 277-285).                    *)
THEOREM AlwaysQuietWhenStopped == Spec => []QuietWhenStopped
<1>1. Coordination => QuietWhenStopped
  BY DEF Coordination, ControlInv, ChannelOfStep, DmaOfChannel, OneToken, QuietWhenStopped
<1> QED
  BY <1>1, AlwaysCoordinated, PTL

(* What is published is complete and has the configured size (i2s_mic.c,   *)
(* lines 175-215).                                                         *)
THEOREM AlwaysPublishedAsConfigured == Spec => []PublishedAsConfigured
<1>1. Coordination => PublishedAsConfigured
  BY DEF Coordination, Typed, TypeOK, MicTypeOK, CtlSteps, ControlInv, StateOfStep,
     ChannelOfStep, HandleHeld, PublishedAsConfigured, GetBufferSize
<1> QED
  BY <1>1, AlwaysCoordinated, PTL

(* No call of init() or deinit(), failed or not, leaves a channel behind   *)
(* or without one (i2s_mic.c, lines 169-242).                              *)
THEOREM AlwaysNoChannelLeak == Spec => []NoChannelLeak
<1>1. Coordination => NoChannelLeak
  BY DEF Coordination, Typed, TypeOK, MicTypeOK, ControlInv, ChannelOfStep, NoChannelLeak
<1> QED
  BY <1>1, AlwaysCoordinated, PTL

(* running, what init() published and the state tell the truth about the   *)
(* channel (i2s_mic.c, lines 105-286).                                     *)
THEOREM AlwaysChannelConsistent == Spec => []ChannelConsistent
<1> QED
  BY AlwaysRunningMeansEnabled, AlwaysPublishedAsConfigured, AlwaysNoChannelLeak, PTL
     DEF ChannelConsistent

-----------------------------------------------------------------------------
(* Where every capture goes, and which buffers of the ring the queue holds *)

(* What LossAccounting needs to be inductive: a fresh channel has captured *)
(* nothing, and the counter is zero when a session begins.                 *)
FreshChannel ==
  /\ ctl \in {"init_std", "init_info", "init_cb", "init_fields", "init_publish"}
       => seq = 0 /\ sessFirst = 0 /\ taken = 0 /\ q = << >>
  /\ ctl \in {"init_publish", "start_enable"} => overflow_count = 0

Accounting == FreshChannel /\ LossAccounting

(* The captures of a typed state are numbers. *)
LEMMA CaptureNumbers ==
  ASSUME Typed
  PROVE  /\ seq \in Nat /\ sessFirst \in Nat /\ taken \in Nat /\ overflow_count \in Nat
         /\ q \in Seq(Bufs) /\ Len(q) \in Nat /\ Len(q) <= QCap /\ link \in Bufs
<1>1. q \in Seq(Bufs)
  BY DEF Typed, TypeOK, DriverTypeOK
<1> QED
  BY <1>1, LenProperties, DriverAssumption DEF Typed, TypeOK, DriverTypeOK, MicTypeOK

(* The control task starts sessions; it moves no capture. *)
LEMMA ControlKeepsAccounting ==
  ASSUME Coordination, Accounting, ControlNext
  PROVE  Accounting'
<1> USE DEF Accounting, FreshChannel, LossAccounting, CtlGoto, CtlStart, CtlReturn,
            Coordination, ControlInv, StateOfStep,
            drvVars, chVars, ringVars, sessVars, micVars
<1>0. /\ seq \in Nat /\ sessFirst \in Nat /\ taken \in Nat /\ overflow_count \in Nat
      /\ Len(q) \in Nat /\ Len(<< >>) = 0
  BY CaptureNumbers, EmptySeq
<1>1. ASSUME NEW size \in Sizes, InitCall(size)
      PROVE  Accounting'
  BY <1>1 DEF InitCall, NewChannel, BlankChannel
<1>2. CASE DeinitCall
  BY <1>2 DEF DeinitCall, DeinitRefused
<1>3. CASE StartCall \/ StopCall
  BY <1>3 DEF StartCall, StopCall
<1>4. CASE InitStd
  BY <1>4 DEF InitStd, InitStdMode, InitError
<1>5. CASE InitInfo \/ InitCallbacks
  BY <1>5 DEF InitInfo, InitCallbacks, InitError
<1>6. CASE InitFields
  BY <1>6 DEF InitFields
<1>7. CASE InitPublish
  BY <1>0, <1>7 DEF InitPublish
<1>8. CASE InitFail \/ DeinitDel \/ DeinitClear
  BY <1>8 DEF InitFail, DeinitDel, DeinitClear
<1>9. CASE StartReset
  BY <1>9 DEF StartReset
<1>10. CASE StartEnable
  BY <1>0, <1>10 DEF StartEnable, Enable, ChannelOfStep
<1>11. CASE StartRun \/ StartState
  BY <1>11 DEF StartRun, StartState
<1>12. CASE StopClear \/ StopState
  BY <1>12 DEF StopClear, StopState
<1>13. CASE StopDisable
  BY <1>13 DEF StopDisable, DisableBegin
<1>14. CASE StopWait
  BY <1>14 DEF StopWait, DisableEnd
<1> QED
  BY <1>1, <1>2, <1>3, <1>4, <1>5, <1>6, <1>7, <1>8, <1>9, <1>10, <1>11, <1>12,
     <1>13, <1>14
  DEF ControlNext, ControlCall, ControlStep

(* Only RdReceive moves a capture: from the queue to the reader. *)
LEMMA ReaderTakesFromQueue ==
  ASSUME NEW r \in Readers, ReaderNext(r)
  PROVE  /\ UNCHANGED <<seq, sessFirst, link, stamp, dmaOn>>
         /\ RdReceive(r) \/ UNCHANGED <<q, taken>>
BY DEF ReaderNext, ReaderCall, ReadRefused, ReadClaim, ReaderStep, RdCheck, RdSem,
   RdSemTimeout, RdLoop, RdReceive, RdQueueTimeout, RdCopy, RdGive, RdPost, RdRelease,
   TakeSem, GiveSem, Receive, Copy, drvVars, chVars, ringVars, sessVars

LEMMA ReaderKeepsAccounting ==
  ASSUME Coordination, Accounting, NEW r \in Readers, ReaderNext(r)
  PROVE  Accounting'
<1>1. UNCHANGED <<ctl, state, overflow_count, seq, sessFirst>>
  BY ReaderLeavesControl, ReaderTakesFromQueue DEF ctlVars
<1>2. CASE RdReceive(r)
  <2>1. state # "UNINIT"
    BY <1>2 DEF RdReceive, Coordination, ReadersNeedInit, Inside, Blocked, InCall, InDriver
  <2>2. Len(q') = Len(q) - 1 /\ taken' = taken + 1
    BY <1>2, CaptureNumbers, HeadTailProperties DEF RdReceive, Receive, Coordination
  <2>3. LossAccounting'
    BY <1>1, <2>1, <2>2, CaptureNumbers DEF Coordination, Accounting, LossAccounting
  <2>4. ctl \notin {"init_std", "init_info", "init_cb", "init_fields", "init_publish"}
    BY <2>1 DEF Coordination, ControlInv, StateOfStep
  <2> QED
    BY <1>1, <2>3, <2>4 DEF Accounting, FreshChannel
<1>3. CASE UNCHANGED <<q, taken>>
  BY <1>1, <1>3 DEF Accounting, FreshChannel, LossAccounting
<1> QED
  BY <1>2, <1>3, ReaderTakesFromQueue

(* An interrupt adds a capture to the queue, and counts the one it drops.  *)
LEMMA IsrKeepsAccounting ==
  ASSUME Coordination, Accounting, RxIsr
  PROVE  Accounting'
<1>1. /\ state' = state /\ ctl' = ctl /\ sessFirst' = sessFirst /\ taken' = taken
      /\ seq' = seq + 1 /\ dmaOn
  BY DEF RxIsr, DmaStep, ctlVars, sessVars
<1>2. /\ state # "UNINIT" /\ ctl # "start_enable"
      /\ ctl \notin {"init_std", "init_info", "init_cb", "init_fields", "init_publish"}
  BY <1>1 DEF Coordination, ControlInv, StateOfStep, ChannelOfStep, DmaOfChannel,
     Typed, TypeOK, MicTypeOK, CtlSteps
<1>3. overflow_count' + Len(q') = overflow_count + Len(q) + 1
  <2>1. DriverTypeOK /\ DmaStep
    BY DEF Coordination, Typed, TypeOK, RxIsr
  <2>2. Len(q') = IF QueueFull THEN QCap ELSE Len(q) + 1
    BY <2>1, QueueAfterDmaStep
  <2>3. overflow_count' = IF QueueFull THEN overflow_count + 1 ELSE overflow_count
    BY DEF RxIsr, CountOverflow
  <2>4. overflow_count \in Nat /\ Len(q) \in Nat
    BY CaptureNumbers DEF Coordination
  <2>5. CASE QueueFull
    BY <2>2, <2>3, <2>4, <2>5 DEF QueueFull
  <2>6. CASE ~QueueFull
    BY <2>2, <2>3, <2>4, <2>6
  <2> QED
    BY <2>5, <2>6
<1>4. overflow_count' \in Nat /\ Len(q') \in Nat
  <2>1. Typed'
    BY IsrTyped DEF Coordination
  <2>2. q' \in Seq(Bufs) /\ overflow_count' \in Nat
    BY <2>1 DEF Typed, TypeOK, DriverTypeOK, MicTypeOK
  <2> QED
    BY <2>2, LenProperties
<1>5. LossAccounting'
  <2>1. /\ seq \in Nat /\ sessFirst \in Nat /\ taken \in Nat /\ overflow_count \in Nat
        /\ Len(q) \in Nat
    BY CaptureNumbers DEF Coordination
  <2>2. LossAccounting
    BY DEF Accounting
  <2> QED
    BY <1>1, <1>2, <1>3, <1>4, <2>1, <2>2 DEF LossAccounting
<1> QED
  BY <1>1, <1>2, <1>5 DEF Accounting, FreshChannel

LEMMA NextAccounting ==
  ASSUME Coordination, Accounting, [Next]_vars
  PROVE  Accounting'
<1>1. CASE UNCHANGED vars
  <2>1. UNCHANGED <<ctl, state, overflow_count, seq, sessFirst, taken, q>>
    BY <1>1 DEF vars, drvVars, ringVars, sessVars, micVars, ctlVars
  <2> QED
    BY <2>1 DEF Accounting, FreshChannel, LossAccounting
<1> QED
  BY <1>1, NextByActor, ControlKeepsAccounting, ReaderKeepsAccounting, IsrKeepsAccounting

LEMMA InitAccounting ==
  ASSUME Init
  PROVE  Accounting
BY DEF Init, Accounting, FreshChannel, LossAccounting

(* Every capture of the session has been read, waits in the queue, or is   *)
(* counted by i2s_mic_get_overflow_count(), exactly once (i2s_mic.c, lines *)
(* 89-99 and 252-256).                                                     *)
THEOREM AlwaysLossAccounting == Spec => []LossAccounting
<1>1. Init => Coordination /\ Accounting
  BY InitCoordination, InitAccounting
<1>2. Coordination /\ Accounting /\ [Next]_vars => (Coordination /\ Accounting)'
  BY NextCoordination, NextAccounting
<1>3. Coordination /\ Accounting => LossAccounting
  BY DEF Accounting
<1> QED
  BY <1>1, <1>2, <1>3, PTL DEF Spec

-----------------------------------------------------------------------------
(* The queue holds the latest buffers of the ring, in order.               *)
LEMMA InitRing ==
  ASSUME Init
  PROVE  RingInOrder
<1>1. q = << >>
  BY DEF Init, DriverInit
<1> QED
  BY <1>1, EmptySeq DEF RingInOrder, HoldsLatest

LEMMA NextRing ==
  ASSUME Typed, RingInOrder, [Next]_vars
  PROVE  RingInOrder'
<1>1. TypeOK /\ CopyBounds /\ DriverTypeOK
  BY DEF Typed, TypeOK
<1>2. CASE ControlNext
  BY <1>1, <1>2, ControlDriverStep, RingStep
<1>3. ASSUME NEW r \in Readers, ReaderNext(r)
      PROVE  RingInOrder'
  BY <1>1, <1>3, ReaderDriverStep, RingStep
<1>4. CASE RxIsr
  BY <1>1, <1>4, IsrTyped, RingStep
<1>5. CASE UNCHANGED vars
  BY <1>1, <1>5, RingStep DEF DriverStep, vars
<1> QED
  BY <1>2, <1>3, <1>4, <1>5, NextByActor

LEMMA AlwaysRingInOrder == Spec => [](Coordination /\ Accounting /\ RingInOrder)
<1>1. Init => Coordination /\ Accounting /\ RingInOrder
  BY InitCoordination, InitAccounting, InitRing
<1>2. Coordination /\ Accounting /\ RingInOrder /\ [Next]_vars
        => (Coordination /\ Accounting /\ RingInOrder)'
  BY NextCoordination, NextAccounting, NextRing DEF Coordination
<1> QED
  BY <1>1, <1>2, PTL DEF Spec

(* The DMA never fills a buffer that waits in the queue, whatever the size *)
(* of the ring: the queue is one shorter (sim_driver.c, line 138).         *)
THEOREM AlwaysDmaNeverWritesQueued == Spec => []DmaNeverWritesQueued
<1>1. Coordination /\ Accounting /\ RingInOrder => DmaNeverWritesQueued
  <2>1. SUFFICES ASSUME Typed, RingInOrder, NEW i \in 1 .. Len(q)
                 PROVE  q[i] # link
    BY DEF DmaNeverWritesQueued, Coordination
  <2>2. Len(q) - i + 1 \in 1 .. Desc - 1 /\ link \in Bufs
    BY <2>1, CaptureNumbers, DriverAssumption DEF QCap
  <2> QED
    BY <2>1, <2>2, BehindOther DEF RingInOrder, HoldsLatest
<1> QED
  BY <1>1, AlwaysRingInOrder, PTL

LEMMA HeadFollows ==
  ASSUME Coordination, Accounting, RingInOrder,
         state # "UNINIT", ctl # "start_enable", q # << >>
  PROVE  stamp[Head(q)] = sessFirst + taken + overflow_count
<1>1. /\ seq \in Nat /\ sessFirst \in Nat /\ taken \in Nat /\ overflow_count \in Nat
      /\ q \in Seq(Bufs) /\ Len(q) \in Nat
  BY CaptureNumbers DEF Coordination
<1>2. seq = sessFirst + taken + overflow_count + Len(q)
  BY DEF Accounting, LossAccounting
<1>3. Len(q) # 0 /\ Head(q) = q[1]
  BY <1>1, EmptySeq, HeadTailProperties
<1>4. 1 \in 1 .. Len(q)
  BY <1>1, <1>3
<1>5. stamp[q[1]] + Len(q) + 1 = seq + 1
  BY <1>4 DEF RingInOrder, HoldsLatest
<1>6. stamp[q[1]] \in Nat
  <2>1. q[1] \in Bufs
    BY <1>1, <1>4, ElementOfSeq
  <2> QED
    BY <2>1 DEF Coordination, Typed, TypeOK, DriverTypeOK
<1> QED
  BY <1>1, <1>2, <1>3, <1>5, <1>6

(* What a read gets next is the capture that follows everything read and   *)
(* everything counted as lost: the loss is of the oldest audio, and audio  *)
(* is never delivered twice or out of order (sim_driver.c, lines 114-120). *)
THEOREM AlwaysQueueHeadIsNext == Spec => []QueueHeadIsNext
<1>1. Coordination /\ Accounting /\ RingInOrder => QueueHeadIsNext
  BY HeadFollows DEF QueueHeadIsNext
<1> QED
  BY <1>1, AlwaysRingInOrder, PTL

-----------------------------------------------------------------------------
(* What one read delivers *)

(* How far reader r is: nothing fetched, or one buffer and all of it.      *)
Nothing(r) == n[r] = 0 /\ popped[r] = 0
Whole(r)   == n[r] = dmaBuf /\ popped[r] = 1

(* A reader is between buffers at every step but the copy: the driver's    *)
(* current buffer is used up or unset, so the loop never copies what is    *)
(* left of an earlier one.                                                 *)
UsedUp == curr = NoBuf \/ rwPos = dmaBuf

(* The buffer size of a channel that was set up is positive. *)
SizeSet ==
  /\ ctl = "init_std" => req \in Sizes /\ curr = NoBuf
  /\ ctl \in {"init_info", "init_cb", "init_fields", "init_publish"} \/ state # "UNINIT"
       => dmaBuf > 0

ReadOf(r) ==
  /\ Inside(r) => len[r] = dmaBuf
  /\ pc[r] = "check" => popped[r] = 0
  /\ pc[r] \in {"sem", "fetch"} => Nothing(r)
  /\ pc[r] = "copy" => n[r] = 0 /\ popped[r] = 1 /\ rwPos = 0
  /\ pc[r] \in {"loop", "give", "post"} => Nothing(r) \/ Whole(r)
  /\ pc[r] \in {"give", "post"} /\ ret[r] # "OK" => Nothing(r)
  /\ pc[r] = "release" => IF ret[r] = "OK" THEN Whole(r) ELSE popped[r] = 0

Delivery ==
  /\ SizeSet
  /\ (\A r \in Readers : pc[r] # "copy") => UsedUp
  /\ \A r \in Readers : ReadOf(r)

(* While a reader copies, the buffer follows those in the queue until the  *)
(* queue is full: only then does the DMA come round to it.                 *)
AheadOfDma ==
  QueueFull \/ (curr = Behind(link, Len(q) + 1) /\ stamp[curr] = currSeq)

CopyInTime ==
  /\ \A r \in Readers : pc[r] = "copy" => ~torn /\ AheadOfDma
  /\ TornMeansQueueFull

(* A reader learns of a stop() by running, which stays clear until a       *)
(* start().                                                                *)
StopSeen ==
  /\ \A r \in Readers : missed[r] = "stop" => ~running
  /\ StoppedReadLearnsOfStop

-----------------------------------------------------------------------------
(* What the control task leaves alone while somebody reads. *)
LEMMA ControlLeavesCapture ==
  ASSUME Coordination, ControlNext, NEW r \in Readers, Inside(r)
  PROVE  /\ UNCHANGED <<dmaBuf, currSeq>>
         /\ UNCHANGED <<curr, rwPos>> \/ curr' = NoBuf
         /\ InDriver(r) => UNCHANGED <<ringVars, curVars, sessFirst>>
<1>1. state # "UNINIT"
  BY DEF Coordination, ReadersNeedInit
<1>2. ctl \notin {"init_std", "init_info", "init_cb", "init_fields", "init_publish",
                  "init_fail", "deinit_del", "deinit_clear"}
  BY <1>1 DEF Coordination, ControlInv, StateOfStep
<1>3. CASE StartEnable
  <2>1. ~InDriver(r)
    BY <1>3 DEF StartEnable, Coordination, ControlInv, ChannelOfStep, DmaOfChannel, OneToken
  <2>2. UNCHANGED <<dmaBuf, curr, rwPos, currSeq>>
    BY <1>3 DEF StartEnable, Enable, drvVars, chVars, curVars
  <2> QED
    BY <2>1, <2>2
<1>4. CASE StopWait
  <2>1. ~InDriver(r)
    BY <1>4 DEF StopWait, DisableEnd, Coordination, OneToken
  <2> QED
    BY <1>4, <2>1 DEF StopWait, DisableEnd
<1>5. CASE ~StartEnable /\ ~StopWait
  <2>1. UNCHANGED <<dmaBuf, ringVars, curVars, sessFirst>>
    BY <1>1, <1>2, <1>5
    DEF ControlNext, ControlCall, InitCall, DeinitCall, StartCall, StopCall,
        ControlStep, InitStd, InitInfo, InitCallbacks, InitFields, InitPublish, InitFail,
        DeinitDel, DeinitClear, StartReset, StartRun, StartState, StopClear,
        StopDisable, DisableBegin, StopState, drvVars, chVars, sessVars
  <2> QED
    BY <2>1 DEF curVars
<1> QED
  BY <1>3, <1>4, <1>5

LEMMA ControlKeepsSizeSet ==
  ASSUME Coordination, SizeSet, ControlNext
  PROVE  SizeSet'
<1> USE DEF SizeSet, Coordination, ControlInv, StateOfStep, CtlGoto, CtlStart, CtlReturn,
            drvVars, chVars, curVars, micVars
<1>1. ASSUME NEW size \in Sizes, InitCall(size)
      PROVE  SizeSet'
  BY <1>1 DEF InitCall, NewChannel, BlankChannel
<1>2. CASE DeinitCall
  BY <1>2 DEF DeinitCall, DeinitRefused
<1>3. CASE StartCall \/ StopCall
  BY <1>3 DEF StartCall, StopCall
<1>4. CASE InitStd
  <2>1. CASE InitStdMode(req) /\ CtlGoto("init_info")
    <3>1. req \in Nat \ {0}
      <4>1. req \in Sizes
        BY <1>4 DEF InitStd
      <4> QED
        BY <4>1, MicAssumption, Zenon
    <3>2. DmaMax \in Nat \ {0}
      BY DriverAssumption, Zenon
    <3>3. SmallerOf(req, DmaMax) > 0
      BY <3>1, <3>2 DEF SmallerOf
    <3> QED
      BY <1>4, <2>1, <3>3 DEF InitStd, InitStdMode
  <2>2. CASE UNCHANGED drvVars /\ InitError("FAIL")
    BY <1>4, <2>2 DEF InitStd, InitError
  <2> QED
    BY <1>4, <2>1, <2>2 DEF InitStd
<1>5. CASE InitInfo \/ InitCallbacks
  BY <1>5 DEF InitInfo, InitCallbacks, InitError
<1>6. CASE InitFields \/ InitPublish
  BY <1>6 DEF InitFields, InitPublish
<1>7. CASE InitFail \/ DeinitDel \/ DeinitClear
  BY <1>7 DEF InitFail, DeinitDel, DeinitClear
<1>8. CASE StartReset \/ StartRun \/ StartState
  BY <1>8 DEF StartReset, StartRun, StartState
<1>9. CASE StartEnable
  BY <1>9 DEF StartEnable, Enable
<1>10. CASE StopClear \/ StopState
  BY <1>10 DEF StopClear, StopState
<1>11. CASE StopDisable
  BY <1>11 DEF StopDisable, DisableBegin
<1>12. CASE StopWait
  BY <1>12 DEF StopWait, DisableEnd
<1> QED
  BY <1>1, <1>2, <1>3, <1>4, <1>5, <1>6, <1>7, <1>8, <1>9, <1>10, <1>11, <1>12
  DEF ControlNext, ControlCall, ControlStep

LEMMA ControlKeepsDelivery ==
  ASSUME Coordination, Delivery, ControlNext
  PROVE  Delivery'
<1> USE DEF Inside, Blocked, InCall, InDriver
<1>1. UNCHANGED <<pc, len, n, ret, popped>>
  BY ControlLeavesReads
<1>2. SizeSet'
  BY ControlKeepsSizeSet DEF Delivery
<1>3. ASSUME NEW r \in Readers
      PROVE  ReadOf(r)'
  <2>1. CASE Inside(r)
    <3>1. dmaBuf' = dmaBuf /\ (pc[r] = "copy" => rwPos' = rwPos)
      BY <2>1, ControlLeavesCapture DEF curVars
    <3>2. ReadOf(r)
      BY DEF Delivery
    <3> QED
      BY <1>1, <2>1, <3>1, <3>2 DEF ReadOf, Nothing, Whole
  <2>2. CASE ~Inside(r)
    BY <1>1, <2>2 DEF ReadOf
  <2> QED
    BY <2>1, <2>2
<1>4. ((\A r \in Readers : pc[r] # "copy") => UsedUp)'
  <2>1. CASE \E r \in Readers : pc[r] = "copy"
    BY <1>1, <2>1
  <2>2. CASE \E r \in Readers : Inside(r) /\ pc[r] # "copy"
    <3>1. PICK r \in Readers : Inside(r) /\ pc[r] # "copy"
      BY <2>2
    <3>2. \A s \in Readers : pc[s] # "copy"
      BY <3>1 DEF Coordination, SingleReader
    <3>3. UsedUp
      BY <3>2 DEF Delivery
    <3>4. dmaBuf' = dmaBuf /\ (UNCHANGED <<curr, rwPos>> \/ curr' = NoBuf)
      BY <3>1, ControlLeavesCapture
    <3> QED
      BY <3>3, <3>4 DEF UsedUp, NoBuf
  <2>3. CASE \A r \in Readers : ~Inside(r)
    <3>1. UsedUp
      BY <2>3 DEF Delivery
    <3>2. CASE InitStd
      <4>1. curr = NoBuf /\ curr' = curr
        BY <3>2 DEF Delivery, SizeSet, InitStd, InitStdMode, drvVars, curVars
      <4> QED
        BY <4>1 DEF UsedUp, NoBuf
    <3>3. CASE ~InitStd
      <4>1. curr' = NoBuf \/ UNCHANGED <<curr, rwPos, dmaBuf>>
        BY <3>3
        DEF ControlNext, ControlCall, InitCall, DeinitCall, StartCall, StopCall,
            ControlStep, InitInfo, InitCallbacks, InitFields, InitPublish, InitFail,
            DeinitDel, DeinitClear, StartReset, StartEnable, StartRun, StartState,
            StopClear, StopDisable, StopWait, StopState, NewChannel, DelChannel,
            BlankChannel, Enable, DisableBegin, DisableEnd, drvVars, chVars, curVars
      <4> QED
        BY <3>1, <4>1 DEF UsedUp, NoBuf
    <3> QED
      BY <3>2, <3>3
  <2> QED
    BY <2>1, <2>2, <2>3
<1> QED
  BY <1>2, <1>3, <1>4 DEF Delivery

(* A call that is refused, or claims the reader slot. *)
LEMMA CallKeepsReadOf ==
  ASSUME Coordination, Delivery, NEW r \in Readers, ReaderCall(r)
  PROVE  ReadOf(r)' /\ (UsedUp => UsedUp') /\ pc'[r] # "copy" /\ pc[r] = "idle"
<1> USE DEF Inside, Blocked, InCall, InDriver, ReadOf, Nothing, Whole, UsedUp,
            drvVars, chVars, curVars
<1>1. /\ pc \in [Readers -> RdSteps] /\ len \in [Readers -> Lens \cup {0}]
      /\ popped \in [Readers -> Nat] /\ n \in [Readers -> Nat]
  BY DEF Coordination, Typed, TypeOK, ReaderTypeOK
<1>2. ASSUME NEW null \in BOOLEAN, NEW l \in Lens, ReadRefused(r, null, l)
      PROVE  ReadOf(r)' /\ (UsedUp => UsedUp') /\ pc'[r] # "copy" /\ pc[r] = "idle"
  BY <1>1, <1>2 DEF ReadRefused
<1>3. ASSUME NEW l \in Lens, NEW slices \in Slices, ReadClaim(r, l, slices)
      PROVE  ReadOf(r)' /\ (UsedUp => UsedUp') /\ pc'[r] # "copy" /\ pc[r] = "idle"
  <2>1. state # "UNINIT" /\ l = buf_size
    BY <1>3 DEF ReadClaim, ReadCheck
  <2>2. l = dmaBuf
    BY <2>1 DEF Coordination, ControlInv, HandleHeld
  <2> QED
    BY <1>1, <1>3, <2>2 DEF ReadClaim
<1> QED
  BY <1>2, <1>3 DEF ReaderCall

(* Every step of a read keeps what it has delivered so far.  The copy that *)
(* follows a fetch takes the whole buffer, since the buffer is as long as  *)
(* the read; and no copy starts without a fetch.                           *)
LEMMA StepKeepsReadOf ==
  ASSUME Coordination, Delivery, NEW r \in Readers, ReaderStep(r)
  PROVE  ReadOf(r)' /\ (pc'[r] # "copy" => UsedUp')
<1> USE DEF RdGoto, RdReturn, drvVars, chVars, curVars
<1>1. /\ pc \in [Readers -> RdSteps] /\ ret \in [Readers -> Results]
      /\ popped \in [Readers -> Nat] /\ n \in [Readers -> Nat]
  BY DEF Coordination, Typed, TypeOK, ReaderTypeOK
<1>2. /\ ReadOf(r) /\ TypeOK /\ CopyBounds
      /\ n[r] \in Nat /\ len[r] \in Nat /\ rwPos \in Nat /\ dmaBuf \in Nat
  BY Numbers DEF Delivery, Coordination, Typed
<1>3. Inside(r)
  BY DEF ReaderStep, RdCheck, RdSem, RdSemTimeout, RdLoop, RdReceive, RdQueueTimeout,
     RdCopy, RdGive, RdPost, RdRelease, Inside, Blocked, InCall, InDriver
<1>4. len[r] = dmaBuf /\ dmaBuf > 0 /\ state # "UNINIT"
  BY <1>2, <1>3 DEF ReadOf, Coordination, ReadersNeedInit, Delivery, SizeSet
<1>5. pc[r] # "copy" => UsedUp
  <2>1. \A s \in Readers : s # r => pc[s] # "copy"
    BY <1>3 DEF Coordination, SingleReader, Inside, Blocked, InCall, InDriver
  <2> QED
    BY <2>1 DEF Delivery
<1> USE DEF ReadOf, Nothing, Whole
<1>6. CASE RdCheck(r)
  BY <1>1, <1>2, <1>3, <1>4, <1>5, <1>6 DEF RdCheck, UsedUp
<1>7. CASE RdSem(r)
  BY <1>1, <1>2, <1>3, <1>4, <1>5, <1>7 DEF RdSem, TakeSem, UsedUp
<1>8. CASE RdSemTimeout(r)
  BY <1>1, <1>2, <1>3, <1>4, <1>5, <1>8 DEF RdSemTimeout, UsedUp
<1>9. CASE RdLoop(r)
  <2>1. n[r] < len[r] => Nothing(r) /\ NeedsBuffer
    BY <1>2, <1>4, <1>5, <1>9 DEF RdLoop, UsedUp, NeedsBuffer
  <2>2. UsedUp'
    BY <1>5, <1>9 DEF RdLoop, UsedUp
  <2>3. /\ pc[r] = "loop" /\ UNCHANGED <<n, len, popped, dmaBuf>>
        /\ (pc'[r] = "fetch" /\ Nothing(r)) \/ (pc'[r] = "give" /\ ret'[r] = "OK")
    BY <1>1, <1>9, <2>1 DEF RdLoop
  <2> QED
    BY <1>2, <1>4, <2>2, <2>3
<1>10. CASE RdReceive(r)
  <2>1. /\ pc[r] = "fetch" /\ pc'[r] = "copy" /\ UNCHANGED <<n, len, dmaBuf>>
        /\ popped'[r] = popped[r] + 1 /\ rwPos' = 0
    BY <1>1, <1>10 DEF RdReceive, Receive
  <2> QED
    BY <1>2, <1>4, <2>1
<1>11. CASE RdQueueTimeout(r)
  BY <1>1, <1>2, <1>3, <1>4, <1>5, <1>11 DEF RdQueueTimeout, UsedUp
<1>12. CASE RdCopy(r)
  <2>1. /\ pc[r] = "copy" /\ pc'[r] = "loop" /\ UNCHANGED <<len, popped, dmaBuf>>
    BY <1>1, <1>12 DEF RdCopy, Copy
  <2>2. n[r] = 0 /\ rwPos = 0 /\ popped[r] = 1
    BY <1>2, <2>1
  <2>3. CopySize(len[r] - n[r]) = dmaBuf
    BY <1>2, <1>4, <2>2 DEF CopySize, SmallerOf
  <2>4. n'[r] = dmaBuf /\ rwPos' = dmaBuf
    BY <1>2, <1>12, <2>2, <2>3, CopyAdvances
  <2> QED
    BY <1>4, <2>1, <2>2, <2>4 DEF UsedUp
<1>13. CASE RdGive(r)
  BY <1>1, <1>2, <1>3, <1>4, <1>5, <1>13 DEF RdGive, GiveSem, UsedUp
<1>14. CASE RdPost(r)
  <2>1. /\ pc[r] = "post" /\ UNCHANGED <<n, len, popped, dmaBuf>>
        /\ \/ pc'[r] = "release" /\ ret'[r] = "OK" /\ ret[r] = "OK" /\ n[r] = len[r]
           \/ pc'[r] = "release" /\ ret'[r] # "OK" /\ (ret[r] = "OK" => n[r] # len[r])
           \/ pc'[r] = "check" /\ ret[r] # "OK"
    BY <1>1, <1>14 DEF RdPost
  <2>2. UsedUp'
    BY <1>5, <1>14 DEF RdPost, UsedUp
  <2> QED
    BY <1>2, <1>4, <2>1, <2>2
<1>15. CASE RdRelease(r)
  <2>1. pc'[r] = "idle" /\ UsedUp'
    BY <1>1, <1>5, <1>15 DEF RdRelease, UsedUp
  <2> QED
    BY <2>1 DEF Inside, Blocked, InCall, InDriver
<1> QED
  BY <1>6, <1>7, <1>8, <1>9, <1>10, <1>11, <1>12, <1>13, <1>14, <1>15 DEF ReaderStep

LEMMA ReaderKeepsDelivery ==
  ASSUME Coordination, Delivery, NEW r \in Readers, ReaderNext(r)
  PROVE  Delivery'
<1>1. UNCHANGED <<ctl, req, state, dmaBuf>> /\ (curr' = curr \/ RdReceive(r))
  <2>1. UNCHANGED dmaBuf /\ (curr' = curr \/ RdReceive(r))
    BY DEF ReaderNext, ReaderCall, ReadRefused, ReadClaim, ReaderStep, RdCheck, RdSem,
       RdSemTimeout, RdLoop, RdQueueTimeout, RdReceive, RdCopy, RdGive, RdPost, RdRelease,
       TakeSem, GiveSem, Receive, Copy, drvVars, chVars, curVars
  <2> QED
    BY <2>1, ReaderLeavesControl DEF ctlVars
<1>2. SizeSet'
  <2>1. RdReceive(r) => ctl # "init_std"
    BY DEF RdReceive, Coordination, ReadersNeedInit, Inside, Blocked, InCall, InDriver,
       ControlInv, StateOfStep
  <2> QED
    BY <1>1, <2>1 DEF Delivery, SizeSet
<1>3. ASSUME NEW s \in Readers, s # r
      PROVE  ReadOf(s)'
  <2>1. /\ pc'[s] = pc[s] /\ len'[s] = len[s] /\ n'[s] = n[s]
        /\ ret'[s] = ret[s] /\ popped'[s] = popped[s]
    BY <1>3, ReaderLeavesOthers DEF Coordination, Typed
  <2>2. CASE ReaderStep(r)
    <3>1. ~Inside(s)
      BY <1>3, <2>2
      DEF ReaderStep, RdCheck, RdSem, RdSemTimeout, RdLoop, RdReceive, RdQueueTimeout,
          RdCopy, RdGive, RdPost, RdRelease, Inside, Blocked, InCall, InDriver,
          Coordination, SingleReader
    <3> QED
      BY <2>1, <3>1 DEF ReadOf, Inside, Blocked, InCall, InDriver
  <2>3. CASE ReaderCall(r)
    <3>1. rwPos' = rwPos
      BY <2>3 DEF ReaderCall, ReadRefused, ReadClaim, drvVars, curVars
    <3> QED
      BY <1>1, <2>1, <3>1
      DEF Delivery, ReadOf, Nothing, Whole, Inside, Blocked, InCall, InDriver
  <2> QED
    BY <2>2, <2>3 DEF ReaderNext
<1>4. /\ ReadOf(r)'
      /\ (\A s \in Readers : pc'[s] # "copy") => UsedUp'
  <2>1. CASE ReaderStep(r)
    BY <2>1, StepKeepsReadOf
  <2>2. CASE ReaderCall(r)
    <3>1. ReadOf(r)' /\ (UsedUp => UsedUp') /\ pc'[r] # "copy" /\ pc[r] = "idle"
      BY <2>2, CallKeepsReadOf
    <3>2. \A s \in Readers : s # r => pc'[s] = pc[s]
      BY ReaderLeavesOthers DEF Coordination, Typed
    <3> QED
      BY <3>1, <3>2 DEF Delivery
  <2> QED
    BY <2>1, <2>2 DEF ReaderNext
<1> QED
  BY <1>2, <1>3, <1>4 DEF Delivery

LEMMA NextDelivery ==
  ASSUME Coordination, Delivery, [Next]_vars
  PROVE  Delivery'
<1>1. CASE RxIsr \/ UNCHANGED vars
  <2>1. UNCHANGED <<ctl, req, state, dmaBuf, curr, rwPos, pc, len, n, ret, popped>>
    BY <1>1 DEF RxIsr, DmaStep, vars, drvVars, chVars, curVars, micVars, ctlVars, rdVars
  <2> QED
    BY <2>1 DEF Delivery, SizeSet, UsedUp, ReadOf, Nothing, Whole, NoBuf, Inside,
       Blocked, InCall, InDriver
<1> QED
  BY <1>1, NextByActor, ControlKeepsDelivery, ReaderKeepsDelivery

LEMMA InitDelivery ==
  ASSUME Init
  PROVE  Delivery
BY DEF Init, DriverInit, Delivery, SizeSet, UsedUp, ReadOf, Inside, Blocked, InCall, InDriver

LEMMA AlwaysDelivery == Spec => [](Coordination /\ Accounting /\ RingInOrder /\ Delivery)
<1>1. Init => Delivery
  BY InitDelivery
<1>2. Coordination /\ Delivery /\ [Next]_vars => Delivery'
  BY NextDelivery
<1> QED
  BY <1>1, <1>2, AlwaysRingInOrder, PTL DEF Spec

(* A read fetches one buffer and delivers all of it, or fetches none: no   *)
(* retry, short read or timeout loses a buffer, for every buffer size and  *)
(* every timeout (i2s_mic.c, lines 39-42 and 316-325).                     *)
THEOREM AlwaysOneBufferOrNothing == Spec => []OneBufferOrNothing
<1>1. Delivery => OneBufferOrNothing
  BY DEF Delivery, ReadOf, Whole, OneBufferOrNothing
<1> QED
  BY <1>1, AlwaysDelivery, PTL

-----------------------------------------------------------------------------
(* A reader comes to a copy only by a fetch. *)
LEMMA OnlyReceiveStartsCopy ==
  ASSUME Coordination, Delivery, NEW r \in Readers, ReaderNext(r), ~RdReceive(r)
  PROVE  pc'[r] # "copy" /\ UNCHANGED <<currSeq, q, curr>>
<1>1. pc \in [Readers -> RdSteps]
  BY DEF Coordination, Typed, TypeOK, ReaderTypeOK
<1>2. UNCHANGED <<currSeq, q, curr>>
  BY DEF ReaderNext, ReaderCall, ReadRefused, ReadClaim, ReaderStep, RdCheck, RdSem,
     RdSemTimeout, RdLoop, RdQueueTimeout, RdCopy, RdGive, RdPost, RdRelease,
     TakeSem, GiveSem, Copy, drvVars, curVars, ringVars
<1>3. CASE ReaderCall(r)
  BY <1>2, <1>3, CallKeepsReadOf
<1>4. CASE RdLoop(r)
  <2>1. \A s \in Readers : pc[s] # "copy"
    BY <1>4 DEF RdLoop, Coordination, SingleReader, Inside, Blocked, InCall, InDriver
  <2>2. NeedsBuffer
    BY <2>1 DEF Delivery, UsedUp, NeedsBuffer
  <2> QED
    BY <1>1, <1>2, <1>4, <2>2 DEF RdLoop, RdGoto
<1>5. CASE ReaderStep(r) /\ ~RdLoop(r)
  BY <1>1, <1>2, <1>5
  DEF ReaderStep, RdCheck, RdSem, RdSemTimeout, RdQueueTimeout, RdCopy, RdGive, RdPost,
      RdRelease, RdGoto, RdReturn
<1> QED
  BY <1>3, <1>4, <1>5 DEF ReaderNext

(* The audio of a read belongs to the session it was started in. *)
LEMMA NextNoStaleAudio ==
  ASSUME Coordination, Accounting, RingInOrder, Delivery, NoStaleAudio, [Next]_vars
  PROVE  NoStaleAudio'
<1> USE DEF NoStaleAudio
<1>1. CASE ControlNext
  <2>1. pc' = pc
    BY <1>1, ControlLeavesReads
  <2>2. ASSUME NEW r \in Readers, pc[r] = "copy"
        PROVE  UNCHANGED <<currSeq, sessFirst>>
    BY <1>1, <2>2, ControlLeavesCapture DEF Inside, Blocked, InCall, InDriver, curVars
  <2> QED
    BY <2>1, <2>2
<1>2. ASSUME NEW r \in Readers, ReaderNext(r)
      PROVE  NoStaleAudio'
  <2>1. sessFirst' = sessFirst /\ \A s \in Readers : s # r => pc'[s] = pc[s]
    BY <1>2, ReaderTakesFromQueue, ReaderLeavesOthers DEF Coordination, Typed
  <2>2. CASE RdReceive(r)
    <3>1. currSeq' = stamp[Head(q)] /\ q # << >>
      BY <2>2 DEF RdReceive, Receive
    <3>2. state # "UNINIT" /\ ctl # "start_enable"
      BY <2>2 DEF RdReceive, Coordination, ReadersNeedInit, OneToken, ControlInv,
         ChannelOfStep, DmaOfChannel, Inside, Blocked, InCall, InDriver
    <3>3. stamp[Head(q)] = sessFirst + taken + overflow_count
      BY <3>1, <3>2, HeadFollows
    <3>4. sessFirst \in Nat /\ taken \in Nat /\ overflow_count \in Nat
      BY CaptureNumbers DEF Coordination
    <3> QED
      BY <2>1, <3>1, <3>3, <3>4
  <2>3. CASE ~RdReceive(r)
    <3>1. currSeq' = currSeq /\ pc'[r] # "copy"
      BY <1>2, <2>3, OnlyReceiveStartsCopy
    <3> QED
      BY <2>1, <3>1
  <2> QED
    BY <2>2, <2>3
<1>3. CASE RxIsr \/ UNCHANGED vars
  BY <1>3 DEF RxIsr, DmaStep, vars, drvVars, curVars, sessVars, rdVars
<1> QED
  BY <1>1, <1>2, <1>3, NextByActor

LEMMA InitNoStaleAudio ==
  ASSUME Init
  PROVE  NoStaleAudio
BY DEF Init, NoStaleAudio

(* No reader copies audio that was captured before the last start()        *)
(* (i2s_mic.c, line 255).                                                  *)
THEOREM AlwaysNoStaleAudio == Spec => []NoStaleAudio
<1>1. Init => NoStaleAudio
  BY InitNoStaleAudio
<1>2. Coordination /\ Accounting /\ RingInOrder /\ Delivery /\ NoStaleAudio /\ [Next]_vars
        => NoStaleAudio'
  BY NextNoStaleAudio
<1> QED
  BY <1>1, <1>2, AlwaysDelivery, PTL DEF Spec

-----------------------------------------------------------------------------
(* A buffer ahead of the DMA is neither being filled nor filled again. *)
LEMMA AheadNotTorn ==
  ASSUME Typed, AheadOfDma, ~QueueFull
  PROVE  curr # link /\ curr \in Bufs /\ stamp[curr] = currSeq
<1>1. link \in Bufs /\ Len(q) + 1 \in 1 .. Desc - 1
  BY CaptureNumbers, DriverAssumption DEF QCap, QueueFull
<1> QED
  BY <1>1, BehindOther DEF AheadOfDma

LEMMA IsrKeepsCopyInTime ==
  ASSUME Typed, CopyInTime, RxIsr
  PROVE  CopyInTime'
<1>1. /\ DriverTypeOK /\ DmaStep /\ link \in Bufs /\ Len(q) \in Nat /\ Len(q) <= QCap
      /\ Desc \in Nat /\ QCap = Desc - 1
  BY CaptureNumbers, DriverAssumption DEF RxIsr, Typed, TypeOK, QCap
<1>2. Len(q') = IF QueueFull THEN QCap ELSE Len(q) + 1
  BY <1>1, QueueAfterDmaStep
<1>3. /\ UNCHANGED <<pc, popped, torn, curr, currSeq>> /\ QCap' = QCap
      /\ link' = NextDesc(link) /\ stamp' = [stamp EXCEPT ![link] = seq]
  BY DEF RxIsr, DmaStep, rdVars, curVars, QCap
<1>4. QueueFull => QueueFull'
  BY <1>2, <1>3 DEF QueueFull
<1>5. ASSUME AheadOfDma
      PROVE  AheadOfDma'
  <2>1. CASE QueueFull
    BY <1>4, <2>1 DEF AheadOfDma
  <2>2. CASE ~QueueFull /\ Len(q) + 1 = QCap
    BY <1>2, <1>3, <2>2 DEF AheadOfDma, QueueFull
  <2>3. CASE ~QueueFull /\ Len(q) + 1 # QCap
    <3>1. Len(q) + 1 \in 1 .. Desc - 1
      BY <1>1, <2>3 DEF QueueFull
    <3>2. Len(q') = Len(q) + 1
      BY <1>2, <2>3
    <3>3. Behind(link', Len(q') + 1) = Behind(link, Len(q) + 1)
      BY <1>1, <1>3, <3>1, <3>2, BehindMovesOn
    <3>4. curr # link /\ curr \in Bufs /\ stamp[curr] = currSeq
      BY <1>5, <2>3, AheadNotTorn
    <3>5. stamp'[curr] = stamp[curr]
      BY <1>1, <1>3, <3>4 DEF DriverTypeOK
    <3> QED
      BY <1>3, <1>5, <2>3, <3>3, <3>4, <3>5 DEF AheadOfDma
  <2> QED
    BY <2>1, <2>2, <2>3
<1> QED
  BY <1>3, <1>4, <1>5 DEF CopyInTime, TornMeansQueueFull

LEMMA ReaderKeepsCopyInTime ==
  ASSUME Coordination, RingInOrder, Delivery, CopyInTime, NEW r \in Readers, ReaderNext(r)
  PROVE  CopyInTime'
<1>1. /\ Typed /\ pc \in [Readers -> RdSteps] /\ popped \in [Readers -> Nat]
      /\ QCap' = QCap
  BY DEF Coordination, Typed, TypeOK, ReaderTypeOK, QCap
<1>2. /\ UNCHANGED <<link, stamp>>
      /\ \A s \in Readers : s # r => pc'[s] = pc[s] /\ popped'[s] = popped[s]
  BY <1>1, ReaderTakesFromQueue, ReaderLeavesOthers DEF Typed
<1>3. InDriver(r) => \A s \in Readers : s # r => pc[s] \notin {"copy", "loop", "give"}
  BY DEF Coordination, SingleReader, Inside, Blocked, InCall, InDriver
<1>4. CASE RdReceive(r)
  <2>1. /\ InDriver(r) /\ pc'[r] = "copy" /\ q # << >>
        /\ q' = Tail(q) /\ curr' = Head(q) /\ currSeq' = stamp[Head(q)] /\ torn' = FALSE
    BY <1>1, <1>4 DEF RdReceive, Receive, RdGoto, InDriver
  <2>2. q \in Seq(Bufs) /\ Len(q) \in Nat
    BY <1>1, CaptureNumbers
  <2>3. Len(q) # 0 /\ Len(q') = Len(q) - 1 /\ Head(q) = q[1]
    BY <2>1, <2>2, EmptySeq, HeadTailProperties
  <2>4. 1 \in 1 .. Len(q) /\ Len(q) - 1 + 1 = Len(q') + 1
    BY <2>2, <2>3
  <2>5. curr' = Behind(link, Len(q') + 1)
    BY <2>1, <2>3, <2>4 DEF RingInOrder, HoldsLatest
  <2>6. AheadOfDma'
    BY <1>2, <2>1, <2>5 DEF AheadOfDma
  <2> QED
    BY <1>2, <1>3, <2>1, <2>6 DEF CopyInTime, TornMeansQueueFull
<1>5. CASE RdCopy(r)
  <2>1. /\ InDriver(r) /\ pc[r] = "copy" /\ pc'[r] = "loop" /\ q' = q
        /\ torn' = (torn \/ (dmaOn /\ link = curr) \/ stamp[curr] # currSeq)
    BY <1>1, <1>5 DEF RdCopy, Copy, RdGoto, InDriver, ringVars
  <2>2. ~torn /\ AheadOfDma
    BY <2>1 DEF CopyInTime
  <2>3. torn' => QueueFull
    BY <1>1, <2>1, <2>2, AheadNotTorn
  <2>4. QueueFull' = QueueFull
    BY <1>1, <2>1 DEF QueueFull
  <2> QED
    BY <1>2, <1>3, <2>1, <2>3, <2>4 DEF CopyInTime, TornMeansQueueFull
<1>6. CASE ~RdReceive(r) /\ ~RdCopy(r)
  <2>1. pc'[r] # "copy" /\ UNCHANGED <<currSeq, q, curr>>
    BY <1>6, OnlyReceiveStartsCopy
  <2>2. torn' = torn /\ (pc'[r] \in {"loop", "give"} => popped'[r] = popped[r])
    BY <1>1, <1>6
    DEF ReaderNext, ReaderCall, ReadRefused, ReadClaim, ReaderStep, RdCheck, RdSem,
        RdSemTimeout, RdLoop, RdQueueTimeout, RdGive, RdPost, RdRelease,
        RdGoto, RdReturn, TakeSem, GiveSem, drvVars, curVars
  <2>3. pc'[r] \in {"loop", "give"} => pc[r] = "loop" \/ popped[r] = 0
    <3>1. pc'[r] \in {"loop", "give"} => pc[r] = "loop" \/ RdSem(r) \/ RdQueueTimeout(r)
      BY <1>1, <1>6
      DEF ReaderNext, ReaderCall, ReadRefused, ReadClaim, ReaderStep, RdCheck,
          RdSemTimeout, RdLoop, RdGive, RdPost, RdRelease, RdGoto, RdReturn
    <3>2. RdSem(r) \/ RdQueueTimeout(r) => popped[r] = 0
      BY DEF RdSem, RdQueueTimeout, Delivery, ReadOf, Nothing
    <3> QED
      BY <3>1, <3>2
  <2>4. /\ AheadOfDma' = AheadOfDma /\ QueueFull' = QueueFull
    BY <1>1, <1>2, <2>1 DEF AheadOfDma, QueueFull
  <2> QED
    BY <1>1, <1>2, <2>1, <2>2, <2>3, <2>4 DEF CopyInTime, TornMeansQueueFull
<1> QED
  BY <1>4, <1>5, <1>6

LEMMA ControlKeepsCopyInTime ==
  ASSUME Coordination, CopyInTime, ControlNext
  PROVE  CopyInTime'
<1>1. UNCHANGED <<pc, popped>> /\ QCap' = QCap
  BY ControlLeavesReads DEF QCap
<1>2. ASSUME NEW r \in Readers, InDriver(r)
      PROVE  /\ UNCHANGED torn
             /\ AheadOfDma' = AheadOfDma /\ QueueFull' = QueueFull
  <2>1. UNCHANGED <<ringVars, curVars>>
    BY <1>2, ControlLeavesCapture DEF Inside, Blocked, InCall
  <2> QED
    BY <1>1, <2>1 DEF AheadOfDma, QueueFull, ringVars, curVars
<1> QED
  BY <1>1, <1>2 DEF CopyInTime, TornMeansQueueFull, InDriver

LEMMA NextCopyInTime ==
  ASSUME Coordination, RingInOrder, Delivery, CopyInTime, [Next]_vars
  PROVE  CopyInTime'
<1>1. CASE RxIsr
  BY <1>1, IsrKeepsCopyInTime DEF Coordination
<1>2. CASE UNCHANGED vars
  BY <1>2 DEF CopyInTime, TornMeansQueueFull, AheadOfDma, QueueFull, QCap, vars, drvVars,
     ringVars, curVars, rdVars
<1> QED
  BY <1>1, <1>2, NextByActor, ControlKeepsCopyInTime, ReaderKeepsCopyInTime

(* A copy is torn only by a reader a whole ring behind, whatever the size  *)
(* of the ring: when it ends, the queue is full (README.md, lines          *)
(* 183-188).                                                               *)
THEOREM AlwaysTornMeansQueueFull == Spec => []TornMeansQueueFull
<1>1. Init => CopyInTime
  BY DEF Init, CopyInTime, TornMeansQueueFull
<1>2. Coordination /\ Accounting /\ RingInOrder /\ Delivery /\ CopyInTime /\ [Next]_vars
        => CopyInTime'
  BY NextCopyInTime
<1>3. CopyInTime => TornMeansQueueFull
  BY DEF CopyInTime
<1> QED
  BY <1>1, <1>2, <1>3, AlwaysDelivery, PTL DEF Spec

-----------------------------------------------------------------------------
LEMMA ControlKeepsStopSeen ==
  ASSUME Typed, StopSeen, ControlNext
  PROVE  StopSeen'
<1>1. UNCHANGED <<pc, ret>> /\ missed \in [Readers -> {"no", "stop", "restart"}]
  BY ControlLeavesReads DEF Typed, TypeOK, ReaderTypeOK
<1>2. CASE StopClear
  <2>1. \A r \in Readers : missed'[r] = IF Blocked(r) THEN "stop" ELSE missed[r]
    BY <1>2 DEF StopClear
  <2>2. \A r \in Readers : Blocked(r) => pc[r] # "release"
    BY DEF Blocked, InCall, InDriver
  <2>3. running' = FALSE
    BY <1>2 DEF StopClear
  <2> QED
    BY <1>1, <2>1, <2>2, <2>3 DEF StopSeen, StoppedReadLearnsOfStop
<1>3. CASE StartRun
  <2>1. \A r \in Readers : missed'[r] # "stop"
    BY <1>1, <1>3 DEF StartRun
  <2> QED
    BY <2>1 DEF StopSeen, StoppedReadLearnsOfStop
<1>4. CASE ~StopClear /\ ~StartRun
  <2>1. missed' = missed /\ (running' = running \/ running' = FALSE)
    BY <1>4
    DEF ControlNext, ControlCall, InitCall, DeinitCall, StartCall, StopCall,
        ControlStep, InitStd, InitInfo, InitCallbacks, InitFields, InitPublish, InitFail,
        DeinitDel, DeinitClear, StartReset, StartEnable, StartState, StopDisable,
        StopWait, StopState, micVars, rdVars
  <2> QED
    BY <1>1, <2>1 DEF StopSeen, StoppedReadLearnsOfStop
<1> QED
  BY <1>2, <1>3, <1>4

LEMMA ReaderKeepsStopSeen ==
  ASSUME Typed, StopSeen, NEW r \in Readers, ReaderNext(r)
  PROVE  StopSeen'
<1>1. /\ running' = running
      /\ \A s \in Readers : s # r => /\ pc'[s] = pc[s] /\ ret'[s] = ret[s]
                                     /\ missed'[s] = missed[s]
  BY ReaderLeavesControl, ReaderLeavesOthers DEF Typed
<1>2. /\ pc \in [Readers -> RdSteps] /\ ret \in [Readers -> Results]
      /\ missed \in [Readers -> {"no", "stop", "restart"}]
  BY DEF Typed, TypeOK, ReaderTypeOK
<1>3. missed'[r] = missed[r] \/ missed'[r] = "no"
  BY <1>2
  DEF ReaderNext, ReaderCall, ReadRefused, ReadClaim, ReaderStep, RdCheck, RdSem,
      RdSemTimeout, RdLoop, RdReceive, RdQueueTimeout, RdCopy, RdGive, RdPost, RdRelease
<1>4. pc'[r] = "release" => ret'[r] \in {"OK", "INVALID_STATE"} \/ running
  BY <1>2
  DEF ReaderNext, ReaderCall, ReadRefused, ReadClaim, ReaderStep, RdCheck, RdSem,
      RdSemTimeout, RdLoop, RdReceive, RdQueueTimeout, RdCopy, RdGive, RdPost, RdRelease,
      RdGoto, RdReturn, StoppedDuringSlice
<1> QED
  BY <1>1, <1>3, <1>4 DEF StopSeen, StoppedReadLearnsOfStop

LEMMA NextStopSeen ==
  ASSUME Typed, StopSeen, [Next]_vars
  PROVE  StopSeen'
<1>1. CASE RxIsr \/ UNCHANGED vars
  BY <1>1 DEF RxIsr, vars, micVars, rdVars, StopSeen, StoppedReadLearnsOfStop
<1> QED
  BY <1>1, NextByActor, ControlKeepsStopSeen, ReaderKeepsStopSeen

(* A read that stop() overtakes ends with its last full buffer or with     *)
(* INVALID_STATE, never with a timeout, unless a start() comes in between  *)
(* (i2s_mic.c, lines 325-328).                                             *)
THEOREM StoppedReadsLearnOfStop == Spec => []StoppedReadLearnsOfStop
<1>1. Init => StopSeen
  BY DEF Init, StopSeen, StoppedReadLearnsOfStop
<1>2. Coordination /\ StopSeen /\ [Next]_vars => StopSeen'
  BY NextStopSeen DEF Coordination
<1>3. StopSeen => StoppedReadLearnsOfStop
  BY DEF StopSeen
<1> QED
  BY <1>1, <1>2, <1>3, AlwaysCoordinated, PTL DEF Spec

-----------------------------------------------------------------------------
(* I2SMic implements MicStream. *)

(* The invariants the refinement rests on. *)
Invariants == Coordination /\ Accounting /\ RingInOrder /\ Delivery

(* A step that leaves these alone is a stutter of the stream. *)
SameStream ==
  UNCHANGED <<dmaOn, seq, Len(q), overflow_count, Pending, Held, Got>>

(* What a reader holds, if it is the one inside. *)
LEMMA OnlyPending ==
  ASSUME Coordination, NEW r \in Readers, Inside(r)
  PROVE  /\ Pending = {r}
         /\ Held = IF popped[r] > 0 THEN {currSeq} ELSE {}
BY DEF Coordination, SingleReader, Pending, Held

LEMMA NonePending ==
  ASSUME Coordination, state = "UNINIT"
  PROVE  Pending = {} /\ Held = {}
BY DEF Coordination, ReadersNeedInit, Pending, Held

(* The control task leaves the reads of the stream alone. *)
LEMMA ControlSameReads ==
  ASSUME Coordination, ControlNext
  PROVE  UNCHANGED <<Pending, Held, Got>>
<1>1. UNCHANGED <<pc, n, popped>>
  BY ControlLeavesReads
<1>2. \A r \in Readers : Inside(r)' = Inside(r)
  BY <1>1 DEF Inside, Blocked, InCall, InDriver
<1>3. Pending' = Pending /\ Got' = Got
  BY <1>1, <1>2 DEF Pending, Got
<1>4. Pending # {} => currSeq' = currSeq
  BY ControlLeavesCapture DEF Pending
<1>5. Held' = Held
  BY <1>1, <1>3, <1>4 DEF Held
<1> QED
  BY <1>3, <1>5

LEMMA ControlImplements ==
  ASSUME Invariants, ControlNext
  PROVE  Stream!Next \/ SameStream
<1> USE DEF Invariants, Coordination, ControlInv, StateOfStep, ChannelOfStep,
            DmaOfChannel, drvVars, chVars, ringVars, micVars
<1>1. UNCHANGED <<Pending, Held, Got>>
  BY ControlSameReads
<1>2. Len(<< >>) = 0
  BY EmptySeq
<1>3. ASSUME BlankChannel("REGISTERED") \/ BlankChannel("NONE"), state = "UNINIT", ~dmaOn,
             overflow_count' = overflow_count
      PROVE  Stream!NewChannel
  <2>1. Pending = {} /\ Held = {}
    BY <1>3, NonePending
  <2>2. dmaOn' = dmaOn
    BY <1>3 DEF BlankChannel, Typed, TypeOK, DriverTypeOK
  <2>3. q' = << >> /\ seq' = 0
    BY <1>3 DEF BlankChannel
  <2> QED
    BY <1>1, <1>2, <1>3, <2>1, <2>2, <2>3 DEF Stream!NewChannel
<1>4. CASE \E size \in Sizes : InitCall(size)
  <2>1. PICK size \in Sizes : InitCall(size)
    BY <1>4
  <2>2. CASE state # "UNINIT" \/ UNCHANGED drvVars
    BY <1>1, <2>1, <2>2 DEF InitCall, SameStream
  <2>3. CASE state = "UNINIT" /\ ~UNCHANGED drvVars
    BY <1>3, <2>1, <2>3 DEF InitCall, NewChannel, Stream!Next
  <2> QED
    BY <2>2, <2>3
<1>5. CASE InitFail
  BY <1>3, <1>5 DEF InitFail, DelChannel, Stream!Next
<1>6. CASE DeinitDel
  BY <1>3, <1>6 DEF DeinitDel, DelChannel, CanDelete, Stream!Next
<1>7. CASE InitFields \/ StartReset
  BY <1>1, <1>7 DEF InitFields, StartReset, Stream!Next, Stream!ResetCount
<1>8. CASE StartEnable
  <2>1. ~dmaOn /\ overflow_count = 0
    BY <1>8 DEF StartEnable, Accounting, FreshChannel
  <2>2. CASE Enable
    BY <1>1, <1>2, <1>8, <2>1, <2>2 DEF StartEnable, Enable, Stream!Next, Stream!Start
  <2>3. CASE UNCHANGED drvVars
    BY <1>1, <1>8, <2>3 DEF StartEnable, SameStream
  <2> QED
    BY <1>8, <2>2, <2>3 DEF StartEnable
<1>9. CASE StopWait
  BY <1>1, <1>9 DEF StopWait, DisableEnd, Stream!Next, Stream!Stop
<1>10. CASE DeinitCall \/ StartCall \/ StopCall
  BY <1>1, <1>10 DEF DeinitCall, StartCall, StopCall, SameStream
<1>11. CASE InitStd \/ InitInfo \/ InitCallbacks \/ InitPublish \/ DeinitClear
  BY <1>1, <1>11 DEF InitStd, InitStdMode, InitInfo, InitCallbacks, InitPublish,
     DeinitClear, SameStream
<1>12. CASE StartRun \/ StartState \/ StopClear \/ StopDisable \/ StopState
  BY <1>1, <1>12 DEF StartRun, StartState, StopClear, StopDisable, DisableBegin, StopState,
     SameStream
<1> QED
  BY <1>4, <1>5, <1>6, <1>7, <1>8, <1>9, <1>10, <1>11, <1>12
  DEF ControlNext, ControlCall, ControlStep

(* One more capture, and the loss of the oldest when the queue is full. *)
LEMMA IsrImplements ==
  ASSUME Invariants, RxIsr
  PROVE  Stream!Capture
<1>1. DriverTypeOK /\ DmaStep
  BY DEF Invariants, Coordination, Typed, TypeOK, RxIsr
<1>2. /\ dmaOn' = dmaOn /\ dmaOn /\ seq' = seq + 1
      /\ UNCHANGED <<pc, n, popped, currSeq>>
  BY DEF RxIsr, DmaStep, chVars, curVars, rdVars
<1>3. UNCHANGED <<Pending, Held, Got>>
  BY <1>2 DEF Pending, Held, Got, Inside, Blocked, InCall, InDriver
<1>4. /\ Len(q') = IF QueueFull THEN QCap ELSE Len(q) + 1
      /\ overflow_count' = IF QueueFull THEN overflow_count + 1 ELSE overflow_count
  BY <1>1, QueueAfterDmaStep DEF RxIsr, CountOverflow
<1> QED
  BY <1>2, <1>3, <1>4 DEF QueueFull, Stream!Capture

-----------------------------------------------------------------------------
(* A call that is refused changes what the task got last; one that claims  *)
(* the reader slot begins a read.                                          *)
LEMMA CallImplements ==
  ASSUME Invariants, NEW r \in Readers, ReaderCall(r)
  PROVE  Stream!RefuseRead(r) \/ Stream!BeginRead(r)
<1> USE DEF drvVars, chVars, ringVars, curVars, Inside, Blocked, InCall, InDriver
<1>1. /\ pc \in [Readers -> RdSteps] /\ n \in [Readers -> Nat]
      /\ popped \in [Readers -> Nat] /\ Coordination
  BY DEF Invariants, Coordination, Typed, TypeOK, ReaderTypeOK
<1>2. ASSUME NEW null \in BOOLEAN, NEW l \in Lens, ReadRefused(r, null, l)
      PROVE  Stream!RefuseRead(r)
  <2>1. /\ pc[r] = "idle" /\ n' = [n EXCEPT ![r] = 0]
        /\ UNCHANGED <<pc, popped, currSeq, dmaOn, seq, q, overflow_count>>
    BY <1>2 DEF ReadRefused, micVars
  <2>2. r \notin Pending /\ UNCHANGED <<Pending, Held>>
    BY <2>1 DEF Pending, Held
  <2>3. Got' = [Got EXCEPT ![r] = FALSE]
    <3>1. ~(n'[r] > 0) /\ \A s \in Readers : s # r => n'[s] = n[s]
      BY <1>1, <2>1
    <3>2. \A s \in Readers : Inside(s)' = Inside(s)
      BY <2>1
    <3> HIDE DEF Inside
    <3> QED
      BY <3>1, <3>2 DEF Got
  <2> QED
    BY <2>1, <2>2, <2>3 DEF Stream!RefuseRead
<1>3. ASSUME NEW l \in Lens, NEW slices \in Slices, ReadClaim(r, l, slices)
      PROVE  Stream!BeginRead(r)
  <2>1. /\ ~reader_active /\ pc' = [pc EXCEPT ![r] = "check"]
        /\ n' = [n EXCEPT ![r] = 0] /\ popped' = [popped EXCEPT ![r] = 0]
        /\ UNCHANGED <<currSeq, dmaOn, seq, q, overflow_count>>
    BY <1>3 DEF ReadClaim, ReadCheck
  <2>2. \A s \in Readers : ~Inside(s)
    BY <1>1, <2>1 DEF Coordination, SingleReader
  <2>3. Pending = {} /\ Held = {}
    BY <2>2 DEF Pending, Held
  <2>4. Pending' = {r} /\ Held' = {}
    <3>1. \A s \in Readers : Inside(s)' <=> s = r
      BY <1>1, <2>1, <2>2
    <3>2. Pending' = {r}
      BY <3>1 DEF Pending
    <3>3. popped'[r] = 0
      BY <1>1, <2>1
    <3> QED
      BY <3>2, <3>3 DEF Held
  <2>5. Got' = [Got EXCEPT ![r] = FALSE]
    BY <1>1, <2>1, <2>2 DEF Got
  <2> QED
    BY <2>1, <2>3, <2>4, <2>5 DEF Stream!BeginRead
<1> QED
  BY <1>2, <1>3 DEF ReaderCall

(* The fetch of a read is the stream's, and its release the end of it.     *)
LEMMA ReceiveImplements ==
  ASSUME Invariants, NEW r \in Readers, RdReceive(r)
  PROVE  Stream!Fetch
<1> USE DEF Inside, Blocked, InCall, InDriver
<1>1. /\ pc \in [Readers -> RdSteps] /\ popped \in [Readers -> Nat]
      /\ Coordination /\ Typed /\ pc[r] = "fetch"
  BY DEF Invariants, Coordination, Typed, TypeOK, ReaderTypeOK, RdReceive
<1>2. /\ pc' = [pc EXCEPT ![r] = "copy"] /\ popped' = [popped EXCEPT ![r] = @ + 1]
      /\ q # << >> /\ q' = Tail(q) /\ currSeq' = stamp[Head(q)]
      /\ UNCHANGED <<n, seq, dmaOn, overflow_count>>
  BY DEF RdReceive, RdGoto, Receive, chVars, micVars
<1>3. dmaOn /\ popped[r] = 0
  BY <1>1 DEF Invariants, Coordination, OneToken, Delivery, ReadOf, Nothing
<1>4. Pending = {r} /\ Held = {}
  BY <1>1, <1>3, OnlyPending
<1>5. Pending' = Pending /\ Got' = Got
  <2>1. \A s \in Readers : Inside(s)' = Inside(s)
    BY <1>1, <1>2
  <2> QED
    BY <1>2, <2>1 DEF Pending, Got
<1>6. Held' = {currSeq'}
  <2>1. popped'[r] > 0
    BY <1>1, <1>2, <1>3
  <2> QED
    BY <1>4, <1>5, <2>1 DEF Held
<1>7. q \in Seq(Bufs) /\ Len(q) \in Nat /\ seq \in Nat
  BY <1>1, CaptureNumbers
<1>8. Len(q) > 0 /\ Len(q') = Len(q) - 1 /\ Head(q) = q[1]
  BY <1>2, <1>7, EmptySeq, HeadTailProperties
<1>9. stamp[Head(q)] = seq - Len(q)
  <2>1. 1 \in 1 .. Len(q)
    BY <1>7, <1>8
  <2>2. stamp[q[1]] + Len(q) + 1 = seq + 1
    BY <2>1 DEF Invariants, RingInOrder, HoldsLatest
  <2>3. stamp[q[1]] \in Nat
    <3>1. q[1] \in Bufs
      BY <1>7, <2>1, ElementOfSeq
    <3> QED
      BY <1>1, <3>1 DEF Typed, TypeOK, DriverTypeOK
  <2> QED
    BY <1>7, <1>8, <2>2, <2>3
<1> QED
  BY <1>2, <1>3, <1>4, <1>5, <1>6, <1>8, <1>9 DEF Stream!Fetch

LEMMA ReleaseImplements ==
  ASSUME Invariants, NEW r \in Readers, RdRelease(r)
  PROVE  Stream!EndRead(r)
<1> USE DEF Inside, Blocked, InCall, InDriver
<1>1. /\ pc \in [Readers -> RdSteps] /\ popped \in [Readers -> Nat]
      /\ n \in [Readers -> Nat] /\ Coordination /\ Typed /\ pc[r] = "release"
  BY DEF Invariants, Coordination, Typed, TypeOK, ReaderTypeOK, RdRelease
<1>2. /\ pc' = [pc EXCEPT ![r] = "idle"]
      /\ n' = [n EXCEPT ![r] = IF ret[r] = "OK" THEN len[r] ELSE 0]
      /\ UNCHANGED <<q, seq, dmaOn, overflow_count>>
  BY DEF RdRelease, RdGoto, drvVars, chVars, ringVars
<1>3. Pending = {r} /\ Held = IF popped[r] > 0 THEN {currSeq} ELSE {}
  BY <1>1, OnlyPending
<1>4. Pending' = {}
  <2>1. \A s \in Readers : ~Inside(s)'
    BY <1>1, <1>2, <1>3 DEF Pending
  <2> QED
    BY <2>1 DEF Pending
<1>5. Held' = {}
  BY <1>4 DEF Held
<1>6. n'[r] > 0 <=> Held # {}
  <2>1. len[r] = dmaBuf /\ dmaBuf > 0
    BY <1>1 DEF Invariants, Coordination, ReadersNeedInit, Delivery, SizeSet, ReadOf
  <2>2. popped[r] = IF ret[r] = "OK" THEN 1 ELSE 0
    BY <1>1 DEF Invariants, Delivery, ReadOf, Whole
  <2>3. n'[r] = IF ret[r] = "OK" THEN dmaBuf ELSE 0
    BY <1>1, <1>2, <2>1
  <2> QED
    BY <1>3, <2>1, <2>2, <2>3
<1>7. Got' = [Got EXCEPT ![r] = Held # {}]
  <2>1. \A s \in Readers : s # r => n'[s] = n[s] /\ ~Inside(s)
    BY <1>1, <1>2, <1>3 DEF Pending
  <2>2. \A s \in Readers : ~Inside(s)'
    BY <1>4 DEF Pending
  <2> QED
    BY <1>6, <2>1, <2>2 DEF Got
<1> QED
  BY <1>2, <1>3, <1>4, <1>5, <1>7 DEF Stream!EndRead

(* Every other step of a read is hidden by the stream. *)
LEMMA OtherReaderSteps ==
  ASSUME Invariants, NEW r \in Readers, ReaderStep(r), ~RdReceive(r), ~RdRelease(r)
  PROVE  SameStream
<1> USE DEF Inside, Blocked, InCall, InDriver
<1>1. pc \in [Readers -> RdSteps] /\ n \in [Readers -> Nat]
  BY DEF Invariants, Coordination, Typed, TypeOK, ReaderTypeOK
<1>2. UNCHANGED <<dmaOn, seq, q, overflow_count, currSeq, popped>>
  BY DEF ReaderStep, RdCheck, RdSem, RdSemTimeout, RdLoop, RdQueueTimeout, RdCopy, RdGive,
     RdPost, TakeSem, GiveSem, Copy, drvVars, chVars, ringVars, curVars, micVars
<1>3. /\ \A s \in Readers : s # r => pc'[s] = pc[s] /\ n'[s] = n[s]
      /\ Inside(r) /\ Inside(r)'
  BY <1>1
  DEF ReaderStep, RdCheck, RdSem, RdSemTimeout, RdLoop, RdQueueTimeout, RdCopy, RdGive,
      RdPost, RdGoto, RdReturn
<1>4. \A s \in Readers : Inside(s)' = Inside(s) /\ (~Inside(s) => n'[s] = n[s])
  BY <1>3
<1>5. Pending' = Pending /\ Got' = Got
  BY <1>4 DEF Pending, Got
<1>6. Held' = Held
  BY <1>2, <1>5 DEF Held
<1> QED
  BY <1>2, <1>5, <1>6 DEF SameStream

(* The component keeps the promise of MicStream: a client sees a lossy     *)
(* stream of whole buffers, for every ring, every set of tasks and every   *)
(* interleaving of the tasks with the interrupt (i2s_mic.c, lines 89-99    *)
(* and 142-378).                                                           *)
THEOREM MicImplementsStream == Spec => ImplementsStream
<1>1. Init => Stream!Init
  <2>1. Init => Pending = {}
    BY DEF Init, Pending, Inside, Blocked, InCall, InDriver
  <2>2. Init => Got = [r \in Readers |-> FALSE]
    <3>1. Init => \A r \in Readers : ~(n[r] > 0)
      BY DEF Init
    <3> QED
      BY <3>1 DEF Got
  <2>3. Pending = {} => Held = {}
    BY DEF Held
  <2> QED
    BY <2>1, <2>2, <2>3, EmptySeq DEF Init, DriverInit, Stream!Init
<1>2. Invariants /\ [Next]_vars => [Stream!Next]_(Stream!stream)
  <2>1. SUFFICES ASSUME Invariants, [Next]_vars
                 PROVE  Stream!Next \/ SameStream
    BY DEF SameStream, Stream!stream
  <2>2. CASE ControlNext
    BY <2>1, <2>2, ControlImplements
  <2>3. ASSUME NEW r \in Readers, ReaderNext(r)
        PROVE  Stream!Next \/ SameStream
    <3>1. CASE ReaderCall(r)
      BY <2>1, <3>1, CallImplements DEF Stream!Next
    <3>2. CASE RdReceive(r)
      BY <2>1, <3>2, ReceiveImplements DEF Stream!Next
    <3>3. CASE RdRelease(r)
      BY <2>1, <3>3, ReleaseImplements DEF Stream!Next
    <3>4. CASE ReaderStep(r) /\ ~RdReceive(r) /\ ~RdRelease(r)
      BY <2>1, <3>4, OtherReaderSteps
    <3> QED
      BY <2>3, <3>1, <3>2, <3>3, <3>4 DEF ReaderNext
  <2>4. CASE RxIsr
    BY <2>1, <2>4, IsrImplements DEF Stream!Next
  <2>5. CASE UNCHANGED vars
    BY <2>5 DEF SameStream, Pending, Held, Got, Inside, Blocked, InCall, InDriver,
       vars, drvVars, chVars, ringVars, curVars, micVars, rdVars
  <2> QED
    BY <2>1, <2>2, <2>3, <2>4, <2>5, NextByActor
<1>3. Spec => []Invariants
  BY AlwaysDelivery DEF Invariants
<1> QED
  BY <1>1, <1>2, <1>3, PTL DEF Spec, ImplementsStream, Stream!Spec
=============================================================================

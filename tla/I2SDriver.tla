----------------------------- MODULE I2SDriver -----------------------------
(***************************************************************************)
(* The I2S RX channel below i2s_mic: `struct sim_chan` of                  *)
(* test_host/sim_driver.c, with the interleavings the real driver has      *)
(* (i2s_mic.c, lines 11-27).  The simulation runs each call under one      *)
(* mutex; the ESP-IDF driver does not, so every step of a call is a step   *)
(* of its own here and each run of the simulation is a run of this model.  *)
(*                                                                         *)
(* The operators below are the driver's atomic steps.  They constrain the  *)
(* driver's variables only; I2SMic conjoins them with the state of the     *)
(* task that takes the step.                                               *)
(***************************************************************************)
EXTENDS Naturals, Sequences

CONSTANTS
  Desc,       \* DMA descriptors, hence buffers, in the ring (dma_desc_num)
  DmaMax,     \* cap on one DMA buffer, in the units reads are counted in
  SeqBound    \* bound of the model: completed buffers per channel

ASSUME DriverAssumption ==
  /\ Desc \in Nat /\ Desc >= 2
  /\ DmaMax \in Nat \ {0}
  /\ SeqBound \in Nat

VARIABLES
  chState,    \* "NONE" while no channel is allocated, else the channel's state
  sem,        \* the binary semaphore is available
  q,          \* finished, unread buffers: the driver's message queue
  link,       \* the buffer the DMA is filling
  stamp,      \* for each buffer, the number of the last capture written to it
  seq,        \* number of the capture in progress
  dmaOn,
  dmaBuf,     \* size of one DMA buffer
  curr,       \* buffer being read; NoBuf when unset (curr_ptr)
  rwPos,      \* read position inside curr
  \* History of the capture session, for the properties
  sessFirst,  \* first capture of the session
  taken,      \* buffers of the session a reader has taken from the queue
  currSeq,    \* capture that was in curr when it was taken
  torn        \* curr was being rewritten while it was copied

chVars   == <<chState, sem, dmaOn, dmaBuf>>
ringVars == <<q, link, stamp, seq>>
curVars  == <<curr, rwPos, currSeq, torn>>
sessVars == <<sessFirst, taken>>
drvVars  == <<chVars, ringVars, curVars, sessVars>>

Bufs  == 0 .. Desc - 1
NoBuf == Desc

\* MUTANT of QCap: as long as the ring.
QCapOfRing == Desc

QCap == Desc - 1            \* capacity of the message queue
QueueFull == Len(q) = QCap
NextDesc(b) == (b + 1) % Desc

SmallerOf(a, b) == IF a <= b THEN a ELSE b

DriverInit ==
  /\ chState = "NONE" /\ sem = FALSE /\ dmaOn = FALSE /\ dmaBuf = 0
  /\ q = << >> /\ link = 0 /\ stamp = [b \in Bufs |-> 0] /\ seq = 0
  /\ curr = NoBuf /\ rwPos = 0 /\ currSeq = 0 /\ torn = FALSE
  /\ sessFirst = 0 /\ taken = 0

-----------------------------------------------------------------------------
(* Allocation: i2s_new_channel, i2s_channel_init_std_mode, i2s_del_channel *)

(* The channel in state s, all its memory fresh, or freed if s is "NONE". *)
BlankChannel(s) ==
  /\ chState' = s /\ sem' = FALSE /\ dmaOn' = FALSE /\ dmaBuf' = 0
  /\ q' = << >> /\ link' = 0 /\ stamp' = [b \in Bufs |-> 0] /\ seq' = 0
  /\ curr' = NoBuf /\ rwPos' = 0 /\ currSeq' = 0 /\ torn' = FALSE
  /\ sessFirst' = 0 /\ taken' = 0

NewChannel == BlankChannel("REGISTERED")

(* A request above the cap is shrunk without an error. *)
InitStdMode(size) ==
  /\ chState' = "READY"
  /\ dmaBuf' = SmallerOf(size, DmaMax)
  /\ UNCHANGED <<sem, dmaOn, ringVars, curVars, sessVars>>

CanDelete == chState # "RUNNING"

DelChannel == BlankChannel("NONE")

-----------------------------------------------------------------------------
(* i2s_channel_enable and i2s_channel_disable *)

\* MUTANT of Enable: the queue is not emptied.
EnableStale ==
  /\ chState' = "RUNNING" /\ sem' = TRUE /\ dmaOn' = TRUE
  /\ sessFirst' = seq /\ taken' = 0
  /\ UNCHANGED <<dmaBuf, q, link, stamp, seq, curVars>>

(* Empties the queue, starts the DMA and gives the semaphore. *)
Enable ==
  /\ chState' = "RUNNING" /\ sem' = TRUE /\ dmaOn' = TRUE
  /\ q' = << >>
  /\ sessFirst' = seq /\ taken' = 0
  /\ UNCHANGED <<dmaBuf, link, stamp, seq, curVars>>

(* disable() first makes the state READY ... *)
DisableBegin ==
  /\ chState' = "READY"
  /\ UNCHANGED <<sem, dmaOn, dmaBuf, ringVars, curVars, sessVars>>

\* MUTANT of DisableEnd: no reader is waited for.
DisableEndNoWait ==
  /\ sem' = FALSE /\ dmaOn' = FALSE
  /\ curr' = NoBuf /\ rwPos' = 0
  /\ UNCHANGED <<chState, dmaBuf, ringVars, currSeq, torn, sessVars>>

(* ... then waits for the reader to give the semaphore, and keeps it. *)
DisableEnd ==
  /\ sem
  /\ sem' = FALSE /\ dmaOn' = FALSE
  /\ curr' = NoBuf /\ rwPos' = 0
  /\ UNCHANGED <<chState, dmaBuf, ringVars, currSeq, torn, sessVars>>

-----------------------------------------------------------------------------
(* The RX interrupt: one DMA buffer is finished.  A full queue loses its   *)
(* oldest entry to make room; the DMA moves on to the next buffer of the   *)
(* ring whether or not somebody is still copying it.                       *)

\* MUTANT of DmaStep: the newest buffer is dropped.
DmaStepDropNewest ==
  /\ dmaOn /\ seq < SeqBound
  /\ stamp' = [stamp EXCEPT ![link] = seq]
  /\ seq'   = seq + 1
  /\ link'  = NextDesc(link)
  /\ q'     = IF QueueFull THEN q ELSE Append(q, link)
  /\ UNCHANGED <<chVars, curVars, sessVars>>

\* MUTANT of DmaStep: nothing makes room in a full queue.
DmaStepNoDrop ==
  /\ dmaOn /\ seq < SeqBound
  /\ stamp' = [stamp EXCEPT ![link] = seq]
  /\ seq'   = seq + 1
  /\ link'  = NextDesc(link)
  /\ q'     = Append(q, link)
  /\ UNCHANGED <<chVars, curVars, sessVars>>

DmaStep ==
  /\ dmaOn /\ seq < SeqBound
  /\ stamp' = [stamp EXCEPT ![link] = seq]
  /\ seq'   = seq + 1
  /\ link'  = NextDesc(link)
  /\ q'     = Append(IF QueueFull THEN Tail(q) ELSE q, link)
  /\ UNCHANGED <<chVars, curVars, sessVars>>

-----------------------------------------------------------------------------
(* i2s_channel_read, step by step *)

TakeSem ==
  /\ sem
  /\ sem' = FALSE
  /\ UNCHANGED <<chState, dmaOn, dmaBuf, ringVars, curVars, sessVars>>

GiveSem ==
  /\ sem' = TRUE
  /\ UNCHANGED <<chState, dmaOn, dmaBuf, ringVars, curVars, sessVars>>

(* The copy loop needs a new buffer: the current one is used up or unset,  *)
(* or the queue is nearly full.                                            *)
NeedsBuffer == rwPos = dmaBuf \/ curr = NoBuf \/ QCap - Len(q) <= 1

Receive ==
  /\ q # << >>
  /\ q' = Tail(q)
  /\ curr' = Head(q) /\ rwPos' = 0
  /\ currSeq' = stamp[Head(q)] /\ torn' = FALSE
  /\ taken' = taken + 1
  /\ UNCHANGED <<chVars, link, stamp, seq, sessFirst>>

(* Bytes one pass of the loop copies when `size` are still wanted. *)
CopySize(size) == SmallerOf(dmaBuf - rwPos, size)

(* The end of a copy.  It was torn if the DMA has come round to the buffer *)
(* (it is filling it now, or has filled it again) since it was received.   *)
Copy(size) ==
  /\ rwPos' = rwPos + CopySize(size)
  /\ torn' = (torn \/ (dmaOn /\ link = curr) \/ stamp[curr] # currSeq)
  /\ UNCHANGED <<chVars, ringVars, curr, currSeq, sessVars>>

-----------------------------------------------------------------------------
(* Every driver variable stays in its set; the queue never holds more than *)
(* its capacity (sim_driver.c, lines 114-120).                             *)
DriverTypeOK ==
  /\ chState \in {"NONE", "REGISTERED", "READY", "RUNNING"}
  /\ sem \in BOOLEAN /\ dmaOn \in BOOLEAN /\ dmaBuf \in 0 .. DmaMax
  /\ q \in Seq(Bufs) /\ Len(q) <= QCap
  /\ link \in Bufs /\ stamp \in [Bufs -> Nat] /\ seq \in 0 .. SeqBound
  /\ curr \in Bufs \cup {NoBuf} /\ rwPos \in Nat
  /\ currSeq \in Nat /\ torn \in BOOLEAN
  /\ sessFirst \in Nat /\ taken \in Nat
=============================================================================

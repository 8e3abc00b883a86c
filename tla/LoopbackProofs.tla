--------------------------- MODULE LoopbackProofs ---------------------------
(***************************************************************************)
(* The loopback example plays what it recorded, keeps to the controller it *)
(* holds and logs at least the buffers that are missing, for all sizes of  *)
(* buffer, recording, chunk and ring.                                      *)
(***************************************************************************)
EXTENDS Loopback, SequenceTheorems, TLAPS

Recording == {"record", "read", "count", "stop_mic", "deinit_mic"}
Playing   == {"play", "send", "sent", "stop_spk", "deinit_spk"}

(* Which component the task has brought up, and how far, at each step.     *)
PhaseOfStep ==
  /\ owner = IF pc \in {"reset_mic", "start_mic"} \cup Recording THEN "mic"
             ELSE IF pc \in {"start_spk"} \cup Playing THEN "spk" ELSE "none"
  /\ live <=> pc \in {"record", "read", "count", "stop_mic"}
  /\ pending = IF pc = "read" THEN {"app"} ELSE {}
  /\ held # {} => pc = "read"
  /\ pc \in {"reset_mic", "start_mic"} => next = 0
  /\ pc \notin Recording => pos = 0

(* The oldest capture that waits, or the next one. *)
Oldest == next - waiting

(* What a read has fetched is one capture, and one that waits no more.     *)
OneFetched ==
  /\ waiting <= next
  /\ \A c \in held : c < Oldest
  /\ \A c, d \in held : c = d

(* The first n samples of buf are of this recording, each later in the     *)
(* stream than the one before it.                                          *)
InOrder(n) ==
  \A i \in 0 .. n - 1 :
    buf[i].take = take /\ \A j \in 0 .. i - 1 : buf[j].at < buf[i].at

RecordsInOrder == pc \in Recording => InOrder(pos)

(* What the next read gives is later still.                                *)
MoreToCome ==
  pc \in {"record", "read"} =>
    \A i \in 0 .. pos - 1 :
      /\ buf[i].at < Frames * Oldest
      /\ \A c \in held : buf[i].at < Frames * c

(* As long as there is room, what was captured and waits no more is in the *)
(* recording, was fetched, or was counted as lost.                         *)
Fetched == IF held = {} THEN 0 ELSE Frames
AllAccounted ==
  (pc \in {"record", "read"} /\ pos < RecordSamples)
    => Frames * Oldest <= pos + Frames * lost + Fetched

(* The last sample is no further in the stream than the losses explain.    *)
CountCovers ==
  (pc \in Recording /\ pos > 0) =>
    buf[pos - 1].at + 1 <= pos + Frames * (IF pc \in {"stop_mic", "deinit_mic"} THEN logged ELSE lost)

RecordInv ==
  /\ TypeOK /\ PhaseOfStep /\ OneFetched /\ RecordsInOrder /\ MoreToCome
  /\ AllAccounted /\ CountCovers

-----------------------------------------------------------------------------
(* A chunk is a part of the recording, and being offered until all of it   *)
(* is taken.                                                               *)
ChunkInRecording ==
  /\ pc \in {"send", "sent"} =>
       offset + want <= len /\ want <= Chunk /\ sent < want /\ ~failed
  /\ pc = "sent" => sent + took <= want
  /\ pc = "play" /\ ~failed => offset <= len
  /\ failed => pc \in Playing /\ (pc = "play" => len <= offset)
  /\ pc = "stop_spk" => len <= offset /\ (~failed => offset = len)

(* How far in the recording the speaker is. *)
Reached == IF pc = "play" THEN offset
           ELSE IF pc = "send" THEN offset + sent
           ELSE IF pc = "sent" THEN offset + sent + took ELSE len

(* What it has taken is of the recording, in order, before that point.     *)
PlaysInOrder ==
  /\ pc \in {"init_spk", "start_spk"} \cup Playing => InOrder(len)
  /\ pc \notin Playing => heard = << >> /\ offset = 0 /\ refused = 0 /\ ~failed
  /\ pc \in Playing => PlaysLastRecording
  /\ pc \in Playing =>
       \A i \in DOMAIN heard, k \in Reached .. len - 1 : heard[i].at < buf[k].at

(* What it has not taken, before that point, it has refused.               *)
RefusedAccounts ==
  (pc \in {"play", "send", "sent", "stop_spk"} /\ ~failed) =>
    Len(heard) + refused * Chunk
      >= IF pc = "sent" /\ took = 0 THEN offset + want ELSE Reached

PlayInv == ChunkInRecording /\ PlaysInOrder /\ RefusedAccounts

LoopbackInv == RecordInv /\ PlayInv

-----------------------------------------------------------------------------
(* The constants, multiples of Frames, and the one element of a set *)

LEMMA Constants ==
  /\ Frames \in Nat /\ Frames > 0 /\ Chunk \in Nat /\ Chunk > 0
  /\ RecordSamples \in Nat /\ RecordSamples > 0
BY LoopbackAssumption

LEMMA Multiples ==
  /\ Frames * 0 = 0
  /\ \A a \in Int : Frames * a \in Int /\ Frames * (a + 1) = Frames * a + Frames
  /\ \A a \in Nat : Frames * a \in Nat
  /\ \A a, b \in Int : a <= b => Frames * a <= Frames * b
BY Constants

LEMMA ChosenOne ==
  ASSUME NEW S, S # {}
  PROVE  (CHOOSE x \in S : TRUE) \in S
OBVIOUS

-----------------------------------------------------------------------------
(* Recording *)

(* A step from one phase to the next that reads no audio: what is recorded *)
(* and what is played stay what they are.                                  *)
LEMMA SetUpKeeps ==
  ASSUME LoopbackInv, InitMic \/ ResetMic \/ StartMic
  PROVE  LoopbackInv'
<1> USE DEF LoopbackInv, RecordInv, PlayInv, At, playVars
<1>1. /\ pc \notin Recording \cup Playing \cup {"init_spk", "start_spk"}
      /\ held = {} /\ pos = 0 /\ pos' = 0 /\ held' = {}
      /\ UNCHANGED <<buf, len, take, offset, want, sent, took, heard, refused, failed>>
  BY DEF InitMic, ResetMic, StartMic, PhaseOfStep, Recording, Playing,
         Mic!NewChannel, Mic!ResetCount, Mic!Start
<1>2. PlayInv'
  BY <1>1 DEF InitMic, ResetMic, StartMic, Playing, ChunkInRecording, PlaysInOrder,
              RefusedAccounts
<1>3. RecordsInOrder' /\ CountCovers'
  BY <1>1 DEF RecordsInOrder, CountCovers, InOrder
<1>4. CASE InitMic
  BY <1>1, <1>2, <1>3, <1>4 DEF InitMic, Mic!NewChannel, Checked, TypeOK, PhaseOfStep,
     Recording, Playing, OneFetched, MoreToCome, AllAccounted
<1>5. CASE ResetMic
  BY <1>1, <1>2, <1>3, <1>5 DEF ResetMic, Mic!ResetCount, Checked, TypeOK, PhaseOfStep,
     Recording, Playing, OneFetched, MoreToCome, AllAccounted
<1>6. CASE StartMic
  <2>1. next = 0 /\ waiting = 0 /\ next' = 0 /\ waiting' = 0 /\ lost' = 0 /\ Oldest' = 0
    BY <1>6 DEF StartMic, Mic!Start, PhaseOfStep, OneFetched, TypeOK, Oldest
  <2>2. AllAccounted'
    BY <1>1, <2>1, Multiples, Constants DEF AllAccounted, Fetched
  <2>3. TypeOK' /\ PhaseOfStep' /\ OneFetched' /\ MoreToCome'
    BY <1>1, <1>6, <2>1 DEF StartMic, Mic!Start, Checked, TypeOK, PhaseOfStep,
       Recording, Playing, OneFetched, MoreToCome
  <2> QED
    BY <1>2, <1>3, <2>2, <2>3
<1> QED
  BY <1>4, <1>5, <1>6

(* The recording goes on, or ends.                                         *)
LEMMA RecordKeeps ==
  ASSUME LoopbackInv, BeginRead \/ ReadFails \/ Recorded \/ CountLost \/ StopMic
  PROVE  LoopbackInv'
<1> USE DEF LoopbackInv, RecordInv, PlayInv, At, playVars, micVars
<1>1. /\ pc \in Recording /\ pc' \in Recording
      /\ UNCHANGED <<next, waiting, lost, held, pos>> /\ Oldest' = Oldest
      /\ UNCHANGED <<buf, len, take, offset, want, sent, took, heard, refused, failed>>
      /\ pc' \in {"record", "read"} => pc \in {"record", "read"}
  BY DEF BeginRead, ReadFails, Recorded, CountLost, StopMic, Recording,
         Mic!BeginRead, Mic!EndRead, Mic!Stop, Oldest
<1>2. PlayInv'
  BY <1>1 DEF Recording, Playing, ChunkInRecording, PlaysInOrder, RefusedAccounts
<1>3. OneFetched' /\ RecordsInOrder' /\ MoreToCome' /\ AllAccounted'
  BY <1>1 DEF OneFetched, RecordsInOrder, InOrder, MoreToCome, AllAccounted, Fetched
<1>4. CountCovers'
  BY <1>1 DEF CountCovers, BeginRead, ReadFails, Recorded, CountLost, StopMic
<1>5. TypeOK'
  <2>1. /\ owner' = owner /\ logged' \in {logged, lost} /\ live' \in {live, FALSE}
        /\ pc' \in {"record", "read", "count", "stop_mic", "deinit_mic"}
    BY DEF BeginRead, ReadFails, Recorded, CountLost, StopMic, Mic!BeginRead, Mic!EndRead, Mic!Stop
  <2>2. pending' \subseteq {"app"} /\ got' \in [{"app"} -> BOOLEAN]
    BY DEF TypeOK, BeginRead, ReadFails, Recorded, CountLost, StopMic,
           Mic!BeginRead, Mic!EndRead, Mic!Stop
  <2>3. {live', failed'} \subseteq BOOLEAN
    BY <1>1, <2>1 DEF TypeOK
  <2>4. {next, waiting, lost, logged, offset, want, sent, took, refused}' \subseteq Nat
    BY <1>1, <2>1 DEF TypeOK
  <2> QED
    BY <1>1, <2>1, <2>2, <2>3, <2>4 DEF TypeOK
<1>6. PhaseOfStep'
  BY <1>1 DEF PhaseOfStep, Recording, Playing, BeginRead, ReadFails, Recorded, CountLost,
     StopMic, Mic!BeginRead, Mic!EndRead, Mic!Stop
<1> QED
  BY <1>2, <1>3, <1>4, <1>5, <1>6

(* A buffer is added to the recording: all of it is later in the stream    *)
(* than what is recorded, and no later than the losses explain.            *)
LEMMA ReadOKKeeps ==
  ASSUME LoopbackInv, ReadOK
  PROVE  LoopbackInv'
<1> USE DEF LoopbackInv, RecordInv, PlayInv, At, playVars
<1> DEFINE c == CHOOSE d \in held : TRUE
           D == Oldest
           k == Kept
           new == pos .. pos + k - 1
<1>1. /\ pc = "read" /\ pc' = "record" /\ held' = {} /\ pending' = {}
      /\ pos' = pos + k
      /\ buf' = [i \in DOMAIN buf \cup new |->
                   IF i \in new THEN [take |-> take, at |-> Frames * c + i - pos] ELSE buf[i]]
      /\ got' = [got EXCEPT !["app"] = held # {}]
      /\ UNCHANGED <<live, next, waiting, lost, owner, len, logged, take, playVars>>
      /\ Oldest' = Oldest
  BY DEF ReadOK, Mic!EndRead, Oldest
<1>2. /\ c \in held /\ held # {}
  BY ChosenOne DEF ReadOK
<1>3. /\ lost \in Nat /\ pos \in Nat /\ pos <= RecordSamples /\ take \in 0 .. 1
      /\ buf \in [0 .. RecordSamples - 1 -> [take : 0 .. 2, at : Nat]]
      /\ held \subseteq Nat /\ next \in Nat /\ waiting \in Nat
  BY Constants DEF TypeOK
<1>4. /\ k \in Nat /\ k <= Frames /\ pos + k <= RecordSamples
      /\ pos + k < RecordSamples => k = Frames
  BY <1>3, Constants DEF Kept, SmallerOf
<1> HIDE DEF c, k
<1>20. c \in Nat /\ D \in Nat /\ c < D
  BY <1>2, <1>3 DEF OneFetched, Oldest
<1> HIDE DEF D
<1>5. /\ Frames * c \in Nat /\ Frames * D \in Nat
      /\ Frames * c + Frames <= Frames * D
  <2>1. c + 1 \in Int /\ c + 1 <= D /\ c \in Int /\ D \in Int
    BY <1>20
  <2>2. Frames * (c + 1) <= Frames * D /\ Frames * (c + 1) = Frames * c + Frames
    BY <2>1, Multiples
  <2> QED
    BY <1>20, <2>2, Multiples
<1>6. DOMAIN buf \cup new = 0 .. RecordSamples - 1
  BY <1>3, <1>4, Constants
<1>7. /\ \A i \in 0 .. pos - 1 : i \in 0 .. RecordSamples - 1 /\ buf'[i] = buf[i]
      /\ \A i \in new : /\ i \in 0 .. RecordSamples - 1
                        /\ buf'[i].take = take /\ buf'[i].at = Frames * c + i - pos
  BY <1>1, <1>3, <1>4, <1>6, Constants
<1>8. \A i \in 0 .. pos - 1 : buf[i].at \in Nat /\ buf[i].at < Frames * c /\ buf[i].take = take
  BY <1>1, <1>2, <1>3, Constants DEF MoreToCome, RecordsInOrder, InOrder, Recording
<1>9. buf' \in [0 .. RecordSamples - 1 -> [take : 0 .. 2, at : Nat]]
  <2>1. \A i \in new : Frames * c + i - pos \in Nat
    BY <1>3, <1>4, <1>5
  <2>2. \A i \in new : [take |-> take, at |-> Frames * c + i - pos] \in [take : 0 .. 2, at : Nat]
    BY <1>3, <2>1
  <2> QED
    BY <1>1, <1>3, <1>6, <2>2
<1>10. \A i \in 0 .. pos' - 1 : i \in 0 .. pos - 1 \/ i \in new
  BY <1>1, <1>3, <1>4
<1>11. RecordsInOrder'
  <2>1. ASSUME NEW i \in 0 .. pos' - 1
        PROVE  buf'[i].take = take /\ \A j \in 0 .. i - 1 : buf'[j].at < buf'[i].at
    <3>1. CASE i \in 0 .. pos - 1
      <4>1. i \in Nat /\ i < pos /\ \A j \in 0 .. i - 1 : j \in 0 .. pos - 1
        BY <1>3, <3>1
      <4>2. buf[i].take = take /\ \A j \in 0 .. i - 1 : buf[j].at < buf[i].at
        BY <1>1, <3>1 DEF RecordsInOrder, InOrder, Recording
      <4> QED
        BY <1>7, <3>1, <4>1, <4>2
    <3>2. CASE i \in new
      <4>1. buf'[i].take = take /\ buf'[i].at = Frames * c + i - pos /\ i \in Int /\ pos <= i
        BY <1>3, <1>7, <3>2
      <4>2. ASSUME NEW j \in 0 .. i - 1
            PROVE  buf'[j].at < buf'[i].at
        <5>1. CASE j < pos
          <6>1. j \in 0 .. pos - 1
            BY <1>3, <4>1, <5>1
          <6>2. buf'[j].at \in Nat /\ buf'[j].at < Frames * c
            BY <1>7, <1>8, <6>1
          <6> QED
            BY <1>3, <1>5, <4>1, <6>2
        <5>2. CASE pos <= j
          <6>1. j \in new
            BY <1>3, <1>4, <3>2, <5>2
          <6>2. buf'[j].at = Frames * c + j - pos /\ j \in Int /\ j < i
            BY <1>7, <4>1, <6>1
          <6> QED
            BY <1>3, <1>5, <4>1, <6>2
        <5> QED
          BY <1>3, <4>1, <5>1, <5>2
      <4> QED
        BY <4>1, <4>2
    <3> QED
      BY <1>10, <3>1, <3>2
  <2> QED
    BY <1>1, <2>1 DEF RecordsInOrder, InOrder
<1>12. MoreToCome'
  <2>1. ASSUME NEW i \in 0 .. pos' - 1
        PROVE  buf'[i].at < Frames * D
    <3>1. CASE i \in 0 .. pos - 1
      BY <1>5, <1>7, <1>8, <3>1, Constants
    <3>2. CASE i \in new
      <4>1. buf'[i].at = Frames * c + i - pos /\ i \in Int /\ i < pos + k
        BY <1>3, <1>4, <1>7, <3>2
      <4> QED
        BY <1>3, <1>4, <1>5, <4>1, Constants
    <3> QED
      BY <1>10, <3>1, <3>2
  <2> QED
    BY <1>1, <2>1 DEF MoreToCome, D
<1>13. pos < RecordSamples => Frames * D <= pos + Frames * lost + Frames
  BY <1>1, <1>2 DEF AllAccounted, Fetched, D
<1>14. Frames * lost \in Nat
  BY <1>3, Multiples
<1>15. AllAccounted'
  <2>1. pos' < RecordSamples => pos < RecordSamples /\ pos' = pos + Frames
    BY <1>1, <1>3, <1>4, Constants
  <2>2. pos' < RecordSamples => Frames * D <= pos' + Frames * lost + 0
    BY <1>3, <1>5, <1>13, <1>14, <2>1, Constants
  <2> QED
    BY <1>1, <2>2 DEF AllAccounted, Fetched, D
<1>16. CountCovers'
  <2> SUFFICES ASSUME pos' > 0
               PROVE  buf'[pos' - 1].at + 1 <= pos' + Frames * lost
    BY <1>1 DEF CountCovers
  <2>1. CASE k = 0
    <3>1. pos' = pos /\ pos > 0 /\ pos - 1 \in 0 .. pos - 1
      BY <1>1, <1>3, <2>1
    <3>2. buf[pos - 1].at + 1 <= pos + Frames * lost
      BY <1>1, <3>1 DEF CountCovers, Recording
    <3> QED
      BY <1>7, <3>1, <3>2
  <2>2. CASE k > 0
    <3>1. pos' - 1 \in new /\ pos < RecordSamples
      BY <1>1, <1>3, <1>4, <2>2, Constants
    <3>2. buf'[pos' - 1].at = Frames * c + (pos' - 1) - pos
      BY <1>7, <3>1
    <3>3. Frames * c <= pos + Frames * lost
      BY <1>3, <1>5, <1>13, <1>14, <3>1, Constants
    <3> QED
      BY <1>1, <1>3, <1>4, <1>5, <1>14, <3>2, <3>3
  <2> QED
    BY <1>4, <2>1, <2>2
<1>17. TypeOK'
  BY <1>1, <1>3, <1>4, <1>9 DEF TypeOK, Checked
<1>18. PhaseOfStep' /\ OneFetched'
  BY <1>1 DEF PhaseOfStep, OneFetched, Recording, Playing
<1>19. PlayInv'
  BY <1>1 DEF ChunkInRecording, PlaysInOrder, RefusedAccounts, Playing
<1> QED
  BY <1>11, <1>12, <1>15, <1>16, <1>17, <1>18, <1>19

(* The microphone is taken down; what it gave is what will be played.      *)
LEMMA DeinitMicKeeps ==
  ASSUME LoopbackInv, DeinitMic
  PROVE  LoopbackInv'
<1> USE DEF LoopbackInv, RecordInv, PlayInv, DeinitMic, At, playVars, Mic!NewChannel
<1>1. /\ InOrder(pos) /\ heard = << >> /\ offset = 0 /\ refused = 0 /\ ~failed
  BY DEF RecordsInOrder, PlaysInOrder, Recording, Playing
<1>2. PlayInv'
  BY <1>1 DEF InOrder, Playing, ChunkInRecording, PlaysInOrder, RefusedAccounts
<1>3. TypeOK'
  BY Constants DEF TypeOK, Checked
<1>4. PhaseOfStep' /\ OneFetched' /\ RecordsInOrder' /\ MoreToCome' /\ AllAccounted' /\ CountCovers'
  BY DEF PhaseOfStep, OneFetched, RecordsInOrder, MoreToCome, AllAccounted, CountCovers,
         Recording, Playing, TypeOK
<1> QED
  BY <1>2, <1>3, <1>4

(* Audio arrives, or the pending read fetches some.                        *)
LEMMA AudioKeeps ==
  ASSUME LoopbackInv, Audio
  PROVE  LoopbackInv'
<1> USE DEF LoopbackInv, RecordInv, PlayInv, Audio, playVars
<1>0. /\ next \in Nat /\ waiting \in Nat /\ lost \in Nat /\ pos \in 0 .. RecordSamples
      /\ UNCHANGED <<owner, pc, pos, buf, len, logged, take>>
      /\ UNCHANGED <<offset, want, sent, took, heard, refused, failed>>
      /\ waiting <= next /\ Oldest \in Nat
  BY DEF TypeOK, OneFetched, Oldest
<1>1. PlayInv' /\ RecordsInOrder'
  BY <1>0 DEF ChunkInRecording, PlaysInOrder, RefusedAccounts, RecordsInOrder, InOrder,
              PlaysLastRecording, Reached
<1>2. \A i \in 0 .. pos - 1 : buf[i].at \in Nat
  BY <1>0, Constants DEF TypeOK
<1>3. CASE Mic!Capture
  <2>1. /\ held' = held /\ pending' = pending /\ live /\ live' = live
        /\ \/ Oldest' = Oldest + 1 /\ lost' = lost + 1
           \/ Oldest' = Oldest /\ lost' = lost
        /\ got' = got /\ next' \in Nat /\ waiting' \in Nat /\ lost' \in Nat /\ waiting' <= next'
    BY <1>0, <1>3 DEF Mic!Capture, Oldest
  <2>9. Oldest' \in Nat
    BY <1>0, <2>1
  <2>2. /\ Frames * Oldest <= Frames * Oldest'
        /\ Frames * Oldest \in Nat /\ Frames * Oldest' \in Nat
        /\ Frames * lost \in Nat /\ Frames * lost' \in Nat
        /\ Frames * lost <= Frames * lost'
        /\ (Frames * Oldest') - (Frames * lost')
             = (Frames * Oldest) - (Frames * lost)
    <3> DEFINE d == Oldest
               e == Oldest'
               g == lost'
    <3>1. /\ d \in Nat /\ e \in Nat /\ lost \in Nat /\ g \in Nat
          /\ (e = d + 1 /\ g = lost + 1) \/ (e = d /\ g = lost)
      BY <1>0, <2>1, <2>9
    <3> HIDE DEF d, e, g
    <3>2. /\ Frames * d \in Nat /\ Frames * e \in Nat
          /\ Frames * lost \in Nat /\ Frames * g \in Nat
          /\ Frames * d <= Frames * e /\ Frames * lost <= Frames * g
          /\ (Frames * e) - (Frames * g) = (Frames * d) - (Frames * lost)
      <4>1. CASE e = d + 1 /\ g = lost + 1
        <5>1. Frames * e = Frames * d + Frames /\ Frames * g = Frames * lost + Frames
          BY <3>1, <4>1, Multiples
        <5> QED
          BY <3>1, <5>1, Multiples, Constants
      <4>2. CASE e = d /\ g = lost
        BY <3>1, <4>2, Multiples
      <4> QED
        BY <3>1, <4>1, <4>2
    <3> QED
      BY <3>2 DEF d, e, g
  <2>3. TypeOK'
    BY <1>0, <2>1 DEF TypeOK
  <2>4. PhaseOfStep'
    BY <1>0, <2>1 DEF PhaseOfStep, Recording
  <2>8. OneFetched'
    <3>1. held \subseteq Nat
      BY DEF TypeOK
    <3>2. Oldest <= Oldest'
      BY <1>0, <2>1, <2>9
    <3>3. \A c \in held : c < Oldest'
      BY <1>0, <2>9, <3>1, <3>2 DEF OneFetched
    <3> QED
      BY <2>1, <3>3 DEF OneFetched
  <2>5. MoreToCome'
    BY <1>0, <1>2, <2>1, <2>2 DEF MoreToCome
  <2>6. AllAccounted'
    <3>1. Fetched \in Nat /\ Fetched' = Fetched
      BY <2>1, Constants DEF Fetched
    <3> QED
      BY <1>0, <2>1, <2>2, <3>1 DEF AllAccounted
  <2>7. CountCovers'
    <3> SUFFICES ASSUME pc \in Recording \ {"stop_mic", "deinit_mic"}, pos > 0
                 PROVE  buf[pos - 1].at + 1 <= pos + Frames * lost'
      BY <1>0 DEF CountCovers
    <3>1. buf[pos - 1].at + 1 <= pos + Frames * lost /\ buf[pos - 1].at \in Nat
      BY <1>0, <1>2 DEF CountCovers
    <3> QED
      BY <1>0, <2>2, <3>1
  <2> QED
    BY <1>1, <2>3, <2>4, <2>5, <2>6, <2>7, <2>8
<1>4. CASE Mic!Fetch
  <2> USE <1>4 DEF Mic!Fetch
  <2>1. /\ held' = {Oldest} /\ held = {} /\ pc = "read"
        /\ waiting' = waiting - 1 /\ waiting' \in Nat
        /\ UNCHANGED <<live, next, lost, pending, got>>
        /\ Oldest' = Oldest + 1
    BY <1>0 DEF PhaseOfStep, Oldest
  <2>2. /\ Frames * Oldest' = Frames * Oldest + Frames
        /\ Frames * Oldest \in Nat /\ Frames * lost \in Nat
    BY <1>0, <2>1, Multiples
  <2>3. TypeOK'
    BY <1>0, <2>1 DEF TypeOK
  <2>4. PhaseOfStep' /\ OneFetched' /\ CountCovers'
    BY <1>0, <2>1 DEF PhaseOfStep, OneFetched, CountCovers
  <2>5. MoreToCome'
    BY <1>0, <1>2, <2>1, <2>2, Constants DEF MoreToCome
  <2>6. AllAccounted'
    BY <1>0, <2>1, <2>2, Constants DEF AllAccounted, Fetched
  <2> QED
    BY <1>1, <2>3, <2>4, <2>5, <2>6
<1> QED
  BY <1>3, <1>4

-----------------------------------------------------------------------------
(* Playback *)

Sample == [take : 0 .. 2, at : Nat]

LEMMA NothingHeard == << >> \in Seq(Sample) /\ Len(<< >>) = 0
BY EmptySeq

(* Playback leaves alone what recording is about. *)
LEMMA PlaybackKeepsRecord ==
  ASSUME RecordInv, pc' \notin Recording, UNCHANGED <<micVars, pos, buf, logged>>
  PROVE  OneFetched' /\ RecordsInOrder' /\ MoreToCome' /\ AllAccounted' /\ CountCovers'
<1>1. pc' \notin {"record", "read"} /\ Oldest' = Oldest
  BY DEF Recording, micVars, Oldest
<1> QED
  BY <1>1 DEF RecordInv, micVars, OneFetched, RecordsInOrder, MoreToCome, AllAccounted,
              CountCovers

(* A step from one phase to the next that sends nothing. *)
LEMMA TurnKeeps ==
  ASSUME LoopbackInv, InitSpk \/ StartSpk \/ NextChunk \/ Played \/ StopSpk
  PROVE  LoopbackInv'
<1> USE DEF LoopbackInv, RecordInv, PlayInv, At, playVars
<1>1. /\ pc' \notin Recording /\ UNCHANGED <<micVars, pos, buf, len, logged, take>>
      /\ UNCHANGED <<offset, heard, refused, failed>>
  BY DEF InitSpk, StartSpk, NextChunk, Played, StopSpk, Recording
<1>2. OneFetched' /\ RecordsInOrder' /\ MoreToCome' /\ AllAccounted' /\ CountCovers'
  BY <1>1, PlaybackKeepsRecord
<1>3. /\ offset \in Nat /\ refused \in Nat /\ len \in Nat /\ Len(heard) \in Nat
      /\ heard \in Seq(Sample)
  BY Constants, LenProperties DEF TypeOK, Sample
<1>4. CASE InitSpk
  BY <1>1, <1>2, <1>4 DEF InitSpk, Checked, TypeOK, micVars, PhaseOfStep, Recording, Playing,
     ChunkInRecording, PlaysInOrder, InOrder, RefusedAccounts
<1>5. CASE StartSpk
  <2>1. heard = << >> /\ offset = 0 /\ refused = 0 /\ ~failed /\ InOrder(len)
    BY <1>5 DEF StartSpk, PlaysInOrder, Playing
  <2>2. PlaysInOrder'
    BY <1>1, <1>5, <2>1 DEF StartSpk, PlaysInOrder, InOrder, Playing, PlaysLastRecording
  <2>3. RefusedAccounts'
    BY <1>1, <1>3, <1>5, <2>1, Constants, EmptySeq DEF StartSpk, RefusedAccounts, Reached
  <2>4. TypeOK' /\ PhaseOfStep' /\ ChunkInRecording'
    BY <1>1, <1>3, <1>5, <2>1 DEF StartSpk, Checked, TypeOK, micVars, PhaseOfStep, Recording,
       Playing, ChunkInRecording
  <2> QED
    BY <1>2, <2>2, <2>3, <2>4
<1>6. CASE NextChunk
  <2>1. /\ pc = "play" /\ pc' = "send" /\ offset < len /\ ~failed
        /\ want' \in Nat /\ want' > 0 /\ want' <= Chunk /\ offset + want' <= len
        /\ sent' = 0 /\ took' = took
    BY <1>3, <1>6, Constants DEF NextChunk, SmallerOf, ChunkInRecording
  <2>2. Reached = offset /\ Reached' = offset
    BY <1>1, <1>3, <2>1 DEF Reached
  <2>3. PlaysInOrder' /\ RefusedAccounts'
    BY <1>1, <2>1, <2>2 DEF PlaysInOrder, InOrder, Playing, PlaysLastRecording, RefusedAccounts
  <2>4. ChunkInRecording'
    BY <1>1, <1>3, <2>1 DEF ChunkInRecording, Playing
  <2>5. TypeOK' /\ PhaseOfStep'
    BY <1>1, <1>6, <2>1 DEF NextChunk, TypeOK, micVars, PhaseOfStep, Recording, Playing
  <2> QED
    BY <1>2, <2>3, <2>4, <2>5
<1>7. CASE Played
  <2>1. pc = "play" /\ pc' = "stop_spk" /\ offset >= len /\ UNCHANGED <<want, sent, took>>
    BY <1>7 DEF Played
  <2>2. Reached = offset /\ Reached' = len
    BY <1>1, <2>1 DEF Reached
  <2>3. ChunkInRecording'
    BY <1>1, <1>3, <2>1 DEF ChunkInRecording, Playing
  <2>4. RefusedAccounts'
    BY <1>1, <1>3, <2>1, <2>2 DEF RefusedAccounts, ChunkInRecording
  <2>5. PlaysInOrder'
    BY <1>1, <1>3, <2>1, <2>2 DEF PlaysInOrder, InOrder, Playing, PlaysLastRecording
  <2>6. TypeOK' /\ PhaseOfStep'
    BY <1>1, <1>7, <2>1 DEF Played, Checked, TypeOK, micVars, PhaseOfStep, Recording, Playing
  <2> QED
    BY <1>2, <2>3, <2>4, <2>5, <2>6
<1>8. CASE StopSpk
  <2>1. pc = "stop_spk" /\ pc' = "deinit_spk" /\ UNCHANGED <<want, sent, took>>
    BY <1>8 DEF StopSpk
  <2>2. Reached = len /\ Reached' = len
    BY <1>1, <2>1 DEF Reached
  <2>3. ChunkInRecording' /\ RefusedAccounts' /\ PlaysInOrder'
    BY <1>1, <2>1, <2>2 DEF ChunkInRecording, RefusedAccounts, PlaysInOrder, InOrder, Playing,
       PlaysLastRecording
  <2>4. TypeOK' /\ PhaseOfStep'
    BY <1>1, <1>8, <2>1 DEF StopSpk, Checked, TypeOK, micVars, PhaseOfStep, Recording, Playing
  <2> QED
    BY <1>2, <2>3, <2>4
<1> QED
  BY <1>4, <1>5, <1>6, <1>7, <1>8

(* What a send adds to what was heard: the next n samples. *)
LEMMA HeardMore ==
  ASSUME LoopbackInv, pc = "send", NEW n \in 0 .. want - sent, heard' = heard \o Offered(n),
         UNCHANGED <<buf, len, take>>
  PROVE  /\ heard' \in Seq(Sample) /\ Len(heard') = Len(heard) + n
         /\ PlaysLastRecording'
         /\ \A i \in DOMAIN heard', k \in offset + sent + n .. len - 1 : heard'[i].at < buf[k].at
<1> DEFINE base == offset + sent
           o == Offered(n)
           L == Len(heard)
<1>1. /\ base \in Nat /\ n \in Nat /\ base + n <= len
      /\ len \in Nat /\ len <= RecordSamples
      /\ buf \in [0 .. RecordSamples - 1 -> Sample]
      /\ heard \in Seq(Sample)
  <2>1. /\ offset \in Nat /\ want \in Nat /\ sent \in Nat
        /\ len \in Nat /\ len <= RecordSamples
        /\ buf \in [0 .. RecordSamples - 1 -> Sample] /\ heard \in Seq(Sample)
    BY Constants DEF LoopbackInv, RecordInv, TypeOK, Sample
  <2>2. offset + want <= len /\ sent < want
    BY DEF LoopbackInv, PlayInv, ChunkInRecording
  <2> QED
    BY <2>1, <2>2
<1>2. /\ InOrder(len) /\ PlaysLastRecording
      /\ \A i \in DOMAIN heard, k \in base .. len - 1 : heard[i].at < buf[k].at
  BY DEF LoopbackInv, PlayInv, PlaysInOrder, Playing, Reached
<1>13. heard' = heard \o o
  OBVIOUS
<1>3. o = [i \in 1 .. n |-> buf[base + i - 1]]
  BY DEF Offered
<1> HIDE DEF base, o
<1>4. \A i \in 1 .. n : base + i - 1 \in 0 .. len - 1 /\ base + i - 1 \in 0 .. RecordSamples - 1
  BY <1>1, Constants
<1>5. o \in [1 .. n -> Sample]
  BY <1>1, <1>3, <1>4
<1>6. o \in Seq(Sample) /\ Len(o) = n
  <2>1. o \in Seq(Sample)
    BY <1>1, <1>5, SeqDef
  <2> QED
    BY <1>1, <1>5, <2>1, LenProperties
<1>7. /\ heard' \in Seq(Sample) /\ Len(heard') = L + n /\ L \in Nat
      /\ DOMAIN heard = 1 .. L /\ DOMAIN heard' = 1 .. L + n
      /\ \A i \in 1 .. L + n : heard'[i] = IF i <= L THEN heard[i] ELSE o[i - L]
  <2>1. /\ heard \o o \in Seq(Sample) /\ Len(heard \o o) = L + n
        /\ \A i \in 1 .. L + n : (heard \o o)[i] = IF i <= L THEN heard[i] ELSE o[i - L]
    BY <1>1, <1>6, ConcatProperties
  <2>2. L \in Nat /\ DOMAIN heard = 1 .. L
    BY <1>1, LenProperties
  <2>3. DOMAIN (heard \o o) = 1 .. L + n
    BY <2>1, LenProperties
  <2> QED
    BY <1>13, <2>1, <2>2, <2>3
<1> HIDE DEF L
<1>8. \A i \in 1 .. L : heard'[i] = heard[i]
  BY <1>1, <1>7
<1>9. ASSUME NEW i \in 1 .. L + n, ~(i <= L)
      PROVE  /\ base + (i - L) - 1 \in base .. base + n - 1
             /\ base + (i - L) - 1 \in 0 .. len - 1
             /\ heard'[i] = buf[base + (i - L) - 1]
  <2>1. i - L \in 1 .. n
    BY <1>1, <1>7, <1>9
  <2>2. heard'[i] = o[i - L] /\ o[i - L] = buf[base + (i - L) - 1]
    BY <1>3, <1>7, <1>9, <2>1
  <2> QED
    BY <1>1, <1>4, <2>1, <2>2
<1>10. ASSUME NEW i \in 1 .. L + n
       PROVE  heard'[i].take = take /\ \A j \in 1 .. i - 1 : heard'[j].at < heard'[i].at
  <2>1. CASE i <= L
    <3>1. i \in 1 .. L /\ \A j \in 1 .. i - 1 : j \in 1 .. L
      BY <1>7, <2>1
    <3> QED
      BY <1>2, <1>7, <1>8, <3>1 DEF PlaysLastRecording
  <2>2. CASE ~(i <= L)
    <3> DEFINE m == base + (i - L) - 1
    <3>1. m \in base .. base + n - 1 /\ m \in 0 .. len - 1 /\ heard'[i] = buf[m]
      BY <1>9, <2>2
    <3> HIDE DEF m
    <3>2. buf[m].take = take /\ \A p \in 0 .. m - 1 : buf[p].at < buf[m].at
      BY <1>2, <3>1 DEF InOrder
    <3>3. ASSUME NEW j \in 1 .. i - 1
          PROVE  heard'[j].at < heard'[i].at
      <4>1. CASE j <= L
        <5>1. j \in 1 .. L /\ m \in base .. len - 1
          BY <1>1, <1>7, <3>1, <4>1
        <5> QED
          BY <1>2, <1>7, <1>8, <3>1, <5>1
      <4>2. CASE ~(j <= L)
        <5>1. j \in 1 .. L + n
          BY <1>1, <1>7
        <5>2. base + (j - L) - 1 \in 0 .. m - 1
          BY <1>1, <1>7, <3>1, <4>2, <5>1 DEF m
        <5> QED
          BY <1>9, <3>1, <3>2, <4>2, <5>1, <5>2
      <4> QED
        BY <4>1, <4>2
    <3> QED
      BY <3>1, <3>2, <3>3
  <2> QED
    BY <2>1, <2>2
<1>11. PlaysLastRecording'
  BY <1>7, <1>10 DEF PlaysLastRecording
<1>12. ASSUME NEW i \in 1 .. L + n, NEW k \in base + n .. len - 1
       PROVE  heard'[i].at < buf[k].at
  <2>1. k \in base .. len - 1 /\ k \in 0 .. len - 1 /\ k >= base + n
    BY <1>1
  <2>2. CASE i <= L
    BY <1>2, <1>7, <1>8, <2>1, <2>2
  <2>3. CASE ~(i <= L)
    <3>1. base + (i - L) - 1 \in 0 .. k - 1
      BY <1>1, <1>9, <2>1, <2>3
    <3> QED
      BY <1>2, <1>9, <2>1, <2>3, <3>1 DEF InOrder
  <2> QED
    BY <2>2, <2>3
<1> QED
  BY <1>7, <1>11, <1>12 DEF base, L

(* The speaker takes n samples of what it is offered, or none, or fails.   *)
LEMMA SendKeeps ==
  ASSUME LoopbackInv, NEW n \in 0 .. want - sent, Send(n) \/ SendFails(n)
  PROVE  LoopbackInv'
<1> USE DEF LoopbackInv, RecordInv, PlayInv, At, playVars
<1>1. /\ pc = "send" /\ pc' \in {"sent", "play"} /\ heard' = heard \o Offered(n)
      /\ UNCHANGED <<micVars, owner, pos, buf, len, logged, take, want, sent>>
  BY DEF Send, SendFails
<1>2. /\ heard' \in Seq(Sample) /\ Len(heard') = Len(heard) + n
      /\ PlaysLastRecording'
      /\ \A i \in DOMAIN heard', k \in offset + sent + n .. len - 1 : heard'[i].at < buf[k].at
  BY <1>1, HeardMore
<1>3. /\ offset \in Nat /\ refused \in Nat /\ len \in Nat /\ Len(heard) \in Nat
      /\ len <= RecordSamples /\ want \in Nat /\ sent \in Nat /\ n \in Nat
      /\ heard \in Seq(Sample) /\ sent + n <= want
  BY Constants, LenProperties DEF TypeOK, Sample
<1>4. /\ offset + want <= len /\ want <= Chunk /\ sent < want /\ ~failed
      /\ InOrder(len) /\ InOrder(len)'
      /\ Len(heard) + refused * Chunk >= offset + sent
  BY <1>1 DEF ChunkInRecording, PlaysInOrder, InOrder, Playing, RefusedAccounts, Reached
<1>5. OneFetched' /\ RecordsInOrder' /\ MoreToCome' /\ AllAccounted' /\ CountCovers'
  BY <1>1, PlaybackKeepsRecord DEF Recording
<1>6. PhaseOfStep'
  BY <1>1 DEF micVars, PhaseOfStep, Recording, Playing
<1>7. CASE Send(n)
  <2>1. /\ pc' = "sent" /\ took' = n /\ offset' = offset /\ ~failed'
        /\ refused' = IF n = 0 THEN SmallerOf(refused + 1, RecordSamples) ELSE refused
    BY <1>4, <1>7 DEF Send
  <2>2. refused' \in Nat
    BY <1>3, <2>1, Constants DEF SmallerOf
  <2>3. TypeOK'
    <3>1. took' \in Nat /\ offset' \in Nat /\ failed' \in BOOLEAN /\ pc' = "sent"
      BY <1>3, <1>7, <2>1 DEF Send, TypeOK
    <3> QED
      BY <1>1, <1>2, <2>2, <3>1 DEF TypeOK, micVars, Checked, Sample
  <2>4. ChunkInRecording'
    BY <1>1, <1>3, <1>4, <2>1 DEF ChunkInRecording
  <2>5. Reached' = offset + sent + n
    BY <1>1, <2>1 DEF Reached
  <2>6. PlaysInOrder'
    BY <1>1, <1>2, <1>4, <2>1, <2>5 DEF PlaysInOrder, Playing
  <2>7. RefusedAccounts'
    <3>1. CASE n = 0
      <4>1. CASE refused + 1 < RecordSamples
        <5>1. refused' * Chunk = refused * Chunk + Chunk /\ refused * Chunk \in Nat
          BY <1>3, <2>1, <3>1, <4>1, Constants DEF SmallerOf
        <5>2. Len(heard') + refused' * Chunk >= offset + want
          <6> DEFINE r == refused * Chunk
          <6>1. r \in Nat /\ Len(heard) + r >= offset + sent
            BY <1>4, <5>1
          <6>2. refused' * Chunk = r + Chunk
            BY <5>1
          <6> HIDE DEF r
          <6>3. Len(heard') = Len(heard) /\ Len(heard) \in Nat
            BY <1>2, <1>3, <3>1
          <6>4. Len(heard) + (r + Chunk) >= offset + want
            BY <1>3, <1>4, <6>1, <6>3, Constants
          <6> QED
            BY <6>2, <6>3, <6>4
        <5> QED
          BY <1>1, <2>1, <3>1, <5>2 DEF RefusedAccounts
      <4>2. CASE ~(refused + 1 < RecordSamples)
        <5>1. refused' = RecordSamples
          BY <2>1, <3>1, <4>2 DEF SmallerOf
        <5>2. RecordSamples * Chunk >= RecordSamples /\ RecordSamples * Chunk \in Nat
          BY Constants
        <5>3. Len(heard') + RecordSamples * Chunk >= offset + want
          <6>1. Len(heard') \in Nat /\ offset + want <= RecordSamples
            BY <1>2, <1>3, <1>4, Constants
          <6> QED
            BY <1>3, <5>2, <6>1, Constants
        <5> QED
          BY <1>1, <2>1, <3>1, <5>1, <5>3 DEF RefusedAccounts
      <4> QED
        BY <4>1, <4>2
    <3>2. CASE n # 0
      <4>1. refused' = refused /\ refused * Chunk \in Nat
        BY <1>3, <2>1, <3>2, Constants
      <4>2. Len(heard') + refused' * Chunk >= offset + sent + n
        BY <1>2, <1>3, <1>4, <4>1
      <4> QED
        BY <2>1, <2>5, <3>2, <4>2 DEF RefusedAccounts
    <3> QED
      BY <3>1, <3>2
  <2> QED
    BY <1>5, <1>6, <2>3, <2>4, <2>6, <2>7
<1>8. CASE SendFails(n)
  <2>1. /\ pc' = "play" /\ offset' = len + want /\ failed' = TRUE
        /\ UNCHANGED <<took, refused>>
    BY <1>8 DEF SendFails
  <2>2. TypeOK'
    BY <1>1, <1>2, <1>3, <2>1 DEF TypeOK, micVars, Checked, Sample
  <2>3. ChunkInRecording' /\ RefusedAccounts'
    BY <1>1, <1>3, <2>1 DEF ChunkInRecording, RefusedAccounts, Playing
  <2>4. PlaysInOrder'
    <3>1. Reached' = len + want
      BY <2>1 DEF Reached
    <3>2. \A k \in Reached' .. len - 1 : FALSE
      BY <1>3, <3>1
    <3> QED
      BY <1>1, <1>2, <1>4, <2>1, <3>2 DEF PlaysInOrder, Playing
  <2> QED
    BY <1>5, <1>6, <2>2, <2>3, <2>4
<1> QED
  BY <1>7, <1>8

(* A chunk goes on, or is left. *)
LEMMA AfterSendKeeps ==
  ASSUME LoopbackInv, AfterSend
  PROVE  LoopbackInv'
<1> USE DEF LoopbackInv, RecordInv, PlayInv
<1>1. /\ pc = "sent" /\ sent' = sent + took
      /\ UNCHANGED <<micVars, owner, pos, buf, len, logged, take, want, took>>
      /\ UNCHANGED <<heard, refused, failed>>
      /\ \/ GivesUp /\ offset' = offset + want /\ pc' = "play"
         \/ ~GivesUp /\ offset' = offset /\ pc' = "send"
  BY DEF AfterSend, Advance
<1>2. /\ offset \in Nat /\ refused \in Nat /\ len \in Nat /\ Len(heard) \in Nat
      /\ want \in Nat /\ sent \in Nat /\ took \in Nat /\ heard \in Seq(Sample)
  BY Constants, LenProperties DEF TypeOK, Sample
<1>3. /\ offset + want <= len /\ want <= Chunk /\ sent < want /\ ~failed
      /\ sent + took <= want /\ Reached = offset + sent + took
  BY <1>1 DEF ChunkInRecording, Reached
<1>4. OneFetched' /\ RecordsInOrder' /\ MoreToCome' /\ AllAccounted' /\ CountCovers'
  BY <1>1, PlaybackKeepsRecord DEF Recording
<1>5. TypeOK'
  BY <1>1, <1>2 DEF TypeOK, micVars, Checked
<1>6. PhaseOfStep'
  BY <1>1 DEF micVars, PhaseOfStep, Recording, Playing
<1>7. ChunkInRecording'
  BY <1>1, <1>2, <1>3 DEF ChunkInRecording, GivesUp
<1>8. Reached' \in Int /\ Reached' >= Reached
  BY <1>1, <1>2, <1>3 DEF Reached
<1>9. PlaysInOrder'
  <2>1. \A k \in Reached' .. len - 1 : k \in Reached .. len - 1
    BY <1>2, <1>3, <1>8
  <2> QED
    BY <1>1, <2>1 DEF PlaysInOrder, InOrder, Playing, PlaysLastRecording
<1>10. RefusedAccounts'
  <2>1. Len(heard) + refused * Chunk >= IF took = 0 THEN offset + want ELSE Reached
    BY <1>1, <1>3 DEF RefusedAccounts
  <2>2. Reached' = IF pc' = "play" THEN offset + want ELSE offset + sent + took
    BY <1>1, <1>2 DEF Reached
  <2>3. Len(heard) + refused * Chunk >= Reached'
    BY <1>1, <1>2, <1>3, <2>1, <2>2 DEF GivesUp
  <2> QED
    BY <1>1, <2>3 DEF RefusedAccounts
<1> QED
  BY <1>4, <1>5, <1>6, <1>7, <1>9, <1>10

(* The playback is over. *)
LEMMA DeinitSpkKeeps ==
  ASSUME LoopbackInv, DeinitSpk
  PROVE  LoopbackInv'
<1> USE DEF LoopbackInv, RecordInv, PlayInv, At, DeinitSpk
<1>1. /\ pc = "deinit_spk" /\ pc' = "init_mic" /\ pc' \notin Recording
      /\ UNCHANGED <<micVars, pos, buf, len, logged>>
      /\ take' \in 0 .. 1
  BY DEF Recording, TypeOK
<1>2. OneFetched' /\ RecordsInOrder' /\ MoreToCome' /\ AllAccounted' /\ CountCovers'
  BY <1>1, PlaybackKeepsRecord
<1>3. TypeOK'
  <2>1. heard' \in Seq([take : 0 .. 2, at : Nat])
    BY NothingHeard DEF Sample
  <2>2. {live, failed'} \subseteq BOOLEAN
    BY DEF TypeOK
  <2> QED
    BY <1>1, <2>1, <2>2 DEF TypeOK, micVars, Checked
<1>4. PhaseOfStep' /\ ChunkInRecording' /\ PlaysInOrder' /\ RefusedAccounts'
  BY <1>1 DEF micVars, PhaseOfStep, Recording, Playing, ChunkInRecording, PlaysInOrder,
              RefusedAccounts
<1> QED
  BY <1>2, <1>3, <1>4

-----------------------------------------------------------------------------
(* The theorems *)

LEMMA InitLoopback == Init => LoopbackInv
<1> SUFFICES ASSUME Init
             PROVE  LoopbackInv
  OBVIOUS
<1> USE DEF Init, Mic!Init
<1>1. TypeOK
  <2>1. buf \in [0 .. RecordSamples - 1 -> [take : 0 .. 2, at : Nat]]
    BY DEF NoSample
  <2> QED
    <3>1. heard \in Seq([take : 0 .. 2, at : Nat])
      BY NothingHeard DEF Sample
    <3>2. {live, failed} \subseteq BOOLEAN
      OBVIOUS
    <3>3. {next, waiting, lost, logged, offset, want, sent, took, refused} \subseteq Nat
      OBVIOUS
    <3>4. pc \in Checked \cup {"done"} /\ take \in 0 .. 1
      BY DEF Checked
    <3>5. got \in [{"app"} -> BOOLEAN]
      OBVIOUS
    <3> QED
      BY <2>1, <3>1, <3>2, <3>3, <3>4, <3>5, Constants DEF TypeOK
<1>2. RecordInv
  BY <1>1 DEF RecordInv, PhaseOfStep, OneFetched, RecordsInOrder, MoreToCome, AllAccounted,
              CountCovers, Recording, Playing
<1>3. PlayInv
  BY DEF PlayInv, ChunkInRecording, PlaysInOrder, RefusedAccounts, Playing
<1> QED
  BY <1>2, <1>3 DEF LoopbackInv

(* A call that fails restarts the program. *)
LEMMA AbortRestarts == Abort => Init'
BY DEF Abort, Init, Mic!Init

LEMMA NextKeepsLoopback == LoopbackInv /\ [Next]_vars => LoopbackInv'
<1> SUFFICES ASSUME LoopbackInv, [Next]_vars
             PROVE  LoopbackInv'
  OBVIOUS
<1>1. CASE Abort
  <2>1. Init' => LoopbackInv'
    BY InitLoopback, PTL
  <2> QED
    BY <1>1, <2>1, AbortRestarts
<1>2. CASE UNCHANGED vars
  <2>1. UNCHANGED <<live, next, waiting, lost, pending, held, got, owner, pc, pos, buf, len,
                    logged, take, offset, want, sent, took, heard, refused, failed>>
    BY <1>2 DEF vars, micVars, playVars
  <2>2. Oldest' = Oldest /\ Fetched' = Fetched /\ Reached' = Reached
    BY <2>1 DEF Oldest, Fetched, Reached
  <2>3. RecordInv'
    BY <2>1, <2>2 DEF LoopbackInv, RecordInv, TypeOK, PhaseOfStep, OneFetched, RecordsInOrder,
       InOrder, MoreToCome, AllAccounted, CountCovers
  <2>4. PlayInv'
    BY <2>1, <2>2 DEF LoopbackInv, PlayInv, ChunkInRecording, PlaysInOrder, InOrder,
       PlaysLastRecording, RefusedAccounts
  <2> QED
    BY <2>3, <2>4 DEF LoopbackInv
<1>3. CASE Next
  BY <1>1, <1>3, SetUpKeeps, RecordKeeps, ReadOKKeeps, DeinitMicKeeps, AudioKeeps, TurnKeeps,
     SendKeeps, AfterSendKeeps, DeinitSpkKeeps DEF Next, Task, Record, Playback
<1> QED
  BY <1>2, <1>3

LEMMA AlwaysLoopback == Spec => []LoopbackInv
BY InitLoopback, NextKeepsLoopback, PTL DEF Spec

(* Every variable keeps its type; the recording is written nowhere but     *)
(* between its first and its last sample.                                  *)
THEOREM LoopbackTypes == Spec => []TypeOK
BY AlwaysLoopback, PTL DEF LoopbackInv, RecordInv

(* The controller is free whenever one of the components is initialised.   *)
THEOREM AlwaysControllerFree == Spec => []ControllerFree
<1>1. LoopbackInv => ControllerFree
  BY DEF LoopbackInv, RecordInv, PhaseOfStep, ControllerFree, Recording, Playing
<1> QED
  BY <1>1, AlwaysLoopback, PTL

(* What is heard is the last recording, in order, without a repetition and *)
(* without anything else, and all of it but for the chunks the speaker     *)
(* refused, whatever the speaker takes at a time.                          *)
THEOREM AlwaysPlaysRecording == Spec => []PlaysRecording
<1>1. ASSUME LoopbackInv
      PROVE  PlaysLastRecording
  <2>1. CASE pc \in Playing
    BY <1>1, <2>1 DEF LoopbackInv, PlayInv, PlaysInOrder
  <2>2. CASE pc \notin Playing
    <3>1. heard = << >>
      BY <1>1, <2>2 DEF LoopbackInv, PlayInv, PlaysInOrder
    <3> QED
      BY <3>1 DEF PlaysLastRecording
  <2> QED
    BY <2>1, <2>2
<1>2. LoopbackInv => RefusalCostsOneChunk
  BY DEF LoopbackInv, PlayInv, RefusedAccounts, Reached, RefusalCostsOneChunk
<1>3. LoopbackInv => PlaysRecording
  BY <1>1, <1>2 DEF PlaysRecording
<1> QED
  BY <1>3, AlwaysLoopback, PTL

(* The log never counts fewer buffers than are missing in the recording,   *)
(* so that a recording that is logged without a loss has no gap.           *)
THEOREM AlwaysLoggedCoversGaps == Spec => []LoggedCoversGaps
<1>1. LoopbackInv => LoggedCoversGaps
  BY DEF LoopbackInv, RecordInv, CountCovers, LoggedCoversGaps, Recording
<1> QED
  BY <1>1, AlwaysLoopback, PTL
=============================================================================

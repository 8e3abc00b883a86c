-------------------------- MODULE LiveRelayProofs --------------------------
(***************************************************************************)
(* The live loopback loses nothing that neither of its two counts counts,  *)
(* and a quiet log means so, for all sizes of buffer and ring and however  *)
(* the relay, the interrupt and the status task interleave.                *)
(***************************************************************************)
EXTENDS LiveRelay, Integers, TLAPS

SetupSteps == {"init_mic", "reset_mic", "start_mic", "start_spk", "done"}

TypeOK ==
  /\ next \in Nat /\ waiting \in Nat /\ lost \in Nat /\ held \in SUBSET Nat
  /\ live \in BOOLEAN /\ pending \in SUBSET {"relay"} /\ got \in [{"relay"} -> BOOLEAN]
  /\ setup \in SetupSteps
  /\ pc \in {"none", "read", "reading", "send", "sent"}
  /\ out \in Nat /\ sent \in Nat /\ took \in Nat /\ failed \in BOOLEAN /\ short \in Nat
  /\ status \in {"none", "sleep", "lost", "compare"}
  /\ lastLost \in Nat /\ lastShort \in Nat /\ nowLost \in Nat /\ nowShort \in Nat
  /\ heard \in Nat /\ gap \in BOOLEAN /\ gapRead \in BOOLEAN /\ logged \in BOOLEAN

(* The tasks run once everything is set up, the relay reads one capture at *)
(* a time, and has frames to send only between a read and the next.        *)
TasksOfStep ==
  /\ setup # "done" =>
       pc = "none" /\ status = "none" /\ ~gap /\ ~gapRead /\ ~logged /\ short = 0
  /\ setup = "done" => pc # "none" /\ status # "none"
  /\ pending = IF pc = "reading" THEN {"relay"} ELSE {}
  /\ held # {} => pc = "reading"
  /\ \A c, d \in held : c = d
  /\ waiting <= next /\ next <= MaxCaptures
  /\ pc \notin {"send", "sent"} => sent = 0
  /\ pc # "sent" => took = 0
  /\ pc \in {"send", "sent"} => sent + took <= Frames

(* The oldest capture that waits, or the next one, and its first frame. *)
Oldest == next - waiting
Front  == Frames * Oldest

(* What the relay has in hand is older than what waits, by no more than    *)
(* what was counted as lost meanwhile.                                     *)
InHand ==
  /\ \A c \in held : c < Oldest /\ Oldest <= c + 1 + lost
  /\ pc \in {"send", "sent"} =>
       /\ out + Frames <= Front
       /\ Front <= out + Frames + Frames * lost

(* The speaker has got nothing that is still to be sent. *)
NothingAhead ==
  /\ pc \in {"read", "reading"} =>
       heard <= Front /\ \A c \in held : heard <= Frames * c
  /\ pc \in {"send", "sent"} =>
       IF took > 0 THEN heard = out + sent + took ELSE heard <= out + sent

(* OnlyCountedLoss, by sums: what is before Front was heard, is in the     *)
(* relay's hands, or was counted.                                          *)
FetchedFrames == IF held = {} THEN 0 ELSE Frames
LossIsCounted ==
  setup = "done" =>
    IF pc \in {"send", "sent"}
    THEN Front + sent + took <= heard + Frames + Frames * (lost + short)
    ELSE Front <= heard + FetchedFrames + Frames * (lost + short)

(* The first loss, of either kind, is counted before the speaker can tell. *)
GapIsCounted == gap => lost > 0 \/ short > 0

(* The status task has a count that differs from the one it last logged,   *)
(* or will have when it reads the second, if there was a gap when it read  *)
(* the first.                                                              *)
GapIsSeen ==
  /\ ~logged => lastLost = 0 /\ lastShort = 0
  /\ status = "lost" /\ gapRead => nowLost > 0 \/ short > 0
  /\ status = "compare" /\ gapRead => nowLost > 0 \/ nowShort > 0
  /\ status \in {"none", "sleep"} /\ ~logged => ~gapRead

RelayInv ==
  /\ TypeOK /\ TasksOfStep /\ InHand /\ NothingAhead /\ LossIsCounted
  /\ GapIsCounted /\ GapIsSeen

-----------------------------------------------------------------------------
LEMMA Constants == Frames \in Nat /\ Frames > 0 /\ MaxCaptures \in Nat /\ MaxCaptures > 0
BY RelayAssumption

LEMMA Multiples ==
  /\ Frames * 0 = 0
  /\ \A a \in Int : Frames * a \in Int /\ Frames * (a + 1) = Frames * a + Frames
  /\ \A a \in Nat : Frames * a \in Nat
  /\ \A a, b \in Int : a <= b => Frames * a <= Frames * b
BY Constants

LEMMA ChosenOne ==
  ASSUME NEW S, S # {}
  PROVE  (CHOOSE x \in S : TRUE) \in S
OBVIOUS

LEMMA FrontType ==
  ASSUME RelayInv
  PROVE  Oldest \in Nat /\ Front \in Nat /\ Oldest <= MaxCaptures
<1>1. Oldest \in Nat /\ Oldest <= MaxCaptures
  BY Constants DEF RelayInv, TypeOK, TasksOfStep, Oldest
<1> QED
  BY <1>1, Multiples DEF Front

(* Where the frames are does not change with the rest of the state. *)
LEMMA SameFrames ==
  ASSUME RelayInv, UNCHANGED <<next, waiting, lost, held, pc, out, sent, took, heard, short, gap>>,
         setup' = setup
  PROVE  InHand' /\ NothingAhead' /\ LossIsCounted' /\ GapIsCounted'
<1>1. Oldest' = Oldest /\ Front' = Front /\ FetchedFrames' = FetchedFrames
  BY DEF Oldest, Front, FetchedFrames
<1> QED
  BY <1>1 DEF RelayInv, InHand, NothingAhead, LossIsCounted, GapIsCounted

-----------------------------------------------------------------------------
(* app_main() *)

LEMMA SetupKeeps ==
  ASSUME RelayInv, InitBoth \/ ResetMic \/ StartMic \/ Abort
  PROVE  RelayInv'
<1> USE DEF RelayInv, SetUp, relayVars, statusVars
<1>1. /\ setup # "done" /\ setup' \in SetupSteps \ {"done"} /\ pc = "none" /\ held = {} /\ held' = {}
      /\ pending' = pending /\ got' = got
      /\ UNCHANGED <<relayVars, statusVars>>
      /\ next' \in {next, 0} /\ waiting' \in {waiting, 0} /\ lost' \in {lost, 0}
      /\ live' \in BOOLEAN
      /\ next' = 0 => waiting' = 0
  <2>1. /\ setup # "done" /\ setup' \in SetupSteps \ {"done"} /\ UNCHANGED <<relayVars, statusVars>>
    BY DEF InitBoth, ResetMic, StartMic, Abort, SetupSteps
  <2>2. pc = "none" /\ held = {}
    BY <2>1 DEF TasksOfStep
  <2>3. next = 0 => waiting = 0
    BY DEF TasksOfStep, TypeOK
  <2>4. live \in BOOLEAN
    BY DEF TypeOK
  <2> QED
    BY <2>1, <2>2, <2>3, <2>4 DEF InitBoth, ResetMic, StartMic, Abort, Mic!NewChannel,
       Mic!ResetCount, Mic!Start
<1>2. TypeOK'
  BY <1>1 DEF TypeOK
<1>3. TasksOfStep'
  BY <1>1, Constants DEF TasksOfStep, TypeOK
<1>4. InHand' /\ NothingAhead' /\ LossIsCounted' /\ GapIsCounted' /\ GapIsSeen'
  BY <1>1 DEF TasksOfStep, InHand, NothingAhead, LossIsCounted, GapIsCounted, GapIsSeen
<1> QED
  BY <1>2, <1>3, <1>4

LEMMA StartTasksKeeps ==
  ASSUME RelayInv, StartTasks
  PROVE  RelayInv'
<1> USE DEF RelayInv, StartTasks, micVars
<1>1. Front' = Front /\ heard' = Front /\ Front \in Nat /\ pc = "none" /\ held = {}
  BY FrontType DEF Front, Oldest, TasksOfStep
<1>2. TypeOK' /\ TasksOfStep' /\ InHand' /\ NothingAhead' /\ GapIsCounted' /\ GapIsSeen'
  BY <1>1 DEF TypeOK, SetupSteps, TasksOfStep, InHand, NothingAhead, GapIsCounted, GapIsSeen
<1>3. LossIsCounted'
  <2>1. Frames * (lost + short) \in Nat
    BY Multiples DEF TypeOK
  <2> QED
    BY <1>1, <2>1 DEF LossIsCounted, FetchedFrames
<1> QED
  BY <1>2, <1>3

-----------------------------------------------------------------------------
(* audio_relay_task() *)

LEMMA BeginReadKeeps ==
  ASSUME RelayInv, BeginRead
  PROVE  RelayInv'
<1> USE DEF RelayInv, BeginRead, Mic!BeginRead, statusVars
<1>1. Front' = Front /\ Oldest' = Oldest /\ FetchedFrames' = FetchedFrames /\ held' = held
  BY DEF Front, Oldest, FetchedFrames
<1>2. TypeOK' /\ TasksOfStep'
  BY DEF TypeOK, TasksOfStep
<1>3. InHand' /\ NothingAhead' /\ LossIsCounted' /\ GapIsCounted' /\ GapIsSeen'
  BY <1>1 DEF InHand, NothingAhead, LossIsCounted, GapIsCounted, GapIsSeen
<1> QED
  BY <1>2, <1>3

LEMMA FetchKeeps ==
  ASSUME RelayInv, Fetch
  PROVE  RelayInv'
<1> USE DEF RelayInv
<1>1. /\ held = {} /\ held' = {Oldest} /\ Oldest' = Oldest + 1 /\ pc = "reading"
      /\ waiting' = waiting - 1 /\ waiting' \in Nat /\ waiting' <= next /\ lost \in Nat
      /\ UNCHANGED <<live, next, lost, pending, got, setup, relayVars, statusVars>>
  BY DEF Fetch, Mic!Fetch, Oldest, TasksOfStep, TypeOK
<1>2. /\ Oldest \in Nat /\ Front \in Nat /\ Front' = Front + Frames /\ Front = Frames * Oldest
  BY <1>1, FrontType, Multiples DEF Front
<1>3. TypeOK'
  BY <1>1, <1>2 DEF TypeOK, relayVars, statusVars
<1>4. TasksOfStep'
  BY <1>1 DEF TasksOfStep, relayVars, statusVars
<1>5. InHand' /\ NothingAhead' /\ GapIsCounted' /\ GapIsSeen'
  <2>1. heard \in Nat /\ heard <= Front /\ heard' = heard
    BY <1>1 DEF NothingAhead, TypeOK, relayVars
  <2> QED
    BY <1>1, <1>2, <2>1, Constants
       DEF InHand, NothingAhead, GapIsCounted, GapIsSeen, relayVars, statusVars
<1>6. LossIsCounted'
  <2>1. FetchedFrames = 0 /\ FetchedFrames' = Frames
    BY <1>1 DEF FetchedFrames
  <2>2. heard \in Nat /\ Frames * (lost + short) \in Nat
    BY Multiples DEF TypeOK
  <2> QED
    BY <1>1, <1>2, <2>1, <2>2, Constants DEF LossIsCounted, relayVars
<1> QED
  BY <1>3, <1>4, <1>5, <1>6

LEMMA EndReadKeeps ==
  ASSUME RelayInv, EndRead
  PROVE  RelayInv'
<1> USE DEF RelayInv
<1> DEFINE c == CHOOSE d \in held : TRUE
<1>1. c \in held
  BY ChosenOne DEF EndRead
<1>2. /\ pc = "reading" /\ pc' = "send" /\ held # {} /\ held' = {} /\ pending' = {}
      /\ out' = Frames * c /\ sent' = 0 /\ got' = [got EXCEPT !["relay"] = held # {}]
      /\ UNCHANGED <<live, next, waiting, lost, setup, took, failed, short, heard, gap, statusVars>>
  BY DEF EndRead, Mic!EndRead
<1> HIDE DEF c
<1>3. /\ c \in Nat /\ lost \in Nat /\ heard \in Nat /\ short \in Nat /\ took = 0
  BY <1>1, <1>2 DEF TypeOK, TasksOfStep
<1>4. /\ Front' = Front /\ Oldest' = Oldest /\ Oldest \in Nat /\ Front \in Nat
      /\ FetchedFrames = Frames
  BY <1>2, FrontType DEF Front, Oldest, FetchedFrames
<1>5. /\ Frames * c \in Nat /\ Frames * lost \in Nat
      /\ Frames * c + Frames <= Front /\ Front <= Frames * c + Frames + Frames * lost
      /\ heard <= Frames * c
  <2>1. c + 1 <= Oldest /\ Oldest <= c + 1 + lost /\ heard <= Frames * c
    BY <1>1, <1>2, <1>3, <1>4 DEF InHand, NothingAhead
  <2>2. Frames * (c + 1) <= Front /\ Frames * (c + 1) = Frames * c + Frames
    BY <1>3, <1>4, <2>1, Multiples DEF Front
  <2>3. Frames * (c + 1 + lost) = Frames * c + Frames + Frames * lost
    BY <1>3, Constants
  <2>4. Front <= Frames * (c + 1 + lost)
    BY <1>3, <1>4, <2>1, Multiples DEF Front
  <2> QED
    BY <1>3, <2>1, <2>2, <2>3, <2>4, Multiples
<1>6. TypeOK'
  BY <1>2, <1>5 DEF TypeOK, statusVars
<1>7. TasksOfStep'
  BY <1>2, <1>3, Constants DEF TasksOfStep, statusVars
<1>8. InHand' /\ NothingAhead'
  BY <1>2, <1>3, <1>4, <1>5 DEF InHand, NothingAhead
<1>9. LossIsCounted'
  <2>1. Frames * (lost + short) \in Nat
    BY <1>3, Multiples
  <2> QED
    BY <1>2, <1>3, <1>4, <2>1 DEF LossIsCounted
<1>10. GapIsCounted' /\ GapIsSeen'
  BY <1>2 DEF GapIsCounted, GapIsSeen, statusVars
<1> QED
  BY <1>6, <1>7, <1>8, <1>9, <1>10

(* What the speaker takes follows what it has, or the gap is counted.      *)
LEMMA SendKeeps ==
  ASSUME RelayInv, NEW n \in 0 .. Rest, NEW e \in BOOLEAN, Send(n, e)
  PROVE  RelayInv'
<1> USE DEF RelayInv
<1>1. /\ pc = "send" /\ pc' = "sent" /\ took' = n /\ failed' = e /\ took = 0
      /\ heard' = IF n > 0 THEN out + sent + n ELSE heard
      /\ gap' = (gap \/ (n > 0 /\ out + sent # heard))
      /\ UNCHANGED <<micVars, setup, out, sent, short, statusVars>>
      /\ setup = "done" /\ held = {}
  BY DEF Send, Offered, TasksOfStep
<1>2. /\ out \in Nat /\ sent \in Nat /\ heard \in Nat /\ lost \in Nat /\ short \in Nat
      /\ Front \in Nat /\ Front' = Front /\ Oldest' = Oldest
      /\ sent <= Frames /\ n \in Nat /\ sent + n <= Frames
  BY <1>1, FrontType, Constants DEF TypeOK, TasksOfStep, Front, Oldest, micVars, Rest
<1>3. /\ out + Frames <= Front /\ Front <= out + Frames + Frames * lost
      /\ heard <= out + sent
      /\ Front + sent <= heard + Frames + Frames * (lost + short)
  BY <1>1, <1>2 DEF InHand, NothingAhead, LossIsCounted
<1>4. Frames * lost \in Nat /\ Frames * (lost + short) \in Nat /\ Frames * lost <= Frames * (lost + short)
  <2>1. lost + short \in Nat /\ lost \in Int /\ lost + short \in Int /\ lost <= lost + short
    BY <1>2
  <2> QED
    BY <1>2, <2>1, Multiples
<1>5. heard' \in Nat /\ gap' \in BOOLEAN
  BY <1>1, <1>2 DEF TypeOK
<1>6. TypeOK'
  BY <1>1, <1>2, <1>5 DEF TypeOK, micVars, statusVars
<1>7. TasksOfStep'
  BY <1>1, <1>2 DEF TasksOfStep, micVars, statusVars
<1>8. InHand' /\ NothingAhead'
  BY <1>1, <1>2, <1>3 DEF InHand, NothingAhead, micVars
<1>9. LossIsCounted'
  <2>1. CASE n > 0
    BY <1>1, <1>2, <1>3, <1>4, <2>1, Constants DEF LossIsCounted, micVars
  <2>2. CASE n = 0
    BY <1>1, <1>2, <1>3, <2>2 DEF LossIsCounted, micVars
  <2> QED
    BY <1>2, <2>1, <2>2
<1>10. GapIsCounted'
  <2>1. lost = 0 /\ short = 0 => heard = out + sent
    <3> SUFFICES ASSUME lost = 0, short = 0
                 PROVE  heard = out + sent
      OBVIOUS
    <3>1. Frames * (lost + short) = 0
      BY Multiples
    <3> QED
      BY <1>2, <1>3, <3>1, Constants
  <2>2. lost' = lost /\ short' = short
    BY <1>1 DEF micVars
  <2>3. gap' => gap \/ out + sent # heard
    BY <1>1, Zenon
  <2>4. gap => lost > 0 \/ short > 0
    BY DEF GapIsCounted
  <2>5. out + sent # heard => lost > 0 \/ short > 0
    BY <1>2, <2>1
  <2>6. gap' => lost > 0 \/ short > 0
    BY <2>3, <2>4, <2>5, Zenon
  <2> QED
    BY <2>2, <2>6 DEF GapIsCounted
<1>11. GapIsSeen'
  BY <1>1 DEF GapIsSeen, statusVars
<1> QED
  BY <1>6, <1>7, <1>8, <1>9, <1>10, <1>11

(* What is left of a buffer is counted as one short write. *)
LEMMA AfterSendKeeps ==
  ASSUME RelayInv, AfterSend
  PROVE  RelayInv'
<1> USE DEF RelayInv
<1>1. /\ pc = "sent" /\ took' = 0 /\ failed' = FALSE
      /\ short' = IF took < Frames - sent /\ short < MaxShort THEN short + 1 ELSE short
      /\ \/ /\ LeavesBuffer /\ pc' = "read" /\ out' = 0 /\ sent' = 0
         \/ /\ took > 0 /\ pc' = "send" /\ out' = out /\ sent' = sent + took
      /\ UNCHANGED <<micVars, setup, heard, gap, statusVars>>
      /\ setup = "done" /\ held = {}
  <2>1. took \in Nat
    BY DEF TypeOK
  <2> QED
    BY <2>1 DEF AfterSend, IsShort, Rest, LeavesBuffer, TasksOfStep
<1>2. /\ out \in Nat /\ sent \in Nat /\ took \in Nat /\ heard \in Nat /\ lost \in Nat
      /\ short \in Nat /\ Front \in Nat /\ Front' = Front /\ Oldest' = Oldest
      /\ sent + took <= Frames /\ Oldest \in Nat /\ Oldest <= MaxCaptures
  BY <1>1, FrontType, Constants DEF TypeOK, TasksOfStep, Front, Oldest, micVars
<1>3. /\ out + Frames <= Front /\ Front <= out + Frames + Frames * lost
      /\ IF took > 0 THEN heard = out + sent + took ELSE heard <= out + sent
      /\ Front + sent + took <= heard + Frames + Frames * (lost + short)
  BY <1>1 DEF InHand, NothingAhead, LossIsCounted
<1>4. short' \in Nat /\ short' >= short /\ lost' = lost
  BY <1>1, <1>2 DEF micVars
<1>5. /\ Frames * (lost + short) \in Nat /\ Frames * (lost + short') \in Nat
      /\ Frames * (lost + short) <= Frames * (lost + short')
  <2> DEFINE x == short'
  <2>1. x \in Nat /\ x >= short
    BY <1>4
  <2> HIDE DEF x
  <2>2. /\ Frames * (lost + short) \in Nat /\ Frames * (lost + x) \in Nat
        /\ Frames * (lost + short) <= Frames * (lost + x)
    <3>1. lost + short \in Int /\ lost + x \in Int /\ 0 <= lost + short
          /\ lost + short <= lost + x /\ lost + short \in Nat /\ lost + x \in Nat
      BY <1>2, <2>1
    <3> QED
      BY <3>1, Multiples
  <2> QED
    BY <2>2 DEF x
<1>6. TypeOK'
  <2>1. out' \in Nat /\ sent' \in Nat /\ pc' \in {"read", "send"}
    BY <1>1, <1>2
  <2>2. took' \in Nat /\ failed' \in BOOLEAN /\ short' \in Nat
    BY <1>1, <1>4
  <2> QED
    BY <1>1, <2>1, <2>2 DEF TypeOK, micVars, statusVars
<1>7. TasksOfStep'
  BY <1>1, <1>2, Constants DEF TasksOfStep, micVars, statusVars
<1>8. GapIsCounted' /\ GapIsSeen'
  BY <1>1, <1>2, <1>4 DEF GapIsCounted, GapIsSeen, statusVars
<1>9. CASE LeavesBuffer /\ pc' = "read" /\ out' = 0 /\ sent' = 0
  <2>1. heard <= Front
    BY <1>2, <1>3, Constants
  <2>2. InHand' /\ NothingAhead'
    BY <1>1, <1>2, <1>9, <2>1 DEF InHand, NothingAhead, micVars
  <2>3. Front <= heard + Frames * (lost + short')
    <3>1. CASE took = Frames - sent
      <4>1. Front <= heard + Frames * (lost + short)
        BY <1>2, <1>3, <1>5, <3>1, Constants
      <4> QED
        BY <1>2, <1>5, <4>1
    <3>2. CASE took < Frames - sent /\ short < MaxShort
      <4>1. short' = short + 1
        BY <1>1, <3>2
      <4>2. Frames * (lost + (short + 1)) = Frames * (lost + short) + Frames
        BY <1>2, Constants
      <4>3. Front <= heard + Frames * (lost + (short + 1))
        BY <1>2, <1>3, <1>5, <4>2, Constants
      <4> QED
        BY <4>1, <4>3
    <3>3. CASE took < Frames - sent /\ ~(short < MaxShort)
      <4>1. short' = short
        BY <1>1, <3>3
      <4>2. Frames * MaxCaptures \in Nat /\ Front <= Frames * MaxCaptures
        BY <1>2, Multiples, Constants DEF Front
      <4>3. Front <= short
        BY <1>2, <3>3, <4>2 DEF MaxShort
      <4>4. short <= Frames * (lost + short)
        <5>1. Frames * (lost + short) = Frames * lost + Frames * short
          BY <1>2, Constants
        <5>2. Frames * lost \in Nat /\ Frames * short \in Nat /\ short <= Frames * short
          BY <1>2, Constants
        <5> QED
          BY <1>2, <5>1, <5>2
      <4> QED
        BY <1>2, <1>5, <4>1, <4>3, <4>4
    <3>4. took <= Frames - sent
      BY <1>2, Constants
    <3> QED
      BY <1>2, <3>1, <3>2, <3>3, <3>4, Constants
  <2>4. held' = {} /\ FetchedFrames' = 0
    BY <1>1 DEF FetchedFrames, micVars
  <2>5. LossIsCounted'
    BY <1>1, <1>2, <1>4, <1>5, <1>9, <2>3, <2>4 DEF LossIsCounted
  <2> QED
    BY <1>6, <1>7, <1>8, <2>2, <2>5
<1>10. CASE took > 0 /\ pc' = "send" /\ out' = out /\ sent' = sent + took
  <2>1. InHand' /\ NothingAhead'
    BY <1>1, <1>2, <1>3, <1>10 DEF InHand, NothingAhead, micVars
  <2>2. LossIsCounted'
    BY <1>1, <1>2, <1>3, <1>4, <1>5, <1>10, Constants DEF LossIsCounted
  <2> QED
    BY <1>6, <1>7, <1>8, <2>1, <2>2
<1> QED
  BY <1>1, <1>9, <1>10

-----------------------------------------------------------------------------
(* status_report_task(), and the microphone *)

LEMMA StatusKeeps ==
  ASSUME RelayInv, Status
  PROVE  RelayInv'
<1> USE DEF RelayInv, Status, micVars, relayVars
<1>1. UNCHANGED <<micVars, setup, relayVars>>
  BY DEF ReadLost, ReadShort, Report
<1>2. InHand' /\ NothingAhead' /\ LossIsCounted' /\ GapIsCounted'
  BY <1>1, SameFrames
<1>3. TypeOK'
  <2>1. CASE ReadLost
    BY <1>1, <2>1 DEF ReadLost, TypeOK
  <2>2. CASE ReadShort
    BY <1>1, <2>2 DEF ReadShort, TypeOK
  <2>3. CASE Report
    BY <1>1, <2>3 DEF Report, TypeOK
  <2> QED
    BY <2>1, <2>2, <2>3
<1>4. TasksOfStep'
  BY <1>1 DEF TasksOfStep, ReadLost, ReadShort, Report
<1>5. GapIsSeen'
  <2>1. CASE ReadLost
    BY <1>1, <2>1 DEF ReadLost, GapIsSeen, GapIsCounted
  <2>2. CASE ReadShort
    BY <1>1, <2>2 DEF ReadShort, GapIsSeen
  <2>3. CASE Report
    BY <1>1, <2>3 DEF Report, Changed, GapIsSeen, TypeOK
  <2> QED
    BY <2>1, <2>2, <2>3
<1> QED
  BY <1>2, <1>3, <1>4, <1>5

LEMMA CaptureKeeps ==
  ASSUME RelayInv, Capture
  PROVE  RelayInv'
<1> USE DEF RelayInv
<1>1. /\ next' = next + 1 /\ next < MaxCaptures
      /\ \/ lost' = lost + 1 /\ waiting' = waiting
         \/ lost' = lost /\ waiting' = waiting + 1
      /\ UNCHANGED <<live, pending, held, got, setup, relayVars, statusVars>>
  BY DEF Capture, Mic!Capture
<1>2. /\ next \in Nat /\ waiting \in Nat /\ lost \in Nat /\ waiting <= next /\ short \in Nat
      /\ heard \in Nat /\ out \in Nat /\ sent \in Nat /\ took \in Nat
      /\ Oldest \in Nat /\ Front \in Nat /\ held \subseteq Nat
  BY FrontType DEF TypeOK, TasksOfStep
<1>3. TypeOK'
  BY <1>1, <1>2 DEF TypeOK, relayVars, statusVars
<1>4. TasksOfStep'
  BY <1>1, <1>2, Constants DEF TasksOfStep, relayVars, statusVars
<1>5. GapIsCounted' /\ GapIsSeen'
  BY <1>1, <1>2 DEF GapIsCounted, GapIsSeen, relayVars, statusVars
<1>6. FetchedFrames' = FetchedFrames /\ FetchedFrames \in Nat
  BY <1>1, Constants DEF FetchedFrames
<1>7. CASE lost' = lost + 1 /\ waiting' = waiting
  <2>1. Oldest' = Oldest + 1
    BY <1>1, <1>2, <1>7 DEF Oldest
  <2>2. Front' = Front + Frames
    BY <1>2, <2>1, Multiples DEF Front
  <2>3. /\ Frames * (lost + 1) = Frames * lost + Frames /\ Frames * lost \in Nat
        /\ Frames * ((lost + 1) + short) = Frames * (lost + short) + Frames
        /\ Frames * (lost + short) \in Nat
    BY <1>2, Constants
  <2>4. InHand' /\ NothingAhead'
    BY <1>1, <1>2, <1>7, <2>1, <2>2, <2>3, Constants DEF InHand, NothingAhead, relayVars
  <2>5. LossIsCounted'
    BY <1>1, <1>2, <1>6, <1>7, <2>2, <2>3, Constants DEF LossIsCounted, relayVars
  <2> QED
    BY <1>3, <1>4, <1>5, <2>4, <2>5
<1>8. CASE lost' = lost /\ waiting' = waiting + 1
  <2>1. Oldest' = Oldest /\ Front' = Front
    BY <1>1, <1>2, <1>8 DEF Oldest, Front
  <2> QED
    BY <1>1, <1>3, <1>4, <1>5, <1>6, <1>8, <2>1
       DEF InHand, NothingAhead, LossIsCounted, relayVars
<1> QED
  BY <1>1, <1>7, <1>8

-----------------------------------------------------------------------------
(* The theorems *)

LEMMA InitRelay == Init => RelayInv
<1> SUFFICES ASSUME Init
             PROVE  RelayInv
  OBVIOUS
<1> USE DEF Init, Mic!Init
<1>1. TypeOK
  BY DEF TypeOK, SetupSteps
<1>2. TasksOfStep
  BY Constants DEF TasksOfStep
<1>3. InHand /\ NothingAhead /\ LossIsCounted /\ GapIsCounted /\ GapIsSeen
  BY DEF InHand, NothingAhead, LossIsCounted, GapIsCounted, GapIsSeen
<1> QED
  BY <1>1, <1>2, <1>3 DEF RelayInv

LEMMA NextKeepsRelay == RelayInv /\ [Next]_vars => RelayInv'
<1> SUFFICES ASSUME RelayInv, [Next]_vars
             PROVE  RelayInv'
  OBVIOUS
<1>1. CASE UNCHANGED vars
  <2>1. InHand' /\ NothingAhead' /\ LossIsCounted' /\ GapIsCounted'
    BY <1>1, SameFrames DEF vars, micVars, relayVars
  <2>2. TypeOK' /\ TasksOfStep' /\ GapIsSeen'
    BY <1>1 DEF vars, micVars, relayVars, statusVars, RelayInv, TypeOK, TasksOfStep, GapIsSeen
  <2> QED
    BY <2>1, <2>2 DEF RelayInv
<1>2. CASE Next
  BY <1>2, SetupKeeps, StartTasksKeeps, BeginReadKeeps, FetchKeeps, EndReadKeeps, SendKeeps,
     AfterSendKeeps, StatusKeeps, CaptureKeeps DEF Next, AppMain, Relay
<1> QED
  BY <1>1, <1>2

LEMMA AlwaysRelay == Spec => []RelayInv
BY InitRelay, NextKeepsRelay, PTL DEF Spec

(* Every variable keeps its type. *)
THEOREM RelayTypes == Spec => []TypeOK
BY AlwaysRelay, PTL DEF RelayInv

(* The frames the speaker misses are those of buffers the driver counted   *)
(* as lost and of buffers that ended in a short write.                     *)
THEOREM AlwaysOnlyCountedLoss == Spec => []OnlyCountedLoss
<1>1. ASSUME RelayInv
      PROVE  OnlyCountedLoss
  <2> USE <1>1 DEF RelayInv
  <2>1. /\ Front \in Nat /\ heard \in Nat /\ sent \in Nat /\ took \in Nat
        /\ Frames * (lost + short) \in Nat
    BY FrontType, Multiples DEF TypeOK
  <2>2. Unheard = Front - InRelay - heard
    BY DEF Unheard, Front, Oldest
  <2>3. InRelay = IF pc \in {"send", "sent"} THEN Frames - sent - took ELSE FetchedFrames
    BY Multiples, Constants DEF InRelay, FetchedFrames
  <2>4. FetchedFrames \in Nat
    BY Constants DEF FetchedFrames
  <2> QED
    BY <2>1, <2>2, <2>3, <2>4, Constants DEF LossIsCounted, OnlyCountedLoss
<1> QED
  BY <1>1, AlwaysRelay, PTL

(* As long as the log is quiet, the speaker had missed nothing when the    *)
(* status task last read the counts, although it reads them one by one.    *)
THEOREM AlwaysQuietLogMeansWhole == Spec => []QuietLogMeansWhole
<1>1. RelayInv => QuietLogMeansWhole
  BY DEF RelayInv, GapIsSeen, QuietLogMeansWhole
<1> QED
  BY <1>1, AlwaysRelay, PTL

(* No frame is sent twice, and none out of order. *)
THEOREM AlwaysNothingTwice == Spec => NothingTwice
<1>1. RelayInv /\ [Next]_vars =>
        [(pc = "send" /\ pc' = "sent" /\ took' > 0) => Offered >= heard]_vars
  BY DEF RelayInv, TypeOK, TasksOfStep, NothingAhead, Offered
<1> QED
  BY <1>1, AlwaysRelay, PTL DEF NothingTwice, Spec
=============================================================================

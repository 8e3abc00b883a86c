------------------------ MODULE JtagHandshakeProofs ------------------------
(***************************************************************************)
(* The header of examples/uart-jtag is not missed, and nothing but audio   *)
(* follows it, however often the board is reset, the port opened again and *)
(* a byte strays to the board.                                             *)
(***************************************************************************)
EXTENDS JtagHandshake, ItemStream

TypeOK ==
  /\ board \in BoardSteps /\ quiet \in BOOLEAN /\ rx \in Seq(Bytes)
  /\ script \in ScriptSteps /\ lines \in Nat /\ audio \subseteq Items
  /\ input \in Seq(Items) /\ resets \in Nat
  /\ resetsOnOpen \in BOOLEAN /\ foreign \in BOOLEAN
  /\ script = "ack" => lines # 0

(* The board logs until it has taken the trigger. *)
QuietOfStep == quiet <=> board \in {"hush", "mic", "streaming"}

(* READY is news: the board waits for the trigger, and has got none since  *)
(* the script opened the port.                                             *)
ReadyIsNews ==
  ~foreign =>
    /\ script \in {"wait", "flush"} => rx = << >>
    /\ script = "flush" \/ (script = "wait" /\ Holds(input, "READY"))
         => board \in {"boot", "waiting"}

(* The script that counts lines comes to the board's answer before it      *)
(* comes to the header, so that the count does not run past the header.    *)
AckComesFirst ==
  (script = "ack" /\ ~foreign) =>
    /\ board \in {"boot", "waiting"} /\ rx # << >> => ~Holds(input, "header")
    /\ board = "hush" => Holds(input, "Trigger")
    /\ board \in {"hush", "mic", "streaming"} => AckBefore(input)

HeaderWaits ==
  (board \in {"mic", "streaming"} /\ script \in {"ack", "header"} /\ ~foreign)
    => Holds(input, "header")

(* Unless the board is reset, audio and nothing else follows the header,   *)
(* whatever reached the board.                                             *)
AudioFollows ==
  resets = 0 =>
    /\ audio \subseteq {"pcm"}
    /\ script \in {"wait", "flush", "ack", "header"} =>
         /\ Holds(input, "header") => board \in {"mic", "streaming"}
         /\ PcmAfter(input)
    /\ script = "streaming" => board \in {"mic", "streaming"} /\ Pcm(input)

Handshake ==
  /\ TypeOK /\ QuietOfStep /\ ReadyIsNews /\ AckComesFirst /\ HeaderWaits
  /\ AudioFollows

-----------------------------------------------------------------------------
(* What the board sends, as the script has it. *)
LEMMA SendKeeps ==
  ASSUME input \in Seq(Items), NEW x \in Items, Send(x)
  PROVE  /\ input' \in Seq(Items)
         /\ \A y : Holds(input, y) => Holds(input', y)
         /\ \A y : Holds(input', y) => y = x \/ Holds(input, y)
         /\ IsOpen => Holds(input', x)
         /\ x = "pcm" => (Pcm(input) => Pcm(input')) /\ (PcmAfter(input) => PcmAfter(input'))
         /\ ~Holds(input, "header") => PcmAfter(input')
         /\ AckBefore(input) /\ (x = "header" => Holds(input, "Trigger")) => AckBefore(input')
<1>1. CASE ~IsOpen
  <2>1. input' = input
    BY <1>1 DEF Send
  <2>2. ~Holds(input, "header") => PcmAfter(input)
    BY DEF Holds, PcmAfter
  <2> QED
    BY <1>1, <2>1, <2>2
<1>2. CASE IsOpen
  <2>1. input' = Merged(input, x)
    BY <1>2 DEF Send, Received, Merged
  <2> QED
    BY <2>1, MergedKeeps
<1> QED
  BY <1>1, <1>2

LEMMA OneText ==
  /\ <<"text">> \in Seq(Items)
  /\ ~Holds(<<"text">>, "READY") /\ ~Holds(<<"text">>, "header")
BY DEF Holds, Items

LEMMA NoHeader ==
  ASSUME NEW s, ~Holds(s, "header")
  PROVE  PcmAfter(s) /\ AckBefore(s)
BY DEF Holds, PcmAfter, AckBefore

(* The board starts over: what it says then is text. *)
LEMMA BootKeeps ==
  ASSUME Handshake, Boot, resets' = resets + 1, Send("text"),
         UNCHANGED <<scriptVars, resetsOnOpen>>
  PROVE  Handshake'
<1> USE DEF Handshake, Boot, scriptVars
<1>1. /\ input' \in Seq(Items) /\ resets' \in Nat /\ resets' # 0
  BY SendKeeps DEF TypeOK, Items
<1>2. TypeOK'
  BY <1>1, EmptyInput DEF TypeOK, BoardSteps
<1>3. QuietOfStep'
  BY DEF QuietOfStep
<1>4. ReadyIsNews' /\ AckComesFirst' /\ HeaderWaits' /\ AudioFollows'
  BY <1>1 DEF ReadyIsNews, AckComesFirst, HeaderWaits, AudioFollows
<1> QED
  BY <1>2, <1>3, <1>4

(* The board, unless it is reset *)
LEMMA BoardKeeps ==
  ASSUME Handshake,
         BoardReady \/ BoardRead \/ BoardHeader \/ SendAudio \/ ReportOverflow \/ StrayByte
  PROVE  Handshake'
<1> USE DEF Handshake, scriptVars, boardVars, kind
<1>0. /\ input \in Seq(Items) /\ rx \in Seq(Bytes)
  BY DEF TypeOK
<1>1. CASE BoardReady
  <2> USE <1>1 DEF BoardReady
  <2>1. Send("READY")
    BY DEF Log, QuietOfStep
  <2>2. /\ input' \in Seq(Items)
        /\ \A y : Holds(input', y) => y = "READY" \/ Holds(input, y)
        /\ ~Holds(input, "header") => PcmAfter(input')
    BY <1>0, <2>1, SendKeeps DEF Items
  <2>3. TypeOK' /\ QuietOfStep' /\ ReadyIsNews'
    BY <2>2 DEF TypeOK, BoardSteps, QuietOfStep, ReadyIsNews
  <2>4. AckComesFirst' /\ HeaderWaits' /\ AudioFollows'
    BY <2>2 DEF AckComesFirst, HeaderWaits, AudioFollows
  <2> QED
    BY <2>3, <2>4
<1>2. CASE BoardRead
  <2> USE <1>2 DEF BoardRead
  <2>1. Send("Trigger")
    BY DEF Log, QuietOfStep
  <2>2. /\ input' \in Seq(Items)
        /\ \A y : Holds(input', y) => y = "Trigger" \/ Holds(input, y)
        /\ IsOpen => Holds(input', "Trigger")
        /\ ~Holds(input, "header") => PcmAfter(input')
    BY <1>0, <2>1, SendKeeps DEF Items
  <2>3. rx' \in Seq(Bytes)
    BY <1>0, TailKeeps
  <2>4. TypeOK' /\ QuietOfStep' /\ ReadyIsNews' /\ HeaderWaits' /\ AudioFollows'
    BY <2>2, <2>3 DEF TypeOK, BoardSteps, QuietOfStep, ReadyIsNews, HeaderWaits, AudioFollows
  <2>5. ~Holds(input, "header") => AckBefore(input')
    BY <2>2, NoHeader
  <2>6. AckComesFirst'
    BY <2>2, <2>5 DEF AckComesFirst, IsOpen
  <2> QED
    BY <2>4, <2>6
<1>3. CASE BoardHeader
  <2> USE <1>3 DEF BoardHeader
  <2>1. /\ input' \in Seq(Items)
        /\ \A y : Holds(input', y) => y = "header" \/ Holds(input, y)
        /\ IsOpen => Holds(input', "header")
        /\ ~Holds(input, "header") => PcmAfter(input')
        /\ AckBefore(input) /\ Holds(input, "Trigger") => AckBefore(input')
    BY <1>0, SendKeeps DEF Items
  <2>2. TypeOK' /\ QuietOfStep' /\ ReadyIsNews' /\ AckComesFirst'
    BY <2>1 DEF TypeOK, BoardSteps, QuietOfStep, ReadyIsNews, AckComesFirst
  <2>3. HeaderWaits' /\ AudioFollows'
    BY <2>1 DEF HeaderWaits, AudioFollows, IsOpen
  <2> QED
    BY <2>2, <2>3
<1>4. CASE SendAudio
  <2> USE <1>4 DEF SendAudio
  <2>1. input' = input \/ Send("pcm")
    BY DEF Log, QuietOfStep
  <2>2. /\ input' \in Seq(Items)
        /\ \A y : Holds(input, y) => Holds(input', y)
        /\ \A y : Holds(input', y) => y = "pcm" \/ Holds(input, y)
        /\ (Pcm(input) => Pcm(input')) /\ (PcmAfter(input) => PcmAfter(input'))
        /\ AckBefore(input) => AckBefore(input')
    BY <1>0, <2>1, SendKeeps DEF Items
  <2> QED
    BY <2>2 DEF TypeOK, QuietOfStep, ReadyIsNews, AckComesFirst, HeaderWaits, AudioFollows
<1>5. CASE ReportOverflow
  <2> USE <1>5 DEF ReportOverflow
  <2>1. input' = input
    BY DEF Log, QuietOfStep
  <2> QED
    BY <2>1 DEF TypeOK, QuietOfStep, ReadyIsNews, AckComesFirst, HeaderWaits, AudioFollows
<1>6. CASE StrayByte
  <2> USE <1>6 DEF StrayByte
  <2>1. rx' \in Seq(Bytes)
    BY <1>0, AppendKeeps DEF Bytes
  <2> QED
    BY <2>1 DEF TypeOK, QuietOfStep, ReadyIsNews, AckComesFirst, HeaderWaits, AudioFollows
<1> QED
  BY <1>1, <1>2, <1>3, <1>4, <1>5, <1>6

(* The board is reset, by the button or by its abort, or starts to stream. *)
LEMMA ResetKeeps ==
  ASSUME Handshake, PressReset \/ MicSetup
  PROVE  Handshake'
<1>1. ASSUME board = "mic", board' = "streaming",
             UNCHANGED <<quiet, rx, input, resets, foreign, scriptVars, resetsOnOpen>>
      PROVE  Handshake'
  BY <1>1 DEF Handshake, scriptVars, TypeOK, BoardSteps, QuietOfStep, ReadyIsNews,
              AckComesFirst, HeaderWaits, AudioFollows
<1>2. CASE PressReset
  BY <1>2, BootKeeps DEF PressReset
<1>3. CASE MicSetup
  BY <1>1, <1>3, BootKeeps DEF MicSetup
<1> QED
  BY <1>2, <1>3

-----------------------------------------------------------------------------
(* The script *)

(* The port is opened: on some boards that is a reset, on the others the   *)
(* script meets the board wherever it is.                                  *)
LEMMA OpenPortKeeps ==
  ASSUME Handshake, OpenPort
  PROVE  Handshake'
<1> USE DEF Handshake, OpenPort, ScriptGoto, boardVars
<1>1. CASE resetsOnOpen
  <2> USE <1>1 DEF Boot
  <2>1. /\ input' \in Seq(Items)
        /\ ~Holds(input', "READY") /\ ~Holds(input', "header")
    BY OneText
  <2>2. PcmAfter(input')
    BY <2>1, NoHeader
  <2>3. TypeOK'
    BY <2>1, EmptyInput DEF TypeOK, BoardSteps, ScriptSteps
  <2>4. QuietOfStep'
    BY DEF QuietOfStep
  <2>5. ReadyIsNews' /\ AckComesFirst' /\ HeaderWaits' /\ AudioFollows'
    BY <2>1, <2>2 DEF ReadyIsNews, AckComesFirst, HeaderWaits, AudioFollows
  <2> QED
    BY <2>3, <2>4, <2>5
<1>2. CASE ~resetsOnOpen
  <2>1. /\ input' \in Seq(Items) /\ \A y : ~Holds(input', y)
        /\ PcmAfter(input')
    BY <1>2, EmptyInput
  <2>2. foreign' = (foreign \/ rx # << >>) /\ UNCHANGED boardVars /\ resetsOnOpen' = resetsOnOpen
    BY <1>2
  <2> QED
    BY <2>1, <2>2 DEF TypeOK, ScriptSteps, QuietOfStep, ReadyIsNews,
                      AckComesFirst, HeaderWaits, AudioFollows
<1> QED
  BY <1>1, <1>2

(* The board's answer is looked for among the next lines: the script does  *)
(* not count past the header.                                              *)
LEMMA ReadAckKeeps ==
  ASSUME Handshake, ReadAck
  PROVE  Handshake'
<1> USE DEF Handshake, ReadAck, ScriptGoto, boardVars, kind
<1>0. /\ input \in Seq(Items) /\ lines' \in Nat /\ (lines' = 0 => lines = 1)
      /\ script = "ack" /\ script' \in {"ack", "header"}
  BY DEF TypeOK
<1>1. CASE input # << >> /\ input' = Tail(input)
  <2>1. /\ input' \in Seq(Items)
        /\ \A y : Holds(input', y) => Holds(input, y)
        /\ \A y : Holds(input, y) => Head(input) = y \/ Holds(input', y)
        /\ PcmAfter(input) => PcmAfter(input')
        /\ AckBefore(input) => Head(input) # "header"
        /\ AckBefore(input) /\ Head(input) # "Trigger" => AckBefore(input')
    BY <1>0, <1>1, TailKeeps
  <2>2. script' = "ack" => Head(input) # "Trigger"
    BY <1>0, <1>1, EmptySeq
  <2>3. script' = "ack" => lines' # 0
    BY <1>0, <1>1, EmptySeq
  <2>4. TypeOK' /\ QuietOfStep' /\ ReadyIsNews' /\ AudioFollows'
    BY <1>0, <2>1, <2>3 DEF TypeOK, ScriptSteps, QuietOfStep, ReadyIsNews, AudioFollows
  <2>5. AckComesFirst' /\ HeaderWaits'
    BY <1>0, <2>1, <2>2 DEF AckComesFirst, HeaderWaits
  <2> QED
    BY <2>4, <2>5
<1>2. CASE Silence /\ UNCHANGED input
  <2>1. ~Holds(input, "header") /\ ~Holds(input, "Trigger")
    BY <1>2, EmptyInput DEF Silence
  <2>2. script' = "ack" => lines' # 0
    BY <1>0, <1>2
  <2> QED
    BY <1>0, <1>2, <2>1, <2>2
       DEF TypeOK, ScriptSteps, QuietOfStep, ReadyIsNews, AudioFollows, AckComesFirst,
           HeaderWaits
<1> QED
  BY <1>1, <1>2

LEMMA ScriptKeeps ==
  ASSUME Handshake,
         WaitForReady \/ SendTrigger \/ ScanHeader \/ ScanTimeout \/ Record \/ Quit
  PROVE  Handshake'
<1> USE DEF Handshake, ScriptGoto, boardVars, kind
<1>0. input \in Seq(Items) /\ rx \in Seq(Bytes)
  BY DEF TypeOK
<1>1. CASE WaitForReady
  <2> USE <1>1 DEF WaitForReady
  <2>1. /\ input' \in Seq(Items)
        /\ \A y : Holds(input', y) => Holds(input, y)
        /\ Holds(input, Head(input))
        /\ PcmAfter(input) => PcmAfter(input')
    BY <1>0, TailKeeps
  <2>2. TypeOK' /\ QuietOfStep' /\ ReadyIsNews'
    BY <2>1 DEF TypeOK, ScriptSteps, QuietOfStep, ReadyIsNews
  <2>3. AckComesFirst' /\ HeaderWaits' /\ AudioFollows'
    BY <2>1 DEF AckComesFirst, HeaderWaits, AudioFollows
  <2> QED
    BY <2>2, <2>3
<1>2. CASE SendTrigger
  <2> USE <1>2 DEF SendTrigger
  <2>1. rx' \in Seq(Bytes) /\ lines' \in Nat /\ lines' # 0
    BY <1>0, AppendKeeps, JtagAssumption DEF Bytes
  <2>2. ~foreign => board \in {"boot", "waiting"}
    BY DEF ReadyIsNews
  <2>3. TypeOK' /\ QuietOfStep' /\ ReadyIsNews'
    BY <2>1, EmptyInput DEF TypeOK, ScriptSteps, QuietOfStep, ReadyIsNews
  <2>4. AckComesFirst' /\ HeaderWaits' /\ AudioFollows'
    BY <2>2, EmptyInput DEF AckComesFirst, HeaderWaits, AudioFollows
  <2> QED
    BY <2>3, <2>4
<1>3. CASE ScanHeader
  <2> USE <1>3 DEF ScanHeader
  <2>1. /\ input' \in Seq(Items)
        /\ \A y : Holds(input', y) => Holds(input, y)
        /\ \A y : Holds(input, y) => Head(input) = y \/ Holds(input', y)
        /\ Holds(input, Head(input))
        /\ PcmAfter(input) => PcmAfter(input')
        /\ PcmAfter(input) /\ Head(input) = "header" => Pcm(input')
    BY <1>0, TailKeeps
  <2>2. TypeOK' /\ QuietOfStep' /\ ReadyIsNews' /\ AckComesFirst'
    BY <2>1 DEF TypeOK, ScriptSteps, QuietOfStep, ReadyIsNews, AckComesFirst
  <2>3. HeaderWaits' /\ AudioFollows'
    BY <2>1 DEF HeaderWaits, AudioFollows
  <2> QED
    BY <2>2, <2>3
<1>4. CASE ScanTimeout
  BY <1>4 DEF ScanTimeout, TypeOK, ScriptSteps, QuietOfStep, ReadyIsNews, AckComesFirst,
              HeaderWaits, AudioFollows
<1>5. CASE Record
  <2> USE <1>5 DEF Record
  <2>1. /\ input' \in Seq(Items) /\ Head(input) \in Items
        /\ Pcm(input) => Pcm(input') /\ Head(input) = "pcm"
    BY <1>0, TailKeeps
  <2> QED
    BY <2>1 DEF TypeOK, QuietOfStep, ReadyIsNews, AckComesFirst, HeaderWaits, AudioFollows
<1>6. CASE Quit
  BY <1>6, EmptyInput DEF Quit, TypeOK, ScriptSteps, QuietOfStep, ReadyIsNews, AckComesFirst,
              HeaderWaits, AudioFollows
<1> QED
  BY <1>1, <1>2, <1>3, <1>4, <1>5, <1>6

-----------------------------------------------------------------------------
(* The theorems *)

LEMMA InitHandshake == Init => Handshake
<1> SUFFICES ASSUME Init
             PROVE  Handshake
  OBVIOUS
<1>1. TypeOK
  BY EmptyInput DEF Init, TypeOK, BoardSteps, ScriptSteps
<1>2. QuietOfStep
  BY DEF Init, QuietOfStep
<1>3. ReadyIsNews /\ AckComesFirst /\ HeaderWaits /\ AudioFollows
  BY DEF Init, ReadyIsNews, AckComesFirst, HeaderWaits, AudioFollows
<1> QED
  BY <1>1, <1>2, <1>3 DEF Handshake

LEMMA NextKeepsHandshake == Handshake /\ [Next]_vars => Handshake'
<1> SUFFICES ASSUME Handshake, [Next]_vars
             PROVE  Handshake'
  OBVIOUS
<1>1. CASE UNCHANGED vars
  BY <1>1 DEF vars, boardVars, scriptVars, kind, Handshake, TypeOK, QuietOfStep,
     ReadyIsNews, AckComesFirst, HeaderWaits, AudioFollows
<1>2. CASE Next
  BY <1>2, BoardKeeps, ResetKeeps, OpenPortKeeps, ReadAckKeeps, ScriptKeeps
     DEF Next, BoardStep, ScriptStep
<1> QED
  BY <1>1, <1>2

LEMMA AlwaysHandshake == Spec => []Handshake
BY InitHandshake, NextKeepsHandshake, PTL DEF Spec

(* Every variable keeps its type. *)
THEOREM HandshakeTypes == Spec => []TypeOK
BY AlwaysHandshake, PTL DEF Handshake

(* The header is sent once, and the script that has sent the trigger has   *)
(* it before it or has read it: no flush, no line that it counts as one of *)
(* the ten, and no other session of the script takes it away, as long as   *)
(* the board gets no byte but this script's.                               *)
THEOREM AlwaysHeaderNotMissed == Spec => []HeaderNotMissed
<1>1. Handshake => HeaderNotMissed
  BY DEF Handshake, HeaderNotMissed, HeaderInInput, ReadyIsNews, HeaderWaits, Holds
<1> QED
  BY <1>1, AlwaysHandshake, PTL

(* What is recorded is audio, unless the board is reset: also when it was  *)
(* a stray byte that started the board.                                    *)
THEOREM AlwaysOnlyAudioRecorded == Spec => []OnlyAudioRecorded
<1>1. Handshake => OnlyAudioRecorded
  BY DEF Handshake, OnlyAudioRecorded, AudioFollows
<1> QED
  BY <1>1, AlwaysHandshake, PTL
=============================================================================

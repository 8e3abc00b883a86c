------------------------ MODULE UartHandshakeProofs ------------------------
(***************************************************************************)
(* The header of examples/uart is not missed, and nothing but audio        *)
(* follows it, for all delays that satisfy HandshakeAssumption.            *)
(***************************************************************************)
EXTENDS UartHandshake, ItemStream

(* Each side's baud rate, and whether the board logs, at each of its steps. *)
BaudOfStep ==
  /\ board \in {"boot", "waiting", "switch"} => bbaud = "handshake"
  /\ board \in {"settle", "hush", "mic", "streaming"} => bbaud = "stream"
  /\ board \in {"hush", "mic", "streaming"} => quiet = TRUE
  /\ script \in {"wait", "send", "sleep"} => sbaud = "handshake"
  /\ script \in {"settle", "header", "streaming"} => sbaud = "stream"

(* READY is news: no trigger has been sent since the board printed it. *)
ReadyIsNews ==
  script = "send" \/ (script = "wait" /\ Holds(input, "READY"))
    => board \in {"boot", "waiting"} /\ ~Holds(rx, "trigger")

(* The least time that is left before the board sends the header. *)
BoardRest ==
  IF board = "switch" THEN btimer + (SettleDelay - 1) + (QuietDelay - 1)
  ELSE IF board = "settle" THEN btimer + (QuietDelay - 1)
  ELSE btimer

(* The script wakes up before the header is sent. *)
ScriptIsFirst ==
  script = "sleep" =>
    /\ stimer <= ScriptSleep + ScriptLate
    /\ Delayed => stimer < BoardRest
    /\ board \notin {"mic", "streaming"}

HeaderWaits ==
  board \in {"mic", "streaming"} /\ script \in {"settle", "header"}
    => Holds(input, "header")

(* Unless the board is reset, audio and nothing else follows the header. *)
AudioFollows ==
  resets = 0 =>
    /\ audio \subseteq {"pcm"}
    /\ script \in {"settle", "header"} =>
         /\ Holds(input, "header") => board \in {"mic", "streaming"}
         /\ PcmAfter(input)
    /\ script = "streaming" => board \in {"mic", "streaming"} /\ Pcm(input)

Handshake ==
  /\ TypeOK /\ BaudOfStep /\ ReadyIsNews /\ ScriptIsFirst /\ HeaderWaits
  /\ AudioFollows

-----------------------------------------------------------------------------
(* Sequences of bytes and items *)

LEMMA OneText ==
  /\ <<"text">> \in Seq(Items)
  /\ ~Holds(<<"text">>, "READY")
BY DEF Holds, Items

LEMMA ReceivedKeeps ==
  ASSUME NEW s \in Seq(Items), NEW x \in Items
  PROVE  /\ Received(s, x) \in Seq(Items)
         /\ Holds(Received(s, x), x)
         /\ \A y : Holds(s, y) => Holds(Received(s, x), y)
         /\ \A y : Holds(Received(s, x), y) => y = x \/ Holds(s, y)
         /\ Pcm(s) /\ x = "pcm" => Pcm(Received(s, x))
         /\ PcmAfter(s) /\ x = "pcm" => PcmAfter(Received(s, x))
         /\ ~Holds(s, "header") => PcmAfter(Received(s, x))
<1>1. Received(s, x) = Merged(s, x)
  BY DEF Received, Merged
<1> QED
  BY <1>1, MergedKeeps

(* What the board sends, as the script has it. *)
LEMMA SendAtKeeps ==
  ASSUME input \in Seq(Items), NEW baud, NEW x \in Items, SendAt(baud, x)
  PROVE  /\ input' \in Seq(Items)
         /\ \A y : Holds(input, y) => Holds(input', y)
         /\ \A y : Holds(input', y) =>
              Holds(input, y) \/ (y = x /\ baud = sbaud) \/ y = "garbage"
         /\ IsOpen /\ baud = sbaud => Holds(input', x)
         /\ x = "pcm" /\ baud = sbaud =>
              (Pcm(input) => Pcm(input')) /\ (PcmAfter(input) => PcmAfter(input'))
         /\ ~Holds(input, "header") => PcmAfter(input')
<1> DEFINE y0 == IF baud = sbaud THEN x ELSE "garbage"
<1>1. CASE ~IsOpen
  <2>1. input' = input
    BY <1>1 DEF SendAt
  <2>2. ~Holds(input, "header") => PcmAfter(input)
    BY DEF Holds, PcmAfter
  <2> QED
    BY <1>1, <2>1, <2>2
<1>2. CASE IsOpen
  <2>1. input' = Received(input, y0) /\ y0 \in Items
    BY <1>2 DEF SendAt, Items
  <2> HIDE DEF y0
  <2>2. /\ Received(input, y0) \in Seq(Items)
        /\ Holds(Received(input, y0), y0)
        /\ \A y : Holds(input, y) => Holds(Received(input, y0), y)
        /\ \A y : Holds(Received(input, y0), y) => y = y0 \/ Holds(input, y)
        /\ Pcm(input) /\ y0 = "pcm" => Pcm(Received(input, y0))
        /\ PcmAfter(input) /\ y0 = "pcm" => PcmAfter(Received(input, y0))
        /\ ~Holds(input, "header") => PcmAfter(Received(input, y0))
    BY <2>1, ReceivedKeeps
  <2>3. (baud = sbaud => y0 = x) /\ (baud # sbaud => y0 = "garbage")
    BY DEF y0
  <2> QED
    BY <2>1, <2>2, <2>3
<1> QED
  BY <1>1, <1>2


(* A log line, if it is written at all. *)
LEMMA LogKeeps ==
  ASSUME input \in Seq(Items), NEW x \in Items, Log(x)
  PROVE  /\ input' \in Seq(Items)
         /\ \A y : Holds(input', y) => Holds(input, y) \/ y \in {x, "garbage"}
         /\ ~Holds(input, "header") => PcmAfter(input')
<1>1. CASE quiet
  <2>1. input' = input
    BY <1>1 DEF Log
  <2> QED
    BY <2>1 DEF Holds, PcmAfter
<1>2. CASE ~quiet
  BY <1>2, SendAtKeeps DEF Log
<1> QED
  BY <1>1, <1>2

(* What a delay may be. *)
LEMMA Delays ==
  /\ \A d \in Nat \ {0} : \A t \in Delay(d) : t \in Nat /\ t >= d - 1
  /\ \A d \in Nat : \A t \in Sleep(d) : t \in Nat /\ t <= d + ScriptLate
BY HandshakeAssumption DEF Delay, Sleep

-----------------------------------------------------------------------------
(* The board *)

(* A step of the board that sends nothing and only moves on. *)
LEMMA SilentBoardKeeps ==
  ASSUME Handshake, BoardSwitch \/ BoardHush \/ StrayByte
  PROVE  Handshake'
<1> USE DEF Handshake, BoardGoto, scriptVars
<1>1. ASSUME BoardSwitch
      PROVE  Handshake'
  <2> USE <1>1 DEF BoardSwitch
  <2>1. btimer' \in Nat /\ btimer' >= SettleDelay - 1
    BY Delays, HandshakeAssumption
  <2>2. TypeOK' /\ BaudOfStep' /\ ReadyIsNews' /\ HeaderWaits' /\ AudioFollows'
    BY <2>1 DEF TypeOK, BoardSteps, Bauds, BaudOfStep, ReadyIsNews, HeaderWaits,
                AudioFollows
  <2>3. BoardRest = (SettleDelay - 1) + (QuietDelay - 1)
    BY HandshakeAssumption DEF BoardRest
  <2>4. BoardRest' = btimer' + (QuietDelay - 1)
    BY DEF BoardRest
  <2>5. script = "sleep" =>
          stimer < BoardRest /\ stimer \in Nat /\ stimer <= ScriptSleep + ScriptLate
    BY DEF ScriptIsFirst, Delayed, TypeOK
  <2>6. script = "sleep" => stimer < BoardRest'
    BY <2>1, <2>3, <2>4, <2>5, HandshakeAssumption
  <2>7. ScriptIsFirst'
    BY <2>5, <2>6 DEF ScriptIsFirst
  <2> QED
    BY <2>2, <2>7
<1>2. ASSUME BoardHush
      PROVE  Handshake'
  <2> USE <1>2 DEF BoardHush
  <2>1. btimer' \in Nat /\ btimer' >= QuietDelay - 1
    BY Delays, HandshakeAssumption
  <2>2. TypeOK' /\ BaudOfStep' /\ ReadyIsNews' /\ HeaderWaits' /\ AudioFollows'
    BY <2>1 DEF TypeOK, BoardSteps, Bauds, BaudOfStep, ReadyIsNews, HeaderWaits,
                AudioFollows
  <2>3. ScriptIsFirst'
    BY <2>1, HandshakeAssumption DEF ScriptIsFirst, BoardRest, Delayed, TypeOK
  <2> QED
    BY <2>2, <2>3
<1>3. ASSUME StrayByte
      PROVE  Handshake'
  <2> USE <1>3 DEF StrayByte
  <2>1. rx' \in Seq(Bytes) /\ (Holds(rx', "trigger") => Holds(rx, "trigger"))
    BY AppendKeeps DEF TypeOK, Bytes
  <2> QED
    BY <2>1 DEF TypeOK, BaudOfStep, ReadyIsNews, ScriptIsFirst, BoardRest, Delayed,
                HeaderWaits, AudioFollows
<1> QED
  BY <1>1, <1>2, <1>3

(* A step of the board that writes to the line. *)
LEMMA WritingBoardKeeps ==
  ASSUME Handshake,
         BoardReady \/ BoardHeader \/ SendAudio \/ ReportOverflow
  PROVE  Handshake'
<1> USE DEF Handshake, scriptVars, boardVars
<1>0. input \in Seq(Items)
  BY DEF TypeOK
<1>1. ASSUME BoardReady
      PROVE  Handshake'
  <2> USE <1>1 DEF BoardReady
  <2>1. /\ input' \in Seq(Items)
        /\ \A y : Holds(input', y) => Holds(input, y) \/ y \in {"READY", "garbage"}
        /\ ~Holds(input, "header") => PcmAfter(input')
    BY <1>0, LogKeeps DEF Items
  <2>2. TypeOK'
    BY <2>1, EmptyInput DEF TypeOK, BoardSteps
  <2>3. BaudOfStep' /\ ScriptIsFirst' /\ HeaderWaits' /\ ReadyIsNews'
    BY EmptyInput DEF BaudOfStep, ScriptIsFirst, BoardRest, Delayed, HeaderWaits, ReadyIsNews
  <2>4. AudioFollows'
    BY <2>1 DEF AudioFollows
  <2> QED
    BY <2>2, <2>3, <2>4
<1>2. ASSUME BoardHeader
      PROVE  Handshake'
  <2> USE <1>2 DEF BoardHeader
  <2>1. /\ input' \in Seq(Items)
        /\ \A y : Holds(input', y) =>
             Holds(input, y) \/ (y = "header" /\ bbaud = sbaud) \/ y = "garbage"
        /\ IsOpen /\ bbaud = sbaud => Holds(input', "header")
        /\ ~Holds(input, "header") => PcmAfter(input')
    BY <1>0, SendAtKeeps DEF Items
  <2>2. TypeOK' /\ BaudOfStep' /\ ReadyIsNews'
    BY <2>1 DEF TypeOK, BoardSteps, BaudOfStep, ReadyIsNews
  <2>3. ScriptIsFirst'
    BY DEF ScriptIsFirst, BoardRest, Delayed, TypeOK
  <2>4. HeaderWaits'
    BY <2>1 DEF HeaderWaits, BaudOfStep, IsOpen
  <2>5. AudioFollows'
    BY <2>1 DEF AudioFollows
  <2> QED
    BY <2>2, <2>3, <2>4, <2>5
<1>3. ASSUME SendAudio
      PROVE  Handshake'
  <2> USE <1>3 DEF SendAudio
  <2>1. /\ board = "streaming" /\ quiet = TRUE /\ bbaud = "stream"
        /\ input' = input \/ SendAt(bbaud, "pcm")
    BY DEF BaudOfStep, Log
  <2>2. /\ input' \in Seq(Items)
        /\ \A y : Holds(input, y) => Holds(input', y)
        /\ \A y : Holds(input', y) => Holds(input, y) \/ y \in {"pcm", "garbage"}
        /\ bbaud = sbaud =>
             (Pcm(input) => Pcm(input')) /\ (PcmAfter(input) => PcmAfter(input'))
    BY <1>0, <2>1, SendAtKeeps DEF Items
  <2> QED
    BY <2>1, <2>2 DEF TypeOK, BaudOfStep, ReadyIsNews, ScriptIsFirst, BoardRest,
                      Delayed, HeaderWaits, AudioFollows
<1>4. ASSUME ReportOverflow
      PROVE  Handshake'
  <2>1. input' = input
    BY <1>4 DEF ReportOverflow, Log, BaudOfStep
  <2> QED
    BY <1>4, <2>1 DEF ReportOverflow, TypeOK, BaudOfStep, ReadyIsNews, ScriptIsFirst,
                      BoardRest, Delayed, HeaderWaits, AudioFollows
<1> QED
  BY <1>1, <1>2, <1>3, <1>4

(* The board takes a byte: the trigger sets its clock off after the        *)
(* script's.                                                               *)
LEMMA BoardReadKeeps ==
  ASSUME Handshake, BoardRead
  PROVE  Handshake'
<1> USE DEF Handshake, BoardRead, scriptVars
<1>1. /\ input \in Seq(Items) /\ rx \in Seq(Bytes)
      /\ rx' \in Seq(Bytes)
      /\ \A x : Holds(rx', x) => Holds(rx, x)
      /\ board = "waiting" /\ bbaud = "handshake"
  BY TailKeeps DEF TypeOK, BaudOfStep
<1>2. CASE ~IsTrigger(Head(rx))
  BY <1>1, <1>2 DEF TypeOK, BaudOfStep, ReadyIsNews, ScriptIsFirst, BoardRest, Delayed,
                    HeaderWaits, AudioFollows
<1>3. ASSUME IsTrigger(Head(rx))
      PROVE  Handshake'
  <2> USE <1>3 DEF BoardGoto, IsTrigger
  <2>1. btimer' \in Nat /\ btimer' >= SwitchDelay - 1
    BY Delays, HandshakeAssumption
  <2>2. Holds(rx, "trigger")
    <3>1. Head(rx) = rx[1] /\ 1 \in DOMAIN rx
      BY <1>1, HeadTailProperties, LenProperties, EmptySeq
    <3> QED
      BY <3>1 DEF Holds
  <2>3. /\ input' \in Seq(Items)
        /\ \A y : Holds(input', y) => Holds(input, y) \/ y \in {"text", "garbage"}
        /\ ~Holds(input, "header") => PcmAfter(input')
    BY <1>1, LogKeeps DEF Items
  <2>4. TypeOK' /\ BaudOfStep' /\ ReadyIsNews' /\ HeaderWaits' /\ AudioFollows'
    <3>1. TypeOK'
      BY <1>1, <2>1, <2>3 DEF TypeOK, BoardSteps
    <3>2. BaudOfStep'
      BY <1>1 DEF BaudOfStep
    <3>3. ReadyIsNews'
      BY <1>1, <2>2, <2>3 DEF ReadyIsNews
    <3>4. HeaderWaits'
      BY <1>1, <2>2, <2>3 DEF HeaderWaits
    <3>5. AudioFollows'
      BY <1>1, <2>3 DEF AudioFollows
    <3> QED
      BY <3>1, <3>2, <3>3, <3>4, <3>5
  <2>5. script = "sleep" => stimer \in Nat /\ stimer <= ScriptSleep + ScriptLate
    BY DEF ScriptIsFirst, TypeOK
  <2>6. BoardRest' = btimer' + (SettleDelay - 1) + (QuietDelay - 1)
    BY DEF BoardRest
  <2>7. script = "sleep" => stimer < BoardRest'
    BY <2>1, <2>5, <2>6, HandshakeAssumption
  <2>8. ScriptIsFirst'
    BY <2>5, <2>7 DEF ScriptIsFirst
  <2> QED
    BY <2>4, <2>8
<1> QED
  BY <1>2, <1>3

(* The board is reset: by the button, by its abort, or by the port. *)
LEMMA ResetKeeps ==
  ASSUME Handshake, PressReset \/ MicSetup
  PROVE  Handshake'
<1> USE DEF Handshake, scriptVars, Boot
<1>0. input \in Seq(Items)
  BY DEF TypeOK
<1>1. ASSUME board' = "streaming", board = "mic",
             UNCHANGED <<btimer, bbaud, quiet, rx, scriptVars, input, resets>>
      PROVE  Handshake'
  BY <1>1 DEF TypeOK, BoardSteps, BaudOfStep, ReadyIsNews, ScriptIsFirst, BoardRest,
              Delayed, HeaderWaits, AudioFollows
<1>2. ASSUME NEW baud \in Bauds, SendAt(baud, "text"), Boot, resets' = resets + 1,
             UNCHANGED scriptVars
      PROVE  Handshake'
  <2> USE <1>2
  <2>1. /\ input' \in Seq(Items)
        /\ \A y : Holds(input', y) => Holds(input, y) \/ y \in {"text", "garbage"}
    BY <1>0, SendAtKeeps DEF Items
  <2>2. resets \in Nat /\ resets' # 0 /\ resets' \in Nat
    BY DEF TypeOK
  <2> QED
    BY <2>1, <2>2, EmptyInput
       DEF TypeOK, BoardSteps, Bauds, BaudOfStep, ReadyIsNews, ScriptIsFirst, BoardRest,
           Delayed, HeaderWaits, AudioFollows
<1>3. CASE PressReset
  BY <1>2, <1>3 DEF PressReset, Bauds
<1>4. CASE MicSetup
  BY <1>1, <1>2, <1>4 DEF MicSetup, TypeOK
<1> QED
  BY <1>3, <1>4

-----------------------------------------------------------------------------
(* The script, and time *)

LEMMA ScriptKeeps ==
  ASSUME Handshake, ScriptStep \/ OpenPort \/ Quit
  PROVE  Handshake'
<1> USE DEF Handshake, ScriptGoto, boardVars
<1>0. input \in Seq(Items) /\ rx \in Seq(Bytes)
  BY DEF TypeOK
<1>1. CASE OpenPort
  <2> USE <1>1 DEF OpenPort
  <2>1. input' \in Seq(Items) /\ ~Holds(input', "READY")
    BY EmptyInput, OneText
  <2>2. TypeOK' /\ BaudOfStep'
    <3> USE <2>1 DEF TypeOK, BoardSteps, ScriptSteps, Bauds, BaudOfStep
    <3>1. ResetsOnOpen => Boot
      OBVIOUS
    <3>2. ~ResetsOnOpen => UNCHANGED boardVars
      OBVIOUS
    <3>3. CASE Boot
      BY <3>3, EmptyInput DEF Boot
    <3>4. CASE UNCHANGED boardVars
      BY <3>4
    <3> QED
      BY <3>1, <3>2, <3>3, <3>4
  <2>3. ReadyIsNews' /\ ScriptIsFirst' /\ HeaderWaits' /\ AudioFollows'
    BY <2>1 DEF ReadyIsNews, ScriptIsFirst, HeaderWaits, AudioFollows
  <2> QED
    BY <2>2, <2>3
<1>2. CASE WaitForReady
  <2> USE <1>2 DEF WaitForReady
  <2>1. /\ input' \in Seq(Items)
        /\ \A y : Holds(input', y) => Holds(input, y)
        /\ Head(input) = "READY" => Holds(input, "READY")
    <3>1. Head(input) = input[1] /\ 1 \in DOMAIN input
      BY <1>0, HeadTailProperties, LenProperties, EmptySeq
    <3>2. Head(input) = "READY" => Holds(input, "READY")
      BY <3>1 DEF Holds
    <3> QED
      BY <1>0, <3>2, TailKeeps, EmptyInput
  <2>2. TypeOK' /\ BaudOfStep' /\ ReadyIsNews'
    BY <2>1 DEF TypeOK, ScriptSteps, BaudOfStep, ReadyIsNews
  <2>3. ScriptIsFirst' /\ HeaderWaits' /\ AudioFollows'
    BY DEF ScriptIsFirst, HeaderWaits, AudioFollows
  <2> QED
    BY <2>2, <2>3
<1>3. CASE SendTrigger
  <2> USE <1>3 DEF SendTrigger
  <2>1. stimer' \in Nat /\ stimer' <= ScriptSleep + ScriptLate
    BY Delays, HandshakeAssumption
  <2>2. rx' \in Seq(Bytes)
    BY <1>0, AppendKeeps DEF Bytes
  <2>3. board \in {"boot", "waiting"}
    BY DEF ReadyIsNews
  <2>4. TypeOK' /\ BaudOfStep'
    BY <2>1, <2>2 DEF TypeOK, ScriptSteps, BaudOfStep
  <2>5. ReadyIsNews' /\ ScriptIsFirst' /\ HeaderWaits' /\ AudioFollows'
    BY <2>1, <2>3 DEF ReadyIsNews, ScriptIsFirst, HeaderWaits, AudioFollows, Delayed
  <2> QED
    BY <2>4, <2>5
<1>4. CASE SwitchBaud
  <2> USE <1>4 DEF SwitchBaud
  <2>1. stimer' \in Nat
    BY Delays, HandshakeAssumption
  <2>2. board \notin {"mic", "streaming"}
    BY DEF ScriptIsFirst
  <2> QED
    BY <2>1, <2>2, EmptyInput
       DEF TypeOK, ScriptSteps, Bauds, BaudOfStep, ReadyIsNews, ScriptIsFirst, HeaderWaits,
           AudioFollows
<1>5. CASE BeginScan
  BY <1>5, HandshakeAssumption
     DEF BeginScan, TypeOK, ScriptSteps, BaudOfStep, ReadyIsNews, ScriptIsFirst, HeaderWaits,
         AudioFollows
<1>6. CASE ScanHeader
  <2> USE <1>6 DEF ScanHeader
  <2>1. /\ input' \in Seq(Items)
        /\ \A y : Holds(input', y) => Holds(input, y)
        /\ \A y : Holds(input, y) => Head(input) = y \/ Holds(input', y)
        /\ PcmAfter(input) => PcmAfter(input')
        /\ PcmAfter(input) /\ Head(input) = "header" => Pcm(input')
    BY <1>0, TailKeeps
  <2>2. Head(input) = "header" => Holds(input, "header")
    <3>1. Head(input) = input[1] /\ 1 \in DOMAIN input
      BY <1>0, HeadTailProperties, LenProperties, EmptySeq
    <3> QED
      BY <3>1 DEF Holds
  <2>3. TypeOK' /\ BaudOfStep' /\ ReadyIsNews' /\ ScriptIsFirst'
    BY <2>1, HandshakeAssumption
       DEF TypeOK, ScriptSteps, BaudOfStep, ReadyIsNews, ScriptIsFirst
  <2>4. HeaderWaits' /\ AudioFollows'
    BY <2>1, <2>2 DEF HeaderWaits, AudioFollows
  <2> QED
    BY <2>3, <2>4
<1>7. CASE ScanTimeout
  BY <1>7 DEF ScanTimeout, TypeOK, ScriptSteps, BaudOfStep, ReadyIsNews, ScriptIsFirst,
              HeaderWaits, AudioFollows
<1>8. CASE Record
  <2> USE <1>8 DEF Record
  <2>1. /\ input' \in Seq(Items) /\ Head(input) \in Items
        /\ Pcm(input) => Pcm(input') /\ Head(input) = "pcm"
    BY <1>0, TailKeeps
  <2> QED
    BY <2>1 DEF TypeOK, BaudOfStep, ReadyIsNews, ScriptIsFirst, HeaderWaits, AudioFollows
<1>9. CASE Quit
  BY <1>9, EmptyInput DEF Quit, TypeOK, ScriptSteps, BaudOfStep, ReadyIsNews, ScriptIsFirst,
              HeaderWaits, AudioFollows
<1> QED
  BY <1>1, <1>2, <1>3, <1>4, <1>5, <1>6, <1>7, <1>8, <1>9 DEF ScriptStep

(* Time passes for both alike, and not past the moment a delay ends. *)
LEMMA TickKeeps ==
  ASSUME Handshake, Tick
  PROVE  Handshake'
<1> USE DEF Handshake, Tick
<1>1. btimer \in Nat /\ stimer \in Nat /\ btimer' \in Nat /\ stimer' \in Nat
  BY DEF TypeOK, Less
<1>2. TypeOK' /\ BaudOfStep' /\ ReadyIsNews' /\ HeaderWaits' /\ AudioFollows'
  BY <1>1 DEF TypeOK, BaudOfStep, ReadyIsNews, HeaderWaits, AudioFollows
<1>3. ScriptIsFirst'
  <2> SUFFICES ASSUME script = "sleep"
               PROVE  ScriptIsFirst'
    BY DEF ScriptIsFirst
  <2>1. stimer' = stimer - 1 /\ stimer' <= ScriptSleep + ScriptLate
    BY <1>1, HandshakeAssumption DEF NothingToDo, Less, ScriptIsFirst
  <2>2. Delayed => btimer' = btimer - 1
    BY <1>1 DEF NothingToDo, Less
  <2>3. Delayed => BoardRest' = BoardRest - 1 /\ BoardRest \in Int
    BY <1>1, <2>2, HandshakeAssumption DEF BoardRest, Delayed
  <2>4. Delayed => stimer' < BoardRest'
    BY <1>1, <2>1, <2>3 DEF ScriptIsFirst
  <2> QED
    BY <2>1, <2>4 DEF ScriptIsFirst, Delayed
<1> QED
  BY <1>2, <1>3

-----------------------------------------------------------------------------
(* The theorems *)

LEMMA InitHandshake == Init => Handshake
<1> SUFFICES ASSUME Init
             PROVE  Handshake
  OBVIOUS
<1>1. TypeOK
  BY EmptyInput DEF Init, TypeOK, BoardSteps, ScriptSteps, Bauds
<1>2. BaudOfStep /\ ReadyIsNews /\ ScriptIsFirst /\ HeaderWaits /\ AudioFollows
  BY DEF Init, BaudOfStep, ReadyIsNews, ScriptIsFirst, HeaderWaits, AudioFollows
<1> QED
  BY <1>1, <1>2 DEF Handshake

LEMMA NextKeepsHandshake == Handshake /\ [Next]_vars => Handshake'
<1> SUFFICES ASSUME Handshake, [Next]_vars
             PROVE  Handshake'
  OBVIOUS
<1>1. CASE UNCHANGED vars
  BY <1>1 DEF vars, boardVars, scriptVars, Handshake, TypeOK, BaudOfStep, ReadyIsNews,
     ScriptIsFirst, BoardRest, Delayed, HeaderWaits, AudioFollows
<1>2. CASE Next
  BY <1>2, SilentBoardKeeps, WritingBoardKeeps, BoardReadKeeps, ResetKeeps, ScriptKeeps,
     TickKeeps DEF Next, BoardStep
<1> QED
  BY <1>1, <1>2

LEMMA AlwaysHandshake == Spec => []Handshake
BY InitHandshake, NextKeepsHandshake, PTL DEF Spec

(* Every variable keeps its type. *)
THEOREM HandshakeTypes == Spec => []TypeOK
BY AlwaysHandshake, PTL DEF Handshake

(* The script that has sent the trigger does not miss the header, whatever *)
(* the delays, as long as it wakes up before the board's three delays are  *)
(* over: the header comes after the change of baud rate and the flush.     *)
THEOREM AlwaysHeaderNotMissed == Spec => []HeaderNotMissed
<1>1. Handshake => HeaderNotMissed
  BY DEF Handshake, HeaderNotMissed, Awaiting, ReadyIsNews, ScriptIsFirst, HeaderWaits, Holds
<1> QED
  BY <1>1, AlwaysHandshake, PTL

(* What is recorded is audio, unless the board is reset. *)
THEOREM AlwaysOnlyAudioRecorded == Spec => []OnlyAudioRecorded
<1>1. Handshake => OnlyAudioRecorded
  BY DEF Handshake, OnlyAudioRecorded, AudioFollows
<1> QED
  BY <1>1, AlwaysHandshake, PTL
=============================================================================

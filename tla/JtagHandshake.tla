--------------------------- MODULE JtagHandshake ---------------------------
(***************************************************************************)
(* The handshake of examples/uart-jtag: the board (main/app_main.c) and    *)
(* the script on the PC (mic_audio_rcv.py) over USB.                       *)
(*                                                                         *)
(* There is no baud rate and nothing to time: the script reads the board's *)
(* answer to the trigger, and the header after it, from one ordered        *)
(* stream.  What is left is what the board takes for the trigger, and when *)
(* the script flushes its input.                                           *)
(***************************************************************************)
EXTENDS Integers, Sequences

CONSTANTS
  AckLines,      \* lines send_trigger() reads for the acknowledgement (10)
  MaxResets,     \* bound of the model: resets of the board in one run of the script
  MaxStray       \* bound of the model: stray bytes in the board's RX buffer

ASSUME JtagAssumption ==
  /\ AckLines \in Nat \ {0} /\ MaxResets \in Nat /\ MaxStray \in Nat

VARIABLES
  board, quiet, rx,        \* the board: step of app_main, logging off, unread bytes
  script, lines, audio,    \* the script: step of main, lines left, recorded items
  input,                   \* bytes on their way to the script, or not read by it
  resets,                  \* of the board since the script opened the port
  resetsOnOpen,            \* which board it is: does opening the port reset it?
  foreign                  \* history: a byte that is not of this run of the script
                           \* has reached the board

boardVars  == <<board, quiet, rx>>
scriptVars == <<script, lines, audio>>
kind       == <<resetsOnOpen, foreign>>
vars       == <<boardVars, scriptVars, input, resets, kind>>

Bytes == {"trigger", "stray"}         \* what the script sends (0x01); anything else
Items == {"READY", "Trigger", "text", "header", "pcm"}

BoardSteps  == {"boot", "waiting", "hush", "mic", "streaming"}
ScriptSteps == {"closed", "wait", "flush", "ack", "header", "streaming", "failed"}

IsOpen == script \notin {"closed", "failed"}

Init ==
  /\ board = "boot" /\ quiet = FALSE /\ rx = << >>
  /\ script = "closed" /\ lines = 0 /\ audio = {}
  /\ input = << >> /\ resets = 0 /\ resetsOnOpen \in BOOLEAN /\ foreign = FALSE

-----------------------------------------------------------------------------
(* The board *)

(* A run of equal items is one. *)
Received(buf, x) == IF buf # << >> /\ buf[Len(buf)] = x THEN buf ELSE Append(buf, x)

Send(x) == input' = IF IsOpen THEN Received(input, x) ELSE input
Log(x)  == IF quiet THEN UNCHANGED input ELSE Send(x)

Boot == board' = "boot" /\ quiet' = FALSE /\ rx' = << >> /\ foreign' = FALSE

PressReset ==
  /\ resets < MaxResets /\ resets' = resets + 1
  /\ Boot /\ Send("text")
  /\ UNCHANGED <<scriptVars, resetsOnOpen>>

(* usb_serial_jtag_driver_install(), READY.  What arrived before is in the *)
(* peripheral's FIFO.                                                      *)
BoardReady ==
  /\ board = "boot"
  /\ board' = "waiting"
  /\ Log("READY")
  /\ UNCHANGED <<quiet, rx, scriptVars, resets, kind>>

(* MUTANT of BoardRead: logging is left on. *)
BoardReadLogs ==
  /\ board = "waiting" /\ rx # << >>
  /\ rx' = Tail(rx)
  /\ Log("Trigger")
  /\ board' = "hush"
  /\ UNCHANGED <<quiet, scriptVars, resets, kind>>

(* One byte, any byte, is the trigger.  Then logging is turned off. *)
BoardRead ==
  /\ board = "waiting" /\ rx # << >>
  /\ rx' = Tail(rx)
  /\ Log("Trigger")
  /\ quiet' = TRUE /\ board' = "hush"
  /\ UNCHANGED <<scriptVars, resets, kind>>

BoardHeader ==
  /\ board = "hush"
  /\ board' = "mic"
  /\ Send("header")
  /\ UNCHANGED <<quiet, rx, scriptVars, resets, kind>>

(* i2s_mic_init() and i2s_mic_start() under ESP_ERROR_CHECK, which aborts. *)
MicSetup ==
  /\ board = "mic"
  /\ \/ board' = "streaming" /\ UNCHANGED <<quiet, rx, input, resets, foreign>>
     \/ /\ resets < MaxResets /\ resets' = resets + 1
        /\ Send("text") /\ Boot
  /\ UNCHANGED <<scriptVars, resetsOnOpen>>

(* audio_sender_task, with its complaint about a short write *)
SendAudio ==
  /\ board = "streaming"
  /\ Send("pcm") \/ Log("text")
  /\ UNCHANGED <<boardVars, scriptVars, resets, kind>>

(* overflow_report_task *)
ReportOverflow ==
  /\ board = "streaming"
  /\ Log("text")
  /\ UNCHANGED <<boardVars, scriptVars, resets, kind>>

(* A byte another program on the PC wrote to the port. *)
StrayByte ==
  /\ board \in {"boot", "waiting"} /\ Len(rx) < MaxStray
  /\ rx' = Append(rx, "stray") /\ foreign' = TRUE
  /\ UNCHANGED <<board, quiet, scriptVars, input, resets, resetsOnOpen>>

-----------------------------------------------------------------------------
(* The script *)

ScriptGoto(step) == script' = step

OpenPort ==
  /\ ~IsOpen
  /\ ScriptGoto("wait") /\ audio' = {} /\ resets' = 0
  /\ IF resetsOnOpen
     THEN Boot /\ input' = <<"text">>
     ELSE input' = << >> /\ foreign' = (foreign \/ rx # << >>) /\ UNCHANGED boardVars
  /\ UNCHANGED <<lines, resetsOnOpen>>

(* One pass of the loop of wait_for_ready(). *)
WaitForReady ==
  /\ script = "wait" /\ input # << >>
  /\ input' = Tail(input)
  /\ IF Head(input) = "READY" THEN ScriptGoto("flush") ELSE UNCHANGED script
  /\ UNCHANGED <<boardVars, lines, audio, resets, kind>>

(* reset_input_buffer(), then the byte. *)
SendTrigger ==
  /\ script = "flush"
  /\ input' = << >>
  /\ rx' = IF board \in {"boot", "waiting"} THEN Append(rx, "trigger") ELSE rx
  /\ ScriptGoto("ack") /\ lines' = AckLines
  /\ UNCHANGED <<board, quiet, audio, resets, kind>>

(* The board has nothing to say within the timeout (5 s). *)
Silence ==
  /\ input = << >>
  /\ board \in {"boot", "streaming"} \/ (board = "waiting" /\ rx = << >>)

(* MUTANT of ReadAck: the acknowledgement is not looked at; all ten lines  *)
(* are read.                                                               *)
ReadAckAll ==
  /\ script = "ack"
  /\ \/ input # << >> /\ input' = Tail(input)
     \/ Silence /\ UNCHANGED input
  /\ lines' = lines - 1
  /\ IF lines = 1 THEN ScriptGoto("header") ELSE UNCHANGED script
  /\ UNCHANGED <<boardVars, audio, resets, kind>>

(* One pass of the loop of send_trigger(): a line or a timeout; at most    *)
(* AckLines of them.                                                       *)
ReadAck ==
  /\ script = "ack"
  /\ \/ /\ input # << >> /\ input' = Tail(input)
        /\ IF Head(input) = "Trigger" \/ lines = 1 THEN ScriptGoto("header")
                                                   ELSE UNCHANGED script
     \/ /\ Silence /\ UNCHANGED input
        /\ IF lines = 1 THEN ScriptGoto("header") ELSE UNCHANGED script
  /\ lines' = lines - 1
  /\ UNCHANGED <<boardVars, audio, resets, kind>>

(* find_sync_and_magic(): skips what is not a header. *)
ScanHeader ==
  /\ script = "header" /\ input # << >>
  /\ input' = Tail(input)
  /\ IF Head(input) = "header" THEN ScriptGoto("streaming") ELSE UNCHANGED script
  /\ UNCHANGED <<boardVars, lines, audio, resets, kind>>

(* TimeoutError("No sync pattern received") *)
ScanTimeout ==
  /\ script = "header" /\ Silence
  /\ ScriptGoto("failed")
  /\ UNCHANGED <<boardVars, lines, audio, input, resets, kind>>

(* run_record() or run_play() *)
Record ==
  /\ script = "streaming" /\ input # << >>
  /\ audio' = audio \cup {Head(input)} /\ input' = Tail(input)
  /\ UNCHANGED <<boardVars, script, lines, resets, kind>>

(* Ctrl+C *)
Quit ==
  /\ IsOpen
  /\ ScriptGoto("closed") /\ input' = << >>
  /\ UNCHANGED <<boardVars, lines, audio, resets, kind>>

-----------------------------------------------------------------------------
BoardStep  == BoardReady \/ BoardRead \/ BoardHeader \/ MicSetup
ScriptStep == WaitForReady \/ SendTrigger \/ ReadAck \/ ScanHeader \/ ScanTimeout \/ Record

Next ==
  \/ BoardStep \/ SendAudio \/ ReportOverflow \/ PressReset \/ StrayByte
  \/ OpenPort \/ ScriptStep \/ Quit

Spec == Init /\ [][Next]_vars

(* Both programs run.  Nobody has to open the port, press a button or      *)
(* leave; the microphone may be silent.                                    *)
FairSpec == Spec /\ WF_vars(BoardStep) /\ WF_vars(ScriptStep)

-----------------------------------------------------------------------------
(* Properties *)

HeaderInInput == \E i \in DOMAIN input : input[i] = "header"

(* The header is sent once and not missed: when the board has sent it, a   *)
(* script that has seen READY has it in its input, or has read it.  That   *)
(* takes a board that gets no byte but this script's (app_main.c 223-243,  *)
(* mic_audio_rcv.py 57-108).                                               *)
HeaderNotMissed ==
  (board \in {"mic", "streaming"} /\ script \in {"flush", "ack", "header"} /\ ~foreign)
    => HeaderInInput

(* uart-jtag/README.md 123: a stray byte does not leave the script waiting *)
(* for a header that has gone out already.                                 *)
StrayIgnored ==
  (board \in {"mic", "streaming"} /\ script \in {"flush", "ack", "header"})
    => HeaderInInput

(* What the script plays or writes to the file after the header is audio   *)
(* and nothing else, whatever reached the board, unless the board is reset *)
(* under it (app_main.c 237-240).                                          *)
OnlyAudioRecorded == resets = 0 => audio \subseteq {"pcm"}

(* Where opening the port resets the board, a script that waits for READY  *)
(* gets to the audio, unless the board is reset again, somebody else sends *)
(* to it or the user leaves (mic_audio_rcv.py 47-69).                      *)
OpenGetsAudio ==
  (script = "wait" /\ resetsOnOpen)
    ~> script \in {"streaming", "closed"} \/ resets > 0 \/ foreign
=============================================================================

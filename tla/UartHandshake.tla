--------------------------- MODULE UartHandshake ---------------------------
(***************************************************************************)
(* The handshake of examples/uart: the board (main/app_main.c) and the     *)
(* script on the PC (mic_audio_rcv.py) over one serial line.               *)
(*                                                                         *)
(* The two agree on nothing but time: after the trigger byte the board     *)
(* changes its baud rate and sends the header once, after three delays;    *)
(* the script sleeps, drops what it has received, changes its own baud     *)
(* rate and looks for the header.                                          *)
(*                                                                         *)
(* Time is discrete; a unit is a FreeRTOS tick.  A byte is decoded by the  *)
(* receiver's baud rate of the moment it is sent; what was sent at another *)
(* rate is received as garbage.                                            *)
(***************************************************************************)
EXTENDS Integers, Sequences

CONSTANTS
  SwitchDelay,   \* vTaskDelay(600 ms) of the board, in ticks
  SettleDelay,   \* vTaskDelay(100 ms)
  QuietDelay,    \* vTaskDelay(50 ms)
  BoardLate,     \* how much longer a step of the board may take
  ScriptSleep,   \* time.sleep(0.7) of the script
  ScriptSettle,  \* time.sleep(0.1)
  ScriptLate,    \* how much later the script may wake up
  ReadTimeout,   \* timeout of the script's reads (30 s)
  ResetsOnOpen,  \* opening the port resets the board (DTR/RTS tied to EN)
  MaxResets,     \* bound of the model: resets of the board in one run of the script
  MaxRx          \* bound of the model: unread bytes in the board's RX ring

(* A delay of n ticks ends after n - 1 to n ticks: it begins within one.   *)
(* The last conjunct is the requirement the comment at mic_audio_rcv.py    *)
(* 197 is half of: the script must have changed its baud rate before the   *)
(* board sends the header.                                                 *)
ASSUME HandshakeAssumption ==
  /\ SwitchDelay \in Nat \ {0} /\ SettleDelay \in Nat \ {0} /\ QuietDelay \in Nat \ {0}
  /\ BoardLate \in Nat /\ ScriptLate \in Nat
  /\ ScriptSleep \in Nat /\ ScriptSettle \in Nat /\ ReadTimeout \in Nat
  /\ MaxResets \in Nat /\ MaxRx \in Nat
  /\ ResetsOnOpen \in BOOLEAN
  /\ ScriptSleep + ScriptLate <
       (SwitchDelay - 1) + (SettleDelay - 1) + (QuietDelay - 1)

VARIABLES
  \* the board: step of app_main, rest of its delay, baud rate of UART0,
  \* whether logging is off, unread bytes
  board, btimer, bbaud, quiet, rx,
  \* the script: step of main, rest of its delay or timeout, baud rate,
  \* unread input, what it has taken for audio
  script, stimer, sbaud, input, audio,
  \* resets since the script was opened, not counting the one by opening it
  resets

boardVars  == <<board, btimer, bbaud, quiet, rx>>
scriptVars == <<script, stimer, sbaud, audio>>
vars       == <<boardVars, scriptVars, input, resets>>

Bauds == {"handshake", "stream"}
Bytes == {"trigger", "stray"}               \* stray: any byte but TRIGGER_BYTE
Items == {"READY", "text", "garbage", "header", "pcm"}

BoardSteps  == {"boot", "waiting", "switch", "settle", "hush", "mic", "streaming"}
ScriptSteps == {"closed", "wait", "send", "sleep", "settle", "header",
                "streaming", "failed"}

IsOpen    == script \notin {"closed", "failed"}
Delayed   == board \in {"switch", "settle", "hush"}
Delay(d)  == (d - 1) .. (d + BoardLate)
Sleep(d)  == d .. (d + ScriptLate)

Init ==
  /\ board = "boot" /\ btimer = 0 /\ bbaud = "handshake" /\ quiet = FALSE
  /\ rx = << >>
  /\ script = "closed" /\ stimer = 0 /\ sbaud = "handshake" /\ audio = {}
  /\ input = << >> /\ resets = 0

-----------------------------------------------------------------------------
(* The line from the board to the PC.  A run of equal items is one. *)

Received(buf, x) == IF buf # << >> /\ buf[Len(buf)] = x THEN buf ELSE Append(buf, x)

SendAt(baud, x) ==
  input' = IF IsOpen THEN Received(input, IF baud = sbaud THEN x ELSE "garbage")
                     ELSE input

(* A log line (ESP_LOGx): nothing once logging is off. *)
Log(x) == IF quiet THEN UNCHANGED input ELSE SendAt(bbaud, x)

-----------------------------------------------------------------------------
(* The board *)

(* A reset: everything in memory is lost, the ROM writes its boot messages. *)
Boot ==
  /\ board' = "boot" /\ btimer' = 0 /\ bbaud' = "handshake" /\ quiet' = FALSE
  /\ rx' = << >>

(* The reset button. *)
PressReset ==
  /\ resets < MaxResets /\ resets' = resets + 1
  /\ Boot
  /\ SendAt("handshake", "text")
  /\ UNCHANGED scriptVars

(* uart_driver_install() and, at once, READY: printed this one time. *)
BoardReady ==
  /\ board = "boot"
  /\ board' = "waiting" /\ rx' = << >>
  /\ Log("READY")
  /\ UNCHANGED <<btimer, bbaud, quiet, scriptVars, resets>>

(* The handshake's next step begins with a delay of d ticks. *)
BoardGoto(step, d) == board' = step /\ btimer' \in Delay(d)

(* MUTANT of IsTrigger: the first byte is taken for the trigger. *)
IsTriggerAny(x) == TRUE
IsTrigger(x) == x = "trigger"

(* One pass of the loop that reads a byte. *)
BoardRead ==
  /\ board = "waiting" /\ rx # << >>
  /\ rx' = Tail(rx)
  /\ IF IsTrigger(Head(rx))
       THEN BoardGoto("switch", SwitchDelay) /\ Log("text")
       ELSE UNCHANGED <<board, btimer, input>>
  /\ UNCHANGED <<bbaud, quiet, scriptVars, resets>>

(* uart_param_config() *)
BoardSwitch ==
  /\ board = "switch" /\ btimer = 0
  /\ bbaud' = "stream"
  /\ BoardGoto("settle", SettleDelay)
  /\ UNCHANGED <<quiet, rx, scriptVars, input, resets>>

(* MUTANT of BoardHush: logging is left on. *)
BoardHushLogs ==
  /\ board = "settle" /\ btimer = 0
  /\ BoardGoto("hush", QuietDelay)
  /\ UNCHANGED <<bbaud, quiet, rx, scriptVars, input, resets>>

(* esp_log_level_set("*", ESP_LOG_NONE) *)
BoardHush ==
  /\ board = "settle" /\ btimer = 0
  /\ quiet' = TRUE
  /\ BoardGoto("hush", QuietDelay)
  /\ UNCHANGED <<bbaud, rx, scriptVars, input, resets>>

BoardHeader ==
  /\ board = "hush" /\ btimer = 0
  /\ board' = "mic"
  /\ SendAt(bbaud, "header")
  /\ UNCHANGED <<btimer, bbaud, quiet, rx, scriptVars, resets>>

(* i2s_mic_init() and i2s_mic_start() under ESP_ERROR_CHECK: an error     *)
(* aborts, which prints whatever the log level and reboots.                *)
MicSetup ==
  /\ board = "mic"
  /\ \/ /\ board' = "streaming"
        /\ UNCHANGED <<btimer, bbaud, quiet, rx, input, resets>>
     \/ /\ resets < MaxResets /\ resets' = resets + 1
        /\ SendAt(bbaud, "text")
        /\ Boot
  /\ UNCHANGED scriptVars

(* audio_sender_task: a buffer is written, or written short and complained *)
(* about.                                                                  *)
SendAudio ==
  /\ board = "streaming"
  /\ \/ SendAt(bbaud, "pcm")
     \/ Log("text")
  /\ UNCHANGED <<boardVars, scriptVars, resets>>

(* overflow_report_task, when the count has changed *)
ReportOverflow ==
  /\ board = "streaming"
  /\ Log("text")
  /\ UNCHANGED <<boardVars, scriptVars, resets>>

(* A byte that is not the trigger reaches the RX pin. *)
StrayByte ==
  /\ board = "waiting" /\ Len(rx) < MaxRx
  /\ rx' = Append(rx, "stray")
  /\ UNCHANGED <<board, btimer, bbaud, quiet, scriptVars, input, resets>>

-----------------------------------------------------------------------------
(* The script *)

ScriptGoto(step) == script' = step

(* serial.Serial(...), dtr, rts.  Opening flushes the input; the boot      *)
(* messages of a reset it causes come after that.                          *)
OpenPort ==
  /\ ~IsOpen
  /\ ScriptGoto("wait") /\ sbaud' = "handshake" /\ audio' = {} /\ resets' = 0
  /\ stimer' = 0
  /\ IF ResetsOnOpen THEN Boot /\ input' = <<"text">>
                     ELSE input' = << >> /\ UNCHANGED boardVars

(* MUTANT of WaitForReady: any line will do. *)
WaitForReadyAnyLine ==
  /\ script = "wait" /\ input # << >>
  /\ ScriptGoto("send") /\ input' = << >>
  /\ UNCHANGED <<boardVars, stimer, sbaud, audio, resets>>

(* One pass of the loop of wait_for_ready(); READY also flushes the input. *)
WaitForReady ==
  /\ script = "wait" /\ input # << >>
  /\ IF Head(input) = "READY" THEN ScriptGoto("send") /\ input' = << >>
                              ELSE input' = Tail(input) /\ UNCHANGED script
  /\ UNCHANGED <<boardVars, stimer, sbaud, audio, resets>>

(* send_trigger().  Before the driver is installed the byte is lost. *)
SendTrigger ==
  /\ script = "send"
  /\ ScriptGoto("sleep") /\ stimer' \in Sleep(ScriptSleep)
  /\ rx' = IF board = "waiting" /\ bbaud = sbaud THEN Append(rx, "trigger") ELSE rx
  /\ UNCHANGED <<board, btimer, bbaud, quiet, sbaud, audio, input, resets>>

(* reset_input_buffer() and the change of the baud rate.  What arrives     *)
(* between the two is lost either way, dropped or garbled, so that one     *)
(* step, at the time of the second, is exact.                              *)
SwitchBaud ==
  /\ script = "sleep" /\ stimer = 0
  /\ input' = << >> /\ sbaud' = "stream"
  /\ ScriptGoto("settle") /\ stimer' \in Sleep(ScriptSettle)
  /\ UNCHANGED <<boardVars, audio, resets>>

(* MUTANT of BeginScan: the input is flushed after the settling time. *)
BeginScanFlush ==
  /\ script = "settle" /\ stimer = 0
  /\ ScriptGoto("header") /\ stimer' = ReadTimeout /\ input' = << >>
  /\ UNCHANGED <<boardVars, sbaud, audio, resets>>

BeginScan ==
  /\ script = "settle" /\ stimer = 0
  /\ ScriptGoto("header") /\ stimer' = ReadTimeout
  /\ UNCHANGED <<boardVars, sbaud, audio, input, resets>>

(* find_sync_and_magic() skips what is not a header; every byte restarts   *)
(* the timeout.                                                            *)
ScanHeader ==
  /\ script = "header" /\ input # << >>
  /\ input' = Tail(input) /\ stimer' = ReadTimeout
  /\ IF Head(input) = "header" THEN ScriptGoto("streaming") ELSE UNCHANGED script
  /\ UNCHANGED <<boardVars, sbaud, audio, resets>>

(* TimeoutError("No sync pattern received") *)
ScanTimeout ==
  /\ script = "header" /\ input = << >> /\ stimer = 0
  /\ ScriptGoto("failed")
  /\ UNCHANGED <<boardVars, stimer, sbaud, audio, input, resets>>

(* run_record() or run_play() *)
Record ==
  /\ script = "streaming" /\ input # << >>
  /\ audio' = audio \cup {Head(input)} /\ input' = Tail(input)
  /\ UNCHANGED <<boardVars, script, stimer, sbaud, resets>>

(* Ctrl+C *)
Quit ==
  /\ IsOpen
  /\ ScriptGoto("closed") /\ input' = << >>
  /\ UNCHANGED <<boardVars, stimer, sbaud, audio, resets>>

-----------------------------------------------------------------------------
(* Time passes while nobody has anything to do.  How late a step may be is *)
(* in the delays.  Stray bytes do not hold it up: each takes time itself.  *)
NothingToDo ==
  /\ ~(Delayed /\ btimer = 0)
  /\ ~(board = "waiting" /\ \E i \in DOMAIN rx : IsTrigger(rx[i]))
  /\ ~(script \in {"sleep", "settle", "header"} /\ stimer = 0)
  /\ ~(script = "header" /\ input # << >>)

Less(t) == IF t = 0 THEN 0 ELSE t - 1

Tick ==
  /\ NothingToDo /\ (btimer > 0 \/ stimer > 0)
  /\ btimer' = Less(btimer) /\ stimer' = Less(stimer)
  /\ UNCHANGED <<board, bbaud, quiet, rx, script, sbaud, audio, input, resets>>

BoardStep ==
  \/ BoardReady \/ BoardRead \/ BoardSwitch \/ BoardHush \/ BoardHeader
  \/ MicSetup

ScriptStep ==
  \/ WaitForReady \/ SendTrigger \/ SwitchBaud \/ BeginScan
  \/ ScanHeader \/ ScanTimeout \/ Record

Next ==
  \/ BoardStep \/ SendAudio \/ ReportOverflow \/ PressReset \/ StrayByte
  \/ OpenPort \/ ScriptStep \/ Quit \/ Tick

Spec == Init /\ [][Next]_vars

(* The board runs, the script runs, time passes.  Nobody has to open the   *)
(* port, press a button or leave; the microphone may be silent.            *)
FairSpec == Spec /\ WF_vars(BoardStep) /\ WF_vars(ScriptStep) /\ WF_vars(Tick)

-----------------------------------------------------------------------------
(* Properties *)

TypeOK ==
  /\ board \in BoardSteps /\ btimer \in Nat /\ bbaud \in Bauds
  /\ quiet \in BOOLEAN /\ rx \in Seq(Bytes)
  /\ script \in ScriptSteps /\ stimer \in Nat /\ sbaud \in Bauds
  /\ audio \subseteq Items /\ input \in Seq(Items) /\ resets \in Nat

(* The header is sent once and never missed: when the board has sent it, a *)
(* script that has sent the trigger is past the flush and has the header   *)
(* in its input, readable, or has read it.  (app_main.c 223-257,           *)
(* mic_audio_rcv.py 194-205; app_main.c 57-60 is why it matters.)          *)
Awaiting == script \in {"send", "sleep", "settle", "header"}
HeaderNotMissed ==
  board \in {"mic", "streaming"} /\ Awaiting
    => \E i \in DOMAIN input : input[i] = "header"

(* What the script plays or writes to the file after the header is audio   *)
(* and nothing else, unless the board is reset under it: no log line gets  *)
(* into the stream (app_main.c 247-250).                                   *)
OnlyAudioRecorded == resets = 0 => audio \subseteq {"pcm"}

(* A script that has sent its trigger gets the header, gives up or is      *)
(* stopped: it does not look for a header for ever in a stream that goes   *)
(* on (mic_audio_rcv.py 92-108).                                           *)
SearchEnds ==
  script \in {"sleep", "settle", "header"} ~>
    script \in {"streaming", "failed", "closed"}

(* Where opening the port resets the board, a script that waits for READY  *)
(* gets to the audio, unless the board is reset again or the user leaves:  *)
(* it never gives up by itself (mic_audio_rcv.py 49-70).                   *)
OpenGetsAudio ==
  script = "wait" ~> script \in {"streaming", "closed"} \/ resets > 0

(* What the README tells the user to do works: once READY has been seen,   *)
(* run the script.  (examples/uart/README.md 77-79.)                       *)
ScriptAfterReady ==
  board = "waiting" /\ script = "wait" ~>
    script \in {"streaming", "closed"} \/ resets > 0
=============================================================================

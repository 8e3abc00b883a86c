----------------------------- MODULE LiveRelay -----------------------------
(***************************************************************************)
(* examples/loopback-dual-i2s: a relay task passes each buffer of i2s_mic  *)
(* to i2s_spk, and a status task logs the losses of both sides.            *)
(*                                                                         *)
(* i2s_mic is the lossy stream of MicStream, which I2SMic implements.      *)
(* i2s_spk is not part of the repository: a send takes any number of the   *)
(* whole frames it is offered and may report an error.  A frame is its     *)
(* place in the stream of captures.                                        *)
(***************************************************************************)
EXTENDS Naturals

CONSTANTS
  Frames,       \* frames of one buffer, BUF_FRAMES
  Depth,        \* captures that can wait to be read
  MaxCaptures   \* bound of the model: captures, then the microphone is silent

ASSUME RelayAssumption == {Frames, Depth, MaxCaptures} \subseteq Nat \ {0}

(* More short writes than there are frames to write are not told apart.    *)
MaxShort == Frames * MaxCaptures + 1

VARIABLES
  live, next, waiting, lost, pending, held, got,   \* i2s_mic
  setup,           \* app_main(): its next step
  pc, out, sent,   \* the relay: next step, first frame of its buffer, frames sent
  took, failed,    \*   this_sent, and whether the send answered an error
  short,           \* s_short_write_count
  status, lastLost, lastShort, nowLost, nowShort,  \* the status task
  \* history: the frame the speaker expects, whether it ever got another one,
  \* whether it had when the status task last read `lost`, what was logged
  heard, gap, gapRead, logged

Mic == INSTANCE MicStream WITH Readers <- {"relay"}

micVars    == <<live, next, waiting, lost, pending, held, got>>
relayVars  == <<pc, out, sent, took, failed, short, heard, gap>>
statusVars == <<status, lastLost, lastShort, nowLost, nowShort, gapRead, logged>>
vars       == <<micVars, setup, relayVars, statusVars>>

Init ==
  /\ Mic!Init
  /\ setup = "init_mic"
  /\ pc = "none" /\ out = 0 /\ sent = 0 /\ took = 0 /\ failed = FALSE /\ short = 0
  /\ status = "none" /\ lastLost = 0 /\ lastShort = 0 /\ nowLost = 0 /\ nowShort = 0
  /\ heard = 0 /\ gap = FALSE /\ gapRead = FALSE /\ logged = FALSE

-----------------------------------------------------------------------------
(* app_main() *)

SetUp(here, then) == setup = here /\ setup' = then /\ UNCHANGED <<relayVars, statusVars>>

InitBoth  == SetUp("init_mic", "reset_mic") /\ Mic!NewChannel
ResetMic  == SetUp("reset_mic", "start_mic") /\ Mic!ResetCount
StartMic  == SetUp("start_mic", "start_spk") /\ Mic!Start

(* i2s_spk_start() and the two tasks.  The microphone has been running     *)
(* for a while.                                                            *)
StartTasks ==
  /\ setup = "start_spk" /\ setup' = "done"
  /\ pc' = "read" /\ status' = "sleep" /\ heard' = Frames * (next - waiting)
  /\ UNCHANGED <<micVars, out, sent, took, failed, short, gap,
                 lastLost, lastShort, nowLost, nowShort, gapRead, logged>>

(* ESP_ERROR_CHECK: a call that fails restarts the chip.                   *)
Abort ==
  /\ setup # "done" /\ setup' = "init_mic"
  /\ live' = FALSE /\ next' = 0 /\ waiting' = 0 /\ lost' = 0
  /\ UNCHANGED <<pending, held, got, relayVars, statusVars>>

-----------------------------------------------------------------------------
(* audio_relay_task() *)

BeginRead ==
  /\ pc = "read" /\ Mic!BeginRead("relay") /\ pc' = "reading"
  /\ UNCHANGED <<setup, out, sent, took, failed, short, heard, gap, statusVars>>

(* The read waits for ever, and capture is never stopped.                  *)
EndRead ==
  /\ pc = "reading" /\ held # {} /\ Mic!EndRead("relay")
  /\ out' = Frames * (CHOOSE c \in held : TRUE) /\ sent' = 0 /\ pc' = "send"
  /\ UNCHANGED <<setup, took, failed, short, heard, gap, statusVars>>

\* MUTANT of Offered: a short write is repeated from the start of the buffer.
OfferedFromStart == out

Offered == out + sent

Rest == Frames - sent

(* i2s_spk_send_buffer() takes n frames; e says whether it fails as well.  *)
Send(n, e) ==
  /\ pc = "send" /\ pc' = "sent"
  /\ took' = n /\ failed' = e
  /\ heard' = IF n > 0 THEN Offered + n ELSE heard
  /\ gap' = (gap \/ (n > 0 /\ Offered # heard))
  /\ UNCHANGED <<micVars, setup, out, sent, short, statusVars>>

\* MUTANT of IsShort: an error is not counted as a short write.
IsShortIfOK == took < Rest /\ ~failed

IsShort == took < Rest

\* MUTANT of LeavesBuffer: a buffer is sent until all of it is taken.
LeavesBufferSent == took = Rest

LeavesBuffer == failed \/ took = 0 \/ took = Rest

AfterSend ==
  /\ pc = "sent"
  /\ short' = IF IsShort /\ short < MaxShort THEN short + 1 ELSE short
  /\ IF LeavesBuffer THEN pc' = "read" /\ out' = 0 /\ sent' = 0
                     ELSE pc' = "send" /\ sent' = sent + took /\ UNCHANGED out
  /\ took' = 0 /\ failed' = FALSE
  /\ UNCHANGED <<micVars, setup, heard, gap, statusVars>>

-----------------------------------------------------------------------------
(* status_report_task().  It looks at the two counts one after the other.  *)

ReadLost ==
  /\ status = "sleep" /\ status' = "lost"
  /\ nowLost' = lost /\ gapRead' = gap
  /\ UNCHANGED <<micVars, setup, relayVars, lastLost, lastShort, nowShort, logged>>

ReadShort ==
  /\ status = "lost" /\ status' = "compare" /\ nowShort' = short
  /\ UNCHANGED <<micVars, setup, relayVars, lastLost, lastShort, nowLost, gapRead, logged>>

\* MUTANT of Changed: only the microphone's losses are looked at.
ChangedLost == nowLost # lastLost

Changed == nowLost # lastLost \/ nowShort # lastShort

Report ==
  /\ status = "compare" /\ status' = "sleep"
  /\ IF Changed THEN lastLost' = nowLost /\ lastShort' = nowShort /\ logged' = TRUE
                ELSE UNCHANGED <<lastLost, lastShort, logged>>
  /\ nowLost' = 0 /\ nowShort' = 0
  /\ UNCHANGED <<micVars, setup, relayVars, gapRead>>

-----------------------------------------------------------------------------
(* The microphone: audio arrives, or a pending read fetches some.          *)
Capture == next < MaxCaptures /\ Mic!Capture /\ UNCHANGED <<setup, relayVars, statusVars>>
Fetch   == Mic!Fetch /\ UNCHANGED <<setup, relayVars, statusVars>>

AppMain == InitBoth \/ ResetMic \/ StartMic \/ StartTasks
Relay   == BeginRead \/ Fetch \/ EndRead \/ AfterSend
             \/ \E n \in 0 .. Rest, e \in BOOLEAN : Send(n, e)
Status  == ReadLost \/ ReadShort \/ Report

Next == AppMain \/ Relay \/ Status \/ Capture \/ Abort

Spec == Init /\ [][Next]_vars
FairSpec == Spec /\ WF_vars(AppMain) /\ WF_vars(Relay) /\ WF_vars(Status)

-----------------------------------------------------------------------------
(* The log has stayed quiet: then no audio was lost between microphone and *)
(* speaker, as far as it was heard when the status task looked at the      *)
(* counts (README 102-104, lines 177-194).                                 *)
QuietLogMeansWhole == (status = "sleep" /\ ~logged) => ~gapRead

(* Where the frames are: what the speaker expects next follows everything  *)
(* it got, everything the driver counted as lost and at most one buffer    *)
(* for each short write (lines 141-175).                                   *)
InRelay == IF pc \in {"send", "sent"} THEN Frames - sent - took ELSE Frames * (IF held = {} THEN 0 ELSE 1)
Unheard == Frames * (next - waiting) - InRelay - heard
OnlyCountedLoss ==
  setup = "done" => Unheard <= Frames * (lost + short)

(* The relay neither repeats nor reorders: what the speaker gets is always *)
(* later than what it got (lines 155-173).                                 *)
NothingTwice == [][(pc = "send" /\ pc' = "sent" /\ took' > 0) => Offered >= heard]_vars

(* A relay that fell behind catches up when the sound pauses, whatever the *)
(* speaker does (README 38-42, lines 158-173).                             *)
CatchesUp == <>[](setup = "done" => waiting = 0 /\ pc = "reading")

(* Every loss and every short write reaches the log (README 41-42 and      *)
(* 102-104, lines 182-192).                                                *)
LossIsLogged == [](lost # lastLost \/ short # lastShort
                     => <>(lost = lastLost /\ short = lastShort))
=============================================================================

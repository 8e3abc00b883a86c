------------------------------ MODULE Loopback ------------------------------
(***************************************************************************)
(* examples/loopback_example: one task records with i2s_mic, then plays    *)
(* the recording with i2s_spk on the same I2S controller, and again.       *)
(*                                                                         *)
(* i2s_mic is the lossy stream of MicStream, which I2SMic implements.      *)
(* i2s_spk is not part of the repository: it claims the controller from    *)
(* init to deinit, any of its calls may fail, and a send takes any number  *)
(* of whole samples.  A sample is the place of its frame in the stream of  *)
(* captures; lengths and offsets are in samples.  What belongs to one      *)
(* phase only is cleared at its end.                                       *)
(***************************************************************************)
EXTENDS Naturals, Sequences

CONSTANTS
  Frames,         \* BUF_FRAMES: samples that one capture gives
  RecordSamples,  \* RECORD_SAMPLES
  Chunk,          \* SPK_CHUNK_BYTES
  Depth,          \* captures that can wait to be read
  MaxCaptures     \* bound of the model: captures of one recording

ASSUME LoopbackAssumption ==
  {Frames, RecordSamples, Chunk, Depth, MaxCaptures} \subseteq Nat \ {0}

VARIABLES
  live, next, waiting, lost, pending, held, got,   \* i2s_mic
  owner,     \* who holds the I2S controller
  pc, pos,   \* the task: next step, samples recorded so far
  buf,       \* s_record_buf: for each sample, the recording it is of and its
             \* place in the stream of captures
  len,       \* s_record_len
  offset, want, sent, took,   \* of the playback; took: this_sent
  logged,    \* buffers the log says were lost
  \* history: which recording this is (two of them can be told apart), what
  \* the speaker took of it, how often it took nothing, whether it failed
  take, heard, refused, failed

Mic == INSTANCE MicStream WITH Readers <- {"app"}

micVars  == <<live, next, waiting, lost, pending, held, got>>
playVars == <<offset, want, sent, took, heard, refused, failed>>
vars     == <<micVars, owner, pc, pos, buf, len, logged, take, playVars>>

NoSample == [take |-> 2, at |-> 0]    \* what malloc() happens to return

(* Reset of the chip.  The task ends at once if there is no memory.        *)
Init ==
  /\ Mic!Init
  /\ owner = "none" /\ pc \in {"init_mic", "done"} /\ pos = 0
  /\ buf = [i \in 0 .. RecordSamples - 1 |-> NoSample] /\ len = 0
  /\ offset = 0 /\ want = 0 /\ sent = 0 /\ took = 0 /\ logged = 0
  /\ take = 0 /\ heard = <<>> /\ refused = 0 /\ failed = FALSE

SmallerOf(a, b) == IF a < b THEN a ELSE b
At(here, then) == pc = here /\ pc' = then

(* ESP_ERROR_CHECK: any failure of these calls restarts the program.       *)
Checked == {"init_mic", "start_mic", "init_spk", "start_spk", "stop_spk", "deinit_spk"}
Abort ==
  /\ pc \in Checked
  /\ live' = FALSE /\ next' = 0 /\ waiting' = 0 /\ lost' = 0
  /\ pending' = {} /\ held' = {} /\ got' = [r \in {"app"} |-> FALSE]
  /\ owner' = "none" /\ pc' \in {"init_mic", "done"} /\ pos' = 0
  /\ buf' = [i \in 0 .. RecordSamples - 1 |-> NoSample] /\ len' = 0
  /\ offset' = 0 /\ want' = 0 /\ sent' = 0 /\ took' = 0 /\ logged' = 0
  /\ take' = 0 /\ heard' = <<>> /\ refused' = 0 /\ failed' = FALSE

-----------------------------------------------------------------------------
(* run_record_phase() *)

InitMic ==
  /\ At("init_mic", "reset_mic") /\ owner = "none"
  /\ owner' = "mic" /\ Mic!NewChannel
  /\ UNCHANGED <<pos, buf, len, logged, take, playVars>>

ResetMic ==
  /\ At("reset_mic", "start_mic") /\ Mic!ResetCount
  /\ UNCHANGED <<owner, pos, buf, len, logged, take, playVars>>

StartMic ==
  /\ At("start_mic", "record") /\ Mic!Start
  /\ UNCHANGED <<owner, pos, buf, len, logged, take, playVars>>

BeginRead ==
  /\ At("record", "read") /\ pos < RecordSamples /\ Mic!BeginRead("app")
  /\ UNCHANGED <<owner, pos, buf, len, logged, take, playVars>>

\* MUTANT of Kept: the last buffer is stored whole.
KeptWhole == Frames

(* Of the last buffer only what there is room for.                         *)
Kept == SmallerOf(Frames, RecordSamples - pos)

(* A buffer is converted into the recording.                               *)
ReadOK ==
  /\ At("read", "record") /\ held # {} /\ Mic!EndRead("app")
  /\ buf' = [i \in DOMAIN buf \cup (pos .. pos + Kept - 1) |->
               IF i \in pos .. pos + Kept - 1
               THEN [take |-> take, at |-> Frames * (CHOOSE c \in held : TRUE) + i - pos]
               ELSE buf[i]]
  /\ pos' = pos + Kept
  /\ UNCHANGED <<owner, len, logged, take, playVars>>

(* One read that fails, for lack of audio, ends the recording.             *)
ReadFails ==
  /\ At("read", "count") /\ held = {} /\ Mic!EndRead("app")
  /\ UNCHANGED <<owner, pos, buf, len, logged, take, playVars>>

Recorded ==
  /\ At("record", "count") /\ pos >= RecordSamples
  /\ UNCHANGED <<micVars, owner, pos, buf, len, logged, take, playVars>>

\* MUTANT of CountLost: a recording that was cut short reports no loss.
CountLostIfComplete ==
  /\ At("count", "stop_mic") /\ logged' = (IF pos < RecordSamples THEN 0 ELSE lost)
  /\ UNCHANGED <<micVars, owner, pos, buf, len, take, playVars>>

CountLost ==
  /\ At("count", "stop_mic") /\ logged' = lost
  /\ UNCHANGED <<micVars, owner, pos, buf, len, take, playVars>>

\* MUTANT of StopMic: after a failed read the microphone is not taken down.
StopMicReturnsEarly ==
  /\ At("stop_mic", IF pos < RecordSamples THEN "init_spk" ELSE "deinit_mic") /\ Mic!Stop
  /\ len' = pos
  /\ UNCHANGED <<owner, pos, buf, logged, take, playVars>>

StopMic ==
  /\ At("stop_mic", "deinit_mic") /\ Mic!Stop
  /\ UNCHANGED <<owner, pos, buf, len, logged, take, playVars>>

\* MUTANT of DeinitMic: the recording is taken to be complete.
DeinitMicFull ==
  /\ At("deinit_mic", "init_spk") /\ Mic!NewChannel /\ owner' = "none"
  /\ len' = RecordSamples /\ pos' = 0 /\ logged' = 0
  /\ UNCHANGED <<buf, take, playVars>>

DeinitMic ==
  /\ At("deinit_mic", "init_spk") /\ Mic!NewChannel /\ owner' = "none"
  /\ len' = pos /\ pos' = 0 /\ logged' = 0
  /\ UNCHANGED <<buf, take, playVars>>

-----------------------------------------------------------------------------
(* run_playback_phase() *)

InitSpk ==
  /\ At("init_spk", "start_spk") /\ owner = "none"
  /\ owner' = "spk"
  /\ UNCHANGED <<micVars, pos, buf, len, logged, take, playVars>>

StartSpk ==
  /\ At("start_spk", "play")
  /\ UNCHANGED <<micVars, owner, pos, buf, len, logged, take, playVars>>

NextChunk ==
  /\ At("play", "send") /\ offset < len
  /\ want' = SmallerOf(len - offset, Chunk) /\ sent' = 0
  /\ UNCHANGED <<micVars, owner, pos, buf, len, logged, take, offset, took, heard, refused, failed>>

\* MUTANT of Offered: the chunk is offered from its beginning again.
OfferedFromStart(n) == [i \in 1 .. n |-> buf[offset + i - 1]]

(* The first n of the samples offered.                                     *)
Offered(n) == [i \in 1 .. n |-> buf[offset + sent + i - 1]]

(* i2s_spk_send_buffer() answers ESP_OK or ESP_ERR_TIMEOUT, and took n.    *)
Send(n) ==
  /\ At("send", "sent")
  /\ took' = n /\ heard' = heard \o Offered(n)
  /\ refused' = IF n = 0 THEN SmallerOf(refused + 1, RecordSamples) ELSE refused
  /\ UNCHANGED <<micVars, owner, pos, buf, len, logged, take, offset, want, sent, failed>>

(* Any other answer ends the playback.                                     *)
SendFails(n) ==
  /\ At("send", "play")
  /\ heard' = heard \o Offered(n) /\ offset' = len + want /\ failed' = TRUE
  /\ UNCHANGED <<micVars, owner, pos, buf, len, logged, take, want, sent, took, refused>>

\* MUTANT of GivesUp: a chunk is offered until all of it is taken.
GivesUpNever == sent + took = want

(* A chunk is left when all of it is taken, or none of what was offered.   *)
GivesUp == took = 0 \/ sent + took = want

Advance == offset + want

AfterSend ==
  /\ pc = "sent" /\ sent' = sent + took
  /\ IF GivesUp THEN offset' = Advance /\ pc' = "play"
                ELSE UNCHANGED offset /\ pc' = "send"
  /\ UNCHANGED <<micVars, owner, pos, buf, len, logged, take, want, took, heard, refused, failed>>

Played ==
  /\ At("play", "stop_spk") /\ offset >= len
  /\ UNCHANGED <<micVars, owner, pos, buf, len, logged, take, playVars>>

StopSpk ==
  /\ At("stop_spk", "deinit_spk")
  /\ UNCHANGED <<micVars, owner, pos, buf, len, logged, take, playVars>>

(* ... and, after half a second, the next recording.                       *)
DeinitSpk ==
  /\ At("deinit_spk", "init_mic") /\ owner' = "none" /\ take' = 1 - take
  /\ offset' = 0 /\ want' = 0 /\ sent' = 0 /\ took' = 0
  /\ heard' = <<>> /\ refused' = 0 /\ failed' = FALSE
  /\ UNCHANGED <<micVars, pos, buf, len, logged>>

-----------------------------------------------------------------------------
(* The microphone: audio arrives, and a pending read may fetch some.       *)
Audio ==
  /\ (next < MaxCaptures /\ Mic!Capture) \/ Mic!Fetch
  /\ UNCHANGED <<owner, pc, pos, buf, len, logged, take, playVars>>

Record == InitMic \/ ResetMic \/ StartMic \/ BeginRead \/ ReadOK \/ ReadFails
            \/ Recorded \/ CountLost \/ StopMic \/ DeinitMic
Playback == InitSpk \/ StartSpk \/ NextChunk \/ AfterSend \/ Played \/ StopSpk
              \/ DeinitSpk \/ \E n \in 0 .. want - sent : Send(n) \/ SendFails(n)
Task == Record \/ Playback \/ Abort

Next == Task \/ Audio

Spec == Init /\ [][Next]_vars
FairSpec == Spec /\ WF_vars(Task)

-----------------------------------------------------------------------------
(* Every variable stays in its set: the recording is never written past    *)
(* its end, although it is not a whole number of buffers (lines 171-178).  *)
TypeOK ==
  /\ {next, waiting, lost, logged, offset, want, sent, took, refused} \subseteq Nat
  /\ {live, failed} \subseteq BOOLEAN
  /\ pending \subseteq {"app"} /\ held \subseteq Nat /\ got \in [{"app"} -> BOOLEAN]
  /\ owner \in {"none", "mic", "spk"} /\ take \in 0 .. 1
  /\ pc \in Checked \cup {"reset_mic", "record", "read", "count", "stop_mic",
                          "deinit_mic", "play", "send", "sent", "done"}
  /\ pos \in 0 .. RecordSamples /\ len \in 0 .. RecordSamples
  /\ buf \in [0 .. RecordSamples - 1 -> [take : 0 .. 2, at : Nat]]
  /\ heard \in Seq([take : 0 .. 2, at : Nat])

(* Neither component is initialised while the other holds the controller,  *)
(* whatever failed before (lines 37-47, 151-154, 214-215).                 *)
ControllerFree == pc \in {"init_mic", "init_spk"} => owner = "none"

(* What is played is of the last recording, in the order it was captured,  *)
(* nothing twice, and nothing of an earlier, longer recording behind the   *)
(* end of a shorter one (lines 186 and 219-244).                           *)
PlaysLastRecording ==
  \A i \in DOMAIN heard :
    /\ heard[i].take = take
    /\ \A j \in 1 .. i - 1 : heard[j].at < heard[i].at

(* A chunk the speaker does not take costs that chunk: what was recorded   *)
(* is otherwise played to its end (lines 230-243).                         *)
RefusalCostsOneChunk ==
  (pc = "stop_spk" /\ ~failed) => Len(heard) + refused * Chunk >= len

(* The recording is played, all of it but for refused chunks, and nothing  *)
(* else is (lines 186-246).                                                *)
PlaysRecording == PlaysLastRecording /\ RefusalCostsOneChunk

(* The log counts at least the buffers missing in the recording, so that   *)
(* "audio lost: 0 buffers" is a recording without a gap, also if it was    *)
(* cut short (lines 181-188).                                              *)
LoggedCoversGaps ==
  (pc \in {"stop_mic", "deinit_mic"} /\ pos > 0) =>
    (buf[pos - 1].at + 1) <= pos + Frames * logged

(* Whatever the speaker accepts and the microphone delivers, the cycle     *)
(* goes on (lines 238-242 and 267-271).                                    *)
RecordsAgain == []<>(pc \in {"init_mic", "done"})
=============================================================================

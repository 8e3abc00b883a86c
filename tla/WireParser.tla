----------------------------- MODULE WireParser -----------------------------
(***************************************************************************)
(* The end of mic_audio_rcv.py: it finds the header in what it receives,   *)
(* reads the rest of it, and writes the audio that follows to a file or to *)
(* the sound card.  UartHandshake and JtagHandshake say when the header    *)
(* comes; here every byte counts, and a read may return fewer than were    *)
(* asked for.  AudioPath puts the board in front of it.                    *)
(***************************************************************************)
EXTENDS Naturals, Sequences

CONSTANTS
  MaxNoise,   \* bound of the model: bytes in front of the header
  PcmBytes,   \* bound of the model: bytes of audio
  Chunk       \* CHUNK_BYTES

Sync     == <<"aa", "aa", "aa">>
Magic    == <<"01", "ee", "ff", "c0">>
TailSize == 7                            \* HEADER_TAIL_SIZE
Start    == Sync \o Magic

(* Bytes left of another baud rate or of a log line, among them parts of a *)
(* header, but no whole one.                                               *)
Noise == UNION {[1 .. n -> {"aa", "01", "--"}] : n \in 0 .. MaxNoise}

VARIABLES
  wire,       \* all that comes before the rest of the header
  channels,   \* what the header says
  pc,
  pos,        \* bytes read so far
  pending,    \* pending: places of these bytes among those that came
  out         \* what was written, likewise

Init ==
  /\ wire \in {noise \o Start : noise \in Noise} /\ channels \in {1, 2}
  /\ pc = "scan" /\ pos = 0 /\ pending = <<>> /\ out = <<>>

HeaderEnd  == Len(wire) + TailSize
End        == HeaderEnd + PcmBytes
FrameBytes == 2 * channels                           \* bytes_per_frame
Latest(n)  == SubSeq(wire, n - Len(Start) + 1, n)   \* the last bytes of n

\* MUTANT of Found: the bytes are looked at seven by seven.
FoundInBlocks(n) == n % Len(Start) = 0 /\ Latest(n) = Start

(* The last seven bytes are the start of a header.                         *)
Found(n) == n >= Len(Start) /\ Latest(n) = Start

(* find_sync_and_magic(): one byte more.                                   *)
Scan ==
  /\ pc = "scan" /\ pos < Len(wire)
  /\ pos' = pos + 1
  /\ pc' = IF Found(pos + 1) THEN "header" ELSE "scan"
  /\ UNCHANGED <<wire, channels, pending, out>>

(* What read_exact() still asks for. *)
Missing == HeaderEnd - pos

(* read_exact(): n bytes more. *)
ReadHeader(n) ==
  /\ pc = "header" /\ n <= Missing
  /\ pos' = pos + n
  /\ pc' = IF n = Missing THEN "stream" ELSE "header"
  /\ UNCHANGED <<wire, channels, pending, out>>

(* TimeoutError: nothing came for 30, or 10, seconds.                      *)
Fail ==
  /\ pc \in {"scan", "header"} /\ pc' = "end"
  /\ UNCHANGED <<wire, channels, pos, pending, out>>

(* Whole frames only. *)
Usable(n) == n - (n % FrameBytes)

\* MUTANT of Rest: the part of a frame that is left over is dropped.
RestDropped(bytes) == <<>>

Rest(bytes) == SubSeq(bytes, Usable(Len(bytes)) + 1, Len(bytes))

(* run_record() and run_play(): a chunk of n bytes. *)
Stream(n) ==
  /\ pc = "stream" /\ pos + n <= End
  /\ LET bytes == pending \o [i \in 1 .. n |-> pos + i] IN
     /\ out' = out \o SubSeq(bytes, 1, Usable(Len(bytes)))
     /\ pending' = Rest(bytes)
  /\ pos' = pos + n
  /\ UNCHANGED <<wire, channels, pc>>

(* Ctrl+C ends the script at any moment, and the file is closed.           *)
Interrupt ==
  /\ pc # "end" /\ pc' = "end"
  /\ UNCHANGED <<wire, channels, pos, pending, out>>

-----------------------------------------------------------------------------
(* The search ends exactly behind the magic, whatever came before it: not  *)
(* in noise that looks like its beginning, and not later, in the audio,    *)
(* because such noise ran into it.  The header is then read to its end and *)
(* not beyond, in however many pieces it comes (lines 79-115).             *)
HeaderFound ==
  /\ pc = "scan"   => pos < Len(wire)
  /\ pc = "header" => pos \in Len(wire) .. HeaderEnd - 1
  /\ pc = "stream" => pos >= HeaderEnd

(* What is written is whole frames: all of those that came (lines 133-137, *)
(* and 158-175: a misaligned write would end the playback).                *)
WholeFrames ==
  /\ Len(out) % FrameBytes = 0
  /\ pc = "stream" => pos < HeaderEnd + Len(out) + FrameBytes
=============================================================================

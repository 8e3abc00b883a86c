------------------------------ MODULE AudioPath ------------------------------
(***************************************************************************)
(* From the frames i2s_mic_read() returns to the file the script writes:   *)
(* the board's conversion (SampleCompaction) sends its samples, the        *)
(* script's parser (WireParser) reads them behind the header.  The serial  *)
(* line loses nothing; how much the script gets at a time, and how far it  *)
(* is behind the board, is open.                                           *)
(***************************************************************************)
EXTENDS SampleCompaction, Sequences

CONSTANTS
  MaxNoise,   \* bound of the model: bytes in front of the header
  PcmBytes,   \* bound of the model: bytes of audio
  Chunk       \* CHUNK_BYTES

ASSUME PathAssumption == {MaxNoise, PcmBytes} \subseteq Nat /\ Chunk \in Nat \ {0}

VARIABLES
  wire, channels, pc, pos, pending, out,   \* of WireParser
  sent   \* samples sent, as half-words numbered on from buffer to buffer

boardVars  == <<mem, frames, slot, loaded, regs, stored, sent>>
scriptVars == <<wire, channels, pc, pos, pending, out>>

Parser == INSTANCE WireParser

(* host_comm_init() has sent the header; app_main() says one channel.      *)
PathInit == Init /\ Parser!Init /\ channels = 1 /\ sent = <<>>

(* Two bytes a sample. *)
BytesSent == Parser!HeaderEnd + 2 * Len(sent)

(* The frame of the capture that the buffer begins with: every frame of    *)
(* every buffer has become a sample.                                       *)
Captured == 4 * Len(sent)

(* uart_write_bytes(): all of the buffer's samples. *)
Send ==
  /\ Len(sent) + frames <= PcmBytes \div 2
  /\ Done
  /\ sent' = sent \o [i \in 1 .. frames |-> Captured + mem[i - 1]]

Board ==
  /\ \/ (Load \/ Store) /\ UNCHANGED sent
     \/ Send
  /\ UNCHANGED scriptVars

(* ser.read(): of what has been sent. *)
StreamSent(n) == pos + n <= BytesSent /\ Parser!Stream(n)

Script ==
  /\ \/ Parser!Scan \/ Parser!Fail \/ Parser!Interrupt
     \/ \E n \in 1 .. Parser!TailSize : Parser!ReadHeader(n)
     \/ \E n \in 1 .. Chunk : StreamSent(n)
  /\ UNCHANGED boardVars

PathNext == Board \/ Script

PathSpec == PathInit /\ [][PathNext]_<<boardVars, scriptVars>>

-----------------------------------------------------------------------------
(* The search ends exactly behind the magic, whatever came before it: not  *)
(* in noise that looks like its beginning, and not later, in the audio,    *)
(* because such noise ran into it.  The header is then read to its end and *)
(* not beyond (mic_audio_rcv.py 79-115).                                   *)
HeaderFound == Parser!HeaderFound

(* The file is the capture: it holds all the whole frames that came, and   *)
(* its k-th sample is the upper half of the chosen slot of the k-th frame  *)
(* the board read, from the first on, with nothing lost, doubled or        *)
(* shifted by a byte at the end of a buffer, of the header or of a chunk   *)
(* (app_main.c 140-175, mic_audio_rcv.py 101-175).                         *)
FileIsCapture ==
  /\ Parser!WholeFrames
  /\ \A k \in 1 .. Len(out) \div 2 :
       LET low  == out[2 * k - 1] - Parser!HeaderEnd
           high == out[2 * k] - Parser!HeaderEnd IN
       /\ high = low + 1 /\ high % 2 = 0
       /\ sent[high \div 2] = 4 * (k - 1) + 2 * slot + 1
=============================================================================

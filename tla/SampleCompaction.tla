-------------------------- MODULE SampleCompaction --------------------------
(***************************************************************************)
(* The conversion in audio_sender_task() of examples/uart and              *)
(* examples/uart-jtag: 32-bit stereo frames become 16-bit mono samples in  *)
(* the memory they are read from.                                          *)
(*                                                                         *)
(* Memory is half-words, little-endian: frame j is the half-words 4j to    *)
(* 4j + 3, the upper half of its slot k is 4j + 2k + 1.  C lets the        *)
(* compiler assume that int32_t and int16_t objects do not overlap: it may *)
(* load any number of frames before it stores what it has loaded.  Loads   *)
(* and stores are each in the order of the program.                        *)
(***************************************************************************)
EXTENDS Integers

CONSTANTS
  MaxFrames,  \* BUF_FRAMES
  Slots       \* values of KEEP_SLOT

ASSUME CompactionAssumption == MaxFrames \in Nat /\ Slots \subseteq {0, 1}

VARIABLES
  mem,      \* s_buf: what each half-word holds, named by where it was captured
  frames,   \* num_frames
  slot,     \* KEEP_SLOT
  loaded,   \* frames read so far
  regs,     \* what was loaded of each
  stored    \* samples written so far

vars == <<mem, frames, slot, loaded, regs, stored>>

HalfWords == 0 .. 4 * MaxFrames - 1
Frames    == 0 .. MaxFrames - 1

(* i2s_mic_read() has filled the buffer: with all frames, or fewer.        *)
Init ==
  /\ mem = [a \in HalfWords |-> a]
  /\ frames \in 0 .. MaxFrames /\ slot \in Slots
  /\ loaded = 0 /\ stored = 0 /\ regs = [j \in Frames |-> 0]

(* The half-word that (src[2 * j + KEEP_SLOT] >> 16) keeps.                *)
Upper(j) == 4 * j + 2 * slot + 1

Load ==
  /\ loaded < frames
  /\ regs' = [regs EXCEPT ![loaded] = mem[Upper(loaded)]]
  /\ loaded' = loaded + 1
  /\ UNCHANGED <<mem, frames, slot, stored>>

\* MUTANT of Place: the buffer is filled from its end.
PlaceFromEnd(i) == 4 * frames - 1 - i

(* dst[i] *)
Place(i) == i

Store ==
  /\ stored < loaded
  /\ mem' = [mem EXCEPT ![Place(stored)] = regs[stored]]
  /\ stored' = stored + 1
  /\ UNCHANGED <<frames, slot, loaded, regs>>

(* uart_write_bytes(), and the next buffer. *)
Done ==
  /\ stored = frames
  /\ mem' = [a \in HalfWords |-> a]
  /\ frames' \in 0 .. MaxFrames
  /\ loaded' = 0 /\ stored' = 0 /\ regs' = [j \in Frames |-> 0]
  /\ UNCHANGED slot

Next == Load \/ Store \/ Done

Spec == Init /\ [][Next]_vars

-----------------------------------------------------------------------------
(* The loop stays in the buffer (lines 166-172).                           *)
TypeOK ==
  /\ frames \in 0 .. MaxFrames /\ slot \in Slots
  /\ loaded \in 0 .. frames /\ stored \in 0 .. loaded
  /\ mem \in [HalfWords -> HalfWords] /\ regs \in [Frames -> HalfWords \cup {0}]

(* No frame that is still to be read has been written over: "dst[i] is     *)
(* always written strictly before the next frame we read from is touched"  *)
(* (lines 156-158).                                                        *)
SourceIntact ==
  \A j \in loaded .. frames - 1 : \A a \in 4 * j .. 4 * j + 3 : mem[a] = a

(* What is sent is the upper half of the chosen slot of each frame, in     *)
(* order, without gaps (lines 150-175).                                    *)
Compacted == stored = frames => \A i \in 0 .. frames - 1 : mem[i] = 4 * i + 2 * slot + 1
=============================================================================

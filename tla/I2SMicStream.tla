---------------------------- MODULE I2SMicStream ----------------------------
(***************************************************************************)
(* I2SMic seen as the stream of MicStream.                                 *)
(***************************************************************************)
EXTENDS I2SMic

Pending == {r \in Readers : Inside(r)}

(* The captures fetched by whoever is inside a read. *)
Held == {currSeq : r \in {s \in Pending : popped[s] > 0}}

(* bytes_read says whether the last read of r delivered a buffer. *)
Got == [r \in Readers |-> ~Inside(r) /\ n[r] > 0]

Stream == INSTANCE MicStream WITH
  Depth   <- QCap,
  live    <- dmaOn,
  next    <- seq,
  waiting <- Len(q),
  lost    <- overflow_count,
  pending <- Pending,
  held    <- Held,
  got     <- Got

(* i2s_mic.c keeps the promise of MicStream: each of its steps is one of   *)
(* the stream's, or none (i2s_mic.c, lines 89-99 and 142-378).             *)
ImplementsStream == Stream!Spec
=============================================================================

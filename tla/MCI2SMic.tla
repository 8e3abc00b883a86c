------------------------------ MODULE MCI2SMic ------------------------------
(***************************************************************************)
(* TLC instances of I2SMic.  The readers are interchangeable: no action    *)
(* and no safety property tells one from another, so the runs without a    *)
(* liveness property identify states up to a permutation of them.          *)
(***************************************************************************)
EXTENDS I2SMicStream, TLC

ReaderSymmetry == Permutations(Readers)
=============================================================================

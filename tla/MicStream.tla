----------------------------- MODULE MicStream -----------------------------
(***************************************************************************)
(* What i2s_mic promises its clients (i2s_mic.h): a lossy stream of audio  *)
(* buffers, read one at a time by one task.  Nothing of the driver's ring, *)
(* its semaphore, the wait slices or the flags is left here.               *)
(*                                                                         *)
(* The captures of a channel are numbered.  The latest `waiting` of them   *)
(* can still be read; capturing one more when Depth are waiting loses the  *)
(* oldest, and the loss is counted at the same moment.                     *)
(***************************************************************************)
EXTENDS Naturals

CONSTANTS Readers, Depth

VARIABLES
  live,      \* audio is being captured
  next,      \* number of the next capture
  waiting,   \* captures that can be read: the latest ones
  lost,      \* what i2s_mic_get_overflow_count() answers
  pending,   \* tasks inside i2s_mic_read()
  held,      \* the captures the pending read has fetched: one or none
  got        \* for each task, whether its last read has returned a buffer

stream == <<live, next, waiting, lost, pending, held, got>>

Init ==
  /\ live = FALSE /\ next = 0 /\ waiting = 0 /\ lost = 0
  /\ pending = {} /\ held = {} /\ got = [r \in Readers |-> FALSE]

(* init() and deinit(): another channel, or none; never under a reader.    *)
NewChannel ==
  /\ ~live /\ pending = {}
  /\ next' = 0 /\ waiting' = 0
  /\ UNCHANGED <<live, lost, pending, held, got>>

(* The count begins at zero, and is never reset while audio is captured.   *)
ResetCount ==
  /\ ~live
  /\ lost' = 0
  /\ UNCHANGED <<live, next, waiting, pending, held, got>>

(* What was captured before start() is never delivered after it.           *)
Start ==
  /\ ~live /\ lost = 0
  /\ live' = TRUE /\ waiting' = 0
  /\ UNCHANGED <<next, lost, pending, held, got>>

Stop ==
  /\ live
  /\ live' = FALSE
  /\ UNCHANGED <<next, waiting, lost, pending, held, got>>

Capture ==
  /\ live
  /\ next' = next + 1
  /\ IF waiting = Depth THEN lost' = lost + 1 /\ UNCHANGED waiting
                        ELSE waiting' = waiting + 1 /\ UNCHANGED lost
  /\ UNCHANGED <<live, pending, held, got>>

-----------------------------------------------------------------------------
RefuseRead(r) ==
  /\ r \notin pending
  /\ got' = [got EXCEPT ![r] = FALSE]
  /\ UNCHANGED <<live, next, waiting, lost, pending, held>>

BeginRead(r) ==
  /\ pending = {}
  /\ pending' = {r}
  /\ got' = [got EXCEPT ![r] = FALSE]
  /\ UNCHANGED <<live, next, waiting, lost, held>>

(* A read fetches the oldest capture that waits, and only one.             *)
Fetch ==
  /\ live /\ pending # {} /\ held = {} /\ waiting > 0
  /\ held' = {next - waiting}
  /\ waiting' = waiting - 1
  /\ UNCHANGED <<live, next, lost, pending, got>>

(* A read returns a buffer exactly if it has fetched one.                  *)
EndRead(r) ==
  /\ r \in pending
  /\ pending' = {}
  /\ got' = [got EXCEPT ![r] = held # {}]
  /\ held' = {}
  /\ UNCHANGED <<live, next, waiting, lost>>

Next ==
  \/ NewChannel \/ ResetCount \/ Start \/ Stop \/ Capture \/ Fetch
  \/ \E r \in Readers : RefuseRead(r) \/ BeginRead(r) \/ EndRead(r)

Spec == Init /\ [][Next]_stream
=============================================================================

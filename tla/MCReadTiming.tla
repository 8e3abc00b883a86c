---------------------------- MODULE MCReadTiming ----------------------------
(***************************************************************************)
(* TLC instance of ReadTiming: every combination of values at and around   *)
(* the edges of what init() accepts, and two configurations to stream      *)
(* with, buffers of 20 ms and of 1 ms in the smallest ring.                *)
(***************************************************************************)
EXTENDS ReadTiming

EdgeRates == {-1, 0, 1, 999, 16000}
EdgeSizes == {-8, 0, 2, 6, 8, 3840, 4088, 4092, 4096}
EdgeConfigs ==
  [rate : EdgeRates, bits : {16, 24, 32}, channels : {0, 1, 2},
   slots : {"MONO", "STEREO"}, count : {1, 2, 6}, size : EdgeSizes]

Mono(n, bytes) == [rate |-> 16000, bits |-> 16, channels |-> 1, slots |-> "MONO",
                   count |-> n, size |-> bytes]
StreamConfigs == {Mono(3, 640), Mono(2, 32)}
AllConfigs    == EdgeConfigs \cup StreamConfigs
=============================================================================

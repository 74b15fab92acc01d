---------------------------- MODULE MCBufferIndex ----------------------------
(* BufferIndex for TLC: a sampling ratio of 2, a buffer of 3 samples of   *)
(* which the newest 2 form the index (one sample of tail), and chunks     *)
(* arriving 1 or 2 ms apart, so that two channels can differ in bitrate.   *)
EXTENDS BufferIndex

MCGaps == {1, 2}
====

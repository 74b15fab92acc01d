-------------------------- MODULE MCRtpReassembler --------------------------
(***************************************************************************)
(* Model-checking instance of RtpReassembler.  The code's constants       *)
(* (2^16 sequence numbers, a cache of 5, a discontinuity distance of 10)  *)
(* are scaled down keeping their relations: MaxCache < MaxDiff < Mid, so  *)
(* a full cache, a discontinuity and the wrap of the sequence numbers all *)
(* occur within a few datagrams.                                          *)
(***************************************************************************)
EXTENDS RtpReassembler

MCSeqSpace == 32
MCMaxDiff == 4
MCMaxCache == 3
MCStartSeq == 29

\* A restart jumps far enough (MaxDiff plus the lag of the expected number
\* behind the sender, at most MaxSent) to be seen as a discontinuity.
MCJumpBy == {16}
NoJumps == {}

=============================================================================

----------------------------- MODULE MCTrickPlay -----------------------------
(* TLC instance of TrickPlay.  Speeds: a rewind and a fast-forward speed, *)
(* 1 (ends trick play), 0 (rejected by setTrickPlaySpeed) and 65538,     *)
(* which the int16_t of the request handler turns into 2.  With six      *)
(* index samples the buffer spans five trick-play periods, so a rewind   *)
(* from live takes two steps before it reaches the buffer's edge and a   *)
(* fast-forward from the edge takes two steps back to live.              *)
EXTENDS TrickPlay

MCSpeeds == {-2, 0, 1, 2, 65538}
MCCap == 6
==============================================================================

--------------------------- MODULE MCPauseWatchdog ---------------------------
(* TLC instance of PauseWatchdog: a sample every 2 chunks (4 in the code)   *)
(* and an index of 3 samples, so six posted chunks fill the buffer and the  *)
(* cap of the pause compensation is reached.                                *)
EXTENDS PauseWatchdog

MCRatio == 2
MCCapSamples == 2
==============================================================================

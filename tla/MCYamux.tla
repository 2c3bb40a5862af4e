------------------------------ MODULE MCYamux ------------------------------
(* The end that dialled, for TLC.                                          *)
EXTENDS Yamux

CONSTANTS r1, r2
=============================================================================

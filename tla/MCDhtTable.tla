----------------------------- MODULE MCDhtTable -----------------------------
(* The table of one node of a DHT with ids of three bits, for TLC.         *)
EXTENDS DhtTable
=============================================================================

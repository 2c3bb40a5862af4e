------------------------------ MODULE MCBitswap ------------------------------
(***************************************************************************)
(* Instances of Bitswap for TLC: who holds which block at the beginning.   *)
(***************************************************************************)
EXTENDS Bitswap

CONSTANTS n1, n2, x, y, z

(* The second node has everything, the first nothing.                      *)
SecondHasAll == [n \in Nodes |-> IF n = n2 THEN Cids ELSE {}]

(* Each of two nodes has what the other lacks.                             *)
Apart == [n \in Nodes |-> IF n = n1 THEN {x} ELSE {y, z}]
=============================================================================

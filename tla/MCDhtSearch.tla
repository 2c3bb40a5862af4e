---------------------------- MODULE MCDhtSearch ----------------------------
(* Searches among two or three peers, for TLC.  Ids are written as numbers. *)
EXTENDS DhtSearch

IdOf(n) == [k \in 0 .. Bits - 1 |-> (n \div 2 ^ (Bits - 1 - k)) % 2]

TwoPeers   == {IdOf(1), IdOf(3)}
BrokenPeer == {IdOf(3)}
OneTarget  == {IdOf(2)}
=============================================================================

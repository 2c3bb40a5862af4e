------------------------- MODULE MCPeerRequestQueue -------------------------
(***************************************************************************)
(* Instances of PeerRequestQueue for TLC.  Peers, entries and the threads  *)
(* of each kind are only compared, so each set may be permuted.            *)
(***************************************************************************)
EXTENDS PeerRequestQueue, TLC

Symmetry == Permutations(Peers) \cup Permutations(Entries)
                \cup Permutations(Readers) \cup Permutations(Creators)
=============================================================================

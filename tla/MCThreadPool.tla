---------------------------- MODULE MCThreadPool ----------------------------
(* One pool with two workers and a waiting client, for TLC.                 *)
EXTENDS ThreadPool

CONSTANTS p1, w1, w2, j1, j2, j3, t1

\* One pool, as the server and the swarm each use it.
OnePool == [w \in Workers |-> p1]
=============================================================================

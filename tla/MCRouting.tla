------------------------------ MODULE MCRouting ------------------------------
(* An instance of Routing for TLC.                                          *)
EXTENDS Routing

CONSTANTS n1, n2, n3, x, y, z

\* A line: n1 and n3 know each other only through n2.
Line == {{n1, n2}, {n2, n3}}
Known == [n \in Nodes |-> CASE n = n1 -> <<n1, n2>> [] n = n2 -> <<n2, n1, n3>> [] OTHER -> <<n3, n2>>]
Blocks == [n \in Nodes |-> CASE n = n1 -> {} [] n = n2 -> {y} [] OTHER -> {x}]

\* One name is enough: only n3 publishes.
Named == [n \in Nodes |-> z]

\* n3 has announced x to n2 before.
Announced == [n \in Nodes |-> IF n = n2 THEN <<[key |-> x, id |-> n3]>> ELSE <<>>]

\* n1 looks for what it does not have; n2 tells both its neighbours what it has.
LineOps ==
  [n \in Nodes |-> CASE n = n1 -> {"find", "value", "peer"}
                     [] n = n2 -> {"provide"}
                     [] OTHER  -> {"ping", "name"}]
=============================================================================

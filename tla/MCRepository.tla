---------------------------- MODULE MCRepository ----------------------------
(* Two threads, one block and the name, a clock of three seconds whose      *)
(* varints do not sort by time (6, 5, 7), and messages that lower the    *)
(* time of the block, of the block and the name, and that carry no time.    *)
EXTENDS Repository

CONSTANTS b1, name

Recorded(k, t) == [hash |-> k, ts |-> t]

MessageSet == {[epoch |-> 6, entries |-> <<Recorded(b1, 6), Recorded(name, 5)>>],
               [epoch |-> 7, entries |-> <<Recorded(b1, 5)>>],
               [epoch |-> 5, entries |-> <<Recorded(b1, 0)>>]}
=============================================================================

------------------------------ MODULE JobPool -------------------------------
(***************************************************************************)
(* What a thread pool promises its clients (libp2p/utils/thread_pool.h),   *)
(* without threads, counters or semaphores: the jobs of a pool start in    *)
(* the order they were added, each starts at most once, and thpool_wait    *)
(* returns only when nothing of its pool is queued or running.  A pool     *)
(* that is destroyed drops the jobs still queued, and only when none runs. *)
(***************************************************************************)
EXTENDS Naturals, Sequences

CONSTANTS Pools, Jobs, Waiters

VARIABLES
  pending,   \* the jobs of each pool that have not started, oldest first
  running,   \* pairs <<pool, job>> that have started and not finished
  finished,  \* pairs <<pool, job>> that have finished
  dropped,   \* the pools that have been destroyed
  waitsFor   \* the pools of which a client's thpool_wait has not returned

vars == <<pending, running, finished, dropped, waitsFor>>

Init ==
  /\ pending = [p \in Pools |-> <<>>]
  /\ running = {}
  /\ finished = {}
  /\ dropped = {}
  /\ waitsFor = [t \in Waiters |-> {}]

Queued(p, j) == \E i \in DOMAIN pending[p] : pending[p][i] = j

Add(p, j) ==
  /\ p \notin dropped
  /\ \A q \in Pools : ~Queued(q, j) /\ <<q, j>> \notin running \cup finished
  /\ pending' = [pending EXCEPT ![p] = Append(@, j)]
  /\ UNCHANGED <<running, finished, dropped, waitsFor>>

Start(p) ==
  /\ pending[p] # <<>>
  /\ running' = running \cup {<<p, Head(pending[p])>>}
  /\ pending' = [pending EXCEPT ![p] = Tail(@)]
  /\ UNCHANGED <<finished, dropped, waitsFor>>

Finish(p, j) ==
  /\ <<p, j>> \in running
  /\ running' = running \ {<<p, j>>}
  /\ finished' = finished \cup {<<p, j>>}
  /\ UNCHANGED <<pending, dropped, waitsFor>>

Idle(p) == pending[p] = <<>> /\ \A j \in Jobs : <<p, j>> \notin running

Wait(t, p) ==
  /\ waitsFor[t] = {}
  /\ waitsFor' = [waitsFor EXCEPT ![t] = {p}]
  /\ UNCHANGED <<pending, running, finished, dropped>>

Return(t) ==
  /\ waitsFor[t] # {}
  /\ \A p \in waitsFor[t] : Idle(p)
  /\ waitsFor' = [waitsFor EXCEPT ![t] = {}]
  /\ UNCHANGED <<pending, running, finished, dropped>>

Destroy(p) ==
  /\ p \notin dropped
  /\ \A j \in Jobs : <<p, j>> \notin running
  /\ dropped' = dropped \cup {p}
  /\ pending' = [pending EXCEPT ![p] = <<>>]
  /\ UNCHANGED <<running, finished, waitsFor>>

Next ==
  \/ \E p \in Pools :
       \/ Start(p) \/ Destroy(p)
       \/ \E j \in Jobs : Add(p, j) \/ Finish(p, j)
       \/ \E t \in Waiters : Wait(t, p)
  \/ \E t \in Waiters : Return(t)

Spec == Init /\ [][Next]_vars
=============================================================================

-------------------------- MODULE PeerRequestQueue --------------------------
(***************************************************************************)
(* The queue of peer requests of bitswap, pointer by pointer:              *)
(* libipfs/exchange/bitswap/peer_request_queue.c.                          *)
(*                                                                         *)
(* find_peer, called by the want thread and by the threads that handle     *)
(* messages, walks the list and appends an entry for a peer it does not    *)
(* find; find_entry, called by the peer thread, only walks.  Neither takes *)
(* queue_mutex: two appends may cross, and clash remembers that they did.  *)
(* queue_add, queue_remove and queue_pop take the mutex; nothing in the    *)
(* repository calls them, so an instance says (Api) which are used.        *)
(***************************************************************************)
EXTENDS Integers, FiniteSets

CONSTANTS Peers,
          Entries,    \* bound: the entries that can be allocated
          Null,
          Creators,   \* threads in find_peer
          Readers,    \* threads in find_entry
          Api,        \* the locked operations in use: "add", "remove", "pop"
          MaxLocked   \* bound: how many of them run

ASSUME QueueAssumption ==
    /\ Null \notin Peers \cup Entries
    /\ Creators \cap Readers = {}
    /\ IsFiniteSet(Entries)
    /\ Api \subseteq {"add", "remove", "pop"}
    /\ MaxLocked \in Nat

Threads == Creators \cup Readers

VARIABLES first, last,   \* of the queue
          next, prior,   \* of an entry
          peerOf,        \* entry->current->peer; Null: not allocated
          freed,         \* entries given back to the heap
          pc,
          cursor,        \* where a walk is; the old last entry of an append
          peer,          \* the peer a thread looks for
          mine,          \* the entry a thread has made
          known,         \* peers with an entry when a reader's walk began
          crashed,       \* a null pointer was followed
          locked,        \* how many of the locked operations have run
          clash,         \* two threads were past the end of their walks
          appends,       \* how often find_peer has moved the last entry
          age            \* its number when an entry became the last (0: never)

queueVars == <<first, last, next, prior, peerOf, freed>>
vars == <<first, last, next, prior, peerOf, freed, pc, cursor, peer, mine,
          known, crashed, locked, clash, appends, age>>
ghosts == <<appends, age>>

Link == Entries \cup {Null}
Appending == {"attach", "first", "hook", "join", "link", "last"}
Attached == {e \in Entries : peerOf[e] # Null /\ e \notin freed
                               /\ \A t \in Creators :
                                     pc[t] \in Appending => mine[t] # e}
AtRest == \A t \in Threads : pc[t] \in {"idle", "missed"}

(* find_peer has come to the end of the list and will append to it: from   *)
(* here to the move of queue->last nothing protects what it has seen.      *)
Past(t) == \/ pc[t] \in {"create"} \cup Appending
           \/ pc[t] = "walk" /\ cursor[t] = Null
Overlap == \E t, u \in Creators : t # u /\ Past(t) /\ Past(u)

Init ==
    /\ first = Null
    /\ last = Null
    /\ next = [e \in Entries |-> Null]
    /\ prior = [e \in Entries |-> Null]
    /\ peerOf = [e \in Entries |-> Null]
    /\ freed = {}
    /\ pc = [t \in Threads |-> "idle"]
    /\ cursor = [t \in Threads |-> Null]
    /\ peer = [t \in Threads |-> Null]
    /\ mine = [t \in Threads |-> Null]
    /\ known = [t \in Threads |-> {}]
    /\ crashed = FALSE
    /\ locked = 0
    /\ clash = FALSE
    /\ appends = 0
    /\ age = [e \in Entries |-> 0]

-----------------------------------------------------------------------------
(* find_peer and find_entry                                                *)

Begin(t, p) ==
    /\ ~crashed
    /\ pc[t] \in {"idle", "missed"}
    /\ pc' = [pc EXCEPT ![t] = "walk"]
    /\ peer' = [peer EXCEPT ![t] = p]
    /\ cursor' = [cursor EXCEPT ![t] = first]
    /\ known' = [known EXCEPT ![t] =
                    IF t \in Readers THEN {peerOf[e] : e \in Attached} ELSE {}]
    /\ UNCHANGED <<queueVars, mine, crashed, locked, ghosts>>

(* The thread t returns; what it held is forgotten.                        *)
Return(t) ==
    /\ pc' = [pc EXCEPT ![t] = "idle"]
    /\ peer' = [peer EXCEPT ![t] = Null]
    /\ cursor' = [cursor EXCEPT ![t] = Null]
    /\ mine' = [mine EXCEPT ![t] = Null]
    /\ known' = [known EXCEPT ![t] = {}]

(* One comparison of the walk; at the end of the list find_peer goes on to *)
(* make an entry and find_entry returns NULL.                              *)
Walk(t) ==
    LET e == cursor[t]
    IN  /\ ~crashed
        /\ pc[t] = "walk"
        /\ \/ /\ e # Null
              /\ IF peerOf[e] = peer[t]
                 THEN Return(t)
                 ELSE /\ cursor' = [cursor EXCEPT ![t] = next[e]]
                      /\ UNCHANGED <<pc, peer, mine, known>>
           \/ /\ e = Null
              /\ pc' = [pc EXCEPT ![t] = IF t \in Creators THEN "create"
                                                            ELSE "missed"]
              /\ UNCHANGED <<cursor, peer, mine, known>>
        /\ UNCHANGED <<queueVars, crashed, locked, ghosts>>

Allocate(e, p) ==
    /\ peerOf[e] = Null
    /\ peerOf' = [peerOf EXCEPT ![e] = p]

Create(t) ==
    /\ ~crashed
    /\ pc[t] = "create"
    /\ \E e \in Entries :
          /\ Allocate(e, peer[t])
          /\ mine' = [mine EXCEPT ![t] = e]
    /\ pc' = [pc EXCEPT ![t] = "attach"]
    /\ UNCHANGED <<first, last, next, prior, freed, cursor, peer, known,
                   crashed, locked, ghosts>>

(* if (queue->first == NULL)                                               *)
Attach(t) ==
    /\ ~crashed
    /\ pc[t] = "attach"
    /\ pc' = [pc EXCEPT ![t] = IF first = Null THEN "first" ELSE "hook"]
    /\ UNCHANGED <<queueVars, cursor, peer, mine, known, crashed, locked, ghosts>>

(* queue->first = entry                                                    *)
SetFirst(t) ==
    /\ ~crashed
    /\ pc[t] = "first"
    /\ first' = mine[t]
    /\ pc' = [pc EXCEPT ![t] = "last"]
    /\ UNCHANGED <<last, next, prior, peerOf, freed, cursor, peer, mine, known,
                   crashed, locked, ghosts>>

(* The read of queue->last in queue->last->next = entry                    *)
Hook(t) ==
    /\ ~crashed
    /\ pc[t] = "hook"
    /\ IF last = Null
       THEN /\ crashed' = TRUE
            /\ UNCHANGED <<pc, cursor>>
       ELSE /\ cursor' = [cursor EXCEPT ![t] = last]
            /\ pc' = [pc EXCEPT ![t] = "join"]
            /\ UNCHANGED crashed
    /\ UNCHANGED <<queueVars, peer, mine, known, locked, ghosts>>

(* Mutant: the entry is hooked behind the first and not behind the last.   *)
JoinFirst(t) ==
    /\ ~crashed
    /\ pc[t] = "join"
    /\ next' = [next EXCEPT ![first] = mine[t]]
    /\ pc' = [pc EXCEPT ![t] = "link"]
    /\ UNCHANGED <<first, last, prior, peerOf, freed, cursor, peer, mine, known,
                   crashed, locked, ghosts>>

(* The write of queue->last->next = entry                                  *)
Join(t) ==
    /\ ~crashed
    /\ pc[t] = "join"
    /\ next' = [next EXCEPT ![cursor[t]] = mine[t]]
    /\ pc' = [pc EXCEPT ![t] = "link"]
    /\ UNCHANGED <<first, last, prior, peerOf, freed, cursor, peer, mine, known,
                   crashed, locked, ghosts>>

(* entry->prior = queue->last                                              *)
LinkPrior(t) ==
    /\ ~crashed
    /\ pc[t] = "link"
    /\ prior' = [prior EXCEPT ![mine[t]] = last]
    /\ pc' = [pc EXCEPT ![t] = "last"]
    /\ UNCHANGED <<first, last, next, peerOf, freed, cursor, peer, mine, known,
                   crashed, locked, ghosts>>

(* Mutant: find_peer forgets to move the end of the queue.                 *)
LastUnmoved(t) ==
    /\ ~crashed
    /\ pc[t] = "last"
    /\ Return(t)
    /\ UNCHANGED <<queueVars, crashed, locked, ghosts>>

(* queue->last = entry.  The entry is now older than those to come.        *)
SetLast(t) ==
    /\ ~crashed
    /\ pc[t] = "last"
    /\ last' = mine[t]
    /\ appends' = appends + 1
    /\ age' = [age EXCEPT ![mine[t]] = appends + 1]
    /\ Return(t)
    /\ UNCHANGED <<first, next, prior, peerOf, freed, crashed, locked>>

-----------------------------------------------------------------------------
(* The locked operations                                                   *)

(* queue_add: the entry becomes the last, and the old last is not told.    *)
QueueAdd(p) ==
    /\ ~crashed
    /\ "add" \in Api
    /\ locked < MaxLocked
    /\ \E e \in Entries :
          /\ Allocate(e, p)
          /\ prior' = [prior EXCEPT ![e] = last]
          /\ last' = e
          /\ first' = IF first = Null THEN e ELSE first
    /\ locked' = locked + 1
    /\ UNCHANGED <<next, freed, pc, cursor, peer, mine, known, crashed, ghosts>>

(* The entries met from first on, as far as there are entries              *)
Nth == LET nth[k \in 0..Cardinality(Entries)] ==
               IF k = 0 THEN first
               ELSE IF nth[k - 1] = Null THEN Null ELSE next[nth[k - 1]]
       IN  nth

(* queue_remove: the first entry of the peer is unhooked from its          *)
(* predecessor and freed; the head of the queue has no predecessor.        *)
QueueRemove(p) ==
    /\ ~crashed
    /\ "remove" \in Api
    /\ locked < MaxLocked
    /\ \E k \in DOMAIN Nth :
          LET e == Nth[k]
          IN  /\ e # Null
              /\ peerOf[e] = p
              /\ \A j \in 0..(k - 1) : peerOf[Nth[j]] # p
              /\ IF prior[e] = Null
                 THEN /\ crashed' = TRUE
                      /\ UNCHANGED <<next, prior, freed>>
                 ELSE /\ next' = [next EXCEPT ![prior[e]] = next[e], ![e] = Null]
                      /\ prior' = [prior EXCEPT ![e] = Null]
                      /\ freed' = freed \cup {e}
                      /\ UNCHANGED crashed
    /\ locked' = locked + 1
    /\ UNCHANGED <<first, last, peerOf, pc, cursor, peer, mine, known, ghosts>>

(* queue_pop of a request with something to do: the first entry is put     *)
(* behind the last, and still points at the entry that follows it.         *)
QueuePop ==
    /\ ~crashed
    /\ "pop" \in Api
    /\ locked < MaxLocked
    /\ first # Null
    /\ next[first] # Null
    /\ first' = next[first]
    /\ next' = [next EXCEPT ![last] = first]
    /\ last' = first
    /\ locked' = locked + 1
    /\ UNCHANGED <<prior, peerOf, freed, pc, cursor, peer, mine, known, crashed,
                   ghosts>>

-----------------------------------------------------------------------------
Step ==
    \/ \E t \in Threads :
          \/ \E p \in Peers : Begin(t, p)
          \/ Walk(t)
    \/ \E t \in Creators :
          \/ Create(t)
          \/ Attach(t)
          \/ SetFirst(t)
          \/ Hook(t)
          \/ Join(t)
          \/ LinkPrior(t)
          \/ SetLast(t)
    \/ \E p \in Peers : QueueAdd(p) \/ QueueRemove(p)
    \/ QueuePop

Next == Step /\ clash' = (clash \/ Overlap')

Spec == Init /\ [][Next]_vars

-----------------------------------------------------------------------------
(* The type invariant.                                                     *)
TypeOK ==
    /\ first \in Link /\ last \in Link
    /\ next \in [Entries -> Link] /\ prior \in [Entries -> Link]
    /\ peerOf \in [Entries -> Peers \cup {Null}]
    /\ freed \subseteq Entries
    /\ pc \in [Threads -> {"idle", "walk", "create", "missed"} \cup Appending]
    /\ cursor \in [Threads -> Link]
    /\ peer \in [Threads -> Peers \cup {Null}]
    /\ mine \in [Threads -> Link]
    /\ known \in [Threads -> SUBSET Peers]
    /\ crashed \in BOOLEAN
    /\ locked \in 0..MaxLocked
    /\ clash \in BOOLEAN
    /\ appends \in Nat
    /\ age \in [Entries -> Nat]

(* The queue is used as the node uses it, without the locked operations,   *)
(* and no two appends of find_peer have crossed.                           *)
Undisturbed == locked = 0 /\ ~clash

(* Any number of threads may be in find_peer: as long as no two are past   *)
(* their walks at once, the queue has one PeerRequest for every peer.      *)
OneEntryPerPeer ==
    Undisturbed => \A d, e \in Attached : peerOf[d] = peerOf[e] => d = e

(* The peer thread walks the list while other threads append to it, and    *)
(* misses a peer that was there when its walk began only if two appends    *)
(* have crossed: the later write of last->next drops the earlier entry.    *)
WalkMissesNobody ==
    Undisturbed =>
        \A t \in Readers : pc[t] = "missed" => peer[t] \notin known[t]

(* Between operations the two directions of the list agree and it ends at  *)
(* its last entry.                                                         *)
Chained ==
    AtRest /\ Undisturbed => \A e \in Attached :
        /\ e = last <=> next[e] = Null
        /\ e = first <=> prior[e] = Null
        /\ next[e] # Null => prior[next[e]] = e

(* find_peer follows a null pointer only if two appends have crossed.      *)
NullNotFollowed == Undisturbed => ~crashed

(* However the appends of find_peer cross, an entry only ever points at    *)
(* one that became the last after it: the list has no loop, and the walks  *)
(* of find_peer and find_entry end.                                        *)
NoLoop ==
    locked = 0 => \A e \in Entries :
        next[e] # Null =>
            age[e] # 0 /\ (age[next[e]] # 0 => age[e] < age[next[e]])

(* The queue has a first entry exactly when it has a last, whatever mix of *)
(* operations ran.                                                         *)
EmptyAtBothEnds ==
    AtRest => (first = Null <=> last = Null)

(* What find_peer and the operations of the queue keep of the list.        *)
ListSound ==
    TypeOK /\ OneEntryPerPeer /\ Chained /\ NullNotFollowed /\ NoLoop
        /\ EmptyAtBothEnds
=============================================================================

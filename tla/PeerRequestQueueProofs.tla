------------------------ MODULE PeerRequestQueueProofs ------------------------
(* Theorems about the queue of peer requests (module PeerRequestQueue): for    *)
(* any peers and entries and any number of threads in find_peer and            *)
(* find_entry.  What the unlocked find_peer keeps of the list it keeps until   *)
(* two of its appends cross; that the list has no loop, it keeps for ever.     *)
EXTENDS PeerRequestQueue, FiniteSetTheorems, SequenceTheorems, TLAPS

(***************************************************************************)
(* What holds with any number of threads and any mix of operations         *)
(***************************************************************************)

\* first and last are set together, but for the moment between the two in which
\* find_peer makes the first entry.
Ends ==
    /\ first = Null => last = Null
    /\ last = Null => first = Null \/ \E t \in Creators : pc[t] = "last"
    /\ \A t \in Creators :
           /\ pc[t] \in Appending => mine[t] \in Entries
           /\ pc[t] = "join" => cursor[t] \in Entries
           /\ pc[t] \in {"hook", "join", "link", "last"} => first # Null
           /\ pc[t] \in {"walk", "create"} \cup Appending => peer[t] \in Peers

\* Every entry has its number when another is hooked behind it: numbers grow
\* along the list, and an entry on its way into the list has none.
Numbered ==
    /\ \A e \in Entries : age[e] <= appends /\ (peerOf[e] = Null => age[e] = 0)
    /\ \A e \in Entries : next[e] # Null =>
           age[e] # 0 /\ (age[next[e]] # 0 => age[e] < age[next[e]])
    /\ last # Null => age[last] # 0
    /\ \A t \in Creators :
           /\ pc[t] = "join" => age[cursor[t]] # 0
           /\ pc[t] \in Appending => age[mine[t]] = 0 /\ peerOf[mine[t]] # Null
    /\ \A t, u \in Creators :
           pc[t] \in Appending /\ pc[u] \in Appending /\ t # u => mine[t] # mine[u]

(***************************************************************************)
(* The list that creators build as long as their appends do not cross      *)
(***************************************************************************)

\* s is the list as a walk from its first entry meets it, one entry for a peer.
Listed(s) ==
    /\ first = IF s = <<>> THEN Null ELSE s[1]
    /\ \A i \in 1..Len(s) : /\ peerOf[s[i]] # Null
                            /\ next[s[i]] = IF i = Len(s) THEN Null ELSE s[i + 1]
    /\ \A i, j \in 1..Len(s) : peerOf[s[i]] = peerOf[s[j]] => i = j

\* The first n entries of s point back, and the queue ends at the m-th.
Backed(s, n, m) ==
    /\ \A i \in 1..n : prior[s[i]] = IF i = 1 THEN Null ELSE s[i - 1]
    /\ last = IF m = 0 THEN Null ELSE s[m]

Waiting == {"attach", "first", "hook", "join"}

\* Every entry is in the list, or is about to be.
Placed(s) ==
    \A e \in Entries :
        /\ peerOf[e] # Null => \/ \E i \in 1..Len(s) : e = s[i]
                               \/ \E c \in Creators : pc[c] \in Waiting /\ e = mine[c]
        /\ (\A i \in 1..Len(s) : e # s[i]) => next[e] = Null /\ prior[e] = Null

\* Unless a creator is between its last two writes the list is whole.
Whole(s) ==
    (\A c \in Creators : pc[c] \notin {"link", "last"}) => Backed(s, Len(s), Len(s))

\* How far the creator c is.
Stage(c, s) ==
    /\ pc[c] = "link" => Len(s) >= 2 /\ mine[c] = s[Len(s)] /\ Backed(s, Len(s) - 1, Len(s) - 1)
    /\ pc[c] = "last" => Len(s) >= 1 /\ mine[c] = s[Len(s)] /\ Backed(s, Len(s), Len(s) - 1)
    /\ pc[c] \in Waiting => peerOf[mine[c]] = peer[c] /\ \A i \in 1..Len(s) : mine[c] # s[i]
    /\ pc[c] = "first" => s = <<>>
    /\ pc[c] \in {"hook", "join"} => s # <<>>
    /\ pc[c] = "join" => cursor[c] = last
    /\ pc[c] \in {"create"} \cup Waiting => \A i \in 1..Len(s) : peerOf[s[i]] # peer[c]
    /\ pc[c] = "walk" => /\ cursor[c] # Null => \E j \in 1..Len(s) : cursor[c] = s[j]
                         /\ \A i \in 1..Len(s) :
                                peerOf[s[i]] = peer[c] => \E j \in 1..i : cursor[c] = s[j]

\* A walk for a peer that was there has the peer's entry before it.
Ahead(t, s) ==
    /\ pc[t] = "walk" /\ peer[t] \in known[t] =>
           \E i \in 1..Len(s) : peerOf[s[i]] = peer[t] /\ \E j \in 1..i : cursor[t] = s[j]
    /\ pc[t] = "missed" => peer[t] \notin known[t]

Kept(s) ==
    /\ s \in Seq(Entries) /\ ~crashed
    /\ Listed(s) /\ Placed(s) /\ Whole(s)
    /\ (\A c \in Creators : Stage(c, s)) /\ \A t \in Readers : Ahead(t, s)

IInv ==
    /\ TypeOK /\ Ends
    /\ locked = 0 => Numbered
    /\ ~clash => ~Overlap
    /\ Undisturbed => \E s : Kept(s)


-----------------------------------------------------------------------------
(* The walk of queue_remove meets entries of the list only.                 *)

\* A set of numbers that is not empty has a least element.
LEMMA LeastNumber ==
    ASSUME NEW T, T \subseteq Nat, T # {}
    PROVE  \E x \in T : \A y \in T : x <= y
<1>1. IsWellFoundedOn(OpToRel(<, Nat), Nat)
  BY NatLessThanWellFounded, Zenon
<1>2. PICK R : R = OpToRel(<, Nat)
  BY Zenon
<1>3. IsWellFoundedOn(R, Nat)
  BY <1>1, <1>2, Zenon
<1>4. \A y, x \in Nat : y < x => <<y, x>> \in R
  BY <1>2, Zenon DEF OpToRel
<1>5. \E x \in T : \A y \in T : ~(<<y, x>> \in R)
  BY <1>3, WFMin, Zenon
<1>6. PICK x \in T : \A y \in T : ~(<<y, x>> \in R)
  BY <1>5, Zenon
<1>7. \A y \in T : x \in Nat /\ y \in Nat /\ ~(y < x)
  BY <1>4, <1>6, Zenon
<1>8. \A y \in T : x <= y
  BY <1>7
<1>9. QED
  BY <1>8

\* One step of the walk, given the walk so far.
Met(g, f, nx, k) == IF k = 0 THEN f ELSE IF g[k - 1] = Null THEN Null ELSE nx[g[k - 1]]

IsWalk(g, n, f, nx) == g = [k \in 0..n |-> Met(g, f, nx, k)]

LEMMA WalkExists ==
    ASSUME NEW n \in Nat, NEW f, NEW nx
    PROVE  \E g : IsWalk(g, n, f, nx)
<1> USE DEF IsWalk
<1> DEFINE Has(m) == \E g : g = [k \in 0..m |-> Met(g, f, nx, k)]
           Bad == {m \in Nat : ~Has(m)}
<1>1. SUFFICES ASSUME Bad # {} PROVE FALSE
  BY Zenon
<1>2. PICK m \in Bad : \A y \in Bad : m <= y
  <2>1. Bad \subseteq Nat
    BY Zenon
  <2> HIDE DEF Bad
  <2>2. QED
    BY <1>1, <2>1, LeastNumber
<1>3. m \in Nat /\ ~Has(m)
  BY <1>2, Zenon
<1>4. CASE m = 0
  <2>1. PICK g : g = [k \in 0..0 |-> f]
    OBVIOUS
  <2>2. g = [k \in 0..0 |-> Met(g, f, nx, k)]
    BY <2>1 DEF Met
  <2>3. QED
    BY <1>3, <1>4, <2>2, Zenon
<1>5. CASE m # 0
  <2>1. Has(m - 1)
    <3>1. m - 1 \in Nat /\ ~(m <= m - 1)
      BY <1>3, <1>5
    <3>2. QED
      BY <1>2, <3>1, Zenon
  <2>2. PICK g : g = [k \in 0..(m - 1) |-> Met(g, f, nx, k)]
    BY <2>1, Zenon
  <2> DEFINE h == [k \in 0..m |-> IF k = m THEN Met(g, f, nx, m) ELSE g[k]]
  <2>3. ASSUME NEW k \in 0..m PROVE h[k] = Met(h, f, nx, k)
    <3>1. k # 0 => h[k - 1] = g[k - 1]
      BY <1>3
    <3>2. Met(h, f, nx, k) = Met(g, f, nx, k)
      <4> HIDE DEF h
      <4>1. QED
        BY <3>1, Zenon DEF Met
    <3>3. CASE k = m
      <4>1. h[k] = Met(g, f, nx, k)
        BY <3>3
      <4> HIDE DEF h
      <4>2. QED
        BY <3>2, <4>1, Zenon
    <3>4. CASE k # m
      <4>1. h[k] = g[k] /\ k \in 0..(m - 1)
        BY <1>3, <3>4
      <4>2. g[k] = Met(g, f, nx, k)
        BY <2>2, <4>1
      <4> HIDE DEF h
      <4>3. QED
        BY <3>2, <4>1, <4>2, Zenon
    <3>5. QED
      BY <3>3, <3>4, Zenon
  <2>4. h = [k \in 0..m |-> Met(h, f, nx, k)]
    <3>1. PICK w : w = [k \in 0..m |-> Met(h, f, nx, k)]
      BY Zenon
    <3>2. \A k \in 0..m : h[k] = w[k]
      <4> HIDE DEF h
      <4>1. QED
        BY <2>3, <3>1
    <3>3. QED
      BY <3>1, <3>2
  <2>5. QED
    BY <1>3, <2>4, Zenon
<1>6. QED
  BY <1>4, <1>5, Zenon

LEMMA NthType ==
    ASSUME first \in Link, next \in [Entries -> Link], NEW k \in DOMAIN Nth
    PROVE  Nth[k] \in Link
<1>1. PICK n \in Nat : n = Cardinality(Entries)
  BY QueueAssumption, FS_CardinalityType
<1>2. PICK f, nx : f = first /\ nx = next
  OBVIOUS
<1>3. PICK g : IsWalk(g, n, f, nx)
  BY WalkExists, Zenon
<1> DEFINE All(h) == [i \in 0..n |-> Met(h, f, nx, i)]
<1>4. Nth = CHOOSE h : h = All(h)
  BY <1>1, <1>2 DEF Nth, Met
<1>5. Nth = All(Nth)
  <2>1. g = All(g)
    BY <1>3 DEF IsWalk
  <2> HIDE DEF All
  <2>2. QED
    BY <1>4, <2>1, Zenon
<1>6. PICK h : h = Nth
  OBVIOUS
<1>7. DOMAIN h = 0..n /\ \A i \in 0..n : h[i] = Met(h, f, nx, i)
  BY <1>5, <1>6
<1> DEFINE Bad == {i \in 0..n : h[i] \notin Link}
<1>8. SUFFICES ASSUME Bad # {} PROVE FALSE
  BY <1>6, <1>7
<1>9. PICK i \in Bad : \A y \in Bad : i <= y
  <2>1. Bad \subseteq Nat
    OBVIOUS
  <2> HIDE DEF Bad
  <2>2. QED
    BY <1>8, <2>1, LeastNumber
<1>10. i \in 0..n /\ h[i] \notin Link
  BY <1>9, Zenon
<1>11. i # 0 => h[i - 1] \in Link
  <2>1. SUFFICES ASSUME i # 0 PROVE h[i - 1] \in Link
    OBVIOUS
  <2>2. i - 1 \in 0..n /\ ~(i <= i - 1)
    BY <1>10, <2>1
  <2>3. QED
    BY <1>9, <2>2, Zenon
<1>12. h[i] = Met(h, f, nx, i)
  BY <1>7, <1>10, Zenon
<1>13. QED
  BY <1>2, <1>10, <1>11, <1>12 DEF Met, Link


-----------------------------------------------------------------------------
(* Types and ends.                                                          *)

LEMMA TypesInit ==
    ASSUME Init
    PROVE  TypeOK /\ Ends
<1>1. TypeOK
  <2>1. 0 \in 0..MaxLocked /\ 0 \in Nat /\ {} \in SUBSET Peers /\ {} \subseteq Entries
    BY QueueAssumption
  <2>2. /\ pc \in [Threads -> {"idle", "walk", "create", "missed"} \cup Appending]
        /\ age \in [Entries -> Nat] /\ known \in [Threads -> SUBSET Peers]
    BY <2>1 DEF Init
  <2>3. QED
    BY <2>1, <2>2 DEF Init, TypeOK, Link
<1>2. Ends
  BY DEF Init, Ends, Threads, Appending
<1>3. QED
  BY <1>1, <1>2

LEMMA BeginTypes ==
    ASSUME TypeOK, Ends, clash' \in BOOLEAN, NEW t \in Threads, NEW p \in Peers, Begin(t, p)
    PROVE  TypeOK' /\ Ends'
<1>1. /\ pc[t] \in {"idle", "missed"} /\ pc' = [pc EXCEPT ![t] = "walk"]
      /\ peer' = [peer EXCEPT ![t] = p] /\ cursor' = [cursor EXCEPT ![t] = first]
      /\ UNCHANGED <<first, last, next, prior, peerOf, freed, mine, crashed, locked, appends, age>>
  BY DEF Begin, queueVars, ghosts
<1>2. PICK k \in SUBSET Peers : known' = [known EXCEPT ![t] = k]
  <2>1. {peerOf[e] : e \in Attached} \in SUBSET Peers
    BY DEF TypeOK, Attached
  <2>2. QED
    BY <2>1 DEF Begin
<1>3. TypeOK'
  <2>1. known' \in [Threads -> SUBSET Peers]
    BY <1>2 DEF TypeOK
  <2>2. /\ pc' \in [Threads -> {"idle", "walk", "create", "missed"} \cup Appending]
        /\ cursor' \in [Threads -> Link] /\ peer' \in [Threads -> Peers \cup {Null}]
    BY <1>1 DEF TypeOK, Link
  <2>3. QED
    BY <1>1, <2>1, <2>2 DEF TypeOK
<1>4. Ends'
  BY <1>1 DEF TypeOK, Ends, Threads, Appending
<1>5. QED
  BY <1>3, <1>4

LEMMA ReturnTypes ==
    ASSUME TypeOK, NEW t \in Threads, Return(t)
    PROVE  /\ pc' \in [Threads -> {"idle", "walk", "create", "missed"} \cup Appending]
           /\ cursor' \in [Threads -> Link] /\ peer' \in [Threads -> Peers \cup {Null}]
           /\ mine' \in [Threads -> Link] /\ known' \in [Threads -> SUBSET Peers]
           /\ pc'[t] = "idle"
           /\ \A u \in Threads \ {t} : /\ pc'[u] = pc[u] /\ peer'[u] = peer[u]
                                       /\ cursor'[u] = cursor[u] /\ mine'[u] = mine[u]
                                       /\ known'[u] = known[u]
BY DEF TypeOK, Link, Return

LEMMA WalkTypes ==
    ASSUME TypeOK, Ends, clash' \in BOOLEAN, NEW t \in Threads, Walk(t)
    PROVE  TypeOK' /\ Ends'
<1>1. PICK e : e = cursor[t]
  OBVIOUS
<1>2. /\ pc[t] = "walk" /\ UNCHANGED <<first, last, next, prior, peerOf, freed, crashed, locked, appends, age>>
      /\ \/ Return(t)
         \/ /\ e # Null /\ cursor' = [cursor EXCEPT ![t] = next[e]] /\ UNCHANGED <<pc, peer, mine, known>>
         \/ /\ pc' = [pc EXCEPT ![t] = "create"] /\ UNCHANGED <<cursor, peer, mine, known>>
         \/ /\ pc' = [pc EXCEPT ![t] = "missed"] /\ UNCHANGED <<cursor, peer, mine, known>>
  BY <1>1 DEF Walk, queueVars, ghosts
<1>3. e \in Link /\ (e # Null => next[e] \in Link)
  BY <1>1 DEF TypeOK, Link
<1>4. CASE Return(t)
  <2>1. TypeOK'
    BY <1>2, <1>4, ReturnTypes DEF TypeOK
  <2>2. Ends'
    BY <1>2, <1>4, ReturnTypes DEF Ends, Threads, Appending
  <2>3. QED
    BY <2>1, <2>2
<1>5. CASE ~Return(t)
  <2>1. TypeOK'
    BY <1>2, <1>3, <1>5 DEF TypeOK
  <2>2. Ends'
    BY <1>2, <1>5 DEF TypeOK, Ends, Threads, Appending
  <2>3. QED
    BY <2>1, <2>2
<1>6. QED
  BY <1>4, <1>5

LEMMA CreateTypes ==
    ASSUME TypeOK, Ends, clash' \in BOOLEAN, NEW t \in Creators, Create(t)
    PROVE  TypeOK' /\ Ends'
<1>1. PICK e \in Entries : /\ peerOf[e] = Null /\ peerOf' = [peerOf EXCEPT ![e] = peer[t]]
                           /\ mine' = [mine EXCEPT ![t] = e]
  BY DEF Create, Allocate
<1>2. /\ pc[t] = "create" /\ pc' = [pc EXCEPT ![t] = "attach"]
      /\ UNCHANGED <<first, last, next, prior, freed, cursor, peer, known, crashed, locked, appends, age>>
  BY DEF Create, ghosts
<1>3. t \in Threads
  BY DEF Threads
<1>4. TypeOK'
  BY <1>1, <1>2, <1>3 DEF TypeOK, Link, Appending
<1>5. Ends'
  BY <1>1, <1>2, <1>3 DEF TypeOK, Ends, Threads, Appending
<1>6. QED
  BY <1>4, <1>5

LEMMA AttachTypes ==
    ASSUME TypeOK, Ends, clash' \in BOOLEAN, NEW t \in Creators, Attach(t)
    PROVE  TypeOK' /\ Ends'
<1>1. /\ pc[t] = "attach"
      /\ UNCHANGED <<first, last, next, prior, peerOf, freed, cursor, peer, mine, known, crashed, locked, appends, age>>
      /\ \/ pc' = [pc EXCEPT ![t] = "first"]
         \/ first # Null /\ pc' = [pc EXCEPT ![t] = "hook"]
  BY DEF Attach, queueVars, ghosts
<1>2. t \in Threads
  BY DEF Threads
<1>3. TypeOK'
  BY <1>1, <1>2 DEF TypeOK, Appending
<1>4. Ends'
  BY <1>1, <1>2 DEF TypeOK, Ends, Threads, Appending
<1>5. QED
  BY <1>3, <1>4

LEMMA SetFirstTypes ==
    ASSUME TypeOK, Ends, clash' \in BOOLEAN, NEW t \in Creators, SetFirst(t)
    PROVE  TypeOK' /\ Ends'
<1>1. /\ pc[t] = "first" /\ first' = mine[t] /\ pc' = [pc EXCEPT ![t] = "last"]
      /\ UNCHANGED <<last, next, prior, peerOf, freed, cursor, peer, mine, known, crashed, locked, appends, age>>
  BY DEF SetFirst, ghosts
<1>2. t \in Threads /\ mine[t] \in Entries /\ mine[t] # Null /\ mine[t] \in Link
  BY <1>1, QueueAssumption DEF Threads, Ends, Link, Appending
<1>3. TypeOK'
  BY <1>1, <1>2 DEF TypeOK, Appending
<1>4. Ends'
  BY <1>1, <1>2 DEF TypeOK, Ends, Threads, Appending
<1>5. QED
  BY <1>3, <1>4

LEMMA HookTypes ==
    ASSUME TypeOK, Ends, clash' \in BOOLEAN, NEW t \in Creators, Hook(t)
    PROVE  TypeOK' /\ Ends'
<1>1. /\ pc[t] = "hook"
      /\ UNCHANGED <<first, last, next, prior, peerOf, freed, peer, mine, known, locked, appends, age>>
      /\ \/ crashed' = TRUE /\ UNCHANGED <<pc, cursor>>
         \/ /\ last # Null /\ cursor' = [cursor EXCEPT ![t] = last] /\ pc' = [pc EXCEPT ![t] = "join"]
            /\ UNCHANGED crashed
  BY DEF Hook, queueVars, ghosts
<1>2. t \in Threads /\ last \in Link /\ (last # Null => last \in Entries)
  BY DEF Threads, Link, TypeOK
<1>3. TypeOK'
  BY <1>1, <1>2 DEF TypeOK, Appending
<1>4. Ends'
  BY <1>1, <1>2 DEF TypeOK, Ends, Threads, Appending
<1>5. QED
  BY <1>3, <1>4

LEMMA JoinTypes ==
    ASSUME TypeOK, Ends, clash' \in BOOLEAN, NEW t \in Creators, Join(t)
    PROVE  TypeOK' /\ Ends'
<1>1. /\ pc[t] = "join" /\ next' = [next EXCEPT ![cursor[t]] = mine[t]] /\ pc' = [pc EXCEPT ![t] = "link"]
      /\ UNCHANGED <<first, last, prior, peerOf, freed, cursor, peer, mine, known, crashed, locked, appends, age>>
  BY DEF Join, ghosts
<1>2. t \in Threads /\ mine[t] \in Entries /\ mine[t] \in Link
  BY <1>1 DEF Threads, Ends, Link, Appending
<1>3. TypeOK'
  BY <1>1, <1>2 DEF TypeOK, Appending
<1>4. Ends'
  BY <1>1, <1>2 DEF TypeOK, Ends, Threads, Appending
<1>5. QED
  BY <1>3, <1>4

LEMMA LinkPriorTypes ==
    ASSUME TypeOK, Ends, clash' \in BOOLEAN, NEW t \in Creators, LinkPrior(t)
    PROVE  TypeOK' /\ Ends'
<1>1. /\ pc[t] = "link" /\ prior' = [prior EXCEPT ![mine[t]] = last] /\ pc' = [pc EXCEPT ![t] = "last"]
      /\ UNCHANGED <<first, last, next, peerOf, freed, cursor, peer, mine, known, crashed, locked, appends, age>>
  BY DEF LinkPrior, ghosts
<1>2. t \in Threads
  BY DEF Threads
<1>3. TypeOK'
  BY <1>1, <1>2 DEF TypeOK, Appending
<1>4. Ends'
  BY <1>1, <1>2 DEF TypeOK, Ends, Threads, Appending
<1>5. QED
  BY <1>3, <1>4

LEMMA SetLastTypes ==
    ASSUME TypeOK, Ends, clash' \in BOOLEAN, NEW t \in Creators, SetLast(t)
    PROVE  TypeOK' /\ Ends'
<1>1. /\ pc[t] = "last" /\ last' = mine[t] /\ Return(t) /\ appends' = appends + 1
      /\ age' = [age EXCEPT ![mine[t]] = appends + 1]
      /\ UNCHANGED <<first, next, prior, peerOf, freed, crashed, locked>>
  BY DEF SetLast
<1>2. t \in Threads /\ mine[t] \in Entries /\ mine[t] # Null /\ mine[t] \in Link /\ first # Null
  BY <1>1, QueueAssumption DEF Threads, Ends, Link, Appending
<1>3. TypeOK'
  <2>1. appends + 1 \in Nat
    BY DEF TypeOK
  <2>2. age' \in [Entries -> Nat]
    BY <1>1, <2>1 DEF TypeOK
  <2>3. QED
    BY <1>1, <1>2, <2>1, <2>2, ReturnTypes DEF TypeOK
<1>4. Ends'
  BY <1>1, <1>2, ReturnTypes DEF Ends, Threads, Appending
<1>5. QED
  BY <1>3, <1>4

LEMMA QueueAddTypes ==
    ASSUME TypeOK, Ends, clash' \in BOOLEAN, NEW p \in Peers, QueueAdd(p)
    PROVE  TypeOK' /\ Ends' /\ locked' # 0
<1>1. PICK e \in Entries : /\ peerOf' = [peerOf EXCEPT ![e] = p] /\ prior' = [prior EXCEPT ![e] = last]
                           /\ last' = e /\ first' = IF first = Null THEN e ELSE first
  BY DEF QueueAdd, Allocate
<1>2. locked < MaxLocked /\ locked' = locked + 1 /\ UNCHANGED <<next, freed, pc, cursor, peer, mine, known, crashed, appends, age>>
  BY DEF QueueAdd, ghosts
<1>3. e # Null /\ e \in Link
  BY QueueAssumption DEF Link
<1>4. locked' \in 0..MaxLocked /\ locked' # 0
  BY <1>2, QueueAssumption DEF TypeOK
<1>5. TypeOK'
  BY <1>1, <1>2, <1>3, <1>4 DEF TypeOK
<1>6. Ends'
  BY <1>1, <1>2, <1>3 DEF Ends
<1>7. QED
  BY <1>4, <1>5, <1>6

LEMMA QueueRemoveTypes ==
    ASSUME TypeOK, Ends, clash' \in BOOLEAN, NEW p \in Peers, QueueRemove(p)
    PROVE  TypeOK' /\ Ends' /\ locked' # 0
<1>1. PICK k \in DOMAIN Nth :
          /\ Nth[k] # Null
          /\ \/ crashed' = TRUE /\ UNCHANGED <<next, prior, freed>>
             \/ /\ next' = [next EXCEPT ![prior[Nth[k]]] = next[Nth[k]], ![Nth[k]] = Null]
                /\ prior' = [prior EXCEPT ![Nth[k]] = Null]
                /\ freed' = freed \cup {Nth[k]} /\ UNCHANGED crashed
  BY Zenon DEF QueueRemove
<1>2. locked < MaxLocked /\ locked' = locked + 1 /\ UNCHANGED <<first, last, peerOf, pc, cursor, peer, mine, known, appends, age>>
  BY DEF QueueRemove, ghosts
<1>3. PICK e \in Entries : e = Nth[k]
  <2>1. first \in Link /\ next \in [Entries -> Link]
    BY DEF TypeOK
  <2>2. Nth[k] \in Link
    BY <2>1, NthType, Zenon
  <2>3. QED
    BY <1>1, <2>2 DEF Link
<1>4. \/ crashed' = TRUE /\ UNCHANGED <<next, prior, freed>>
      \/ /\ next' = [next EXCEPT ![prior[e]] = next[e], ![e] = Null]
         /\ prior' = [prior EXCEPT ![e] = Null]
         /\ freed' = freed \cup {e} /\ UNCHANGED crashed
  BY <1>1, <1>3, Zenon
<1>5. next' \in [Entries -> Link] /\ prior' \in [Entries -> Link] /\ freed' \subseteq Entries /\ crashed' \in BOOLEAN
  BY <1>4 DEF TypeOK, Link
<1>6. locked' \in 0..MaxLocked /\ locked' # 0
  BY <1>2, QueueAssumption DEF TypeOK
<1>7. TypeOK'
  BY <1>2, <1>5, <1>6 DEF TypeOK
<1>8. Ends'
  BY <1>2 DEF Ends
<1>9. QED
  BY <1>6, <1>7, <1>8

LEMMA QueuePopTypes ==
    ASSUME TypeOK, Ends, clash' \in BOOLEAN, QueuePop
    PROVE  TypeOK' /\ Ends' /\ locked' # 0
<1>1. /\ first # Null /\ next[first] # Null /\ first' = next[first]
      /\ next' = [next EXCEPT ![last] = first] /\ last' = first /\ locked < MaxLocked /\ locked' = locked + 1
      /\ UNCHANGED <<prior, peerOf, freed, pc, cursor, peer, mine, known, crashed, appends, age>>
  BY DEF QueuePop, ghosts
<1>2. first \in Entries
  BY <1>1 DEF TypeOK, Link
<1>3. locked' \in 0..MaxLocked /\ locked' # 0
  BY <1>1, QueueAssumption DEF TypeOK
<1>4. TypeOK'
  BY <1>1, <1>2, <1>3 DEF TypeOK
<1>5. Ends'
  BY <1>1 DEF Ends
<1>6. QED
  BY <1>3, <1>4, <1>5

LEMMA TypesStep ==
    ASSUME TypeOK, Ends, [Next]_vars
    PROVE  TypeOK' /\ Ends'
<1>1. CASE UNCHANGED vars
  <2>1. UNCHANGED <<first, last, next, prior, peerOf, freed, pc, cursor, peer, mine, known, crashed, locked, clash, appends, age>>
    BY <1>1 DEF vars
  <2>2. TypeOK'
    BY <2>1 DEF TypeOK
  <2>3. Ends'
    BY <2>1 DEF Ends
  <2>4. QED
    BY <2>2, <2>3
<1>2. CASE Next
  <2>1. clash' \in BOOLEAN
    BY <1>2, Zenon DEF Next
  <2>2. QED
    BY <1>2, <2>1, BeginTypes, WalkTypes, CreateTypes, AttachTypes, SetFirstTypes, HookTypes,
       JoinTypes, LinkPriorTypes, SetLastTypes, QueueAddTypes, QueueRemoveTypes, QueuePopTypes,
       Zenon DEF Next, Step
<1>3. QED
  BY <1>1, <1>2

-----------------------------------------------------------------------------
(* The numbers grow along the list, whoever appends.                        *)

\* A step that hooks nothing and makes nothing leaves the numbers in order.
LEMMA SameNumbers ==
    ASSUME TypeOK, Ends, Numbered, NEW t \in Threads,
           UNCHANGED <<last, next, peerOf, appends, age>>,
           \A u \in Threads \ {t} : pc'[u] = pc[u] /\ mine'[u] = mine[u] /\ cursor'[u] = cursor[u],
           pc'[t] \in Appending => pc[t] \in Appending /\ mine'[t] = mine[t],
           pc'[t] = "join" /\ t \in Creators => cursor'[t] # Null /\ cursor'[t] = last
    PROVE  Numbered'
<1>1. \A u \in Creators : u \in Threads
  BY DEF Threads
<1>2. \A u \in Creators : pc'[u] \in Appending => pc[u] \in Appending /\ mine'[u] = mine[u]
  BY <1>1
<1>3. \A u \in Creators : pc'[u] = "join" => age[cursor'[u]] # 0
  BY <1>1 DEF Numbered
<1>4. QED
  BY <1>2, <1>3 DEF Numbered

LEMMA CreateNumbers ==
    ASSUME TypeOK, Ends, Numbered, NEW t \in Creators, Create(t)
    PROVE  Numbered'
<1>1. PICK e \in Entries : /\ peerOf[e] = Null /\ peerOf' = [peerOf EXCEPT ![e] = peer[t]]
                           /\ mine' = [mine EXCEPT ![t] = e]
  BY DEF Create, Allocate
<1>2. /\ pc[t] = "create" /\ pc' = [pc EXCEPT ![t] = "attach"]
      /\ UNCHANGED <<first, last, next, prior, freed, cursor, peer, known, crashed, locked, appends, age>>
  BY DEF Create, ghosts
<1>3. /\ \A u \in Creators : u \in Threads
      /\ peer[t] \in Peers /\ peer[t] # Null
  BY <1>2, QueueAssumption DEF Threads, Ends
<1>4. /\ pc'[t] = "attach" /\ mine'[t] = e
      /\ \A u \in Creators \ {t} : pc'[u] = pc[u] /\ mine'[u] = mine[u]
  BY <1>1, <1>2, <1>3 DEF TypeOK
<1>5. peerOf'[e] = peer[t] /\ \A d \in Entries : d # e => peerOf'[d] = peerOf[d]
  BY <1>1 DEF TypeOK
<1>6. age[e] = 0
  BY <1>1 DEF Numbered
<1>7. \A u \in Creators \ {t} : pc[u] \in Appending =>
          mine[u] \in Entries /\ mine[u] # e /\ age[mine[u]] = 0 /\ peerOf[mine[u]] # Null
  BY <1>1 DEF Numbered, Ends
<1>8. \A u \in Creators : /\ pc'[u] = "join" => age[cursor[u]] # 0
                          /\ pc'[u] \in Appending => age[mine'[u]] = 0 /\ peerOf'[mine'[u]] # Null
  BY <1>3, <1>4, <1>5, <1>6, <1>7 DEF Numbered
<1>9. \A u, v \in Creators :
          pc'[u] \in Appending /\ pc'[v] \in Appending /\ u # v => mine'[u] # mine'[v]
  BY <1>4, <1>7 DEF Numbered
<1>10. \A d \in Entries : age[d] <= appends /\ (peerOf'[d] = Null => age[d] = 0)
  BY <1>5, <1>6 DEF Numbered
<1>11. QED
  BY <1>2, <1>8, <1>9, <1>10 DEF Numbered

LEMMA JoinNumbers ==
    ASSUME TypeOK, Ends, Numbered, NEW t \in Creators, Join(t)
    PROVE  Numbered'
<1>1. /\ pc[t] = "join" /\ next' = [next EXCEPT ![cursor[t]] = mine[t]] /\ pc' = [pc EXCEPT ![t] = "link"]
      /\ UNCHANGED <<first, last, prior, peerOf, freed, cursor, peer, mine, known, crashed, locked, appends, age>>
  BY DEF Join, ghosts
<1>2. /\ \A u \in Creators : u \in Threads
      /\ mine[t] \in Entries /\ age[mine[t]] = 0 /\ age[cursor[t]] # 0 /\ cursor[t] \in Entries
  BY <1>1 DEF Threads, Ends, Appending, Numbered
<1>3. pc'[t] = "link" /\ \A u \in Creators \ {t} : pc'[u] = pc[u]
  BY <1>1, <1>2 DEF TypeOK
<1>4. next'[cursor[t]] = mine[t] /\ \A e \in Entries : e # cursor[t] => next'[e] = next[e]
  BY <1>1, <1>2 DEF TypeOK
<1>5. \A e \in Entries : next'[e] # Null =>
           age[e] # 0 /\ (age[next'[e]] # 0 => age[e] < age[next'[e]])
  BY <1>2, <1>4 DEF Numbered
<1>6. \A u \in Creators : /\ pc'[u] = "join" => pc[u] = "join"
                          /\ pc'[u] \in Appending => pc[u] \in Appending
  BY <1>1, <1>3 DEF Appending
<1>7. QED
  BY <1>1, <1>5, <1>6 DEF Numbered

LEMMA SetLastNumbers ==
    ASSUME TypeOK, Ends, Numbered, NEW t \in Creators, SetLast(t)
    PROVE  Numbered'
<1>1. /\ pc[t] = "last" /\ last' = mine[t] /\ Return(t) /\ appends' = appends + 1
      /\ age' = [age EXCEPT ![mine[t]] = appends + 1]
      /\ UNCHANGED <<first, next, prior, peerOf, freed, crashed, locked>>
  BY DEF SetLast
<1>2. PICK m \in Entries : m = mine[t]
  BY <1>1 DEF Ends, Appending
<1>3. /\ \A u \in Creators : u \in Threads
      /\ age[m] = 0 /\ peerOf[m] # Null /\ appends \in Nat /\ \A e \in Entries : age[e] \in Nat
  BY <1>1, <1>2 DEF Threads, Appending, Numbered, TypeOK
<1>4. /\ pc'[t] = "idle"
      /\ \A u \in Creators \ {t} : pc'[u] = pc[u] /\ mine'[u] = mine[u] /\ cursor'[u] = cursor[u]
  BY <1>1, <1>3, ReturnTypes
<1>5. age'[m] = appends + 1 /\ \A e \in Entries : e # m => age'[e] = age[e]
  BY <1>1, <1>2 DEF TypeOK
<1>6. \A e \in Entries : age'[e] <= appends' /\ (peerOf'[e] = Null => age'[e] = 0)
  BY <1>1, <1>3, <1>5 DEF Numbered
<1>7. ASSUME NEW e \in Entries, next[e] # Null
      PROVE  age'[e] # 0 /\ (age'[next[e]] # 0 => age'[e] < age'[next[e]])
  <2>1. /\ age[e] # 0 /\ (age[next[e]] # 0 => age[e] < age[next[e]])
        /\ age[e] <= appends /\ age[e] \in Nat /\ next[e] \in Entries
    BY <1>3, <1>7 DEF Numbered, TypeOK, Link
  <2>2. e # m /\ age'[e] = age[e]
    BY <1>3, <1>5, <2>1
  <2>3. QED
    BY <1>3, <1>5, <2>1, <2>2
<1>8. \A u \in Creators : pc'[u] \in Appending => u # t /\ pc[u] \in Appending /\ mine[u] # m /\ mine[u] \in Entries
  BY <1>1, <1>2, <1>4 DEF Appending, Numbered, Ends
<1>9. \A u \in Creators : /\ pc'[u] = "join" => age'[cursor'[u]] # 0
                          /\ pc'[u] \in Appending => age'[mine'[u]] = 0 /\ peerOf'[mine'[u]] # Null
  <2>1. \A u \in Creators : pc'[u] = "join" => u # t /\ cursor[u] \in Entries /\ age[cursor[u]] # 0
    BY <1>4 DEF Numbered, Ends
  <2>2. QED
    BY <1>1, <1>3, <1>4, <1>5, <1>8, <2>1 DEF Numbered
<1>10. \A u, v \in Creators :
          pc'[u] \in Appending /\ pc'[v] \in Appending /\ u # v => mine'[u] # mine'[v]
  BY <1>4, <1>8 DEF Numbered
<1>11. age'[last'] # 0
  BY <1>1, <1>2, <1>3, <1>5
<1>12. QED
  BY <1>1, <1>6, <1>7, <1>9, <1>10, <1>11 DEF Numbered

LEMMA NumbersStep ==
    ASSUME TypeOK, Ends, Numbered, Step, locked' = 0, clash' \in BOOLEAN
    PROVE  Numbered'
<1>1. (\A p \in Peers : ~QueueAdd(p) /\ ~QueueRemove(p)) /\ ~QueuePop
  BY QueueAddTypes, QueueRemoveTypes, QueuePopTypes, Zenon
<1>2. ASSUME NEW t \in Threads, NEW p \in Peers, Begin(t, p) PROVE Numbered'
  <2>1. /\ pc' = [pc EXCEPT ![t] = "walk"] /\ cursor' = [cursor EXCEPT ![t] = first]
        /\ UNCHANGED <<last, next, peerOf, mine, appends, age>>
    BY <1>2 DEF Begin, queueVars, ghosts
  <2>2. pc'[t] = "walk" /\ \A u \in Threads \ {t} : pc'[u] = pc[u] /\ mine'[u] = mine[u] /\ cursor'[u] = cursor[u]
    BY <2>1 DEF TypeOK
  <2>3. QED
    BY <2>1, <2>2, SameNumbers DEF Appending
<1>3. ASSUME NEW t \in Threads, Walk(t) PROVE Numbered'
  <2>1. UNCHANGED <<last, next, peerOf, appends, age>>
    BY <1>3 DEF Walk, queueVars, ghosts
  <2>2. CASE Return(t)
    BY <2>1, <2>2, ReturnTypes, SameNumbers DEF Appending
  <2>3. CASE ~Return(t)
    <3>1. /\ UNCHANGED mine /\ pc'[t] \notin Appending
          /\ \A u \in Threads \ {t} : pc'[u] = pc[u] /\ cursor'[u] = cursor[u]
      BY <1>3, <2>3 DEF Walk, TypeOK, Appending
    <3>2. QED
      BY <2>1, <3>1, SameNumbers DEF Appending
  <2>4. QED
    BY <2>2, <2>3
<1>4. ASSUME NEW t \in Creators, Attach(t) \/ SetFirst(t) \/ Hook(t) \/ LinkPrior(t) PROVE Numbered'
  <2>1. t \in Threads
    BY DEF Threads
  <2>2. /\ UNCHANGED <<last, next, peerOf, appends, age, mine>>
        /\ pc[t] \in Appending
        /\ \A u \in Threads \ {t} : pc'[u] = pc[u] /\ cursor'[u] = cursor[u]
        /\ pc'[t] = "join" => cursor'[t] # Null /\ cursor'[t] = last
    <3>1. CASE Attach(t)
      BY <2>1, <3>1 DEF Attach, queueVars, ghosts, TypeOK, Appending
    <3>2. CASE SetFirst(t)
      BY <2>1, <3>2 DEF SetFirst, ghosts, TypeOK, Appending
    <3>3. CASE Hook(t)
      BY <2>1, <3>3 DEF Hook, queueVars, ghosts, TypeOK, Appending
    <3>4. CASE LinkPrior(t)
      BY <2>1, <3>4 DEF LinkPrior, ghosts, TypeOK, Appending
    <3>5. QED
      BY <1>4, <3>1, <3>2, <3>3, <3>4
  <2>3. QED
    BY <2>1, <2>2, SameNumbers
<1>5. QED
  BY <1>1, <1>2, <1>3, <1>4, CreateNumbers, JoinNumbers, SetLastNumbers, Zenon DEF Step

-----------------------------------------------------------------------------
(* The list, as long as no two appends cross.                               *)

LEMMA ListFacts ==
    ASSUME NEW s \in Seq(Entries), Listed(s)
    PROVE  /\ Len(s) \in Nat /\ (s = <<>> <=> Len(s) = 0)
           /\ \A i \in 1..Len(s) : s[i] \in Entries /\ s[i] # Null
           /\ \A i, j \in 1..Len(s) : s[i] = s[j] => i = j
<1>1. Len(s) \in Nat /\ (s = <<>> <=> Len(s) = 0)
  OBVIOUS
<1>2. \A i \in 1..Len(s) : s[i] \in Entries
  OBVIOUS
<1>3. \A i \in 1..Len(s) : s[i] # Null
  BY <1>2, QueueAssumption
<1>4. \A i, j \in 1..Len(s) : s[i] = s[j] => i = j
  BY Zenon DEF Listed
<1>5. QED
  BY <1>1, <1>2, <1>3, <1>4

\* While one creator is past its walk no other is.
LEMMA AloneFacts ==
    ASSUME TypeOK, ~Overlap, NEW c \in Creators, Past(c), NEW u \in Creators, u # c
    PROVE  pc[u] \in {"idle", "missed"} \/ (pc[u] = "walk" /\ cursor[u] # Null)
<1>1. ~Past(u)
  BY DEF Overlap
<1>2. u \in Threads
  BY DEF Threads
<1>3. QED
  BY <1>1, <1>2 DEF Past, TypeOK, Appending

\* A creator that is in its walk stays where it is when others leave the list as it is.
LEMMA StageStays ==
    ASSUME NEW u, NEW s, Stage(u, s), pc[u] \in {"idle", "missed", "walk"},
           pc'[u] = pc[u], cursor'[u] = cursor[u], peer'[u] = peer[u],
           \A i \in 1..Len(s) : peerOf'[s[i]] = peerOf[s[i]]
    PROVE  Stage(u, s)'
BY DEF Stage, Waiting

LEMMA AheadStays ==
    ASSUME NEW u, NEW s, Ahead(u, s), pc'[u] = pc[u], cursor'[u] = cursor[u], peer'[u] = peer[u],
           known'[u] = known[u], \A i \in 1..Len(s) : peerOf'[s[i]] = peerOf[s[i]]
    PROVE  Ahead(u, s)'
BY DEF Ahead

LEMMA BeginKept ==
    ASSUME TypeOK, NEW s, Kept(s), NEW t \in Threads, NEW p \in Peers, Begin(t, p)
    PROVE  Kept(s)'
<1>1. /\ pc[t] \in {"idle", "missed"} /\ pc' = [pc EXCEPT ![t] = "walk"]
      /\ peer' = [peer EXCEPT ![t] = p] /\ cursor' = [cursor EXCEPT ![t] = first]
      /\ t \in Readers => known' = [known EXCEPT ![t] = {peerOf[e] : e \in Attached}]
      /\ t \notin Readers => known' = [known EXCEPT ![t] = {}]
      /\ UNCHANGED <<first, last, next, prior, peerOf, freed, mine, crashed, locked>>
  BY DEF Begin, queueVars
<1>2. /\ s \in Seq(Entries) /\ ~crashed /\ Listed(s) /\ Placed(s) /\ Whole(s)
      /\ (\A c \in Creators : Stage(c, s)) /\ \A u \in Readers : Ahead(u, s)
  BY DEF Kept
<1>3. Creators \subseteq Threads /\ Readers \subseteq Threads
  BY DEF Threads
<1>4. /\ pc'[t] = "walk" /\ peer'[t] = p /\ cursor'[t] = first
      /\ t \in Readers => known'[t] = {peerOf[e] : e \in Attached}
      /\ \A u \in Threads \ {t} : /\ pc'[u] = pc[u] /\ peer'[u] = peer[u] /\ cursor'[u] = cursor[u]
                                  /\ known'[u] = known[u]
  BY <1>1 DEF TypeOK
<1>5. Len(s) \in Nat /\ (s = <<>> <=> Len(s) = 0)
  BY <1>2, ListFacts
<1>6. Listed(s)'
  BY <1>1, <1>2 DEF Listed
<1>7. \A c \in Creators : /\ pc'[c] \in Waiting <=> pc[c] \in Waiting
                          /\ pc'[c] \in {"link", "last"} <=> pc[c] \in {"link", "last"}
  BY <1>1, <1>3, <1>4 DEF Waiting
<1>8. Placed(s)'
  BY <1>1, <1>2, <1>7 DEF Placed
<1>9. \A n, m : Backed(s, n, m) => Backed(s, n, m)'
  BY <1>1 DEF Backed
<1>10. Whole(s)'
  BY <1>2, <1>7, <1>9 DEF Whole
<1>11. ASSUME NEW i \in 1..Len(s) PROVE 1 \in 1..i /\ first = s[1]
  BY <1>2, <1>5, <1>11 DEF Listed
<1>12. ASSUME NEW c \in Creators PROVE Stage(c, s)'
  <2>1. CASE t = c
    <3>1. first # Null => 1 \in 1..Len(s) /\ first = s[1]
      BY <1>2, <1>5 DEF Listed
    <3>2. QED
      BY <1>4, <1>11, <2>1, <3>1 DEF Stage, Waiting
  <2>2. CASE t # c
    <3>1. pc'[c] = pc[c] /\ peer'[c] = peer[c] /\ cursor'[c] = cursor[c] /\ mine'[c] = mine[c]
      BY <1>1, <1>3, <1>4, <2>2
    <3>2. QED
      BY <1>1, <1>2, <1>9, <3>1 DEF Stage
  <2>3. QED
    BY <2>1, <2>2
<1>13. ASSUME NEW u \in Readers PROVE Ahead(u, s)'
  <2>1. CASE u = t
    <3>1. ASSUME p \in known'[t]
          PROVE  \E i \in 1..Len(s) : peerOf[s[i]] = p /\ \E j \in 1..i : first = s[j]
      <4>1. PICK e \in Attached : peerOf[e] = p
        BY <1>4, <2>1, <3>1
      <4>2. e \in Entries /\ peerOf[e] # Null /\ \A c \in Creators : ~(pc[c] \in Waiting /\ e = mine[c])
        BY <4>1 DEF Attached, Appending, Waiting
      <4>3. PICK i \in 1..Len(s) : e = s[i]
        BY <1>2, <4>2 DEF Placed
      <4>4. QED
        BY <1>11, <4>1, <4>3
    <3>2. QED
      BY <1>1, <1>4, <2>1, <3>1 DEF Ahead
  <2>2. CASE u # t
    BY <1>1, <1>2, <1>3, <1>4, <2>2, AheadStays
  <2>3. QED
    BY <2>1, <2>2
<1>14. QED
  BY <1>1, <1>2, <1>6, <1>8, <1>10, <1>12, <1>13 DEF Kept

LEMMA WalkKept ==
    ASSUME TypeOK, NEW s, Kept(s), NEW t \in Threads, Walk(t)
    PROVE  Kept(s)'
<1>1. PICK e : e = cursor[t]
  OBVIOUS
<1>2. /\ pc[t] = "walk" /\ UNCHANGED <<first, last, next, prior, peerOf, freed, crashed, locked>>
      /\ \/ Return(t)
         \/ /\ e # Null /\ peerOf[e] # peer[t] /\ cursor' = [cursor EXCEPT ![t] = next[e]]
            /\ UNCHANGED <<pc, peer, mine, known>>
         \/ /\ e = Null /\ t \in Creators /\ pc' = [pc EXCEPT ![t] = "create"]
            /\ UNCHANGED <<cursor, peer, mine, known>>
         \/ /\ e = Null /\ t \notin Creators /\ pc' = [pc EXCEPT ![t] = "missed"]
            /\ UNCHANGED <<cursor, peer, mine, known>>
  BY <1>1 DEF Walk, queueVars
<1>3. /\ s \in Seq(Entries) /\ ~crashed /\ Listed(s) /\ Placed(s) /\ Whole(s)
      /\ (\A c \in Creators : Stage(c, s)) /\ \A u \in Readers : Ahead(u, s)
  BY DEF Kept
<1>4. Creators \subseteq Threads /\ Readers \subseteq Threads
  BY DEF Threads
<1>5. /\ \A u \in Threads \ {t} : /\ pc'[u] = pc[u] /\ cursor'[u] = cursor[u] /\ mine'[u] = mine[u]
                                  /\ peer'[u] = peer[u] /\ known'[u] = known[u]
      /\ \/ pc'[t] = "idle"
         \/ /\ pc'[t] = "walk" /\ e # Null /\ peerOf[e] # peer[t] /\ cursor'[t] = next[e]
            /\ peer'[t] = peer[t] /\ known'[t] = known[t]
         \/ pc'[t] = "create" /\ e = Null /\ t \in Creators /\ peer'[t] = peer[t]
         \/ pc'[t] = "missed" /\ e = Null /\ peer'[t] = peer[t] /\ known'[t] = known[t]
  <2>1. CASE Return(t)
    BY <2>1, ReturnTypes
  <2>2. CASE ~Return(t)
    BY <1>2, <2>2 DEF TypeOK
  <2>3. QED
    BY <2>1, <2>2
<1>6. Len(s) \in Nat /\ \A i \in 1..Len(s) : s[i] # Null
  BY <1>3, ListFacts
<1>7. Listed(s)'
  BY <1>2, <1>3 DEF Listed
<1>8. /\ pc'[t] \notin Waiting /\ pc'[t] \notin {"link", "last"} /\ pc[t] \notin {"link", "last"} /\ pc[t] \notin Waiting
      /\ \A c \in Creators : /\ pc'[c] \in Waiting => pc[c] \in Waiting
                             /\ pc[c] \in Waiting => pc'[c] \in Waiting /\ mine'[c] = mine[c]
                             /\ pc'[c] \in {"link", "last"} <=> pc[c] \in {"link", "last"}
  BY <1>2, <1>4, <1>5 DEF Waiting
<1>9. Placed(s)'
  BY <1>2, <1>3, <1>8 DEF Placed
<1>10. \A n, m : Backed(s, n, m) => Backed(s, n, m)'
  BY <1>2 DEF Backed
<1>11. Whole(s)'
  BY <1>3, <1>8, <1>10 DEF Whole
\* The walk goes on to the entry that follows.
<1>12. ASSUME NEW i \in 1..Len(s), peerOf[s[i]] = peer[t], \E j \in 1..i : e = s[j], peerOf[e] # peer[t]
       PROVE  \E j \in 1..i : next[e] = s[j]
  <2>1. PICK j \in 1..i : e = s[j]
    BY <1>12
  <2>2. j # i /\ j \in 1..Len(s) /\ j + 1 \in 1..i /\ j # Len(s)
    BY <1>6, <1>12, <2>1
  <2>3. next[e] = s[j + 1]
    BY <1>3, <2>1, <2>2 DEF Listed
  <2>4. QED
    BY <2>2, <2>3
<1>13. ASSUME NEW c \in Creators PROVE Stage(c, s)'
  <2>1. CASE t = c
    <3>1. /\ \A i \in 1..Len(s) : peerOf[s[i]] = peer[c] => \E j \in 1..i : e = s[j]
          /\ e # Null => \E j \in 1..Len(s) : e = s[j]
      BY <1>1, <1>2, <1>3, <2>1 DEF Stage
    <3>2. e = Null => \A i \in 1..Len(s) : peerOf[s[i]] # peer[c]
      BY <1>6, <3>1
    <3>3. pc'[c] = "walk" => \A i \in 1..Len(s) : peerOf[s[i]] = peer[c] => \E j \in 1..i : cursor'[c] = s[j]
      BY <1>5, <1>12, <2>1, <3>1
    <3>4. pc'[c] = "walk" /\ cursor'[c] # Null => \E j \in 1..Len(s) : cursor'[c] = s[j]
      <4>1. SUFFICES ASSUME pc'[c] = "walk", cursor'[c] # Null PROVE \E j \in 1..Len(s) : cursor'[c] = s[j]
        OBVIOUS
      <4>2. PICK j \in 1..Len(s) : e = s[j]
        BY <1>5, <2>1, <3>1, <4>1
      <4>3. cursor'[c] = next[s[j]]
        BY <1>5, <2>1, <4>1, <4>2
      <4>4. j # Len(s) /\ next[s[j]] = s[j + 1]
        BY <1>3, <4>1, <4>2, <4>3 DEF Listed
      <4>5. j + 1 \in 1..Len(s)
        BY <1>6, <4>4
      <4>6. QED
        BY <4>3, <4>4, <4>5
    <3>5. /\ pc'[c] \in {"idle", "missed", "walk", "create"} /\ (pc'[c] = "create" => e = Null)
          /\ pc'[c] \in {"walk", "create"} => peer'[c] = peer[c]
      BY <1>5, <2>1
    <3>6. QED
      BY <1>2, <3>2, <3>3, <3>4, <3>5 DEF Stage, Waiting
  <2>2. CASE t # c
    <3>1. pc'[c] = pc[c] /\ peer'[c] = peer[c] /\ cursor'[c] = cursor[c] /\ mine'[c] = mine[c]
      BY <1>4, <1>5, <2>2
    <3>2. QED
      BY <1>2, <1>3, <1>10, <3>1 DEF Stage
  <2>3. QED
    BY <2>1, <2>2
<1>14. ASSUME NEW u \in Readers PROVE Ahead(u, s)'
  <2>1. CASE u = t
    <3>1. peer[t] \in known[t] => \E i \in 1..Len(s) : peerOf[s[i]] = peer[t] /\ \E j \in 1..i : e = s[j]
      BY <1>1, <1>2, <1>3, <2>1 DEF Ahead
    <3>2. e = Null => peer[t] \notin known[t]
      BY <1>6, <3>1
    <3>3. pc'[t] = "walk" /\ peer[t] \in known[t] =>
              \E i \in 1..Len(s) : peerOf[s[i]] = peer[t] /\ \E j \in 1..i : cursor'[t] = s[j]
      BY <1>5, <1>12, <3>1
    <3>4. /\ pc'[t] = "missed" => e = Null
          /\ pc'[t] \in {"missed", "walk"} => peer'[t] = peer[t] /\ known'[t] = known[t]
      BY <1>5
    <3>5. QED
      BY <1>2, <2>1, <3>2, <3>3, <3>4 DEF Ahead
  <2>2. CASE u # t
    BY <1>2, <1>3, <1>4, <1>5, <2>2, AheadStays
  <2>3. QED
    BY <2>1, <2>2
<1>15. QED
  BY <1>2, <1>3, <1>7, <1>9, <1>11, <1>13, <1>14 DEF Kept

LEMMA CreateKept ==
    ASSUME TypeOK, Ends, ~Overlap, NEW s, Kept(s), NEW c \in Creators, Create(c)
    PROVE  Kept(s)'
<1>1. PICK e \in Entries : /\ peerOf[e] = Null /\ peerOf' = [peerOf EXCEPT ![e] = peer[c]]
                           /\ mine' = [mine EXCEPT ![c] = e]
  BY DEF Create, Allocate
<1>2. /\ pc[c] = "create" /\ pc' = [pc EXCEPT ![c] = "attach"]
      /\ UNCHANGED <<first, last, next, prior, freed, cursor, peer, known, crashed, locked>>
  BY DEF Create
<1>3. /\ s \in Seq(Entries) /\ ~crashed /\ Listed(s) /\ Placed(s) /\ Whole(s)
      /\ (\A u \in Creators : Stage(u, s)) /\ \A u \in Readers : Ahead(u, s)
  BY DEF Kept
<1>4. Creators \subseteq Threads /\ Readers \subseteq Threads /\ c \notin Readers
  BY QueueAssumption DEF Threads
<1>5. pc'[c] = "attach" /\ mine'[c] = e /\ \A u \in Threads \ {c} : pc'[u] = pc[u] /\ mine'[u] = mine[u]
  BY <1>1, <1>2, <1>4 DEF TypeOK
<1>6. peerOf'[e] = peer[c] /\ \A d \in Entries : d # e => peerOf'[d] = peerOf[d]
  BY <1>1 DEF TypeOK
<1>7. \A i \in 1..Len(s) : s[i] \in Entries /\ s[i] # e /\ peerOf'[s[i]] = peerOf[s[i]]
  <2>1. \A i \in 1..Len(s) : s[i] \in Entries /\ s[i] # e
    BY <1>1, <1>3, ListFacts DEF Listed
  <2>2. QED
    BY <1>6, <2>1
<1>8. \A u \in Creators \ {c} : pc[u] \in {"idle", "missed", "walk"}
  BY <1>2, AloneFacts DEF Past
<1>9. Listed(s)'
  BY <1>2, <1>3, <1>7 DEF Listed
<1>10. Placed(s)'
  <2>1. \A u \in Creators : pc[u] \notin Waiting
    BY <1>2, <1>8 DEF Waiting
  <2>2. pc'[c] \in Waiting
    BY <1>5 DEF Waiting
  <2>3. QED
    BY <1>2, <1>3, <1>5, <1>6, <2>1, <2>2 DEF Placed
<1>11. Backed(s, Len(s), Len(s))'
  <2>1. \A u \in Creators : pc[u] \notin {"link", "last"}
    BY <1>2, <1>8
  <2>2. QED
    BY <1>2, <1>3, <2>1 DEF Whole, Backed
<1>12. Whole(s)'
  BY <1>11 DEF Whole
<1>13. ASSUME NEW u \in Creators PROVE Stage(u, s)'
  <2>1. CASE u = c
    <3>1. \A i \in 1..Len(s) : peerOf[s[i]] # peer[c]
      BY <1>2, <1>3 DEF Stage
    <3>2. QED
      BY <1>2, <1>5, <1>6, <1>7, <2>1, <3>1 DEF Stage, Waiting
  <2>2. CASE u # c
    BY <1>2, <1>3, <1>4, <1>5, <1>7, <1>8, <2>2, StageStays
  <2>3. QED
    BY <2>1, <2>2
<1>14. ASSUME NEW u \in Readers PROVE Ahead(u, s)'
  BY <1>2, <1>3, <1>4, <1>5, <1>7, AheadStays
<1>15. QED
  BY <1>2, <1>3, <1>9, <1>10, <1>12, <1>13, <1>14 DEF Kept

\* find_peer tests the first entry, and then reads the last one.
LEMMA TestKept ==
    ASSUME TypeOK, Ends, ~Overlap, NEW s, Kept(s), NEW c \in Creators, Attach(c) \/ Hook(c)
    PROVE  Kept(s)'
<1>1. /\ s \in Seq(Entries) /\ ~crashed /\ Listed(s) /\ Placed(s) /\ Whole(s)
      /\ (\A u \in Creators : Stage(u, s)) /\ \A u \in Readers : Ahead(u, s)
  BY DEF Kept
<1>2. Creators \subseteq Threads /\ Readers \subseteq Threads /\ c \notin Readers
  BY QueueAssumption DEF Threads
<1>3. UNCHANGED <<first, last, next, prior, peerOf, freed, peer, mine, known, locked>>
  BY DEF Attach, Hook, queueVars
<1>4. pc[c] \in {"attach", "hook"}
  BY DEF Attach, Hook
<1>5. \A u \in Creators \ {c} : pc[u] \in {"idle", "missed", "walk"}
  BY <1>4, AloneFacts DEF Past, Appending
<1>6. \A u \in Creators : pc[u] \notin {"link", "last"}
  BY <1>4, <1>5
<1>7. Backed(s, Len(s), Len(s))
  BY <1>1, <1>6 DEF Whole
<1>8. /\ Len(s) \in Nat /\ (s = <<>> <=> Len(s) = 0) /\ \A i \in 1..Len(s) : s[i] # Null
  BY <1>1, ListFacts
<1>9. /\ first = Null <=> s = <<>>
      /\ last = Null <=> s = <<>>
  <2>1. s # <<>> => 1 \in 1..Len(s) /\ Len(s) \in 1..Len(s) /\ Len(s) # 0
    BY <1>8
  <2>2. QED
    BY <1>1, <1>7, <1>8, <2>1 DEF Listed, Backed
<1>10. pc[c] = "hook" => s # <<>>
  BY <1>1 DEF Stage
<1>11. /\ UNCHANGED crashed /\ pc'[c] \in {"first", "hook", "join"}
       /\ pc'[c] = "first" => s = <<>>
       /\ pc'[c] \in {"hook", "join"} => s # <<>>
       /\ pc'[c] = "join" => cursor'[c] = last
       /\ \A u \in Threads \ {c} : pc'[u] = pc[u] /\ cursor'[u] = cursor[u]
  <2>1. CASE Attach(c)
    BY <1>2, <1>9, <2>1 DEF Attach, TypeOK
  <2>2. CASE Hook(c)
    <3>1. s # <<>> /\ last # Null
      BY <1>9, <1>10, <2>2 DEF Hook
    <3>2. /\ cursor' = [cursor EXCEPT ![c] = last] /\ pc' = [pc EXCEPT ![c] = "join"] /\ UNCHANGED crashed
      BY <2>2, <3>1 DEF Hook
    <3>3. QED
      BY <1>2, <3>1, <3>2 DEF TypeOK
  <2>3. QED
    BY <2>1, <2>2
<1>12. Listed(s)'
  BY <1>1, <1>3 DEF Listed
<1>13. \A u \in Creators : pc[u] \in Waiting => pc'[u] \in Waiting /\ mine'[u] = mine[u]
  BY <1>2, <1>3, <1>11 DEF Waiting
<1>14. Placed(s)'
  BY <1>1, <1>3, <1>13 DEF Placed
<1>15. Whole(s)'
  <2>1. Backed(s, Len(s), Len(s))'
    BY <1>3, <1>7 DEF Backed
  <2>2. QED
    BY <2>1 DEF Whole
<1>16. ASSUME NEW u \in Creators PROVE Stage(u, s)'
  <2>1. CASE u = c
    <3>1. /\ peerOf[mine[c]] = peer[c] /\ \A i \in 1..Len(s) : mine[c] # s[i]
          /\ \A i \in 1..Len(s) : peerOf[s[i]] # peer[c]
      BY <1>1, <1>4 DEF Stage, Waiting
    <3>2. QED
      BY <1>3, <1>11, <2>1, <3>1 DEF Stage
  <2>2. CASE u # c
    BY <1>1, <1>2, <1>3, <1>5, <1>11, <2>2, StageStays
  <2>3. QED
    BY <2>1, <2>2
<1>17. ASSUME NEW u \in Readers PROVE Ahead(u, s)'
  BY <1>1, <1>2, <1>3, <1>11, AheadStays
<1>18. QED
  BY <1>1, <1>11, <1>12, <1>14, <1>15, <1>16, <1>17 DEF Kept

\* The list gets its next entry by the write of queue->first or of last->next.
LEMMA AppendKept ==
    ASSUME TypeOK, Ends, ~Overlap, NEW s, Kept(s), NEW c \in Creators, SetFirst(c) \/ Join(c)
    PROVE  \E z : Kept(z)'
<1>1. PICK m : m = mine[c]
  OBVIOUS
<1>2. /\ UNCHANGED <<last, prior, peerOf, freed, cursor, peer, mine, known, crashed, locked>>
      /\ \/ pc[c] = "first" /\ first' = m /\ pc' = [pc EXCEPT ![c] = "last"] /\ UNCHANGED next
         \/ /\ pc[c] = "join" /\ next' = [next EXCEPT ![cursor[c]] = m]
            /\ pc' = [pc EXCEPT ![c] = "link"] /\ UNCHANGED first
  BY <1>1 DEF SetFirst, Join
<1>3. /\ s \in Seq(Entries) /\ ~crashed /\ Listed(s) /\ Placed(s) /\ Whole(s)
      /\ (\A u \in Creators : Stage(u, s)) /\ \A u \in Readers : Ahead(u, s)
  BY DEF Kept
<1>4. Creators \subseteq Threads /\ Readers \subseteq Threads /\ c \notin Readers
  BY QueueAssumption DEF Threads
<1>5. PICK n \in Nat : n = Len(s)
  BY <1>3, ListFacts
<1>6. /\ s = <<>> <=> n = 0
      /\ \A i \in 1..n : s[i] \in Entries /\ s[i] # Null
      /\ \A i, j \in 1..n : s[i] = s[j] => i = j
  BY <1>3, <1>5, ListFacts
<1>7. /\ m \in Entries /\ peer[c] \in Peers /\ peer[c] # Null
  BY <1>1, <1>2, QueueAssumption DEF Ends, Appending
<1>8. /\ \A u \in Creators \ {c} : pc[u] \in {"idle", "missed"} \/ (pc[u] = "walk" /\ cursor[u] # Null)
      /\ \A u \in Creators : pc[u] \notin {"link", "last"} /\ (u # c => pc[u] \notin Waiting)
  <2>1. Past(c)
    BY <1>2 DEF Past, Appending
  <2>2. \A u \in Creators \ {c} : pc[u] \in {"idle", "missed"} \/ (pc[u] = "walk" /\ cursor[u] # Null)
    BY <2>1, AloneFacts
  <2>3. QED
    BY <1>2, <2>2 DEF Waiting
<1>9. /\ peerOf[m] = peer[c] /\ (\A i \in 1..n : m # s[i]) /\ (\A i \in 1..n : peerOf[s[i]] # peer[c])
      /\ Backed(s, n, n)
  BY <1>1, <1>2, <1>3, <1>5, <1>8 DEF Stage, Waiting, Whole
<1>10. next[m] = Null /\ prior[m] = Null
  BY <1>3, <1>5, <1>7, <1>9 DEF Placed
<1>11. PICK z \in Seq(Entries) : z = Append(s, m)
  BY <1>3, <1>7, AppendProperties
<1>12. Len(z) = n + 1 /\ (\A i \in 1..n : z[i] = s[i]) /\ z[n + 1] = m /\ z # <<>>
  BY <1>3, <1>5, <1>7, <1>11, AppendProperties
<1>13. /\ first = IF n = 0 THEN Null ELSE s[1]
       /\ \A i \in 1..n : peerOf[s[i]] # Null /\ next[s[i]] = IF i = n THEN Null ELSE s[i + 1]
       /\ \A i, j \in 1..n : peerOf[s[i]] = peerOf[s[j]] => i = j
  BY <1>3, <1>5, <1>6 DEF Listed
<1>14. /\ \A i \in 1..n : prior[s[i]] = IF i = 1 THEN Null ELSE s[i - 1]
       /\ last = IF n = 0 THEN Null ELSE s[n]
  BY <1>9 DEF Backed
<1>15. \A i \in 1..(n + 1) : i \in 1..n \/ i = n + 1
  OBVIOUS
<1>16. \A i, j \in 1..Len(z) : peerOf[z[i]] = peerOf[z[j]] => i = j
  <2>1. SUFFICES ASSUME NEW i \in 1..(n + 1), NEW j \in 1..(n + 1), peerOf[z[i]] = peerOf[z[j]] PROVE i = j
    BY <1>12
  <2>2. CASE i \in 1..n /\ j \in 1..n
    BY <1>12, <1>13, <2>1, <2>2
  <2>3. CASE i = n + 1 /\ j \in 1..n
    BY <1>9, <1>12, <2>1, <2>3
  <2>4. CASE i \in 1..n /\ j = n + 1
    BY <1>9, <1>12, <2>1, <2>4
  <2>5. QED
    BY <1>15, <2>2, <2>3, <2>4
<1>17. \A i \in 1..Len(z) : peerOf[z[i]] # Null
  BY <1>7, <1>9, <1>12, <1>13, <1>15
<1>18. \A e : (\E i \in 1..n : e = s[i]) \/ e = m => \E i \in 1..Len(z) : e = z[i]
  <2>1. n + 1 \in 1..Len(z) /\ \A i \in 1..n : i \in 1..Len(z)
    BY <1>12
  <2>2. QED
    BY <1>12, <2>1
<1>19. \A e \in Entries : peerOf[e] # Null => \E i \in 1..Len(z) : e = z[i]
  <2>1. SUFFICES ASSUME NEW e \in Entries, peerOf[e] # Null PROVE \E i \in 1..Len(z) : e = z[i]
    OBVIOUS
  <2>2. (\E i \in 1..n : e = s[i]) \/ \E u \in Creators : pc[u] \in Waiting /\ e = mine[u]
    BY <1>3, <1>5, <2>1 DEF Placed
  <2>3. (\E i \in 1..n : e = s[i]) \/ e = m
    BY <1>1, <1>8, <2>2, Zenon
  <2>4. QED
    BY <1>18, <2>3, Zenon
<1>20. \A u \in Threads \ {c} : pc'[u] = pc[u]
  BY <1>2, <1>4 DEF TypeOK
<1>21. ASSUME NEW u \in Readers PROVE Ahead(u, z)'
  <2>1. Ahead(u, s) /\ pc'[u] = pc[u]
    BY <1>3, <1>4, <1>20
  <2>2. ASSUME pc[u] = "walk", peer[u] \in known[u]
        PROVE  \E i \in 1..Len(z) : peerOf[z[i]] = peer[u] /\ \E j \in 1..i : cursor[u] = z[j]
    <3>1. PICK i \in 1..n : peerOf[s[i]] = peer[u] /\ \E j \in 1..i : cursor[u] = s[j]
      BY <1>5, <2>1, <2>2 DEF Ahead
    <3>2. PICK j \in 1..i : cursor[u] = s[j]
      BY <3>1
    <3>3. i \in 1..Len(z) /\ z[i] = s[i] /\ z[j] = s[j]
      BY <1>12
    <3>4. QED
      BY <3>1, <3>2, <3>3
  <2>3. QED
    BY <1>2, <2>1, <2>2 DEF Ahead
\* A creator still in its walk has the new entry before it.
<1>22. ASSUME NEW u \in Creators, u # c PROVE Stage(u, z)'
  <2>1. pc'[u] = pc[u] /\ cursor'[u] = cursor[u] /\ peer'[u] = peer[u]
    BY <1>2, <1>4, <1>20, <1>22
  <2>2. CASE pc[u] \in {"idle", "missed"}
    BY <2>1, <2>2 DEF Stage, Waiting
  <2>3. CASE pc[u] = "walk" /\ cursor[u] # Null
    <3>1. /\ \E j \in 1..n : cursor[u] = s[j]
          /\ \A i \in 1..n : peerOf[s[i]] = peer[u] => \E j \in 1..i : cursor[u] = s[j]
      BY <1>3, <1>5, <2>3 DEF Stage
    <3>2. PICK k \in 1..n : cursor[u] = s[k]
      BY <3>1
    <3>3. k \in 1..(n + 1) /\ cursor[u] = z[k]
      BY <1>12, <3>2
    <3>4. ASSUME NEW i \in 1..(n + 1), peerOf[z[i]] = peer[u] PROVE \E j \in 1..i : cursor[u] = z[j]
      <4>1. CASE i = n + 1
        BY <3>3, <4>1
      <4>2. CASE i \in 1..n
        <5>1. PICK j \in 1..i : cursor[u] = s[j]
          BY <1>12, <3>1, <3>4, <4>2
        <5>2. j \in 1..n
          BY <4>2
        <5>3. QED
          BY <1>12, <5>1, <5>2
      <4>3. QED
        BY <1>15, <4>1, <4>2
    <3>5. QED
      BY <1>2, <1>12, <2>1, <2>3, <3>3, <3>4 DEF Stage, Waiting
  <2>4. QED
    BY <1>8, <1>22, <2>2, <2>3
<1>23. CASE pc[c] = "first" /\ first' = m /\ pc' = [pc EXCEPT ![c] = "last"] /\ UNCHANGED next
  <2>1. n = 0
    BY <1>3, <1>6, <1>23 DEF Stage
  <2>2. pc'[c] = "last"
    BY <1>4, <1>23 DEF TypeOK
  <2>3. Listed(z)'
    <3>1. \A i \in 1..Len(z) : next[z[i]] = Null /\ i = Len(z)
      BY <1>10, <1>12, <2>1
    <3>2. first' = z[1]
      BY <1>12, <1>23, <2>1
    <3>3. QED
      BY <1>2, <1>12, <1>16, <1>17, <1>23, <3>1, <3>2 DEF Listed
  <2>4. Placed(z)'
    <3>1. \A e \in Entries : (\A i \in 1..Len(z) : e # z[i]) => next[e] = Null /\ prior[e] = Null
      BY <1>3, <1>5, <1>18 DEF Placed
    <3>2. QED
      BY <1>2, <1>19, <1>23, <3>1 DEF Placed
  <2>5. Backed(z, Len(z), Len(z) - 1)'
    BY <1>2, <1>10, <1>12, <1>14, <2>1 DEF Backed
  <2>6. Stage(c, z)'
    BY <1>1, <1>2, <1>12, <2>1, <2>2, <2>5 DEF Stage, Waiting
  <2>7. Whole(z)'
    BY <2>2 DEF Whole
  <2>8. Kept(z)'
    BY <1>2, <1>3, <1>21, <1>22, <2>3, <2>4, <2>6, <2>7 DEF Kept
  <2>9. QED
    BY <2>8
<1>24. CASE /\ pc[c] = "join" /\ next' = [next EXCEPT ![cursor[c]] = m]
            /\ pc' = [pc EXCEPT ![c] = "link"] /\ UNCHANGED first
  <2>1. n # 0 /\ n \in 1..n /\ last = s[n] /\ cursor[c] = s[n]
    BY <1>3, <1>6, <1>14, <1>24 DEF Stage
  <2>2. pc'[c] = "link"
    BY <1>4, <1>24 DEF TypeOK
  <2>3. next'[s[n]] = m /\ \A e \in Entries : e # s[n] => next'[e] = next[e]
    BY <1>6, <1>24, <2>1 DEF TypeOK
  <2>4. Listed(z)'
    <3>1. ASSUME NEW i \in 1..(n + 1) PROVE next'[z[i]] = IF i = n + 1 THEN Null ELSE z[i + 1]
      <4>1. CASE i = n + 1
        <5>1. z[i] = m /\ m # s[n]
          BY <1>9, <1>12, <2>1, <4>1
        <5>2. QED
          BY <1>7, <1>10, <2>3, <4>1, <5>1
      <4>2. CASE i = n
        BY <1>12, <2>1, <2>3, <4>2
      <4>3. CASE i # n + 1 /\ i # n
        <5>1. i \in 1..n /\ i + 1 \in 1..n /\ i # n
          BY <4>3
        <5>2. z[i] = s[i] /\ z[i + 1] = s[i + 1] /\ s[i] # s[n] /\ s[i] \in Entries /\ next[s[i]] = s[i + 1]
          BY <1>6, <1>12, <1>13, <2>1, <5>1
        <5>3. QED
          BY <2>3, <4>3, <5>2
      <4>4. QED
        BY <4>1, <4>2, <4>3
    <3>2. first' = z[1]
      BY <1>12, <1>13, <1>24, <2>1
    <3>3. QED
      BY <1>2, <1>12, <1>16, <1>17, <3>1, <3>2 DEF Listed
  <2>5. Placed(z)'
    <3>1. \A e \in Entries : (\A i \in 1..Len(z) : e # z[i]) => next'[e] = Null /\ prior[e] = Null
      <4>1. SUFFICES ASSUME NEW e \in Entries, \A i \in 1..Len(z) : e # z[i]
                     PROVE next'[e] = Null /\ prior[e] = Null
        OBVIOUS
      <4>2. \A i \in 1..n : e # s[i]
        BY <1>18, <4>1
      <4>3. next[e] = Null /\ prior[e] = Null
        BY <1>3, <1>5, <4>2 DEF Placed
      <4>4. QED
        BY <2>1, <2>3, <4>2, <4>3
    <3>2. QED
      BY <1>2, <1>19, <3>1 DEF Placed
  <2>6. Backed(z, Len(z) - 1, Len(z) - 1)'
    <3>1. \A i \in 1..n : prior[z[i]] = IF i = 1 THEN Null ELSE z[i - 1]
      BY <1>12, <1>14
    <3>2. last = z[n]
      BY <1>12, <2>1
    <3>3. QED
      BY <1>2, <1>12, <2>1, <3>1, <3>2 DEF Backed
  <2>7. Stage(c, z)'
    BY <1>1, <1>2, <1>12, <2>1, <2>2, <2>6 DEF Stage, Waiting
  <2>8. Whole(z)'
    BY <2>2 DEF Whole
  <2>9. Kept(z)'
    BY <1>2, <1>3, <1>21, <1>22, <2>4, <2>5, <2>7, <2>8 DEF Kept
  <2>10. QED
    BY <2>9
<1>25. QED
  BY <1>2, <1>23, <1>24

LEMMA LinkPriorKept ==
    ASSUME TypeOK, ~Overlap, NEW s, Kept(s), NEW c \in Creators, LinkPrior(c)
    PROVE  Kept(s)'
<1>1. /\ pc[c] = "link" /\ prior' = [prior EXCEPT ![mine[c]] = last] /\ pc' = [pc EXCEPT ![c] = "last"]
      /\ UNCHANGED <<first, last, next, peerOf, freed, cursor, peer, mine, known, crashed, locked>>
  BY DEF LinkPrior
<1>2. /\ s \in Seq(Entries) /\ ~crashed /\ Listed(s) /\ Placed(s) /\ Whole(s)
      /\ (\A u \in Creators : Stage(u, s)) /\ \A u \in Readers : Ahead(u, s)
  BY DEF Kept
<1>3. Creators \subseteq Threads /\ Readers \subseteq Threads /\ c \notin Readers
  BY QueueAssumption DEF Threads
<1>4. pc'[c] = "last" /\ \A u \in Threads \ {c} : pc'[u] = pc[u]
  BY <1>1, <1>3 DEF TypeOK
<1>5. \A u \in Creators \ {c} : pc[u] \in {"idle", "missed", "walk"}
  BY <1>1, AloneFacts DEF Past, Appending
<1>6. PICK n \in Nat : n = Len(s)
  BY <1>2, ListFacts
<1>7. (\A i \in 1..n : s[i] \in Entries) /\ \A i, j \in 1..n : s[i] = s[j] => i = j
  BY <1>2, <1>6, ListFacts
<1>8. n >= 2 /\ mine[c] = s[n] /\ Backed(s, n - 1, n - 1)
  BY <1>1, <1>2, <1>6 DEF Stage
<1>9. prior'[s[n]] = last /\ \A e \in Entries : e # s[n] => prior'[e] = prior[e]
  BY <1>1, <1>7, <1>8 DEF TypeOK
<1>10. Backed(s, n, n - 1)'
  <2>1. last = s[n - 1] /\ \A i \in 1..(n - 1) : prior[s[i]] = IF i = 1 THEN Null ELSE s[i - 1]
    BY <1>8 DEF Backed
  <2>2. ASSUME NEW i \in 1..n PROVE prior'[s[i]] = IF i = 1 THEN Null ELSE s[i - 1]
    <3>1. CASE i = n
      BY <1>8, <1>9, <2>1, <3>1
    <3>2. CASE i # n
      <4>1. i \in 1..(n - 1) /\ s[i] # s[n] /\ s[i] \in Entries
        BY <1>7, <1>8, <3>2
      <4>2. QED
        BY <1>9, <2>1, <4>1
    <3>3. QED
      BY <3>1, <3>2
  <2>3. QED
    BY <1>1, <1>8, <2>1, <2>2 DEF Backed
<1>11. ASSUME NEW u \in Creators PROVE Stage(u, s)'
  <2>1. CASE u = c
    BY <1>1, <1>4, <1>6, <1>8, <1>10, <2>1 DEF Stage, Waiting
  <2>2. CASE u # c
    BY <1>1, <1>2, <1>3, <1>4, <1>5, <2>2, StageStays
  <2>3. QED
    BY <2>1, <2>2
<1>12. Placed(s)'
  <2>1. \A u \in Creators : pc[u] \notin Waiting
    BY <1>1, <1>5 DEF Waiting
  <2>2. n \in 1..n
    BY <1>8
  <2>3. QED
    BY <1>1, <1>2, <1>6, <1>8, <1>9, <2>1, <2>2 DEF Placed
<1>13. Whole(s)'
  BY <1>4 DEF Whole
<1>14. Listed(s)'
  BY <1>1, <1>2 DEF Listed
<1>15. ASSUME NEW u \in Readers PROVE Ahead(u, s)'
  BY <1>1, <1>2, <1>3, <1>4, AheadStays
<1>16. QED
  BY <1>1, <1>2, <1>11, <1>12, <1>13, <1>14, <1>15 DEF Kept

LEMMA SetLastKept ==
    ASSUME TypeOK, ~Overlap, NEW s, Kept(s), NEW c \in Creators, SetLast(c)
    PROVE  Kept(s)'
<1>1. /\ pc[c] = "last" /\ last' = mine[c] /\ Return(c)
      /\ UNCHANGED <<first, next, prior, peerOf, freed, crashed, locked>>
  BY DEF SetLast
<1>2. /\ s \in Seq(Entries) /\ ~crashed /\ Listed(s) /\ Placed(s) /\ Whole(s)
      /\ (\A u \in Creators : Stage(u, s)) /\ \A u \in Readers : Ahead(u, s)
  BY DEF Kept
<1>3. Creators \subseteq Threads /\ Readers \subseteq Threads /\ c \notin Readers
  BY QueueAssumption DEF Threads
<1>4. /\ pc'[c] = "idle"
      /\ \A u \in Threads \ {c} : /\ pc'[u] = pc[u] /\ cursor'[u] = cursor[u] /\ peer'[u] = peer[u]
                                  /\ mine'[u] = mine[u] /\ known'[u] = known[u]
  BY <1>1, <1>3, ReturnTypes
<1>5. \A u \in Creators \ {c} : pc[u] \in {"idle", "missed", "walk"}
  BY <1>1, AloneFacts DEF Past, Appending
<1>6. Len(s) \in Nat
  BY <1>2, ListFacts
<1>7. Len(s) >= 1 /\ mine[c] = s[Len(s)] /\ Backed(s, Len(s), Len(s) - 1)
  BY <1>1, <1>2 DEF Stage
<1>8. Backed(s, Len(s), Len(s))'
  BY <1>1, <1>6, <1>7 DEF Backed
<1>9. ASSUME NEW u \in Creators PROVE Stage(u, s)'
  <2>1. CASE u = c
    BY <1>4, <2>1 DEF Stage, Waiting
  <2>2. CASE u # c
    BY <1>1, <1>2, <1>3, <1>4, <1>5, <2>2, StageStays
  <2>3. QED
    BY <2>1, <2>2
<1>10. Placed(s)'
  <2>1. \A u \in Creators : pc[u] \notin Waiting
    BY <1>1, <1>5 DEF Waiting
  <2>2. QED
    BY <1>1, <1>2, <2>1 DEF Placed
<1>11. Whole(s)'
  BY <1>8 DEF Whole
<1>12. Listed(s)'
  BY <1>1, <1>2 DEF Listed
<1>13. ASSUME NEW u \in Readers PROVE Ahead(u, s)'
  BY <1>1, <1>2, <1>3, <1>4, AheadStays
<1>14. QED
  BY <1>1, <1>2, <1>9, <1>10, <1>11, <1>12, <1>13 DEF Kept

-----------------------------------------------------------------------------
(* The theorems.                                                            *)

LEMMA InitInv ==
    ASSUME Init
    PROVE  IInv
<1>1. TypeOK /\ Ends
  BY TypesInit
<1>2. PICK s : s = <<>>
  OBVIOUS
<1>3. s \in Seq(Entries) /\ Len(s) = 0 /\ 1..Len(s) = {}
  BY <1>2
<1>4. Creators \subseteq Threads /\ Readers \subseteq Threads
  BY DEF Threads
<1>5. /\ first = Null /\ last = Null /\ next = [e \in Entries |-> Null] /\ prior = [e \in Entries |-> Null]
      /\ peerOf = [e \in Entries |-> Null] /\ pc = [t \in Threads |-> "idle"] /\ crashed = FALSE
      /\ appends = 0 /\ age = [e \in Entries |-> 0]
  BY DEF Init
<1>6. (\A c \in Creators : pc[c] = "idle") /\ \A t \in Readers : pc[t] = "idle"
  BY <1>4, <1>5
<1>7. Listed(s) /\ Placed(s)
  BY <1>2, <1>3, <1>5 DEF Listed, Placed
<1>8. \A c \in Creators : Stage(c, s)
  BY <1>6 DEF Stage, Waiting
<1>9. Whole(s)
  BY <1>3, <1>5 DEF Whole, Backed
<1>10. \A t \in Readers : Ahead(t, s)
  BY <1>6 DEF Ahead
<1>11. Kept(s)
  BY <1>3, <1>5, <1>7, <1>8, <1>9, <1>10 DEF Kept
<1>12. Numbered
  BY <1>5, <1>6 DEF Numbered, Appending
<1>13. ~Overlap
  BY <1>6 DEF Overlap, Past, Appending
<1>14. QED
  BY <1>1, <1>11, <1>12, <1>13 DEF IInv

LEMMA KeptStep ==
    ASSUME TypeOK, Ends, ~Overlap, NEW s, Kept(s), Step, clash' \in BOOLEAN, locked' = 0
    PROVE  \E z : Kept(z)'
<1>1. ASSUME NEW t \in Threads, NEW p \in Peers, Begin(t, p) PROVE \E z : Kept(z)'
  BY <1>1, BeginKept, Zenon
<1>2. ASSUME NEW t \in Threads, Walk(t) PROVE \E z : Kept(z)'
  BY <1>2, WalkKept, Zenon
<1>3. ASSUME NEW c \in Creators, Create(c) \/ LinkPrior(c) \/ SetLast(c) PROVE \E z : Kept(z)'
  BY <1>3, CreateKept, LinkPriorKept, SetLastKept, Zenon
<1>4. ASSUME NEW c \in Creators, Attach(c) \/ Hook(c) PROVE \E z : Kept(z)'
  BY <1>4, TestKept, Zenon
<1>5. ASSUME NEW c \in Creators, SetFirst(c) \/ Join(c) PROVE \E z : Kept(z)'
  BY <1>5, AppendKept, Zenon
<1>6. (\A p \in Peers : ~QueueAdd(p) /\ ~QueueRemove(p)) /\ ~QueuePop
  BY QueueAddTypes, QueueRemoveTypes, QueuePopTypes, Zenon
<1>7. QED
  BY <1>1, <1>2, <1>3, <1>4, <1>5, <1>6, Zenon DEF Step

LEMMA StepInv ==
    ASSUME IInv, [Next]_vars
    PROVE  IInv'
<1>1. /\ TypeOK /\ Ends /\ (locked = 0 => Numbered) /\ (~clash => ~Overlap)
      /\ locked = 0 /\ ~clash => \E s : Kept(s)
  BY Zenon DEF IInv, Undisturbed
<1>2. TypeOK' /\ Ends'
  BY <1>1, TypesStep
<1>3. CASE UNCHANGED vars
  <2>1. UNCHANGED <<first, last, next, prior, peerOf, freed, pc, cursor, peer, mine, known, crashed, locked,
                    clash, appends, age>>
    BY <1>3 DEF vars
  <2>2. locked' = 0 => Numbered'
    BY <1>1, <2>1 DEF Numbered
  <2>3. ~clash' => ~Overlap'
    BY <1>1, <2>1 DEF Overlap, Past
  <2>4. ASSUME locked = 0, ~clash PROVE \E z : Kept(z)'
    <3>1. PICK s : Kept(s)
      BY <1>1, <2>4
    <3>2. /\ s \in Seq(Entries) /\ ~crashed /\ Listed(s) /\ Placed(s) /\ Whole(s)
          /\ (\A u \in Creators : Stage(u, s)) /\ \A u \in Readers : Ahead(u, s)
      BY <3>1 DEF Kept
    <3>3. Listed(s)' /\ Placed(s)'
      BY <2>1, <3>2 DEF Listed, Placed
    <3>4. Whole(s)' /\ \A u \in Creators : Stage(u, s)'
      BY <2>1, <3>2 DEF Whole, Stage, Backed
    <3>5. \A u \in Readers : Ahead(u, s)'
      BY <2>1, <3>2 DEF Ahead
    <3>6. QED
      BY <2>1, <3>2, <3>3, <3>4, <3>5 DEF Kept
  <2>5. QED
    BY <1>2, <2>1, <2>2, <2>3, <2>4 DEF IInv, Undisturbed
<1>4. CASE Next
  <2>1. Step /\ clash' = (clash \/ Overlap')
    BY <1>4 DEF Next
  <2>2. clash' \in BOOLEAN
    BY <1>2 DEF TypeOK
  <2>3. ASSUME locked' = 0 PROVE locked = 0
    <3>1. (\A p \in Peers : ~QueueAdd(p) /\ ~QueueRemove(p)) /\ ~QueuePop
      BY <1>1, <2>2, <2>3, QueueAddTypes, QueueRemoveTypes, QueuePopTypes, Zenon
    <3>2. locked' = locked
      BY <2>1, <3>1 DEF Step, Begin, Walk, Create, Attach, SetFirst, Hook, Join, LinkPrior, SetLast
    <3>3. QED
      BY <2>3, <3>2
  <2>4. locked' = 0 => Numbered'
    BY <1>1, <2>1, <2>2, <2>3, NumbersStep
  <2>5. ~clash' => ~Overlap' /\ ~clash
    BY <2>1, Zenon
  <2>6. ASSUME locked' = 0, ~clash' PROVE \E z : Kept(z)'
    <3>1. ~clash /\ ~Overlap
      BY <1>1, <2>5, <2>6, Zenon
    <3>2. PICK s : Kept(s)
      BY <1>1, <2>3, <2>6, <3>1
    <3>3. QED
      BY <1>1, <2>1, <2>2, <2>6, <3>1, <3>2, KeptStep, Zenon
  <2>7. QED
    BY <1>2, <2>4, <2>5, <2>6 DEF IInv, Undisturbed
<1>5. QED
  BY <1>3, <1>4

\* The types, whatever threads call find_peer, and whatever mix of the locked
\* operations runs: no step of peer_request_queue.c stores a pointer that is
\* neither NULL nor an entry.
THEOREM TypeCorrect == Spec => []TypeOK
<1>1. Init => TypeOK /\ Ends
  BY TypesInit
<1>2. (TypeOK /\ Ends) /\ [Next]_vars => (TypeOK /\ Ends)'
  BY TypesStep
<1>3. QED
  BY <1>1, <1>2, PTL DEF Spec

\* The queue is empty at both ends or at none whenever no thread is inside
\* find_peer or find_entry, with any number of threads and any mix of operations.
THEOREM EmptyTogether == Spec => []EmptyAtBothEnds
<1>1. Init => TypeOK /\ Ends
  BY TypesInit
<1>2. (TypeOK /\ Ends) /\ [Next]_vars => (TypeOK /\ Ends)'
  BY TypesStep
<1>3. TypeOK /\ Ends => EmptyAtBothEnds
  BY DEF Ends, EmptyAtBothEnds, AtRest, Threads
<1>4. QED
  BY <1>1, <1>2, <1>3, PTL DEF Spec

\* However many threads are in find_peer: until two of them are past their walks
\* at once the entries form a list that a walk from first meets whole, between any
\* two of find_peer's unlocked assignments; and after that it still has no loop.
THEOREM Invariance == Spec => []IInv
<1>1. Init => IInv
  BY InitInv
<1>2. IInv /\ [Next]_vars => IInv'
  BY StepInv
<1>3. QED
  BY <1>1, <1>2, PTL DEF Spec

\* The peer thread's walk in find_entry misses a peer that had an entry when the
\* walk began only if two appends of find_peer have crossed, however many threads
\* append meanwhile.
THEOREM NobodyMissed == Spec => []WalkMissesNobody
<1>1. IInv => WalkMissesNobody
  BY DEF IInv, Kept, Ahead, WalkMissesNobody
<1>2. QED
  BY <1>1, Invariance, PTL

\* With any number of threads in find_peer the list has one entry for a peer, is
\* linked both ways, ends at its last entry and no null pointer is followed until
\* two appends cross; it has no loop whatever they do; and its two ends agree even
\* after the locked operations.
THEOREM ListStaysSound == Spec => []ListSound
<1>1. ASSUME IInv PROVE TypeOK /\ OneEntryPerPeer /\ Chained /\ NullNotFollowed /\ NoLoop
  <2>1. TypeOK /\ Ends /\ (locked = 0 => Numbered) /\ (Undisturbed => \E s : Kept(s))
    BY <1>1, Zenon DEF IInv
  <2>2. NoLoop
    BY <2>1 DEF NoLoop, Numbered
  <2>3. ASSUME Undisturbed PROVE OneEntryPerPeer /\ Chained /\ NullNotFollowed
    <3>1. PICK s : Kept(s)
      BY <2>1, <2>3
    <3>2. s \in Seq(Entries) /\ Listed(s) /\ Placed(s) /\ Whole(s) /\ ~crashed
      BY <3>1 DEF Kept
    <3>3. PICK n \in Nat : n = Len(s)
      BY <3>2, ListFacts
    <3>4. /\ s = <<>> <=> n = 0
          /\ \A i \in 1..n : s[i] \in Entries /\ s[i] # Null
          /\ \A i, j \in 1..n : s[i] = s[j] => i = j
      BY <3>2, <3>3, ListFacts
    <3>5. /\ first = IF n = 0 THEN Null ELSE s[1]
          /\ \A i \in 1..n : next[s[i]] = IF i = n THEN Null ELSE s[i + 1]
          /\ \A i, j \in 1..n : peerOf[s[i]] = peerOf[s[j]] => i = j
      BY <3>2, <3>3, <3>4 DEF Listed
    <3>6. ASSUME NEW e \in Attached PROVE \E i \in 1..n : e = s[i]
      <4>1. e \in Entries /\ peerOf[e] # Null /\ \A c \in Creators : ~(pc[c] \in Waiting /\ e = mine[c])
        BY DEF Attached, Appending, Waiting
      <4>2. QED
        BY <3>2, <3>3, <4>1 DEF Placed
    <3>7. OneEntryPerPeer
      BY <3>5, <3>6 DEF OneEntryPerPeer
    <3>8. ASSUME AtRest, NEW e \in Attached
          PROVE  /\ e = last <=> next[e] = Null
                 /\ e = first <=> prior[e] = Null
                 /\ next[e] # Null => prior[next[e]] = e
      <4>1. \A c \in Creators : pc[c] \notin {"link", "last"}
        BY <3>8 DEF AtRest, Threads
      <4>2. /\ \A i \in 1..n : prior[s[i]] = IF i = 1 THEN Null ELSE s[i - 1]
            /\ last = IF n = 0 THEN Null ELSE s[n]
        BY <3>2, <3>3, <4>1 DEF Whole, Backed
      <4>3. PICK i \in 1..n : e = s[i]
        BY <3>6, <3>8
      <4>4. n # 0 /\ n \in 1..n /\ 1 \in 1..n /\ last = s[n] /\ first = s[1]
        BY <3>5, <4>2
      <4>5. e = last <=> i = n
        BY <3>4, <4>3, <4>4
      <4>6. e = first <=> i = 1
        BY <3>4, <4>3, <4>4
      <4>7. next[e] = Null <=> i = n
        <5>1. i # n => i + 1 \in 1..n
          OBVIOUS
        <5>2. QED
          BY <3>4, <3>5, <4>3, <5>1
      <4>8. prior[e] = Null <=> i = 1
        <5>1. i # 1 => i - 1 \in 1..n
          OBVIOUS
        <5>2. QED
          BY <3>4, <4>2, <4>3, <5>1
      <4>9. next[e] # Null => prior[next[e]] = e
        <5>1. SUFFICES ASSUME i # n PROVE prior[next[e]] = e
          BY <4>7
        <5>2. i + 1 \in 1..n /\ next[e] = s[i + 1] /\ i + 1 # 1 /\ (i + 1) - 1 = i
          BY <3>5, <4>3, <5>1
        <5>3. prior[s[i + 1]] = s[(i + 1) - 1]
          BY <4>2, <5>2
        <5>4. QED
          BY <4>3, <5>2, <5>3
      <4>10. QED
        BY <4>5, <4>6, <4>7, <4>8, <4>9
    <3>9. QED
      BY <3>2, <3>7, <3>8 DEF Chained, NullNotFollowed
  <2>4. QED
    BY <2>1, <2>2, <2>3 DEF OneEntryPerPeer, Chained, NullNotFollowed
<1>2. IInv => TypeOK /\ OneEntryPerPeer /\ Chained /\ NullNotFollowed /\ NoLoop
  BY <1>1
<1>3. TypeOK /\ OneEntryPerPeer /\ Chained /\ NullNotFollowed /\ NoLoop /\ EmptyAtBothEnds => ListSound
  BY DEF ListSound
<1>4. QED
  BY <1>2, <1>3, Invariance, EmptyTogether, PTL
=============================================================================

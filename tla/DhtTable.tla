------------------------------ MODULE DhtTable ------------------------------
(***************************************************************************)
(* The routing table of the DHT in libp2p/routing/dht.c: the list of       *)
(* buckets that split around our own id, with nodes that are pinged,       *)
(* replaced, cached as candidates and expired.  One thread owns it, so a   *)
(* call of dht_periodic is one action; the network may deliver any packet  *)
(* of any peer at any call, hence also late, twice, unasked for or never.  *)
(* The searches, tokens and storage that the same calls work on are in     *)
(* DhtSearch; they touch the table only by SearchAsks.                     *)
(*                                                                         *)
(* Of a time the model keeps what the code asks of it: whether pinged_time *)
(* is within 15 seconds, a node's time within 15 minutes, its reply_time   *)
(* within two hours, a bucket's time within 10 minutes (never for 0).  A   *)
(* peer has one id and one address, in one of the two address families,    *)
(* which the code treats alike.                                            *)
(***************************************************************************)
EXTENDS Integers, Sequences, SequencesExt, FiniteSets, FiniteSetsExt

CONSTANTS
    Bits,           \* of an id: 160
    Me,             \* myid
    Peers,          \* ids of the other nodes
    BucketSize,     \* nodes of a bucket: 8
    MaxBlacklisted, \* DHT_MAX_BLACKLISTED: 10
    MaxPackets,     \* bound: packets and inserted nodes of a behaviour
    None

Ids == 0 .. 2 ^ Bits - 1

ASSUME DhtTableAssumption ==
    /\ {Bits, BucketSize, MaxBlacklisted} \subseteq Nat \ {0}
    /\ Me \in Ids /\ Peers \subseteq Ids \ {Me} /\ None \notin Ids

VARIABLES
    table,      \* the list of buckets
    blacklist,  \* addresses, oldest first
    packets
vars == <<table, blacklist, packets>>

(* The sequence of Op(e) for the elements e of seq, which the concatenation *)
(* makes TLC compute once.                                                  *)
Each(Op(_), seq) == <<>> \o [j \in 1 .. Len(seq) |-> Op(seq[j])]

(* lowbit, where bit 0 is the most significant one. *)
Bit(id, k) == (id \div 2 ^ (Bits - 1 - k)) % 2
LowBit(id) == Max({-1} \cup {k \in 0 .. Bits - 1 : Bit(id, k) = 1})

---------------------------------------------------------------------------
(* The table of buckets. *)

InBucket(t, i, id) == t[i].first <= id /\ (i < Len(t) => id < t[i + 1].first)
FindBucket(t, id) == CHOOSE i \in 1 .. Len(t) : InBucket(t, i, id)
IdsOf(b) == {b.nodes[j].id : j \in 1 .. Len(b.nodes)}
Known(t) == UNION {IdsOf(t[i]) : i \in 1 .. Len(t)}
NodeGood(n) == n.pinged <= 2 /\ n.replied /\ n.recent
Pinged(n) == [n EXCEPT !.pinged = Min({4, @ + 1}), !.justPinged = TRUE]

(* pinged on the nodes of S: the third unanswered request to a node uses up *)
(* the cached candidate of its bucket, which is pinged.                     *)
PingAll(t, S) ==
    LET Node(n)   == IF n.id \in S THEN Pinged(n) ELSE n
        Bucket(b) == LET ns == Each(Node, b.nodes) IN
                     [b EXCEPT !.nodes = ns,
                        !.cached = IF \E n \in Range(ns) : n.id \in S /\ n.pinged >= 3
                                   THEN None ELSE @]
    IN  IF S \cap Known(t) = {} THEN t ELSE Each(Bucket, t)

(* Mutant: the nodes stay where they were when the bucket is halved. *)
SplitKeepsNodes(t, i) ==
    LET bit == Max({LowBit(t[i].first), IF i < Len(t) THEN LowBit(t[i + 1].first) ELSE -1}) + 1
        new == [t[i] EXCEPT !.first = @ + 2 ^ (Bits - 1 - bit), !.nodes = <<>>, !.cached = None]
    IN  SubSeq(t, 1, i - 1) \o <<[t[i] EXCEPT !.cached = None], new>> \o SubSeq(t, i + 1, Len(t))

Split(t, i) ==
    LET bit == Max({LowBit(t[i].first), IF i < Len(t) THEN LowBit(t[i + 1].first) ELSE -1}) + 1
        middle == t[i].first + 2 ^ (Bits - 1 - bit)
        \* insert_node puts each node in front, so the order is reversed
        Part(Here(_)) == SelectSeq(Reverse(t[i].nodes), Here)
        low == [t[i] EXCEPT !.cached = None, !.nodes = Part(LAMBDA n : n.id < middle)]
        new == [first |-> middle, confirmed |-> t[i].confirmed, cached |-> None,
                nodes |-> Part(LAMBDA n : n.id >= middle)]
    IN  SubSeq(t, 1, i - 1) \o <<low, new>> \o SubSeq(t, i + 1, Len(t))

(* A full bucket pings its first dubious node that was not pinged lately. *)
PingDubious(b) ==
    LET due == {j \in 1 .. Len(b.nodes) : ~NodeGood(b.nodes[j]) /\ ~b.nodes[j].justPinged}
    IN  IF due = {} THEN b ELSE [b EXCEPT !.nodes[Min(due)] = Pinged(@)]

(* Mutant: two unanswered requests are enough. *)
BadAfterTwo(b) == {j \in 1 .. Len(b.nodes) : b.nodes[j].pinged >= 2 /\ ~b.nodes[j].justPinged}

(* A node with three unanswered requests gives its place to a new one. *)
Bad(b) == {j \in 1 .. Len(b.nodes) : b.nodes[j].pinged >= 3 /\ ~b.nodes[j].justPinged}

(* Mutant: the blacklist is looked at when a packet comes in only. *)
RefusesSelf(black, id) == id = Me

(* Whom new_node turns away: ourselves and whoever sent broken replies. *)
Refuses(black, id) == id = Me \/ id \in Range(black)

RECURSIVE NewNode(_, _, _, _)
(* new_node: confirm is 0 for hearsay, 1 for a message, 2 for a reply. *)
NewNode(t, black, id, confirm) ==
    LET i     == FindBucket(t, id)
        b     == [t[i] EXCEPT !.confirmed = @ \/ confirm = 2]
        fresh == [id |-> id, pinged |-> 0, justPinged |-> FALSE,
                  recent |-> confirm > 0, replied |-> confirm = 2]
        with(ns) == [t EXCEPT ![i] = [b EXCEPT !.nodes = ns]]
    IN  CASE Refuses(black, id) -> t
          [] id \in IdsOf(b) ->
               LET j == CHOOSE k \in 1 .. Len(b.nodes) : b.nodes[k].id = id
                   n == b.nodes[j]
               IN  with([b.nodes EXCEPT ![j] =
                           CASE confirm = 0 -> n
                             [] confirm = 1 -> [n EXCEPT !.recent = TRUE]
                             [] confirm = 2 -> fresh])
          [] id \notin IdsOf(b) /\ Bad(b) # {} -> with([b.nodes EXCEPT ![Min(Bad(b))] = fresh])
          [] id \notin IdsOf(b) /\ Bad(b) = {} /\ Len(b.nodes) < BucketSize ->
               with(<<fresh>> \o b.nodes)
          [] OTHER ->
               LET dubious == \E j \in 1 .. Len(b.nodes) : ~NodeGood(b.nodes[j])
                   asked   == [t EXCEPT ![i] = PingDubious(b)]
               IN  IF InBucket(t, i, Me) /\ (~dubious \/ Len(t) = 1)
                   THEN NewNode(Split(asked, i), black, id, confirm)
                   ELSE [asked EXCEPT ![i].cached =
                           IF confirm > 0 \/ @ = None THEN id ELSE @]

(* expire_buckets *)
ExpireBuckets(t) ==
    LET Bucket(b) == LET kept == SelectSeq(b.nodes, LAMBDA n : n.pinged < 4) IN
                     [b EXCEPT !.nodes = kept, !.cached = IF kept # b.nodes THEN None ELSE @]
    IN  Each(Bucket, t)

(* Whom bucket_maintenance or neighbourhood_maintenance may ask for bucket  *)
(* i: one of its own nodes, or a neighbour's, always so when it has none.   *)
AskFor(t, i) ==
    LET Or(q, alternative) == IF t[q].nodes = <<>> THEN {alternative} ELSE {q, alternative}
        first == IF i < Len(t) THEN Or(i, i + 1) ELSE {i}
    IN  UNION {IF i > 1 /\ t[i - 1].nodes # <<>> THEN Or(q, i - 1) ELSE {q} : q \in first}

(* The node a due maintenance may send find_node to: for the first bucket   *)
(* without a reply in ten minutes whose choice has nodes, or else for ours. *)
MaintenanceAsks(t) ==
    LET stale     == {i \in 1 .. Len(t) : ~t[i].confirmed}
        passes(i) == \E q \in AskFor(t, i) : t[q].nodes = <<>>
        reached   == {i \in stale : \A j \in stale : j < i => passes(j)}
                     \cup (IF \A j \in stale : passes(j) THEN {FindBucket(t, Me)} ELSE {})
    IN  UNION {IdsOf(t[q]) : q \in UNION {AskFor(t, i) : i \in reached}}

---------------------------------------------------------------------------
(* blacklist_node: the node is easy to discard, and its address is put in   *)
(* a ring.                                                                  *)
MarkBroken(t, id) ==
    LET Marked(n) == IF n.id = id THEN [n EXCEPT !.pinged = 3] ELSE n
    IN  PingAll(Each(LAMBDA b : [b EXCEPT !.nodes = Each(Marked, b.nodes)], t), {id})

(* The ring of blacklisted addresses: a new one overwrites the oldest.      *)
Ring(black, id) ==
    LET all == Append(black, id) IN SubSeq(all, Max({1, Len(all) - MaxBlacklisted + 1}), Len(all))

(* The end of dht_periodic, after a handler that made t of the table: the   *)
(* expiry and the maintenance, if their timers are due.  ask is the node    *)
(* the maintenance chose.                                                   *)
Finish(t) ==
    \E expire \in BOOLEAN :
        LET e == IF expire THEN ExpireBuckets(t) ELSE t IN
        \E ask \in {None} \cup MaintenanceAsks(e) : table' = PingAll(e, {ask})

Received(id) ==
    /\ packets < MaxPackets /\ packets' = packets + 1
    /\ id \notin Range(blacklist)

(* dht_periodic when nothing arrived, or what arrived is dropped: from a    *)
(* blacklisted node, unparseable, or over the rate token_bucket allows.     *)
Idle == Finish(table) /\ UNCHANGED <<blacklist, packets>>

(* A message (confirm = 1), or a reply that lists no nodes (confirm = 2). *)
Heard(id, confirm) ==
    /\ Received(id)
    /\ Finish(NewNode(table, blacklist, id, confirm))
    /\ UNCHANGED blacklist

(* A reply to find_node or get_peers that lists nodes. *)
GotNodes(id, nodes) ==
    LET Hear(t, n) == IF n = Me THEN t ELSE NewNode(t, blacklist, n, 0) IN
    /\ Received(id)
    /\ Finish(FoldLeft(Hear, NewNode(table, blacklist, id, 2), nodes))
    /\ UNCHANGED blacklist

(* A malformed reply. *)
GotBroken(id) ==
    /\ Received(id)
    /\ Finish(MarkBroken(table, id))
    /\ blacklist' = Ring(blacklist, id)

(* A search sends a request to a node that happens to be in the table. *)
SearchAsks(id) ==
    /\ id \in Known(table)
    /\ table' = PingAll(table, {id})
    /\ UNCHANGED <<blacklist, packets>>

(* dht_insert_node *)
InsertNode(id) ==
    /\ packets < MaxPackets /\ packets' = packets + 1
    /\ table' = NewNode(table, blacklist, id, 0)
    /\ UNCHANGED blacklist

(* Time passes: more than 15 seconds (d = 1), 15 minutes (2), two hours (3). *)
Tick(d) ==
    LET Node(n)   == [n EXCEPT !.justPinged = FALSE, !.recent = @ /\ d < 2, !.replied = @ /\ d < 3]
        Bucket(b) == [b EXCEPT !.confirmed = @ /\ d < 2, !.nodes = Each(Node, b.nodes)]
    IN  /\ table' = Each(Bucket, table)
        /\ UNCHANGED <<blacklist, packets>>

---------------------------------------------------------------------------
(* dht_init *)
Init ==
    /\ table = <<[first |-> 0, nodes |-> <<>>, cached |-> None, confirmed |-> FALSE]>>
    /\ blacklist = <<>> /\ packets = 0

Next ==
    \/ Idle
    \/ \E id \in Peers :
         \/ \E confirm \in 1 .. 2 : Heard(id, confirm)
         \/ \E n \in Peers \cup {Me} : GotNodes(id, <<n>>)
         \/ GotBroken(id)
         \/ SearchAsks(id)
         \/ InsertNode(id)
    \/ \E d \in 1 .. 3 : Tick(d)

Spec == Init /\ [][Next]_vars

---------------------------------------------------------------------------
TableNode == [id : Peers, recent : BOOLEAN, replied : BOOLEAN, pinged : 0 .. 4, justPinged : BOOLEAN]

(* The types; in particular our own id is never in the table. *)
TypeOK ==
    /\ \A b \in Range(table) :
         /\ b.first \in Ids /\ b.cached \in Peers \cup {None} /\ b.confirmed \in BOOLEAN
         /\ Range(b.nodes) \subseteq TableNode
    /\ Range(blacklist) \subseteq Peers /\ Len(blacklist) <= MaxBlacklisted
    /\ packets \in 0 .. MaxPackets

(* The buckets partition the id space into aligned halves around our own    *)
(* id; each holds at most BucketSize nodes, all from its range and none     *)
(* twice, whatever was split, replaced and expired (find_node relies on it: *)
(* it looks in one bucket only).                                            *)
TableSound ==
    LET end(i) == IF i < Len(table) THEN table[i + 1].first ELSE 2 ^ Bits IN
    /\ TypeOK /\ table[1].first = 0
    /\ \A i \in 1 .. Len(table) :
         LET size == end(i) - table[i].first IN
         /\ \E k \in 0 .. Bits : size = 2 ^ k /\ table[i].first % size = 0
         /\ Len(table[i].nodes) <= BucketSize
         /\ Cardinality(IdsOf(table[i])) = Len(table[i].nodes)
         /\ \A id \in IdsOf(table[i]) : InBucket(table, i, id)

(* A node that answers is not pushed out by newcomers: it leaves the table  *)
(* in one step only when it was found to be broken.                         *)
GoodNodesStay ==
    [][\A i \in 1 .. Len(table) : \A j \in 1 .. Len(table[i].nodes) :
         LET n == table[i].nodes[j] IN
         NodeGood(n) => n.id \in Known(table') \/ n.id \in Range(blacklist')]_vars

(* As long as a node is blacklisted nothing rehabilitates it: it is out of  *)
(* the table or marked there for replacement, whoever else still names it   *)
(* and whatever it sends.                                                   *)
BrokenStaysMarked ==
    \A b \in Range(table) : \A n \in Range(b.nodes) :
        n.id \in Range(blacklist) => n.pinged >= 3
=============================================================================

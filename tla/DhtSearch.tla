----------------------------- MODULE DhtSearch -----------------------------
(***************************************************************************)
(* The searches of the DHT in libp2p/routing/dht.c and the announcements   *)
(* they end in.  One node walks the network for a hash with get_peers,     *)
(* keeps the nearest nodes, and announces itself to them with the tokens   *)
(* they gave.  The peers run the same code and appear by the part that     *)
(* answers, with their secrets.  A packet that was sent may arrive at any  *)
(* later time, never or more than once, and packets overtake each other.   *)
(* Where the node's table comes in (the first nodes of a search) any set   *)
(* of peers may be known; the pings a search leaves there are SearchAsks   *)
(* of DhtTable.                                                            *)
(*                                                                         *)
(* Of a time the model keeps what the code asks of it: request_time within *)
(* 15 seconds, reply_time within two hours; step_time is 0 within 15       *)
(* seconds, 1 later and 2 beyond DHT_SEARCH_EXPIRE_TIME (62 minutes).      *)
(***************************************************************************)
EXTENDS Integers, Sequences, Functions, FiniteSets, FiniteSetsExt

CONSTANTS
    Bits,           \* of an id: 160
    Others,         \* ids of the other nodes
    Broken,         \* those whose replies are malformed
    SearchNodes,    \* SEARCH_NODES: 14
    Closest,        \* live nodes a search waits for: 8
    Parallel,       \* requests of one search_step: 3
    Targets,        \* hashes searched for
    MaxSearches,    \* DHT_MAX_SEARCHES: 1024
    TidSpan,        \* values of the unsigned short search_id: 65536
    MaxSearchCalls, \* bound: calls of dht_search
    MaxRotations,   \* bound: rotations of a peer's secret
    MaxArrivals,    \* bound: replies that arrive
    NoToken

(* An id is a string of bits, the most significant one first. *)
NodeIds == [0 .. Bits - 1 -> {0, 1}]

ASSUME DhtSearchAssumption ==
    /\ Bits \in Nat /\ Others \subseteq NodeIds /\ Targets \subseteq NodeIds /\ Broken \subseteq Others
    /\ {SearchNodes, Closest, Parallel, MaxSearches, TidSpan} \subseteq Nat \ {0}
    /\ {MaxSearchCalls, MaxRotations, MaxArrivals} \subseteq Nat
    /\ IsFiniteSet(Others) /\ NoToken \notin 0 .. MaxRotations + 1

VARIABLES
    searches,   \* the list of searches, newest first
    searchTime, \* search_time: "none" (0), "now" or "later"
    searchId,   \* search_id
    blacklist,  \* peers that sent broken replies
    packets,    \* packets that were sent
    secrets,    \* of a peer: <<secret, oldsecret>>, numbered as they are drawn
    announced,  \* of a peer: the hashes whose announcement it accepted
    searchCalls,
    arrivals

searchVars == <<searches, searchTime, searchId, blacklist, packets, secrets, announced, searchCalls, arrivals>>

Tids == 0 .. TidSpan - 1

Each(Op(_), seq) == [j \in 1 .. Len(seq) |-> Op(seq[j])]

(* The elements of seq at the positions of I, in their order. *)
SiftTo(seq, I) ==
    LET F[j \in 0 .. Len(seq)] ==
            IF j = 0 THEN <<>> ELSE IF j \in I THEN Append(F[j - 1], seq[j]) ELSE F[j - 1]
    IN  F
Sift(seq, I) == SiftTo(seq, I)[Len(seq)]

(* xorcmp *)
Closer(a, b, ref) ==
    \E k \in 0 .. Bits - 1 :
        /\ \A j \in 0 .. k - 1 : a[j] = b[j]
        /\ a[k] # b[k] /\ a[k] = ref[k]

---------------------------------------------------------------------------
(* The nodes of a search. *)

SearchIds(s) == {n.id : n \in Range(s.nodes)}
FindSearch(ss, tid) == {k \in 1 .. Len(ss) : ss[k].tid = tid}

Blank(id) == [id |-> id, pinged |-> 0, replied |-> FALSE, acked |-> FALSE, token |-> NoToken,
              justAsked |-> FALSE, lately |-> FALSE]

Farther(s, id) == {j \in 1 .. Len(s.nodes) : Closer(id, s.nodes[j].id, s.target)}
Place(s, id) == Min({Len(s.nodes) + 1} \cup Farther(s, id))

(* The nodes from at on make room for node; the last one may drop out. *)
Shifted(nodes, at, node) ==
    [j \in 1 .. Min({Len(nodes) + 1, SearchNodes}) |->
        IF j < at THEN nodes[j] ELSE IF j = at THEN node ELSE nodes[j - 1]]

(* Mutant: the slot of a new candidate is not cleared. *)
InsertUncleared(s, id) ==
    LET at   == Place(s, id)
        node == IF at > Len(s.nodes) THEN Blank(id) ELSE [s.nodes[at] EXCEPT !.id = id]
    IN  IF id \in SearchIds(s) THEN s ELSE [s EXCEPT !.nodes = Shifted(@, at, node)]

(* Mutant: a new candidate goes to the end. *)
InsertLast(s, id) ==
    IF id \in SearchIds(s) THEN s
    ELSE [s EXCEPT !.nodes = Shifted(@, Len(@) + 1, Blank(id))]

(* insert_search_node: in front of the first node that is farther away, as  *)
(* long as there is room.                                                   *)
Insert(s, id) ==
    IF id \in SearchIds(s) THEN s
    ELSE [s EXCEPT !.nodes = Shifted(@, Place(s, id), Blank(id))]

(* One after the other. *)
InsertTo(s, ids) ==
    LET F[j \in 0 .. Len(ids)] == IF j = 0 THEN s ELSE Insert(F[j - 1], ids[j]) IN F
InsertAll(s, ids) == InsertTo(s, ids)[Len(ids)]

(* The same for a node that replied. *)
InsertReplied(s, id, token) ==
    LET Heard(n) == IF n.id # id THEN n
                    ELSE [n EXCEPT !.replied = TRUE, !.lately = TRUE, !.justAsked = FALSE,
                                   !.pinged = 0, !.token = token]
    IN  [s EXCEPT !.nodes = Each(Heard, Insert(s, id).nodes)]

(* flush_search_node for a node that was blacklisted. *)
Flush(s, id) ==
    [s EXCEPT !.nodes = Sift(s.nodes, {j \in 1 .. Len(s.nodes) : s.nodes[j].id # id})]

(* The first n of a set of positions. *)
First(n, I) == {j \in I : Cardinality({i \in I : i < j}) < n}

Live(s) == First(Closest, {j \in 1 .. Len(s.nodes) : s.nodes[j].pinged < 3})

(* Mutant: a node is asked twice only, and still not given up. *)
AskableTwice(s) == {j \in 1 .. Len(s.nodes) :
                      s.nodes[j].pinged < 2 /\ ~s.nodes[j].replied /\ ~s.nodes[j].justAsked}

(* The nodes search_send_get_peers would still ask: not three times in vain *)
(* and not within the last fifteen seconds.                                 *)
Askable(s) == {j \in 1 .. Len(s.nodes) :
                 s.nodes[j].pinged < 3 /\ ~s.nodes[j].replied /\ ~s.nodes[j].justAsked}

(* A request of search s to its nodes I: what becomes of the search, and    *)
(* the packets.                                                             *)
AskNodes(s, I, type) ==
    [s   |-> [s EXCEPT !.nodes =
                [j \in 1 .. Len(s.nodes) |->
                   IF j \in I THEN [s.nodes[j] EXCEPT !.pinged = @ + 1, !.justAsked = TRUE]
                   ELSE s.nodes[j]]],
     out |-> {[type |-> type, peer |-> s.nodes[j].id, tid |-> s.tid, target |-> s.target,
               token |-> s.nodes[j].token] : j \in I}]

(* search_send_get_peers without a node: the last one that may be asked. *)
AskLast(s) == AskNodes(s, IF Askable(s) = {} THEN {} ELSE {Max(Askable(s))}, "get_peers")

(* Mutant: done as soon as the nearest nodes have replied. *)
SearchStepUnacked(s) ==
    LET timed(r) == [r EXCEPT !.s.step = 0] IN
    IF \A j \in Live(s) : s.nodes[j].replied
    THEN [s |-> [s EXCEPT !.done = TRUE, !.step = 0], out |-> {}]
    ELSE IF s.step = 0 THEN [s |-> s, out |-> {}]
    ELSE timed(AskNodes(s, First(Parallel, Askable(s)), "get_peers"))

(* search_step *)
SearchStep(s) ==
    LET live      == Live(s)
        unacked   == {j \in live : s.nodes[j].token # NoToken /\ ~s.nodes[j].acked}
        tokenless == [s EXCEPT !.nodes =
                        [j \in 1 .. Len(s.nodes) |->
                           [s.nodes[j] EXCEPT !.acked = @ \/ (j \in live /\ s.nodes[j].token = NoToken)]]]
        timed(r)  == [r EXCEPT !.s.step = 0]
        done(r)   == [s |-> [r EXCEPT !.done = TRUE, !.step = 0], out |-> {}]
    IN  IF \A j \in live : s.nodes[j].replied
        THEN IF ~s.announce THEN done(s)
             ELSE IF unacked = {} THEN done(tokenless)
             ELSE timed(AskNodes(tokenless, unacked, "announce_peer"))
        ELSE IF s.step = 0 THEN [s |-> s, out |-> {}]
        ELSE timed(AskNodes(s, First(Parallel, Askable(s)), "get_peers"))

---------------------------------------------------------------------------
(* dht_periodic: a packet is handled, then what is due is done. *)

(* Searches are dropped when expiry is due, ... *)
Left(ss, expire) == IF expire THEN Sift(ss, {k \in 1 .. Len(ss) : ss[k].step < 2}) ELSE ss

(* ... each of the others may make a step, ... *)
Stepped(s, young) ==
    IF searchTime = "now" /\ ~s.done /\ (young \/ s.step > 0)
    THEN SearchStep(s) ELSE [s |-> s, out |-> {}]

(* ... and that is what remains and what was sent. *)
Outcome(all, out) ==
    /\ searches' = Each(LAMBDA r : r.s, all)
    /\ packets' = packets \cup out \cup UNION {r.out : r \in Range(all)}
    /\ searchTime' = IF searchTime # "now" THEN searchTime
                     ELSE IF \A r \in Range(all) : r.s.done THEN "none" ELSE "later"

(* The end of dht_periodic, after a handler that made ss of the searches    *)
(* and sent out.  Whether expiry is due is left open, and whether a search  *)
(* of age 0 is 5 seconds old.                                               *)
Finish(ss, out) ==
    \E expire \in {FALSE, \E s \in Range(ss) : s.step = 2},
      young \in {TRUE, \A s \in Range(ss) : s.done \/ s.step > 0} :
        Outcome(Each(LAMBDA s : Stepped(s, young), Left(ss, expire)), out)

(* A reply arrives. *)
Arrival == arrivals < MaxArrivals /\ arrivals' = arrivals + 1

(* Nothing arrived, or it came from a blacklisted node. *)
Idle ==
    /\ Finish(searches, {})
    /\ UNCHANGED <<searchId, blacklist, secrets, announced, searchCalls, arrivals>>

Flushed(id) == Each(LAMBDA s : Flush(s, id), searches)

(* A reply whose tid is cut short: its sender is blacklisted and taken out  *)
(* of all searches.                                                         *)
GotTruncated(m) ==
    /\ m.type = "get_peers" /\ m.peer \in Broken \ blacklist
    /\ Finish(Flushed(m.peer), {})
    /\ blacklist' = blacklist \cup {m.peer}
    /\ Arrival
    /\ UNCHANGED <<searchId, secrets, announced, searchCalls>>

(* The reply of a peer to the get_peers m: some nodes, and a token made of  *)
(* the secret of the time it was sent.  One with node info of a wrong       *)
(* length gets the peer blacklisted and out of all searches; but the search *)
(* it is for then takes it in as a node that replied.                       *)
GotNodes(m, nodes, token) ==
    LET found == FindSearch(searches, m.tid)
        k     == Min(found)
        heard == InsertAll(searches[k], nodes)
        asked == AskLast(heard)
        Answered(s) == InsertReplied(s, m.peer, token)
    IN  /\ m.type = "get_peers" /\ m.peer \notin blacklist
        /\ \/ /\ m.peer \in Broken
              /\ blacklist' = blacklist \cup {m.peer}
              /\ Finish(IF found = {} THEN Flushed(m.peer)
                        ELSE [Flushed(m.peer) EXCEPT ![k] = Answered(@)], {})
           \/ /\ m.peer \notin Broken
              /\ blacklist' = blacklist
              /\ IF found = {} THEN Finish(searches, {})
                 ELSE Finish([searches EXCEPT ![k] = Answered(asked.s)], asked.out)
        /\ Arrival
        /\ UNCHANGED <<searchId, secrets, announced, searchCalls>>

(* The reply of a peer to announce_peer. *)
GotAck(m) ==
    LET found == FindSearch(searches, m.tid)
        k     == Min(found)
        Acked(n) == IF n.id # m.peer THEN n
                    ELSE [n EXCEPT !.justAsked = FALSE, !.lately = TRUE, !.acked = TRUE, !.pinged = 0]
        asked == AskLast([searches[k] EXCEPT !.nodes = Each(Acked, searches[k].nodes)])
    IN  /\ m.type = "announced" /\ m.peer \notin blacklist
        /\ IF found = {} THEN Finish(searches, {})
           ELSE Finish([searches EXCEPT ![k] = asked.s], asked.out)
        /\ Arrival
        /\ UNCHANGED <<searchId, blacklist, secrets, announced, searchCalls>>

---------------------------------------------------------------------------
(* dht_search *)

(* The slots new_search may return: <<>> for a fresh one. *)
NewSearch ==
    LET done   == {k \in 1 .. Len(searches) : searches[k].done}
        oldest == {k \in done : \A j \in done : searches[j].step <= searches[k].step}
    IN  IF Len(searches) < MaxSearches /\ \A k \in oldest : searches[k].step < 2
        THEN {<<>>} ELSE {<<k>> : k \in oldest}

(* A search for the same hash is taken up again with the nodes that replied *)
(* in the last two hours, and with its tid.                                 *)
Renewed(s) ==
    LET kept == {j \in 1 .. Len(s.nodes) : s.nodes[j].pinged < 3 /\ s.nodes[j].lately}
        Reset(n) == [n EXCEPT !.pinged = 0, !.token = NoToken, !.replied = FALSE, !.acked = FALSE]
    IN  [s EXCEPT !.done = FALSE, !.nodes = Each(Reset, Sift(s.nodes, kept))]

(* known is what the table holds near the target, bucket by bucket. *)
Search(h, announce, known) ==
    LET same == {k \in 1 .. Len(searches) : searches[k].target = h}
        new  == [target |-> h, tid |-> searchId, announce |-> announce, done |-> FALSE,
                 step |-> 2, nodes |-> <<>>]
        Begin(ss, k) ==
            LET r == SearchStep(InsertAll(ss[k], known))
            IN  searches' = [ss EXCEPT ![k] = r.s] /\ packets' = packets \cup r.out
    IN  /\ searchCalls < MaxSearchCalls /\ searchCalls' = searchCalls + 1
        /\ \/ /\ same # {}
              /\ Begin([searches EXCEPT ![Min(same)] =
                          [Renewed(@) EXCEPT !.announce = announce]], Min(same))
              /\ searchId' = searchId
           \/ /\ same = {}
              /\ \E slot \in NewSearch :
                   IF slot = <<>> THEN Begin(<<new>> \o searches, 1)
                   ELSE Begin([searches EXCEPT ![slot[1]] = new], slot[1])
              /\ searchId' = (searchId + 1) % TidSpan
        /\ searchTime' = "now"
        /\ UNCHANGED <<blacklist, secrets, announced, arrivals>>

---------------------------------------------------------------------------
(* The peers. *)

TokenMatch(p, token) == token \in Range(secrets[p])

(* announce_peer is answered with an error, which the sender does not read, *)
(* unless the token matches.  Whether storage_store then had room does not  *)
(* show in the answer.                                                      *)
PeerAnnounce(m) ==
    /\ m.type = "announce_peer"
    /\ IF TokenMatch(m.peer, m.token)
       THEN /\ packets' = packets \cup {[m EXCEPT !.type = "announced", !.token = NoToken]}
            /\ announced' = [announced EXCEPT ![m.peer] = @ \cup {m.target}]
       ELSE UNCHANGED <<packets, announced>>
    /\ UNCHANGED <<searches, searchTime, searchId, blacklist, secrets, searchCalls, arrivals>>

(* rotate_secrets at a peer: the last secret stays good for one rotation.   *)
RotateSecrets(p) ==
    /\ secrets[p][1] <= MaxRotations
    /\ secrets' = [secrets EXCEPT ![p] = <<@[1] + 1, @[1]>>]
    /\ UNCHANGED <<searches, searchTime, searchId, blacklist, packets, announced, searchCalls, arrivals>>

(* Time passes: more than 25 seconds (d = 1), two hours (d = 2). *)
Tick(d) ==
    LET Node(n)   == [n EXCEPT !.justAsked = FALSE, !.lately = @ /\ d < 2]
        Search1(s) == [s EXCEPT !.step = Max({@, d}), !.nodes = Each(Node, s.nodes)]
    IN  /\ searches' = Each(Search1, searches)
        /\ searchTime' = IF searchTime = "none" THEN "none" ELSE "now"
        /\ UNCHANGED <<searchId, blacklist, packets, secrets, announced, searchCalls, arrivals>>

---------------------------------------------------------------------------
(* dht_init; the number of the first search is random and immaterial. *)
SearchInit ==
    /\ searches = <<>> /\ searchTime = "none" /\ searchId = 0
    /\ blacklist = {} /\ packets = {}
    /\ secrets = [p \in Others |-> <<1, 0>>]
    /\ announced = [p \in Others |-> {}]
    /\ searchCalls = 0 /\ arrivals = 0

(* The nodes and the token of a reply; broken ones leave the token out. *)
Lists(p) == {<<>>} \cup {<<n>> : n \in Others \ {p}}
Tokens(p) == IF p \in Broken THEN {NoToken} ELSE 1 .. secrets[p][1]

(* What the buckets may hold, in their order. *)
KnownLists == UNION {{q \in [1 .. n -> Others] : IsInjective(q)} : n \in 0 .. Cardinality(Others)}

SearchNext ==
    \/ Idle
    \/ \E m \in packets :
         \/ \E nodes \in Lists(m.peer), token \in Tokens(m.peer) : GotNodes(m, nodes, token)
         \/ GotTruncated(m) \/ GotAck(m) \/ PeerAnnounce(m)
    \/ \E h \in Targets, announce \in BOOLEAN, known \in KnownLists : Search(h, announce, known)
    \/ \E p \in Others \ Broken : RotateSecrets(p)
    \/ \E d \in 1 .. 2 : Tick(d)

SearchSpec == SearchInit /\ [][SearchNext]_searchVars

(* The kademlia thread comes round again and again, and the clock moves;    *)
(* nothing is assumed of the packets.                                       *)
FairSearchSpec == SearchSpec /\ WF_searchVars(Idle) /\ WF_searchVars(Tick(1))

---------------------------------------------------------------------------
SearchNode == [id : Others, pinged : 0 .. 3, replied : BOOLEAN, acked : BOOLEAN,
               token : 0 .. MaxRotations + 1 \cup {NoToken}, justAsked : BOOLEAN, lately : BOOLEAN]

(* The types; in particular a search asks no node a fourth time that did    *)
(* not answer.                                                              *)
SearchTypes ==
    /\ \A s \in Range(searches) :
         /\ s.target \in Targets /\ s.tid \in Tids /\ s.announce \in BOOLEAN
         /\ s.done \in BOOLEAN /\ s.step \in 0 .. 2 /\ Range(s.nodes) \subseteq SearchNode
    /\ Len(searches) <= MaxSearches
    /\ searchTime \in {"none", "now", "later"} /\ searchId \in Tids
    /\ \A p \in Others : announced[p] \subseteq Targets

(* A search keeps the nearest nodes it knows of, nearest first, none twice: *)
(* flushing, renewing and late replies do not disturb the order.            *)
SearchSorted ==
    SearchTypes /\ \A s \in Range(searches) :
        /\ Len(s.nodes) <= SearchNodes
        /\ \A i, j \in 1 .. Len(s.nodes) : i < j => Closer(s.nodes[i].id, s.nodes[j].id, s.target)

(* A node counts as announced to only if it accepted an announcement for    *)
(* this very hash, however acknowledgements are delayed and duplicated      *)
(* while slots and hashes change, or if it gave no token; and it accepts    *)
(* one that is on its way if it has drawn at most one secret since it made  *)
(* the token, whenever that was.                                            *)
AckedWasAnnounced ==
    /\ \A s \in Range(searches) : \A n \in Range(s.nodes) :
         n.acked /\ n.token # NoToken => s.target \in announced[n.id]
    /\ \A m \in packets : m.type = "announce_peer" /\ secrets[m.peer][1] - m.token <= 1
                       => TokenMatch(m.peer, m.token)

(* A search that reports SEARCH_DONE has heard from each of the nearest     *)
(* nodes that are not dead, and has announced to those with a token.        *)
DoneIsComplete ==
    [][\A k \in 1 .. Len(searches') :
         LET s == searches'[k] IN
         (s.done /\ \A r \in Range(searches) : r.tid = s.tid => ~r.done) =>
            \A j \in Live(s) : s.nodes[j].replied /\ (s.announce => s.nodes[j].acked)]_searchVars

(* Every search ends, even if nobody ever answers: a request is repeated    *)
(* twice and then its node counts as dead.  (Calls and replies are bounded, *)
(* so once the last search is begun there comes a time when none is in      *)
(* progress.  A reply that came again and again would clear the count of    *)
(* requests a node left unanswered, and the search would go on.)            *)
SearchesEnd == []<>(\A s \in Range(searches) : s.done)
=============================================================================

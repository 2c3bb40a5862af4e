------------------------------- MODULE Bitswap -------------------------------
(***************************************************************************)
(* The exchange of blocks between nodes: message.c, network.c,             *)
(* peer_request_queue.c and the peer thread of engine.c, under             *)
(* libipfs/exchange/bitswap.                                               *)
(*                                                                         *)
(* A node keeps for every peer a PeerRequest: the cids it wants from the   *)
(* peer and the cids the peer wants from it.  Two of its threads turn a    *)
(* PeerRequest into a message: the want thread when a search found the     *)
(* peer, the peer thread on its round over all peers.  Building the        *)
(* message, which marks what it contains, and sending it are two steps.    *)
(* A connection may break, taking with it what is under way; each end      *)
(* finds out later, when it peeks.  A node may stop and start again: its   *)
(* blockstore survives, its wants and PeerRequests do not.                 *)
(*                                                                         *)
(* The module WantList has the inside of the want list; here a node has    *)
(* the set of cids it wants.  A message that carries nothing is not sent,  *)
(* as its receiver does nothing with it.  No code sets cancel on a cid a   *)
(* node wants, so no message carries a cancellation.                       *)
(***************************************************************************)
EXTENDS Integers, Sequences

CONSTANTS Nodes,
          Cids,
          Initial,      \* the blocks each node starts with
          MaxFaults,    \* bound: broken connections, failed dials, missing addresses
          MaxStops      \* bound: nodes that go down and are started again

ASSUME BitswapAssumption ==
    /\ Initial \in [Nodes -> SUBSET Cids]
    /\ MaxFaults \in Nat
    /\ MaxStops \in Nat

Pairs == {q \in Nodes \X Nodes : q[1] # q[2]}
Threads == {"want", "peer"}
Messages == [by : Threads, to : Nodes, payload : SUBSET Cids, wants : Seq(Cids)]

VARIABLES status,     \* a node is up, stopped, or died of an error
          store,      \* blocks in the blockstore
          wanted,     \* cids with an entry in the node's want list
          asked,      \* cids the want thread is done with
          current,    \* the cid the want thread works on: a set of at most one
          providers,  \* peers the search returned and that are still to be asked
          weWant,     \* PeerRequest.cids_we_want of node q[1] for peer q[2]
          theyWant,   \* PeerRequest.cids_they_want
          outbox,     \* messages built and not yet written
          link,       \* pairs joined by a connection
          view,       \* peer->connection_type is CONNECTED, at q[1] about q[2]
          chan,       \* messages under way from q[1] to q[2]
          requested,  \* cids written to a connection by q[1] for q[2]
          faults,
          stops       \* times a node went down, for whatever reason

nodeVars == <<status, store, wanted>>
wantVars == <<asked, current, providers>>
netVars == <<link, view, chan, requested>>
vars == <<status, store, wanted, asked, current, providers, weWant, theyWant,
          outbox, link, view, chan, requested, faults, stops>>

Range(s) == {s[i] : i \in 1..Len(s)}

Init ==
    /\ status = [n \in Nodes |-> "up"]
    /\ store = Initial
    /\ wanted = [n \in Nodes |-> {}]
    /\ asked = [n \in Nodes |-> {}]
    /\ current = [n \in Nodes |-> {}]
    /\ providers = [n \in Nodes |-> {}]
    /\ weWant = [q \in Pairs |-> <<>>]
    /\ theyWant = [q \in Pairs |-> <<>>]
    /\ outbox = [n \in Nodes |-> {}]
    /\ link = {}
    /\ view = [q \in Pairs |-> FALSE]
    /\ chan = [q \in Pairs |-> <<>>]
    /\ requested = [q \in Pairs |-> {}]
    /\ faults = 0
    /\ stops = 0

Up(n) == status[n] = "up"
Busy(n, th) == \E m \in outbox[n] : m.by = th
Linked(n, p) == {n, p} \in link

-----------------------------------------------------------------------------
(* Wanting a block and asking providers for it                             *)

(* GetBlockAsync: the block is not here, so it goes to the want list.      *)
Want(n, c) ==
    /\ Up(n)
    /\ c \notin store[n]
    /\ c \notin wanted[n]
    /\ wanted' = [wanted EXCEPT ![n] = @ \cup {c}]
    /\ UNCHANGED <<status, store, wantVars, weWant, theyWant, outbox, netVars,
                   faults, stops>>

(* get_block_remote: the router names peers for a cid that is not here and *)
(* was not asked for.  Which peers is the router's business.               *)
Search(n, c, P) ==
    /\ Up(n)
    /\ current[n] = {}
    /\ c \in wanted[n] \ (asked[n] \cup store[n])
    /\ P # {}
    /\ current' = [current EXCEPT ![n] = {c}]
    /\ providers' = [providers EXCEPT ![n] = P]
    /\ UNCHANGED <<nodeVars, asked, weWant, theyWant, outbox, netVars, faults,
                   stops>>

(* process_entry: every provider has been sent a message, or was tried.    *)
SearchDone(n) ==
    /\ Up(n)
    /\ current[n] # {}
    /\ providers[n] = {}
    /\ ~Busy(n, "want")
    /\ asked' = [asked EXCEPT ![n] = @ \cup current[n]]
    /\ current' = [current EXCEPT ![n] = {}]
    /\ UNCHANGED <<nodeVars, providers, weWant, theyWant, outbox, netVars,
                   faults, stops>>

-----------------------------------------------------------------------------
(* A PeerRequest becomes a message                                         *)

(* we_want_cids, cids_waiting                                              *)
WeWantCids(list) == \E e \in Range(list) : ~e.sent

(* Mutant: the wants of a peer are no reason to send it a message.         *)
CidsNeverWaiting(list) == FALSE

CidsWaiting(list) == \E e \in Range(list) : ~e.cancel

(* Mutant: get_blocks_they_want that fills in whatever the store has.      *)
BlocksInStore(n, p) == store[n]

(* get_blocks_they_want: the blocks the peer waits for that are here       *)
BlocksTheyWant(n, p) ==
    {e.cid : e \in {d \in Range(theyWant[<<n, p>>]) : ~d.cancel}} \cap store[n]

(* add_wantlist_items: what has not been sent, of the first i entries and  *)
(* of all                                                                  *)
UnsentTo(list) ==
    LET F[i \in 0..Len(list)] ==
            IF i = 0 THEN <<>>
            ELSE IF list[i].sent THEN F[i - 1]
            ELSE Append(F[i - 1], list[i].cid)
    IN  F

Unsent(list) == UnsentTo(list)[Len(list)]

(* libp2p_peer_connect: it dials the peer and both ends see the            *)
(* connection once the handshake is through.                               *)
Dial(n, p) ==
    /\ Up(p)
    /\ link' = link \cup {{n, p}}
    /\ view' = [view EXCEPT ![<<n, p>>] = TRUE, ![<<p, n>>] = TRUE]

(* cidEntry->cancel = 1 for what goes into the payload                     *)
MarkServed(list, blocks) ==
    [i \in 1..Len(list) |->
        [list[i] EXCEPT !.cancel = @ \/ list[i].cid \in blocks]]

(* request_has_been_sent = 1 for what goes into the wantlist               *)
MarkSent(list) ==
    [i \in 1..Len(list) |-> [list[i] EXCEPT !.sent = TRUE]]

(* Mutant: a message that carries blocks leaves the wants out, and they    *)
(* are marked sent all the same.                                           *)
BuildEitherOr(n, p, th, ww) ==
    LET blocks == BlocksTheyWant(n, p)
        wants == IF blocks = {} THEN Unsent(ww) ELSE <<>>
        m == [by |-> th, to |-> p, payload |-> blocks, wants |-> wants]
    IN  /\ weWant' = [weWant EXCEPT ![<<n, p>>] = MarkSent(ww)]
        /\ theyWant' = [theyWant EXCEPT ![<<n, p>>] = MarkServed(@, blocks)]
        /\ outbox' = [outbox EXCEPT ![n] =
                         @ \cup (IF blocks = {} /\ wants = <<>> THEN {} ELSE {m})]

(* The message of process_entry, with ww as the node's cids_we_want: the   *)
(* blocks it can give and the cids it has not asked for yet.               *)
Build(n, p, th, ww) ==
    LET blocks == BlocksTheyWant(n, p)
        wants == Unsent(ww)
        m == [by |-> th, to |-> p, payload |-> blocks, wants |-> wants]
    IN  /\ weWant' = [weWant EXCEPT ![<<n, p>>] = MarkSent(ww)]
        /\ theyWant' = [theyWant EXCEPT ![<<n, p>>] = MarkServed(@, blocks)]
        /\ outbox' = [outbox EXCEPT ![n] =
                         @ \cup (IF blocks = {} /\ wants = <<>> THEN {} ELSE {m})]

(* ipfs_bitswap_peer_request_process_entry: connect if need be; build a    *)
(* message only when connected.  It returns at once if the peer is not     *)
(* connected and has no address, which here is a fault like a failed dial. *)
ProcessEntry(n, p, th, ww) ==
    \/ /\ view[<<n, p>>]
       /\ Build(n, p, th, ww)
       /\ UNCHANGED <<link, view, faults>>
    \/ /\ ~view[<<n, p>>]
       /\ Dial(n, p)
       /\ Build(n, p, th, ww)
       /\ UNCHANGED faults
    \/ /\ ~view[<<n, p>>]
       /\ ~Up(p)
       /\ weWant' = [weWant EXCEPT ![<<n, p>>] = ww]
       /\ UNCHANGED <<theyWant, outbox, link, view, faults>>
    \/ /\ ~view[<<n, p>>]
       /\ faults < MaxFaults
       /\ faults' = faults + 1
       /\ weWant' = [weWant EXCEPT ![<<n, p>>] = ww]
       /\ UNCHANGED <<theyWant, outbox, link, view>>

(* The body of the loop of get_block_remote: the cid is queued for one     *)
(* provider, and its PeerRequest is processed.                             *)
AskPeer(n, p) ==
    /\ Up(n)
    /\ p \in providers[n]
    /\ ~Busy(n, "want")
    /\ \E c \in current[n] :
          ProcessEntry(n, p, "want",
                       Append(weWant[<<n, p>>], [cid |-> c, sent |-> FALSE]))
    /\ providers' = [providers EXCEPT ![n] = @ \ {p}]
    /\ UNCHANGED <<nodeVars, asked, current, chan, requested, stops>>

(* The peer thread's turn on one peer, when there is something to do       *)
PeerTurn(n, p) ==
    /\ Up(n)
    /\ p # n
    /\ ~Busy(n, "peer")
    /\ WeWantCids(weWant[<<n, p>>]) \/ CidsWaiting(theyWant[<<n, p>>])
    /\ ProcessEntry(n, p, "peer", weWant[<<n, p>>])
    /\ UNCHANGED <<nodeVars, wantVars, chan, requested, stops>>

-----------------------------------------------------------------------------
(* Sending and receiving                                                   *)

(* send_message that gets through: the connection is there, or a new one   *)
(* is made because the other thread found the old one broken.              *)
SendWritten(n, m) ==
    LET q == <<n, m.to>>
    IN  /\ Up(n)
        /\ m \in outbox[n]
        /\ \/ view[q] /\ Linked(n, m.to) /\ UNCHANGED <<link, view>>
           \/ ~view[q] /\ Dial(n, m.to)
        /\ chan' = [chan EXCEPT ![q] = Append(@, m)]
        /\ requested' = [requested EXCEPT ![q] = @ \cup Range(m.wants)]
        /\ outbox' = [outbox EXCEPT ![n] = @ \ {m}]
        /\ UNCHANGED <<nodeVars, wantVars, weWant, theyWant, faults, stops>>

(* send_message that does not: the connection is broken and nobody has     *)
(* noticed, or the new dial fails.  Its result is not looked at.           *)
SendLost(n, m) ==
    LET q == <<n, m.to>>
    IN  /\ Up(n)
        /\ m \in outbox[n]
        /\ \/ view[q] /\ ~Linked(n, m.to) /\ UNCHANGED faults
           \/ ~view[q] /\ ~Up(m.to) /\ UNCHANGED faults
           \/ ~view[q] /\ faults < MaxFaults /\ faults' = faults + 1
        /\ outbox' = [outbox EXCEPT ![n] = @ \ {m}]
        /\ UNCHANGED <<nodeVars, wantVars, weWant, theyWant, netVars, stops>>

(* What adjust_cid_queue makes of a list and a wanted cid.  Its loop adds  *)
(* 1 to the list pointer and leaves the index at 0, so only the first      *)
(* element is ever compared: an empty list gets the cid, a first element   *)
(* with that cid is left as it is, and anything else reads past the list.  *)
Adjusted(list, c) ==
    IF list = <<>> THEN <<[cid |-> c, cancel |-> FALSE]>> ELSE list

OutOfBounds(list, c) == list # <<>> /\ list[1].cid # c

(* adjust_cid_queue for every entry of a message's wantlist, in order      *)
AdjustCidQueue(list, wants) ==
    IF wants = <<>> THEN list ELSE Adjusted(list, wants[1])

AdjustGoesWrong(list, wants) ==
    \E i \in 1..Len(wants) :
        OutOfBounds(IF i = 1 THEN list ELSE Adjusted(list, wants[1]), wants[i])

(* What a node loses when it goes down: its memory and its connections.    *)
Down(n, reason) ==
    /\ status' = [status EXCEPT ![n] = reason]
    /\ stops' = stops + 1
    /\ wanted' = [wanted EXCEPT ![n] = {}]
    /\ asked' = [asked EXCEPT ![n] = {}]
    /\ current' = [current EXCEPT ![n] = {}]
    /\ providers' = [providers EXCEPT ![n] = {}]
    /\ weWant' = [q \in Pairs |-> IF q[1] = n THEN <<>> ELSE weWant[q]]
    /\ theyWant' = [q \in Pairs |-> IF q[1] = n THEN <<>> ELSE theyWant[q]]
    /\ outbox' = [outbox EXCEPT ![n] = {}]
    /\ link' = {l \in link : n \notin l}
    /\ view' = [q \in Pairs |-> view[q] /\ q[1] # n]
    /\ chan' = [q \in Pairs |-> IF n \in {q[1], q[2]} THEN <<>> ELSE chan[q]]

Arrived(n, p) ==
    /\ Up(n)
    /\ p # n
    /\ view[<<n, p>>]
    /\ chan[<<p, n>>] # <<>>

(* handle_message: the payload goes to HasBlock, then the sender's wants   *)
(* are recorded.  A want that led past the list is lost, at best.          *)
Receive(n, p) ==
    LET m == Head(chan[<<p, n>>])
    IN  /\ Arrived(n, p)
        /\ m.payload # {} => wanted[n] # {}
        /\ chan' = [chan EXCEPT ![<<p, n>>] = Tail(@)]
        /\ store' = [store EXCEPT ![n] = @ \cup m.payload]
        /\ theyWant' = [theyWant EXCEPT ![<<n, p>>] =
                            AdjustCidQueue(@, m.wants)]
        /\ UNCHANGED <<status, wanted, wantVars, weWant, outbox, link, view,
                       requested, faults, stops>>

(* HasBlock looks the block up in the want list, whose vector is made by   *)
(* the first want: without one the node dies of a null pointer.            *)
ReceiveWithoutList(n, p) ==
    LET m == Head(chan[<<p, n>>])
    IN  /\ Arrived(n, p)
        /\ m.payload # {} /\ wanted[n] = {}
        /\ Down(n, "no_list")
        /\ store' = [store EXCEPT ![n] = @ \cup m.payload]
        /\ UNCHANGED <<requested, faults>>

(* Or the read past the list of cids kills the node.                       *)
ReceiveOutOfBounds(n, p) ==
    LET m == Head(chan[<<p, n>>])
    IN  /\ Arrived(n, p)
        /\ AdjustGoesWrong(theyWant[<<n, p>>], m.wants)
        /\ Down(n, "out_of_bounds")
        /\ store' = [store EXCEPT ![n] = @ \cup m.payload]
        /\ UNCHANGED <<requested, faults>>

(* The peer thread peeks at a broken connection:                           *)
(* libp2p_peer_handle_connection_error.                                    *)
PeekError(n, p) ==
    /\ Up(n)
    /\ p # n
    /\ view[<<n, p>>]
    /\ ~Linked(n, p)
    /\ view' = [view EXCEPT ![<<n, p>>] = FALSE]
    /\ UNCHANGED <<nodeVars, wantVars, weWant, theyWant, outbox, link, chan,
                   requested, faults, stops>>

-----------------------------------------------------------------------------
(* The world                                                               *)

Break(n, p) ==
    /\ Linked(n, p)
    /\ faults < MaxFaults
    /\ faults' = faults + 1
    /\ link' = link \ {{n, p}}
    /\ chan' = [chan EXCEPT ![<<n, p>>] = <<>>, ![<<p, n>>] = <<>>]
    /\ UNCHANGED <<nodeVars, wantVars, weWant, theyWant, outbox, view,
                   requested, stops>>

(* A node is stopped, and a node that is down is started again.            *)
Stop(n) ==
    /\ Up(n)
    /\ stops < MaxStops
    /\ Down(n, "stopped")
    /\ UNCHANGED <<store, requested, faults>>

Start(n) ==
    /\ ~Up(n)
    /\ stops <= MaxStops
    /\ status' = [status EXCEPT ![n] = "up"]
    /\ UNCHANGED <<store, wanted, wantVars, weWant, theyWant, outbox, netVars,
                   faults, stops>>

-----------------------------------------------------------------------------
Next ==
    \/ \E n \in Nodes, c \in Cids :
          \/ Want(n, c)
          \/ \E P \in SUBSET (Nodes \ {n}) : Search(n, c, P)
    \/ \E n \in Nodes :
          \/ SearchDone(n)
          \/ Stop(n)
          \/ Start(n)
          \/ \E m \in outbox[n] : SendWritten(n, m) \/ SendLost(n, m)
    \/ \E n, p \in Nodes :
          \/ AskPeer(n, p)
          \/ PeerTurn(n, p)
          \/ Receive(n, p)
          \/ ReceiveWithoutList(n, p)
          \/ ReceiveOutOfBounds(n, p)
          \/ PeekError(n, p)
          \/ Break(n, p)

Spec == Init /\ [][Next]_vars

(* The threads of a node that is up go on: a message built is sent, a      *)
(* provider found is asked, every peer gets its turn on the peer thread's  *)
(* round, and what arrives or breaks is noticed there.                     *)
Fairness ==
    /\ \A n \in Nodes :
          /\ WF_vars(SearchDone(n))
          /\ WF_vars(\E m \in outbox[n] : SendWritten(n, m) \/ SendLost(n, m))
    /\ \A n, p \in Nodes :
          /\ WF_vars(AskPeer(n, p))
          /\ WF_vars(PeerTurn(n, p))
          /\ WF_vars(Receive(n, p) \/ ReceiveWithoutList(n, p)
                        \/ ReceiveOutOfBounds(n, p))
          /\ WF_vars(PeekError(n, p))

LiveSpec == Spec /\ Fairness

-----------------------------------------------------------------------------
(* The type invariant.                                                     *)
TypeOK ==
    /\ status \in [Nodes -> {"up", "stopped", "no_list", "out_of_bounds"}]
    /\ store \in [Nodes -> SUBSET Cids]
    /\ wanted \in [Nodes -> SUBSET Cids]
    /\ asked \in [Nodes -> SUBSET Cids]
    /\ current \in [Nodes -> SUBSET Cids]
    /\ providers \in [Nodes -> SUBSET Nodes]
    /\ weWant \in [Pairs -> Seq([cid : Cids, sent : BOOLEAN])]
    /\ theyWant \in [Pairs -> Seq([cid : Cids, cancel : BOOLEAN])]
    /\ outbox \in [Nodes -> SUBSET Messages]
    /\ link \subseteq {{q[1], q[2]} : q \in Pairs}
    /\ view \in [Pairs -> BOOLEAN]
    /\ chan \in [Pairs -> Seq(Messages)]
    /\ requested \in [Pairs -> SUBSET Cids]
    /\ faults \in 0..MaxFaults
    /\ stops \in Nat

(* A block travels to a node only if that node asked that very peer for    *)
(* it: whatever breaks, restarts or is built by the other thread in        *)
(* between, nobody is sent what he did not ask for.                        *)
OnlyRequestedTravels ==
    TypeOK /\ \A q \in Pairs : \A i \in 1..Len(chan[q]) :
        chan[q][i].payload \subseteq requested[<<q[2], q[1]>>]

(* No connection has broken, no dial failed, no address was missing and no *)
(* node went down.                                                         *)
Undisturbed == faults = 0 /\ stops = 0

(* The first cid a node wants of a peer, as a set of at most one: of the   *)
(* later ones adjust_cid_queue loses track (WantsAreRecorded below).       *)
FirstWant(q) == {weWant[q][i].cid : i \in 1..Len(weWant[q]) \cap {1}}

(* A node believes that it has asked a peer (its mark "request sent") only *)
(* if the peer has the want on its list, or the request or the answer is   *)
(* under way, whichever of the two threads of either end built a message   *)
(* in between.                                                             *)
RequestIsSomewhere ==
    Undisturbed =>
        \A q \in Pairs : \A c \in FirstWant(q) :
            LET back == <<q[2], q[1]>>
            IN  weWant[q][1].sent =>
                  \/ \E m \in outbox[q[1]] : m.to = q[2] /\ c \in Range(m.wants)
                  \/ \E i \in 1..Len(chan[q]) : c \in Range(chan[q][i].wants)
                  \/ \E d \in Range(theyWant[back]) : d.cid = c /\ ~d.cancel
                  \/ \E m \in outbox[q[2]] : m.to = q[1] /\ c \in m.payload
                  \/ \E i \in 1..Len(chan[back]) : c \in chan[back][i].payload
                  \/ c \in store[q[1]]

(* The first block asked of a peer that has it, or gets it later, arrives, *)
(* as long as nothing breaks.                                              *)
RequestAnswered ==
    \A q \in Pairs :
        (Undisturbed /\ FirstWant(q) \cap requested[q] \cap store[q[2]] # {})
            ~> (~Undisturbed \/ FirstWant(q) \subseteq store[q[1]])

(* HasBlock finds its want list: in the first life of the nodes a block    *)
(* comes only to one that has wanted something and so made the list.  Only *)
(* after a restart can an answer to a request of an earlier life arrive    *)
(* before the first want of this one, and end the node.                    *)
HasBlockHasQueue ==
    \A n \in Nodes : status[n] = "no_list" => stops > 1

-----------------------------------------------------------------------------
(* What comments of the source say, and the code does not do               *)

(* network.c: "not found. Add it if we're not cancelling": a want a node   *)
(* receives is on its list afterwards.                                     *)
WantsAreRecorded ==
    [][\A q \in Pairs : chan[q] # <<>> /\ chan'[q] = Tail(chan[q]) /\ faults' = faults
            /\ stops' = stops
          => \A c \in Range(Head(chan[q]).wants) :
                \E e \in Range(theyWant'[<<q[2], q[1]>>]) : e.cid = c]_vars
=============================================================================

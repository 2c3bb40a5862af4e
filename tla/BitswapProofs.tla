---------------------------- MODULE BitswapProofs ----------------------------
(***************************************************************************)
(* Theorems about the exchange of blocks (module Bitswap), for any number  *)
(* of nodes, cids, faults and restarts.                                    *)
(***************************************************************************)
EXTENDS Bitswap, WellFoundedInduction, TLAPS

WeEntries == [cid : Cids, sent : BOOLEAN]
TheyEntries == [cid : Cids, cancel : BOOLEAN]

(* Where the reverse of a pair is meant.                                   *)
Back(q) == <<q[2], q[1]>>
-----------------------------------------------------------------------------
(* Lists                                                                   *)

(* A set of numbers that is not empty has a least element: what the loops  *)
(* of the code compute is shown from it, by the first turn that would      *)
(* differ.                                                                 *)
LEMMA LeastNumber ==
    ASSUME NEW T, T \subseteq Nat, T # {}
    PROVE  \E x \in T : \A y \in T : x <= y
<1>1. IsWellFoundedOn(OpToRel(<, Nat), Nat)
  BY NatLessThanWellFounded, Zenon
<1>2. PICK R : R = OpToRel(<, Nat)
  BY Zenon
<1>3. IsWellFoundedOn(R, Nat)
  BY <1>1, <1>2, Zenon
<1>4. \A y, x \in Nat : y < x => <<y, x>> \in R
  BY <1>2, Zenon DEF OpToRel
<1>5. \E x \in T : \A y \in T : ~(<<y, x>> \in R)
  BY <1>3, WFMin, Zenon
<1>6. PICK x \in T : \A y \in T : ~(<<y, x>> \in R)
  BY <1>5, Zenon
<1>7. \A y \in T : x \in Nat /\ y \in Nat /\ ~(y < x)
  BY <1>4, <1>6, Zenon
<1>8. \A y \in T : x <= y
  BY <1>7
<1>9. QED
  BY <1>8

(* Induction over 0..k, for a set of numbers.                              *)
LEMMA UpTo ==
    ASSUME NEW k \in Nat, NEW Good, 0 \in Good,
           \A n \in 1..k : n - 1 \in Good => n \in Good
    PROVE  \A n \in 0..k : n \in Good
<1> DEFINE Bad == {n \in 0..k : n \notin Good}
<1>1. SUFFICES ASSUME Bad # {} PROVE FALSE
  OBVIOUS
<1>2. Bad \subseteq Nat
  OBVIOUS
<1>3. PICK x \in Bad : \A y \in Bad : x <= y
  BY <1>1, <1>2, LeastNumber
<1>4. x \in 1..k /\ x - 1 \in 0..k /\ x - 1 \notin Bad
  BY <1>3
<1>5. QED
  BY <1>4

(* One turn of the loop of add_wantlist_items.                             *)
Turn(list, f, i) ==
    IF i = 0 THEN <<>>
    ELSE IF list[i].sent THEN f[i - 1]
    ELSE Append(f[i - 1], list[i].cid)

(* The loop of add_wantlist_items has a result for every list.             *)
LEMMA UnsentExists ==
    ASSUME NEW list \in Seq(WeEntries)
    PROVE  \E f \in [0..Len(list) -> Seq(Cids)] :
              \A i \in 0..Len(list) : f[i] = Turn(list, f, i)
<1> DEFINE Done(n) == \E f \in [0..n -> Seq(Cids)] : \A i \in 0..n : f[i] = Turn(list, f, i)
           Good == {n \in 0..Len(list) : Done(n)}
<1>1. Done(0)
  <2> DEFINE f == [i \in 0..0 |-> <<>>]
  <2>1. f \in [0..0 -> Seq(Cids)] /\ \A i \in 0..0 : f[i] = Turn(list, f, i)
    BY DEF Turn
  <2>2. QED
    BY <2>1
<1>2. ASSUME NEW n \in 1..Len(list), Done(n - 1)
      PROVE  Done(n)
  <2>1. PICK f \in [0..(n - 1) -> Seq(Cids)] : \A i \in 0..(n - 1) : f[i] = Turn(list, f, i)
    BY <1>2
  <2> DEFINE g == [i \in 0..n |-> IF i < n THEN f[i] ELSE Turn(list, f, n)]
  <2>2. list[n] \in WeEntries /\ f[n - 1] \in Seq(Cids)
    OBVIOUS
  <2>3. Turn(list, f, n) \in Seq(Cids)
    BY <2>2 DEF Turn, WeEntries
  <2>4. g \in [0..n -> Seq(Cids)]
    BY <2>3
  <2>5. \A i \in 0..n : Turn(list, g, i) = Turn(list, f, i)
    BY DEF Turn
  <2>6. \A i \in 0..n : g[i] = Turn(list, f, i)
    <3>1. ASSUME NEW i \in 0..n PROVE g[i] = Turn(list, f, i)
      <4>1. CASE i = n
        BY <4>1
      <4>2. CASE i # n
        BY <4>2, <2>1
      <4>3. QED
        BY <4>1, <4>2
    <3>2. QED
      BY <3>1
  <2>7. QED
    BY <2>4, <2>5, <2>6
<1> HIDE DEF Done
<1>3. 0 \in Good /\ \A n \in 1..Len(list) : n - 1 \in Good => n \in Good
  BY <1>1, <1>2
<1>4. Done(Len(list))
  <2>1. \A n \in 0..Len(list) : n \in Good
    <3> HIDE DEF Good
    <3>1. Len(list) \in Nat
      OBVIOUS
    <3>2. QED
      BY <1>3, <3>1, UpTo
  <2>2. QED
    BY <2>1
<1>5. QED
  BY <1>4 DEF Done

(* ... and it is what UnsentTo names.                                      *)
LEMMA UnsentLoop ==
    ASSUME NEW list \in Seq(WeEntries)
    PROVE  \A i \in 0..Len(list) : UnsentTo(list)[i] = Turn(list, UnsentTo(list), i)
<1> DEFINE All(f) == [i \in 0..Len(list) |-> Turn(list, f, i)]
<1>1. PICK f \in [0..Len(list) -> Seq(Cids)] : \A i \in 0..Len(list) : f[i] = Turn(list, f, i)
  BY UnsentExists
<1>2. f = All(f)
  BY <1>1
<1>3. UnsentTo(list) = CHOOSE g : g = All(g)
  BY DEF UnsentTo, Turn
<1> HIDE DEF All
<1>4. UnsentTo(list) = All(UnsentTo(list))
  BY <1>2, <1>3, Zenon
<1>5. QED
  BY <1>4 DEF All

(* The wantlist of a message names cids of the list.                       *)
LEMMA UnsentType ==
    ASSUME NEW list \in Seq(WeEntries), NEW Named,
           \A i \in 1..Len(list) : list[i].cid \in Named
    PROVE  Unsent(list) \in Seq(Named)
<1> DEFINE F == UnsentTo(list)
           Good == {n \in 0..Len(list) : F[n] \in Seq(Named)}
<1>1. \A i \in 0..Len(list) : F[i] = Turn(list, F, i)
  BY UnsentLoop
<1>2. Len(list) \in Nat
  OBVIOUS
<1> HIDE DEF F
<1>3. 0 \in Good
  <2>1. F[0] = <<>>
    BY <1>1, <1>2 DEF Turn
  <2>2. <<>> \in Seq(Named)
    OBVIOUS
  <2>3. F[0] \in Seq(Named)
    BY <2>1, <2>2, Zenon
  <2>4. QED
    BY <1>2, <2>3
<1>4. ASSUME NEW n \in 1..Len(list), n - 1 \in Good
      PROVE  n \in Good
  <2>1. F[n] = IF list[n].sent THEN F[n - 1] ELSE Append(F[n - 1], list[n].cid)
    BY <1>1, <1>2 DEF Turn
  <2>2. F[n - 1] \in Seq(Named) /\ list[n].cid \in Named
    BY <1>4
  <2>3. \A s \in Seq(Named), e \in Named : Append(s, e) \in Seq(Named)
    OBVIOUS
  <2>4. F[n] \in Seq(Named)
    BY <2>1, <2>2, <2>3, Zenon
  <2>5. QED
    BY <1>2, <2>4
<1>5. Len(list) \in Good
  <2> HIDE DEF Good
  <2>1. \A n \in 0..Len(list) : n \in Good
    BY <1>2, <1>3, <1>4, UpTo
  <2>2. QED
    BY <1>2, <2>1
<1>6. QED
  BY <1>5 DEF Unsent, F

(* Nothing is taken from a list that was sent.                             *)
LEMMA UnsentNone ==
    ASSUME NEW list \in Seq(WeEntries), \A i \in 1..Len(list) : list[i].sent
    PROVE  Unsent(list) = <<>>
<1> DEFINE F == UnsentTo(list)
           Good == {n \in 0..Len(list) : F[n] = <<>>}
<1>1. \A i \in 0..Len(list) : F[i] = Turn(list, F, i)
  BY UnsentLoop
<1>2. Len(list) \in Nat
  OBVIOUS
<1> HIDE DEF F
<1>3. 0 \in Good
  BY <1>1, <1>2 DEF Turn
<1>4. ASSUME NEW n \in 1..Len(list), n - 1 \in Good
      PROVE  n \in Good
  BY <1>1, <1>2, <1>4 DEF Turn
<1>5. Len(list) \in Good
  <2> HIDE DEF Good
  <2>1. \A n \in 0..Len(list) : n \in Good
    BY <1>2, <1>3, <1>4, UpTo
  <2>2. QED
    BY <1>2, <2>1
<1>6. QED
  BY <1>5 DEF Unsent, F

LEMMA EmptyList == ASSUME NEW S PROVE <<>> \in Seq(S)
OBVIOUS

LEMMA FirstInRange ==
    ASSUME NEW S, NEW list \in Seq(S), list # <<>>
    PROVE  list[1] \in Range(list)
<1>1. 1 \in 1..Len(list)
  OBVIOUS
<1>2. QED
  BY <1>1, Zenon DEF Range

LEMMA EntryCid ==
    ASSUME NEW list \in Seq(WeEntries)
    PROVE  \A i \in 1..Len(list) : list[i].cid \in Cids
<1>1. \A i \in 1..Len(list) : list[i] \in WeEntries
  OBVIOUS
<1>2. QED
  BY <1>1 DEF WeEntries

(* An entry of a list with one more at its end.                            *)
LEMMA AppendedEntry ==
    ASSUME NEW list \in Seq(WeEntries), NEW e \in WeEntries, NEW ww, ww = Append(list, e)
    PROVE  /\ ww \in Seq(WeEntries) /\ Len(ww) = Len(list) + 1
           /\ \A i \in 1..Len(list) : ww[i] = list[i]
           /\ ww[Len(list) + 1] = e
           /\ \A i \in 1..Len(ww) : (i \in 1..Len(list) /\ ww[i] = list[i]) \/ ww[i] = e
OBVIOUS

(* A list keeps its length and its cids when it is marked.                 *)
LEMMA MarkSentList ==
    ASSUME NEW list \in Seq(WeEntries)
    PROVE  /\ MarkSent(list) \in Seq(WeEntries)
           /\ Len(MarkSent(list)) = Len(list)
           /\ \A i \in 1..Len(list) : /\ MarkSent(list)[i].cid = list[i].cid
                                      /\ MarkSent(list)[i].sent
<1>1. \A i \in 1..Len(list) : list[i] \in WeEntries
  OBVIOUS
<1>2. \A i \in 1..Len(list) : [list[i] EXCEPT !.sent = TRUE] \in WeEntries
  BY <1>1, Zenon DEF WeEntries
<1>3. QED
  BY <1>1, <1>2 DEF MarkSent, WeEntries

LEMMA MarkServedList ==
    ASSUME NEW list \in Seq(TheyEntries), NEW blocks
    PROVE  /\ MarkServed(list, blocks) \in Seq(TheyEntries)
           /\ Len(MarkServed(list, blocks)) = Len(list)
           /\ \A i \in 1..Len(list) :
                 /\ MarkServed(list, blocks)[i].cid = list[i].cid
                 /\ MarkServed(list, blocks)[i].cancel
                       => list[i].cancel \/ list[i].cid \in blocks
<1>1. \A i \in 1..Len(list) : list[i] \in TheyEntries
  OBVIOUS
<1>2. \A i \in 1..Len(list) :
         [list[i] EXCEPT !.cancel = @ \/ list[i].cid \in blocks] \in TheyEntries
  BY <1>1, Zenon DEF TheyEntries
<1>3. QED
  BY <1>1, <1>2 DEF MarkServed, TheyEntries

(* adjust_cid_queue puts in at most the first cid of the message.          *)
LEMMA AdjustedList ==
    ASSUME NEW list \in Seq(TheyEntries), NEW wants \in Seq(Cids)
    PROVE  /\ AdjustCidQueue(list, wants) \in Seq(TheyEntries)
           /\ list # <<>> \/ wants = <<>> => AdjustCidQueue(list, wants) = list
           /\ list = <<>> /\ wants # <<>> =>
                 AdjustCidQueue(list, wants) = <<[cid |-> wants[1], cancel |-> FALSE]>>
<1>1. CASE wants = <<>>
  BY <1>1 DEF AdjustCidQueue
<1>2. CASE wants # <<>> /\ list # <<>>
  BY <1>2 DEF AdjustCidQueue, Adjusted
<1>3. CASE wants # <<>> /\ list = <<>>
  <2> DEFINE e == [cid |-> wants[1], cancel |-> FALSE]
  <2>1. wants[1] \in Cids
    BY <1>3
  <2>2. e \in TheyEntries
    BY <2>1 DEF TheyEntries
  <2>3. AdjustCidQueue(list, wants) = <<e>>
    BY <1>3 DEF AdjustCidQueue, Adjusted
  <2> HIDE DEF e
  <2>4. <<e>> \in Seq(TheyEntries)
    BY <2>2
  <2>5. QED
    BY <1>3, <2>3, <2>4 DEF e
<1>4. QED
  BY <1>1, <1>2, <1>3
-----------------------------------------------------------------------------
(* The type invariant                                                      *)

NodeType ==
    /\ status \in [Nodes -> {"up", "stopped", "no_list", "out_of_bounds"}]
    /\ store \in [Nodes -> SUBSET Cids]
    /\ wanted \in [Nodes -> SUBSET Cids]
    /\ asked \in [Nodes -> SUBSET Cids]
    /\ current \in [Nodes -> SUBSET Cids]
    /\ providers \in [Nodes -> SUBSET Nodes]
    /\ faults \in 0..MaxFaults
    /\ stops \in Nat

ListType ==
    /\ weWant \in [Pairs -> Seq(WeEntries)]
    /\ theyWant \in [Pairs -> Seq(TheyEntries)]

NetType ==
    /\ outbox \in [Nodes -> SUBSET Messages]
    /\ link \subseteq {{q[1], q[2]} : q \in Pairs}
    /\ view \in [Pairs -> BOOLEAN]
    /\ chan \in [Pairs -> Seq(Messages)]
    /\ requested \in [Pairs -> SUBSET Cids]

(* The search of get_block_remote leaves the node itself out.              *)
OthersOnly ==
    /\ \A n \in Nodes : n \notin providers[n]
    /\ \A n \in Nodes : \A m \in outbox[n] : m.to # n

LEMMA TypeOKParts == TypeOK <=> NodeType /\ ListType /\ NetType
BY DEF TypeOK, NodeType, ListType, NetType, WeEntries, TheyEntries

LEMMA PairsOf ==
    ASSUME NEW n \in Nodes, NEW p \in Nodes, n # p
    PROVE  /\ <<n, p>> \in Pairs /\ <<p, n>> \in Pairs
           /\ {n, p} \in {{q[1], q[2]} : q \in Pairs}
BY DEF Pairs

(* What a call of process_entry leaves in the tables.                      *)
LEMMA BuildType ==
    ASSUME TypeOK, NEW n \in Nodes, NEW p \in Nodes, n # p, NEW th \in Threads,
           NEW ww \in Seq(WeEntries), Build(n, p, th, ww)
    PROVE  ListType' /\ outbox' \in [Nodes -> SUBSET Messages]
<1>1. <<n, p>> \in Pairs
  BY PairsOf
<1>2. ListType /\ NetType /\ NodeType
  BY TypeOKParts
<1>3. MarkSent(ww) \in Seq(WeEntries)
  BY MarkSentList
<1>4. weWant' \in [Pairs -> Seq(WeEntries)]
  BY <1>1, <1>2, <1>3 DEF Build, ListType
<1>5. theyWant' \in [Pairs -> Seq(TheyEntries)]
  BY <1>1, <1>2, MarkServedList DEF Build, ListType
<1> DEFINE m == [by |-> th, to |-> p, payload |-> BlocksTheyWant(n, p), wants |-> Unsent(ww)]
<1>6. m \in Messages
  <2>1. \A i \in 1..Len(ww) : ww[i].cid \in Cids
    BY EntryCid
  <2>2. Unsent(ww) \in Seq(Cids)
    BY <2>1, UnsentType
  <2>3. BlocksTheyWant(n, p) \subseteq Cids
    <3>1. store[n] \subseteq Cids
      BY <1>2 DEF NodeType
    <3>2. QED
      BY <3>1, Zenon DEF BlocksTheyWant
  <2>4. ASSUME NEW blocks \in SUBSET Cids, NEW wants \in Seq(Cids)
        PROVE  [by |-> th, to |-> p, payload |-> blocks, wants |-> wants] \in Messages
    BY DEF Messages
  <2>5. QED
    BY <2>2, <2>3, <2>4
<1>7. outbox' = [outbox EXCEPT ![n] = @ \cup
                   (IF BlocksTheyWant(n, p) = {} /\ Unsent(ww) = <<>> THEN {} ELSE {m})]
  BY DEF Build
<1> HIDE DEF m
<1>8. outbox' \in [Nodes -> SUBSET Messages]
  BY <1>2, <1>6, <1>7 DEF NetType
<1>9. QED
  BY <1>4, <1>5, <1>8 DEF ListType


LEMMA ProcessEntryType ==
    ASSUME TypeOK, NEW n \in Nodes, NEW p \in Nodes, n # p, NEW th \in Threads,
           NEW ww \in Seq(WeEntries), ProcessEntry(n, p, th, ww)
    PROVE  /\ ListType'
           /\ outbox' \in [Nodes -> SUBSET Messages]
           /\ link' \subseteq {{q[1], q[2]} : q \in Pairs}
           /\ view' \in [Pairs -> BOOLEAN]
           /\ faults' \in 0..MaxFaults
<1> USE BitswapAssumption
<1>1. <<n, p>> \in Pairs /\ <<p, n>> \in Pairs /\ {n, p} \in {{q[1], q[2]} : q \in Pairs}
  BY PairsOf
<1>2. ListType /\ NetType /\ NodeType
  BY TypeOKParts
<1>3. ASSUME Dial(n, p)
      PROVE  /\ link' \subseteq {{q[1], q[2]} : q \in Pairs}
             /\ view' \in [Pairs -> BOOLEAN]
  BY <1>1, <1>2, <1>3, Zenon DEF Dial, NetType
<1>4. CASE view[<<n, p>>] /\ Build(n, p, th, ww) /\ UNCHANGED <<link, view, faults>>
  BY <1>2, <1>4, BuildType DEF NetType, NodeType
<1>5. CASE Dial(n, p) /\ Build(n, p, th, ww) /\ UNCHANGED faults
  BY <1>2, <1>3, <1>5, BuildType DEF NodeType
<1>6. ASSUME weWant' = [weWant EXCEPT ![<<n, p>>] = ww], UNCHANGED <<theyWant, outbox, link, view>>,
             faults' \in 0..MaxFaults
      PROVE  /\ ListType'
             /\ outbox' \in [Nodes -> SUBSET Messages]
             /\ link' \subseteq {{q[1], q[2]} : q \in Pairs}
             /\ view' \in [Pairs -> BOOLEAN]
  <2>1. ListType'
    BY <1>1, <1>2, <1>6 DEF ListType
  <2>2. QED
    BY <1>2, <1>6, <2>1, Zenon DEF NetType
<1>7. faults \in 0..MaxFaults
  BY <1>2 DEF NodeType
<1>8. faults < MaxFaults /\ faults' = faults + 1 => faults' \in 0..MaxFaults
  BY <1>7
<1>9. QED
  BY <1>4, <1>5, <1>6, <1>7, <1>8, Zenon DEF ProcessEntry

(* A node that goes down keeps the types, too.                             *)
LEMMA DownType ==
    ASSUME TypeOK, NEW n \in Nodes, NEW reason \in {"stopped", "no_list", "out_of_bounds"},
           Down(n, reason), faults' = faults, requested' = requested,
           store' \in [Nodes -> SUBSET Cids]
    PROVE  TypeOK'
<1>1. ListType /\ NetType /\ NodeType
  BY TypeOKParts
<1>2. NodeType'
  <2>1. /\ status' = [status EXCEPT ![n] = reason]
        /\ stops' = stops + 1
        /\ wanted' = [wanted EXCEPT ![n] = {}]
        /\ asked' = [asked EXCEPT ![n] = {}]
        /\ current' = [current EXCEPT ![n] = {}]
        /\ providers' = [providers EXCEPT ![n] = {}]
    BY Zenon DEF Down
  <2>2. QED
    BY <1>1, <2>1 DEF NodeType
<1>3. <<>> \in Seq(WeEntries) /\ <<>> \in Seq(TheyEntries) /\ <<>> \in Seq(Messages)
  BY EmptyList, Zenon
<1>4. ListType'
  BY <1>1, <1>3, Zenon DEF Down, ListType
<1>5. NetType'
  <2>1. outbox' \in [Nodes -> SUBSET Messages]
    BY <1>1 DEF Down, NetType
  <2>2. view' \in [Pairs -> BOOLEAN]
    BY <1>1, Zenon DEF Down, NetType
  <2>3. chan' \in [Pairs -> Seq(Messages)]
    BY <1>1, <1>3, Zenon DEF Down, NetType
  <2>4. link' \subseteq {{q[1], q[2]} : q \in Pairs}
    BY <1>1, Zenon DEF Down, NetType
  <2>5. QED
    BY <1>1, <2>1, <2>2, <2>3, <2>4, Zenon DEF NetType
<1>6. QED
  BY <1>2, <1>4, <1>5, TypeOKParts, PTL

(* The head of a channel is a message.                                     *)
LEMMA ArrivedMessage ==
    ASSUME TypeOK, NEW n \in Nodes, NEW p \in Nodes, Arrived(n, p)
    PROVE  /\ <<n, p>> \in Pairs /\ <<p, n>> \in Pairs
           /\ chan[<<p, n>>] \in Seq(Messages) /\ chan[<<p, n>>] # <<>>
           /\ Head(chan[<<p, n>>]) \in Messages
           /\ Head(chan[<<p, n>>]) = chan[<<p, n>>][1]
           /\ Tail(chan[<<p, n>>]) \in Seq(Messages)
           /\ Head(chan[<<p, n>>]).payload \in SUBSET Cids
           /\ Head(chan[<<p, n>>]).wants \in Seq(Cids)
<1>1. <<n, p>> \in Pairs /\ <<p, n>> \in Pairs
  BY PairsOf DEF Arrived
<1>2. chan[<<p, n>>] \in Seq(Messages) /\ chan[<<p, n>>] # <<>>
  BY <1>1 DEF Arrived, TypeOK
<1>3. Head(chan[<<p, n>>]) \in Messages /\ Tail(chan[<<p, n>>]) \in Seq(Messages)
         /\ Head(chan[<<p, n>>]) = chan[<<p, n>>][1]
  BY <1>2
<1>4. QED
  BY <1>1, <1>2, <1>3 DEF Messages


LEMMA TypeStep ==
    ASSUME TypeOK, OthersOnly, [Next]_vars
    PROVE  TypeOK'
<1> USE BitswapAssumption
<1>1. NodeType /\ ListType /\ NetType
  BY TypeOKParts
<1>2. ASSUME NodeType', ListType', NetType' PROVE TypeOK'
  BY <1>2 DEF TypeOK, NodeType, ListType, NetType, WeEntries, TheyEntries
<1>3. ASSUME NEW n \in Nodes, NEW c \in Cids, Want(n, c)
      PROVE  TypeOK'
  <2>1. NodeType'
    BY <1>1, <1>3 DEF Want, NodeType, wantVars
  <2>2. ListType' /\ NetType'
    BY <1>1, <1>3, Zenon DEF Want, ListType, NetType, netVars
  <2>3. QED
    BY <1>2, <2>1, <2>2
<1>4. ASSUME NEW n \in Nodes, NEW c \in Cids, NEW P \in SUBSET (Nodes \ {n}), Search(n, c, P)
      PROVE  TypeOK'
  <2>1. NodeType'
    BY <1>1, <1>4 DEF Search, NodeType, nodeVars
  <2>2. ListType' /\ NetType'
    BY <1>1, <1>4, Zenon DEF Search, ListType, NetType, netVars
  <2>3. QED
    BY <1>2, <2>1, <2>2
<1>5. ASSUME NEW n \in Nodes, SearchDone(n)
      PROVE  TypeOK'
  <2>1. NodeType'
    BY <1>1, <1>5 DEF SearchDone, NodeType, nodeVars
  <2>2. ListType' /\ NetType'
    BY <1>1, <1>5, Zenon DEF SearchDone, ListType, NetType, netVars
  <2>3. QED
    BY <1>2, <2>1, <2>2
<1>6. ASSUME NEW n \in Nodes, Stop(n)
      PROVE  TypeOK'
  BY <1>1, <1>6, DownType DEF Stop, NodeType
<1>7. ASSUME NEW n \in Nodes, Start(n)
      PROVE  TypeOK'
  <2>1. NodeType'
    BY <1>1, <1>7 DEF Start, NodeType, wantVars
  <2>2. ListType' /\ NetType'
    BY <1>1, <1>7, Zenon DEF Start, ListType, NetType, netVars
  <2>3. QED
    BY <1>2, <2>1, <2>2
<1>8. ASSUME NEW n \in Nodes, NEW m \in outbox[n], SendWritten(n, m) \/ SendLost(n, m)
      PROVE  TypeOK'
  <2>1. m \in Messages /\ m.to \in Nodes /\ m.to # n /\ m.wants \in Seq(Cids)
    BY <1>1, <1>8 DEF NetType, OthersOnly, Messages
  <2>2. <<n, m.to>> \in Pairs /\ <<m.to, n>> \in Pairs
          /\ {n, m.to} \in {{q[1], q[2]} : q \in Pairs}
    BY <2>1, PairsOf
  <2>3. outbox' = [outbox EXCEPT ![n] = @ \ {m}]
    BY <1>8, Zenon DEF SendWritten, SendLost
  <2>4. outbox' \in [Nodes -> SUBSET Messages]
    BY <1>1, <2>3 DEF NetType
  <2>5. CASE SendWritten(n, m)
    <3>1. NodeType' /\ ListType'
      BY <1>1, <2>5, Zenon DEF SendWritten, NodeType, ListType, nodeVars, wantVars
    <3>2. link' \subseteq {{q[1], q[2]} : q \in Pairs} /\ view' \in [Pairs -> BOOLEAN]
      BY <1>1, <2>2, <2>5, Zenon DEF SendWritten, Dial, NetType
    <3>3. chan' \in [Pairs -> Seq(Messages)]
      BY <1>1, <2>1, <2>2, <2>5 DEF SendWritten, NetType
    <3>4. requested' \in [Pairs -> SUBSET Cids]
      <4>1. Range(m.wants) \subseteq Cids
        BY <2>1 DEF Range
      <4>2. QED
        BY <1>1, <2>2, <2>5, <4>1 DEF SendWritten, NetType
    <3>5. NetType'
      BY <2>4, <3>2, <3>3, <3>4, Zenon DEF NetType
    <3>6. QED
      BY <1>2, <3>1, <3>5
  <2>6. CASE SendLost(n, m)
    <3>1. faults' \in 0..MaxFaults
      BY <1>1, <2>6 DEF SendLost, NodeType
    <3>2. NodeType' /\ ListType' /\ NetType'
      BY <1>1, <2>4, <2>6, <3>1, Zenon
         DEF SendLost, NodeType, ListType, NetType, nodeVars, wantVars, netVars
    <3>3. QED
      BY <1>2, <3>2
  <2>7. QED
    BY <1>8, <2>5, <2>6
<1>9. ASSUME NEW n \in Nodes, NEW p \in Nodes, AskPeer(n, p)
      PROVE  TypeOK'
  <2>1. n # p /\ current[n] \subseteq Cids
    BY <1>1, <1>9 DEF AskPeer, OthersOnly, NodeType
  <2>2. PICK c \in current[n] : ProcessEntry(n, p, "want",
                  Append(weWant[<<n, p>>], [cid |-> c, sent |-> FALSE]))
    BY <1>9, Zenon DEF AskPeer
  <2>3. weWant[<<n, p>>] \in Seq(WeEntries)
    BY <1>1, <2>1, PairsOf DEF ListType
  <2>4. [cid |-> c, sent |-> FALSE] \in WeEntries
    BY <2>1 DEF WeEntries
  <2>5. Append(weWant[<<n, p>>], [cid |-> c, sent |-> FALSE]) \in Seq(WeEntries)
    BY <2>3, <2>4
  <2>6. "want" \in Threads
    BY DEF Threads
  <2>7. /\ ListType'
        /\ outbox' \in [Nodes -> SUBSET Messages]
        /\ link' \subseteq {{q[1], q[2]} : q \in Pairs}
        /\ view' \in [Pairs -> BOOLEAN]
        /\ faults' \in 0..MaxFaults
    BY <2>1, <2>2, <2>5, <2>6, ProcessEntryType
  <2>8. providers' \in [Nodes -> SUBSET Nodes]
    BY <1>1, <1>9 DEF AskPeer, NodeType
  <2>9. NodeType' /\ NetType'
    BY <1>1, <1>9, <2>7, <2>8, Zenon DEF AskPeer, NodeType, NetType, nodeVars
  <2>10. QED
    BY <1>2, <2>7, <2>9
<1>10. ASSUME NEW n \in Nodes, NEW p \in Nodes, PeerTurn(n, p)
      PROVE  TypeOK'
  <2>1. n # p /\ ProcessEntry(n, p, "peer", weWant[<<n, p>>])
    BY <1>10, Zenon DEF PeerTurn
  <2>2. weWant[<<n, p>>] \in Seq(WeEntries) /\ "peer" \in Threads
    BY <1>1, <2>1, PairsOf DEF ListType, Threads
  <2>3. /\ ListType'
        /\ outbox' \in [Nodes -> SUBSET Messages]
        /\ link' \subseteq {{q[1], q[2]} : q \in Pairs}
        /\ view' \in [Pairs -> BOOLEAN]
        /\ faults' \in 0..MaxFaults
    BY <2>1, <2>2, ProcessEntryType
  <2>4. NodeType' /\ NetType'
    BY <1>1, <1>10, <2>3, Zenon DEF PeerTurn, NodeType, NetType, nodeVars, wantVars
  <2>5. QED
    BY <1>2, <2>3, <2>4
<1>11. ASSUME NEW n \in Nodes, NEW p \in Nodes, Arrived(n, p)
      PROVE  /\ <<n, p>> \in Pairs /\ <<p, n>> \in Pairs
             /\ Tail(chan[<<p, n>>]) \in Seq(Messages)
             /\ Head(chan[<<p, n>>]).wants \in Seq(Cids)
             /\ [store EXCEPT ![n] = @ \cup Head(chan[<<p, n>>]).payload]
                   \in [Nodes -> SUBSET Cids]
  BY <1>1, <1>11, ArrivedMessage DEF NodeType
<1>12. ASSUME NEW n \in Nodes, NEW p \in Nodes, Receive(n, p)
      PROVE  TypeOK'
  <2> DEFINE m == Head(chan[<<p, n>>])
  <2>1. /\ Arrived(n, p)
        /\ chan' = [chan EXCEPT ![<<p, n>>] = Tail(@)]
        /\ store' = [store EXCEPT ![n] = @ \cup m.payload]
        /\ theyWant' = [theyWant EXCEPT ![<<n, p>>] = AdjustCidQueue(@, m.wants)]
        /\ UNCHANGED <<status, wanted, wantVars, weWant, outbox, link, view,
                       requested, faults, stops>>
    BY <1>12, Zenon DEF Receive
  <2>2. NodeType'
    BY <1>1, <1>11, <2>1, Zenon DEF NodeType, wantVars
  <2>3. ListType'
    <3>1. AdjustCidQueue(theyWant[<<n, p>>], m.wants) \in Seq(TheyEntries)
      BY <1>1, <1>11, <2>1, AdjustedList DEF ListType
    <3> HIDE DEF m
    <3>2. QED
      BY <1>1, <2>1, <3>1 DEF ListType
  <2>4. NetType'
    <3>1. chan' \in [Pairs -> Seq(Messages)]
      BY <1>1, <1>11, <2>1 DEF NetType
    <3>2. QED
      BY <1>1, <2>1, <3>1, Zenon DEF NetType
  <2>5. QED
    BY <1>2, <2>2, <2>3, <2>4
<1>13. ASSUME NEW n \in Nodes, NEW p \in Nodes,
              ReceiveWithoutList(n, p) \/ ReceiveOutOfBounds(n, p)
      PROVE  TypeOK'
  <2>1. /\ Arrived(n, p) /\ requested' = requested /\ faults' = faults
        /\ Down(n, "no_list") \/ Down(n, "out_of_bounds")
        /\ store' = [store EXCEPT ![n] = @ \cup Head(chan[<<p, n>>]).payload]
    BY <1>13, Zenon DEF ReceiveWithoutList, ReceiveOutOfBounds
  <2>2. QED
    BY <1>11, <2>1, DownType
<1>14. ASSUME NEW n \in Nodes, NEW p \in Nodes, PeekError(n, p)
      PROVE  TypeOK'
  <2>1. NodeType' /\ ListType'
    BY <1>1, <1>14, Zenon DEF PeekError, NodeType, ListType, nodeVars, wantVars
  <2>2. NetType'
    BY <1>1, <1>14, Zenon DEF PeekError, NetType
  <2>3. QED
    BY <1>2, <2>1, <2>2
<1>15. ASSUME NEW n \in Nodes, NEW p \in Nodes, Break(n, p)
      PROVE  TypeOK'
  <2>1. faults' \in 0..MaxFaults
    BY <1>1, <1>15 DEF Break, NodeType
  <2>2. NodeType' /\ ListType'
    BY <1>1, <1>15, <2>1, Zenon DEF Break, NodeType, ListType, nodeVars, wantVars
  <2>3. chan' \in [Pairs -> Seq(Messages)]
    BY <1>1, <1>15, EmptyList DEF Break, NetType
  <2>4. NetType'
    BY <1>1, <1>15, <2>3, Zenon DEF Break, NetType
  <2>5. QED
    BY <1>2, <2>2, <2>4
<1>16. CASE UNCHANGED vars
  BY <1>16, Zenon DEF vars, TypeOK
<1>17. QED
  BY <1>3, <1>4, <1>5, <1>6, <1>7, <1>8, <1>9, <1>10, <1>12, <1>13, <1>14, <1>15, <1>16
     DEF Next

(* What a call of process_entry does: it builds a message, or it only      *)
(* leaves the list it was given.                                           *)
LEMMA ProcessEntryEffect ==
    ASSUME NEW n \in Nodes, NEW p \in Nodes, NEW th, NEW ww, ProcessEntry(n, p, th, ww)
    PROVE  \/ Build(n, p, th, ww)
           \/ weWant' = [weWant EXCEPT ![<<n, p>>] = ww] /\ UNCHANGED <<theyWant, outbox>>
BY Zenon DEF ProcessEntry

(* The one message that may be new in an outbox.                           *)
LEMMA OutboxGrows ==
    ASSUME TypeOK, NEW n \in Nodes, NEW p \in Nodes, NEW th, NEW ww, ProcessEntry(n, p, th, ww),
           NEW k \in Nodes, NEW m \in outbox'[k]
    PROVE  \/ m \in outbox[k]
           \/ /\ k = n /\ Build(n, p, th, ww)
              /\ m = [by |-> th, to |-> p, payload |-> BlocksTheyWant(n, p), wants |-> Unsent(ww)]
<1> DEFINE new == [by |-> th, to |-> p, payload |-> BlocksTheyWant(n, p), wants |-> Unsent(ww)]
<1>1. \/ UNCHANGED outbox
      \/ /\ Build(n, p, th, ww)
         /\ outbox' = [outbox EXCEPT ![n] = @ \cup
              (IF BlocksTheyWant(n, p) = {} /\ Unsent(ww) = <<>> THEN {} ELSE {new})]
  BY Zenon DEF ProcessEntry, Build
<1> HIDE DEF new
<1>2. m \in outbox[k] \/ (k = n /\ m = new /\ Build(n, p, th, ww))
  BY <1>1 DEF TypeOK
<1>3. QED
  BY <1>2 DEF new

(* The messages of the other actions were there before.                    *)
LEMMA OutboxShrinks ==
    ASSUME TypeOK, [Next]_vars, NEW k \in Nodes, NEW m \in outbox'[k], m \notin outbox[k]
    PROVE  \E n, p \in Nodes : AskPeer(n, p) \/ PeerTurn(n, p)
<1>1. SUFFICES ASSUME ~\E n, p \in Nodes : AskPeer(n, p) \/ PeerTurn(n, p)
               PROVE  FALSE
  OBVIOUS
<1>2. ASSUME NEW n \in Nodes, outbox' = [outbox EXCEPT ![n] = {}] PROVE FALSE
  BY <1>2 DEF TypeOK
<1>3. ASSUME NEW n \in Nodes, NEW o, outbox' = [outbox EXCEPT ![n] = @ \ {o}] PROVE FALSE
  BY <1>3 DEF TypeOK
<1>4. ASSUME UNCHANGED outbox PROVE FALSE
  BY <1>4
<1>5. ASSUME NEW n \in Nodes, NEW c \in Cids, Want(n, c) \/ \E P \in SUBSET (Nodes \ {n}) : Search(n, c, P)
      PROVE  FALSE
  BY <1>4, <1>5, Zenon DEF Want, Search
<1>6. ASSUME NEW n \in Nodes, SearchDone(n) \/ Start(n) PROVE FALSE
  BY <1>4, <1>6, Zenon DEF SearchDone, Start
<1>7. ASSUME NEW n \in Nodes, Stop(n) PROVE FALSE
  BY <1>2, <1>7, Zenon DEF Stop, Down
<1>8. ASSUME NEW n \in Nodes, NEW o \in outbox[n], SendWritten(n, o) \/ SendLost(n, o) PROVE FALSE
  BY <1>3, <1>8, Zenon DEF SendWritten, SendLost
<1>9. ASSUME NEW n \in Nodes, NEW p \in Nodes, Receive(n, p) \/ PeekError(n, p) \/ Break(n, p) PROVE FALSE
  BY <1>4, <1>9, Zenon DEF Receive, PeekError, Break
<1>10. ASSUME NEW n \in Nodes, NEW p \in Nodes, ReceiveWithoutList(n, p) \/ ReceiveOutOfBounds(n, p)
      PROVE  FALSE
  BY <1>2, <1>10, Zenon DEF ReceiveWithoutList, ReceiveOutOfBounds, Down
<1>11. CASE UNCHANGED vars
  BY <1>4, <1>11, Zenon DEF vars
<1>12. QED
  BY <1>1, <1>5, <1>6, <1>7, <1>8, <1>9, <1>10, <1>11 DEF Next

(* The two places process_entry is called from, by a thread that has no    *)
(* message to send, and the list they give it.                             *)
Calls(n, p, th, ww) ==
    /\ n # p
    /\ ~Busy(n, th)
    /\ \/ /\ th = "want"
          /\ \E c \in current[n] :
                ww = Append(weWant[<<n, p>>], [cid |-> c, sent |-> FALSE])
       \/ /\ th = "peer"
          /\ ww = weWant[<<n, p>>]

(* So a message that is new was built in one of the two places.            *)
LEMMA NewMessage ==
    ASSUME TypeOK, OthersOnly, [Next]_vars, NEW k \in Nodes, NEW m \in outbox'[k], m \notin outbox[k]
    PROVE  \E p \in Nodes, th \in Threads : \E ww \in Seq(WeEntries) :
             /\ Calls(k, p, th, ww)
             /\ Build(k, p, th, ww)
             /\ m = [by |-> th, to |-> p, payload |-> BlocksTheyWant(k, p), wants |-> Unsent(ww)]
             /\ UNCHANGED <<requested, wanted, stops>>
<1>1. PICK n \in Nodes, p \in Nodes : AskPeer(n, p) \/ PeerTurn(n, p)
  BY OutboxShrinks
<1>2. CASE AskPeer(n, p)
  <2>1. PICK c \in current[n] : ProcessEntry(n, p, "want",
                  Append(weWant[<<n, p>>], [cid |-> c, sent |-> FALSE]))
    BY <1>2, Zenon DEF AskPeer
  <2> DEFINE ww == Append(weWant[<<n, p>>], [cid |-> c, sent |-> FALSE])
  <2>2. n # p /\ c \in Cids
    BY <1>2, <2>1 DEF AskPeer, OthersOnly, TypeOK
  <2>3. [cid |-> c, sent |-> FALSE] \in WeEntries /\ weWant[<<n, p>>] \in Seq(WeEntries)
    BY <2>2, PairsOf DEF TypeOK, WeEntries
  <2>4. ww \in Seq(WeEntries)
    BY <2>3
  <2> HIDE DEF ww
  <2>5. k = n /\ Build(n, p, "want", ww)
         /\ m = [by |-> "want", to |-> p, payload |-> BlocksTheyWant(n, p), wants |-> Unsent(ww)]
    BY <2>1, OutboxGrows, Zenon DEF ww
  <2>6. UNCHANGED <<requested, wanted, stops>>
    BY <1>2, Zenon DEF AskPeer, nodeVars
  <2>7. "want" \in Threads
    BY DEF Threads
  <2>8. Calls(n, p, "want", ww)
    BY <1>2, <2>1, <2>2, Zenon DEF AskPeer, Calls, ww
  <2>9. QED
    BY <2>4, <2>5, <2>6, <2>7, <2>8, Zenon
<1>3. CASE PeerTurn(n, p)
  <2> DEFINE ww == weWant[<<n, p>>]
  <2>1. n # p /\ ProcessEntry(n, p, "peer", ww)
    BY <1>3, Zenon DEF PeerTurn
  <2>2. ww \in Seq(WeEntries)
    BY <2>1, PairsOf DEF TypeOK, WeEntries
  <2> HIDE DEF ww
  <2>3. k = n /\ Build(n, p, "peer", ww)
         /\ m = [by |-> "peer", to |-> p, payload |-> BlocksTheyWant(n, p), wants |-> Unsent(ww)]
    BY <2>1, OutboxGrows, Zenon
  <2>4. UNCHANGED <<requested, wanted, stops>>
    BY <1>3, Zenon DEF PeerTurn, nodeVars
  <2>5. "peer" \in Threads
    BY DEF Threads
  <2>6. Calls(n, p, "peer", ww)
    BY <1>3, <2>1, Zenon DEF PeerTurn, Calls, ww
  <2>7. QED
    BY <2>2, <2>3, <2>4, <2>5, <2>6, Zenon
<1>4. QED
  BY <1>1, <1>2, <1>3

(* Nobody asks himself.                                                    *)
LEMMA OthersStep ==
    ASSUME TypeOK, OthersOnly, [Next]_vars
    PROVE  OthersOnly'
<1>1. ASSUME NEW k \in Nodes, NEW m \in outbox'[k] PROVE m.to # k
  <2>1. CASE m \in outbox[k]
    BY <2>1 DEF OthersOnly
  <2>2. CASE m \notin outbox[k]
    <3>1. PICK p \in Nodes, th \in Threads : \E ww \in Seq(WeEntries) :
             /\ Calls(k, p, th, ww)
             /\ m = [by |-> th, to |-> p, payload |-> BlocksTheyWant(k, p), wants |-> Unsent(ww)]
      BY <2>2, NewMessage
    <3>2. m.to = p /\ k # p
      BY <3>1 DEF Calls
    <3>3. QED
      BY <3>2
  <2>3. QED
    BY <2>1, <2>2
<1>2. \A k \in Nodes : k \notin providers'[k]
  <2>1. ASSUME NEW n \in Nodes, NEW S, n \notin S, providers' = [providers EXCEPT ![n] = S]
        PROVE  \A k \in Nodes : k \notin providers'[k]
    BY <2>1 DEF TypeOK, OthersOnly
  <2>2. ASSUME UNCHANGED providers PROVE \A k \in Nodes : k \notin providers'[k]
    BY <2>2 DEF OthersOnly
  <2>3. ASSUME NEW n \in Nodes, NEW c \in Cids,
               Want(n, c) \/ \E P \in SUBSET (Nodes \ {n}) : Search(n, c, P)
        PROVE  \A k \in Nodes : k \notin providers'[k]
    BY <2>1, <2>2, <2>3, Zenon DEF Want, Search, wantVars
  <2>4. ASSUME NEW n \in Nodes, SearchDone(n) \/ Start(n) \/ Stop(n)
                  \/ \E m \in outbox[n] : SendWritten(n, m) \/ SendLost(n, m)
        PROVE  \A k \in Nodes : k \notin providers'[k]
    BY <2>1, <2>2, <2>4, Zenon DEF SearchDone, Start, Stop, Down, SendWritten, SendLost, wantVars
  <2>5. ASSUME NEW n \in Nodes, NEW p \in Nodes, AskPeer(n, p)
        PROVE  \A k \in Nodes : k \notin providers'[k]
    <3>1. n \notin providers[n] \ {p}
      BY DEF OthersOnly
    <3>2. QED
      BY <2>1, <2>5, <3>1, Zenon DEF AskPeer
  <2>6. ASSUME NEW n \in Nodes, NEW p \in Nodes,
               \/ PeerTurn(n, p) \/ Receive(n, p) \/ ReceiveWithoutList(n, p)
               \/ ReceiveOutOfBounds(n, p) \/ PeekError(n, p) \/ Break(n, p)
        PROVE  \A k \in Nodes : k \notin providers'[k]
    BY <2>1, <2>2, <2>6, Zenon
       DEF PeerTurn, Receive, ReceiveWithoutList, ReceiveOutOfBounds, Down, PeekError, Break, wantVars
  <2>7. CASE UNCHANGED vars
    BY <2>2, <2>7, Zenon DEF vars
  <2>8. QED
    BY <2>3, <2>4, <2>5, <2>6, <2>7 DEF Next
<1>3. QED
  BY <1>1, <1>2 DEF OthersOnly

-----------------------------------------------------------------------------
(* Only what was requested travels                                         *)

(* The cids a node has on its list for a peer, the blocks it has put into  *)
(* a message for it and the blocks under way to it are ones that the peer  *)
(* has written a request for; and so is every cid of a request under way.  *)
ListsRequested ==
    \A q \in Pairs : \A i \in 1..Len(theyWant[q]) : theyWant[q][i].cid \in requested[Back(q)]

OutboxRequested ==
    \A n \in Nodes : \A m \in outbox[n] : m.payload \subseteq requested[<<m.to, n>>]

WireRequested ==
    \A q \in Pairs : \A i \in 1..Len(chan[q]) :
        /\ chan[q][i].payload \subseteq requested[Back(q)]
        /\ Range(chan[q][i].wants) \subseteq requested[q]

LEMMA BackPair == ASSUME NEW q \in Pairs PROVE Back(q) \in Pairs /\ q = <<q[1], q[2]>>
                      /\ q[1] \in Nodes /\ q[2] \in Nodes /\ q[1] # q[2]
BY DEF Back, Pairs

(* A message is on a channel because it was, or because it was sent.       *)
LEMMA NewOnWire ==
    ASSUME TypeOK, OthersOnly, [Next]_vars, NEW q \in Pairs, NEW i \in 1..Len(chan'[q])
    PROVE  \/ \E j \in 1..Len(chan[q]) : chan'[q][i] = chan[q][j]
           \/ /\ chan'[q][i] \in outbox[q[1]]
              /\ chan'[q][i].to = q[2]
              /\ requested' = [requested EXCEPT ![q] = @ \cup Range(chan'[q][i].wants)]
<1> DEFINE Old == \E j \in 1..Len(chan[q]) : chan'[q][i] = chan[q][j]
           New == /\ chan'[q][i] \in outbox[q[1]]
                  /\ chan'[q][i].to = q[2]
                  /\ requested' = [requested EXCEPT ![q] = @ \cup Range(chan'[q][i].wants)]
<1>0. SUFFICES ASSUME ~Old, ~New PROVE FALSE
  OBVIOUS
<1>14. chan \in [Pairs -> Seq(Messages)]
  BY DEF TypeOK
<1>1. ASSUME UNCHANGED chan PROVE FALSE
  BY <1>0, <1>14, <1>1
<1>2. ASSUME chan'[q] \in {<<>>, chan[q]} PROVE FALSE
  BY <1>0, <1>14, <1>2
<1>3. ASSUME NEW n \in Nodes, Down(n, "stopped") \/ Down(n, "no_list") \/ Down(n, "out_of_bounds")
      PROVE  FALSE
  <2>1. chan' = [r \in Pairs |-> IF n \in {r[1], r[2]} THEN <<>> ELSE chan[r]]
    BY <1>3, Zenon DEF Down
  <2>2. chan'[q] \in {<<>>, chan[q]}
    BY <2>1, Zenon
  <2>3. QED
    BY <1>2, <2>2
<1> HIDE DEF Old, New
<1>4. ASSUME NEW n \in Nodes, NEW c \in Cids,
             Want(n, c) \/ \E P \in SUBSET (Nodes \ {n}) : Search(n, c, P)
      PROVE  FALSE
  BY <1>1, <1>4, Zenon DEF Want, Search, netVars
<1>5. ASSUME NEW n \in Nodes, SearchDone(n) \/ Start(n) \/ Stop(n)
      PROVE  FALSE
  BY <1>1, <1>3, <1>5, Zenon DEF SearchDone, Start, Stop, netVars
<1>6. ASSUME NEW n \in Nodes, NEW m \in outbox[n], SendLost(n, m)
      PROVE  FALSE
  BY <1>1, <1>6, Zenon DEF SendLost, netVars
<1>7. ASSUME NEW n \in Nodes, NEW m \in outbox[n], SendWritten(n, m)
      PROVE  FALSE
  <2>1. /\ chan' = [chan EXCEPT ![<<n, m.to>>] = Append(@, m)]
        /\ requested' = [requested EXCEPT ![<<n, m.to>>] = @ \cup Range(m.wants)]
    BY <1>7, Zenon DEF SendWritten
  <2>2. CASE q = <<n, m.to>>
    <3>1. chan'[q] = Append(chan[q], m) /\ chan[q] \in Seq(Messages)
      BY <1>14, <2>1, <2>2
    <3>2. CASE i \in 1..Len(chan[q])
      BY <1>0, <3>1, <3>2 DEF Old
    <3>3. CASE i \notin 1..Len(chan[q])
      <4>1. chan'[q][i] = m
        BY <3>1, <3>3
      <4>2. q[1] = n /\ q[2] = m.to
        BY <2>2
      <4>3. QED
        BY <1>0, <2>1, <2>2, <4>1, <4>2, Zenon DEF New
    <3>4. QED
      BY <3>2, <3>3
  <2>3. CASE q # <<n, m.to>>
    <3>1. chan'[q] = chan[q]
      BY <1>14, <2>1, <2>3
    <3>2. QED
      BY <1>2, <3>1
  <2>4. QED
    BY <2>2, <2>3
<1>8. ASSUME NEW n \in Nodes, NEW p \in Nodes, AskPeer(n, p) \/ PeerTurn(n, p) \/ PeekError(n, p)
      PROVE  FALSE
  BY <1>1, <1>8, Zenon DEF AskPeer, PeerTurn, PeekError
<1>9. ASSUME NEW n \in Nodes, NEW p \in Nodes, Receive(n, p)
      PROVE  FALSE
  <2>1. chan' = [chan EXCEPT ![<<p, n>>] = Tail(@)] /\ Arrived(n, p)
    BY <1>9, Zenon DEF Receive
  <2>2. CASE q = <<p, n>>
    <3>1. chan'[q] = Tail(chan[q]) /\ chan[q] \in Seq(Messages) /\ chan[q] # <<>>
      BY <1>14, <2>1, <2>2 DEF Arrived
    <3>2. chan'[q][i] = chan[q][i + 1] /\ i + 1 \in 1..Len(chan[q])
      BY <3>1
    <3>3. QED
      BY <1>0, <3>2 DEF Old
  <2>3. CASE q # <<p, n>>
    BY <1>14, <1>2, <2>1, <2>3
  <2>4. QED
    BY <2>2, <2>3
<1>10. ASSUME NEW n \in Nodes, NEW p \in Nodes, ReceiveWithoutList(n, p) \/ ReceiveOutOfBounds(n, p)
      PROVE  FALSE
  BY <1>3, <1>10, Zenon DEF ReceiveWithoutList, ReceiveOutOfBounds
<1>11. ASSUME NEW n \in Nodes, NEW p \in Nodes, Break(n, p)
      PROVE  FALSE
  <2>1. chan' = [chan EXCEPT ![<<n, p>>] = <<>>, ![<<p, n>>] = <<>>]
    BY <1>11, Zenon DEF Break
  <2>2. chan'[q] \in {<<>>, chan[q]}
    BY <1>14, <2>1
  <2>3. QED
    BY <1>2, <2>2
<1>12. CASE UNCHANGED vars
  BY <1>1, <1>12, Zenon DEF vars
<1>13. QED
  BY <1>4, <1>5, <1>6, <1>7, <1>8, <1>9, <1>10, <1>11, <1>12 DEF Next


(* Only send_message writes requests, and what was written stays written.  *)
LEMMA RequestedChanges ==
    ASSUME [Next]_vars
    PROVE  \/ requested' = requested
           \/ \E n \in Nodes : \E m \in outbox[n] : SendWritten(n, m)
<1>1. SUFFICES ASSUME requested' # requested, ~\E n \in Nodes : \E m \in outbox[n] : SendWritten(n, m)
               PROVE  FALSE
  OBVIOUS
<1>2. ASSUME NEW n \in Nodes, NEW c \in Cids,
             Want(n, c) \/ \E P \in SUBSET (Nodes \ {n}) : Search(n, c, P)
      PROVE  FALSE
  BY <1>1, <1>2, Zenon DEF Want, Search, netVars
<1>3. ASSUME NEW n \in Nodes, SearchDone(n) \/ Start(n) \/ Stop(n)
                \/ \E m \in outbox[n] : SendLost(n, m)
      PROVE  FALSE
  BY <1>1, <1>3, Zenon DEF SearchDone, Start, Stop, SendLost, netVars
<1>4. ASSUME NEW n \in Nodes, NEW p \in Nodes,
             \/ AskPeer(n, p) \/ PeerTurn(n, p) \/ Receive(n, p) \/ ReceiveWithoutList(n, p)
             \/ ReceiveOutOfBounds(n, p) \/ PeekError(n, p) \/ Break(n, p)
      PROVE  FALSE
  BY <1>1, <1>4, Zenon
     DEF AskPeer, PeerTurn, Receive, ReceiveWithoutList, ReceiveOutOfBounds, PeekError, Break
<1>5. CASE UNCHANGED vars
  BY <1>1, <1>5, Zenon DEF vars
<1>6. QED
  BY <1>1, <1>2, <1>3, <1>4, <1>5 DEF Next

LEMMA RequestedGrows ==
    ASSUME TypeOK, [Next]_vars, NEW q \in Pairs
    PROVE  requested[q] \subseteq requested'[q]
<1>1. ASSUME NEW n \in Nodes, NEW m \in outbox[n], SendWritten(n, m)
      PROVE  requested[q] \subseteq requested'[q]
  <2>1. requested' = [requested EXCEPT ![<<n, m.to>>] = @ \cup Range(m.wants)]
    BY <1>1, Zenon DEF SendWritten
  <2>2. QED
    BY <2>1, Zenon DEF TypeOK
<1>2. QED
  BY <1>1, RequestedChanges

(* A cid is on a node's list for a peer because it was, or because it is   *)
(* the first one of a message that arrived.                                *)
LEMMA NewOnList ==
    ASSUME TypeOK, OthersOnly, [Next]_vars, NEW q \in Pairs, NEW i \in 1..Len(theyWant'[q])
    PROVE  \/ \E j \in 1..Len(theyWant[q]) : theyWant'[q][i].cid = theyWant[q][j].cid
           \/ /\ chan[Back(q)] # <<>>
              /\ theyWant'[q][i].cid \in Range(chan[Back(q)][1].wants)
<1> DEFINE Old == \E j \in 1..Len(theyWant[q]) : theyWant'[q][i].cid = theyWant[q][j].cid
           New == /\ chan[Back(q)] # <<>>
                  /\ theyWant'[q][i].cid \in Range(chan[Back(q)][1].wants)
<1>1. SUFFICES ASSUME ~Old, ~New PROVE FALSE
  OBVIOUS
<1>2. theyWant \in [Pairs -> Seq(TheyEntries)]
  BY DEF TypeOK, TheyEntries
<1>3. ASSUME theyWant'[q] \in {<<>>, theyWant[q]} PROVE FALSE
  BY <1>1, <1>2, <1>3
<1>4. ASSUME UNCHANGED theyWant PROVE FALSE
  BY <1>3, <1>4
<1>5. ASSUME NEW n \in Nodes, Down(n, "stopped") \/ Down(n, "no_list") \/ Down(n, "out_of_bounds")
      PROVE  FALSE
  <2>1. theyWant' = [r \in Pairs |-> IF r[1] = n THEN <<>> ELSE theyWant[r]]
    BY <1>5, Zenon DEF Down
  <2>2. theyWant'[q] \in {<<>>, theyWant[q]}
    BY <2>1, Zenon
  <2>3. QED
    BY <1>3, <2>2
<1>6. ASSUME NEW n \in Nodes, NEW p \in Nodes, NEW th, NEW ww, ProcessEntry(n, p, th, ww)
      PROVE  FALSE
  <2>1. CASE UNCHANGED theyWant
    BY <1>4, <2>1
  <2>2. CASE theyWant' = [theyWant EXCEPT ![<<n, p>>] = MarkServed(@, BlocksTheyWant(n, p))]
    <3>1. CASE q = <<n, p>>
      <4>1. theyWant'[q] = MarkServed(theyWant[q], BlocksTheyWant(n, p))
        BY <1>2, <2>2, <3>1, Zenon
      <4>2. theyWant[q] \in Seq(TheyEntries)
        BY <1>2
      <4>3. Len(theyWant'[q]) = Len(theyWant[q])
              /\ \A j \in 1..Len(theyWant[q]) : theyWant'[q][j].cid = theyWant[q][j].cid
        <5>1. \A list \in Seq(TheyEntries) :
                LET marked == MarkServed(list, BlocksTheyWant(n, p))
                IN  /\ Len(marked) = Len(list)
                    /\ \A j \in 1..Len(list) : marked[j].cid = list[j].cid
          BY MarkServedList
        <5>2. QED
          BY <4>1, <4>2, <5>1, Zenon
      <4>4. i \in 1..Len(theyWant[q])
        BY <4>3, Zenon
      <4>5. QED
        BY <1>1, <4>3, <4>4, Zenon
    <3>2. CASE q # <<n, p>>
      BY <1>2, <1>3, <2>2, <3>2
    <3>3. QED
      BY <3>1, <3>2
  <2>3. QED
    BY <1>6, <2>1, <2>2, ProcessEntryEffect, Zenon DEF Build
<1>7. ASSUME NEW n \in Nodes, NEW c \in Cids,
             Want(n, c) \/ \E P \in SUBSET (Nodes \ {n}) : Search(n, c, P)
      PROVE  FALSE
  BY <1>4, <1>7, Zenon DEF Want, Search
<1>8. ASSUME NEW n \in Nodes, SearchDone(n) \/ Start(n) \/ Stop(n)
                \/ \E m \in outbox[n] : SendWritten(n, m) \/ SendLost(n, m)
      PROVE  FALSE
  BY <1>4, <1>5, <1>8, Zenon DEF SearchDone, Start, Stop, SendWritten, SendLost
<1>9. ASSUME NEW n \in Nodes, NEW p \in Nodes, AskPeer(n, p) \/ PeerTurn(n, p)
      PROVE  FALSE
  BY <1>6, <1>9, Zenon DEF AskPeer, PeerTurn
<1>10. ASSUME NEW n \in Nodes, NEW p \in Nodes, Receive(n, p)
      PROVE  FALSE
  <2> DEFINE m == Head(chan[<<p, n>>])
  <2>1. theyWant' = [theyWant EXCEPT ![<<n, p>>] = AdjustCidQueue(@, m.wants)] /\ Arrived(n, p)
    BY <1>10, Zenon DEF Receive
  <2>2. m.wants \in Seq(Cids) /\ m = chan[<<p, n>>][1] /\ chan[<<p, n>>] # <<>>
    BY <2>1, ArrivedMessage
  <2> HIDE DEF m
  <2>3. CASE q # <<n, p>>
    BY <1>2, <1>3, <2>1, <2>3
  <2>4. CASE q = <<n, p>>
    <3>1. theyWant'[q] = AdjustCidQueue(theyWant[q], m.wants) /\ theyWant[q] \in Seq(TheyEntries)
      BY <1>2, <2>1, <2>4
    <3>2. CASE theyWant[q] # <<>> \/ m.wants = <<>>
      BY <1>3, <2>2, <3>1, <3>2, AdjustedList
    <3>3. CASE theyWant[q] = <<>> /\ m.wants # <<>>
      <4>1. theyWant'[q] = <<[cid |-> m.wants[1], cancel |-> FALSE]>>
        BY <2>2, <3>1, <3>3, AdjustedList, Zenon
      <4>2. theyWant'[q][i].cid = m.wants[1]
        <5>1. i = 1
          BY <4>1
        <5>2. QED
          BY <4>1, <5>1
      <4>3. m.wants[1] \in Range(m.wants)
        BY <2>2, <3>3, FirstInRange
      <4>4. Back(q) = <<p, n>>
        BY <2>4 DEF Back
      <4>5. QED
        BY <1>1, <2>2, <4>2, <4>3, <4>4, Zenon
    <3>4. QED
      BY <3>2, <3>3
  <2>5. QED
    BY <2>3, <2>4
<1>11. ASSUME NEW n \in Nodes, NEW p \in Nodes, ReceiveWithoutList(n, p) \/ ReceiveOutOfBounds(n, p)
      PROVE  FALSE
  BY <1>5, <1>11, Zenon DEF ReceiveWithoutList, ReceiveOutOfBounds
<1>12. ASSUME NEW n \in Nodes, NEW p \in Nodes, PeekError(n, p) \/ Break(n, p)
      PROVE  FALSE
  BY <1>4, <1>12, Zenon DEF PeekError, Break
<1>13. CASE UNCHANGED vars
  BY <1>4, <1>13, Zenon DEF vars
<1>14. QED
  BY <1>7, <1>8, <1>9, <1>10, <1>11, <1>12, <1>13 DEF Next

Requested == ListsRequested /\ OutboxRequested /\ WireRequested

LEMMA RequestedStep ==
    ASSUME TypeOK, OthersOnly, Requested, [Next]_vars
    PROVE  Requested'
<1>1. ListsRequested'
  <2>1. ASSUME NEW q \in Pairs, NEW i \in 1..Len(theyWant'[q])
        PROVE  theyWant'[q][i].cid \in requested'[Back(q)]
    <3>1. Back(q) \in Pairs /\ requested[Back(q)] \subseteq requested'[Back(q)]
      BY BackPair, RequestedGrows
    <3>2. CASE \E j \in 1..Len(theyWant[q]) : theyWant'[q][i].cid = theyWant[q][j].cid
      BY <3>1, <3>2 DEF Requested, ListsRequested
    <3>3. CASE chan[Back(q)] # <<>> /\ theyWant'[q][i].cid \in Range(chan[Back(q)][1].wants)
      <4>1. chan[Back(q)] \in Seq(Messages)
        BY <3>1 DEF TypeOK
      <4>2. 1 \in 1..Len(chan[Back(q)])
        BY <3>3, <4>1
      <4>3. QED
        BY <3>1, <3>3, <4>2 DEF Requested, WireRequested
    <3>4. QED
      BY <3>2, <3>3, NewOnList
  <2>2. QED
    BY <2>1 DEF ListsRequested
<1>2. OutboxRequested'
  <2>1. ASSUME NEW n \in Nodes, NEW m \in outbox'[n]
        PROVE  m.payload \subseteq requested'[<<m.to, n>>]
    <3>1. CASE m \in outbox[n]
      <4>1. m \in Messages
        BY <3>1 DEF TypeOK
      <4>2. m.to \in Nodes /\ m.to # n
        BY <3>1, <4>1 DEF OthersOnly, Messages
      <4>3. <<m.to, n>> \in Pairs
        BY <4>2, PairsOf
      <4>4. requested[<<m.to, n>>] \subseteq requested'[<<m.to, n>>]
        BY <4>3, RequestedGrows
      <4>5. QED
        BY <3>1, <4>4 DEF Requested, OutboxRequested
    <3>2. CASE m \notin outbox[n]
      <4>0. PICK p \in Nodes, th \in Threads : \E ww \in Seq(WeEntries) :
               /\ Calls(n, p, th, ww)
               /\ m = [by |-> th, to |-> p, payload |-> BlocksTheyWant(n, p), wants |-> Unsent(ww)]
               /\ UNCHANGED requested
        BY <3>2, NewMessage, Zenon
      <4>1. n # p /\ m.to = p /\ m.payload = BlocksTheyWant(n, p) /\ requested' = requested
        BY <4>0 DEF Calls
      <4>2. <<n, p>> \in Pairs /\ Back(<<n, p>>) = <<p, n>>
        BY <4>1, PairsOf DEF Back
      <4>3. BlocksTheyWant(n, p) \subseteq {theyWant[<<n, p>>][i].cid : i \in 1..Len(theyWant[<<n, p>>])}
        BY Zenon DEF BlocksTheyWant, Range
      <4>4. \A i \in 1..Len(theyWant[<<n, p>>]) : theyWant[<<n, p>>][i].cid \in requested[<<p, n>>]
        BY <4>2 DEF Requested, ListsRequested
      <4>5. BlocksTheyWant(n, p) \subseteq requested[<<p, n>>]
        BY <4>3, <4>4, Zenon
      <4>6. QED
        BY <4>1, <4>5
    <3>3. QED
      BY <3>1, <3>2
  <2>2. QED
    BY <2>1 DEF OutboxRequested
<1>3. WireRequested'
  <2>1. ASSUME NEW q \in Pairs, NEW i \in 1..Len(chan'[q])
        PROVE  /\ chan'[q][i].payload \subseteq requested'[Back(q)]
               /\ Range(chan'[q][i].wants) \subseteq requested'[q]
    <3>1. /\ Back(q) \in Pairs /\ requested[Back(q)] \subseteq requested'[Back(q)]
          /\ requested[q] \subseteq requested'[q]
      BY BackPair, RequestedGrows
    <3>2. CASE \E j \in 1..Len(chan[q]) : chan'[q][i] = chan[q][j]
      BY <3>1, <3>2 DEF Requested, WireRequested
    <3>3. CASE /\ chan'[q][i] \in outbox[q[1]]
               /\ chan'[q][i].to = q[2]
               /\ requested' = [requested EXCEPT ![q] = @ \cup Range(chan'[q][i].wants)]
      <4>1. q[1] \in Nodes /\ Back(q) = <<chan'[q][i].to, q[1]>>
        BY <3>3, BackPair DEF Back
      <4>2. chan'[q][i].payload \subseteq requested[Back(q)]
        BY <3>3, <4>1 DEF Requested, OutboxRequested
      <4>3. Range(chan'[q][i].wants) \subseteq requested'[q]
        BY <3>3 DEF TypeOK
      <4>4. QED
        BY <3>1, <4>2, <4>3
    <3>4. QED
      BY <3>2, <3>3, NewOnWire
  <2>2. QED
    BY <2>1 DEF WireRequested
<1>4. QED
  BY <1>1, <1>2, <1>3 DEF Requested

-----------------------------------------------------------------------------
(* HasBlock finds its want list in the first life of the nodes             *)

(* Until a node goes down, whatever it asks of anybody it still wants.     *)
FirstLife ==
    stops = 0 =>
        /\ \A n \in Nodes : status[n] = "up" /\ current[n] \subseteq wanted[n]
        /\ \A q \in Pairs : \A i \in 1..Len(weWant[q]) : weWant[q][i].cid \in wanted[q[1]]
        /\ \A n \in Nodes : \A m \in outbox[n] : Range(m.wants) \subseteq wanted[n]
        /\ \A q \in Pairs : requested[q] \subseteq wanted[q[1]]

(* What a step does while no node has gone down.                           *)
LEMMA StillFirst ==
    ASSUME TypeOK, FirstLife, [Next]_vars, stops' = 0
    PROVE  /\ stops = 0
           /\ \A n \in Nodes, reason \in {"stopped", "no_list", "out_of_bounds"} : ~Down(n, reason)
           /\ \A n \in Nodes : wanted[n] \subseteq wanted'[n]
           /\ \A n \in Nodes : status'[n] = "up" /\ current'[n] \subseteq wanted'[n]
<1>1. ASSUME NEW n \in Nodes, NEW reason, Down(n, reason) PROVE FALSE
  <2>1. stops' = stops + 1 /\ stops \in Nat
    BY <1>1, Zenon DEF Down, TypeOK
  <2>2. QED
    BY <2>1
<1>2. stops' = stops
  <2>1. ASSUME NEW n \in Nodes, NEW c \in Cids,
               Want(n, c) \/ \E P \in SUBSET (Nodes \ {n}) : Search(n, c, P)
        PROVE  stops' = stops
    BY <2>1, Zenon DEF Want, Search
  <2>2. ASSUME NEW n \in Nodes, SearchDone(n) \/ Start(n) \/ Stop(n)
                  \/ \E m \in outbox[n] : SendWritten(n, m) \/ SendLost(n, m)
        PROVE  stops' = stops
    BY <1>1, <2>2, Zenon DEF SearchDone, Start, Stop, SendWritten, SendLost
  <2>3. ASSUME NEW n \in Nodes, NEW p \in Nodes,
               \/ AskPeer(n, p) \/ PeerTurn(n, p) \/ Receive(n, p) \/ ReceiveWithoutList(n, p)
               \/ ReceiveOutOfBounds(n, p) \/ PeekError(n, p) \/ Break(n, p)
        PROVE  stops' = stops
    BY <1>1, <2>3, Zenon
       DEF AskPeer, PeerTurn, Receive, ReceiveWithoutList, ReceiveOutOfBounds, PeekError, Break
  <2>4. CASE UNCHANGED vars
    BY <2>4, Zenon DEF vars
  <2>5. QED
    BY <2>1, <2>2, <2>3, <2>4 DEF Next
<1>3. \A n \in Nodes : status[n] = "up" /\ current[n] \subseteq wanted[n]
  BY <1>2 DEF FirstLife
<1> DEFINE Kept == /\ \A n \in Nodes : wanted[n] \subseteq wanted'[n]
                   /\ \A n \in Nodes : status'[n] = "up" /\ current'[n] \subseteq wanted'[n]
<1>4. SUFFICES ASSUME ~Kept PROVE FALSE
  BY <1>1, <1>2
<1>5. ASSUME UNCHANGED <<status, wanted, current>> PROVE FALSE
  BY <1>3, <1>4, <1>5
<1>6. ASSUME NEW n \in Nodes, NEW c \in Cids, Want(n, c)
      PROVE  FALSE
  <2>1. wanted' = [wanted EXCEPT ![n] = @ \cup {c}] /\ UNCHANGED <<status, current>>
    BY <1>6, Zenon DEF Want, wantVars
  <2>2. QED
    BY <1>3, <1>4, <2>1 DEF TypeOK
<1>7. ASSUME NEW n \in Nodes, NEW c \in Cids, NEW P, Search(n, c, P)
      PROVE  FALSE
  <2>1. current' = [current EXCEPT ![n] = {c}] /\ UNCHANGED <<status, wanted>> /\ c \in wanted[n]
    BY <1>7, Zenon DEF Search, nodeVars
  <2>2. QED
    BY <1>3, <1>4, <2>1 DEF TypeOK
<1>8. ASSUME NEW n \in Nodes, SearchDone(n)
      PROVE  FALSE
  <2>1. current' = [current EXCEPT ![n] = {}] /\ UNCHANGED <<status, wanted>>
    BY <1>8, Zenon DEF SearchDone, nodeVars
  <2>2. QED
    BY <1>3, <1>4, <2>1 DEF TypeOK
<1> HIDE DEF Kept
<1>9. ASSUME NEW n \in Nodes, Start(n) \/ Stop(n)
      PROVE  FALSE
  BY <1>1, <1>3, <1>9, Zenon DEF Start, Stop, Up
<1>10. ASSUME NEW n \in Nodes, NEW m \in outbox[n], SendWritten(n, m) \/ SendLost(n, m)
      PROVE  FALSE
  BY <1>5, <1>10, Zenon DEF SendWritten, SendLost, nodeVars, wantVars
<1>11. ASSUME NEW n \in Nodes, NEW p \in Nodes,
              \/ AskPeer(n, p) \/ PeerTurn(n, p) \/ Receive(n, p) \/ ReceiveWithoutList(n, p)
              \/ ReceiveOutOfBounds(n, p) \/ PeekError(n, p) \/ Break(n, p)
      PROVE  FALSE
  BY <1>1, <1>5, <1>11, Zenon
     DEF AskPeer, PeerTurn, Receive, ReceiveWithoutList, ReceiveOutOfBounds, PeekError, Break,
         nodeVars, wantVars
<1>12. CASE UNCHANGED vars
  BY <1>5, <1>12, Zenon DEF vars
<1>13. QED
  BY <1>6, <1>7, <1>8, <1>9, <1>10, <1>11, <1>12 DEF Next

(* A cid a node wants of a peer is one it wanted of it before, or the one  *)
(* its want thread works on.                                               *)
LEMMA NewWant ==
    ASSUME TypeOK, OthersOnly, [Next]_vars, NEW q \in Pairs, NEW i \in 1..Len(weWant'[q])
    PROVE  \/ \E j \in 1..Len(weWant[q]) : weWant'[q][i].cid = weWant[q][j].cid
           \/ weWant'[q][i].cid \in current[q[1]]
<1> DEFINE Old == \E j \in 1..Len(weWant[q]) : weWant'[q][i].cid = weWant[q][j].cid
           New == weWant'[q][i].cid \in current[q[1]]
<1>1. SUFFICES ASSUME ~Old, ~New PROVE FALSE
  OBVIOUS
<1>2. weWant \in [Pairs -> Seq(WeEntries)]
  BY DEF TypeOK, WeEntries
<1>3. ASSUME weWant'[q] \in {<<>>, weWant[q]} PROVE FALSE
  BY <1>1, <1>2, <1>3
<1>4. ASSUME UNCHANGED weWant PROVE FALSE
  BY <1>3, <1>4
<1>5. ASSUME NEW n \in Nodes, Down(n, "stopped") \/ Down(n, "no_list") \/ Down(n, "out_of_bounds")
      PROVE  FALSE
  <2>1. weWant' = [r \in Pairs |-> IF r[1] = n THEN <<>> ELSE weWant[r]]
    BY <1>5, Zenon DEF Down
  <2>2. weWant'[q] \in {<<>>, weWant[q]}
    BY <2>1, Zenon
  <2>3. QED
    BY <1>3, <2>2
<1>6. ASSUME NEW n \in Nodes, NEW p \in Nodes, NEW th, NEW ww \in Seq(WeEntries),
             ProcessEntry(n, p, th, ww),
             q = <<n, p>> => \A k \in 1..Len(ww) :
                 \/ \E j \in 1..Len(weWant[q]) : ww[k].cid = weWant[q][j].cid
                 \/ ww[k].cid \in current[n]
      PROVE  FALSE
  <2>1. weWant' = [weWant EXCEPT ![<<n, p>>] = ww] \/ weWant' = [weWant EXCEPT ![<<n, p>>] = MarkSent(ww)]
    <3>1. Build(n, p, th, ww) => weWant' = [weWant EXCEPT ![<<n, p>>] = MarkSent(ww)]
      BY Zenon DEF Build
    <3>2. QED
      BY <1>6, <3>1, ProcessEntryEffect
  <2>2. CASE q # <<n, p>>
    BY <1>2, <1>3, <2>1, <2>2
  <2>3. CASE q = <<n, p>>
    <3>1. q[1] = n /\ (weWant'[q] = ww \/ weWant'[q] = MarkSent(ww))
      BY <1>2, <2>1, <2>3
    <3>2. Len(weWant'[q]) = Len(ww) /\ \A k \in 1..Len(ww) : weWant'[q][k].cid = ww[k].cid
      BY <3>1, MarkSentList
    <3>3. i \in 1..Len(ww) /\ weWant'[q][i].cid = ww[i].cid
      BY <3>2
    <3>4. QED
      BY <1>1, <1>6, <2>3, <3>1, <3>3
  <2>4. QED
    BY <2>2, <2>3
<1>7. ASSUME NEW n \in Nodes, NEW c \in Cids,
             Want(n, c) \/ \E P \in SUBSET (Nodes \ {n}) : Search(n, c, P)
      PROVE  FALSE
  BY <1>4, <1>7, Zenon DEF Want, Search
<1>8. ASSUME NEW n \in Nodes, SearchDone(n) \/ Start(n) \/ Stop(n)
                \/ \E m \in outbox[n] : SendWritten(n, m) \/ SendLost(n, m)
      PROVE  FALSE
  BY <1>4, <1>5, <1>8, Zenon DEF SearchDone, Start, Stop, SendWritten, SendLost
<1>9. ASSUME NEW n \in Nodes, NEW p \in Nodes, AskPeer(n, p)
      PROVE  FALSE
  <2>1. PICK c \in current[n] : ProcessEntry(n, p, "want",
                  Append(weWant[<<n, p>>], [cid |-> c, sent |-> FALSE]))
    BY <1>9, Zenon DEF AskPeer
  <2>2. n # p /\ c \in Cids
    BY <1>9, <2>1 DEF AskPeer, OthersOnly, TypeOK
  <2> DEFINE e == [cid |-> c, sent |-> FALSE]
             ww == Append(weWant[<<n, p>>], e)
  <2>3. e \in WeEntries /\ e.cid = c /\ weWant[<<n, p>>] \in Seq(WeEntries)
    <3>1. e \in WeEntries /\ e.cid = c
      BY <2>2 DEF WeEntries
    <3>2. weWant[<<n, p>>] \in Seq(WeEntries)
      BY <1>2, <2>2, PairsOf
    <3>3. QED
      BY <3>1, <3>2
  <2> HIDE DEF e
  <2>4. ww \in Seq(WeEntries)
    BY <2>3
  <2>5. ASSUME q = <<n, p>>, NEW k \in 1..Len(ww)
        PROVE  \/ \E j \in 1..Len(weWant[q]) : ww[k].cid = weWant[q][j].cid
               \/ ww[k].cid \in current[n]
    <3>1. CASE k \in 1..Len(weWant[q])
      BY <2>3, <2>5, <3>1
    <3>2. CASE k \notin 1..Len(weWant[q])
      <4>1. ww[k] = e
        BY <2>3, <2>5, <3>2
      <4>2. QED
        BY <2>1, <2>3, <4>1
    <3>3. QED
      BY <3>1, <3>2
  <2>6. ProcessEntry(n, p, "want", ww)
    BY <2>1 DEF e
  <2> HIDE DEF ww
  <2>7. QED
    BY <1>6, <2>4, <2>5, <2>6
<1>10. ASSUME NEW n \in Nodes, NEW p \in Nodes, PeerTurn(n, p)
      PROVE  FALSE
  <2>1. n # p /\ ProcessEntry(n, p, "peer", weWant[<<n, p>>])
    BY <1>10, Zenon DEF PeerTurn
  <2>2. weWant[<<n, p>>] \in Seq(WeEntries)
    BY <1>2, <2>1, PairsOf
  <2>3. QED
    BY <1>6, <2>1, <2>2
<1>11. ASSUME NEW n \in Nodes, NEW p \in Nodes,
              \/ Receive(n, p) \/ ReceiveWithoutList(n, p)
              \/ ReceiveOutOfBounds(n, p) \/ PeekError(n, p) \/ Break(n, p)
      PROVE  FALSE
  BY <1>4, <1>5, <1>11, Zenon DEF Receive, ReceiveWithoutList, ReceiveOutOfBounds, PeekError, Break
<1>12. CASE UNCHANGED vars
  BY <1>4, <1>12, Zenon DEF vars
<1>13. QED
  BY <1>7, <1>8, <1>9, <1>10, <1>11, <1>12 DEF Next

LEMMA FirstLifeStep ==
    ASSUME TypeOK, OthersOnly, FirstLife, [Next]_vars
    PROVE  FirstLife'
<1>1. SUFFICES ASSUME stops' = 0
               PROVE  /\ \A n \in Nodes : status'[n] = "up" /\ current'[n] \subseteq wanted'[n]
                      /\ \A q \in Pairs : \A i \in 1..Len(weWant'[q]) : weWant'[q][i].cid \in wanted'[q[1]]
                      /\ \A n \in Nodes : \A m \in outbox'[n] : Range(m.wants) \subseteq wanted'[n]
                      /\ \A q \in Pairs : requested'[q] \subseteq wanted'[q[1]]
  BY DEF FirstLife
<1>2. /\ stops = 0
      /\ \A n \in Nodes : wanted[n] \subseteq wanted'[n]
      /\ \A n \in Nodes : status'[n] = "up" /\ current'[n] \subseteq wanted'[n]
  BY <1>1, StillFirst
<1>3. /\ \A n \in Nodes : current[n] \subseteq wanted[n]
      /\ \A q \in Pairs : \A i \in 1..Len(weWant[q]) : weWant[q][i].cid \in wanted[q[1]]
      /\ \A n \in Nodes : \A m \in outbox[n] : Range(m.wants) \subseteq wanted[n]
      /\ \A q \in Pairs : requested[q] \subseteq wanted[q[1]]
  BY <1>2 DEF FirstLife
<1>4. ASSUME NEW q \in Pairs, NEW i \in 1..Len(weWant'[q])
      PROVE  weWant'[q][i].cid \in wanted'[q[1]]
  <2>1. q[1] \in Nodes
    BY BackPair
  <2>2. QED
    BY <1>2, <1>3, <2>1, NewWant
<1>5. ASSUME NEW n \in Nodes, NEW m \in outbox'[n]
      PROVE  Range(m.wants) \subseteq wanted'[n]
  <2>1. CASE m \in outbox[n]
    BY <1>2, <1>3, <2>1
  <2>2. CASE m \notin outbox[n]
    <3>1. PICK p \in Nodes, th \in Threads, ww \in Seq(WeEntries) :
             /\ Calls(n, p, th, ww)
             /\ m = [by |-> th, to |-> p, payload |-> BlocksTheyWant(n, p), wants |-> Unsent(ww)]
             /\ UNCHANGED wanted
      BY <2>2, NewMessage
    <3>2. n # p /\ <<n, p>> \in Pairs /\ <<n, p>>[1] = n
      BY <3>1, PairsOf DEF Calls
    <3>3. weWant[<<n, p>>] \in Seq(WeEntries)
            /\ \A i \in 1..Len(weWant[<<n, p>>]) : weWant[<<n, p>>][i].cid \in wanted[n]
      BY <1>3, <3>2 DEF TypeOK, WeEntries
    <3>4. \A i \in 1..Len(ww) : ww[i].cid \in wanted[n]
      <4>1. CASE ww = weWant[<<n, p>>]
        BY <3>3, <4>1
      <4>2. CASE ww # weWant[<<n, p>>]
        <5>1. PICK c \in current[n] : ww = Append(weWant[<<n, p>>], [cid |-> c, sent |-> FALSE])
          BY <3>1, <4>2, Zenon DEF Calls
        <5>2. c \in wanted[n]
          BY <1>3, <5>1
        <5>3. PICK e : e = [cid |-> c, sent |-> FALSE]
          OBVIOUS
        <5>4. e \in WeEntries /\ e.cid = c
          BY <5>1, <5>3 DEF TypeOK, WeEntries
        <5>5. \A i \in 1..Len(ww) : \/ i \in 1..Len(weWant[<<n, p>>]) /\ ww[i] = weWant[<<n, p>>][i]
                                    \/ ww[i] = e
          BY <3>3, <5>1, <5>3, <5>4, AppendedEntry
        <5>6. QED
          BY <3>3, <5>2, <5>4, <5>5
      <4>3. QED
        BY <4>1, <4>2
    <3>5. Unsent(ww) \in Seq(wanted[n])
      BY <3>4, UnsentType
    <3>6. Range(Unsent(ww)) \subseteq wanted[n]
      BY <3>5 DEF Range
    <3>7. m.wants = Unsent(ww)
      BY <3>1
    <3>8. QED
      BY <3>1, <3>6, <3>7
  <2>3. QED
    BY <2>1, <2>2
<1>6. ASSUME NEW q \in Pairs
      PROVE  requested'[q] \subseteq wanted'[q[1]]
  <2>1. CASE requested' = requested
    BY <1>2, <1>3, <2>1, BackPair
  <2>2. ASSUME NEW n \in Nodes, NEW m \in outbox[n], SendWritten(n, m)
        PROVE  requested'[q] \subseteq wanted'[q[1]]
    <3>1. requested' = [requested EXCEPT ![<<n, m.to>>] = @ \cup Range(m.wants)]
      BY <2>2, Zenon DEF SendWritten
    <3>2. requested'[q] \subseteq requested[q] \cup Range(m.wants)
            /\ (q # <<n, m.to>> => requested'[q] = requested[q])
      BY <3>1 DEF TypeOK
    <3>3. q[1] \in Nodes /\ (q = <<n, m.to>> => q[1] = n)
      BY BackPair
    <3>4. QED
      BY <1>2, <1>3, <3>2, <3>3
  <2>3. QED
    BY <2>1, <2>2, RequestedChanges
<1>7. QED
  BY <1>2, <1>4, <1>5, <1>6

(* A block that comes to a node without a want list comes after somebody   *)
(* went down: it was requested in an earlier life.                         *)
LEMMA HasBlockStep ==
    ASSUME TypeOK, Requested, FirstLife, HasBlockHasQueue, [Next]_vars
    PROVE  HasBlockHasQueue'
<1> DEFINE Kept == \A k \in Nodes : status'[k] = "no_list" => stops' > 1
<1>1. SUFFICES ASSUME ~Kept PROVE FALSE
  BY DEF HasBlockHasQueue
<1>2. /\ status \in [Nodes -> {"up", "stopped", "no_list", "out_of_bounds"}]
      /\ stops \in Nat
      /\ \A k \in Nodes : status[k] = "no_list" => stops > 1
  BY DEF TypeOK, HasBlockHasQueue
<1>3. ASSUME UNCHANGED <<status, stops>> PROVE FALSE
  BY <1>1, <1>2, <1>3
<1>4. ASSUME NEW n \in Nodes, NEW reason \in {"up", "stopped", "out_of_bounds"},
             status' = [status EXCEPT ![n] = reason], stops' \in {stops, stops + 1}
      PROVE  FALSE
  <2>1. \A k \in Nodes : status'[k] = "no_list" => status[k] = "no_list"
    BY <1>2, <1>4
  <2>2. stops > 1 => stops' > 1
    BY <1>2, <1>4
  <2>3. QED
    BY <1>1, <1>2, <2>1, <2>2
<1> HIDE DEF Kept
<1>5. ASSUME NEW n \in Nodes, NEW c \in Cids,
             Want(n, c) \/ \E P \in SUBSET (Nodes \ {n}) : Search(n, c, P)
      PROVE  FALSE
  BY <1>3, <1>5, Zenon DEF Want, Search, nodeVars
<1>6. ASSUME NEW n \in Nodes, SearchDone(n) \/ \E m \in outbox[n] : SendWritten(n, m) \/ SendLost(n, m)
      PROVE  FALSE
  BY <1>3, <1>6, Zenon DEF SearchDone, SendWritten, SendLost, nodeVars
<1>7. ASSUME NEW n \in Nodes, Start(n) \/ Stop(n)
      PROVE  FALSE
  BY <1>4, <1>7, Zenon DEF Start, Stop, Down
<1>8. ASSUME NEW n \in Nodes, NEW p \in Nodes,
             AskPeer(n, p) \/ PeerTurn(n, p) \/ Receive(n, p) \/ PeekError(n, p) \/ Break(n, p)
      PROVE  FALSE
  BY <1>3, <1>8, Zenon DEF AskPeer, PeerTurn, Receive, PeekError, Break, nodeVars
<1>9. ASSUME NEW n \in Nodes, NEW p \in Nodes, ReceiveOutOfBounds(n, p)
      PROVE  FALSE
  BY <1>4, <1>9, Zenon DEF ReceiveOutOfBounds, Down
<1>10. ASSUME NEW n \in Nodes, NEW p \in Nodes, ReceiveWithoutList(n, p)
      PROVE  FALSE
  <2> DEFINE m == Head(chan[<<p, n>>])
  <2>1. Arrived(n, p) /\ m.payload # {} /\ wanted[n] = {} /\ stops' = stops + 1
    BY <1>10, Zenon DEF ReceiveWithoutList, Down
  <2>2. m = chan[<<p, n>>][1] /\ chan[<<p, n>>] # <<>> /\ n # p
    BY <2>1, ArrivedMessage DEF Arrived
  <2>3. <<p, n>> \in Pairs /\ <<n, p>> \in Pairs /\ Back(<<p, n>>) = <<n, p>> /\ <<n, p>>[1] = n
    BY <2>2, PairsOf DEF Back
  <2>4. chan[<<p, n>>] \in Seq(Messages)
    BY <2>3 DEF TypeOK
  <2>5. 1 \in 1..Len(chan[<<p, n>>])
    BY <2>2, <2>4
  <2> HIDE DEF m
  <2>6. m.payload \subseteq requested[<<n, p>>]
    BY <2>2, <2>3, <2>5 DEF Requested, WireRequested
  <2>7. stops # 0
    BY <2>1, <2>3, <2>6 DEF FirstLife
  <2>8. stops' > 1
    BY <1>2, <2>1, <2>7
  <2>9. QED
    BY <1>1, <2>8 DEF Kept
<1>11. CASE UNCHANGED vars
  BY <1>3, <1>11, Zenon DEF vars
<1>12. QED
  BY <1>5, <1>6, <1>7, <1>8, <1>9, <1>10, <1>11 DEF Next

-----------------------------------------------------------------------------
(* The first request, while nothing breaks                                 *)

(* What is asked of a peer is sent at once: only the want thread has       *)
(* requests to send, one at a time.                                        *)
SentAtOnce ==
    /\ \A q \in Pairs : view[q] => {q[1], q[2]} \in link
    /\ \A q \in Pairs : \A i \in 1..Len(weWant[q]) : weWant[q][i].sent
    /\ \A n \in Nodes : \A m \in outbox[n] : m.wants # <<>> => m.by = "want"
    /\ \A n \in Nodes : \A m, o \in outbox[n] : m.by = o.by => m = o

NoneOnWire(q) == \A i \in 1..Len(chan[q]) : chan[q][i].wants = <<>>

(* The block c, or the order to send it, is on its way back over q.        *)
Returns(q, c) ==
    \/ \E m \in outbox[q[2]] : m.to = q[1] /\ c \in m.payload
    \/ \E i \in 1..Len(chan[Back(q)]) : c \in chan[Back(q)][i].payload
    \/ c \in store[q[1]]

(* Where the first request of q[1] to q[2] is: in the outbox or on the     *)
(* wire, with no other request before it and nothing on the list of q[2],  *)
(* or at the head of that list.                                            *)
InOutbox(q, c) ==
    /\ theyWant[Back(q)] = <<>>
    /\ NoneOnWire(q)
    /\ \E m \in outbox[q[1]] : m.to = q[2] /\ m.wants # <<>> /\ m.wants[1] = c

OnWire(q, c) ==
    /\ theyWant[Back(q)] = <<>>
    /\ \E i \in 1..Len(chan[q]) :
          /\ chan[q][i].wants # <<>> /\ chan[q][i].wants[1] = c
          /\ \A j \in 1..(i - 1) : chan[q][j].wants = <<>>

OnList(q, c) ==
    /\ theyWant[Back(q)] # <<>>
    /\ theyWant[Back(q)][1].cid = c
    /\ theyWant[Back(q)][1].cancel => Returns(q, c)

NothingAsked(q) ==
    /\ theyWant[Back(q)] = <<>>
    /\ NoneOnWire(q)
    /\ \A m \in outbox[q[1]] : m.to = q[2] => m.wants = <<>>

Tracked(q) ==
    IF weWant[q] = <<>> THEN NothingAsked(q)
    ELSE LET c == weWant[q][1].cid IN InOutbox(q, c) \/ OnWire(q, c) \/ OnList(q, c)

FirstTracked == Undisturbed => SentAtOnce /\ \A q \in Pairs : Tracked(q)


(* The message Build makes, and what it does with it.                      *)
BuiltMessage(m, n, p, th, ww) ==
    /\ m = [by |-> th, to |-> p, payload |-> BlocksTheyWant(n, p), wants |-> Unsent(ww)]
    /\ outbox[n] \subseteq outbox'[n]
    /\ outbox'[n] \subseteq outbox[n] \cup {m}
    /\ m.payload # {} \/ m.wants # <<>> => m \in outbox'[n]

(* What Build does, variable by variable.                                  *)
LEMMA BuildEffect ==
    ASSUME TypeOK, NEW n \in Nodes, NEW p \in Nodes, n # p, NEW th, NEW ww \in Seq(WeEntries),
           Build(n, p, th, ww)
    PROVE  /\ weWant'[<<n, p>>] = MarkSent(ww)
           /\ \A q \in Pairs : q # <<n, p>> => weWant'[q] = weWant[q]
           /\ theyWant'[<<n, p>>] = MarkServed(theyWant[<<n, p>>], BlocksTheyWant(n, p))
           /\ \A q \in Pairs : q # <<n, p>> => theyWant'[q] = theyWant[q]
           /\ \A k \in Nodes : k # n => outbox'[k] = outbox[k]
           /\ \E m : BuiltMessage(m, n, p, th, ww)
<1>1. <<n, p>> \in Pairs
  BY PairsOf
<1>2. /\ weWant' = [weWant EXCEPT ![<<n, p>>] = MarkSent(ww)]
      /\ theyWant' = [theyWant EXCEPT ![<<n, p>>] = MarkServed(@, BlocksTheyWant(n, p))]
  BY Zenon DEF Build
<1>3. PICK m : m = [by |-> th, to |-> p, payload |-> BlocksTheyWant(n, p), wants |-> Unsent(ww)]
  OBVIOUS
<1>4. outbox' = [outbox EXCEPT ![n] = @ \cup
                   (IF BlocksTheyWant(n, p) = {} /\ Unsent(ww) = <<>> THEN {} ELSE {m})]
  BY <1>3 DEF Build
<1>5. m.payload = BlocksTheyWant(n, p) /\ m.wants = Unsent(ww)
  BY <1>3
<1>6. outbox \in [Nodes -> SUBSET Messages]
  BY DEF TypeOK
<1>7. /\ \A k \in Nodes : k # n => outbox'[k] = outbox[k]
      /\ outbox[n] \subseteq outbox'[n]
      /\ outbox'[n] \subseteq outbox[n] \cup {m}
      /\ m.payload # {} \/ m.wants # <<>> => m \in outbox'[n]
  BY <1>4, <1>5, <1>6
<1>8. weWant \in [Pairs -> Seq(WeEntries)] /\ theyWant \in [Pairs -> Seq(TheyEntries)]
  BY DEF TypeOK, WeEntries, TheyEntries
<1>9. /\ weWant'[<<n, p>>] = MarkSent(ww)
      /\ \A q \in Pairs : q # <<n, p>> => weWant'[q] = weWant[q]
  BY <1>1, <1>2, <1>8
<1>10. /\ theyWant'[<<n, p>>] = MarkServed(theyWant[<<n, p>>], BlocksTheyWant(n, p))
       /\ \A q \in Pairs : q # <<n, p>> => theyWant'[q] = theyWant[q]
  BY <1>1, <1>2, <1>8
<1>11. BuiltMessage(m, n, p, th, ww)
  BY <1>3, <1>7, Zenon DEF BuiltMessage
<1>12. QED
  BY <1>7, <1>9, <1>10, <1>11

(* What was sent and one new want: the new one is all there is to send.    *)
LEMMA UnsentOne ==
    ASSUME NEW list \in Seq(WeEntries), list # <<>>, ~list[Len(list)].sent,
           \A i \in 1..(Len(list) - 1) : list[i].sent
    PROVE  Unsent(list) = <<list[Len(list)].cid>>
<1> DEFINE F == UnsentTo(list)
           Good == {n \in 0..(Len(list) - 1) : F[n] = <<>>}
<1>1. \A i \in 0..Len(list) : F[i] = Turn(list, F, i)
  BY UnsentLoop
<1>2. Len(list) \in Nat \ {0} /\ Len(list) - 1 \in Nat
  OBVIOUS
<1> HIDE DEF F
<1>3. 0 \in Good
  BY <1>1, <1>2 DEF Turn
<1>4. ASSUME NEW n \in 1..(Len(list) - 1), n - 1 \in Good
      PROVE  n \in Good
  BY <1>1, <1>2, <1>4 DEF Turn
<1>5. Len(list) - 1 \in Good
  <2> HIDE DEF Good
  <2>1. \A n \in 0..(Len(list) - 1) : n \in Good
    BY <1>2, <1>3, <1>4, UpTo
  <2>2. QED
    BY <1>2, <2>1
<1>6. F[Len(list)] = Append(<<>>, list[Len(list)].cid)
  <2>1. F[Len(list)] = Turn(list, F, Len(list)) /\ Len(list) # 0
    BY <1>1, <1>2
  <2>2. F[Len(list)] = Append(F[Len(list) - 1], list[Len(list)].cid)
    BY <2>1 DEF Turn
  <2>3. QED
    BY <1>5, <2>2
<1>7. QED
  BY <1>6 DEF Unsent, F

(* The steps that are left while nothing breaks, and what they leave alone *)
Quiet == UNCHANGED <<weWant, theyWant, outbox, chan, store, link, view>>

Built(n, p, th, ww) ==
    /\ Calls(n, p, th, ww)
    /\ Build(n, p, th, ww)
    /\ UNCHANGED <<chan, store>>
    /\ Dial(n, p) \/ (view[<<n, p>>] /\ UNCHANGED <<link, view>>)

LEMMA UndisturbedStep ==
    ASSUME TypeOK, OthersOnly, FirstLife, FirstTracked, [Next]_vars, Undisturbed'
    PROVE  /\ Undisturbed
           /\ \/ Quiet
              \/ \E n, p \in Nodes, th \in Threads : \E ww \in Seq(WeEntries) : Built(n, p, th, ww)
              \/ \E n \in Nodes : \E m \in outbox[n] : SendWritten(n, m)
              \/ \E n, p \in Nodes : Receive(n, p)
<1>1. stops' = 0 /\ faults' = 0
  BY DEF Undisturbed
<1>2. /\ stops = 0
      /\ \A n \in Nodes, reason \in {"stopped", "no_list", "out_of_bounds"} : ~Down(n, reason)
  BY <1>1, StillFirst
<1>3. \A n \in Nodes : Up(n)
  BY <1>2 DEF FirstLife, Up
<1>4. faults' # faults + 1
  BY <1>1 DEF TypeOK
<1>5. faults = 0
  <2>1. SUFFICES ASSUME faults' # faults PROVE FALSE
    BY <1>1
  <2>2. ASSUME NEW n \in Nodes, NEW c \in Cids,
               Want(n, c) \/ \E P \in SUBSET (Nodes \ {n}) : Search(n, c, P)
        PROVE  FALSE
    BY <2>1, <2>2, Zenon DEF Want, Search
  <2>3. ASSUME NEW n \in Nodes, SearchDone(n) \/ Start(n) \/ Stop(n)
                  \/ \E m \in outbox[n] : SendWritten(n, m) \/ SendLost(n, m)
        PROVE  FALSE
    BY <1>4, <2>1, <2>3, Zenon DEF SearchDone, Start, Stop, SendWritten, SendLost
  <2>4. ASSUME NEW n \in Nodes, NEW p \in Nodes,
               \/ AskPeer(n, p) \/ PeerTurn(n, p) \/ Receive(n, p) \/ ReceiveWithoutList(n, p)
               \/ ReceiveOutOfBounds(n, p) \/ PeekError(n, p) \/ Break(n, p)
        PROVE  FALSE
    BY <1>4, <2>1, <2>4, Zenon
       DEF AskPeer, PeerTurn, ProcessEntry, Receive, ReceiveWithoutList, ReceiveOutOfBounds, PeekError, Break
  <2>5. CASE UNCHANGED vars
    BY <2>1, <2>5, Zenon DEF vars
  <2>6. QED
    BY <2>2, <2>3, <2>4, <2>5 DEF Next
<1>6. Undisturbed
  BY <1>2, <1>5 DEF Undisturbed
<1>7. \A q \in Pairs : view[q] => {q[1], q[2]} \in link
  BY <1>6 DEF FirstTracked, SentAtOnce
<1>8. \A n, p \in Nodes : n # p /\ view[<<n, p>>] => Linked(n, p)
  BY <1>7, PairsOf DEF Linked
<1> DEFINE B == \E n, p \in Nodes, th \in Threads : \E ww \in Seq(WeEntries) : Built(n, p, th, ww)
           S == \E n \in Nodes : \E m \in outbox[n] : SendWritten(n, m)
           R == \E n, p \in Nodes : Receive(n, p)
<1>9. SUFFICES ASSUME ~Quiet, ~B, ~S, ~R PROVE FALSE
  BY <1>6
<1>10. ASSUME NEW n \in Nodes, NEW p \in Nodes, NEW th \in Threads, NEW ww \in Seq(WeEntries),
              Calls(n, p, th, ww), ProcessEntry(n, p, th, ww), UNCHANGED <<chan, store>>
      PROVE  FALSE
  <2>1. Build(n, p, th, ww) /\ (Dial(n, p) \/ (view[<<n, p>>] /\ UNCHANGED <<link, view>>))
    <3>1. Up(p)
      BY <1>3
    <3>2. CASE view[<<n, p>>] /\ Build(n, p, th, ww) /\ UNCHANGED <<link, view, faults>>
      BY <3>2
    <3>3. CASE Dial(n, p) /\ Build(n, p, th, ww)
      BY <3>3, Zenon
    <3>4. QED
      BY <1>4, <1>10, <3>1, <3>2, <3>3, Zenon DEF ProcessEntry
  <2>2. Built(n, p, th, ww)
    BY <1>10, <2>1, Zenon DEF Built
  <2>3. QED
    BY <1>9, <2>2
<1> HIDE DEF B, S, R
<1>11. ASSUME NEW n \in Nodes, NEW c \in Cids,
             Want(n, c) \/ \E P \in SUBSET (Nodes \ {n}) : Search(n, c, P)
      PROVE  FALSE
  BY <1>9, <1>11, Zenon DEF Want, Search, Quiet, netVars, nodeVars
<1>12. ASSUME NEW n \in Nodes, SearchDone(n) \/ Start(n) \/ Stop(n)
      PROVE  FALSE
  BY <1>2, <1>3, <1>9, <1>12, Zenon DEF SearchDone, Start, Stop, Quiet, netVars, nodeVars
<1>13. ASSUME NEW n \in Nodes, NEW m \in outbox[n], SendWritten(n, m) \/ SendLost(n, m)
      PROVE  FALSE
  <2>1. m \in Messages /\ m.to # n
    BY DEF TypeOK, OthersOnly
  <2>2. m.to \in Nodes
    BY <2>1 DEF Messages
  <2>3. QED
    BY <1>3, <1>4, <1>8, <1>9, <1>13, <2>1, <2>2, Zenon DEF SendLost, S
<1>14. ASSUME NEW n \in Nodes, NEW p \in Nodes, AskPeer(n, p)
      PROVE  FALSE
  <2>1. PICK c \in current[n] : ProcessEntry(n, p, "want",
                  Append(weWant[<<n, p>>], [cid |-> c, sent |-> FALSE]))
    BY <1>14, Zenon DEF AskPeer
  <2> DEFINE ww == Append(weWant[<<n, p>>], [cid |-> c, sent |-> FALSE])
  <2>2. n # p /\ c \in Cids
    BY <1>14, <2>1 DEF AskPeer, OthersOnly, TypeOK
  <2>3. [cid |-> c, sent |-> FALSE] \in WeEntries /\ weWant[<<n, p>>] \in Seq(WeEntries)
    BY <2>2, PairsOf DEF TypeOK, WeEntries
  <2>4. ww \in Seq(WeEntries)
    BY <2>3
  <2>5. "want" \in Threads
    BY DEF Threads
  <2>6. Calls(n, p, "want", ww)
    BY <1>14, <2>1, <2>2, Zenon DEF AskPeer, Calls
  <2>7. UNCHANGED <<chan, store>>
    BY <1>14, Zenon DEF AskPeer, nodeVars
  <2>8. QED
    BY <1>10, <2>1, <2>4, <2>5, <2>6, <2>7, Zenon
<1>15. ASSUME NEW n \in Nodes, NEW p \in Nodes, PeerTurn(n, p)
      PROVE  FALSE
  <2>1. n # p /\ ProcessEntry(n, p, "peer", weWant[<<n, p>>]) /\ UNCHANGED <<chan, store>>
    BY <1>15, Zenon DEF PeerTurn, nodeVars
  <2>2. weWant[<<n, p>>] \in Seq(WeEntries)
    BY <2>1, PairsOf DEF TypeOK, WeEntries
  <2>3. "peer" \in Threads
    BY DEF Threads
  <2>4. Calls(n, p, "peer", weWant[<<n, p>>])
    BY <1>15, <2>1, Zenon DEF PeerTurn, Calls
  <2>5. QED
    BY <1>10, <2>1, <2>2, <2>3, <2>4, Zenon
<1>16. ASSUME NEW n \in Nodes, NEW p \in Nodes,
              Receive(n, p) \/ ReceiveWithoutList(n, p) \/ ReceiveOutOfBounds(n, p)
      PROVE  FALSE
  BY <1>2, <1>9, <1>16, Zenon DEF R, ReceiveWithoutList, ReceiveOutOfBounds
<1>17. ASSUME NEW n \in Nodes, NEW p \in Nodes, PeekError(n, p) \/ Break(n, p)
      PROVE  FALSE
  BY <1>4, <1>8, <1>17, Zenon DEF PeekError, Break
<1>18. CASE UNCHANGED vars
  BY <1>9, <1>18, Zenon DEF vars, Quiet
<1>19. QED
  BY <1>11, <1>12, <1>13, <1>14, <1>15, <1>16, <1>17, <1>18 DEF Next

(* A built message has a want only if the want thread built it, and then   *)
(* it is the one new cid.                                                  *)
LEMMA BuiltWants ==
    ASSUME TypeOK, SentAtOnce, NEW n \in Nodes, NEW p \in Nodes, NEW th \in Threads,
           NEW ww \in Seq(WeEntries), Calls(n, p, th, ww)
    PROVE  \/ th = "peer" /\ ww = weWant[<<n, p>>] /\ Unsent(ww) = <<>>
           \/ /\ th = "want" /\ Len(ww) = Len(weWant[<<n, p>>]) + 1
              /\ \A i \in 1..Len(weWant[<<n, p>>]) : ww[i] = weWant[<<n, p>>][i]
              /\ Unsent(ww) = <<ww[Len(ww)].cid>>
<1>1. <<n, p>> \in Pairs
  BY PairsOf DEF Calls
<1>2. PICK list : list = weWant[<<n, p>>]
  OBVIOUS
<1>3. list \in Seq(WeEntries) /\ \A i \in 1..Len(list) : list[i].sent
  BY <1>1, <1>2 DEF TypeOK, WeEntries, SentAtOnce
<1>4. CASE th = "peer" /\ ww = list
  BY <1>2, <1>3, <1>4, UnsentNone
<1>5. CASE th = "want" /\ \E c \in current[n] : ww = Append(list, [cid |-> c, sent |-> FALSE])
  <2>1. PICK c \in current[n] : ww = Append(list, [cid |-> c, sent |-> FALSE])
    BY <1>5
  <2>2. PICK e : e = [cid |-> c, sent |-> FALSE]
    OBVIOUS
  <2>3. e \in WeEntries /\ ~e.sent
    BY <2>1, <2>2 DEF TypeOK, WeEntries
  <2>4. ww = Append(list, e)
    BY <2>1, <2>2
  <2>5. /\ Len(ww) = Len(list) + 1
        /\ \A i \in 1..Len(list) : ww[i] = list[i]
        /\ ww[Len(list) + 1] = e
    BY <1>3, <2>3, <2>4, AppendedEntry
  <2>6. ww # <<>> /\ ~ww[Len(ww)].sent /\ \A i \in 1..(Len(ww) - 1) : ww[i].sent
    BY <1>3, <2>3, <2>5
  <2>7. Unsent(ww) = <<ww[Len(ww)].cid>>
    BY <2>6, UnsentOne
  <2>8. QED
    BY <1>2, <1>5, <2>5, <2>7
<1>6. QED
  BY <1>2, <1>4, <1>5, Zenon DEF Calls

(* A dial joins both ends.                                                 *)
LEMMA DialLinks ==
    ASSUME TypeOK, NEW n \in Nodes, NEW p \in Nodes, n # p, Dial(n, p),
           \A q \in Pairs : view[q] => {q[1], q[2]} \in link
    PROVE  \A q \in Pairs : view'[q] => {q[1], q[2]} \in link'
<1>1. /\ link' = link \cup {{n, p}}
      /\ view' = [view EXCEPT ![<<n, p>>] = TRUE, ![<<p, n>>] = TRUE]
      /\ view \in [Pairs -> BOOLEAN]
  BY Zenon DEF Dial, TypeOK
<1>2. ASSUME NEW q \in Pairs, view'[q]
      PROVE  {q[1], q[2]} \in link'
  <2>1. CASE q = <<n, p>> \/ q = <<p, n>>
    <3>1. {q[1], q[2]} = {n, p}
      BY <2>1
    <3>2. QED
      BY <1>1, <3>1, Zenon
  <2>2. CASE q # <<n, p>> /\ q # <<p, n>>
    <3>1. view[q]
      BY <1>1, <1>2, <2>2, Zenon
    <3>2. QED
      BY <1>1, <3>1, Zenon
  <2>3. QED
    BY <2>1, <2>2
<1>3. QED
  BY <1>2

LEMMA SentAtOnceStep ==
    ASSUME TypeOK, OthersOnly, FirstLife, FirstTracked, [Next]_vars, Undisturbed'
    PROVE  SentAtOnce'
<1>1. Undisturbed /\ SentAtOnce
  BY UndisturbedStep DEF FirstTracked
<1>2. CASE Quiet
  BY <1>1, <1>2 DEF Quiet, SentAtOnce
<1>3. ASSUME NEW n \in Nodes, NEW p \in Nodes, NEW th \in Threads, NEW ww \in Seq(WeEntries),
             Built(n, p, th, ww)
      PROVE  SentAtOnce'
  <2>1. n # p /\ ~Busy(n, th) /\ Calls(n, p, th, ww) /\ Build(n, p, th, ww)
    BY <1>3, Zenon DEF Built, Calls
  <2>2. \A q \in Pairs : view'[q] => {q[1], q[2]} \in link'
    <3>1. CASE UNCHANGED <<link, view>>
      BY <1>1, <3>1 DEF SentAtOnce
    <3>2. CASE Dial(n, p)
      BY <1>1, <2>1, <3>2, DialLinks DEF SentAtOnce
    <3>3. QED
      BY <1>3, <3>1, <3>2, Zenon DEF Built
  <2>3. \A q \in Pairs : \A i \in 1..Len(weWant'[q]) : weWant'[q][i].sent
    <3>1. /\ weWant'[<<n, p>>] = MarkSent(ww)
          /\ \A q \in Pairs : q # <<n, p>> => weWant'[q] = weWant[q]
      BY <2>1, BuildEffect
    <3>2. ASSUME NEW q \in Pairs, NEW i \in 1..Len(weWant'[q]) PROVE weWant'[q][i].sent
      <4>1. CASE q = <<n, p>>
        BY <3>1, <4>1, MarkSentList
      <4>2. CASE q # <<n, p>>
        BY <1>1, <3>1, <4>2 DEF SentAtOnce
      <4>3. QED
        BY <4>1, <4>2
    <3>3. QED
      BY <3>2
  <2>11. PICK m : BuiltMessage(m, n, p, th, ww)
    BY <2>1, BuildEffect
  <2>4. /\ outbox'[n] \subseteq outbox[n] \cup {m}
        /\ \A k \in Nodes : k # n => outbox'[k] = outbox[k]
    BY <2>1, <2>11, BuildEffect DEF BuiltMessage
  <2>5. m.by = th /\ m.wants = Unsent(ww)
    BY <2>11 DEF BuiltMessage
  <2>6. m.wants # <<>> => m.by = "want"
    BY <1>1, <2>1, <2>5, BuiltWants
  <2>7. \A o \in outbox[n] : o.by # m.by
    BY <2>1, <2>5 DEF Busy
  <2>8. \A k \in Nodes : \A o \in outbox'[k] : o.wants # <<>> => o.by = "want"
    BY <1>1, <2>4, <2>6 DEF SentAtOnce
  <2>9. \A k \in Nodes : \A o, r \in outbox'[k] : o.by = r.by => o = r
    BY <1>1, <2>4, <2>7 DEF SentAtOnce
  <2>10. QED
    BY <2>2, <2>3, <2>8, <2>9 DEF SentAtOnce
<1>4. ASSUME NEW n \in Nodes, NEW m \in outbox[n], SendWritten(n, m)
      PROVE  SentAtOnce'
  <2>1. m \in Messages /\ m.to # n
    BY DEF TypeOK, OthersOnly
  <2>2. m.to \in Nodes
    BY <2>1 DEF Messages
  <2>3. \A q \in Pairs : view'[q] => {q[1], q[2]} \in link'
    <3>1. CASE UNCHANGED <<link, view>>
      BY <1>1, <3>1 DEF SentAtOnce
    <3>2. CASE Dial(n, m.to)
      BY <1>1, <2>1, <2>2, <3>2, DialLinks DEF SentAtOnce
    <3>3. QED
      BY <1>4, <3>1, <3>2, Zenon DEF SendWritten
  <2>4. outbox' = [outbox EXCEPT ![n] = @ \ {m}] /\ UNCHANGED weWant
    BY <1>4, Zenon DEF SendWritten
  <2>5. \A k \in Nodes : outbox'[k] \subseteq outbox[k]
    BY <2>4 DEF TypeOK
  <2>6. QED
    BY <1>1, <2>3, <2>4, <2>5 DEF SentAtOnce
<1>5. ASSUME NEW n \in Nodes, NEW p \in Nodes, Receive(n, p)
      PROVE  SentAtOnce'
  <2>1. UNCHANGED <<weWant, outbox, link, view>>
    BY <1>5, Zenon DEF Receive
  <2>2. QED
    BY <1>1, <2>1 DEF SentAtOnce
<1>6. QED
  BY <1>2, <1>3, <1>4, <1>5, UndisturbedStep

(* The three kinds of steps keep track of the first request.               *)
LEMMA TrackedBuilt ==
    ASSUME TypeOK, SentAtOnce, NEW n \in Nodes, NEW p \in Nodes, NEW th \in Threads,
           NEW ww \in Seq(WeEntries), Built(n, p, th, ww), NEW q \in Pairs, Tracked(q)
    PROVE  Tracked(q)'
<1>1. n # p /\ Calls(n, p, th, ww) /\ Build(n, p, th, ww) /\ chan' = chan /\ store' = store
  BY Zenon DEF Built, Calls
<1>2. <<n, p>> \in Pairs /\ <<p, n>> \in Pairs
  BY <1>1, PairsOf
<1>3. /\ Back(q) \in Pairs /\ q = <<q[1], q[2]>> /\ Back(q) = <<q[2], q[1]>>
      /\ q[1] \in Nodes /\ q[2] \in Nodes /\ q[1] # q[2]
  BY BackPair DEF Back
<1>17. PICK m : BuiltMessage(m, n, p, th, ww)
  BY <1>1, BuildEffect
<1>4. /\ outbox[n] \subseteq outbox'[n]
      /\ outbox'[n] \subseteq outbox[n] \cup {m}
      /\ m.payload # {} \/ m.wants # <<>> => m \in outbox'[n]
  BY <1>17 DEF BuiltMessage
<1>5. m.to = p /\ m.payload = BlocksTheyWant(n, p) /\ m.wants = Unsent(ww)
  BY <1>17 DEF BuiltMessage
<1>6. /\ \A k \in Nodes : k # n => outbox'[k] = outbox[k]
      /\ weWant'[<<n, p>>] = MarkSent(ww)
      /\ \A r \in Pairs : r # <<n, p>> => weWant'[r] = weWant[r]
      /\ theyWant'[<<n, p>>] = MarkServed(theyWant[<<n, p>>], BlocksTheyWant(n, p))
      /\ \A r \in Pairs : r # <<n, p>> => theyWant'[r] = theyWant[r]
  BY <1>1, BuildEffect, Zenon
<1>7. \A k \in Nodes : outbox[k] \subseteq outbox'[k]
  BY <1>4, <1>6
<1>8. \A c : Returns(q, c) => Returns(q, c)'
  <2>1. outbox[q[2]] \subseteq outbox'[q[2]]
    BY <1>3, <1>7
  <2>2. QED
    BY <1>1, <2>1, Zenon DEF Returns
<1>9. NoneOnWire(q)' <=> NoneOnWire(q)
  BY <1>1 DEF NoneOnWire
<1>10. \A k \in Nodes : \A o \in outbox'[k] : o \in outbox[k] \/ (k = n /\ o = m)
  BY <1>4, <1>6
<1>11. /\ weWant[q] \in Seq(WeEntries) /\ weWant[<<n, p>>] \in Seq(WeEntries)
       /\ theyWant[<<n, p>>] \in Seq(TheyEntries)
  BY <1>2 DEF TypeOK, WeEntries, TheyEntries
<1>12. \A c : InOutbox(q, c) /\ theyWant'[Back(q)] = <<>> => InOutbox(q, c)'
  <2>1. outbox[q[1]] \subseteq outbox'[q[1]]
    BY <1>3, <1>7
  <2>2. QED
    BY <1>9, <2>1, Zenon DEF InOutbox
<1>13. \A c : OnWire(q, c) /\ theyWant'[Back(q)] = <<>> => OnWire(q, c)'
  BY <1>1, Zenon DEF OnWire
<1>14. CASE q = <<n, p>>
  <2>1. theyWant'[Back(q)] = theyWant[Back(q)] /\ q[1] = n /\ q[2] = p
    BY <1>1, <1>3, <1>6, <1>14
  <2>2. \A c : OnList(q, c) => OnList(q, c)'
    BY <1>8, <2>1, Zenon DEF OnList
  <2>3. /\ Len(weWant'[q]) = Len(ww)
        /\ \A i \in 1..Len(ww) : weWant'[q][i].cid = ww[i].cid
    <3>1. weWant'[q] = MarkSent(ww)
      BY <1>6, <1>14
    <3>2. QED
      BY <3>1, MarkSentList
  <2>4. weWant'[q] \in Seq(WeEntries)
    BY <1>6, <1>14, MarkSentList
  <2>5. CASE weWant[q] # <<>>
    <3>1. PICK c : c = weWant[q][1].cid
      OBVIOUS
    <3>2. InOutbox(q, c) \/ OnWire(q, c) \/ OnList(q, c)
      BY <2>5, <3>1 DEF Tracked
    <3>3. 1 \in 1..Len(weWant[q]) /\ 1 \in 1..Len(ww) /\ ww[1] = weWant[q][1]
      <4>1. CASE ww = weWant[q]
        BY <1>11, <2>5, <4>1
      <4>2. CASE ww # weWant[q]
        <5>1. Len(ww) = Len(weWant[q]) + 1 /\ \A i \in 1..Len(weWant[q]) : ww[i] = weWant[q][i]
          BY <1>1, <1>14, <4>2, BuiltWants
        <5>2. QED
          BY <1>11, <2>5, <5>1
      <4>3. QED
        BY <4>1, <4>2
    <3>4. weWant'[q] # <<>> /\ weWant'[q][1].cid = c
      BY <2>3, <2>4, <3>1, <3>3
    <3>5. InOutbox(q, c)' \/ OnWire(q, c)' \/ OnList(q, c)'
      <4>1. InOutbox(q, c) \/ OnWire(q, c) => theyWant'[Back(q)] = <<>>
        BY <2>1 DEF InOutbox, OnWire
      <4>2. QED
        BY <1>12, <1>13, <2>2, <3>2, <4>1, Zenon
    <3>6. QED
      BY <3>4, <3>5, Zenon DEF Tracked
  <2>6. CASE weWant[q] = <<>>
    <3>1. NothingAsked(q)
      BY <2>6 DEF Tracked
    <3>2. CASE ww = weWant[q] /\ Unsent(ww) = <<>>
      <4>1. weWant'[q] = <<>>
        BY <2>3, <2>4, <2>6, <3>2
      <4>2. \A o \in outbox'[q[1]] : o.to = q[2] => o.wants = <<>>
        BY <1>3, <1>5, <1>10, <3>1, <3>2 DEF NothingAsked
      <4>3. NothingAsked(q)'
        BY <1>9, <2>1, <3>1, <4>2 DEF NothingAsked
      <4>4. QED
        BY <4>1, <4>3, Zenon DEF Tracked
    <3>3. CASE Len(ww) = Len(weWant[q]) + 1 /\ Unsent(ww) = <<ww[Len(ww)].cid>>
      <4>1. Len(ww) = 1
        BY <1>11, <2>6, <3>3
      <4>2. weWant'[q] # <<>> /\ weWant'[q][1].cid = ww[1].cid
        BY <2>3, <2>4, <4>1
      <4>3. m.wants = <<ww[1].cid>>
        BY <1>5, <3>3, <4>1
      <4>4. m.wants # <<>> /\ m.wants[1] = ww[1].cid
        BY <4>3
      <4>5. m \in outbox'[q[1]] /\ m.to = q[2]
        BY <1>4, <1>5, <2>1, <4>4
      <4>6. InOutbox(q, ww[1].cid)'
        BY <1>9, <2>1, <3>1, <4>4, <4>5, Zenon DEF NothingAsked, InOutbox
      <4>7. QED
        BY <4>2, <4>6, Zenon DEF Tracked
    <3>4. QED
      BY <1>1, <1>14, <3>2, <3>3, BuiltWants
  <2>7. QED
    BY <2>5, <2>6
<1>15. CASE q # <<n, p>>
  <2>1. weWant'[q] = weWant[q]
    BY <1>6, <1>15
  <2>2. (theyWant[Back(q)] = <<>>) <=> (theyWant'[Back(q)] = <<>>)
    <3>1. CASE Back(q) = <<n, p>>
      <4>1. Len(theyWant'[Back(q)]) = Len(theyWant[Back(q)]) /\ theyWant'[Back(q)] \in Seq(TheyEntries)
        BY <1>6, <1>11, <3>1, MarkServedList
      <4>2. QED
        BY <1>11, <3>1, <4>1
    <3>2. CASE Back(q) # <<n, p>>
      BY <1>3, <1>6, <3>2
    <3>3. QED
      BY <3>1, <3>2
  <2>3. \A c : OnList(q, c) => OnList(q, c)'
    <3>1. ASSUME NEW c, OnList(q, c) PROVE OnList(q, c)'
      <4>1. CASE Back(q) = <<n, p>>
        <5>1. PICK list : list = theyWant[Back(q)]
          OBVIOUS
        <5>2. list \in Seq(TheyEntries) /\ list # <<>> /\ list[1].cid = c /\ (list[1].cancel => Returns(q, c))
          BY <1>11, <3>1, <4>1, <5>1 DEF OnList
        <5>3. 1 \in 1..Len(list)
          BY <5>2
        <5>4. theyWant'[Back(q)] = MarkServed(list, BlocksTheyWant(n, p))
          BY <1>6, <4>1, <5>1
        <5>5. /\ theyWant'[Back(q)][1].cid = c
              /\ theyWant'[Back(q)][1].cancel => list[1].cancel \/ c \in BlocksTheyWant(n, p)
          BY <5>2, <5>3, <5>4, MarkServedList
        <5>6. c \in BlocksTheyWant(n, p) => Returns(q, c)'
          <6>1. SUFFICES ASSUME c \in BlocksTheyWant(n, p) PROVE Returns(q, c)'
            OBVIOUS
          <6>2. q[2] = n /\ q[1] = p
            BY <1>3, <4>1
          <6>3. m \in outbox'[q[2]] /\ m.to = q[1] /\ c \in m.payload
            BY <1>4, <1>5, <6>1, <6>2
          <6>4. QED
            BY <6>3, Zenon DEF Returns
        <5>7. theyWant'[Back(q)] # <<>>
          BY <2>2, <5>1, <5>2
        <5>8. theyWant'[Back(q)][1].cancel => Returns(q, c)'
          BY <1>8, <5>2, <5>5, <5>6, Zenon
        <5>9. QED
          BY <5>5, <5>7, <5>8, Zenon DEF OnList
      <4>2. CASE Back(q) # <<n, p>>
        <5>1. theyWant'[Back(q)] = theyWant[Back(q)]
          BY <1>3, <1>6, <4>2
        <5>2. QED
          BY <1>8, <3>1, <5>1, Zenon DEF OnList
      <4>3. QED
        BY <4>1, <4>2
    <3>2. QED
      BY <3>1
  <2>4. CASE weWant[q] = <<>>
    <3>1. NothingAsked(q)
      BY <2>4 DEF Tracked
    <3>2. \A o \in outbox'[q[1]] : o.to = q[2] => o.wants = <<>>
      <4>1. ASSUME NEW o \in outbox'[q[1]], o.to = q[2] PROVE o.wants = <<>>
        <5>1. ~(q[1] = n /\ o = m)
          BY <1>3, <1>5, <1>15, <4>1
        <5>2. o \in outbox[q[1]]
          BY <1>3, <1>10, <5>1
        <5>3. QED
          BY <3>1, <4>1, <5>2 DEF NothingAsked
      <4>2. QED
        BY <4>1
    <3>3. NothingAsked(q)'
      BY <1>9, <2>2, <3>1, <3>2 DEF NothingAsked
    <3>4. QED
      BY <2>1, <2>4, <3>3, Zenon DEF Tracked
  <2>5. CASE weWant[q] # <<>>
    <3>1. PICK c : c = weWant[q][1].cid
      OBVIOUS
    <3>2. InOutbox(q, c) \/ OnWire(q, c) \/ OnList(q, c)
      BY <2>5, <3>1 DEF Tracked
    <3>3. InOutbox(q, c) \/ OnWire(q, c) => theyWant'[Back(q)] = <<>>
      BY <2>2 DEF InOutbox, OnWire
    <3>4. InOutbox(q, c)' \/ OnWire(q, c)' \/ OnList(q, c)'
      BY <1>12, <1>13, <2>3, <3>2, <3>3, Zenon
    <3>5. QED
      BY <2>1, <2>5, <3>1, <3>4, Zenon DEF Tracked
  <2>6. QED
    BY <2>4, <2>5
<1>16. QED
  BY <1>14, <1>15

LEMMA TrackedSent ==
    ASSUME TypeOK, OthersOnly, SentAtOnce, NEW n \in Nodes, NEW m \in outbox[n], SendWritten(n, m),
           NEW q \in Pairs, Tracked(q)
    PROVE  Tracked(q)'
<1>1. /\ chan' = [chan EXCEPT ![<<n, m.to>>] = Append(@, m)]
      /\ outbox' = [outbox EXCEPT ![n] = @ \ {m}]
      /\ weWant' = weWant /\ theyWant' = theyWant /\ store' = store
  BY Zenon DEF SendWritten, nodeVars
<1>2. m \in Messages /\ m.to # n
  BY DEF TypeOK, OthersOnly
<1>3. m.to \in Nodes
  BY <1>2 DEF Messages
<1>4. /\ Back(q) \in Pairs /\ q = <<q[1], q[2]>> /\ Back(q) = <<q[2], q[1]>>
      /\ q[1] \in Nodes /\ q[2] \in Nodes /\ q[1] # q[2]
  BY BackPair DEF Back
<1>5. chan \in [Pairs -> Seq(Messages)] /\ outbox \in [Nodes -> SUBSET Messages]
  BY DEF TypeOK
<1>6. \A r \in Pairs : r # <<n, m.to>> => chan'[r] = chan[r]
  BY <1>1, <1>5
<1>7. \A r \in Pairs : r = <<n, m.to>> =>
         /\ chan[r] \in Seq(Messages)
         /\ Len(chan'[r]) = Len(chan[r]) + 1
         /\ \A i \in 1..Len(chan[r]) : chan'[r][i] = chan[r][i]
         /\ chan'[r][Len(chan[r]) + 1] = m
  BY <1>1, <1>2, <1>5
<1>8. \A r \in Pairs : \A i \in 1..Len(chan[r]) : i \in 1..Len(chan'[r]) /\ chan'[r][i] = chan[r][i]
  BY <1>6, <1>7
<1>9. \A k \in Nodes : outbox'[k] \subseteq outbox[k] /\ \A o \in outbox[k] : o \in outbox'[k] \/ (k = n /\ o = m)
  BY <1>1, <1>5
<1>10. \A c : Returns(q, c) => Returns(q, c)'
  <2>1. SUFFICES ASSUME NEW c, Returns(q, c) PROVE Returns(q, c)'
    OBVIOUS
  <2>2. CASE \E o \in outbox[q[2]] : o.to = q[1] /\ c \in o.payload
    <3>1. PICK o \in outbox[q[2]] : o.to = q[1] /\ c \in o.payload
      BY <2>2
    <3>2. CASE o \in outbox'[q[2]]
      BY <3>1, <3>2, Zenon DEF Returns
    <3>3. CASE q[2] = n /\ o = m
      <4>1. Back(q) = <<n, m.to>>
        BY <1>4, <3>1, <3>3
      <4>2. Len(chan[Back(q)]) + 1 \in 1..Len(chan'[Back(q)]) /\ chan'[Back(q)][Len(chan[Back(q)]) + 1] = m
        BY <1>4, <1>7, <4>1
      <4>3. QED
        BY <3>1, <3>3, <4>2, Zenon DEF Returns
    <3>4. QED
      BY <1>4, <1>9, <3>1, <3>2, <3>3
  <2>3. CASE \E i \in 1..Len(chan[Back(q)]) : c \in chan[Back(q)][i].payload
    <3>1. PICK i \in 1..Len(chan[Back(q)]) : c \in chan[Back(q)][i].payload
      BY <2>3
    <3>2. i \in 1..Len(chan'[Back(q)]) /\ c \in chan'[Back(q)][i].payload
      BY <1>4, <1>8, <3>1
    <3>3. QED
      BY <3>2, Zenon DEF Returns
  <2>4. CASE c \in store[q[1]]
    BY <1>1, <2>4, Zenon DEF Returns
  <2>5. QED
    BY <2>1, <2>2, <2>3, <2>4, Zenon DEF Returns
<1>11. \A c : OnList(q, c) => OnList(q, c)'
  BY <1>1, <1>10, Zenon DEF OnList
<1>12. ASSUME NEW c, OnWire(q, c) PROVE OnWire(q, c)'
  <2>1. PICK i \in 1..Len(chan[q]) : /\ chan[q][i].wants # <<>> /\ chan[q][i].wants[1] = c
                                     /\ \A j \in 1..(i - 1) : chan[q][j].wants = <<>>
    BY <1>12, Zenon DEF OnWire
  <2>2. chan[q] \in Seq(Messages)
    BY <1>5
  <2>3. \A j \in 1..(i - 1) : j \in 1..Len(chan[q])
    BY <2>1, <2>2
  <2>4. /\ i \in 1..Len(chan'[q]) /\ chan'[q][i].wants # <<>> /\ chan'[q][i].wants[1] = c
        /\ \A j \in 1..(i - 1) : chan'[q][j].wants = <<>>
    BY <1>8, <2>1, <2>3
  <2>5. theyWant'[Back(q)] = <<>>
    BY <1>1, <1>12 DEF OnWire
  <2>6. QED
    BY <2>4, <2>5, Zenon DEF OnWire
<1>13. ASSUME NoneOnWire(q), q # <<n, m.to>> \/ m.wants = <<>> PROVE NoneOnWire(q)'
  <2>1. ASSUME NEW i \in 1..Len(chan'[q]) PROVE chan'[q][i].wants = <<>>
    <3>1. CASE i \in 1..Len(chan[q])
      BY <1>8, <1>13, <3>1 DEF NoneOnWire
    <3>2. CASE i \notin 1..Len(chan[q])
      <4>1. q = <<n, m.to>>
        BY <1>6, <3>2
      <4>2. i = Len(chan[q]) + 1
        BY <1>7, <3>2, <4>1
      <4>3. QED
        BY <1>7, <1>13, <4>1, <4>2
    <3>3. QED
      BY <3>1, <3>2
  <2>2. QED
    BY <2>1 DEF NoneOnWire
<1>14. ASSUME NEW c, InOutbox(q, c) PROVE InOutbox(q, c)' \/ OnWire(q, c)'
  <2>1. /\ NoneOnWire(q) /\ theyWant'[Back(q)] = <<>>
        /\ \E o \in outbox[q[1]] : o.to = q[2] /\ o.wants # <<>> /\ o.wants[1] = c
    BY <1>1, <1>14, Zenon DEF InOutbox
  <2>2. PICK o \in outbox[q[1]] : o.to = q[2] /\ o.wants # <<>> /\ o.wants[1] = c
    BY <2>1
  <2>3. CASE q[1] = n /\ o = m
    <3>1. q = <<n, m.to>>
      BY <1>4, <2>2, <2>3
    <3>2. PICK i : i = Len(chan[q]) + 1
      OBVIOUS
    <3>3. i \in 1..Len(chan'[q]) /\ chan'[q][i] = m /\ \A j \in 1..(i - 1) : j \in 1..Len(chan[q])
      BY <1>7, <3>1, <3>2
    <3>4. \A j \in 1..(i - 1) : chan'[q][j].wants = <<>>
      BY <1>8, <2>1, <3>3 DEF NoneOnWire
    <3>5. OnWire(q, c)'
      BY <2>1, <2>2, <2>3, <3>3, <3>4, Zenon DEF OnWire
    <3>6. QED
      BY <3>5
  <2>4. CASE ~(q[1] = n /\ o = m)
    <3>1. o \in outbox'[q[1]]
      BY <1>4, <1>9, <2>4
    <3>2. q = <<n, m.to>> => m.wants = <<>>
      <4>1. SUFFICES ASSUME q = <<n, m.to>>, m.wants # <<>> PROVE FALSE
        OBVIOUS
      <4>2. q[1] = n
        BY <4>1
      <4>3. o.by = "want" /\ m.by = "want"
        BY <1>4, <2>2, <4>1, <4>2 DEF SentAtOnce
      <4>4. o = m
        BY <1>4, <4>2, <4>3 DEF SentAtOnce
      <4>5. QED
        BY <2>4, <4>2, <4>4
    <3>3. NoneOnWire(q)'
      BY <1>13, <2>1, <3>2, Zenon
    <3>4. InOutbox(q, c)'
      BY <2>1, <2>2, <3>1, <3>3, Zenon DEF InOutbox
    <3>5. QED
      BY <3>4
  <2>5. QED
    BY <2>3, <2>4
<1>15. CASE weWant[q] = <<>>
  <2>1. NothingAsked(q)
    BY <1>15 DEF Tracked
  <2>2. q = <<n, m.to>> => m.wants = <<>>
    <3>1. q = <<n, m.to>> => q[1] = n /\ q[2] = m.to
      OBVIOUS
    <3>2. QED
      BY <2>1, <3>1 DEF NothingAsked
  <2>3. NoneOnWire(q)'
    BY <1>13, <2>1, <2>2, Zenon DEF NothingAsked
  <2>4. \A o \in outbox'[q[1]] : o.to = q[2] => o.wants = <<>>
    BY <1>4, <1>9, <2>1 DEF NothingAsked
  <2>5. NothingAsked(q)'
    BY <1>1, <2>1, <2>3, <2>4 DEF NothingAsked
  <2>6. QED
    BY <1>1, <1>15, <2>5, Zenon DEF Tracked
<1>16. CASE weWant[q] # <<>>
  <2>1. PICK c : c = weWant[q][1].cid
    OBVIOUS
  <2>2. InOutbox(q, c) \/ OnWire(q, c) \/ OnList(q, c)
    BY <1>16, <2>1 DEF Tracked
  <2>3. InOutbox(q, c)' \/ OnWire(q, c)' \/ OnList(q, c)'
    BY <1>11, <1>12, <1>14, <2>2, Zenon
  <2>4. QED
    BY <1>1, <1>16, <2>1, <2>3, Zenon DEF Tracked
<1>17. QED
  BY <1>15, <1>16

LEMMA TrackedReceived ==
    ASSUME TypeOK, NEW n \in Nodes, NEW p \in Nodes, Receive(n, p), NEW q \in Pairs, Tracked(q)
    PROVE  Tracked(q)'
<1>1. /\ chan' = [chan EXCEPT ![<<p, n>>] = Tail(@)]
      /\ store' = [store EXCEPT ![n] = @ \cup Head(chan[<<p, n>>]).payload]
      /\ theyWant' = [theyWant EXCEPT ![<<n, p>>] = AdjustCidQueue(@, Head(chan[<<p, n>>]).wants)]
      /\ Arrived(n, p) /\ weWant' = weWant /\ outbox' = outbox
  BY Zenon DEF Receive
<1>2. PICK m : m = Head(chan[<<p, n>>])
  OBVIOUS
<1>3. m.wants \in Seq(Cids) /\ m = chan[<<p, n>>][1] /\ chan[<<p, n>>] # <<>> /\ n # p
  BY <1>1, <1>2, ArrivedMessage DEF Arrived
<1>4. <<n, p>> \in Pairs /\ <<p, n>> \in Pairs
  BY <1>3, PairsOf
<1>5. /\ chan \in [Pairs -> Seq(Messages)]
      /\ theyWant \in [Pairs -> Seq(TheyEntries)]
      /\ store \in [Nodes -> SUBSET Cids]
  BY DEF TypeOK, TheyEntries
<1>6. /\ \A r \in Pairs : r # <<p, n>> => chan'[r] = chan[r]
      /\ \A r \in Pairs : r # <<n, p>> => theyWant'[r] = theyWant[r]
      /\ theyWant'[<<n, p>>] = AdjustCidQueue(theyWant[<<n, p>>], m.wants)
  BY <1>1, <1>2, <1>4, <1>5
<1>7. /\ chan[<<p, n>>] \in Seq(Messages) /\ chan'[<<p, n>>] = Tail(chan[<<p, n>>])
      /\ \A k \in Nodes : store[k] \subseteq store'[k]
      /\ m.payload \subseteq store'[n]
  BY <1>1, <1>2, <1>4, <1>5
<1>8. /\ Len(chan'[<<p, n>>]) = Len(chan[<<p, n>>]) - 1
      /\ Len(chan[<<p, n>>]) >= 1
      /\ \A i \in 1..Len(chan'[<<p, n>>]) : chan'[<<p, n>>][i] = chan[<<p, n>>][i + 1]
  BY <1>3, <1>7
<1>9. /\ Back(q) \in Pairs /\ q = <<q[1], q[2]>> /\ Back(q) = <<q[2], q[1]>>
      /\ q[1] \in Nodes /\ q[2] \in Nodes /\ q[1] # q[2]
  BY BackPair DEF Back
<1>10. \A c : Returns(q, c) => Returns(q, c)'
  <2>1. SUFFICES ASSUME NEW c, Returns(q, c) PROVE Returns(q, c)'
    OBVIOUS
  <2>2. CASE \E o \in outbox[q[2]] : o.to = q[1] /\ c \in o.payload
    BY <1>1, <2>2, Zenon DEF Returns
  <2>3. CASE c \in store[q[1]]
    BY <1>7, <1>9, <2>3, Zenon DEF Returns
  <2>4. CASE \E i \in 1..Len(chan[Back(q)]) : c \in chan[Back(q)][i].payload
    <3>1. CASE Back(q) # <<p, n>>
      BY <1>6, <1>9, <2>4, <3>1, Zenon DEF Returns
    <3>2. CASE Back(q) = <<p, n>>
      <4>1. PICK i \in 1..Len(chan[<<p, n>>]) : c \in chan[<<p, n>>][i].payload
        BY <2>4, <3>2
      <4>2. CASE i = 1
        <5>1. q[1] = n /\ c \in store'[n]
          BY <1>3, <1>7, <1>9, <3>2, <4>1, <4>2
        <5>2. QED
          BY <5>1, Zenon DEF Returns
      <4>3. CASE i # 1
        <5>1. i - 1 \in 1..Len(chan'[<<p, n>>]) /\ (i - 1) + 1 = i
          BY <1>7, <1>8, <4>1, <4>3
        <5>2. c \in chan'[<<p, n>>][i - 1].payload
          BY <1>8, <4>1, <5>1
        <5>3. QED
          BY <3>2, <5>1, <5>2, Zenon DEF Returns
      <4>4. QED
        BY <4>2, <4>3
    <3>3. QED
      BY <3>1, <3>2
  <2>5. QED
    BY <2>1, <2>2, <2>3, <2>4, Zenon DEF Returns
<1>11. CASE q # <<p, n>>
  <2>1. Back(q) # <<n, p>>
    BY <1>9, <1>11
  <2>2. theyWant'[Back(q)] = theyWant[Back(q)] /\ chan'[q] = chan[q]
    BY <1>6, <1>9, <1>11, <2>1
  <2>3. CASE weWant[q] = <<>>
    <3>1. NothingAsked(q)
      BY <2>3 DEF Tracked
    <3>2. NothingAsked(q)'
      BY <1>1, <2>2, <3>1 DEF NothingAsked, NoneOnWire
    <3>3. QED
      BY <1>1, <2>3, <3>2, Zenon DEF Tracked
  <2>4. CASE weWant[q] # <<>>
    <3>1. PICK c : c = weWant[q][1].cid
      OBVIOUS
    <3>2. InOutbox(q, c) \/ OnWire(q, c) \/ OnList(q, c)
      BY <2>4, <3>1 DEF Tracked
    <3>3. InOutbox(q, c) => InOutbox(q, c)'
      BY <1>1, <2>2, Zenon DEF InOutbox, NoneOnWire
    <3>4. OnWire(q, c) => OnWire(q, c)'
      BY <2>2, Zenon DEF OnWire
    <3>5. OnList(q, c) => OnList(q, c)'
      BY <1>10, <2>2, Zenon DEF OnList
    <3>6. QED
      BY <1>1, <2>4, <3>1, <3>2, <3>3, <3>4, <3>5, Zenon DEF Tracked
  <2>5. QED
    BY <2>3, <2>4
<1>12. CASE q = <<p, n>>
  <2>1. Back(q) = <<n, p>>
    BY <1>9, <1>12
  <2>2. PICK list : list = theyWant[Back(q)]
    OBVIOUS
  <2>3. list \in Seq(TheyEntries) /\ theyWant'[Back(q)] = AdjustCidQueue(list, m.wants)
    BY <1>5, <1>6, <1>9, <2>1, <2>2
  <2>4. list # <<>> \/ m.wants = <<>> => theyWant'[Back(q)] = list
    BY <1>3, <2>3, AdjustedList
  <2>5. \A c : OnList(q, c) => OnList(q, c)'
    BY <1>10, <2>2, <2>4, Zenon DEF OnList
  <2>6. NoneOnWire(q) => NoneOnWire(q)' /\ m.wants = <<>>
    <3>1. SUFFICES ASSUME NoneOnWire(q) PROVE NoneOnWire(q)' /\ m.wants = <<>>
      OBVIOUS
    <3>2. \A i \in 1..Len(chan[<<p, n>>]) : chan[<<p, n>>][i].wants = <<>>
      BY <1>12, <3>1 DEF NoneOnWire
    <3>3. m.wants = <<>>
      BY <1>3, <1>7, <1>8, <3>2
    <3>4. \A i \in 1..Len(chan'[<<p, n>>]) : chan'[<<p, n>>][i].wants = <<>>
      BY <1>7, <1>8, <3>2
    <3>5. QED
      BY <1>12, <3>3, <3>4 DEF NoneOnWire
  <2>7. CASE weWant[q] = <<>>
    <3>1. NothingAsked(q)
      BY <2>7 DEF Tracked
    <3>2. NothingAsked(q)'
      BY <1>1, <2>2, <2>4, <2>6, <3>1 DEF NothingAsked
    <3>3. QED
      BY <1>1, <2>7, <3>2, Zenon DEF Tracked
  <2>8. CASE weWant[q] # <<>>
    <3>1. PICK c : c = weWant[q][1].cid
      OBVIOUS
    <3>2. InOutbox(q, c) \/ OnWire(q, c) \/ OnList(q, c)
      BY <2>8, <3>1 DEF Tracked
    <3>3. InOutbox(q, c) => InOutbox(q, c)'
      <4>1. InOutbox(q, c) => theyWant'[Back(q)] = <<>> /\ NoneOnWire(q)'
        BY <2>2, <2>4, <2>6 DEF InOutbox
      <4>2. QED
        BY <1>1, <4>1, Zenon DEF InOutbox
    <3>4. OnWire(q, c) => OnWire(q, c)' \/ OnList(q, c)'
      <4>1. SUFFICES ASSUME OnWire(q, c) PROVE OnWire(q, c)' \/ OnList(q, c)'
        OBVIOUS
      <4>2. list = <<>>
        BY <2>2, <4>1 DEF OnWire
      <4>3. PICK i \in 1..Len(chan[<<p, n>>]) :
                /\ chan[<<p, n>>][i].wants # <<>> /\ chan[<<p, n>>][i].wants[1] = c
                /\ \A j \in 1..(i - 1) : chan[<<p, n>>][j].wants = <<>>
        BY <1>12, <4>1, Zenon DEF OnWire
      <4>4. CASE i = 1
        <5>1. m.wants # <<>> /\ m.wants[1] = c
          BY <1>3, <4>3, <4>4
        <5>2. theyWant'[Back(q)] = <<[cid |-> c, cancel |-> FALSE]>>
          BY <1>3, <2>3, <4>2, <5>1, AdjustedList, Zenon
        <5>3. /\ theyWant'[Back(q)] # <<>> /\ theyWant'[Back(q)][1].cid = c
              /\ theyWant'[Back(q)][1].cancel = FALSE
          BY <5>2
        <5>4. OnList(q, c)'
          BY <5>3, Zenon DEF OnList
        <5>5. QED
          BY <5>4
      <4>5. CASE i # 1
        <5>1. 1 \in 1..(i - 1) /\ i - 1 \in 1..Len(chan'[<<p, n>>]) /\ (i - 1) + 1 = i
          BY <1>7, <1>8, <4>3, <4>5
        <5>2. m.wants = <<>>
          BY <1>3, <4>3, <5>1
        <5>3. theyWant'[Back(q)] = <<>>
          BY <2>4, <4>2, <5>2
        <5>4. chan'[<<p, n>>][i - 1] = chan[<<p, n>>][i]
          BY <1>8, <5>1
        <5>5. \A j \in 1..((i - 1) - 1) : chan'[<<p, n>>][j].wants = <<>>
          <6>1. ASSUME NEW j \in 1..((i - 1) - 1) PROVE chan'[<<p, n>>][j].wants = <<>>
            <7>1. j \in 1..Len(chan'[<<p, n>>]) /\ j + 1 \in 1..(i - 1)
              BY <1>7, <1>8, <4>3
            <7>2. QED
              BY <1>8, <4>3, <7>1
          <6>2. QED
            BY <6>1
        <5>6. chan'[q][i - 1].wants # <<>> /\ chan'[q][i - 1].wants[1] = c
          BY <1>12, <4>3, <5>4
        <5>7. OnWire(q, c)'
          BY <1>12, <5>1, <5>3, <5>5, <5>6, Zenon DEF OnWire
        <5>8. QED
          BY <5>7
      <4>6. QED
        BY <4>4, <4>5
    <3>5. QED
      BY <1>1, <2>5, <2>8, <3>1, <3>2, <3>3, <3>4, Zenon DEF Tracked
  <2>9. QED
    BY <2>7, <2>8
<1>13. QED
  BY <1>11, <1>12

LEMMA FirstTrackedStep ==
    ASSUME TypeOK, OthersOnly, FirstLife, FirstTracked, [Next]_vars
    PROVE  FirstTracked'
<1>1. SUFFICES ASSUME Undisturbed' PROVE SentAtOnce' /\ \A q \in Pairs : Tracked(q)'
  BY DEF FirstTracked
<1>2. SentAtOnce'
  BY <1>1, SentAtOnceStep
<1>3. Undisturbed
  BY <1>1, UndisturbedStep
<1>4. SentAtOnce /\ \A q \in Pairs : Tracked(q)
  BY <1>3 DEF FirstTracked
<1>5. ASSUME NEW q \in Pairs PROVE Tracked(q)'
  <2>1. Tracked(q)
    BY <1>4
  <2>2. CASE Quiet
    BY <2>1, <2>2 DEF Quiet, Tracked, NothingAsked, InOutbox, OnWire, OnList, NoneOnWire, Returns
  <2>3. ASSUME NEW n \in Nodes, NEW p \in Nodes, NEW th \in Threads, NEW ww \in Seq(WeEntries),
               Built(n, p, th, ww)
        PROVE  Tracked(q)'
    BY <1>4, <2>1, <2>3, TrackedBuilt
  <2>4. ASSUME NEW n \in Nodes, NEW m \in outbox[n], SendWritten(n, m)
        PROVE  Tracked(q)'
    BY <1>4, <2>1, <2>4, TrackedSent
  <2>5. ASSUME NEW n \in Nodes, NEW p \in Nodes, Receive(n, p)
        PROVE  Tracked(q)'
    BY <2>1, <2>5, TrackedReceived
  <2>6. QED
    BY <1>1, <2>2, <2>3, <2>4, <2>5, UndisturbedStep
<1>6. QED
  BY <1>2, <1>5

(* The inductive invariant.                                                *)
IInv == TypeOK /\ OthersOnly /\ Requested /\ FirstLife /\ FirstTracked /\ HasBlockHasQueue

LEMMA InitIInv == Init => IInv
<1> SUFFICES ASSUME Init PROVE IInv
  OBVIOUS
<1> USE BitswapAssumption
<1>1. <<>> \in Seq(WeEntries) /\ <<>> \in Seq(TheyEntries) /\ <<>> \in Seq(Messages)
  BY EmptyList, Zenon
<1>2. /\ status = [n \in Nodes |-> "up"] /\ store = Initial
      /\ wanted = [n \in Nodes |-> {}] /\ asked = [n \in Nodes |-> {}]
      /\ current = [n \in Nodes |-> {}] /\ providers = [n \in Nodes |-> {}]
      /\ faults = 0 /\ stops = 0
  BY DEF Init
<1>3. /\ weWant = [q \in Pairs |-> <<>>] /\ theyWant = [q \in Pairs |-> <<>>]
      /\ outbox = [n \in Nodes |-> {}] /\ link = {} /\ view = [q \in Pairs |-> FALSE]
      /\ chan = [q \in Pairs |-> <<>>] /\ requested = [q \in Pairs |-> {}]
  BY DEF Init
<1>4. NodeType
  BY <1>2 DEF NodeType
<1>5. ListType /\ NetType
  BY <1>1, <1>3, Zenon DEF ListType, NetType
<1>6. TypeOK
  BY <1>4, <1>5, TypeOKParts
<1>7. OthersOnly
  BY <1>2, <1>3 DEF OthersOnly
<1>8. \A q \in Pairs : weWant[q] = <<>> /\ theyWant[q] = <<>> /\ chan[q] = <<>> /\ ~view[q] /\ requested[q] = {}
  BY <1>3, Zenon
<1>9. \A q \in Pairs : 1..Len(weWant[q]) = {} /\ 1..Len(theyWant[q]) = {} /\ 1..Len(chan[q]) = {}
  BY <1>8
<1>10. \A n \in Nodes : outbox[n] = {} /\ current[n] = {} /\ status[n] = "up"
  BY <1>2, <1>3
<1>11. Requested
  BY <1>9, <1>10 DEF Requested, ListsRequested, OutboxRequested, WireRequested
<1>12. FirstLife
  BY <1>8, <1>9, <1>10 DEF FirstLife
<1>13. SentAtOnce
  BY <1>8, <1>9, <1>10 DEF SentAtOnce
<1>14. \A q \in Pairs : Tracked(q)
  BY <1>8, <1>9, <1>10, BackPair DEF Tracked, NothingAsked, NoneOnWire
<1>15. HasBlockHasQueue
  BY <1>10 DEF HasBlockHasQueue
<1>16. QED
  BY <1>6, <1>7, <1>11, <1>12, <1>13, <1>14, <1>15 DEF IInv, FirstTracked

LEMMA NextIInv == IInv /\ [Next]_vars => IInv'
<1> SUFFICES ASSUME IInv, [Next]_vars PROVE IInv'
  OBVIOUS
<1>1. TypeOK /\ OthersOnly /\ Requested /\ FirstLife /\ FirstTracked /\ HasBlockHasQueue
  BY DEF IInv
<1>2. TypeOK'
  BY <1>1, TypeStep
<1>3. OthersOnly'
  BY <1>1, OthersStep
<1>4. Requested'
  BY <1>1, RequestedStep
<1>5. FirstLife'
  BY <1>1, FirstLifeStep
<1>6. FirstTracked'
  BY <1>1, FirstTrackedStep
<1>7. HasBlockHasQueue'
  BY <1>1, HasBlockStep
<1>8. QED
  BY <1>2, <1>3, <1>4, <1>5, <1>6, <1>7 DEF IInv

LEMMA IInvAlways == Spec => []IInv
BY InitIInv, NextIInv, PTL DEF Spec

(* Nodes, lists, messages and channels keep their types, whatever breaks   *)
(* or goes down.                                                           *)
THEOREM TypeCorrect == Spec => []TypeOK
<1>1. IInv => TypeOK
  BY DEF IInv
<1>2. QED
  BY <1>1, IInvAlways, PTL

(* A node is sent a block only by a peer it asked for that block: through  *)
(* broken connections, restarts and both threads of both ends              *)
(* (get_blocks_they_want, ipfs_bitswap_network_handle_message).            *)
THEOREM NobodySentUnasked == Spec => []OnlyRequestedTravels
<1>1. IInv => OnlyRequestedTravels
  BY DEF IInv, Requested, WireRequested, OnlyRequestedTravels, Back
<1>2. QED
  BY <1>1, IInvAlways, PTL

(* While nothing breaks, the first request a node has marked as sent to a  *)
(* peer (request_has_been_sent) is in its outbox, on the wire or on the    *)
(* peer's list, or the answer is on its way or has come.                   *)
THEOREM RequestNotForgotten == Spec => []RequestIsSomewhere
<1>1. ASSUME IInv PROVE RequestIsSomewhere
  <2>1. SUFFICES ASSUME Undisturbed, NEW q \in Pairs, NEW c \in FirstWant(q)
                 PROVE  \/ \E m \in outbox[q[1]] : m.to = q[2] /\ c \in Range(m.wants)
                        \/ \E i \in 1..Len(chan[q]) : c \in Range(chan[q][i].wants)
                        \/ \E d \in Range(theyWant[Back(q)]) : d.cid = c /\ ~d.cancel
                        \/ Returns(q, c)
    BY Zenon DEF RequestIsSomewhere, Returns, Back
  <2>2. Tracked(q) /\ TypeOK
    BY <1>1, <2>1 DEF IInv, FirstTracked
  <2>3. Back(q) \in Pairs /\ q[1] \in Nodes
    BY BackPair
  <2>4. /\ weWant[q] \in Seq(WeEntries) /\ theyWant[Back(q)] \in Seq(TheyEntries)
        /\ chan[q] \in Seq(Messages) /\ outbox[q[1]] \subseteq Messages
    BY <2>2, <2>3 DEF TypeOK, WeEntries, TheyEntries
  <2>5. weWant[q] # <<>> /\ c = weWant[q][1].cid
    BY <2>4 DEF FirstWant
  <2>6. InOutbox(q, c) \/ OnWire(q, c) \/ OnList(q, c)
    BY <2>2, <2>5 DEF Tracked
  <2>7. CASE InOutbox(q, c)
    <3>1. PICK m \in outbox[q[1]] : m.to = q[2] /\ m.wants # <<>> /\ m.wants[1] = c
      BY <2>7 DEF InOutbox
    <3>2. m.wants \in Seq(Cids)
      BY <2>4, <3>1 DEF Messages
    <3>3. c \in Range(m.wants)
      BY <3>1, <3>2, FirstInRange
    <3>4. QED
      BY <3>1, <3>3
  <2>8. CASE OnWire(q, c)
    <3>1. PICK i \in 1..Len(chan[q]) : chan[q][i].wants # <<>> /\ chan[q][i].wants[1] = c
      BY <2>8 DEF OnWire
    <3>2. chan[q][i] \in Messages
      BY <2>4, <3>1
    <3>3. chan[q][i].wants \in Seq(Cids)
      BY <3>2 DEF Messages
    <3>4. c \in Range(chan[q][i].wants)
      BY <3>1, <3>3, FirstInRange
    <3>5. QED
      BY <3>1, <3>4
  <2>9. CASE OnList(q, c)
    <3>1. theyWant[Back(q)][1] \in Range(theyWant[Back(q)])
      BY <2>4, <2>9, FirstInRange DEF OnList
    <3>2. QED
      BY <2>9, <3>1 DEF OnList
  <2>10. QED
    BY <2>6, <2>7, <2>8, <2>9
<1>2. QED
  BY <1>1, IInvAlways, PTL

(* In the first life of the nodes HasBlock never meets a want list that    *)
(* was not made: a node can die of it only after a restart.                *)
THEOREM QueueThereInFirstLife == Spec => []HasBlockHasQueue
<1>1. IInv => HasBlockHasQueue
  BY DEF IInv
<1>2. QED
  BY <1>1, IInvAlways, PTL
=============================================================================

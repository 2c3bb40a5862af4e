---------------------------- MODULE RoutingProofs ----------------------------
(* Theorems about the routing between nodes (module Routing): for any nodes,  *)
(* keys, connections, calls and announcements made before; and, in the second *)
(* half, about the searches of the DHT (module DhtSearch): for any peers,     *)
(* hashes, numbers of bits, of nodes and of searches.                         *)
EXTENDS Routing, DhtSearch, WellFoundedInduction, FiniteSetTheorems, SequenceTheorems, TLAPS

(***************************************************************************)
(* The inductive invariant                                                 *)
(***************************************************************************)
Asked == {"get_providers", "add_provider", "find_node", "get_value", "put_value", "ping"}

\* The keys of published names.
Names == {NameOf[n] : n \in Nodes}

Bodies == [t : Asked, key : Keys \cup Nodes, provs : SUBSET Peers, rec : SUBSET Keys]

CallRecords ==
  [op : AllOps \cup {None}, key : Keys \cup Nodes \cup {None}, at : Nat,
   step : {"idle", "walk", "direct", "value", "upgrade", "reply"},
   who : Nodes \cup {None}, ask : Asked \cup {None}, found : SUBSET Nodes, got : SUBSET Keys]

\* A node that read a file that is not there had the record of a name.
Fatal == crashed = "file" => \E n, p \in Nodes : Bare(p, NameOf[n])

Ends == {{q[1], q[2]} : q \in Pairs}

Types ==
  /\ store \in [Nodes -> Seq(Nodes)]
  /\ conn \in [Pairs -> {"yes", "no", "ghost"}]
  /\ provs \in [Nodes -> Seq(Entries)]
  /\ chan \in [Pairs -> Seq(Messages)]
  /\ server \in [Pairs -> {"none", "listen", "msg", "ended"}]
  /\ client \in [Nodes -> CallRecords]
  /\ puts \in [Nodes -> SUBSET Names]
  /\ calls \in 0 .. MaxCalls /\ faults \in 0 .. MaxFaults
  /\ crashed \in {"no", "session", "file"} /\ Fatal
  /\ provided \subseteq Entries /\ published \subseteq Entries
  /\ faulty \subseteq Ends /\ shared \subseteq Ends

\* What a thread in a call is about.
Placed(n, c) ==
  c.step # "idle" =>
    /\ c.op \in AllOps /\ c.got = {} /\ c.at >= 1
    /\ IF c.op \in {"peer", "ping"} THEN c.key \in Nodes ELSE c.key \in Keys
    /\ c.op = "provide" => [key |-> c.key, id |-> n] \in provided
    /\ c.op = "name" => c.key \in Names
    /\ c.step = "reply" => c.ask # "put_value"
    /\ IF c.op = "value" /\ c.ask = "get_value" THEN c.found # {}
       ELSE c.ask = RequestOf[c.op] /\ c.found = {}
    /\ c.step = "walk" => c.op # "ping" /\ c.ask # "get_value"
    /\ c.step = "direct" => c.op = "ping"
    /\ c.step = "value" => c.op = "value" /\ c.ask = "get_value"
    /\ c.step \in {"upgrade", "reply"} => c.who \in Nodes \ {n}

\* An announcement is one that was made, and a record one of a name.
Honest(m) ==
  /\ m.t = "add_provider" => \A e \in m.provs : [key |-> m.key, id |-> e.id] \in provided
  /\ m.t = "put_value" => m.rec \subseteq Names

\* So are those under way, wherever they strayed.
Truthful == \A q \in Pairs : \A i \in 1 .. Len(chan[q]) : Honest(chan[q][i])

\* The tables name what was announced; a node knows itself and, from the start,
\* those it is connected to.
Tables ==
  /\ \A n \in Nodes : Elements(provs[n]) \subseteq provided
  /\ \A n \in Nodes : Elements(Before[n]) \subseteq provided
  /\ \A n \in Nodes : Knows(n, n) /\ \A p \in Neighbours(n) : Knows(n, p)

\* A stream has two ends, and a session has a stream.
Streams ==
  /\ \A q \in Pairs : server[q] = "none" => server[<<q[2], q[1]>>] = "none"
  /\ \A q \in Pairs : conn[q] = "yes" => server[q] # "none"
  /\ \A q \in Pairs : {q[1], q[2]} \in Links => server[q] # "none"

Quiet(n, p) == {n, p} \notin faulty \cup shared

\* Nobody asks.
Rest(n, p) ==
  /\ ~Waits(n, p) /\ ~Waits(p, n)
  /\ chan[<<n, p>>] = <<>> /\ chan[<<p, n>>] = <<>>
  /\ server[<<n, p>>] = server[<<p, n>>]
  /\ server[<<n, p>>] \in {"none", "listen"}

\* r answers the question of the call c of n to p.
Correct(c, n, p, r) ==
  /\ r.t = c.ask
  /\ c.ask = "get_providers" => \A e \in r.provs :
        Has(e.id, c.key) \/ [key |-> c.key, id |-> e.id] \in provided
  /\ c.ask = "find_node" => \A e \in r.provs : e.id = c.key
  /\ c.ask = "add_provider" => [key |-> c.key, id |-> n] \in Elements(provs[p])
  /\ r.rec \subseteq {c.key}

Answer(n, p) ==
  \/ chan[<<p, n>>] = <<>> /\ client[n].ask # "add_provider"
  \/ \E r \in Messages : chan[<<p, n>>] = <<r>> /\ Correct(client[n], n, p, r)

\* A record on its way is not answered, and nobody waits for it.
Records == {m \in Bodies : m.t = "put_value"}

Putting(n, p) ==
  /\ ~Waits(n, p) /\ ~Waits(p, n)
  /\ server[<<n, p>>] = "listen" /\ server[<<p, n>>] = "msg"
  /\ \E m \in Records : chan[<<n, p>>] = <<m>>
  /\ chan[<<p, n>>] = <<>>

\* How far n is with asking p; a record may still be under way.
Stage(n, p) ==
  \/ /\ client[n].step = "upgrade" /\ server[<<p, n>>] = "listen"
     /\ chan[<<n, p>>] = <<Header>> /\ chan[<<p, n>>] = <<>>
  \/ /\ client[n].step = "upgrade" /\ server[<<p, n>>] = "msg"
     /\ chan[<<n, p>>] = <<>> /\ chan[<<p, n>>] = <<Header>>
  \/ /\ client[n].step = "reply" /\ server[<<p, n>>] = "msg"
     /\ chan[<<n, p>>] = <<Request(n)>> /\ chan[<<p, n>>] = <<>>
  \/ /\ client[n].step = "reply" /\ server[<<p, n>>] = "listen"
     /\ chan[<<n, p>>] = <<>> /\ Answer(n, p)
  \/ /\ client[n].step = "upgrade" /\ server[<<p, n>>] = "msg"
     /\ \E m \in Records : chan[<<n, p>>] = <<m, Header>>
     /\ chan[<<p, n>>] = <<>>

Asking(n, p) ==
  /\ Waits(n, p) /\ ~Waits(p, n)
  /\ server[<<n, p>>] = "listen"
  /\ Stage(n, p)

\* On a stream that was never disturbed one node asks and the other answers.
Calm(n, p) == Rest(n, p) \/ Asking(n, p) \/ Asking(p, n) \/ Putting(n, p) \/ Putting(p, n)

Orderly == \A q \in Pairs : Quiet(q[1], q[2]) => Calm(q[1], q[2])

\* The announcement of k by n has reached p, if n could be expected to reach it.
Reached(n, p, k) ==
  {n, p} \in Links /\ Quiet(n, p) /\ conn[<<n, p>>] = "yes" =>
    [key |-> k, id |-> n] \in Elements(provs[p])

\* Provide has told every peer that it passed.
Walked(n) ==
  client[n].op = "provide" /\ client[n].step # "idle" =>
    /\ \A j \in 1 .. Len(store[n]) :
         j < client[n].at /\ store[n][j] # n => Reached(n, store[n][j], client[n].key)
    /\ client[n].at <= Len(store[n]) + 1
    /\ client[n].step \in {"upgrade", "reply"} =>
         client[n].at <= Len(store[n]) /\ client[n].who = store[n][client[n].at]

Told ==
  /\ \A n \in Nodes : Walked(n)
  /\ \A q \in Pairs, k \in Keys :
       [key |-> k, id |-> q[1]] \in published => Reached(q[1], q[2], k)

Answers == \A n \in Nodes : Right(client[n]) \/ Disturbed(n)

IInv ==
  /\ Types /\ (\A n \in Nodes : Placed(n, client[n]))
  /\ Truthful /\ Tables /\ Streams /\ Orderly /\ Told /\ Answers


-----------------------------------------------------------------------------
(* Pairs, messages, streams.                                                *)

LEMMA PairParts ==
  ASSUME NEW q \in Pairs
  PROVE  /\ q[1] \in Nodes /\ q[2] \in Nodes /\ q[1] # q[2] /\ q = <<q[1], q[2]>>
         /\ <<q[2], q[1]>> \in Pairs
BY DEF Pairs

LEMMA PairOf ==
  ASSUME NEW n \in Nodes, NEW p \in Nodes, n # p
  PROVE  <<n, p>> \in Pairs /\ <<p, n>> \in Pairs /\ <<n, p>> # <<p, n>>
BY DEF Pairs

LEMMA MessageKinds ==
  ASSUME NEW m \in Messages
  PROVE  /\ ~Decodes(m) => m \in {Header, Na}
         /\ Decodes(m) => /\ m.t \in Asked /\ m.key \in Keys \cup Nodes /\ m.provs \subseteq Peers
                          /\ m.rec \subseteq Keys /\ m \in Bodies
BY DEF Messages, Decodes, Header, Na, Asked, Bodies

LEMMA BodyIsMessage == ASSUME NEW m \in Bodies PROVE m \in Messages /\ Decodes(m)
BY DEF Messages, Bodies, Asked, Decodes

LEMMA Greeting ==
  /\ Header \in Messages /\ Na \in Messages /\ ~Decodes(Header) /\ ~Decodes(Na)
  /\ Header.t = "header" /\ Na.t = "na"
BY DEF Messages, Decodes, Header, Na

\* The streams keep what they have, but for new messages of M.
Feeds(M) ==
  /\ chan' \in [Pairs -> Seq(Messages)]
  /\ \A q \in Pairs : \A i \in 1 .. Len(chan'[q]) :
       chan'[q][i] \in M \/ \E j \in 1 .. Len(chan[q]) : chan'[q][i] = chan[q][j]

LEMMA TailOf ==
  ASSUME NEW S, NEW s \in Seq(S), s # <<>>
  PROVE  /\ Tail(s) \in Seq(S) /\ Head(s) \in S /\ Head(s) = s[1] /\ Len(s) >= 1
         /\ \A i \in 1 .. Len(Tail(s)) : Tail(s)[i] = s[i + 1] /\ i + 1 \in 1 .. Len(s)
BY HeadTailProperties

LEMMA AppendOf ==
  ASSUME NEW S, NEW s \in Seq(S), NEW e \in S
  PROVE  /\ Append(s, e) \in Seq(S) /\ Len(Append(s, e)) = Len(s) + 1
         /\ \A i \in 1 .. Len(s) : Append(s, e)[i] = s[i]
         /\ \A i \in 1 .. Len(s) + 1 : Append(s, e)[i] = e \/ i \in 1 .. Len(s)
         /\ Append(s, e)[Len(s) + 1] = e
BY AppendProperties

\* Two messages are two, however they came together.
LEMMA AppendSecond ==
  ASSUME NEW S, NEW r \in S, NEW t \in S, NEW s, s = <<r>>
  PROVE  Append(s, t) = <<r, t>>
<1>1. s \in Seq(S) /\ Len(s) = 1 /\ s[1] = r
  OBVIOUS
<1>2. PICK z : z = Append(s, t)
  OBVIOUS
<1>3. z \in Seq(S) /\ Len(z) = 2 /\ z[1] = r /\ z[2] = t
  BY <1>1, <1>2, AppendOf
<1>4. <<r, t>> \in Seq(S) /\ Len(<<r, t>>) = 2 /\ <<r, t>>[1] = r /\ <<r, t>>[2] = t
  OBVIOUS
<1>5. \A i \in 1 .. Len(z) : z[i] = <<r, t>>[i]
  BY <1>3, <1>4
<1>6. z = <<r, t>>
  BY <1>3, <1>4, <1>5, SeqEqual
<1>7. QED
  BY <1>2, <1>6

LEMMA TakeEffect ==
  ASSUME Types, NEW in \in Pairs, chan[in] # <<>>, Take(in)
  PROVE  /\ Feeds({}) /\ chan'[in] = Tail(chan[in])
         /\ \A q \in Pairs \ {in} : chan'[q] = chan[q]
<1>1. /\ chan \in [Pairs -> Seq(Messages)] /\ chan' = [chan EXCEPT ![in] = Tail(chan[in])]
  BY Zenon DEF Types, Take
<1>2. /\ chan'[in] = Tail(chan[in]) /\ \A q \in Pairs \ {in} : chan'[q] = chan[q]
  BY <1>1
<1>3. chan[in] \in Seq(Messages)
  BY <1>1
<1>4. PICK s : s = Tail(chan[in])
  OBVIOUS
<1>5. /\ s \in Seq(Messages)
      /\ \A i \in 1 .. Len(s) : s[i] = chan[in][i + 1] /\ i + 1 \in 1 .. Len(chan[in])
  BY <1>3, <1>4, TailOf
<1>6. chan' \in [Pairs -> Seq(Messages)]
  BY <1>1, <1>4, <1>5
<1>7. ASSUME NEW q \in Pairs, NEW i \in 1 .. Len(chan'[q])
      PROVE  \E j \in 1 .. Len(chan[q]) : chan'[q][i] = chan[q][j]
  <2>1. CASE q = in
    BY <1>2, <1>4, <1>5, <1>7, <2>1
  <2>2. CASE q # in
    BY <1>2, <1>7, <2>2
  <2>3. QED
    BY <2>1, <2>2
<1>8. QED
  BY <1>2, <1>6, <1>7 DEF Feeds

LEMMA SendEffect ==
  ASSUME Types, NEW out \in Pairs, NEW m \in Messages, Send(out, m)
  PROVE  /\ Feeds({m}) /\ chan'[out] = Append(chan[out], m)
         /\ \A q \in Pairs \ {out} : chan'[q] = chan[q]
<1>1. /\ chan \in [Pairs -> Seq(Messages)] /\ chan' = [chan EXCEPT ![out] = Append(chan[out], m)]
  BY Zenon DEF Types, Send
<1>2. /\ chan'[out] = Append(chan[out], m) /\ \A q \in Pairs \ {out} : chan'[q] = chan[q]
  BY <1>1
<1>3. chan[out] \in Seq(Messages)
  BY <1>1
<1>4. PICK s : s = Append(chan[out], m)
  OBVIOUS
<1>5. /\ s \in Seq(Messages) /\ Len(s) = Len(chan[out]) + 1
      /\ \A i \in 1 .. Len(chan[out]) : s[i] = chan[out][i]
      /\ \A i \in 1 .. Len(chan[out]) + 1 : s[i] = m \/ i \in 1 .. Len(chan[out])
  BY <1>3, <1>4, AppendOf
<1>6. chan' \in [Pairs -> Seq(Messages)]
  BY <1>1, <1>4, <1>5
<1>7. ASSUME NEW q \in Pairs, NEW i \in 1 .. Len(chan'[q])
      PROVE  chan'[q][i] \in {m} \/ \E j \in 1 .. Len(chan[q]) : chan'[q][i] = chan[q][j]
  <2>1. CASE q = out
    BY <1>2, <1>4, <1>5, <1>7, <2>1
  <2>2. CASE q # out
    BY <1>2, <1>7, <2>2
  <2>3. QED
    BY <2>1, <2>2
<1>8. QED
  BY <1>2, <1>6, <1>7 DEF Feeds

LEMMA ExchangeEffect ==
  ASSUME Types, NEW in \in Pairs, NEW out \in Pairs, in # out, chan[in] # <<>>,
         NEW m \in Messages, Exchange(in, out, m)
  PROVE  /\ Feeds({m}) /\ chan'[in] = Tail(chan[in]) /\ chan'[out] = Append(chan[out], m)
         /\ \A q \in Pairs \ {in, out} : chan'[q] = chan[q]
<1>1. /\ chan \in [Pairs -> Seq(Messages)]
      /\ chan' = [chan EXCEPT ![in] = Tail(chan[in]), ![out] = Append(chan[out], m)]
  BY DEF Types, Exchange
<1>2. /\ chan'[in] = Tail(chan[in]) /\ chan'[out] = Append(chan[out], m)
      /\ \A q \in Pairs \ {in, out} : chan'[q] = chan[q]
  BY <1>1
<1>3. chan[in] \in Seq(Messages) /\ chan[out] \in Seq(Messages)
  BY <1>1
<1>4. PICK r, s : r = Tail(chan[in]) /\ s = Append(chan[out], m)
  OBVIOUS
<1>5. /\ r \in Seq(Messages)
      /\ \A i \in 1 .. Len(r) : r[i] = chan[in][i + 1] /\ i + 1 \in 1 .. Len(chan[in])
  BY <1>3, <1>4, TailOf
<1>6. /\ s \in Seq(Messages) /\ Len(s) = Len(chan[out]) + 1
      /\ \A i \in 1 .. Len(chan[out]) : s[i] = chan[out][i]
      /\ \A i \in 1 .. Len(chan[out]) + 1 : s[i] = m \/ i \in 1 .. Len(chan[out])
  BY <1>3, <1>4, AppendOf
<1>7. chan' \in [Pairs -> Seq(Messages)]
  BY <1>1, <1>4, <1>6, <1>5
<1>8. ASSUME NEW q \in Pairs, NEW i \in 1 .. Len(chan'[q])
      PROVE  chan'[q][i] \in {m} \/ \E j \in 1 .. Len(chan[q]) : chan'[q][i] = chan[q][j]
  <2>1. CASE q = out
    <3>1. chan'[q] = s /\ i \in 1 .. Len(chan[q]) + 1
      BY <1>2, <1>4, <1>6, <1>8, <2>1
    <3>2. QED
      BY <1>6, <2>1, <3>1
  <2>2. CASE q = in
    BY <1>2, <1>4, <1>5, <1>8, <2>2
  <2>3. CASE q \notin {in, out}
    BY <1>2, <1>8, <2>3
  <2>4. QED
    BY <2>1, <2>2, <2>3
<1>9. QED
  BY <1>2, <1>7, <1>8 DEF Feeds

LEMMA SameEffect == ASSUME Types, chan' = chan PROVE Feeds({})
BY DEF Types, Feeds

LEMMA TruthfulStep ==
  ASSUME Truthful, NEW M, Feeds(M), \A m \in M : Honest(m), provided \subseteq provided'
  PROVE  Truthful'
<1>1. ASSUME NEW q \in Pairs, NEW i \in 1 .. Len(chan'[q]), NEW m, m = chan'[q][i]
      PROVE  Honest(m)'
  <2>1. Honest(m)
    BY <1>1 DEF Feeds, Truthful
  <2>2. QED
    BY <2>1 DEF Honest
<1>2. QED
  BY <1>1, Zenon DEF Truthful, Honest

-----------------------------------------------------------------------------
(* What a step leaves in place.                                             *)

\* Tables only grow, and a session that was there from the start is not made
\* again.
StoresGrow ==
  /\ store' \in [Nodes -> Seq(Nodes)]
  /\ \A n \in Nodes : /\ Len(store[n]) <= Len(store'[n])
                      /\ \A j \in 1 .. Len(store[n]) : store'[n][j] = store[n][j]

ProvsGrow ==
  /\ provs' \in [Nodes -> Seq(Entries)]
  /\ \A n \in Nodes : Elements(provs[n]) \subseteq Elements(provs'[n])

LinksFade ==
  /\ conn' \in [Pairs -> {"yes", "no", "ghost"}]
  /\ \A q \in Pairs : {q[1], q[2]} \in Links /\ conn'[q] = "yes" => conn[q] = "yes"

TablesGrow == StoresGrow /\ ProvsGrow /\ LinksFade

\* Only the stream between n and p is touched.
NetChange(n, p) ==
  /\ server' \in [Pairs -> {"none", "listen", "msg", "ended"}]
  /\ \A q \in Pairs \ {<<n, p>>, <<p, n>>} : chan'[q] = chan[q] /\ server'[q] = server[q]

\* Only the call of n moves, and it waits for nobody but p.
ClientChange(n, p) ==
  /\ client' \in [Nodes -> CallRecords]
  /\ \A m \in Nodes \ {n} : client'[m] = client[m]
  /\ client'[n] = client[n] \/ \A x \in Nodes \ {p} : ~Waits(n, x) /\ ~Waits(n, x)'

\* The records and the histories grow.
Books ==
  /\ puts' \in [Nodes -> SUBSET Names] /\ \A n \in Nodes : puts[n] \subseteq puts'[n]
  /\ calls' \in 0 .. MaxCalls /\ faults' \in 0 .. MaxFaults
  /\ crashed' \in {"no", "session", "file"} /\ Fatal'
  /\ faulty \subseteq faulty' /\ faulty' \subseteq Ends
  /\ provided \subseteq provided' /\ provided' \subseteq Entries

History == shared' = shared \cup Clashes'

LEMMA KnownStays ==
  ASSUME Types, StoresGrow, NEW n \in Nodes, NEW p, Knows(n, p)
  PROVE  Knows(n, p)'
<1>1. store[n] \in Seq(Nodes) /\ store'[n] \in Seq(Nodes)
  BY DEF Types, StoresGrow
<1>2. PICK i \in 1 .. Len(store[n]) : store[n][i] = p
  BY DEF Knows, Elements
<1>3. Len(store[n]) <= Len(store'[n]) /\ store'[n][i] = p
  BY <1>2, Zenon DEF StoresGrow
<1>4. i \in 1 .. Len(store'[n])
  BY <1>1, <1>2, <1>3
<1>5. QED
  BY <1>3, <1>4 DEF Knows, Elements

LEMMA TypesFrom ==
  ASSUME Types, TablesGrow, NEW M, Feeds(M), NEW n, NEW p, NetChange(n, p), ClientChange(n, p),
         Books, History, published' \subseteq Entries
  PROVE  Types'
<1>1. shared' \subseteq Ends
  <2>1. Clashes' \subseteq Ends
    BY DEF Clashes, Ends
  <2>2. QED
    BY <2>1 DEF Types, History
<1>2. QED
  BY <1>1 DEF Types, TablesGrow, StoresGrow, ProvsGrow, LinksFade, Feeds, NetChange, ClientChange, Books

LEMMA QuietBefore ==
  ASSUME Types, Books, History, NEW n, NEW p, Quiet(n, p)'
  PROVE  Quiet(n, p)
BY DEF Types, Books, History, Quiet

\* On a stream that stays quiet nobody clashes.
LEMMA NoClash ==
  ASSUME History, NEW n \in Nodes, NEW p \in Nodes, n # p, Quiet(n, p)'
  PROVE  Waits(n, p)' => ~Waits(p, n)' /\ server'[<<n, p>>] \notin {"msg", "ended"}
<1>1. <<n, p>> \in Pairs
  BY PairOf
<1>2. {n, p} \notin Clashes'
  BY DEF Quiet, History
<1>3. SUFFICES ASSUME Waits(n, p)', Waits(p, n)' \/ server'[<<n, p>>] \in {"msg", "ended"}
               PROVE  {n, p} \in Clashes'
  BY <1>2
<1>4. <<n, p>>[1] = n /\ <<n, p>>[2] = p
  OBVIOUS
<1>5. QED
  BY <1>1, <1>3, <1>4 DEF Clashes

LEMMA PlacedFrom ==
  ASSUME \A m \in Nodes : Placed(m, client[m]), NEW n \in Nodes, NEW p, ClientChange(n, p),
         Books, Placed(n, client[n])'
  PROVE  \A m \in Nodes : Placed(m, client[m])'
BY DEF Placed, ClientChange, Books

LEMMA StreamsFrom ==
  ASSUME Streams, \A q \in Pairs : server'[q] = "none" <=> server[q] = "none",
         \A q \in Pairs : conn'[q] = "yes" => conn[q] = "yes"
  PROVE  Streams'
BY PairParts DEF Streams

LEMMA TablesFrom ==
  ASSUME Types, Tables, StoresGrow, Books, \A n \in Nodes : Elements(provs'[n]) \subseteq provided'
  PROVE  Tables'
BY KnownStays DEF Tables, Books, Neighbours

LEMMA HasStays ==
  ASSUME Books
  PROVE  \A n \in Nodes : \A k : Has(n, k) => Has(n, k)'
BY DEF Books, Has

\* What was right of a call still is.
LEMMA RightSame ==
  ASSUME Types, Books, NEW n \in Nodes, Right(client[n]),
         client'[n].op = client[n].op, client'[n].key = client[n].key,
         client'[n].found = client[n].found, client'[n].got \subseteq {client[n].key} \/ client'[n].got = client[n].got
  PROVE  Right(client[n])'
<1>1. client[n].found \subseteq Nodes
  BY DEF Types, CallRecords
<1>2. QED
  BY <1>1, HasStays DEF Right, Books

LEMMA DisturbedStays ==
  ASSUME Types, Books, History, NEW n \in Nodes, client'[n] = client[n], Disturbed(n)
  PROVE  Disturbed(n)'
<1>1. faulty \cup shared \subseteq faulty' \cup shared'
  BY DEF Books, History
<1>2. QED
  BY <1>1, Zenon DEF Disturbed

LEMMA AnswersFrom ==
  ASSUME Types, Answers, Books, History, NEW n \in Nodes, NEW p, ClientChange(n, p),
         Right(client[n])' \/ Disturbed(n)'
  PROVE  Answers'
<1>1. SUFFICES ASSUME NEW m \in Nodes, m # n PROVE Right(client[m])' \/ Disturbed(m)'
  BY DEF Answers
<1>2. client'[m] = client[m]
  BY <1>1 DEF ClientChange
<1>3. CASE Right(client[m])
  BY <1>2, <1>3, RightSame
<1>4. CASE Disturbed(m)
  BY <1>2, <1>4, DisturbedStays
<1>5. QED
  BY <1>3, <1>4 DEF Answers

\* What was reached stays reached.
LEMMA ReachedStays ==
  ASSUME Types, TablesGrow, Books, History, NEW n \in Nodes, NEW p \in Nodes, n # p, NEW k,
         Reached(n, p, k)
  PROVE  Reached(n, p, k)'
<1>1. SUFFICES ASSUME {n, p} \in Links, Quiet(n, p)', conn'[<<n, p>>] = "yes"
               PROVE  [key |-> k, id |-> n] \in Elements(provs'[p])
  BY DEF Reached
<1>2. Quiet(n, p)
  BY <1>1, QuietBefore
<1>3. conn[<<n, p>>] = "yes"
  <2>1. <<n, p>> \in Pairs /\ <<n, p>>[1] = n /\ <<n, p>>[2] = p
    BY PairOf
  <2>2. QED
    BY <1>1, <2>1 DEF TablesGrow, LinksFade
<1>4. [key |-> k, id |-> n] \in Elements(provs[p])
  BY <1>1, <1>2, <1>3 DEF Reached
<1>5. QED
  BY <1>4 DEF TablesGrow, ProvsGrow

\* The peers that a call passed it has passed, whoever joins the peerstore.
LEMMA PassedStays ==
  ASSUME Types, TablesGrow, Books, History, NEW n \in Nodes, NEW k, NEW a \in Nat,
         a <= Len(store[n]) + 1,
         \A j \in 1 .. Len(store[n]) : j < a /\ store[n][j] # n => Reached(n, store[n][j], k)
  PROVE  /\ a <= Len(store'[n]) + 1
         /\ \A j \in 1 .. Len(store'[n]) : j < a /\ store'[n][j] # n => Reached(n, store[n][j], k)'
<1>1. store[n] \in Seq(Nodes) /\ store'[n] \in Seq(Nodes) /\ Len(store[n]) <= Len(store'[n])
  BY DEF Types, TablesGrow, StoresGrow
<1>2. a <= Len(store'[n]) + 1
  BY <1>1
<1>3. ASSUME NEW j \in 1 .. Len(store'[n]), j < a, store'[n][j] # n
      PROVE  Reached(n, store[n][j], k)'
  <2>1. j \in 1 .. Len(store[n])
    BY <1>1, <1>3
  <2>2. store'[n][j] = store[n][j]
    BY <2>1, Zenon DEF TablesGrow, StoresGrow
  <2>3. PICK p \in Nodes : p = store[n][j]
    BY <1>1, <2>1
  <2>4. Reached(n, p, k) /\ p # n
    BY <1>3, <2>1, <2>2, <2>3, Zenon
  <2>5. Reached(n, p, k)'
    BY <2>4, ReachedStays
  <2>6. QED
    BY <2>2, <2>3, <2>5, Zenon DEF Reached
<1>4. QED
  BY <1>2, <1>3

LEMMA WalkedStays ==
  ASSUME Types, TablesGrow, Books, History, NEW n \in Nodes, client'[n] = client[n],
         Placed(n, client[n]), Walked(n)
  PROVE  Walked(n)'
<1>1. SUFFICES ASSUME client[n].op = "provide", client[n].step # "idle"
               PROVE  Walked(n)'
  BY DEF Walked
<1>2. /\ client[n].at <= Len(store[n]) + 1
      /\ \A j \in 1 .. Len(store[n]) :
           j < client[n].at /\ store[n][j] # n => Reached(n, store[n][j], client[n].key)
      /\ client[n].step \in {"upgrade", "reply"} =>
           client[n].at <= Len(store[n]) /\ client[n].who = store[n][client[n].at]
  BY <1>1 DEF Walked
<1>3. client[n].at \in Nat
  BY DEF Types, CallRecords
<1>4. PICK a, k : a \in Nat /\ a = client[n].at /\ k = client[n].key
  BY <1>3
<1>5. /\ a <= Len(store'[n]) + 1
      /\ \A j \in 1 .. Len(store'[n]) : j < a /\ store'[n][j] # n => Reached(n, store[n][j], k)'
  BY <1>2, <1>4, PassedStays
<1>6. ASSUME client[n].step \in {"upgrade", "reply"}
      PROVE  a <= Len(store'[n]) /\ store'[n][a] = store[n][a]
  <2>1. store[n] \in Seq(Nodes) /\ store'[n] \in Seq(Nodes) /\ Len(store[n]) <= Len(store'[n])
    <3>1. store \in [Nodes -> Seq(Nodes)]
      BY DEF Types
    <3>2. store' \in [Nodes -> Seq(Nodes)] /\ Len(store[n]) <= Len(store'[n])
      BY DEF TablesGrow, StoresGrow
    <3> QED
      BY <3>1, <3>2
  <2>2. a \in 1 .. Len(store[n])
    BY <1>1, <1>2, <1>4, <1>6, <2>1 DEF Placed
  <2>3. QED
    BY <2>1, <2>2 DEF TablesGrow, StoresGrow
<1>7. /\ \A j \in 1 .. Len(store'[n]) :
           j < client'[n].at /\ store'[n][j] # n => Reached(n, store[n][j], client[n].key)'
      /\ client'[n].at <= Len(store'[n]) + 1
  <2>1. ASSUME NEW j \in 1 .. Len(store'[n]), j < client'[n].at, store'[n][j] # n
        PROVE  Reached(n, store[n][j], client[n].key)'
    <3>1. Reached(n, store[n][j], k)'
      BY <1>4, <1>5, <2>1
    <3>2. QED
      BY <1>4, <3>1, Zenon DEF Reached
  <2>2. QED
    BY <1>4, <1>5, <2>1
<1>8. client'[n].step \in {"upgrade", "reply"} =>
        client'[n].at <= Len(store'[n]) /\ client'[n].who = store'[n][client'[n].at]
  BY <1>2, <1>4, <1>6
<1>9. QED
  BY <1>7, <1>8, Zenon DEF Walked

LEMMA ToldFrom ==
  ASSUME Types, Told, TablesGrow, Books, History, \A m \in Nodes : Placed(m, client[m]),
         NEW n \in Nodes, NEW p, ClientChange(n, p), Walked(n)',
         \A k \in Keys, m \in Nodes : [key |-> k, id |-> m] \in published' =>
            \/ [key |-> k, id |-> m] \in published
            \/ m = n /\ \A x \in Nodes \ {n} : Reached(n, x, k)'
  PROVE  Told'
<1>1. ASSUME NEW m \in Nodes PROVE Walked(m)'
  <2>1. CASE m = n
    BY <2>1
  <2>2. CASE m # n
    <3>1. client'[m] = client[m]
      BY <2>2 DEF ClientChange
    <3>2. Walked(m) /\ Placed(m, client[m])
      BY DEF Told
    <3>3. QED
      BY <3>1, <3>2, WalkedStays
  <2>3. QED
    BY <2>1, <2>2
<1>2. ASSUME NEW q \in Pairs, NEW k \in Keys, [key |-> k, id |-> q[1]] \in published'
      PROVE  Reached(q[1], q[2], k)'
  <2>1. PICK a \in Nodes, b \in Nodes : a = q[1] /\ b = q[2] /\ a # b
    BY PairParts
  <2>2. CASE [key |-> k, id |-> a] \in published
    <3>1. Reached(a, b, k)
      BY <2>1, <2>2, Zenon DEF Told
    <3>2. Reached(a, b, k)'
      BY <2>1, <3>1, ReachedStays
    <3>3. QED
      BY <2>1, <3>2
  <2>3. CASE a = n /\ \A x \in Nodes \ {n} : Reached(n, x, k)'
    BY <2>1, <2>3
  <2>4. QED
    BY <1>2, <2>1, <2>2, <2>3
<1>3. QED
  BY <1>1, <1>2 DEF Told

LEMMA CorrectStays ==
  ASSUME Books, NEW n \in Nodes, NEW p \in Nodes, NEW r \in Messages, Correct(client[n], n, p, r),
         client'[n] = client[n], Elements(provs[p]) \subseteq Elements(provs'[p])
  PROVE  Correct(client[n], n, p, r)'
<1>1. PICK c : c = client[n] /\ c = client'[n]
  OBVIOUS
<1>2. c.ask = "get_providers" => \A e \in r.provs : e.id \in Nodes
  <2>1. SUFFICES ASSUME c.ask = "get_providers" PROVE \A e \in r.provs : e.id \in Nodes
    OBVIOUS
  <2>2. Decodes(r)
    BY <1>1, <2>1 DEF Correct, Decodes
  <2>3. r.provs \subseteq Peers
    BY <2>2, MessageKinds
  <2>4. QED
    BY <2>3 DEF Peers
<1>3. Correct(c, n, p, r)
  BY <1>1
<1>4. Correct(c, n, p, r)'
  BY <1>2, <1>3, HasStays DEF Correct, Books
<1>5. QED
  BY <1>1, <1>4

\* A stream nobody touched.
LEMMA CalmStays ==
  ASSUME Types, ProvsGrow, Books, NEW a \in Nodes, NEW b \in Nodes, a # b, Calm(a, b),
         chan'[<<a, b>>] = chan[<<a, b>>], chan'[<<b, a>>] = chan[<<b, a>>],
         server'[<<a, b>>] = server[<<a, b>>], server'[<<b, a>>] = server[<<b, a>>],
         client'[a] = client[a] \/ (~Waits(a, b) /\ ~Waits(a, b)'),
         client'[b] = client[b] \/ (~Waits(b, a) /\ ~Waits(b, a)')
  PROVE  Calm(a, b)'
<1>1. Waits(a, b)' <=> Waits(a, b)
  BY DEF Waits
<1>2. Waits(b, a)' <=> Waits(b, a)
  BY DEF Waits
<1>3. CASE Rest(a, b)
  BY <1>1, <1>2, <1>3 DEF Rest, Calm
<1>4. ASSUME NEW n \in {a, b}, NEW p \in {a, b}, n # p, Asking(n, p)
      PROVE  Asking(n, p)'
  <2>1. /\ client'[n] = client[n]
        /\ chan'[<<n, p>>] = chan[<<n, p>>] /\ chan'[<<p, n>>] = chan[<<p, n>>]
        /\ server'[<<n, p>>] = server[<<n, p>>] /\ server'[<<p, n>>] = server[<<p, n>>]
        /\ Waits(n, p)' /\ ~Waits(p, n)'
    BY <1>1, <1>2, <1>4 DEF Asking
  <2>2. Request(n)' = Request(n)
    BY <2>1 DEF Request
  <2>3. Answer(n, p) => Answer(n, p)'
    <3>1. ASSUME NEW r \in Messages, Correct(client[n], n, p, r)
          PROVE  Correct(client[n], n, p, r)'
      <4>1. provided \subseteq provided' /\ Elements(provs[p]) \subseteq Elements(provs'[p])
        BY <1>4 DEF Books, ProvsGrow
      <4>2. QED
        BY <2>1, <3>1, <4>1, CorrectStays
    <3>2. QED
      BY <2>1, <3>1, Zenon DEF Answer
  <2>4. Stage(n, p)'
    BY <1>4, <2>1, <2>2, <2>3, Zenon DEF Asking, Stage
  <2>5. QED
    BY <1>4, <2>1, <2>4, Zenon DEF Asking
<1>5. ASSUME NEW n \in {a, b}, NEW p \in {a, b}, n # p, Putting(n, p)
      PROVE  Putting(n, p)'
  BY <1>1, <1>2, <1>5 DEF Putting
<1>6. QED
  BY <1>3, <1>4, <1>5 DEF Calm

LEMMA CalmBothWays == ASSUME NEW a, NEW b, Calm(a, b) PROVE Calm(b, a)
BY DEF Calm, Rest

LEMMA OrderlyFrom ==
  ASSUME Types, Orderly, ProvsGrow, Books, History, NEW n \in Nodes, NEW p \in Nodes,
         NetChange(n, p), ClientChange(n, p), n # p /\ Quiet(n, p)' => Calm(n, p)'
  PROVE  Orderly'
<1>1. SUFFICES ASSUME NEW q \in Pairs, Quiet(q[1], q[2])'
               PROVE  Calm(q[1], q[2])'
  BY DEF Orderly
<1>2. PICK a \in Nodes, b \in Nodes : a = q[1] /\ b = q[2] /\ a # b /\ q = <<a, b>>
  BY PairParts
<1>3. SUFFICES Calm(a, b)'
  BY <1>2
<1>4. Quiet(a, b)' /\ Quiet(a, b)
  BY <1>1, <1>2, QuietBefore
<1>5. CASE a = n /\ b = p
  BY <1>2, <1>4, <1>5
<1>6. CASE a = p /\ b = n
  <2>1. Quiet(n, p)'
    BY <1>4, <1>6 DEF Quiet
  <2>2. Calm(n, p)'
    BY <1>2, <1>6, <2>1
  <2>3. QED
    BY <1>6, <2>2 DEF Calm, Rest
<1>7. CASE ~(a = n /\ b = p) /\ ~(a = p /\ b = n)
  <2>1. /\ <<a, b>> \in Pairs /\ <<b, a>> \in Pairs
        /\ <<a, b>> \notin {<<n, p>>, <<p, n>>} /\ <<b, a>> \notin {<<n, p>>, <<p, n>>}
    BY <1>2, <1>7, PairOf
  <2>2. /\ chan'[<<a, b>>] = chan[<<a, b>>] /\ chan'[<<b, a>>] = chan[<<b, a>>]
        /\ server'[<<a, b>>] = server[<<a, b>>] /\ server'[<<b, a>>] = server[<<b, a>>]
    BY <2>1 DEF NetChange
  <2>3. client'[a] = client[a] \/ (~Waits(a, b) /\ ~Waits(a, b)')
    BY <1>7, Zenon DEF ClientChange
  <2>4. client'[b] = client[b] \/ (~Waits(b, a) /\ ~Waits(b, a)')
    BY <1>7, Zenon DEF ClientChange
  <2>5. Calm(a, b)
    BY <1>2, <1>4 DEF Orderly
  <2>6. QED
    BY <1>2, <2>2, <2>3, <2>4, <2>5, CalmStays
<1>8. QED
  BY <1>5, <1>6, <1>7

-----------------------------------------------------------------------------
(* A step in general.                                                       *)

\* What every action does: node n acts, on the stream to p at most, sending M.
Frame(n, p, M) ==
  /\ TablesGrow /\ Books
  /\ Feeds(M) /\ \A m \in M : Honest(m)
  /\ NetChange(n, p) /\ ClientChange(n, p)

PublishStep(n) ==
  /\ published' \subseteq Entries
  /\ \A k \in Keys, m \in Nodes : [key |-> k, id |-> m] \in published' =>
        \/ [key |-> k, id |-> m] \in published
        \/ m = n /\ \A x \in Nodes \ {n} : Reached(n, x, k)'

\* And what is to be shown of it.
LEMMA StepFrom ==
  ASSUME IInv, History, NEW n \in Nodes, NEW p \in Nodes, NEW M, Frame(n, p, M), PublishStep(n),
         \A m \in Nodes : Elements(provs'[m]) \subseteq provided', Streams',
         Placed(n, client[n])', Walked(n)', Right(client[n])' \/ Disturbed(n)',
         n # p /\ Quiet(n, p)' => Calm(n, p)'
  PROVE  IInv'
<1>1. Types /\ Truthful /\ Tables /\ Orderly /\ Told /\ Answers /\ \A m \in Nodes : Placed(m, client[m])
  BY DEF IInv
<1>2. /\ TablesGrow /\ Books /\ Feeds(M) /\ \A m \in M : Honest(m)
      /\ NetChange(n, p) /\ ClientChange(n, p)
  BY DEF Frame
<1>3. StoresGrow /\ ProvsGrow /\ provided \subseteq provided'
  BY <1>2 DEF TablesGrow, Books
<1>4. Types'
  BY <1>1, <1>2, TypesFrom DEF PublishStep
<1>5. \A m \in Nodes : Placed(m, client[m])'
  BY <1>1, <1>2, PlacedFrom, Zenon
<1>6. Truthful' /\ Tables'
  BY <1>1, <1>2, <1>3, TruthfulStep, TablesFrom
<1>7. Orderly'
  BY <1>1, <1>2, <1>3, OrderlyFrom, Zenon
<1>8. Told'
  BY <1>1, <1>2, ToldFrom, Zenon DEF PublishStep
<1>9. Answers'
  BY <1>1, <1>2, AnswersFrom, Zenon
<1>10. QED
  BY <1>4, <1>5, <1>6, <1>7, <1>8, <1>9, Zenon DEF IInv

LEMMA CallFields ==
  ASSUME Types, NEW n \in Nodes
  PROVE  /\ client[n] \in CallRecords
         /\ client[n].op \in AllOps \cup {None} /\ client[n].key \in Keys \cup Nodes \cup {None}
         /\ client[n].at \in Nat /\ client[n].who \in Nodes \cup {None}
         /\ client[n].ask \in Asked \cup {None}
         /\ client[n].found \subseteq Nodes /\ client[n].got \subseteq Keys
BY DEF Types, CallRecords

\* The call of n moves on to c.
LEMMA Moves ==
  ASSUME Types, NEW n \in Nodes, NEW p, NEW c \in CallRecords, Set(n, c),
         \A x \in Nodes \ {p} : ~Waits(n, x),
         c.step \in {"upgrade", "reply"} => c.who = p
  PROVE  ClientChange(n, p) /\ client'[n] = c
<1>1. client \in [Nodes -> CallRecords] /\ client' = [client EXCEPT ![n] = c]
  BY DEF Types, Set
<1>2. /\ client' \in [Nodes -> CallRecords] /\ client'[n] = c
      /\ \A m \in Nodes \ {n} : client'[m] = client[m]
  BY <1>1
<1>3. ASSUME NEW x \in Nodes \ {p} PROVE ~Waits(n, x)'
  BY <1>2, <1>3 DEF Waits
<1>4. QED
  BY <1>2, <1>3 DEF ClientChange

LEMMA Stays ==
  ASSUME Types, NEW n \in Nodes, NEW p, client' = client
  PROVE  ClientChange(n, p)
BY DEF Types, ClientChange

\* Whom a call can wait for.
LEMMA WaitsOnly ==
  ASSUME NEW n \in Nodes, NEW x, Waits(n, x)
  PROVE  client[n].step \in {"upgrade", "reply"} /\ client[n].who = x
BY DEF Waits

LEMMA WalkedOther ==
  ASSUME NEW n, client'[n].op # "provide" \/ client'[n].step = "idle"
  PROVE  Walked(n)'
BY DEF Walked

\* Books in which only the calls or nothing is entered.
LEMMA SameBooks ==
  ASSUME Types, UNCHANGED <<puts, calls, faults, faulty, crashed, provided>>
  PROVE  Books
<1>1. Fatal'
  BY DEF Types, Fatal, Bare
<1>2. QED
  BY <1>1 DEF Types, Books

\* The two nodes of a pair are the ends of a stream.
LEMMA EndsOf ==
  ASSUME NEW n \in Nodes, NEW p \in Nodes, n # p
  PROVE  {n, p} \in Ends
<1>1. <<n, p>> \in Pairs
  BY PairOf
<1>2. <<n, p>>[1] = n /\ <<n, p>>[2] = p
  OBVIOUS
<1>3. PICK q \in Pairs : q = <<n, p>>
  BY <1>1
<1>4. {q[1], q[2]} = {n, p}
  BY <1>2, <1>3
<1>5. QED
  BY <1>4 DEF Ends

\* A stream fails.
LEMMA FaultBooks ==
  ASSUME Types, NEW n \in Nodes, NEW p \in Nodes, n # p, Fault(n, p),
         UNCHANGED <<puts, calls, crashed, provided>>
  PROVE  Books /\ ~Quiet(n, p)'
<1>1. Fatal'
  BY DEF Types, Fatal, Bare
<1>2. {n, p} \in Ends
  BY EndsOf
<1>3. faults \in Nat /\ faults' \in 0 .. MaxFaults
  BY RoutingAssumption DEF Types, Fault
<1>4. faulty' = faulty \cup {{n, p}}
  BY DEF Fault
<1>5. QED
  BY <1>1, <1>2, <1>3, <1>4 DEF Types, Books, Quiet

\* So it does when a read of it gives up too early.
LEMMA PatienceBooks ==
  ASSUME Types, NEW n \in Nodes, NEW p \in Nodes, n # p, Patience(n, p),
         UNCHANGED <<puts, calls, crashed, provided>>
  PROVE  Books /\ (Quiet(n, p)' => ~Coming(n, p))
<1>1. CASE Coming(n, p)
  BY <1>1, FaultBooks DEF Patience
<1>2. CASE ~Coming(n, p)
  BY <1>2, SameBooks DEF Patience, fails
<1>3. QED
  BY <1>1, <1>2

\* A node goes down.
LEMMA CrashBooks ==
  ASSUME Types, crashed' \in {"session", "file"},
         crashed' = "file" => \E n, p \in Nodes : Bare(p, NameOf[n]),
         UNCHANGED <<puts, calls, faults, faulty, provided>>
  PROVE  Books
<1>1. Fatal'
  BY DEF Fatal, Bare
<1>2. QED
  BY <1>1 DEF Types, Books

\* The record without a file is that of a name.
LEMMA BareIsName ==
  ASSUME Types, NEW n \in Nodes, NEW k, Bare(n, k)
  PROVE  \E m, p \in Nodes : Bare(p, NameOf[m])
<1>1. k \in Names
  BY DEF Types, Bare
<1>2. QED
  BY <1>1 DEF Names

LEMMA SamePublished ==
  ASSUME Types, NEW n, published' = published
  PROVE  PublishStep(n)
BY DEF Types, PublishStep

ConnFades ==
  /\ conn' \in [Pairs -> {"yes", "no", "ghost"}]
  /\ \A q \in Pairs : conn'[q] = "yes" => conn[q] = "yes"

LEMMA SameStores ==
  ASSUME Types, store' = store
  PROVE  StoresGrow
<1>1. \A n \in Nodes : store[n] \in Seq(Nodes)
  BY DEF Types
<1>2. QED
  BY <1>1 DEF Types, StoresGrow

LEMMA SameProvs ==
  ASSUME Types, Tables, provs' = provs
  PROVE  ProvsGrow /\ (Books => \A n \in Nodes : Elements(provs'[n]) \subseteq provided')
BY DEF Types, Tables, ProvsGrow, Books

LEMMA SameTables ==
  ASSUME Types, Tables, UNCHANGED <<store, conn, provs>>
  PROVE  /\ TablesGrow /\ ConnFades
         /\ Books => \A n \in Nodes : Elements(provs'[n]) \subseteq provided'
<1>1. LinksFade /\ ConnFades
  BY DEF Types, LinksFade, ConnFades
<1>2. QED
  BY <1>1, SameStores, SameProvs DEF TablesGrow

LEMMA FadingLinks == ConnFades => LinksFade
BY DEF ConnFades, LinksFade

LEMMA StoreGrows ==
  ASSUME Types, NEW p \in Nodes, NEW s \in Seq(Nodes), store' = [store EXCEPT ![p] = s],
         Len(store[p]) <= Len(s), \A i \in 1 .. Len(store[p]) : s[i] = store[p][i]
  PROVE  StoresGrow
<1>1. \A m \in Nodes : store[m] \in Seq(Nodes)
  BY DEF Types
<1>2. store' \in [Nodes -> Seq(Nodes)] /\ store'[p] = s /\ \A m \in Nodes \ {p} : store'[m] = store[m]
  BY DEF Types
<1>3. ASSUME NEW m \in Nodes
      PROVE  /\ Len(store[m]) <= Len(store'[m])
             /\ \A j \in 1 .. Len(store[m]) : store'[m][j] = store[m][j]
  <2>1. CASE m = p
    BY <1>2, <2>1
  <2>2. CASE m # p
    <3>1. store'[m] = store[m] /\ Len(store[m]) \in Nat
      BY <1>1, <1>2, <2>2
    <3>2. QED
      BY <3>1
  <2>3. QED
    BY <2>1, <2>2
<1>4. QED
  BY <1>2, <1>3 DEF StoresGrow

\* The peerstore grows by whom it does not know.
LEMMA AddPeerEffect ==
  ASSUME Types, Tables, NEW n \in Nodes, NEW peer \in Peers, AddPeer(n, peer)
  PROVE  StoresGrow /\ ConnFades
<1>1. CASE Knows(n, peer.id)
  <2>1. store' = store /\ conn' = conn
    BY <1>1 DEF AddPeer
  <2>2. QED
    BY <2>1, SameStores DEF Types, ConnFades
<1>2. CASE ~Knows(n, peer.id)
  <2>1. peer.id \in Nodes /\ peer.id # n
    BY <1>2 DEF Tables, Peers
  <2>2. PICK p \in Nodes : p = peer.id /\ p # n
    BY <2>1
  <2>3. PICK w \in {"ghost", "no"} : conn' = [conn EXCEPT ![<<n, p>>] = w]
    BY <1>2, <2>2, Zenon DEF AddPeer
  <2>4. ConnFades
    BY <2>2, <2>3, PairOf DEF Types, ConnFades
  <2>5. PICK s : s = Append(store[n], p)
    OBVIOUS
  <2>6. store' = [store EXCEPT ![n] = s]
    BY <1>2, <2>2, <2>5, Zenon DEF AddPeer
  <2>7. \A m \in Nodes : store[m] \in Seq(Nodes)
    BY DEF Types
  <2>8. /\ s \in Seq(Nodes) /\ Len(s) = Len(store[n]) + 1
        /\ \A i \in 1 .. Len(store[n]) : s[i] = store[n][i]
    BY <2>2, <2>5, <2>7, AppendOf
  <2>9. Len(store[n]) <= Len(s)
    BY <2>7, <2>8
  <2>10. QED
    BY <2>4, <2>6, <2>8, <2>9, StoreGrows
<1>3. QED
  BY <1>1, <1>2

LEMMA AddProviderElements ==
  ASSUME NEW s \in Seq(Entries), NEW e \in Entries
  PROVE  /\ AddProvider(s, e) \in Seq(Entries)
         /\ Elements(AddProvider(s, e)) = Elements(s) \cup {e}
<1>1. CASE e \in Elements(s)
  BY <1>1 DEF AddProvider
<1>2. CASE e \notin Elements(s)
  <2>1. PICK r : r = Append(s, e)
    OBVIOUS
  <2>2. /\ r \in Seq(Entries) /\ Len(r) = Len(s) + 1 /\ \A i \in 1 .. Len(s) : r[i] = s[i]
        /\ r[Len(s) + 1] = e
    BY <2>1, AppendOf
  <2>3. Len(s) \in Nat /\ Len(s) + 1 \in 1 .. Len(s) + 1 /\ 1 .. Len(s) + 1 = 1 .. Len(s) \cup {Len(s) + 1}
    BY <2>2
  <2>4. {r[i] : i \in 1 .. Len(r)} = {s[i] : i \in 1 .. Len(s)} \cup {e}
    BY <2>2, <2>3
  <2>5. QED
    BY <1>2, <2>1, <2>2, <2>4 DEF AddProvider, Elements
<1>3. QED
  BY <1>1, <1>2

\* The provider a node names has the key or announced it.
Provides(p, k) == p \in Nodes /\ (Has(p, k) \/ [key |-> k, id |-> p] \in provided)

LEMMA ProviderTrue ==
  ASSUME Types, Tables, NEW n \in Nodes, NEW k, NEW p \in ProviderOf(n, k)
  PROVE  Provides(p, k)
<1>1. CASE Has(n, k)
  BY <1>1 DEF ProviderOf, Provides
<1>2. CASE ~Has(n, k)
  <2>1. PICK i \in 1 .. Len(provs[n]) : p = provs[n][i].id /\ provs[n][i].key = k
    BY <1>2 DEF ProviderOf
  <2>2. provs[n][i] \in Entries /\ provs[n][i] \in provided
    BY DEF Types, Tables, Elements
  <2>3. provs[n][i] = [key |-> k, id |-> p] /\ p \in Nodes
    BY <2>1, <2>2 DEF Entries
  <2>4. QED
    BY <2>2, <2>3 DEF Provides
<1>3. QED
  BY <1>1, <1>2

-----------------------------------------------------------------------------
(* A call begins.                                                           *)

\* What a call c for op and k is like when it begins.
Begun(c, op, k) ==
  /\ c \in CallRecords /\ c.step \in {"idle", "walk", "direct", "value"}
  /\ c.op = op /\ c.key = k /\ c.at = 1 /\ c.got = {}
  /\ op = "peer" => c.found \subseteq {k}
  /\ op \in {"find", "value"} => \A p \in c.found : Provides(p, k)
  /\ c.step # "idle" =>
       /\ IF c.op = "value" /\ c.ask = "get_value" THEN c.found # {}
          ELSE c.ask = RequestOf[c.op] /\ c.found = {}
       /\ c.step = "walk" => c.op # "ping" /\ c.ask # "get_value"
       /\ c.step = "direct" => c.op = "ping"
       /\ c.step = "value" => c.op = "value" /\ c.ask = "get_value"

LEMMA BeginRecord ==
  ASSUME Types, Tables, NEW n \in Nodes, NEW op \in AllOps, NEW k, NEW c, c = Begin(n, op, k),
         k \in IF op \in {"peer", "ping"} THEN Nodes \ {n} ELSE Keys
  PROVE  Begun(c, op, k)
<1>1. PICK d : d = [NoCall EXCEPT !.op = op, !.key = k, !.at = 1, !.step = "walk", !.ask = RequestOf[op]]
  OBVIOUS
<1>2. RequestOf[op] \in Asked \ {"get_value"}
  BY DEF RequestOf, AllOps, Asked
<1>3. /\ d \in CallRecords /\ d.op = op /\ d.key = k /\ d.at = 1 /\ d.step = "walk"
      /\ d.ask = RequestOf[op] /\ d.found = {} /\ d.got = {}
  BY <1>1, <1>2 DEF NoCall, CallRecords, Asked
<1>4. CASE op \in {"find", "value"}
  <2>1. PICK f : f = ProviderOf(n, k)
    OBVIOUS
  <2>2. f \subseteq Nodes /\ \A p \in f : Provides(p, k)
    BY <2>1, ProviderTrue DEF Provides
  <2>3. c = IF f # {} THEN Answered(d, f) ELSE d
    BY <1>1, <1>4, <2>1, Zenon DEF Begin
  <2>4. CASE f = {}
    BY <1>2, <1>3, <1>4, <2>3, <2>4 DEF Begun
  <2>5. CASE f # {} /\ op = "value"
    <3>1. c = [d EXCEPT !.step = "value", !.found = f, !.ask = "get_value"]
      BY <1>3, <2>3, <2>5 DEF Answered
    <3>2. QED
      BY <1>3, <2>2, <2>5, <3>1 DEF CallRecords, Asked, Begun
  <2>6. CASE f # {} /\ op # "value"
    <3>1. c = [d EXCEPT !.step = "idle", !.found = f]
      BY <1>3, <2>3, <2>6 DEF Answered, Ended
    <3>2. QED
      BY <1>3, <1>4, <2>2, <2>6, <3>1 DEF CallRecords, Begun
  <2>7. QED
    BY <2>4, <2>5, <2>6
<1>5. CASE op = "peer"
  <2>1. k \in Nodes
    BY <1>5
  <2>2. c = IF Knows(n, k) THEN [d EXCEPT !.step = "idle", !.found = {k}] ELSE d
    BY <1>1, <1>5, Zenon DEF Begin, Ended
  <2>3. CASE Knows(n, k)
    <3>1. c = [d EXCEPT !.step = "idle", !.found = {k}]
      BY <2>2, <2>3
    <3>2. c \in CallRecords
      <4>1. PICK f \in SUBSET Nodes : f = {k}
        BY <2>1
      <4>2. c = [d EXCEPT !.step = "idle", !.found = f]
        BY <3>1, <4>1
      <4>3. QED
        BY <1>3, <4>2 DEF CallRecords
    <3>3. /\ c.op = op /\ c.key = k /\ c.at = 1 /\ c.got = {}
          /\ c.step = "idle" /\ c.found = {k}
      BY <1>3, <3>1 DEF CallRecords
    <3>4. QED
      BY <1>5, <3>2, <3>3 DEF Begun
  <2>4. CASE ~Knows(n, k)
    BY <1>2, <1>3, <1>5, <2>2, <2>4 DEF Begun
  <2>5. QED
    BY <2>3, <2>4
<1>6. CASE op = "ping"
  <2>1. c = [d EXCEPT !.step = "direct"]
    BY <1>1, <1>6 DEF Begin
  <2>2. QED
    BY <1>2, <1>3, <1>6, <2>1 DEF CallRecords, Begun
<1>7. CASE op \in {"provide", "name"}
  <2>1. c = d
    BY <1>1, <1>7 DEF Begin
  <2>2. QED
    BY <1>2, <1>3, <1>7, <2>1 DEF Begun
<1>8. QED
  BY <1>4, <1>5, <1>6, <1>7 DEF AllOps

LEMMA CallStep ==
  ASSUME IInv, History, NEW n \in Nodes, NEW op \in AllOps, NEW k, Call(n, op, k)
  PROVE  IInv'
<1>1. Types /\ Tables /\ Streams
  BY DEF IInv
<1>2. /\ calls < MaxCalls /\ calls' = calls + 1 /\ client[n].step = "idle"
      /\ k \in IF op \in {"peer", "ping"} THEN Nodes \ {n} ELSE Keys
      /\ op = "name" => k \in Names
      /\ Set(n, Begin(n, op, k))
      /\ puts' = IF op = "name" THEN [puts EXCEPT ![n] = @ \cup {k}] ELSE puts
      /\ provided' = IF op = "provide" THEN provided \cup {[key |-> k, id |-> n]} ELSE provided
      /\ UNCHANGED <<store, conn, provs, chan, server, faults, faulty, crashed, published>>
  BY RoutingAssumption DEF Call, net, fails, Names
<1>3. PICK c : c = Begin(n, op, k)
  OBVIOUS
<1>4. Begun(c, op, k)
  BY <1>1, <1>2, <1>3, BeginRecord, Zenon
<1>5. Books
  <2>1. provided \subseteq provided' /\ provided' \subseteq Entries
    BY <1>1, <1>2 DEF Types, Entries
  <2>2. /\ puts' \in [Nodes -> SUBSET Names] /\ \A m \in Nodes : puts[m] \subseteq puts'[m]
    <3>1. CASE op = "name"
      <4>1. PICK S \in SUBSET Names : S = puts[n] \cup {k}
        BY <1>1, <1>2, <3>1 DEF Types
      <4>2. puts' = [puts EXCEPT ![n] = S]
        BY <1>2, <3>1, <4>1
      <4>3. QED
        BY <1>1, <4>1, <4>2 DEF Types
    <3>2. CASE op # "name"
      BY <1>1, <1>2, <3>2 DEF Types
    <3>3. QED
      BY <3>1, <3>2
  <2>3. Fatal'
    BY <1>1, <1>2, <2>2 DEF Types, Fatal, Bare
  <2>4. calls' \in 0 .. MaxCalls
    BY <1>1, <1>2, RoutingAssumption DEF Types
  <2>5. QED
    BY <1>1, <1>2, <2>1, <2>2, <2>3, <2>4 DEF Types, Books
<1>6. ClientChange(n, n) /\ client'[n] = c
  <2>1. \A x \in Nodes \ {n} : ~Waits(n, x)
    BY <1>2 DEF Waits
  <2>2. QED
    BY <1>1, <1>2, <1>3, <1>4, <2>1, Moves DEF Begun
<1>7. TablesGrow /\ ConnFades /\ \A m \in Nodes : Elements(provs'[m]) \subseteq provided'
  BY <1>1, <1>2, <1>5, SameTables
<1>8. NetChange(n, n) /\ Streams' /\ Feeds({})
  BY <1>1, <1>2, <1>7, StreamsFrom, SameEffect DEF NetChange, Types, ConnFades
<1>9. Frame(n, n, {}) /\ PublishStep(n)
  BY <1>1, <1>2, <1>5, <1>6, <1>7, <1>8, SamePublished DEF Frame
<1>10. Placed(n, client[n])'
  <2>1. op = "provide" => [key |-> k, id |-> n] \in provided'
    BY <1>2
  <2>2. QED
    BY <1>2, <1>4, <1>6, <2>1 DEF Placed, Begun
<1>11. Right(client[n])'
  <2>1. \A p \in Nodes : Provides(p, k) => Provides(p, k)'
    BY <1>5, HasStays DEF Provides, Books
  <2>2. op \in {"find", "value"} => \A p \in c.found : Provides(p, k)'
    BY <1>4, <2>1 DEF Begun, Provides
  <2>3. QED
    BY <1>4, <1>6, <2>2 DEF Right, Provides, Begun
<1>12. Walked(n)'
  <2>1. \A j \in 1 .. Len(store'[n]) : ~(j < 1)
    OBVIOUS
  <2>2. 1 <= Len(store'[n]) + 1
    BY <1>7 DEF TablesGrow, StoresGrow
  <2>3. QED
    BY <1>4, <1>6, <2>1, <2>2 DEF Walked, Begun
<1>13. QED
  BY <1>7, <1>8, <1>9, <1>10, <1>11, <1>12, StepFrom

-----------------------------------------------------------------------------
(* A call goes on.                                                          *)

\* A call that is about the same as before, and not at its end.
SameCall(n) ==
  /\ client[n].step # "idle"
  /\ client'[n].op = client[n].op /\ client'[n].key = client[n].key
  /\ client'[n].found = client[n].found /\ client'[n].got = client[n].got

LEMMA ValueDisturbed ==
  ASSUME Types, Books, History, NEW n \in Nodes, Disturbed(n),
         client[n].op = "value", client'[n].op = "value"
  PROVE  Disturbed(n)'
<1>1. faulty \cup shared \subseteq faulty' \cup shared'
  BY DEF Books, History
<1>2. PICK p \in Nodes : {n, p} \in faulty \cup shared
  BY Zenon DEF Disturbed
<1>3. QED
  BY <1>1, <1>2, Zenon DEF Disturbed

LEMMA StillRight ==
  ASSUME Types, Books, History, Answers, NEW n \in Nodes, Placed(n, client[n]), SameCall(n)
  PROVE  Right(client[n])' \/ Disturbed(n)'
<1>1. Right(client[n]) \/ Disturbed(n)
  BY DEF Answers
<1>2. CASE Right(client[n])
  BY <1>2, RightSame DEF SameCall
<1>3. CASE Disturbed(n) /\ client[n].op = "value"
  BY <1>3, ValueDisturbed DEF SameCall
<1>4. CASE client[n].op # "value"
  <2>1. client'[n].found = {} /\ client'[n].got = {}
    BY <1>4 DEF Placed, SameCall
  <2>2. QED
    BY <2>1 DEF Right
<1>5. QED
  BY <1>1, <1>2, <1>3, <1>4

LEMMA WalkedSame ==
  ASSUME Types, TablesGrow, Books, History, NEW n \in Nodes, Placed(n, client[n]), Walked(n),
         SameCall(n), client'[n].at = client[n].at,
         client[n].op = "provide" /\ client'[n].step \in {"upgrade", "reply"} =>
           client[n].at <= Len(store[n]) /\ client'[n].who = store[n][client[n].at]
  PROVE  Walked(n)'
<1>1. SUFFICES ASSUME client[n].op = "provide" PROVE Walked(n)'
  BY DEF SameCall, Walked
<1>2. /\ client[n].at <= Len(store[n]) + 1
      /\ \A j \in 1 .. Len(store[n]) :
           j < client[n].at /\ store[n][j] # n => Reached(n, store[n][j], client[n].key)
  BY <1>1 DEF Walked, SameCall
<1>3. client[n].at \in Nat /\ client[n].at >= 1
  BY DEF Types, CallRecords, Placed, SameCall
<1>4. PICK a, k : a \in Nat /\ a = client[n].at /\ k = client[n].key
  BY <1>3
<1>5. /\ a <= Len(store'[n]) + 1
      /\ \A j \in 1 .. Len(store'[n]) : j < a /\ store'[n][j] # n => Reached(n, store[n][j], k)'
  BY <1>2, <1>4, PassedStays
<1>6. ASSUME a <= Len(store[n])
      PROVE  a <= Len(store'[n]) /\ store'[n][a] = store[n][a]
  <2>1. store[n] \in Seq(Nodes) /\ store'[n] \in Seq(Nodes) /\ Len(store[n]) <= Len(store'[n])
    BY DEF Types, TablesGrow, StoresGrow
  <2>2. a \in 1 .. Len(store[n])
    BY <1>3, <1>4, <1>6, <2>1
  <2>3. QED
    BY <2>1, <2>2 DEF TablesGrow, StoresGrow
<1>7. /\ \A j \in 1 .. Len(store'[n]) :
           j < client'[n].at /\ store'[n][j] # n => Reached(n, store[n][j], client[n].key)'
      /\ client'[n].at <= Len(store'[n]) + 1
  <2>1. ASSUME NEW j \in 1 .. Len(store'[n]), j < client'[n].at, store'[n][j] # n
        PROVE  Reached(n, store[n][j], client[n].key)'
    <3>1. Reached(n, store[n][j], k)'
      BY <1>4, <1>5, <2>1
    <3>2. client'[n].key = k
      BY <1>4 DEF SameCall
    <3>3. QED
      BY <3>1, <3>2, Zenon DEF Reached
  <2>2. QED
    BY <1>4, <1>5, <2>1
<1>8. client'[n].step \in {"upgrade", "reply"} =>
        client'[n].at <= Len(store'[n]) /\ client'[n].who = store'[n][client'[n].at]
  BY <1>1, <1>4, <1>6
<1>9. QED
  BY <1>7, <1>8, Zenon DEF Walked

\* The call goes on to the next peer: the one it was at has been told.
LEMMA WalkedOn ==
  ASSUME Types, TablesGrow, Books, History, NEW n \in Nodes, Placed(n, client[n]), Walked(n),
         SameCall(n), client'[n].at = client[n].at + 1, client'[n].step = "walk",
         NEW k, k = client[n].key,
         client[n].op = "provide" =>
           /\ client[n].at <= Len(store[n])
           /\ \A x \in Nodes \ {n} : x = store[n][client[n].at] => Reached(n, x, k)'
  PROVE  Walked(n)'
<1>1. SUFFICES ASSUME client[n].op = "provide" PROVE Walked(n)'
  BY DEF SameCall, Walked
<1>2. /\ client[n].at <= Len(store[n]) + 1
      /\ \A j \in 1 .. Len(store[n]) :
           j < client[n].at /\ store[n][j] # n => Reached(n, store[n][j], client[n].key)
  BY <1>1 DEF Walked, SameCall
<1>3. client[n].at \in Nat /\ client[n].at >= 1
  BY DEF Types, CallRecords, Placed, SameCall
<1>4. PICK a : a \in Nat /\ a = client[n].at /\ k = client'[n].key
  BY <1>3 DEF SameCall
<1>5. /\ a <= Len(store'[n]) + 1
      /\ \A j \in 1 .. Len(store'[n]) : j < a /\ store'[n][j] # n => Reached(n, store[n][j], k)'
  BY <1>2, <1>4, PassedStays
<1>6. a \in 1 .. Len(store[n]) /\ a <= Len(store'[n]) /\ store'[n][a] = store[n][a]
  <2>1. store[n] \in Seq(Nodes) /\ store'[n] \in Seq(Nodes) /\ Len(store[n]) <= Len(store'[n])
    BY DEF Types, TablesGrow, StoresGrow
  <2>2. a \in 1 .. Len(store[n])
    BY <1>1, <1>3, <1>4, <2>1
  <2>3. QED
    BY <2>1, <2>2 DEF TablesGrow, StoresGrow
<1>7. store'[n][a] # n => Reached(n, store[n][a], k)'
  <2>1. PICK x \in Nodes : x = store[n][a]
    BY <1>6 DEF Types
  <2>2. x # n => Reached(n, x, k)'
    BY <1>1, <1>4, <2>1
  <2>3. QED
    BY <1>6, <2>1, <2>2, Zenon DEF Reached
<1>8. ASSUME NEW j \in 1 .. Len(store'[n]), j < client'[n].at, store'[n][j] # n
      PROVE  Reached(n, store[n][j], client[n].key)'
  <2>1. Reached(n, store[n][j], k)'
    <3>1. CASE j < a
      BY <1>5, <1>8, <3>1
    <3>2. CASE j = a
      BY <1>7, <1>8, <3>2
    <3>3. QED
      BY <1>4, <1>8, <3>1, <3>2
  <2>2. QED
    BY <1>4, <2>1, Zenon DEF Reached
<1>9. client'[n].at <= Len(store'[n]) + 1
  <2>1. Len(store'[n]) \in Nat
    BY DEF TablesGrow, StoresGrow
  <2>2. QED
    BY <1>4, <1>6, <2>1
<1>10. QED
  BY <1>8, <1>9 DEF Walked

\* A step in which the call of n does not move.
LEMMA StillFrom ==
  ASSUME IInv, History, NEW n \in Nodes, NEW p \in Nodes, NEW M, Frame(n, p, M),
         published' = published, client'[n] = client[n],
         \A m \in Nodes : Elements(provs'[m]) \subseteq provided', Streams',
         n # p /\ Quiet(n, p)' => Calm(n, p)'
  PROVE  IInv'
<1>1. Types /\ TablesGrow /\ Books /\ Placed(n, client[n]) /\ Walked(n) /\ Answers
  BY DEF IInv, Frame, Told
<1>2. Placed(n, client[n])'
  BY <1>1 DEF Placed, Books
<1>3. Walked(n)'
  BY <1>1, WalkedStays
<1>4. Right(client[n])' \/ Disturbed(n)'
  <2>1. CASE Right(client[n])
    BY <1>1, <2>1, RightSame
  <2>2. CASE Disturbed(n)
    BY <1>1, <2>2, DisturbedStays
  <2>3. QED
    BY <1>1, <2>1, <2>2 DEF Answers
<1>5. QED
  BY <1>1, <1>2, <1>3, <1>4, SamePublished, StepFrom

-----------------------------------------------------------------------------
(* A request ends.                                                          *)

\* The peer that a call is at.
At(n, p) ==
  /\ p \in Nodes \ {n} /\ client[n].step # "idle"
  /\ client[n].step \in {"upgrade", "reply"} => client[n].who = p
  /\ client[n].op = "provide" => client[n].at <= Len(store[n]) /\ p = store[n][client[n].at]

\* A stream on which only n may ask p.
Over(n, p) ==
  /\ chan[<<n, p>>] = <<>> /\ chan[<<p, n>>] = <<>>
  /\ server[<<n, p>>] = "listen" /\ server[<<p, n>>] = "listen"
  /\ ~Waits(p, n)

\* What a thread in a call can rely on.
LEMMA Busy ==
  ASSUME IInv, NEW n \in Nodes, client[n].step # "idle"
  PROVE  /\ Types /\ Tables /\ Streams /\ Orderly /\ Answers /\ Walked(n) /\ Placed(n, client[n])
         /\ client[n] \in CallRecords /\ client[n].at \in Nat /\ client[n].ask \in Asked
         /\ client[n].op \in AllOps /\ client[n].got = {}
<1>1. /\ Types /\ Tables /\ Streams /\ Orderly /\ Answers /\ Walked(n) /\ Placed(n, client[n])
      /\ client[n] \in CallRecords /\ client[n].at \in Nat
  BY CallFields DEF IInv, Told
<1>2. client[n].op \in AllOps /\ client[n].got = {}
  BY <1>1 DEF Placed
<1>3. client[n].ask \in Asked
  <2>1. RequestOf[client[n].op] \in Asked
    BY <1>2 DEF RequestOf, AllOps, Asked
  <2>2. QED
    BY <1>1, <2>1 DEF Placed, Asked
<1>4. QED
  BY <1>1, <1>2, <1>3

LEMMA Waiting ==
  ASSUME IInv, NEW n \in Nodes, client[n].step \in {"upgrade", "reply"}
  PROVE  client[n].who \in Nodes \ {n} /\ At(n, client[n].who)
<1>1. Walked(n) /\ Placed(n, client[n])
  BY Busy
<1>2. QED
  BY <1>1 DEF Walked, Placed, At

\* On a quiet stream the question of n is at one of its stages.
LEMMA QuietStage ==
  ASSUME IInv, NEW n \in Nodes, client[n].step \in {"upgrade", "reply"},
         NEW p, p = client[n].who, Quiet(n, p)
  PROVE  Stage(n, p) /\ server[<<n, p>>] = "listen" /\ ~Waits(p, n)
<1>1. Orderly /\ p \in Nodes \ {n} /\ Waits(n, p)
  BY Waiting, Busy DEF Waits
<1>2. <<n, p>> \in Pairs /\ <<n, p>>[1] = n /\ <<n, p>>[2] = p
  BY <1>1, PairOf
<1>3. Calm(n, p)
  BY <1>1, <1>2 DEF Orderly
<1>4. Asking(n, p)
  BY <1>1, <1>3 DEF Calm, Rest, Asking, Putting
<1>5. QED
  BY <1>4 DEF Asking

LEMMA FinishStep ==
  ASSUME IInv, History, NEW n \in Nodes, NEW p, At(n, p), NEW c \in CallRecords, Set(n, c), c.step \notin {"upgrade", "reply"},
         StoresGrow, ConnFades, Books, Feeds({}), \A q \in Pairs \ {<<p, n>>} : chan'[q] = chan[q],
         UNCHANGED <<provs, server, published>>,
         Placed(n, client[n])', Walked(n)', Right(client[n])' \/ Disturbed(n)',
         Quiet(n, p)' => Over(n, p)'
  PROVE  IInv'
<1>1. Types /\ Tables /\ Streams /\ p \in Nodes /\ n # p
  BY Busy DEF At
<1>2. TablesGrow /\ \A m \in Nodes : Elements(provs'[m]) \subseteq provided'
  BY <1>1, SameProvs, FadingLinks DEF TablesGrow
<1>3. Streams'
  BY <1>1, StreamsFrom DEF ConnFades
<1>4. ClientChange(n, p) /\ client'[n] = c
  <2>1. \A x \in Nodes \ {p} : ~Waits(n, x)
    BY DEF Waits, At
  <2>2. QED
    BY <1>1, <2>1, Moves
<1>5. NetChange(n, p)
  BY <1>1 DEF NetChange, Types
<1>6. Frame(n, p, {}) /\ PublishStep(n)
  BY <1>1, <1>2, <1>4, <1>5, SamePublished DEF Frame
<1>7. ASSUME Quiet(n, p)' PROVE Calm(n, p)'
  <2>1. ~Waits(n, p)'
    BY <1>4 DEF Waits
  <2>2. Over(n, p)'
    BY <1>7
  <2>3. QED
    BY <2>1, <2>2 DEF Calm, Rest, Over
<1>8. QED
  BY <1>1, <1>2, <1>3, <1>6, <1>7, StepFrom

\* What becomes of the announcement when the request of it ends.
LEMMA WalkedNext ==
  ASSUME IInv, TablesGrow, Books, History, NEW n \in Nodes, NEW p, At(n, p), SameCall(n),
         client'[n].step = "walk" /\ client'[n].at = client[n].at + 1,
         NEW k, k = client[n].key, client[n].op = "provide" => Reached(n, p, k)'
  PROVE  Walked(n)'
<1>1. Types /\ Walked(n) /\ Placed(n, client[n])
  BY Busy DEF At
<1>2. client[n].op = "provide" => client[n].at <= Len(store[n]) /\ p = store[n][client[n].at]
  BY DEF At
<1>3. ASSUME client[n].op = "provide"
      PROVE  \A x \in Nodes \ {n} : x = store[n][client[n].at] => Reached(n, x, k)'
  <2>1. ASSUME NEW x \in Nodes \ {n}, x = store[n][client[n].at] PROVE Reached(n, x, k)'
    <3>1. x = p
      BY <1>2, <1>3, <2>1
    <3>2. Reached(n, p, k)'
      BY <1>3
    <3>3. QED
      BY <3>1, <3>2
  <2>2. QED
    BY <2>1
<1>4. QED
  BY <1>1, <1>2, <1>3, WalkedOn

\* The call c after a question of n to which there is no answer.
Unanswered(c, n) ==
  /\ c \in CallRecords
  /\ c.op = client[n].op /\ c.key = client[n].key /\ c.ask = client[n].ask
  /\ c.found = client[n].found /\ c.got = client[n].got
  /\ IF client[n].ask \in {"ping", "get_value"} THEN c.step = "idle"
     ELSE c.step = "walk" /\ c.at = client[n].at + 1

LEMMA NextPeerRecord ==
  ASSUME NEW c \in CallRecords
  PROVE  /\ NextPeer(c) \in CallRecords /\ NextPeer(c).step = "walk" /\ NextPeer(c).at = c.at + 1
         /\ NextPeer(c).op = c.op /\ NextPeer(c).key = c.key /\ NextPeer(c).ask = c.ask
         /\ NextPeer(c).found = c.found /\ NextPeer(c).got = c.got
<1>1. c.at \in Nat /\ c.at + 1 \in Nat
  BY DEF CallRecords
<1>2. PICK d : d = [c EXCEPT !.at = c.at + 1, !.step = "walk"]
  OBVIOUS
<1>3. /\ d \in CallRecords /\ d.step = "walk" /\ d.at = c.at + 1
      /\ d.op = c.op /\ d.key = c.key /\ d.ask = c.ask
      /\ d.found = c.found /\ d.got = c.got
  BY <1>1, <1>2 DEF CallRecords
<1>4. NextPeer(c) = d
  BY <1>2 DEF NextPeer
<1>5. QED
  BY <1>3, <1>4

LEMMA UnansweredStep ==
  ASSUME IInv, History, NEW n \in Nodes, NEW p, At(n, p), NEW c, Unanswered(c, n), Set(n, c),
         StoresGrow, ConnFades, Books, Feeds({}), \A q \in Pairs \ {<<p, n>>} : chan'[q] = chan[q],
         UNCHANGED <<provs, server, published>>,
         Quiet(n, p)' => Over(n, p)',
         NEW k, k = client[n].key, client[n].ask = "add_provider" => Reached(n, p, k)'
  PROVE  IInv'
<1>1. /\ Types /\ Tables /\ Streams /\ Answers /\ Walked(n) /\ Placed(n, client[n])
      /\ client[n].at \in Nat /\ client[n].step # "idle"
  BY Busy DEF At
<1>2. client'[n] = c /\ c \in CallRecords
  <2>1. client \in [Nodes -> CallRecords] /\ client' = [client EXCEPT ![n] = c]
    BY <1>1 DEF Set, Types
  <2>2. client'[n] = c
    BY <2>1
  <2>3. c \in CallRecords
    BY DEF Unanswered
  <2>4. QED
    BY <2>2, <2>3
<1>3. SameCall(n)
  <2>1. /\ c.op = client[n].op /\ c.key = client[n].key
        /\ c.found = client[n].found /\ c.got = client[n].got
    BY DEF Unanswered
  <2>2. QED
    BY <1>1, <1>2, <2>1 DEF SameCall
<1>4. Placed(n, client[n])'
  <2>1. CASE client[n].ask \in {"ping", "get_value"}
    BY <1>2, <2>1 DEF Placed, Unanswered
  <2>2. CASE client[n].ask \notin {"ping", "get_value"}
    <3>1. client[n].op # "ping" /\ client[n].at + 1 >= 1
      BY <1>1, <2>2 DEF Placed, RequestOf
    <3>2. QED
      BY <1>1, <1>2, <2>2, <3>1 DEF Placed, Unanswered, Books
  <2>3. QED
    BY <2>1, <2>2
<1>5. Walked(n)'
  <2>1. CASE client[n].op # "provide" \/ c.step = "idle"
    BY <1>2, <1>3, <2>1, WalkedOther DEF SameCall
  <2>2. CASE client[n].op = "provide" /\ c.step # "idle"
    <3>1. client[n].ask = "add_provider" /\ c.step = "walk" /\ c.at = client[n].at + 1
      BY <1>1, <2>2 DEF Placed, RequestOf, Unanswered
    <3>2. TablesGrow
      BY <1>1, SameProvs, FadingLinks DEF TablesGrow
    <3>3. Reached(n, p, k)'
      BY <3>1
    <3>4. QED
      BY <1>2, <1>3, <3>1, <3>2, <3>3, WalkedNext
  <2>3. QED
    BY <2>1, <2>2
<1>6. Right(client[n])' \/ Disturbed(n)'
  BY <1>1, <1>3, StillRight
<1>7. c.step \notin {"upgrade", "reply"}
  BY DEF Unanswered
<1>8. QED
  BY <1>2, <1>4, <1>5, <1>6, <1>7, FinishStep

LEMMA NotRepliedStep ==
  ASSUME IInv, History, NEW n \in Nodes, NEW p, At(n, p), NEW d, d = [client[n] EXCEPT !.who = p],
         NotReplied(n, d), Books, Feeds({}),
         \A q \in Pairs \ {<<p, n>>} : chan'[q] = chan[q], UNCHANGED <<server, published>>,
         Quiet(n, p)' => Over(n, p)' /\ client[n].ask # "add_provider"
  PROVE  IInv'
<1>1. /\ Types /\ client[n] \in CallRecords /\ p \in Nodes \ {n}
  BY Busy DEF At
<1>2. /\ d \in CallRecords /\ d.who = p /\ d.op = client[n].op /\ d.key = client[n].key
      /\ d.ask = client[n].ask /\ d.at = client[n].at /\ d.found = client[n].found
      /\ d.got = client[n].got
  BY <1>1 DEF CallRecords
<1>3. PICK c : c = IF d.ask \in {"ping", "get_value"} THEN [d EXCEPT !.step = "idle"] ELSE NextPeer(d)
  OBVIOUS
<1>4. Set(n, c) /\ store' = store /\ provs' = provs
      /\ conn' = IF d.ask = "find_node" THEN [conn EXCEPT ![<<n, p>>] = "no"] ELSE conn
  BY <1>2, <1>3 DEF NotReplied
<1>5. Unanswered(c, n)
  <2>1. CASE d.ask \in {"ping", "get_value"}
    <3>1. c = [d EXCEPT !.step = "idle"]
      BY <1>3, <2>1
    <3>2. QED
      BY <1>2, <2>1, <3>1 DEF CallRecords, Unanswered
  <2>2. CASE d.ask \notin {"ping", "get_value"}
    BY <1>2, <1>3, <2>2, NextPeerRecord DEF Unanswered
  <2>3. QED
    BY <2>1, <2>2
<1>6. StoresGrow /\ ConnFades
  BY <1>1, <1>4, SameStores, PairOf DEF Types, ConnFades
<1>7. PICK k : k = client[n].key
  OBVIOUS
<1>8. client[n].ask = "add_provider" => Reached(n, p, k)'
  BY DEF Reached
<1>9. QED
  BY <1>4, <1>5, <1>6, <1>7, <1>8, UnansweredStep

\* The call of n is about p.
LEMMA SameWho ==
  ASSUME Types, NEW n \in Nodes
  PROVE  client[n] = [client[n] EXCEPT !.who = client[n].who]
<1>1. client[n] \in CallRecords
  BY CallFields
<1>2. QED
  BY <1>1 DEF CallRecords

-----------------------------------------------------------------------------
(* A peer is asked.                                                         *)

\* The protocol id goes out to p.
LEMMA AskStep ==
  ASSUME IInv, History, NEW n \in Nodes, NEW p \in Nodes, n # p,
         client[n].step \in {"walk", "direct", "value"}, conn[<<n, p>>] # "no",
         client[n].step = "walk" => client[n].at <= Len(store[n]) /\ p = store[n][client[n].at],
         Ask(n, p, client[n]), UNCHANGED <<server, calls, provided, published>>
  PROVE  IInv'
<1>1. Types /\ Tables /\ Streams /\ Orderly /\ Answers /\ Walked(n) /\ Placed(n, client[n])
  BY DEF IInv, Told
<1>2. /\ <<n, p>> \in Pairs /\ <<p, n>> \in Pairs /\ <<n, p>> # <<p, n>>
      /\ <<n, p>>[1] = n /\ <<n, p>>[2] = p
  BY PairOf
<1>3. ASSUME UNCHANGED tables
      PROVE  /\ TablesGrow /\ ConnFades /\ Streams' /\ puts' = puts
             /\ Books => \A m \in Nodes : Elements(provs'[m]) \subseteq provided'
  <2>1. UNCHANGED <<store, conn, provs, puts>>
    BY <1>3 DEF tables
  <2>2. /\ TablesGrow /\ ConnFades
        /\ Books => \A m \in Nodes : Elements(provs'[m]) \subseteq provided'
    BY <1>1, <2>1, SameTables
  <2>3. QED
    BY <1>1, <2>1, <2>2, StreamsFrom DEF ConnFades
<1>4. CASE Fault(n, p) /\ NotReplied(n, [client[n] EXCEPT !.who = p]) /\ UNCHANGED <<chan, crashed>>
  <2>1. At(n, p)
    BY <1>1 DEF At, Placed
  <2>2. puts' = puts
    BY <1>4 DEF NotReplied
  <2>3. Books /\ ~Quiet(n, p)'
    BY <1>1, <1>4, <2>2, FaultBooks
  <2>4. Feeds({})
    BY <1>1, <1>4, SameEffect
  <2>5. QED
    BY <1>4, <2>1, <2>3, <2>4, NotRepliedStep
<1>5. CASE conn[<<n, p>>] = "ghost"
  <2>1. crashed' = "session" /\ chan' = chan /\ client' = client /\ UNCHANGED <<tables, fails>>
    BY <1>5 DEF Ask
  <2>2. Books
    BY <1>1, <1>3, <2>1, CrashBooks DEF fails
  <2>3. NetChange(n, n) /\ ClientChange(n, n) /\ Feeds({})
    BY <1>1, <2>1, Stays, SameEffect DEF Types, NetChange
  <2>4. \A m \in Nodes : Elements(provs'[m]) \subseteq provided'
    BY <1>3, <2>1, <2>2
  <2>5. Frame(n, n, {})
    BY <1>3, <2>1, <2>2, <2>3 DEF Frame
  <2>6. QED
    BY <1>3, <2>1, <2>4, <2>5, StillFrom
<1>6. CASE /\ Send(<<n, p>>, Header) /\ Set(n, [client[n] EXCEPT !.step = "upgrade", !.who = p])
           /\ UNCHANGED <<tables, fails, crashed>> /\ conn[<<n, p>>] = "yes"
  <2>1. PICK c : c = [client[n] EXCEPT !.step = "upgrade", !.who = p]
    OBVIOUS
  <2>2. Send(<<n, p>>, Header) /\ Set(n, c) /\ crashed' = crashed /\ UNCHANGED <<tables, fails>>
    BY <1>6, <2>1
  <2>3. /\ c \in CallRecords /\ c.step = "upgrade" /\ c.who = p
        /\ c.op = client[n].op /\ c.key = client[n].key /\ c.at = client[n].at
        /\ c.ask = client[n].ask /\ c.found = client[n].found /\ c.got = client[n].got
    BY <1>1, <2>1 DEF Types, CallRecords
  <2>4. Books
    BY <1>1, <1>3, <2>2, SameBooks DEF fails
  <2>5. TablesGrow /\ Streams' /\ \A m \in Nodes : Elements(provs'[m]) \subseteq provided'
    BY <1>3, <2>2, <2>4
  <2>6. ClientChange(n, p) /\ client'[n] = c
    <3>1. \A x \in Nodes \ {p} : ~Waits(n, x)
      BY DEF Waits
    <3>2. QED
      BY <1>1, <2>2, <2>3, <3>1, Moves
  <2>7. /\ Feeds({Header}) /\ chan'[<<n, p>>] = Append(chan[<<n, p>>], Header)
        /\ \A q \in Pairs \ {<<n, p>>} : chan'[q] = chan[q]
    BY <1>1, <1>2, <2>2, SendEffect, Greeting
  <2>8. NetChange(n, p)
    BY <1>1, <2>7 DEF NetChange, Types
  <2>9. Frame(n, p, {Header}) /\ PublishStep(n)
    BY <1>1, <2>4, <2>5, <2>6, <2>7, <2>8, Greeting, SamePublished DEF Frame, Honest
  <2>10. SameCall(n)
    BY <2>3, <2>6 DEF SameCall
  <2>11. Placed(n, client[n])'
    BY <1>1, <2>3, <2>6 DEF Placed, Types, CallRecords
  <2>12. Walked(n)'
    <3>1. client[n].op = "provide" => client[n].at <= Len(store[n]) /\ p = store[n][client[n].at]
      BY <1>1 DEF Placed
    <3>2. QED
      BY <1>1, <2>3, <2>4, <2>5, <2>6, <2>10, <3>1, WalkedSame
  <2>13. Right(client[n])' \/ Disturbed(n)'
    BY <1>1, <2>4, <2>10, StillRight
  <2>14. ASSUME Quiet(n, p)' PROVE Calm(n, p)'
    <3>1. Quiet(n, p)
      BY <1>1, <2>4, <2>14, QuietBefore
    <3>2. Calm(n, p)
      BY <1>2, <3>1, <1>1 DEF Orderly
    <3>3. Waits(n, p)' /\ ~Waits(n, p)
      BY <2>3, <2>6 DEF Waits
    <3>4. ~Waits(p, n)' /\ ~Waits(p, n)
      <4>1. ~Waits(p, n)'
        BY <2>14, <3>3, NoClash
      <4>2. client'[p] = client[p]
        BY <2>6 DEF ClientChange
      <4>3. QED
        BY <4>1, <4>2 DEF Waits
    <3>5. Rest(n, p) \/ Putting(n, p)
      <4>1. server[<<n, p>>] # "msg"
        BY <2>14, <3>3, NoClash
      <4>2. QED
        BY <3>2, <3>3, <3>4, <4>1 DEF Calm, Asking, Putting
    <3>6. server[<<n, p>>] = "listen"
      BY <1>1, <1>2, <1>6, <3>5 DEF Streams, Rest, Putting
    <3>7. CASE Rest(n, p)
      <4>1. server[<<p, n>>] = "listen"
        BY <3>6, <3>7 DEF Rest
      <4>2. chan'[<<n, p>>] = <<Header>> /\ chan'[<<p, n>>] = <<>>
        BY <1>2, <2>7, <3>7 DEF Rest
      <4>3. Stage(n, p)'
        BY <2>3, <2>6, <4>1, <4>2 DEF Stage
      <4>4. QED
        BY <3>3, <3>4, <3>6, <4>3 DEF Calm, Asking
    <3>8. CASE Putting(n, p)
      <4>1. PICK m \in Records : chan[<<n, p>>] = <<m>>
        BY <3>8 DEF Putting
      <4>2. chan'[<<n, p>>] = <<m, Header>> /\ chan'[<<p, n>>] = <<>> /\ server[<<p, n>>] = "msg"
        <5>1. Append(chan[<<n, p>>], Header) = <<m, Header>>
          BY <4>1, BodyIsMessage, Greeting, AppendSecond DEF Records
        <5>2. chan[<<p, n>>] = <<>> /\ server[<<p, n>>] = "msg"
          BY <3>8 DEF Putting
        <5>3. chan'[<<n, p>>] = Append(chan[<<n, p>>], Header)
          BY <1>2, <2>7
        <5>4. chan'[<<p, n>>] = chan[<<p, n>>]
          BY <1>2, <2>7
        <5>5. QED
          BY <4>1, <5>1, <5>2, <5>3, <5>4
      <4>3. Stage(n, p)'
        BY <2>3, <2>6, <4>2 DEF Stage
      <4>4. QED
        BY <3>3, <3>4, <3>6, <4>3 DEF Calm, Asking
    <3>9. QED
      BY <3>5, <3>7, <3>8
  <2>15. QED
    BY <2>5, <2>9, <2>11, <2>12, <2>13, <2>14, StepFrom
<1>7. QED
  <2>1. conn[<<n, p>>] \in {"yes", "ghost"}
    BY <1>1, <1>2 DEF Types
  <2>2. QED
    BY <1>4, <1>5, <1>6, <2>1 DEF Ask

\* A call is over, or goes on to the next peer, and nothing else happens.
LEMMA TurnStep ==
  ASSUME IInv, History, NEW n \in Nodes, NEW c \in CallRecords, Set(n, c),
         client[n].step \in {"walk", "direct", "value"},
         c.op = client[n].op, c.key = client[n].key, c.found = client[n].found, c.got = client[n].got,
         c.step = "idle" \/ (c = [client[n] EXCEPT !.at = @ + 1] /\ client[n].step = "walk"),
         ConnFades,
         UNCHANGED <<store, provs, puts, chan, server, calls, faults, faulty, crashed, provided>>,
         Walked(n)', PublishStep(n)
  PROVE  IInv'
<1>1. Types /\ Tables /\ Streams /\ Orderly /\ Answers /\ Placed(n, client[n])
  BY DEF IInv
<1>2. TablesGrow
  BY <1>1, SameStores, SameProvs, FadingLinks DEF TablesGrow
<1>3. Streams'
  BY <1>1, StreamsFrom DEF ConnFades
<1>4. Books
  BY <1>1, SameBooks
<1>5. \A m \in Nodes : Elements(provs'[m]) \subseteq provided'
  BY <1>1, <1>4, SameProvs
<1>6. c.step \notin {"upgrade", "reply"}
  BY <1>1 DEF Types, CallRecords
<1>7. ClientChange(n, n) /\ client'[n] = c
  <2>1. \A x \in Nodes \ {n} : ~Waits(n, x)
    BY DEF Waits
  <2>2. QED
    BY <1>1, <1>6, <2>1, Moves
<1>8. NetChange(n, n) /\ Feeds({})
  BY <1>1, SameEffect DEF Types, NetChange
<1>9. Frame(n, n, {})
  BY <1>2, <1>4, <1>7, <1>8 DEF Frame
<1>10. SameCall(n)
  BY <1>7 DEF SameCall
<1>11. Placed(n, client[n])'
  <2>1. CASE c.step = "idle"
    BY <1>7, <2>1 DEF Placed
  <2>2. CASE c = [client[n] EXCEPT !.at = @ + 1] /\ client[n].step = "walk"
    <3>1. c.ask = client[n].ask /\ c.step = "walk" /\ c.at = client[n].at + 1 /\ client[n].at \in Nat
      BY <1>1, <2>2 DEF Types, CallRecords
    <3>2. QED
      BY <1>1, <1>7, <3>1 DEF Placed
  <2>3. QED
    BY <2>1, <2>2
<1>12. Right(client[n])' \/ Disturbed(n)'
  BY <1>1, <1>4, <1>10, StillRight
<1>13. QED
  BY <1>3, <1>5, <1>9, <1>11, <1>12, StepFrom

\* A peer is connected first.
LEMMA ConnectedTables ==
  ASSUME Types, Streams, NEW n \in Nodes, NEW p \in Nodes, n # p, server[<<n, p>>] = "none",
         Connected(n, p)
  PROVE  StoresGrow /\ LinksFade
<1>1. <<n, p>> \in Pairs /\ <<p, n>> \in Pairs /\ <<n, p>> # <<p, n>>
      /\ <<n, p>>[1] = n /\ <<n, p>>[2] = p
  BY PairOf
<1>2. StoresGrow
  <2>1. PICK s : s = IF Knows(p, n) THEN store[p] ELSE Append(store[p], n)
    OBVIOUS
  <2>2. store' = [store EXCEPT ![p] = s]
    BY <2>1, Zenon DEF Connected
  <2>3. store[p] \in Seq(Nodes) /\ Len(store[p]) \in Nat
    BY DEF Types
  <2>4. /\ s \in Seq(Nodes) /\ Len(store[p]) <= Len(s)
        /\ \A i \in 1 .. Len(store[p]) : s[i] = store[p][i]
    <3>1. CASE Knows(p, n)
      BY <2>1, <2>3, <3>1
    <3>2. CASE ~Knows(p, n)
      <4>1. s = Append(store[p], n)
        BY <2>1, <3>2
      <4>2. QED
        BY <2>3, <4>1, AppendOf
    <3>3. QED
      BY <3>1, <3>2
  <2>5. QED
    BY <2>2, <2>4, StoreGrows
<1>3. PICK w \in {"yes", "no"} : conn' = [conn EXCEPT ![<<n, p>>] = "yes", ![<<p, n>>] = w]
  BY Zenon DEF Connected
<1>4. /\ conn' \in [Pairs -> {"yes", "no", "ghost"}]
      /\ \A q \in Pairs \ {<<n, p>>, <<p, n>>} : conn'[q] = conn[q]
  BY <1>1, <1>3 DEF Types
<1>5. server[<<p, n>>] = "none" /\ {n, p} \notin Links /\ {p, n} \notin Links
  BY <1>1 DEF Streams
<1>6. QED
  BY <1>1, <1>2, <1>4, <1>5 DEF LinksFade

LEMMA ConnectedStep ==
  ASSUME IInv, History, NEW n \in Nodes, NEW p \in Nodes, n # p,
         server[<<n, p>>] = "none", Connected(n, p),
         UNCHANGED <<client, provs, puts, chan, calls, faults, faulty, crashed, provided, published>>
  PROVE  IInv'
<1>1. Types /\ Tables /\ Streams /\ Orderly
  BY DEF IInv
<1>2. /\ <<n, p>> \in Pairs /\ <<p, n>> \in Pairs /\ <<n, p>> # <<p, n>>
      /\ <<n, p>>[1] = n /\ <<n, p>>[2] = p
  BY PairOf
<1>3. Books
  BY <1>1, SameBooks
<1>4. TablesGrow /\ \A m \in Nodes : Elements(provs'[m]) \subseteq provided'
  BY <1>1, <1>3, ConnectedTables, SameProvs DEF TablesGrow
<1>5. /\ server' \in [Pairs -> {"none", "listen", "msg", "ended"}]
      /\ server'[<<n, p>>] = "listen" /\ server'[<<p, n>>] = "listen"
      /\ \A q \in Pairs \ {<<n, p>>, <<p, n>>} : server'[q] = server[q]
  BY <1>1, <1>2 DEF Types, Connected
<1>6. NetChange(n, p) /\ ClientChange(n, p) /\ Feeds({})
  BY <1>1, <1>5, Stays, SameEffect DEF NetChange
<1>7. Frame(n, p, {})
  BY <1>3, <1>4, <1>6 DEF Frame
<1>8. Streams'
  <2>1. /\ conn' \in [Pairs -> {"yes", "no", "ghost"}]
        /\ \A q \in Pairs \ {<<n, p>>, <<p, n>>} : conn'[q] = conn[q]
    BY <1>1, <1>2 DEF Types, Connected
  <2>2. ASSUME NEW q \in Pairs
        PROVE  /\ server'[q] = "none" => server'[<<q[2], q[1]>>] = "none"
               /\ conn'[q] = "yes" => server'[q] # "none"
               /\ {q[1], q[2]} \in Links => server'[q] # "none"
    <3>1. CASE q \in {<<n, p>>, <<p, n>>}
      BY <1>5, <3>1
    <3>2. CASE q \notin {<<n, p>>, <<p, n>>}
      <4>1. <<q[2], q[1]>> \in Pairs \ {<<n, p>>, <<p, n>>}
        BY <3>2, PairParts
      <4>2. QED
        BY <1>1, <1>5, <2>1, <3>2, <4>1 DEF Streams
    <3>3. QED
      BY <3>1, <3>2
  <2>3. QED
    BY <2>2 DEF Streams
<1>9. ASSUME Quiet(n, p)' PROVE Calm(n, p)'
  <2>1. Quiet(n, p)
    BY <1>1, <1>3, <1>9, QuietBefore
  <2>2. Calm(n, p)
    BY <1>1, <1>2, <2>1 DEF Orderly
  <2>3. Rest(n, p)
    BY <2>2 DEF Calm, Asking, Putting, Stage
  <2>4. Rest(n, p)'
    BY <1>5, <2>3 DEF Rest, Waits
  <2>5. QED
    BY <2>4 DEF Calm
<1>10. QED
  BY <1>4, <1>7, <1>8, <1>9, StillFrom

\* One peer is asked, or connected, or left out.
LEMMA ReachStep ==
  ASSUME IInv, History, NEW n \in Nodes, NEW p \in Nodes, n # p,
         client[n].step \in {"walk", "direct", "value"}, client[n].op # "provide",
         client[n].step = "walk" => client[n].at <= Len(store[n]) /\ p = store[n][client[n].at],
         NEW c \in CallRecords,
         c.op = client[n].op, c.key = client[n].key, c.found = client[n].found, c.got = client[n].got,
         c.step = "idle" \/ (c = [client[n] EXCEPT !.at = @ + 1] /\ client[n].step = "walk"),
         NEW b \in BOOLEAN, b => conn[<<n, p>>] # "no", Reach(n, p, c, b),
         UNCHANGED <<calls, provided, published>>
  PROVE  IInv'
<1>1. Types
  BY DEF IInv
<1>2. CASE b
  BY <1>2, AskStep DEF Reach
<1>3. CASE ~b /\ server[<<n, p>>] = "none" /\ Connected(n, p) /\ UNCHANGED <<client, provs, puts>>
  BY <1>3, ConnectedStep DEF Reach, fails
<1>4. CASE /\ ~b /\ conn' = [conn EXCEPT ![<<n, p>>] = "no"] /\ Set(n, c)
           /\ UNCHANGED <<store, provs, puts, server>>
  <2>1. ConnFades
    BY <1>1, <1>4, PairOf DEF Types, ConnFades
  <2>2. client'[n] = c
    BY <1>1, <1>4 DEF Set, Types
  <2>3. Walked(n)' /\ PublishStep(n)
    BY <1>1, <2>2, WalkedOther, SamePublished
  <2>4. UNCHANGED <<chan, crashed, faults, faulty>>
    BY <1>4 DEF Reach, fails
  <2>5. QED
    BY <1>4, <2>1, <2>3, <2>4, TurnStep
<1>5. QED
  BY <1>2, <1>3, <1>4 DEF Reach

LEMMA WalkStep ==
  ASSUME IInv, History, NEW n \in Nodes, Walk(n)
  PROVE  IInv'
<1>1. Types /\ Tables /\ Walked(n) /\ Placed(n, client[n]) /\ client[n] \in CallRecords
  BY CallFields DEF IInv, Told
<1>2. client[n].step = "walk" /\ UNCHANGED <<calls, provided>>
  BY DEF Walk
<1>3. /\ store[n] \in Seq(Nodes) /\ client[n].at \in Nat /\ client[n].at >= 1
      /\ client[n].found = {} /\ client[n].got = {}
  BY <1>1, <1>2 DEF Types, Placed, CallRecords
<1>4. CASE client[n].at > Len(store[n])
  <2>1. PICK c : c = [client[n] EXCEPT !.step = "idle", !.found = {}]
    OBVIOUS
  <2>2. /\ c \in CallRecords /\ c.step = "idle" /\ c.found = {}
        /\ c.op = client[n].op /\ c.key = client[n].key /\ c.got = client[n].got
    BY <1>1, <2>1 DEF CallRecords
  <2>3. /\ Set(n, c) /\ UNCHANGED <<store, conn, provs, puts, chan, server, faults, faulty, crashed>>
        /\ published' = IF client[n].op = "provide"
                          THEN published \cup {[key |-> client[n].key, id |-> n]} ELSE published
    BY <1>4, <2>1 DEF Walk, Answered, Ended, tables, net, fails
  <2>4. Books /\ TablesGrow /\ ConnFades
    BY <1>1, <1>2, <2>3, SameBooks, SameTables
  <2>5. client'[n] = c
    BY <1>1, <2>2, <2>3 DEF Set, Types
  <2>6. PublishStep(n)
    <3>1. CASE client[n].op # "provide"
      BY <1>1, <2>3, <3>1, SamePublished
    <3>2. CASE client[n].op = "provide"
      <4>1. PICK k \in Keys : k = client[n].key
        BY <1>1, <1>2, <3>2 DEF Placed
      <4>2. [key |-> k, id |-> n] \in Entries /\ published \subseteq Entries
        BY <1>1 DEF Entries, Types
      <4>3. published' = published \cup {[key |-> k, id |-> n]}
        BY <2>3, <3>2, <4>1
      <4>4. ASSUME NEW x \in Nodes \ {n} PROVE Reached(n, x, k)'
        <5>1. SUFFICES ASSUME {n, x} \in Links PROVE Reached(n, x, k)
          BY <1>1, <1>3, <2>4, ReachedStays DEF Reached
        <5>2. Knows(n, x)
          BY <1>1, <5>1 DEF Tables, Neighbours
        <5>3. PICK j \in 1 .. Len(store[n]) : store[n][j] = x
          BY <5>2 DEF Knows, Elements
        <5>4. j < client[n].at
          BY <1>3, <1>4, <5>3
        <5>5. QED
          BY <1>1, <1>2, <3>2, <4>1, <5>3, <5>4 DEF Walked
      <4>5. ASSUME NEW k2 \in Keys, NEW m \in Nodes, [key |-> k2, id |-> m] \in published'
            PROVE  \/ [key |-> k2, id |-> m] \in published
                   \/ m = n /\ \A x \in Nodes \ {n} : Reached(n, x, k2)'
        <5>1. CASE [key |-> k2, id |-> m] = [key |-> k, id |-> n]
          <6>1. k2 = k /\ m = n
            BY <5>1
          <6>2. QED
            BY <4>4, <6>1, Zenon DEF Reached
        <5>2. QED
          BY <4>3, <4>5, <5>1
      <4>6. QED
        BY <4>2, <4>3, <4>5 DEF PublishStep
    <3>3. QED
      BY <3>1, <3>2
  <2>7. Walked(n)'
    BY <2>2, <2>5, WalkedOther
  <2>8. QED
    BY <1>2, <1>3, <2>2, <2>3, <2>4, <2>6, <2>7, TurnStep
<1>5. CASE client[n].at <= Len(store[n])
  <2>1. PICK p \in Nodes : p = store[n][client[n].at]
    BY <1>3, <1>5
  <2>2. published' = published
    BY <1>3, <1>5 DEF Walk
  <2>3. PICK c : c = NextPeer(client[n])
    OBVIOUS
  <2>4. /\ c \in CallRecords /\ c.step = "walk" /\ c.at = client[n].at + 1
        /\ c.op = client[n].op /\ c.key = client[n].key /\ c.found = client[n].found
        /\ c.got = client[n].got
    BY <1>1, <2>3, NextPeerRecord
  <2>5. c = [client[n] EXCEPT !.at = @ + 1]
    BY <1>1, <1>2, <2>3 DEF NextPeer, CallRecords
  <2>6. CASE p # n /\ client[n].op = "name"
    <3>1. PICK b \in BOOLEAN : b <=> conn[<<n, p>>] = "yes"
      OBVIOUS
    <3>2. Reach(n, p, c, conn[<<n, p>>] = "yes")
      BY <1>3, <1>5, <2>1, <2>3, <2>6 DEF Walk
    <3>3. Reach(n, p, c, b)
      BY <3>1, <3>2, Zenon DEF Reach
    <3>4. QED
      BY <1>2, <1>5, <2>1, <2>2, <2>4, <2>5, <2>6, <3>1, <3>3, ReachStep
  <2>7. CASE p # n /\ client[n].op # "name" /\ conn[<<n, p>>] # "no"
    <3>1. Ask(n, p, client[n]) /\ server' = server
      BY <1>3, <1>5, <2>1, <2>7 DEF Walk
    <3>2. QED
      BY <1>2, <1>5, <2>1, <2>2, <2>7, <3>1, AskStep
  <2>8. CASE p = n \/ (client[n].op # "name" /\ conn[<<n, p>>] = "no")
    <3>1. Set(n, c) /\ UNCHANGED <<store, conn, provs, puts, chan, server, faults, faulty, crashed>>
      BY <1>3, <1>5, <2>1, <2>3, <2>8 DEF Walk, tables, net, fails
    <3>2. Books /\ TablesGrow /\ ConnFades
      BY <1>1, <1>2, <3>1, SameBooks, SameTables
    <3>3. client'[n] = c
      BY <1>1, <2>4, <3>1 DEF Set, Types
    <3>4. SameCall(n)
      BY <1>2, <2>4, <3>3 DEF SameCall
    <3>5. ASSUME NEW x \in Nodes \ {n}, x = p, NEW k PROVE client[n].op = "provide" => Reached(n, x, k)'
      BY <1>2, <2>8, <3>1, <3>5 DEF Reached
    <3>6. Walked(n)'
      <4>1. PICK k : k = client[n].key
        OBVIOUS
      <4>2. client[n].op = "provide" =>
              \A x \in Nodes \ {n} : x = store[n][client[n].at] => Reached(n, x, k)'
        BY <2>1, <3>5
      <4>3. QED
        BY <1>1, <1>3, <1>5, <2>4, <3>2, <3>3, <3>4, <4>1, <4>2, WalkedOn
    <3>7. PublishStep(n)
      BY <1>1, <2>2, SamePublished
    <3>8. QED
      BY <1>2, <2>4, <2>5, <3>1, <3>2, <3>6, <3>7, TurnStep
  <2>9. QED
    BY <2>6, <2>7, <2>8
<1>6. QED
  BY <1>3, <1>4, <1>5

LEMMA DirectStep ==
  ASSUME IInv, History, NEW n \in Nodes, Direct(n)
  PROVE  IInv'
<1>1. Types /\ Tables /\ Streams /\ Placed(n, client[n]) /\ client[n] \in CallRecords
  BY CallFields DEF IInv
<1>2. client[n].step \in {"direct", "value"} /\ UNCHANGED <<calls, provided, published>>
  BY DEF Direct
<1>3. client[n].op \in {"ping", "value"} /\ (client[n].op = "ping" => client[n].key \in Nodes)
  BY <1>1, <1>2 DEF Placed
<1>4. client[n].op = "value" => client[n].found # {} /\ client[n].found \subseteq Nodes
  BY <1>1, <1>2 DEF Placed, CallRecords
<1>5. PICK p : p = IF client[n].op = "ping" THEN client[n].key ELSE CHOOSE q \in client[n].found : TRUE
  OBVIOUS
<1>6. p \in Nodes
  <2>1. (CHOOSE q \in client[n].found : TRUE) \in client[n].found \/ client[n].op = "ping"
    BY <1>3, <1>4
  <2>2. QED
    BY <1>3, <1>4, <1>5, <2>1
<1>7. PICK c : c = [client[n] EXCEPT !.step = "idle"]
  OBVIOUS
<1>8. /\ c \in CallRecords /\ c.step = "idle" /\ c.found = client[n].found
      /\ c.op = client[n].op /\ c.key = client[n].key /\ c.got = client[n].got
  BY <1>1, <1>7 DEF CallRecords
<1>9. CASE p # n
  <2>1. PICK b \in BOOLEAN : b <=> (conn[<<n, p>>] = "yes" \/ (client[n].op = "ping" /\ conn[<<n, p>>] = "ghost"))
    OBVIOUS
  <2>2. Reach(n, p, c, conn[<<n, p>>] = "yes" \/ (client[n].op = "ping" /\ conn[<<n, p>>] = "ghost"))
    BY <1>5, <1>7, <1>9, Zenon DEF Direct
  <2>3. Reach(n, p, c, b)
    BY <2>1, <2>2, Zenon DEF Reach
  <2>4. QED
    BY <1>2, <1>3, <1>6, <1>8, <1>9, <2>1, <2>3, ReachStep
<1>10. CASE p = n
  <2>1. /\ IF Bare(n, client[n].key) THEN crashed' = "file" /\ client' = client
                                     ELSE Set(n, c) /\ crashed' = crashed
        /\ UNCHANGED <<tables, net, fails>>
    BY <1>5, <1>7, <1>10, Zenon DEF Direct
  <2>2. UNCHANGED <<store, conn, provs, puts, chan, server, faults, faulty>>
    BY <2>1 DEF tables, net, fails
  <2>3. TablesGrow /\ ConnFades
    BY <1>1, <2>2, SameTables
  <2>4. CASE Bare(n, client[n].key)
    <3>1. crashed' = "file" /\ client' = client
      BY <2>1, <2>4
    <3>2. Books
      BY <1>1, <1>2, <2>2, <2>4, <3>1, CrashBooks, BareIsName
    <3>3. NetChange(n, n) /\ ClientChange(n, n) /\ Feeds({})
      BY <1>1, <2>2, <3>1, Stays, SameEffect DEF Types, NetChange
    <3>4. \A m \in Nodes : Elements(provs'[m]) \subseteq provided'
      BY <1>1, <2>2, <3>2, SameProvs
    <3>5. Frame(n, n, {}) /\ Streams'
      BY <1>1, <2>2, <2>3, <3>2, <3>3, StreamsFrom DEF Frame, ConnFades
    <3>6. QED
      BY <1>2, <3>1, <3>4, <3>5, StillFrom
  <2>5. CASE ~Bare(n, client[n].key)
    <3>1. Set(n, c) /\ crashed' = crashed
      BY <2>1, <2>5
    <3>2. client'[n] = c
      BY <1>1, <1>8, <3>1 DEF Set, Types
    <3>3. Walked(n)' /\ PublishStep(n)
      BY <1>1, <1>2, <1>8, <3>2, WalkedOther, SamePublished
    <3>4. QED
      BY <1>2, <1>8, <2>2, <2>3, <3>1, <3>3, TurnStep
  <2>6. QED
    BY <2>4, <2>5
<1>11. QED
  BY <1>9, <1>10

\* Bitswap's thread gives up a session that is not there.
LEMMA TidyStep ==
  ASSUME IInv, History, NEW n \in Nodes, NEW p \in Nodes, n # p, Tidy(n, p)
  PROVE  IInv'
<1>1. Types /\ Tables /\ Streams /\ Orderly
  BY DEF IInv
<1>2. /\ conn' = [conn EXCEPT ![<<n, p>>] = "no"] /\ client' = client
      /\ UNCHANGED <<store, provs, puts, chan, server, calls, faults, faulty, crashed>>
      /\ UNCHANGED <<provided, published>>
  BY DEF Tidy, net, fails
<1>3. Books /\ ConnFades
  BY <1>1, <1>2, SameBooks, PairOf DEF Types, ConnFades
<1>4. TablesGrow /\ \A m \in Nodes : Elements(provs'[m]) \subseteq provided'
  BY <1>1, <1>2, <1>3, SameStores, SameProvs, FadingLinks DEF TablesGrow
<1>5. NetChange(n, n) /\ ClientChange(n, n) /\ Feeds({})
  BY <1>1, <1>2, Stays, SameEffect DEF Types, NetChange
<1>6. Frame(n, n, {})
  BY <1>3, <1>4, <1>5 DEF Frame
<1>7. Streams'
  BY <1>1, <1>2, <1>3, StreamsFrom DEF ConnFades
<1>8. QED
  BY <1>2, <1>4, <1>6, <1>7, StillFrom

\* Something must be late when a read gives up before the answer is there.
LEMMA ReadTimeoutStep ==
  ASSUME IInv, History, NEW n \in Nodes, ReadTimeout(n)
  PROVE  IInv'
<1>1. PICK p, d : p = client[n].who /\ d = [client[n] EXCEPT !.who = p]
  OBVIOUS
<1>2. /\ client[n].step \in {"upgrade", "reply"} /\ chan[<<p, n>>] = <<>> /\ Patience(n, p)
      /\ NotReplied(n, client[n])
      /\ UNCHANGED <<chan, server, calls, crashed, provided, published>>
  BY <1>1 DEF ReadTimeout, net
<1>3. Types /\ p \in Nodes \ {n} /\ At(n, p)
  BY <1>1, <1>2, Waiting, Busy
<1>4. NotReplied(n, d) /\ puts' = puts
  BY <1>1, <1>2, <1>3, SameWho DEF NotReplied
<1>5. Books /\ Feeds({}) /\ (Quiet(n, p)' => ~Coming(n, p))
  BY <1>2, <1>3, <1>4, SameEffect, PatienceBooks
<1>6. ASSUME Quiet(n, p)' PROVE Over(n, p)' /\ client[n].ask # "add_provider"
  <2>1. Quiet(n, p) /\ ~Coming(n, p)
    BY <1>3, <1>5, <1>6, QuietBefore
  <2>2. Stage(n, p) /\ server[<<n, p>>] = "listen" /\ ~Waits(p, n)
    BY <1>1, <1>2, <2>1, QuietStage
  <2>3. (\A r : <<r>> # <<>>) /\ \A r, t : <<r, t>> # <<>>
    OBVIOUS
  <2>4. server[<<p, n>>] = "listen" /\ chan[<<n, p>>] = <<>> /\ client[n].ask # "add_provider"
    BY <1>2, <2>1, <2>2, <2>3 DEF Stage, Coming, Answer
  <2>5. client'[p] = client[p]
    BY <1>3, <1>2 DEF NotReplied, Set, Types
  <2>6. QED
    BY <1>2, <2>2, <2>4, <2>5 DEF Over, Waits
<1>7. QED
  BY <1>1, <1>2, <1>3, <1>4, <1>5, <1>6, NotRepliedStep

-----------------------------------------------------------------------------
(* A request goes on.                                                       *)

LEMMA RequestMessage ==
  ASSUME IInv, NEW n \in Nodes, client[n].step \in {"upgrade", "reply"}
  PROVE  /\ Request(n) \in Bodies /\ Honest(Request(n))
         /\ Request(n).t = client[n].ask /\ Request(n).key = client[n].key
         /\ Request(n).rec \subseteq {client[n].key}
         /\ client[n].ask = "add_provider" => Request(n).provs = {[id |-> n, connected |-> TRUE]}
<1>1. client[n].ask \in Asked /\ client[n].op \in AllOps /\ Placed(n, client[n])
  BY Busy
<1>2. client[n].key \in Keys \cup Nodes
  BY <1>1 DEF Placed
<1>3. PICK m : m = Message(client[n].ask, client[n].key)
  OBVIOUS
<1>4. m \in Bodies /\ m.t = client[n].ask /\ m.key = client[n].key /\ m.rec = {} /\ m.provs = {}
  BY <1>1, <1>2, <1>3 DEF Message, Bodies
<1>5. CASE client[n].ask = "add_provider"
  <2>1. PICK e : e = [id |-> n, connected |-> TRUE]
    OBVIOUS
  <2>2. e \in Peers /\ e.id = n
    BY <2>1 DEF Peers
  <2>3. PICK S \in SUBSET Peers : S = {e}
    BY <2>2
  <2>4. PICK d : d = [m EXCEPT !.provs = S]
    OBVIOUS
  <2>5. d \in Bodies /\ d.t = client[n].ask /\ d.key = client[n].key /\ d.rec = {} /\ d.provs = S
    BY <1>4, <2>4 DEF Bodies
  <2>6. Request(n) = d
    BY <1>3, <1>5, <2>1, <2>3, <2>4 DEF Request
  <2>7. client[n].op = "provide"
    BY <1>1, <1>5 DEF Placed, RequestOf, AllOps
  <2>8. [key |-> client[n].key, id |-> n] \in provided
    BY <1>1, <2>7 DEF Placed
  <2>9. Honest(d)
    BY <1>5, <2>2, <2>3, <2>5, <2>8 DEF Honest
  <2>10. QED
    BY <2>1, <2>3, <2>5, <2>6, <2>9
<1>6. CASE client[n].ask = "put_value"
  <2>1. client[n].op = "name"
    BY <1>1, <1>6 DEF Placed, RequestOf, AllOps
  <2>2. client[n].key \in Names /\ client[n].key \in Keys
    BY <1>1, <2>1 DEF Placed
  <2>3. PICK e : e = [id |-> n, connected |-> FALSE]
    OBVIOUS
  <2>4. e \in Peers
    BY <2>3 DEF Peers
  <2>5. PICK S \in SUBSET Peers : S = {e}
    BY <2>4
  <2>6. PICK R \in SUBSET Keys : R = {client[n].key}
    BY <2>2
  <2>7. PICK d : d = [m EXCEPT !.provs = S, !.rec = R]
    OBVIOUS
  <2>8. d \in Bodies /\ d.t = client[n].ask /\ d.key = client[n].key /\ d.rec = R
    BY <1>4, <2>7 DEF Bodies
  <2>9. Request(n) = d
    BY <1>3, <1>6, <2>3, <2>5, <2>6, <2>7 DEF Request
  <2>10. Honest(d)
    BY <1>6, <2>2, <2>6, <2>8 DEF Honest
  <2>11. QED
    BY <1>6, <2>6, <2>8, <2>9, <2>10
<1>7. CASE client[n].ask \notin {"add_provider", "put_value"}
  <2>1. Honest(m)
    BY <1>4, <1>7 DEF Honest
  <2>2. Request(n) = m
    BY <1>3, <1>7 DEF Request
  <2>3. QED
    BY <1>4, <1>7, <2>1, <2>2
<1>8. QED
  BY <1>5, <1>6, <1>7

\* The protocol id has come back, and the request follows.
LEMMA RequestStep ==
  ASSUME IInv, History, NEW n \in Nodes, client[n].step = "upgrade", NEW p, p = client[n].who,
         chan[<<p, n>>] # <<>>, Exchange(<<p, n>>, <<n, p>>, Request(n)),
         Set(n, IF client[n].ask = "put_value" THEN NextPeer(client[n])
                                               ELSE [client[n] EXCEPT !.step = "reply"]),
         UNCHANGED <<store, conn, provs, puts, server, calls, faults, faulty, crashed, provided, published>>
  PROVE  IInv'
<1>1. /\ Types /\ Tables /\ Streams /\ Answers /\ Walked(n) /\ Placed(n, client[n])
      /\ client[n] \in CallRecords /\ client[n].at \in Nat /\ p \in Nodes /\ n # p
      /\ At(n, p) /\ client[n].op \in AllOps
  BY Waiting, Busy
<1>2. /\ <<n, p>> \in Pairs /\ <<p, n>> \in Pairs /\ <<n, p>> # <<p, n>>
  BY <1>1, PairOf
<1>3. PICK m : m = Request(n)
  OBVIOUS
<1>4. m \in Messages /\ Honest(m) /\ m \in Bodies /\ m.t = client[n].ask
  BY <1>3, RequestMessage, BodyIsMessage
<1>5. Books /\ TablesGrow /\ ConnFades
  BY <1>1, SameBooks, SameTables
<1>6. \A b \in Nodes : Elements(provs'[b]) \subseteq provided'
  BY <1>1, <1>5, SameTables
<1>7. Streams'
  BY <1>1, <1>5, StreamsFrom DEF ConnFades
<1>8. PICK c : c = IF client[n].ask = "put_value" THEN NextPeer(client[n])
                                                  ELSE [client[n] EXCEPT !.step = "reply"]
  OBVIOUS
<1>9. /\ c \in CallRecords
      /\ c.op = client[n].op /\ c.key = client[n].key
      /\ c.ask = client[n].ask /\ c.found = client[n].found /\ c.got = client[n].got
      /\ IF client[n].ask = "put_value" THEN c.step = "walk" /\ c.at = client[n].at + 1
         ELSE c.step = "reply" /\ c.who = p /\ c.at = client[n].at
  <2>1. CASE client[n].ask = "put_value"
    BY <1>1, <1>8, <2>1, NextPeerRecord
  <2>2. CASE client[n].ask # "put_value"
    <3>1. c = [client[n] EXCEPT !.step = "reply"]
      BY <1>8, <2>2
    <3>2. QED
      BY <1>1, <2>2, <3>1 DEF CallRecords
  <2>3. QED
    BY <2>1, <2>2
<1>10. ClientChange(n, p) /\ client'[n] = c
  <2>1. \A x \in Nodes \ {p} : ~Waits(n, x)
    BY DEF Waits
  <2>2. Set(n, c)
    BY <1>8
  <2>3. QED
    BY <1>1, <1>9, <2>1, <2>2, Moves
<1>11. /\ Feeds({m}) /\ chan'[<<p, n>>] = Tail(chan[<<p, n>>])
       /\ chan'[<<n, p>>] = Append(chan[<<n, p>>], m)
       /\ \A q \in Pairs \ {<<p, n>>, <<n, p>>} : chan'[q] = chan[q]
  BY <1>1, <1>2, <1>3, <1>4, ExchangeEffect
<1>12. NetChange(n, p)
  BY <1>1, <1>11 DEF NetChange, Types
<1>13. Frame(n, p, {m}) /\ PublishStep(n)
  BY <1>1, <1>4, <1>5, <1>10, <1>11, <1>12, SamePublished DEF Frame
<1>14. SameCall(n)
  BY <1>9, <1>10 DEF SameCall
<1>15. Placed(n, client[n])'
  <2>1. client[n].ask = "put_value" => client[n].op = "name" /\ client[n].at + 1 >= 1
    BY <1>1 DEF Placed, RequestOf, AllOps
  <2>2. QED
    BY <1>1, <1>5, <1>9, <1>10, <2>1 DEF Placed, Books
<1>16. Walked(n)'
  <2>1. CASE client[n].op # "provide"
    BY <1>9, <1>10, <2>1, WalkedOther
  <2>2. CASE client[n].op = "provide"
    <3>1. client[n].ask # "put_value"
      BY <1>1, <2>2 DEF Placed, RequestOf
    <3>2. client[n].at <= Len(store[n]) /\ client[n].who = store[n][client[n].at]
      BY <1>1, <2>2 DEF Walked
    <3>3. QED
      BY <1>1, <1>5, <1>9, <1>10, <1>14, <3>1, <3>2, WalkedSame
  <2>3. QED
    BY <2>1, <2>2
<1>17. Right(client[n])' \/ Disturbed(n)'
  BY <1>1, <1>5, <1>14, StillRight
<1>18. ASSUME Quiet(n, p)' PROVE Calm(n, p)'
  <2>1. Quiet(n, p)
    BY <1>1, <1>5, <1>18, QuietBefore
  <2>2. Stage(n, p) /\ server[<<n, p>>] = "listen" /\ ~Waits(p, n)
    BY <2>1, QuietStage
  <2>3. server[<<p, n>>] = "msg" /\ chan[<<n, p>>] = <<>> /\ chan[<<p, n>>] = <<Header>>
    BY <2>2 DEF Stage
  <2>4. chan'[<<p, n>>] = <<>> /\ chan'[<<n, p>>] = <<m>>
    BY <1>11, <2>3
  <2>5. Request(n)' = m
    BY <1>3, <1>9, <1>10 DEF Request
  <2>6. ~Waits(p, n)'
    BY <1>1, <1>10, <2>2 DEF Waits, ClientChange
  <2>7. CASE client[n].ask = "put_value"
    <3>1. ~Waits(n, p)' /\ m \in Records
      BY <1>4, <1>9, <1>10, <2>7 DEF Waits, Records
    <3>2. QED
      BY <2>2, <2>3, <2>4, <2>6, <3>1 DEF Calm, Putting
  <2>8. CASE client[n].ask # "put_value"
    <3>1. Waits(n, p)'
      BY <1>9, <1>10, <2>8 DEF Waits
    <3>2. Stage(n, p)'
      BY <1>9, <1>10, <2>3, <2>4, <2>5, <2>8 DEF Stage
    <3>3. QED
      BY <2>2, <2>6, <3>1, <3>2 DEF Calm, Asking
  <2>9. QED
    BY <2>7, <2>8
<1>19. QED
  BY <1>1, <1>6, <1>7, <1>13, <1>15, <1>16, <1>17, <1>18, StepFrom

LEMMA ReadUpgradeStep ==
  ASSUME IInv, History, NEW n \in Nodes, ReadUpgrade(n)
  PROVE  IInv'
<1>1. PICK p, d : p = client[n].who /\ d = [client[n] EXCEPT !.who = p]
  OBVIOUS
<1>2. /\ client[n].step = "upgrade" /\ chan[<<p, n>>] # <<>>
      /\ UNCHANGED <<server, calls, crashed, provided, published>>
  BY <1>1 DEF ReadUpgrade
<1>3. /\ Types /\ p \in Nodes /\ n # p /\ At(n, p) /\ d = client[n]
  BY <1>1, <1>2, Waiting, Busy, SameWho
<1>4. ASSUME Take(<<p, n>>), Books, NotReplied(n, d), ~Quiet(n, p)'
      PROVE  IInv'
  <2>1. Feeds({}) /\ \A q \in Pairs \ {<<p, n>>} : chan'[q] = chan[q]
    BY <1>2, <1>3, <1>4, PairOf, TakeEffect
  <2>2. QED
    BY <1>1, <1>2, <1>3, <1>4, <2>1, NotRepliedStep
<1>5. CASE /\ Head(chan[<<p, n>>]) = Header /\ Exchange(<<p, n>>, <<n, p>>, Request(n))
           /\ Set(n, IF client[n].ask = "put_value" THEN NextPeer(client[n])
                                                    ELSE [client[n] EXCEPT !.step = "reply"])
           /\ UNCHANGED <<tables, fails>>
  BY <1>1, <1>2, <1>5, RequestStep DEF tables, fails
<1>6. CASE Take(<<p, n>>) /\ Fault(n, p) /\ NotReplied(n, d)
  <2>1. puts' = puts
    BY <1>6 DEF NotReplied
  <2>2. Books /\ ~Quiet(n, p)'
    BY <1>2, <1>3, <1>6, <2>1, FaultBooks
  <2>3. QED
    BY <1>4, <1>6, <2>2
<1>7. CASE /\ Head(chan[<<p, n>>]) # Header
           /\ Take(<<p, n>>) /\ NotReplied(n, d) /\ UNCHANGED fails
  <2>1. puts' = puts
    BY <1>7 DEF NotReplied
  <2>2. Books
    BY <1>2, <1>3, <1>7, <2>1, SameBooks DEF fails
  <2>3. ASSUME Quiet(n, p)' PROVE FALSE
    <3>1. Quiet(n, p)
      BY <1>3, <2>2, <2>3, QuietBefore
    <3>2. Stage(n, p)
      BY <1>1, <1>2, <3>1, QuietStage
    <3>3. chan[<<p, n>>] = <<Header>>
      BY <1>2, <3>2 DEF Stage
    <3>4. QED
      BY <1>7, <3>3
  <2>4. QED
    BY <1>4, <1>7, <2>2, <2>3
<1>8. QED
  BY <1>1, <1>3, <1>5, <1>6, <1>7 DEF ReadUpgrade

-----------------------------------------------------------------------------
(* The answer is taken.                                                     *)

LEMMA DisturbedBy ==
  ASSUME Types, Books, NEW n \in Nodes, NEW p \in Nodes, ~Quiet(n, p)', client'[n].who = p
  PROVE  Disturbed(n)'
<1>1. {n, p} \in faulty' \cup shared'
  BY DEF Quiet
<1>2. QED
  BY <1>1, Zenon DEF Disturbed

\* The call takes the answer, and is over or turns to the provider it found.
LEMMA TakenStep ==
  ASSUME IInv, History, NEW n \in Nodes, client[n].step \in {"upgrade", "reply"},
         NEW p, p = client[n].who, NEW c \in CallRecords, Set(n, c),
         c.op = client[n].op, c.key = client[n].key, c.who = p, c.at = client[n].at,
         \/ c.step = "idle"
         \/ c.step = "value" /\ c.op = "value" /\ c.ask = "get_value" /\ c.found # {} /\ c.got = {},
         StoresGrow, ConnFades, Books, Feeds({}), \A q \in Pairs \ {<<p, n>>} : chan'[q] = chan[q],
         UNCHANGED <<provs, server, published>>,
         Quiet(n, p)' => Over(n, p)' /\ (Right(client[n])' \/ Disturbed(n)')
  PROVE  IInv'
<1>1. Types /\ Placed(n, client[n]) /\ p \in Nodes /\ At(n, p)
  BY Waiting, Busy
<1>2. client'[n] = c
  BY <1>1 DEF Set, Types
<1>3. Placed(n, client[n])'
  BY <1>1, <1>2 DEF Placed, Types, CallRecords
<1>4. Walked(n)'
  BY <1>2, WalkedOther
<1>5. Right(client[n])' \/ Disturbed(n)'
  <2>1. CASE ~Quiet(n, p)'
    BY <1>1, <1>2, <2>1, DisturbedBy
  <2>2. QED
    BY <2>1
<1>6. QED
  BY <1>1, <1>3, <1>4, <1>5, FinishStep

\* The call has a peer to name.
LEMMA FoundStep ==
  ASSUME IInv, History, NEW n \in Nodes, client[n].step \in {"upgrade", "reply"},
         NEW p, p = client[n].who, NEW m \in Bodies, m.provs # {},
         client[n].ask \in {"get_providers", "find_node"},
         Set(n, IF client[n].ask = "find_node" THEN Ended(client[n], Ids(m.provs))
                ELSE Answered(client[n], Ids(m.provs))),
         StoresGrow, ConnFades, Books, Feeds({}), \A q \in Pairs \ {<<p, n>>} : chan'[q] = chan[q],
         UNCHANGED <<provs, server, published>>,
         Quiet(n, p)' => Over(n, p)' /\ Correct(client[n], n, p, m)
  PROVE  IInv'
<1>1. /\ Types /\ Placed(n, client[n]) /\ client[n] \in CallRecords /\ client[n].got = {}
      /\ client[n].op \in AllOps
  BY Busy
<1>2. IF client[n].ask = "find_node" THEN client[n].op = "peer" ELSE client[n].op \in {"find", "value"}
  BY <1>1 DEF Placed, RequestOf, AllOps
<1>3. PICK f : f = Ids(m.provs)
  OBVIOUS
<1>4. f \in SUBSET Nodes /\ f # {} /\ \A x \in f : \E e \in m.provs : x = e.id
  BY <1>3 DEF Ids, Bodies, Peers
<1>5. PICK c : c = IF client[n].op = "value"
                     THEN [client[n] EXCEPT !.step = "value", !.found = f, !.ask = "get_value"]
                     ELSE [client[n] EXCEPT !.step = "idle", !.found = f]
  OBVIOUS
<1>6. Set(n, c)
  BY <1>2, <1>3, <1>4, <1>5 DEF Answered, Ended
<1>7. /\ c \in CallRecords /\ c.op = client[n].op /\ c.key = client[n].key /\ c.who = client[n].who
      /\ c.at = client[n].at /\ c.got = {} /\ c.found = f
      /\ IF client[n].op = "value" THEN c.step = "value" /\ c.ask = "get_value" ELSE c.step = "idle"
  <2>1. CASE client[n].op = "value"
    <3>1. c = [client[n] EXCEPT !.step = "value", !.found = f, !.ask = "get_value"]
      BY <1>5, <2>1
    <3>2. QED
      BY <1>1, <1>4, <2>1, <3>1 DEF CallRecords, Asked
  <2>2. CASE client[n].op # "value"
    <3>1. c = [client[n] EXCEPT !.step = "idle", !.found = f]
      BY <1>5, <2>2
    <3>2. QED
      BY <1>1, <1>4, <2>2, <3>1 DEF CallRecords
  <2>3. QED
    BY <2>1, <2>2
<1>8. client'[n] = c
  BY <1>1, <1>6, <1>7 DEF Set, Types
<1>9. ASSUME Correct(client[n], n, p, m) PROVE Right(client[n])'
  <2>1. CASE client[n].ask = "find_node"
    BY <1>2, <1>4, <1>7, <1>8, <1>9, <2>1 DEF Correct, Right
  <2>2. CASE client[n].ask = "get_providers"
    <3>1. ASSUME NEW x \in f
          PROVE  Has(x, c.key)' \/ [key |-> c.key, id |-> x] \in provided'
      <4>1. PICK e \in m.provs : x = e.id
        BY <1>4
      <4>2. Has(x, c.key) \/ [key |-> c.key, id |-> x] \in provided
        BY <1>7, <1>9, <2>2, <4>1 DEF Correct
      <4>3. QED
        BY <1>4, <4>2, HasStays DEF Books
    <3>2. QED
      BY <1>2, <1>7, <1>8, <2>2, <3>1 DEF Right
  <2>3. QED
    BY <2>1, <2>2
<1>10. QED
  BY <1>4, <1>6, <1>7, <1>9, TakenStep

\* The call has its value, or the peer is alive.
LEMMA GotStep ==
  ASSUME IInv, History, NEW n \in Nodes, client[n].step \in {"upgrade", "reply"},
         NEW p, p = client[n].who, NEW m \in Bodies, client[n].ask \in {"ping", "get_value"},
         Set(n, [client[n] EXCEPT !.step = "idle", !.got = m.rec]),
         StoresGrow, ConnFades, Books, Feeds({}), \A q \in Pairs \ {<<p, n>>} : chan'[q] = chan[q],
         UNCHANGED <<provs, server, published>>,
         Quiet(n, p)' => Over(n, p)' /\ Correct(client[n], n, p, m)
  PROVE  IInv'
<1>1. /\ Types /\ Answers /\ Placed(n, client[n]) /\ client[n] \in CallRecords /\ client[n].op \in AllOps
  BY Busy
<1>2. client[n].op \in {"ping", "value"}
  BY <1>1 DEF Placed, RequestOf, AllOps
<1>3. PICK c : c = [client[n] EXCEPT !.step = "idle", !.got = m.rec]
  OBVIOUS
<1>4. /\ c \in CallRecords /\ c.op = client[n].op /\ c.key = client[n].key /\ c.who = client[n].who
      /\ c.at = client[n].at /\ c.got = m.rec /\ c.found = client[n].found /\ c.step = "idle"
  BY <1>1, <1>3 DEF CallRecords, Bodies
<1>5. client'[n] = c
  BY <1>1, <1>3, <1>4 DEF Set, Types
<1>6. ASSUME Correct(client[n], n, p, m) PROVE Right(client[n])' \/ Disturbed(n)'
  <2>1. CASE client[n].op = "ping"
    BY <1>4, <1>5, <2>1 DEF Right
  <2>2. CASE client[n].op = "value" /\ Right(client[n])
    BY <1>1, <1>4, <1>5, <1>6, <2>2, RightSame DEF Correct
  <2>3. CASE client[n].op = "value" /\ Disturbed(n)
    BY <1>1, <1>4, <1>5, <2>3, ValueDisturbed
  <2>4. QED
    BY <1>1, <1>2, <2>1, <2>2, <2>3 DEF Answers
<1>7. QED
  BY <1>3, <1>4, <1>6, TakenStep

LEMMA RepliedStep ==
  ASSUME IInv, History, NEW n \in Nodes, client[n].step = "reply",
         NEW p, p = client[n].who, NEW m \in Bodies, Replied(n, m),
         Books, Feeds({}), \A q \in Pairs \ {<<p, n>>} : chan'[q] = chan[q],
         UNCHANGED <<server, published>>,
         Quiet(n, p)' => Over(n, p)' /\ Correct(client[n], n, p, m)
  PROVE  IInv'
<1>1. /\ Types /\ Tables /\ client[n] \in CallRecords /\ client[n].ask \in Asked
      /\ client[n].ask # "put_value" /\ At(n, p)
  BY Waiting, Busy DEF Placed
<1>2. ASSUME UNCHANGED tables PROVE StoresGrow /\ ConnFades /\ provs' = provs
  BY <1>1, <1>2, SameTables DEF TablesGrow, tables
<1>3. CASE \/ client[n].ask = "add_provider"
           \/ client[n].ask \in {"get_providers", "find_node"} /\ m.provs = {}
  <2>1. PICK c : c = NextPeer(client[n])
    OBVIOUS
  <2>2. Set(n, c) /\ UNCHANGED tables
    BY <1>3, <2>1 DEF Replied, Learn
  <2>3. Unanswered(c, n)
    BY <1>1, <1>3, <2>1, NextPeerRecord DEF Unanswered
  <2>4. PICK k : k = client[n].key
    OBVIOUS
  <2>5. client[n].ask = "add_provider" => Reached(n, p, k)'
    BY <1>2, <2>2, <2>4 DEF Reached, Correct
  <2>6. QED
    BY <1>1, <1>2, <2>2, <2>3, <2>4, <2>5, UnansweredStep
<1>4. CASE client[n].ask = "get_providers" /\ m.provs # {}
  <2>1. /\ AddPeer(n, CHOOSE e \in m.provs : TRUE) /\ provs' = provs
        /\ Set(n, Answered(client[n], Ids(m.provs)))
    BY <1>4 DEF Replied, Learn
  <2>2. (CHOOSE e \in m.provs : TRUE) \in Peers
    BY <1>4 DEF Bodies
  <2>3. StoresGrow /\ ConnFades
    BY <1>1, <2>1, <2>2, AddPeerEffect
  <2>4. QED
    BY <1>4, <2>1, <2>3, FoundStep
<1>5. CASE client[n].ask = "find_node" /\ m.provs # {}
  <2>1. UNCHANGED tables /\ Set(n, Ended(client[n], Ids(m.provs)))
    BY <1>5 DEF Replied
  <2>2. QED
    BY <1>2, <1>5, <2>1, FoundStep
<1>6. CASE client[n].ask \in {"ping", "get_value"}
  <2>1. UNCHANGED tables /\ Set(n, [client[n] EXCEPT !.step = "idle", !.got = m.rec])
    BY <1>6 DEF Replied
  <2>2. QED
    BY <1>2, <1>6, <2>1, GotStep
<1>7. QED
  BY <1>1, <1>3, <1>4, <1>5, <1>6 DEF Asked

LEMMA ReadReplyStep ==
  ASSUME IInv, History, NEW n \in Nodes, ReadReply(n)
  PROVE  IInv'
<1>1. PICK p, m, d : p = client[n].who /\ m = Head(chan[<<p, n>>]) /\ d = [client[n] EXCEPT !.who = p]
  OBVIOUS
<1>2. /\ client[n].step = "reply" /\ chan[<<p, n>>] # <<>> /\ Take(<<p, n>>)
      /\ IF Decodes(m) THEN Replied(n, m) ELSE NotReplied(n, client[n])
      /\ UNCHANGED <<server, calls, faults, faulty, crashed, provided, published>>
  BY <1>1 DEF ReadReply, fails
<1>3. /\ Types /\ p \in Nodes /\ n # p /\ client[n].ask \in Asked /\ d = client[n] /\ At(n, p)
  BY <1>1, <1>2, Waiting, Busy, SameWho
<1>4. <<p, n>> \in Pairs /\ chan[<<p, n>>] \in Seq(Messages)
  BY <1>3, PairOf DEF Types
<1>5. m \in Messages
  BY <1>1, <1>2, <1>4, TailOf
<1>6. Books
  <2>1. puts' = puts
    BY <1>2, Zenon DEF Replied, NotReplied, Learn, tables
  <2>2. QED
    BY <1>2, <1>3, <2>1, SameBooks
<1>7. /\ Feeds({}) /\ chan'[<<p, n>>] = Tail(chan[<<p, n>>])
      /\ \A q \in Pairs \ {<<p, n>>} : chan'[q] = chan[q]
  BY <1>2, <1>3, <1>4, TakeEffect
<1>8. client'[p] = client[p]
  <2>1. \E c : Set(n, c)
    BY <1>2, Zenon DEF Replied, NotReplied
  <2>2. QED
    BY <1>3, <2>1 DEF Set, Types
<1>9. ASSUME Quiet(n, p)' PROVE Over(n, p)' /\ Correct(client[n], n, p, m)
  <2>1. Quiet(n, p)
    BY <1>3, <1>6, <1>9, QuietBefore
  <2>2. Stage(n, p) /\ server[<<n, p>>] = "listen" /\ ~Waits(p, n)
    BY <1>1, <1>2, <2>1, QuietStage
  <2>3. server[<<p, n>>] = "listen" /\ chan[<<n, p>>] = <<>> /\ Answer(n, p)
    BY <1>2, <2>2 DEF Stage
  <2>4. PICK r : chan[<<p, n>>] = <<r>> /\ Correct(client[n], n, p, r)
    BY <1>2, <2>3 DEF Answer
  <2>5. r = m /\ Tail(chan[<<p, n>>]) = <<>>
    BY <1>1, <2>4
  <2>6. chan'[<<n, p>>] = <<>> /\ chan'[<<p, n>>] = <<>>
    BY <1>3, <1>7, <2>3, <2>5, PairOf
  <2>7. ~Waits(p, n)'
    BY <1>8, <2>2 DEF Waits
  <2>8. QED
    BY <1>2, <2>2, <2>3, <2>4, <2>5, <2>6, <2>7 DEF Over
<1>10. CASE Decodes(m)
  <2>1. m \in Bodies
    BY <1>5, <1>10, MessageKinds
  <2>2. QED
    BY <1>1, <1>2, <1>6, <1>7, <1>9, <1>10, <2>1, RepliedStep
<1>11. CASE ~Decodes(m)
  <2>1. m.t \in {"header", "na"}
    BY <1>11 DEF Decodes
  <2>2. ~Quiet(n, p)'
    BY <1>3, <1>9, <2>1 DEF Correct, Asked
  <2>3. QED
    BY <1>1, <1>2, <1>3, <1>6, <1>7, <1>11, <2>2, NotRepliedStep
<1>12. QED
  BY <1>10, <1>11

-----------------------------------------------------------------------------
(* A node serves.                                                           *)

\* What the thread of n that listens to p does to the invariant.
LEMMA ServeStep ==
  ASSUME IInv, History, NEW n \in Nodes, NEW p \in Nodes, n # p, NEW M, Feeds(M),
         \A m \in M : Honest(m), \A q \in Pairs \ {<<n, p>>, <<p, n>>} : chan'[q] = chan[q],
         StoresGrow, ProvsGrow, ConnFades, Books,
         \A m \in Nodes : Elements(provs'[m]) \subseteq provided',
         client' = client, published' = published,
         NEW s \in {"listen", "msg", "ended"}, Serve(n, p, s), server[<<n, p>>] \in {"listen", "msg"},
         Quiet(n, p)' => Calm(n, p)'
  PROVE  IInv'
<1>1. Types /\ Tables /\ Streams
  BY DEF IInv
<1>2. <<n, p>> \in Pairs /\ <<p, n>> \in Pairs
  BY PairOf
<1>3. /\ server' \in [Pairs -> {"none", "listen", "msg", "ended"}] /\ server'[<<n, p>>] = s
      /\ \A q \in Pairs \ {<<n, p>>} : server'[q] = server[q]
  BY <1>1, <1>2 DEF Types, Serve
<1>4. NetChange(n, p) /\ ClientChange(n, p)
  BY <1>1, <1>3, Stays DEF NetChange
<1>5. Frame(n, p, M)
  BY <1>4, FadingLinks DEF Frame, TablesGrow
<1>6. Streams'
  BY <1>1, <1>3, StreamsFrom DEF ConnFades
<1>7. QED
  BY <1>5, <1>6, StillFrom

\* Who is served on a quiet stream is at one of the stages of asking, or has sent a
\* record.
LEMMA QuietServed ==
  ASSUME IInv, NEW n \in Nodes, NEW p \in Nodes, n # p, Quiet(n, p),
         server[<<n, p>>] = "msg" \/ (~Waits(n, p) /\ chan[<<p, n>>] # <<>>)
  PROVE  /\ ~Waits(n, p) /\ server[<<p, n>>] = "listen"
         /\ \/ Putting(p, n)
            \/ /\ Waits(p, n) /\ Stage(p, n)
               /\ client[p].who = n /\ client[p].step \in {"upgrade", "reply"}
<1>1. <<n, p>> \in Pairs /\ <<n, p>>[1] = n /\ <<n, p>>[2] = p
  BY PairOf
<1>2. Calm(n, p)
  BY <1>1 DEF IInv, Orderly
<1>3. Asking(p, n) \/ Putting(p, n)
  BY <1>2 DEF Calm, Rest, Asking, Putting
<1>4. QED
  BY <1>3 DEF Asking, Putting, Waits

LEMMA ServeHeaderStep ==
  ASSUME IInv, History, NEW n \in Nodes, NEW p \in Nodes, n # p, ServeHeader(n, p)
  PROVE  IInv'
<1>1. Types /\ Tables
  BY DEF IInv
<1>2. /\ <<n, p>> \in Pairs /\ <<p, n>> \in Pairs /\ <<n, p>> # <<p, n>>
  BY PairOf
<1>3. PICK m : m = Head(chan[<<p, n>>])
  OBVIOUS
<1>4. /\ server[<<n, p>>] = "listen" /\ chan[<<p, n>>] # <<>>
      /\ UNCHANGED <<store, conn, provs, puts, client, calls, crashed, provided, published>>
  BY DEF ServeHeader, Serving, tables
<1>5. PICK out \in {Header, Na}, s \in {"msg", "ended"} :
        /\ Exchange(<<p, n>>, <<n, p>>, out) \/ Take(<<p, n>>)
        /\ Serve(n, p, s)
        /\ Fault(n, p) \/ UNCHANGED fails
        /\ Fault(n, p) \/ (m = Header => Exchange(<<p, n>>, <<n, p>>, Header) /\ s = "msg")
  <2>1. \/ m = Header /\ Exchange(<<p, n>>, <<n, p>>, Header) /\ Serve(n, p, "msg") /\ UNCHANGED fails
        \/ m # Header /\ Exchange(<<p, n>>, <<n, p>>, Na) /\ Serve(n, p, "ended") /\ UNCHANGED fails
        \/ m # Header /\ Take(<<p, n>>) /\ Serve(n, p, "ended") /\ UNCHANGED fails
        \/ Fault(n, p) /\ Take(<<p, n>>) /\ Serve(n, p, "ended")
    BY <1>3, Greeting DEF ServeHeader
  <2>2. QED
    BY <2>1
<1>6. Books /\ StoresGrow /\ ProvsGrow /\ ConnFades /\ \A b \in Nodes : Elements(provs'[b]) \subseteq provided'
  <2>1. Books
    BY <1>1, <1>4, <1>5, SameBooks, FaultBooks DEF fails
  <2>2. QED
    BY <1>1, <1>4, <2>1, SameTables DEF TablesGrow
<1>7. /\ Feeds({out}) \/ Feeds({})
      /\ \A q \in Pairs \ {<<n, p>>, <<p, n>>} : chan'[q] = chan[q]
  <2>1. out \in Messages
    BY Greeting
  <2>2. CASE Exchange(<<p, n>>, <<n, p>>, out)
    <3>1. /\ Feeds({out})
          /\ \A q \in Pairs \ {<<p, n>>, <<n, p>>} : chan'[q] = chan[q]
      BY <1>1, <1>2, <1>4, <2>1, <2>2, ExchangeEffect
    <3>2. QED
      BY <3>1
  <2>3. CASE Take(<<p, n>>)
    BY <1>1, <1>2, <1>4, <2>3, TakeEffect
  <2>4. QED
    BY <1>5, <2>2, <2>3
<1>8. Feeds({out})
  BY <1>7 DEF Feeds
<1>9. \A b \in {out} : Honest(b)
  BY Greeting DEF Honest
<1>10. ASSUME Quiet(n, p)' PROVE Calm(n, p)'
  <2>1. server'[<<n, p>>] = s /\ server'[<<p, n>>] = server[<<p, n>>]
    BY <1>1, <1>2, <1>5 DEF Types, Serve
  <2>2. ~Waits(n, p)
    <3>1. ~Waits(n, p)'
      BY <1>10, <2>1, NoClash
    <3>2. QED
      BY <1>4, <3>1 DEF Waits
  <2>3. Quiet(n, p) /\ ~Fault(n, p)
    BY <1>1, <1>4, <1>6, <1>10, QuietBefore, FaultBooks
  <2>4. Waits(p, n) /\ server[<<p, n>>] = "listen" /\ Stage(p, n)
    BY <1>4, <2>2, <2>3, QuietServed DEF Putting
  <2>5. client[p].step = "upgrade" /\ chan[<<p, n>>] = <<Header>> /\ chan[<<n, p>>] = <<>>
    BY <1>4, <2>4 DEF Stage
  <2>6. m = Header
    BY <1>3, <2>5
  <2>7. chan'[<<p, n>>] = <<>> /\ chan'[<<n, p>>] = <<Header>>
    <3>1. chan'[<<p, n>>] = Tail(chan[<<p, n>>]) /\ chan'[<<n, p>>] = Append(chan[<<n, p>>], Header)
      BY <1>1, <1>2, <1>4, <1>5, <2>3, <2>6, Greeting, ExchangeEffect
    <3>2. QED
      BY <2>5, <3>1
  <2>8. Stage(p, n)'
    BY <1>4, <1>5, <2>1, <2>3, <2>5, <2>6, <2>7 DEF Stage
  <2>9. QED
    BY <1>4, <2>1, <2>2, <2>4, <2>8 DEF Calm, Asking, Waits
<1>11. QED
  BY <1>4, <1>5, <1>6, <1>7, <1>8, <1>9, <1>10, ServeStep

\* The thread gives up a request that is not there in time.
LEMMA ServeTimeoutStep ==
  ASSUME IInv, History, NEW n \in Nodes, NEW p \in Nodes, n # p, ServeTimeout(n, p)
  PROVE  IInv'
<1>1. Types /\ Tables
  BY DEF IInv
<1>2. /\ server[<<n, p>>] = "msg" /\ chan[<<p, n>>] = <<>> /\ Patience(n, p) /\ Serve(n, p, "ended")
      /\ UNCHANGED <<tables, chan, client, calls, crashed, provided, published>>
  BY DEF ServeTimeout
<1>3. UNCHANGED <<store, conn, provs, puts>>
  BY <1>2 DEF tables
<1>4. Books /\ (Quiet(n, p)' => ~Coming(n, p))
  BY <1>1, <1>2, <1>3, PatienceBooks
<1>5. StoresGrow /\ ProvsGrow /\ ConnFades /\ \A b \in Nodes : Elements(provs'[b]) \subseteq provided'
  BY <1>1, <1>3, <1>4, SameTables DEF TablesGrow
<1>6. ASSUME Quiet(n, p)' PROVE FALSE
  <2>1. Quiet(n, p)
    BY <1>1, <1>4, <1>6, QuietBefore
  <2>3. (\A r : <<r>> # <<>>) /\ \A r, t : <<r, t>> # <<>>
    OBVIOUS
  <2>2. server[<<p, n>>] = "listen" /\ Stage(p, n)
    <3>1. ~Putting(p, n)
      BY <1>2, <2>3 DEF Putting
    <3>2. QED
      BY <1>2, <2>1, <3>1, QuietServed
  <2>4. chan[<<n, p>>] = <<Header>>
    BY <1>2, <2>2, <2>3 DEF Stage
  <2>5. Coming(n, p)
    BY <2>2, <2>3, <2>4 DEF Coming
  <2>6. QED
    BY <1>4, <1>6, <2>5
<1>7. Feeds({})
  BY <1>1, <1>2, SameEffect
<1>8. QED
  BY <1>2, <1>4, <1>5, <1>6, <1>7, ServeStep

\* What a handler answers.
LEMMA ReplyMessage ==
  ASSUME Types, Tables, NEW n \in Nodes, NEW m \in Bodies, Honest(m), NEW r \in Reply(n, m)
  PROVE  /\ r \in Bodies /\ r.t = m.t /\ Honest(r)
         /\ m.t \in {"get_providers", "find_node"} => r.rec = m.rec
         /\ m.t = "get_providers" => \A e \in r.provs : Provides(e.id, m.key)
         /\ m.t = "find_node" => \A e \in r.provs : e.id = m.key
         /\ m.t = "get_value" => r.rec = {m.key}
         /\ m.t \in {"add_provider", "ping"} => r = m
         /\ m.t # "put_value"
<1>1. m.t \in Asked /\ m.key \in Keys \cup Nodes /\ m.provs \in SUBSET Peers /\ m.rec \in SUBSET Keys
  BY DEF Bodies
<1>2. ASSUME NEW x \in Nodes PROVE Encoded(n, x) \in Peers /\ Encoded(n, x).id = x
  BY DEF Encoded, Peers
<1>3. CASE m.t = "get_providers"
  <2>1. PICK x : x \in ProviderOf(n, m.key) /\ r = [m EXCEPT !.provs = {Encoded(n, x)}]
    BY <1>3 DEF Reply, ProvidersReply
  <2>2. Provides(x, m.key) /\ x \in Nodes
    BY <2>1, ProviderTrue DEF Provides
  <2>3. PICK e : e = Encoded(n, x)
    OBVIOUS
  <2>4. PICK S : S = {e}
    OBVIOUS
  <2>5. e \in Peers /\ e.id = x /\ S \in SUBSET Peers
    BY <1>2, <2>2, <2>3, <2>4
  <2>6. r = [m EXCEPT !.provs = S]
    BY <2>1, <2>3, <2>4
  <2>7. r \in Bodies /\ r.t = m.t /\ r.rec = m.rec /\ r.provs = S
    BY <1>1, <2>5, <2>6 DEF Bodies
  <2>8. QED
    BY <1>3, <2>2, <2>4, <2>5, <2>7 DEF Honest
<1>4. CASE m.t = "find_node"
  <2>1. Knows(n, m.key) /\ r = [m EXCEPT !.provs = {Encoded(n, m.key)}]
    BY <1>4 DEF Reply, NodeReply
  <2>2. m.key \in Nodes
    <3>1. \A i \in 1 .. Len(store[n]) : store[n][i] \in Nodes
      BY DEF Types
    <3>2. QED
      BY <2>1, <3>1 DEF Knows, Elements
  <2>3. PICK e : e = Encoded(n, m.key)
    OBVIOUS
  <2>4. PICK S : S = {e}
    OBVIOUS
  <2>5. e \in Peers /\ e.id = m.key /\ S \in SUBSET Peers
    BY <1>2, <2>2, <2>3, <2>4
  <2>6. r = [m EXCEPT !.provs = S]
    BY <2>1, <2>3, <2>4
  <2>7. r \in Bodies /\ r.t = m.t /\ r.rec = m.rec /\ r.provs = S
    BY <1>1, <2>5, <2>6 DEF Bodies
  <2>8. QED
    BY <1>4, <2>4, <2>5, <2>7 DEF Honest
<1>5. CASE m.t = "get_value"
  <2>1. m.key \in Data[n] /\ r = [m EXCEPT !.rec = {m.key}]
    BY <1>5 DEF Reply, ValueReply
  <2>2. m.key \in Keys
    BY <2>1, RoutingAssumption
  <2>3. PICK S \in SUBSET Keys : S = {m.key}
    BY <2>2
  <2>4. r = [m EXCEPT !.rec = S]
    BY <2>1, <2>3
  <2>5. r \in Bodies /\ r.t = m.t /\ r.rec = S
    BY <1>1, <2>4 DEF Bodies
  <2>6. QED
    BY <1>5, <2>3, <2>5 DEF Honest
<1>6. CASE m.t \in {"add_provider", "ping"}
  <2>1. r = m
    BY <1>6 DEF Reply
  <2>2. QED
    BY <1>6, <2>1
<1>7. m.t # "put_value"
  BY DEF Reply
<1>8. QED
  BY <1>1, <1>3, <1>4, <1>5, <1>6, <1>7 DEF Asked

\* An announcement reaches the providerstore.
LEMMA HandleEffect ==
  ASSUME Types, Tables, NEW n \in Nodes, NEW m \in Bodies, m.t = "add_provider", Honest(m),
         HandleAddProvider(n, m)
  PROVE  /\ puts' = puts /\ StoresGrow /\ ProvsGrow /\ ConnFades
         /\ \A b \in Nodes : Elements(provs'[b]) \subseteq provided
         /\ m.provs # {} => \E e \in m.provs : [key |-> m.key, id |-> e.id] \in Elements(provs'[n])
<1>1. CASE m.provs = {}
  BY <1>1, SameTables DEF HandleAddProvider, TablesGrow, tables, Tables
<1>2. CASE m.provs # {}
  <2>1. PICK e : e = CHOOSE x \in m.provs : TRUE
    OBVIOUS
  <2>2. e \in m.provs /\ e \in Peers
    BY <1>2, <2>1 DEF Bodies
  <2>3. PICK d : d = [key |-> m.key, id |-> e.id]
    OBVIOUS
  <2>4. d \in provided /\ d \in Entries
    BY <2>2, <2>3 DEF Honest, Types
  <2>5. AddPeer(n, e) /\ puts' = puts /\ provs' = [provs EXCEPT ![n] = AddProvider(provs[n], d)]
    BY <1>2, <2>1, <2>3 DEF HandleAddProvider
  <2>6. StoresGrow /\ ConnFades
    BY <2>2, <2>5, AddPeerEffect
  <2>7. PICK s : s = AddProvider(provs[n], d)
    OBVIOUS
  <2>8. provs \in [Nodes -> Seq(Entries)]
    BY DEF Types
  <2>9. s \in Seq(Entries) /\ Elements(s) = Elements(provs[n]) \cup {d}
    BY <2>4, <2>7, <2>8, AddProviderElements
  <2>10. /\ provs' \in [Nodes -> Seq(Entries)] /\ provs'[n] = s
         /\ \A b \in Nodes \ {n} : provs'[b] = provs[b]
    BY <2>5, <2>7, <2>8, <2>9
  <2>11. ProvsGrow
    BY <2>9, <2>10 DEF ProvsGrow
  <2>12. \A b \in Nodes : Elements(provs'[b]) \subseteq provided
    BY <2>4, <2>9, <2>10 DEF Tables
  <2>13. [key |-> m.key, id |-> e.id] \in Elements(provs'[n])
    BY <2>3, <2>9, <2>10
  <2>14. QED
    BY <2>2, <2>5, <2>6, <2>11, <2>12, <2>13
<1>3. QED
  BY <1>1, <1>2

\* A record that PUT_VALUE brings is that of a name.
LEMMA PutBooks ==
  ASSUME Types, NEW n \in Nodes, NEW m \in Bodies, m.t = "put_value", Honest(m), HandlePutValue(n, m),
         \/ UNCHANGED <<faults, faulty>>
         \/ \E p \in Nodes \ {n} : Fault(n, p),
         UNCHANGED <<calls, crashed, provided>>
  PROVE  Books
<1>1. PICK S \in SUBSET Names : S = puts[n] \cup m.rec
  BY DEF Types, Honest
<1>2. puts' = [puts EXCEPT ![n] = S]
  BY <1>1 DEF HandlePutValue
<1>3. puts' \in [Nodes -> SUBSET Names] /\ \A b \in Nodes : puts[b] \subseteq puts'[b]
  BY <1>1, <1>2 DEF Types
<1>4. Fatal'
  BY <1>3 DEF Types, Fatal, Bare
<1>5. faults' \in 0 .. MaxFaults /\ faulty \subseteq faulty' /\ faulty' \subseteq Ends
  <2>1. faults \in Nat /\ faults \in 0 .. MaxFaults /\ faulty \subseteq Ends
    BY RoutingAssumption DEF Types
  <2>2. CASE UNCHANGED <<faults, faulty>>
    BY <2>1, <2>2
  <2>3. CASE \E p \in Nodes \ {n} : Fault(n, p)
    <3>1. PICK p \in Nodes \ {n} : Fault(n, p)
      BY <2>3
    <3>2. {n, p} \in Ends
      BY <3>1, EndsOf
    <3>3. faulty' = faulty \cup {{n, p}} /\ faults' \in 0 .. MaxFaults
      BY <2>1, <3>1, RoutingAssumption DEF Fault
    <3>4. QED
      BY <2>1, <3>2, <3>3
  <2>4. QED
    BY <2>2, <2>3
<1>6. QED
  BY <1>3, <1>4, <1>5 DEF Types, Books

\* The handler of the request that p is waiting for.
LEMMA AnsweredRight ==
  ASSUME IInv, NEW n \in Nodes, NEW p \in Nodes, client[p].step \in {"upgrade", "reply"},
         NEW m, m = Request(p), Honest(m), Books, client' = client,
         m.t = "add_provider" =>
            (m.provs # {} => \E e \in m.provs : [key |-> m.key, id |-> e.id] \in Elements(provs'[n])),
         \/ Reply(n, m) = {} /\ chan'[<<n, p>>] = <<>>
         \/ \E r \in Reply(n, m) : chan'[<<n, p>>] = <<r>>
  PROVE  Answer(p, n)'
<1>1. Types /\ Tables /\ client[p].ask \in Asked
  BY Busy
<1>2. /\ m \in Bodies /\ m.t = client[p].ask /\ m.key = client[p].key /\ m.rec \subseteq {m.key}
      /\ client[p].ask = "add_provider" => m.provs = {[id |-> p, connected |-> TRUE]}
  BY RequestMessage
<1>3. CASE Reply(n, m) = {} /\ chan'[<<n, p>>] = <<>>
  <2>1. client[p].ask # "add_provider"
    BY <1>2, <1>3 DEF Reply
  <2>2. QED
    BY <1>3, <2>1 DEF Answer
<1>4. CASE \E r \in Reply(n, m) : chan'[<<n, p>>] = <<r>>
  <2>1. PICK r \in Reply(n, m) : chan'[<<n, p>>] = <<r>>
    BY <1>4
  <2>2. /\ r \in Bodies /\ r.t = m.t
        /\ m.t \in {"get_providers", "find_node"} => r.rec = m.rec
        /\ m.t = "get_providers" => \A e \in r.provs : Provides(e.id, m.key)
        /\ m.t = "find_node" => \A e \in r.provs : e.id = m.key
        /\ m.t = "get_value" => r.rec = {m.key}
        /\ m.t \in {"add_provider", "ping"} => r = m
    BY <1>1, <1>2, ReplyMessage
  <2>3. r \in Messages
    BY <2>2, BodyIsMessage
  <2>4. r.rec \subseteq {client[p].key}
    <3>1. m.t # "put_value"
      BY DEF Reply
    <3>2. QED
      BY <1>1, <1>2, <2>2, <3>1 DEF Asked
  <2>5. client[p].ask = "get_providers" => \A e \in r.provs :
           Has(e.id, client[p].key)' \/ [key |-> client[p].key, id |-> e.id] \in provided'
    <3>1. ASSUME NEW e \in r.provs, m.t = "get_providers"
          PROVE  Has(e.id, m.key)' \/ [key |-> m.key, id |-> e.id] \in provided'
      <4>1. Provides(e.id, m.key)
        BY <2>2, <3>1
      <4>2. QED
        BY <4>1, HasStays DEF Provides, Books
    <3>2. QED
      BY <1>2, <3>1
  <2>6. client[p].ask = "add_provider" => [key |-> client[p].key, id |-> p] \in Elements(provs'[n])
    <3>1. ASSUME client[p].ask = "add_provider"
          PROVE  [key |-> client[p].key, id |-> p] \in Elements(provs'[n])
      <4>1. PICK e \in m.provs : [key |-> m.key, id |-> e.id] \in Elements(provs'[n])
        BY <1>2, <3>1
      <4>2. e.id = p
        BY <1>2, <3>1, <4>1
      <4>3. QED
        BY <1>2, <4>1, <4>2
    <3>2. QED
      BY <3>1
  <2>7. Correct(client[p], p, n, r)'
    BY <1>2, <2>2, <2>4, <2>5, <2>6 DEF Correct
  <2>8. QED
    BY <2>1, <2>3, <2>7, Zenon DEF Answer
<1>5. QED
  BY <1>3, <1>4

\* What the handler of m changes, and what it sends.
Handled(n, p, m) ==
  /\ Books /\ StoresGrow /\ ProvsGrow /\ ConnFades
  /\ \A b \in Nodes : Elements(provs'[b]) \subseteq provided'
  /\ m.t = "add_provider" =>
       (m.provs # {} => \E e \in m.provs : [key |-> m.key, id |-> e.id] \in Elements(provs'[n]))
  /\ Quiet(n, p)' => UNCHANGED fails

LEMMA HandledSo ==
  ASSUME Types, Tables, NEW n \in Nodes, NEW p \in Nodes, n # p, NEW m \in Bodies, Honest(m),
         Handle(n, m), Fault(n, p) \/ UNCHANGED fails, UNCHANGED <<calls, crashed, provided>>
  PROVE  Handled(n, p, m)
<1>1. Quiet(n, p)' => UNCHANGED fails
  BY DEF Fault, Quiet
<1>2. CASE m.t = "add_provider"
  <2>1. HandleAddProvider(n, m)
    BY <1>2 DEF Handle
  <2>2. /\ puts' = puts /\ StoresGrow /\ ProvsGrow /\ ConnFades
        /\ \A b \in Nodes : Elements(provs'[b]) \subseteq provided
        /\ m.provs # {} => \E e \in m.provs : [key |-> m.key, id |-> e.id] \in Elements(provs'[n])
    BY <1>2, <2>1, HandleEffect
  <2>3. Books
    BY <2>2, SameBooks, FaultBooks DEF fails
  <2>4. QED
    BY <1>1, <2>2, <2>3 DEF Handled
<1>3. CASE m.t = "put_value"
  <2>1. HandlePutValue(n, m)
    BY <1>3 DEF Handle
  <2>2. Books
    BY <1>3, <2>1, PutBooks DEF fails
  <2>3. UNCHANGED <<store, conn, provs>>
    BY <2>1 DEF HandlePutValue
  <2>4. QED
    BY <1>1, <1>3, <2>2, <2>3, SameTables DEF Handled, TablesGrow
<1>4. CASE m.t \notin {"add_provider", "put_value"}
  <2>1. UNCHANGED <<store, conn, provs, puts>>
    BY <1>4 DEF Handle, tables
  <2>2. Books
    BY <2>1, SameBooks, FaultBooks DEF fails
  <2>3. QED
    BY <1>1, <1>4, <2>1, <2>2, SameTables DEF Handled, TablesGrow
<1>5. QED
  BY <1>2, <1>3, <1>4

\* The request is taken, and answered or not.
Answering(n, p, m, M) ==
  /\ Feeds(M) /\ \A b \in M : Honest(b)
  /\ \A q \in Pairs \ {<<n, p>>, <<p, n>>} : chan'[q] = chan[q]
  /\ chan'[<<p, n>>] = Tail(chan[<<p, n>>])
  /\ \/ Reply(n, m) = {} /\ chan'[<<n, p>>] = chan[<<n, p>>]
     \/ \E r \in Reply(n, m) : chan'[<<n, p>>] = Append(chan[<<n, p>>], r)
     \/ ~Quiet(n, p)'

LEMMA AnsweringSo ==
  ASSUME Types, Tables, NEW n \in Nodes, NEW p \in Nodes, n # p, NEW m \in Bodies, Honest(m),
         chan[<<p, n>>] # <<>>,
         \/ Reply(n, m) = {} /\ Take(<<p, n>>)
         \/ \E r \in Reply(n, m) : Exchange(<<p, n>>, <<n, p>>, r)
         \/ Fault(n, p) /\ Take(<<p, n>>)
  PROVE  \E M : Answering(n, p, m, M)
<1>1. /\ <<n, p>> \in Pairs /\ <<p, n>> \in Pairs /\ <<n, p>> # <<p, n>>
  BY PairOf
<1>2. CASE Take(<<p, n>>) /\ (Reply(n, m) = {} \/ Fault(n, p))
  <2>1. /\ Feeds({}) /\ chan'[<<p, n>>] = Tail(chan[<<p, n>>])
        /\ \A q \in Pairs \ {<<p, n>>} : chan'[q] = chan[q]
    BY <1>1, <1>2, TakeEffect
  <2>2. Reply(n, m) = {} \/ ~Quiet(n, p)'
    BY <1>2 DEF Fault, Quiet
  <2>3. Answering(n, p, m, {})
    BY <1>1, <2>1, <2>2 DEF Answering
  <2>4. QED
    BY <2>3
<1>3. CASE \E r \in Reply(n, m) : Exchange(<<p, n>>, <<n, p>>, r)
  <2>1. PICK r \in Reply(n, m) : Exchange(<<p, n>>, <<n, p>>, r)
    BY <1>3
  <2>2. r \in Messages /\ Honest(r)
    BY ReplyMessage, BodyIsMessage
  <2>3. /\ Feeds({r}) /\ chan'[<<p, n>>] = Tail(chan[<<p, n>>])
        /\ chan'[<<n, p>>] = Append(chan[<<n, p>>], r)
        /\ \A q \in Pairs \ {<<p, n>>, <<n, p>>} : chan'[q] = chan[q]
    BY <1>1, <2>1, <2>2, ExchangeEffect
  <2>4. \A b \in {r} : Honest(b)
    BY <2>2
  <2>5. Answering(n, p, m, {r})
    BY <2>3, <2>4 DEF Answering
  <2>6. QED
    BY <2>5
<1>4. QED
  BY <1>2, <1>3

\* On a quiet stream the request is that of p, or a record of it.
Requested(n, p, m) ==
  /\ ~Waits(n, p) /\ server[<<p, n>>] = "listen" /\ chan[<<n, p>>] = <<>> /\ Decodes(m)
  /\ \/ Putting(p, n) /\ m \in Records /\ Tail(chan[<<p, n>>]) = <<>>
     \/ /\ Waits(p, n) /\ client[p].step = "upgrade"
        /\ m \in Records /\ Tail(chan[<<p, n>>]) = <<Header>>
     \/ /\ Waits(p, n) /\ client[p].step = "reply"
        /\ m = Request(p) /\ Tail(chan[<<p, n>>]) = <<>>

LEMMA QuietRequest ==
  ASSUME IInv, NEW n \in Nodes, NEW p \in Nodes, n # p, Quiet(n, p),
         server[<<n, p>>] = "msg", chan[<<p, n>>] # <<>>, NEW m, m = Head(chan[<<p, n>>])
  PROVE  Requested(n, p, m)
<1>1. \A r : Head(<<r>>) = r /\ Tail(<<r>>) = <<>>
  OBVIOUS
<1>2. \A r, t : Head(<<r, t>>) = r /\ Tail(<<r, t>>) = <<t>>
  OBVIOUS
<1>3. \A r \in Records : Decodes(r)
  BY DEF Records, Decodes
<1>4. /\ ~Waits(n, p) /\ server[<<p, n>>] = "listen"
      /\ \/ Putting(p, n)
         \/ /\ Waits(p, n) /\ Stage(p, n)
            /\ client[p].who = n /\ client[p].step \in {"upgrade", "reply"}
  BY QuietServed
<1>5. CASE Putting(p, n)
  <2>1. PICK r \in Records : chan[<<p, n>>] = <<r>>
    BY <1>5 DEF Putting
  <2>2. QED
    BY <1>1, <1>3, <1>4, <1>5, <2>1 DEF Putting, Requested
<1>6. CASE Waits(p, n) /\ Stage(p, n) /\ client[p].step \in {"upgrade", "reply"}
  <2>1. CASE /\ client[p].step = "reply"
             /\ chan[<<p, n>>] = <<Request(p)>> /\ chan[<<n, p>>] = <<>>
    <3>1. Decodes(Request(p))
      BY <1>6, RequestMessage, BodyIsMessage
    <3>2. QED
      BY <1>1, <1>4, <1>6, <2>1, <3>1 DEF Requested
  <2>2. CASE /\ client[p].step = "upgrade" /\ \E r \in Records : chan[<<p, n>>] = <<r, Header>>
             /\ chan[<<n, p>>] = <<>>
    <3>1. PICK r \in Records : chan[<<p, n>>] = <<r, Header>>
      BY <2>2
    <3>2. QED
      BY <1>2, <1>3, <1>4, <1>6, <2>2, <3>1 DEF Requested
  <2>3. QED
    BY <1>6, <2>1, <2>2 DEF Stage
<1>7. QED
  BY <1>4, <1>5, <1>6

LEMMA ServeMessageStep ==
  ASSUME IInv, History, NEW n \in Nodes, NEW p \in Nodes, n # p, ServeMessage(n, p)
  PROVE  IInv'
<1>1. Types /\ Tables /\ Truthful /\ Streams
  BY DEF IInv
<1>2. /\ <<n, p>> \in Pairs /\ <<p, n>> \in Pairs /\ <<n, p>> # <<p, n>>
  BY PairOf
<1>3. PICK m : m = Head(chan[<<p, n>>])
  OBVIOUS
<1>4. /\ server[<<n, p>>] = "msg" /\ chan[<<p, n>>] # <<>>
      /\ UNCHANGED <<client, calls, provided, published>>
  BY DEF ServeMessage, Serving
<1>5. m \in Messages /\ Honest(m)
  <2>1. chan[<<p, n>>] \in Seq(Messages)
    BY <1>1, <1>2 DEF Types
  <2>2. m \in Messages /\ m = chan[<<p, n>>][1] /\ 1 \in 1 .. Len(chan[<<p, n>>])
    BY <1>3, <1>4, <2>1, TailOf
  <2>3. QED
    BY <1>1, <1>2, <2>2 DEF Truthful
<1>6. CASE ~Decodes(m)
  <2>1. Take(<<p, n>>) /\ Serve(n, p, "ended") /\ UNCHANGED <<store, conn, provs, puts, crashed, faults, faulty>>
    BY <1>3, <1>6 DEF ServeMessage, tables, fails
  <2>2. Books
    BY <1>1, <1>4, <2>1, SameBooks
  <2>3. StoresGrow /\ ProvsGrow /\ ConnFades /\ \A b \in Nodes : Elements(provs'[b]) \subseteq provided'
    BY <1>1, <2>1, <2>2, SameTables DEF TablesGrow
  <2>4. Feeds({}) /\ \A q \in Pairs \ {<<n, p>>, <<p, n>>} : chan'[q] = chan[q]
    BY <1>1, <1>2, <1>4, <2>1, TakeEffect
  <2>5. ASSUME Quiet(n, p)' PROVE FALSE
    <3>1. Quiet(n, p)
      BY <1>1, <2>2, <2>5, QuietBefore
    <3>2. QED
      BY <1>3, <1>4, <1>6, <3>1, QuietRequest DEF Requested
  <2>6. QED
    BY <1>4, <2>1, <2>2, <2>3, <2>4, <2>5, ServeStep
<1>7. CASE Decodes(m) /\ m.t = "get_value" /\ Bare(n, m.key)
  <2>1. crashed' = "file" /\ UNCHANGED <<store, conn, provs, puts, chan, server, faults, faulty>>
    BY <1>3, <1>7 DEF ServeMessage, tables, net, fails
  <2>2. Books
    BY <1>1, <1>4, <1>7, <2>1, CrashBooks, BareIsName
  <2>3. TablesGrow /\ ConnFades /\ \A b \in Nodes : Elements(provs'[b]) \subseteq provided'
    BY <1>1, <2>1, <2>2, SameTables
  <2>4. NetChange(n, n) /\ ClientChange(n, n) /\ Feeds({})
    BY <1>1, <1>4, <2>1, Stays, SameEffect DEF Types, NetChange
  <2>5. Frame(n, n, {}) /\ Streams'
    BY <1>1, <2>1, <2>2, <2>3, <2>4, StreamsFrom DEF Frame, ConnFades
  <2>6. QED
    BY <1>4, <2>3, <2>5, StillFrom
<1>8. CASE Decodes(m) /\ ~(m.t = "get_value" /\ Bare(n, m.key))
  <2>1. Handle(n, m) /\ Respond(n, p, m) /\ crashed' = crashed
    BY <1>3, <1>8 DEF ServeMessage
  <2>2. m \in Bodies
    BY <1>5, <1>8, MessageKinds
  <2>3. PICK s \in {"listen", "ended"} :
          /\ Serve(n, p, s)
          /\ (UNCHANGED fails /\ s = "listen") \/ Fault(n, p)
          /\ \/ Reply(n, m) = {} /\ Take(<<p, n>>)
             \/ \E r \in Reply(n, m) : Exchange(<<p, n>>, <<n, p>>, r)
             \/ Fault(n, p) /\ Take(<<p, n>>)
    <3>1. \/ /\ IF Reply(n, m) = {} THEN Take(<<p, n>>)
                ELSE \E r \in Reply(n, m) : Exchange(<<p, n>>, <<n, p>>, r)
             /\ Serve(n, p, "listen") /\ UNCHANGED fails
          \/ Fault(n, p) /\ Take(<<p, n>>) /\ Serve(n, p, "ended")
      BY <2>1 DEF Respond
    <3>2. QED
      BY <3>1
  <2>4. Handled(n, p, m)
    BY <1>1, <1>4, <1>5, <2>1, <2>2, <2>3, HandledSo
  <2>5. PICK M : Answering(n, p, m, M)
    BY <1>1, <1>4, <1>5, <2>2, <2>3, AnsweringSo
  <2>6. ASSUME Quiet(n, p)' PROVE Calm(n, p)'
    <3>1. Quiet(n, p) /\ ~Fault(n, p) /\ Books
      BY <1>1, <2>4, <2>6, QuietBefore DEF Handled, Fault, Quiet
    <3>2. /\ ~Waits(n, p) /\ server[<<p, n>>] = "listen" /\ chan[<<n, p>>] = <<>>
          /\ \/ Putting(p, n) /\ m \in Records /\ Tail(chan[<<p, n>>]) = <<>>
             \/ /\ Waits(p, n) /\ client[p].step = "upgrade"
                /\ m \in Records /\ Tail(chan[<<p, n>>]) = <<Header>>
             \/ /\ Waits(p, n) /\ client[p].step = "reply"
                /\ m = Request(p) /\ Tail(chan[<<p, n>>]) = <<>>
      <4>1. Quiet(n, p) /\ server[<<n, p>>] = "msg" /\ chan[<<p, n>>] # <<>>
        BY <1>4, <3>1
      <4>2. Requested(n, p, m)
        BY <1>3, <4>1, QuietRequest
      <4>3. QED
        BY <4>2 DEF Requested
    <3>3. server'[<<n, p>>] = "listen" /\ server'[<<p, n>>] = "listen"
      <4>1. s = "listen"
        BY <2>3, <3>1
      <4>2. server' = [server EXCEPT ![<<n, p>>] = "listen"]
        BY <2>3, <4>1 DEF Serve
      <4>3. server \in [Pairs -> {"none", "listen", "msg", "ended"}]
        BY <1>1 DEF Types
      <4>4. server'[<<n, p>>] = "listen" /\ server'[<<p, n>>] = server[<<p, n>>]
        BY <1>2, <4>2, <4>3
      <4>5. QED
        BY <3>2, <4>4
    <3>4. /\ chan'[<<p, n>>] = Tail(chan[<<p, n>>])
          /\ \/ Reply(n, m) = {} /\ chan'[<<n, p>>] = <<>>
             \/ \E r \in Reply(n, m) : chan'[<<n, p>>] = <<r>>
      <4>1. \A r : Append(<<>>, r) = <<r>>
        OBVIOUS
      <4>2. QED
        BY <2>5, <2>6, <3>2, <4>1 DEF Answering
    <3>5. ~Waits(n, p)' /\ (Waits(p, n)' <=> Waits(p, n)) /\ client'[p] = client[p]
      BY <1>4, <3>2 DEF Waits
    <3>6. ASSUME m \in Records PROVE chan'[<<n, p>>] = <<>>
      <4>1. Reply(n, m) = {}
        BY <3>6 DEF Records, Reply
      <4>2. QED
        BY <3>4, <4>1
    <3>7. CASE Putting(p, n) /\ m \in Records /\ Tail(chan[<<p, n>>]) = <<>>
      BY <3>3, <3>4, <3>5, <3>6, <3>7 DEF Calm, Rest, Putting
    <3>8. CASE /\ Waits(p, n) /\ client[p].step = "upgrade"
               /\ m \in Records /\ Tail(chan[<<p, n>>]) = <<Header>>
      <4>1. Stage(p, n)'
        BY <3>3, <3>4, <3>5, <3>6, <3>8 DEF Stage
      <4>2. QED
        BY <3>3, <3>5, <3>8, <4>1 DEF Calm, Asking
    <3>9. CASE /\ Waits(p, n) /\ client[p].step = "reply"
               /\ m = Request(p) /\ Tail(chan[<<p, n>>]) = <<>>
      <4>1. Answer(p, n)'
        BY <1>4, <1>5, <2>4, <3>1, <3>4, <3>9, AnsweredRight DEF Handled
      <4>2. Stage(p, n)'
        BY <3>3, <3>4, <3>5, <3>9, <4>1 DEF Stage
      <4>3. QED
        BY <3>3, <3>5, <3>9, <4>2 DEF Calm, Asking
    <3>10. QED
      BY <3>2, <3>7, <3>8, <3>9
  <2>7. QED
    BY <1>4, <2>3, <2>4, <2>5, <2>6, ServeStep DEF Handled, Answering
<1>9. QED
  BY <1>6, <1>7, <1>8

(***************************************************************************)
(* The theorems                                                            *)
(***************************************************************************)

\* The nodes know the peers they are connected to, and nobody asks.
LEMMA InitInvariant == Init => IInv
<1>1. SUFFICES ASSUME Init PROVE IInv
  OBVIOUS
<1>2. /\ conn = [q \in Pairs |-> IF {q[1], q[2]} \in Links THEN "yes" ELSE "no"]
      /\ provs = Before
      /\ chan = [q \in Pairs |-> <<>>]
      /\ server = [q \in Pairs |-> IF {q[1], q[2]} \in Links THEN "listen" ELSE "none"]
      /\ client = [n \in Nodes |-> NoCall]
      /\ puts = [n \in Nodes |-> {}] /\ calls = 0 /\ faults = 0 /\ crashed = "no"
      /\ published = {} /\ faulty = {} /\ shared = {}
      /\ provided = UNION {Elements(Before[n]) : n \in Nodes}
  BY <1>1 DEF Init
<1>3. /\ store \in [Nodes -> Seq(Nodes)]
      /\ \A n \in Nodes : Elements(store[n]) = {n} \cup Neighbours(n)
  BY <1>1, RoutingAssumption DEF Init
<1>4. /\ provs \in [Nodes -> Seq(Entries)] /\ provided \subseteq Entries
      /\ \A n \in Nodes : Elements(provs[n]) \subseteq provided
  <2>1. provs \in [Nodes -> Seq(Entries)]
    BY <1>2, RoutingAssumption
  <2>2. \A n \in Nodes : Elements(provs[n]) \subseteq Entries
    BY <2>1 DEF Elements
  <2>3. QED
    BY <1>2, <2>1, <2>2
<1>5. NoCall \in CallRecords /\ NoCall.step = "idle" /\ NoCall.op = None /\ NoCall.found = {} /\ NoCall.got = {}
  BY DEF NoCall, CallRecords
<1>6. chan \in [Pairs -> Seq(Messages)] /\ client \in [Nodes -> CallRecords]
  BY <1>2, <1>5
<1>7. Types
  <2>1. conn \in [Pairs -> {"yes", "no", "ghost"}] /\ server \in [Pairs -> {"none", "listen", "msg", "ended"}]
    BY <1>2
  <2>2. calls \in 0 .. MaxCalls /\ faults \in 0 .. MaxFaults /\ crashed \in {"no", "session", "file"} /\ Fatal
    <3>1. MaxCalls \in Nat /\ MaxFaults \in Nat
      BY RoutingAssumption
    <3>2. 0 \in 0 .. MaxCalls /\ 0 \in 0 .. MaxFaults
      BY <3>1
    <3>3. crashed # "file" /\ crashed \in {"no", "session", "file"}
      BY <1>2
    <3>4. QED
      BY <1>2, <3>2, <3>3, Zenon DEF Fatal
  <2>3. published \subseteq Entries /\ shared \subseteq Ends /\ faulty \subseteq Ends
    BY <1>2
  <2>4. puts \in [Nodes -> SUBSET Names]
    BY <1>2
  <2>5. QED
    BY <1>3, <1>4, <1>6, <2>1, <2>2, <2>3, <2>4 DEF Types
<1>8. \A n \in Nodes : client[n].step = "idle" /\ client[n].op = None /\ client[n].found = {} /\ client[n].got = {}
  BY <1>2, <1>5
<1>9. Truthful /\ (\A n \in Nodes : Placed(n, client[n])) /\ Told
  BY <1>2, <1>8 DEF Truthful, Placed, Told, Walked
<1>10. Tables
  BY <1>2, <1>3, <1>4 DEF Tables, Knows
<1>11. ASSUME NEW q \in Pairs
       PROVE  /\ <<q[2], q[1]>> \in Pairs /\ server[q] = server[<<q[2], q[1]>>]
              /\ server[q] \in {"none", "listen"}
  <2>1. PICK a \in Nodes, b \in Nodes : q[1] = a /\ q[2] = b /\ q = <<a, b>> /\ <<b, a>> \in Pairs
    BY PairParts
  <2>2. {a, b} = {b, a} /\ <<b, a>>[1] = b /\ <<b, a>>[2] = a
    OBVIOUS
  <2>3. server[q] = (IF {a, b} \in Links THEN "listen" ELSE "none")
    BY <1>2, <2>1
  <2>4. server[<<b, a>>] = (IF {a, b} \in Links THEN "listen" ELSE "none")
    BY <1>2, <2>1, <2>2
  <2>5. QED
    BY <2>1, <2>3, <2>4
<1>12. Streams
  BY <1>2, <1>11 DEF Streams
<1>13. Orderly
  <2>1. ASSUME NEW q \in Pairs PROVE Rest(q[1], q[2])
    <3>1. q = <<q[1], q[2]>> /\ q[1] \in Nodes /\ q[2] \in Nodes
      BY PairParts
    <3>2. chan[q] = <<>> /\ chan[<<q[2], q[1]>>] = <<>>
      BY <1>2, <1>11
    <3>3. QED
      BY <1>8, <1>11, <3>1, <3>2 DEF Rest, Waits
  <2>2. QED
    BY <2>1 DEF Orderly, Calm
<1>14. Answers
  BY <1>8 DEF Answers, Right
<1>15. QED
  BY <1>7, <1>9, <1>10, <1>12, <1>13, <1>14 DEF IInv

LEMMA Stutter == ASSUME IInv, UNCHANGED vars PROVE IInv'
<1>1. /\ UNCHANGED <<store, conn, provs, puts, chan, server, client, calls, faults, faulty, crashed>>
      /\ UNCHANGED <<provided, published, shared>>
  BY DEF vars, tables, net, fails
<1>2. Types' /\ Streams' /\ Truthful' /\ Answers'
  BY <1>1 DEF IInv, Types, Fatal, Bare, Streams, Truthful, Honest, Answers, Right, Has, Disturbed
<1>3. Tables' /\ \A n \in Nodes : Placed(n, client[n])'
  BY <1>1 DEF IInv, Tables, Knows, Placed
<1>4. Told'
  BY <1>1 DEF IInv, Told, Walked, Reached, Quiet
<1>5. Orderly'
  <2>1. ASSUME NEW q \in Pairs, Quiet(q[1], q[2])' PROVE Calm(q[1], q[2])'
    <3>1. PICK a \in Nodes, b \in Nodes : a = q[1] /\ b = q[2] /\ a # b
      BY PairParts
    <3>2. Types /\ Calm(a, b)
      BY <1>1, <2>1, <3>1 DEF IInv, Orderly, Quiet
    <3>3. Books
      BY <1>1, <3>2, SameBooks
    <3>4. ProvsGrow
      BY <1>1, <3>2 DEF Types, ProvsGrow
    <3>5. Calm(a, b)'
      BY <1>1, <3>1, <3>2, <3>3, <3>4, CalmStays
    <3>6. QED
      BY <3>1, <3>5
  <2>2. QED
    BY <2>1 DEF Orderly
<1>6. QED
  BY <1>2, <1>3, <1>4, <1>5, Zenon DEF IInv

\* The inductive invariant holds throughout.
THEOREM Invariance == Spec => []IInv
<1>1. ASSUME IInv, Next PROVE IInv'
  <2>1. History
    BY <1>1 DEF Next, History
  <2>2. ASSUME NEW n \in Nodes, NEW op \in AllOps, NEW k \in Keys \cup Nodes, Call(n, op, k)
        PROVE  IInv'
    BY <1>1, <2>1, <2>2, CallStep
  <2>3. ASSUME NEW n \in Nodes, ClientStep(n)
        PROVE  IInv'
    BY <1>1, <2>1, <2>3, WalkStep, DirectStep, ReadUpgradeStep, ReadReplyStep, ReadTimeoutStep
       DEF ClientStep
  <2>4. ASSUME NEW q \in Pairs, ServerStep(q[1], q[2]) \/ Tidy(q[1], q[2])
        PROVE  IInv'
    <3>1. PICK n \in Nodes, p \in Nodes : n = q[1] /\ p = q[2] /\ n # p
      BY PairParts
    <3>2. ServeHeader(n, p) \/ ServeMessage(n, p) \/ ServeTimeout(n, p) \/ Tidy(n, p)
      BY <2>4, <3>1 DEF ServerStep
    <3>3. QED
      BY <1>1, <2>1, <3>1, <3>2, ServeHeaderStep, ServeMessageStep, ServeTimeoutStep, TidyStep
  <2>5. QED
    BY <1>1, <2>2, <2>3, <2>4 DEF Next
<1>2. QED
  BY <1>1, InitInvariant, Stutter, PTL DEF Spec

\* The type invariant of the module.
LEMMA TypesOK == IInv => TypeOK
<1>1. SUFFICES ASSUME IInv PROVE TypeOK
  OBVIOUS
<1>2. Types
  BY <1>1 DEF IInv
<1>3. ASSUME NEW l \in faulty \cup shared PROVE Cardinality(l) = 2
  <2>1. PICK q \in Pairs : l = {q[1], q[2]}
    BY <1>2 DEF Types, Ends
  <2>2. PICK a, b : a = q[1] /\ b = q[2]
    OBVIOUS
  <2>3. b \notin {a}
    BY <2>2, PairParts
  <2>4. IsFiniteSet({a}) /\ Cardinality({a}) = 1
    BY FS_Singleton
  <2>5. Cardinality({a} \cup {b}) = Cardinality({a}) + 1
    BY <2>3, <2>4, FS_AddElement
  <2>6. {a} \cup {b} = l
    BY <2>1, <2>2
  <2>7. Cardinality(l) = 1 + 1
    BY <2>4, <2>5, <2>6
  <2>8. QED
    BY <2>7
<1>4. \A q \in Pairs : \A i \in 1 .. Len(chan[q]) : chan[q][i] \in Messages
  BY <1>2 DEF Types
<1>5. \A n \in Nodes : client[n].step \in {"idle", "walk", "direct", "value", "upgrade", "reply"}
  BY <1>2 DEF Types, CallRecords
<1>6. puts \in [Nodes -> SUBSET Keys]
  BY <1>2, RoutingAssumption DEF Types, Names
<1>7. QED
  BY <1>2, <1>3, <1>4, <1>5, <1>6 DEF Types, TypeOK, Entries

\* Types are kept: tables, streams and calls (peerstore.c, providerstore.c, online.c).
THEOREM TypeCorrect == Spec => []TypeOK
BY Invariance, TypesOK, PTL

\* A providerstore names only who announced the key, and a Provide that has
\* returned has reached everybody it could be expected to reach.
THEOREM AnnouncementsArrive == Spec => []ProvidersRight
<1>1. ASSUME IInv PROVE ProvidersRight
  <2>1. Types /\ Tables /\ Told /\ TypeOK
    BY <1>1, TypesOK DEF IInv
  <2>2. ASSUME NEW q \in Pairs, NEW k \in Keys, [key |-> k, id |-> q[1]] \in published,
               {q[1], q[2]} \in Links \ (faulty \cup shared), conn[q] = "yes"
        PROVE  [key |-> k, id |-> q[1]] \in Elements(provs[q[2]])
    <3>1. q = <<q[1], q[2]>>
      BY PairParts
    <3>2. Reached(q[1], q[2], k)
      BY <2>1, <2>2 DEF Told
    <3>3. conn[<<q[1], q[2]>>] = "yes"
      BY <2>2, <3>1
    <3>4. QED
      BY <2>2, <3>2, <3>3 DEF Reached, Quiet
  <2>3. QED
    BY <2>1, <2>2 DEF ProvidersRight, Tables
<1>2. QED
  BY <1>1, Invariance, PTL

\* Only on a stream that two threads read, or that failed, does a call take what is
\* not its answer.
THEOREM AnswersAreTrue == Spec => []AnswerTrue
<1>1. IInv => AnswerTrue
  BY DEF IInv, Answers, AnswerTrue
<1>2. QED
  BY <1>1, Invariance, PTL

\* Only there does a listening thread end; and a node that reads a file that is not
\* there has the record of a name (dht_protocol.c, blockstore.c).
THEOREM ListenersStay == Spec => []ListenerStays
<1>1. ASSUME IInv PROVE ListenerStays
  <2>1. ASSUME NEW q \in Pairs, server[q] = "ended", {q[1], q[2]} \notin faulty \cup shared
        PROVE  FALSE
    <3>1. Calm(q[1], q[2])
      BY <1>1, <2>1 DEF IInv, Orderly, Quiet
    <3>2. server[<<q[1], q[2]>>] = "ended"
      BY <2>1, PairParts
    <3>3. QED
      BY <3>1, <3>2 DEF Calm, Rest, Asking, Putting, Stage
  <2>2. Fatal
    BY <1>1 DEF IInv, Types
  <2>3. QED
    BY <2>1, <2>2 DEF ListenerStays, Fatal
<1>2. QED
  BY <1>1, Invariance, PTL

(***************************************************************************)
(* The searches of the DHT                                                 *)
(***************************************************************************)

SearchTokens == 0 .. MaxRotations + 1 \cup {NoToken}

SearchRecords == [target : Targets, tid : Tids, announce : BOOLEAN, done : BOOLEAN,
                  step : 0 .. 2, nodes : Seq(SearchNode)]

Packets == [type : {"get_peers", "announce_peer", "announced"}, peer : Others, tid : Tids,
            target : Targets, token : SearchTokens]

(* No number of a search comes round. *)
Once == MaxSearchCalls <= TidSpan

(* A node of a search for h, when the peers have accepted A and drawn the   *)
(* secrets S: it has acknowledged what it accepted, and has a token if it   *)
(* replied.                                                                 *)
Earned(n, h, A, S) ==
    /\ Once /\ n.acked => n.id \in Broken \/ h \in A[n.id]
    /\ n.token # NoToken => n.id \notin Broken /\ n.token \in 1 .. S[n.id][1]
    /\ n.replied /\ n.token = NoToken => n.id \in Broken

Sorted(nodes, h) == \A i, j \in 1 .. Len(nodes) : i < j => Closer(nodes[i].id, nodes[j].id, h)

Sound(s, A, S) ==
    /\ s \in SearchRecords /\ Len(s.nodes) <= SearchNodes /\ Sorted(s.nodes, s.target)
    /\ \A j \in 1 .. Len(s.nodes) : Earned(s.nodes[j], s.target, A, S)

Genuine(m, A, S) ==
    /\ m \in Packets
    /\ m.type = "announce_peer" => m.token \in 1 .. S[m.peer][1]
    /\ m.type = "announced" => m.target \in A[m.peer]

(* The searches ss and the packets P are in order. *)
Fit(ss, P, A, S) ==
    /\ ss \in Seq(SearchRecords) /\ Len(ss) <= MaxSearches
    /\ \A k \in 1 .. Len(ss) : Sound(ss[k], A, S)
    /\ \A m \in P : Genuine(m, A, S)

(* The numbers in use, each with the hash it is for: there is one hash for  *)
(* each, and id is a number that was not in use yet.                        *)
Uses(ss, P) == {<<ss[k].tid, ss[k].target>> : k \in 1 .. Len(ss)} \cup {<<m.tid, m.target>> : m \in P}

Numbered(U, id, c) ==
    /\ \A u, v \in U : u[1] = v[1] => u[2] = v[2]
    /\ c = MaxSearchCalls \/ (id <= c /\ \A u \in U : u[1] < id)

Scalars ==
    /\ searchTime \in {"none", "now", "later"} /\ searchId \in Tids /\ blacklist \subseteq Others
    /\ announced \in [Others -> SUBSET Targets]
    /\ DOMAIN secrets = Others
    /\ \A p \in Others : \E k \in 1 .. MaxRotations + 1 : secrets[p] = <<k, k - 1>>
    /\ secrets = [p \in Others |-> secrets[p]]
    /\ searchCalls \in 0 .. MaxSearchCalls /\ arrivals \in 0 .. MaxArrivals

SearchInv ==
    /\ Scalars
    /\ Fit(searches, packets, announced, secrets)
    /\ Once => Numbered(Uses(searches, packets), searchId, searchCalls)

---------------------------------------------------------------------------
(* Numbers. *)

(* A set of numbers that is not empty has a least element. *)
LEMMA LeastNumber ==
    ASSUME NEW T, T \subseteq Nat, T # {}
    PROVE  \E x \in T : \A y \in T : x <= y
<1>1. IsWellFoundedOn(OpToRel(<, Nat), Nat)
  BY NatLessThanWellFounded, Zenon
<1>2. PICK R : R = OpToRel(<, Nat)
  BY Zenon
<1>3. IsWellFoundedOn(R, Nat) /\ \A y, x \in Nat : y < x => <<y, x>> \in R
  BY <1>1, <1>2, Zenon DEF OpToRel
<1>4. PICK x \in T : \A y \in T : ~(<<y, x>> \in R)
  <2>1. PICK N : N = Nat
    BY Zenon
  <2>2. IsWellFoundedOn(R, N) /\ T \subseteq N /\ T # {}
    BY <1>3, <2>1, Zenon
  <2>3. \E x \in T : \A y \in T : ~(<<y, x>> \in R)
    BY <2>2, WFMin, Zenon
  <2> QED
    BY <2>3, Zenon
<1>5. \A y \in T : x \in Nat /\ y \in Nat /\ ~(y < x)
  BY <1>3, <1>4, Zenon
<1>6. \A y \in T : x <= y
  BY <1>5
<1> QED
  BY <1>6

(* Induction over 0..k, for a set of numbers. *)
LEMMA UpTo ==
    ASSUME NEW k \in Nat, NEW Good, 0 \in Good,
           \A n \in 1 .. k : n - 1 \in Good => n \in Good
    PROVE  \A n \in 0 .. k : n \in Good
<1> DEFINE Bad == {n \in 0 .. k : n \notin Good}
<1> SUFFICES ASSUME Bad # {}
             PROVE  FALSE
  OBVIOUS
<1>1. Bad \subseteq Nat
  OBVIOUS
<1>2. PICK x \in Bad : \A y \in Bad : x <= y
  BY <1>1, LeastNumber
<1>3. x \in 1 .. k /\ x - 1 \in 0 .. k /\ x - 1 \notin Bad
  BY <1>2
<1> QED
  BY <1>3

LEMMA MinFacts ==
    ASSUME NEW T, T \subseteq Nat, T # {}
    PROVE  Min(T) \in T /\ \A y \in T : Min(T) <= y
<1>1. PICK x \in T : \A y \in T : x <= y
  BY LeastNumber
<1> QED
  BY <1>1, Zenon DEF Min

LEMMA MinPair ==
    ASSUME NEW a \in Nat, NEW b \in Nat
    PROVE  Min({a, b}) = IF a <= b THEN a ELSE b
<1>1. {a, b} \subseteq Nat /\ {a, b} # {}
  OBVIOUS
<1>2. Min({a, b}) \in {a, b} /\ \A y \in {a, b} : Min({a, b}) <= y
  BY <1>1, MinFacts
<1> QED
  BY <1>2

LEMMA MaxFacts ==
    ASSUME NEW n \in Nat, NEW T, T \subseteq 1 .. n, T # {}
    PROVE  Max(T) \in T
<1> DEFINE U == {n - x : x \in T}
<1>1. U \subseteq Nat /\ U # {}
  <2>1. \A x \in T : x \in 1 .. n /\ n - x \in Nat
    OBVIOUS
  <2> QED
    BY <2>1
<1>2. PICK u \in U : \A v \in U : u <= v
  BY <1>1, LeastNumber
<1>3. PICK x \in T : u = n - x
  OBVIOUS
<1>4. \A y \in T : x >= y
  <2> SUFFICES ASSUME NEW y \in T
               PROVE  x >= y
    OBVIOUS
  <2>1. n - y \in U
    OBVIOUS
  <2>2. n - x <= n - y
    BY <1>2, <1>3, <2>1
  <2> QED
    BY <2>2
<1> QED
  BY <1>4, Zenon DEF Max

LEMMA FunctionSeq ==
    ASSUME NEW S, NEW n \in Nat, NEW f \in [1 .. n -> S]
    PROVE  f \in Seq(S) /\ Len(f) = n /\ DOMAIN f = 1 .. n
OBVIOUS

---------------------------------------------------------------------------
(* Recursion along 0..n. *)

(* f begins at a and goes on as h says. *)
Iterates(f, n, X, a, h) ==
    f \in [0 .. n -> X] /\ f[0] = a /\ \A j \in 1 .. n : f[j] = h[j][f[j - 1]]

LEMMA Recursion ==
    ASSUME NEW n \in Nat, NEW X, NEW a \in X, NEW h \in [1 .. n -> [X -> X]]
    PROVE  \E f : Iterates(f, n, X, a, h)
<1> DEFINE Done(k) == \E f \in [0 .. k -> X] : f[0] = a /\ \A j \in 1 .. k : f[j] = h[j][f[j - 1]]
           Good == {k \in 0 .. n : Done(k)}
<1>1. Done(0)
  <2> DEFINE f == [j \in 0 .. 0 |-> a]
  <2>1. f \in [0 .. 0 -> X] /\ f[0] = a /\ \A j \in 1 .. 0 : f[j] = h[j][f[j - 1]]
    OBVIOUS
  <2> QED
    BY <2>1
<1>2. ASSUME NEW k \in 1 .. n, Done(k - 1)
      PROVE  Done(k)
  <2>1. PICK f \in [0 .. k - 1 -> X] : f[0] = a /\ \A j \in 1 .. k - 1 : f[j] = h[j][f[j - 1]]
    BY <1>2
  <2> DEFINE g == [j \in 0 .. k |-> IF j < k THEN f[j] ELSE h[k][f[k - 1]]]
  <2>2. f[k - 1] \in X /\ h[k][f[k - 1]] \in X
    OBVIOUS
  <2>3. g \in [0 .. k -> X]
    BY <2>2
  <2>4. g[0] = a
    BY <2>1
  <2>5. ASSUME NEW j \in 1 .. k
        PROVE  g[j] = h[j][g[j - 1]]
    <3>1. g[j - 1] = f[j - 1]
      OBVIOUS
    <3>2. CASE j = k
      BY <3>1, <3>2
    <3>3. CASE j # k
      BY <2>1, <3>1, <3>3
    <3> QED
      BY <3>2, <3>3
  <2> QED
    BY <2>3, <2>4, <2>5
<1> HIDE DEF Done
<1>3. 0 \in Good /\ \A k \in 1 .. n : k - 1 \in Good => k \in Good
  BY <1>1, <1>2
<1>4. \A k \in 0 .. n : k \in Good
  <2> HIDE DEF Good
  <2> QED
    BY <1>3, UpTo
<1> QED
  BY <1>4 DEF Done, Iterates

---------------------------------------------------------------------------
(* Sequences. *)

SiftTurn(seq, I, f, j) ==
    IF j = 0 THEN <<>> ELSE IF j \in I THEN Append(f[j - 1], seq[j]) ELSE f[j - 1]

LEMMA SiftLoop ==
    ASSUME NEW S, NEW seq \in Seq(S), NEW I
    PROVE  \A j \in 0 .. Len(seq) : SiftTo(seq, I)[j] = SiftTurn(seq, I, SiftTo(seq, I), j)
<1> DEFINE All(f) == [j \in 0 .. Len(seq) |-> SiftTurn(seq, I, f, j)]
           h == [j \in 1 .. Len(seq) |-> [q \in Seq(S) |-> IF j \in I THEN Append(q, seq[j]) ELSE q]]
<1>1. Len(seq) \in Nat /\ <<>> \in Seq(S) /\ \A j \in 1 .. Len(seq) : seq[j] \in S
  OBVIOUS
<1>2. \A j \in 1 .. Len(seq), q \in Seq(S) : (IF j \in I THEN Append(q, seq[j]) ELSE q) \in Seq(S)
  BY <1>1
<1>3. h \in [1 .. Len(seq) -> [Seq(S) -> Seq(S)]]
  BY <1>2
<1>4. \A j \in 1 .. Len(seq), q \in Seq(S) : h[j][q] = IF j \in I THEN Append(q, seq[j]) ELSE q
  OBVIOUS
<1> HIDE DEF h
<1>5. PICK f : Iterates(f, Len(seq), Seq(S), <<>>, h)
  BY <1>1, <1>3, Recursion
<1>6. ASSUME NEW j \in 0 .. Len(seq)
      PROVE  f[j] = SiftTurn(seq, I, f, j)
  <2>1. CASE j = 0
    BY <1>5, <2>1 DEF SiftTurn, Iterates
  <2>2. CASE j # 0
    <3>1. j \in 1 .. Len(seq) /\ f[j - 1] \in Seq(S)
      BY <1>5, <2>2 DEF Iterates
    <3>2. f[j] = IF j \in I THEN Append(f[j - 1], seq[j]) ELSE f[j - 1]
      BY <1>4, <1>5, <3>1 DEF Iterates
    <3> QED
      BY <2>2, <3>2 DEF SiftTurn
  <2> QED
    BY <2>1, <2>2
<1>7. f = All(f)
  BY <1>5, <1>6 DEF Iterates
<1>8. SiftTo(seq, I) = CHOOSE f1 : f1 = All(f1)
  BY DEF SiftTo, SiftTurn
<1> HIDE DEF All
<1>9. SiftTo(seq, I) = All(SiftTo(seq, I))
  BY <1>7, <1>8, Zenon
<1> QED
  BY <1>9 DEF All

(* q is the elements of seq at some positions of I, in order. *)
Picked(q, S, seq, I) ==
    \E n \in 0 .. Len(seq) : \E g \in [1 .. n -> I \cap (1 .. Len(seq))] :
       /\ q \in Seq(S) /\ Len(q) = n
       /\ \A i \in 1 .. n : q[i] = seq[g[i]]
       /\ \A i, k \in 1 .. n : i < k => g[i] < g[k]

LEMMA SiftFacts ==
    ASSUME NEW S, NEW seq \in Seq(S), NEW I
    PROVE  Picked(Sift(seq, I), S, seq, I)
<1> DEFINE F == SiftTo(seq, I)
           Some(m) == \E n \in 0 .. m : \E g \in [1 .. n -> I \cap (1 .. m)] :
                        /\ F[m] \in Seq(S) /\ Len(F[m]) = n
                        /\ \A i \in 1 .. n : F[m][i] = seq[g[i]]
                        /\ \A i, k \in 1 .. n : i < k => g[i] < g[k]
           Good == {m \in 0 .. Len(seq) : Some(m)}
<1>1. /\ F[0] = <<>>
      /\ \A m \in 1 .. Len(seq) : F[m] = IF m \in I THEN Append(F[m - 1], seq[m]) ELSE F[m - 1]
  <2>1. \A j \in 0 .. Len(seq) : F[j] = SiftTurn(seq, I, F, j)
    BY SiftLoop
  <2>2. Len(seq) \in Nat
    OBVIOUS
  <2> HIDE DEF F
  <2>3. F[0] = <<>>
    BY <2>1, <2>2 DEF SiftTurn
  <2>4. ASSUME NEW m \in 1 .. Len(seq)
        PROVE  F[m] = IF m \in I THEN Append(F[m - 1], seq[m]) ELSE F[m - 1]
    BY <2>1, <2>2 DEF SiftTurn
  <2> QED
    BY <2>3, <2>4
<1> HIDE DEF F
<1>2. Some(0)
  <2>1. [i \in 1 .. 0 |-> 0] \in [1 .. 0 -> I \cap (1 .. 0)]
    OBVIOUS
  <2>2. F[0] \in Seq(S) /\ Len(F[0]) = 0
    BY <1>1
  <2> QED
    BY <2>1, <2>2
<1>3. ASSUME NEW m \in 1 .. Len(seq), Some(m - 1)
      PROVE  Some(m)
  <2>0. PICK n \in 0 .. m - 1 : \E g \in [1 .. n -> I \cap (1 .. m - 1)] :
               /\ F[m - 1] \in Seq(S) /\ Len(F[m - 1]) = n
               /\ \A i \in 1 .. n : F[m - 1][i] = seq[g[i]]
               /\ \A i, k \in 1 .. n : i < k => g[i] < g[k]
    BY <1>3
  <2>1. PICK g \in [1 .. n -> I \cap (1 .. m - 1)] :
               /\ F[m - 1] \in Seq(S) /\ Len(F[m - 1]) = n
               /\ \A i \in 1 .. n : F[m - 1][i] = seq[g[i]]
               /\ \A i, k \in 1 .. n : i < k => g[i] < g[k]
    BY <2>0
  <2>2. \A i \in 1 .. n : g[i] \in I /\ g[i] \in 1 .. m - 1
    OBVIOUS
  <2>3. CASE m \notin I
    <3>1. F[m] = F[m - 1]
      BY <1>1, <2>3
    <3>2. n \in 0 .. m /\ g \in [1 .. n -> I \cap (1 .. m)]
      BY <2>2
    <3>3. /\ F[m] \in Seq(S) /\ Len(F[m]) = n
          /\ \A i \in 1 .. n : F[m][i] = seq[g[i]]
          /\ \A i, k \in 1 .. n : i < k => g[i] < g[k]
      BY <2>1, <3>1
    <3>4. \E f \in [1 .. n -> I \cap (1 .. m)] :
            /\ F[m] \in Seq(S) /\ Len(F[m]) = n
            /\ \A i \in 1 .. n : F[m][i] = seq[f[i]]
            /\ \A i, k \in 1 .. n : i < k => f[i] < f[k]
      BY <3>2, <3>3, Zenon
    <3> QED
      BY <3>2, <3>4, Zenon
  <2>4. CASE m \in I
    <3> DEFINE g1 == [i \in 1 .. n + 1 |-> IF i <= n THEN g[i] ELSE m]
    <3>1. F[m] = Append(F[m - 1], seq[m]) /\ seq[m] \in S
      <4>1. F[m] = Append(F[m - 1], seq[m])
        BY <1>1, <2>4, Zenon
      <4>2. seq[m] \in S
        OBVIOUS
      <4> QED
        BY <4>1, <4>2
    <3>2. F[m] \in Seq(S) /\ Len(F[m]) = n + 1 /\ F[m][n + 1] = seq[m]
          /\ \A i \in 1 .. n : F[m][i] = F[m - 1][i]
      BY <2>1, <3>1
    <3>3. n + 1 \in 0 .. m
      OBVIOUS
    <3>4. g1 \in [1 .. n + 1 -> I \cap (1 .. m)]
      BY <2>2, <2>4
    <3>5. ASSUME NEW i \in 1 .. n + 1
          PROVE  F[m][i] = seq[g1[i]]
      <4>1. CASE i = n + 1
        BY <3>2, <4>1
      <4>2. CASE i # n + 1
        BY <2>1, <3>2, <4>2
      <4> QED
        BY <4>1, <4>2
    <3>6. ASSUME NEW i \in 1 .. n + 1, NEW k \in 1 .. n + 1, i < k
          PROVE  g1[i] < g1[k]
      <4>1. CASE k = n + 1
        BY <2>2, <3>6, <4>1
      <4>2. CASE k # n + 1
        BY <2>1, <3>6, <4>2
      <4> QED
        BY <4>1, <4>2
    <3> QED
      BY <3>2, <3>3, <3>4, <3>5, <3>6
  <2> QED
    BY <2>3, <2>4
<1> HIDE DEF Some
<1>4. 0 \in Good /\ \A m \in 1 .. Len(seq) : m - 1 \in Good => m \in Good
  BY <1>2, <1>3
<1>5. \A m \in 0 .. Len(seq) : m \in Good
  <2> HIDE DEF Good
  <2>1. Len(seq) \in Nat
    OBVIOUS
  <2> QED
    BY <1>4, <2>1, UpTo
<1>6. Some(Len(seq))
  BY <1>5
<1> QED
  BY <1>6 DEF Some, F, Sift, Picked

---------------------------------------------------------------------------
(* Closer is a strict order of the ids, and a total one. *)

LEMMA CloserTotal ==
    ASSUME NEW a \in NodeIds, NEW b \in NodeIds, NEW ref \in NodeIds, a # b
    PROVE  Closer(a, b, ref) \/ Closer(b, a, ref)
<1> DEFINE D == {k \in 0 .. Bits - 1 : a[k] # b[k]}
<1>1. D \subseteq Nat
  BY DhtSearchAssumption
<1>2. ASSUME D = {}
      PROVE  FALSE
  <2>1. \A k \in 0 .. Bits - 1 : a[k] = b[k]
    BY <1>2
  <2> HIDE DEF D
  <2>2. a \in [0 .. Bits - 1 -> {0, 1}] /\ b \in [0 .. Bits - 1 -> {0, 1}]
    BY DEF NodeIds
  <2>3. a = [k \in 0 .. Bits - 1 |-> a[k]] /\ b = [k \in 0 .. Bits - 1 |-> b[k]]
    BY <2>2
  <2>4. [k \in 0 .. Bits - 1 |-> a[k]] = [k \in 0 .. Bits - 1 |-> b[k]]
    BY <2>1
  <2> QED
    BY <2>3, <2>4
<1>3. PICK k \in D : \A j \in D : k <= j
  BY <1>1, <1>2, LeastNumber
<1>4. \A j \in 0 .. k - 1 : a[j] = b[j]
  BY <1>1, <1>3, DhtSearchAssumption
<1>5. a[k] \in {0, 1} /\ b[k] \in {0, 1} /\ ref[k] \in {0, 1} /\ a[k] # b[k]
  BY DEF NodeIds
<1>6. a[k] = ref[k] \/ b[k] = ref[k]
  BY <1>5
<1> QED
  BY <1>4, <1>5, <1>6 DEF Closer

LEMMA CloserTransitive ==
    ASSUME NEW a \in NodeIds, NEW b \in NodeIds, NEW c \in NodeIds, NEW ref \in NodeIds,
           Closer(a, b, ref), Closer(b, c, ref)
    PROVE  Closer(a, c, ref)
<1>1. PICK k \in 0 .. Bits - 1 :
        (\A j \in 0 .. k - 1 : a[j] = b[j]) /\ a[k] # b[k] /\ a[k] = ref[k]
  BY DEF Closer
<1>2. PICK i \in 0 .. Bits - 1 :
        (\A j \in 0 .. i - 1 : b[j] = c[j]) /\ b[i] # c[i] /\ b[i] = ref[i]
  BY DEF Closer
<1>3. k # i
  BY <1>1, <1>2
<1>4. CASE k < i
  <2>1. a[k] # c[k] /\ \A j \in 0 .. k - 1 : a[j] = c[j]
    BY <1>1, <1>2, <1>4, DhtSearchAssumption
  <2> QED
    BY <1>1, <2>1 DEF Closer
<1>5. CASE i < k
  <2>1. a[i] # c[i] /\ a[i] = ref[i] /\ \A j \in 0 .. i - 1 : a[j] = c[j]
    BY <1>1, <1>2, <1>5, DhtSearchAssumption
  <2> QED
    BY <2>1 DEF Closer
<1> QED
  BY <1>3, <1>4, <1>5, DhtSearchAssumption

---------------------------------------------------------------------------
(* A node more in a search. *)

(* t differs from s in its nodes at most. *)
Same(s, t) ==
    /\ t.tid = s.tid /\ t.target = s.target /\ t.announce = s.announce
    /\ t.done = s.done /\ t.step = s.step

LEMMA NodesFacts ==
    ASSUME NEW s \in SearchRecords, NEW q \in Seq(SearchNode)
    PROVE  LET t == [s EXCEPT !.nodes = q] IN t \in SearchRecords /\ t.nodes = q /\ Same(s, t)
<1>1. PICK X : X = Seq(SearchNode)
  OBVIOUS
<1>2. [s EXCEPT !.nodes = q].nodes = q
  BY DEF SearchRecords
<1>3. Same(s, [s EXCEPT !.nodes = q])
  BY DEF SearchRecords, Same
<1>4. [s EXCEPT !.nodes = q] \in SearchRecords
  BY <1>1 DEF SearchRecords
<1> QED
  BY <1>2, <1>3, <1>4

LEMMA PlaceFacts ==
    ASSUME NEW s, NEW id, Len(s.nodes) \in Nat
    PROVE  LET at == Place(s, id) IN
           /\ at \in 1 .. Len(s.nodes) + 1
           /\ at <= Len(s.nodes) => Closer(id, s.nodes[at].id, s.target)
           /\ \A j \in 1 .. Len(s.nodes) : j < at => ~Closer(id, s.nodes[j].id, s.target)
<1> DEFINE T == {Len(s.nodes) + 1} \cup Farther(s, id)
<1>1. Farther(s, id) \subseteq 1 .. Len(s.nodes)
  BY DEF Farther
<1>2. T \subseteq Nat /\ T # {}
  BY <1>1
<1>3. Min(T) \in T /\ \A y \in T : Min(T) <= y
  <2> HIDE DEF T
  <2> QED
    BY <1>2, MinFacts
<1>4. PICK at : at = Place(s, id)
  OBVIOUS
<1>5. at = Min(T)
  BY <1>4 DEF Place
<1>6. at \in T /\ \A y \in T : at <= y
  BY <1>3, <1>5
<1>7. at \in 1 .. Len(s.nodes) + 1
  BY <1>1, <1>6
<1>8. at <= Len(s.nodes) => Closer(id, s.nodes[at].id, s.target)
  BY <1>6, <1>7 DEF Farther
<1>9. ASSUME NEW j \in 1 .. Len(s.nodes), j < at
      PROVE  ~Closer(id, s.nodes[j].id, s.target)
  <2>1. j \in Farther(s, id) => at <= j
    BY <1>6
  <2>2. j \notin Farther(s, id)
    BY <1>7, <1>9, <2>1
  <2> QED
    BY <2>2 DEF Farther
<1> QED
  BY <1>4, <1>7, <1>8, <1>9

(* node has its place at at, and what was there moved on. *)
MadeRoom(q, X, nodes, at, node) ==
    /\ q \in Seq(X) /\ Len(q) <= SearchNodes /\ Len(q) <= Len(nodes) + 1
    /\ \A j \in 1 .. Len(q) :
         q[j] = IF j < at THEN nodes[j] ELSE IF j = at THEN node ELSE nodes[j - 1]

LEMMA ShiftedFacts ==
    ASSUME NEW X, NEW nodes \in Seq(X), NEW at \in 1 .. Len(nodes) + 1, NEW node \in X
    PROVE  MadeRoom(Shifted(nodes, at, node), X, nodes, at, node)
<1> DEFINE n == Min({Len(nodes) + 1, SearchNodes})
           V(j) == IF j < at THEN nodes[j] ELSE IF j = at THEN node ELSE nodes[j - 1]
<1>1. Len(nodes) \in Nat /\ SearchNodes \in Nat /\ Len(nodes) + 1 \in Nat
  BY DhtSearchAssumption
<1>2. n = IF Len(nodes) + 1 <= SearchNodes THEN Len(nodes) + 1 ELSE SearchNodes
  BY <1>1, MinPair
<1> HIDE DEF n
<1>3. n \in Nat /\ n <= SearchNodes /\ n <= Len(nodes) + 1
  BY <1>1, <1>2
<1>4. ASSUME NEW j \in 1 .. n
      PROVE  V(j) \in X
  BY <1>1, <1>3
<1>5. PICK q : q = Shifted(nodes, at, node)
  OBVIOUS
<1>6. q = [j \in 1 .. n |-> V(j)]
  BY <1>5 DEF Shifted, n
<1> HIDE DEF V
<1>7. q \in [1 .. n -> X] /\ \A j \in 1 .. n : q[j] = V(j)
  BY <1>4, <1>6
<1>8. q \in Seq(X) /\ Len(q) = n
  BY <1>3, <1>7, FunctionSeq
<1> QED
  BY <1>3, <1>5, <1>7, <1>8 DEF V, MadeRoom

LEMMA BlankFacts ==
    ASSUME NEW id \in Others, NEW h, NEW A, NEW S
    PROVE  Blank(id) \in SearchNode /\ Blank(id).id = id /\ Earned(Blank(id), h, A, S)
BY DhtSearchAssumption DEF Blank, SearchNode, Earned

(* A search takes a node in. *)
LEMMA InsertFacts ==
    ASSUME NEW s, NEW A, NEW S, Sound(s, A, S), NEW id \in Others
    PROVE  Sound(Insert(s, id), A, S) /\ Same(s, Insert(s, id))
<1>1. CASE id \in SearchIds(s)
  BY <1>1 DEF Insert, Same
<1>2. CASE id \notin SearchIds(s)
  <2>1. PICK nodes : nodes = s.nodes
    OBVIOUS
  <2>2. /\ nodes \in Seq(SearchNode) /\ Len(nodes) \in Nat /\ s \in SearchRecords
        /\ s.target \in Targets
    BY <2>1 DEF Sound, SearchRecords
  <2>3. \A j \in 1 .. Len(nodes) : nodes[j] \in SearchNode /\ nodes[j].id \in Others
    <3>1. \A j \in 1 .. Len(nodes) : nodes[j] \in SearchNode
      BY <2>2
    <3> QED
      BY <3>1 DEF SearchNode
  <2>4. PICK at : at = Place(s, id)
    OBVIOUS
  <2>5. /\ at \in 1 .. Len(nodes) + 1
        /\ at <= Len(nodes) => Closer(id, nodes[at].id, s.target)
        /\ \A j \in 1 .. Len(nodes) : j < at => ~Closer(id, nodes[j].id, s.target)
    BY <2>1, <2>2, <2>4, PlaceFacts
  <2>6. PICK node : node = Blank(id)
    OBVIOUS
  <2>7. node \in SearchNode /\ node.id = id /\ Earned(node, s.target, A, S)
    BY <2>6, BlankFacts
  <2>8. PICK q : q = Shifted(nodes, at, node)
    OBVIOUS
  <2>9. /\ q \in Seq(SearchNode) /\ Len(q) <= SearchNodes /\ Len(q) <= Len(nodes) + 1
        /\ \A j \in 1 .. Len(q) :
             q[j] = IF j < at THEN nodes[j] ELSE IF j = at THEN node ELSE nodes[j - 1]
    <3>1. MadeRoom(q, SearchNode, nodes, at, node)
      BY <2>2, <2>5, <2>7, <2>8, ShiftedFacts
    <3> QED
      BY <3>1 DEF MadeRoom
  <2>10. Len(q) \in Nat
    BY <2>9
  <2>11. \A j \in 1 .. Len(nodes) : nodes[j].id # id
    BY <1>2, <2>1, <2>2 DEF SearchIds, Range
  <2>12. PICK t : t = Insert(s, id)
    OBVIOUS
  <2>13. t = [s EXCEPT !.nodes = q]
    BY <1>2, <2>1, <2>4, <2>6, <2>8, <2>12 DEF Insert
  <2>14. t \in SearchRecords /\ t.nodes = q /\ Same(s, t)
    BY <2>2, <2>9, <2>13, NodesFacts
  <2>15. s.target \in NodeIds /\ id \in NodeIds /\ \A j \in 1 .. Len(nodes) : nodes[j].id \in NodeIds
    BY <2>2, <2>3, DhtSearchAssumption
  <2>16. \A i, j \in 1 .. Len(nodes) : i < j => Closer(nodes[i].id, nodes[j].id, s.target)
    BY <2>1 DEF Sound, Sorted
  \* The nodes in front of it are closer to the target, ...
  <2>17. ASSUME NEW j \in 1 .. Len(nodes), j < at
         PROVE  Closer(nodes[j].id, id, s.target)
    BY <2>5, <2>11, <2>15, <2>17, CloserTotal
  \* ... and those behind it are not.
  <2>18. ASSUME NEW j \in 1 .. Len(nodes), at <= j
         PROVE  Closer(id, nodes[j].id, s.target)
    <3>1. at \in 1 .. Len(nodes) /\ Closer(id, nodes[at].id, s.target)
      BY <2>2, <2>5, <2>18
    <3>2. CASE at = j
      BY <3>1, <3>2
    <3>3. CASE at < j
      <4>1. Closer(nodes[at].id, nodes[j].id, s.target)
        BY <2>16, <3>1, <3>3
      <4> QED
        BY <2>15, <3>1, <4>1, CloserTransitive
    <3> QED
      BY <2>5, <2>18, <3>2, <3>3
  <2>19. ASSUME NEW i \in 1 .. Len(q), NEW j \in 1 .. Len(q), i < j
         PROVE  Closer(q[i].id, q[j].id, s.target)
    <3>1. CASE j < at
      <4>1. i \in 1 .. Len(nodes) /\ j \in 1 .. Len(nodes) /\ q[i] = nodes[i] /\ q[j] = nodes[j]
        BY <2>2, <2>5, <2>9, <2>10, <2>19, <3>1
      <4> QED
        BY <2>16, <2>19, <4>1
    <3>2. CASE j = at
      <4>1. i \in 1 .. Len(nodes) /\ q[i] = nodes[i] /\ q[j].id = id /\ i < at
        BY <2>2, <2>5, <2>7, <2>9, <2>10, <2>19, <3>2
      <4> QED
        BY <2>17, <4>1
    <3>3. CASE j > at
      <4>1. j - 1 \in 1 .. Len(nodes) /\ q[j] = nodes[j - 1] /\ at <= j - 1
        BY <2>2, <2>5, <2>9, <2>10, <2>19, <3>3
      <4>2. CASE i < at
        <5>1. i \in 1 .. Len(nodes) /\ q[i] = nodes[i] /\ i < j - 1
          BY <2>2, <2>5, <2>9, <2>10, <2>19, <4>1, <4>2
        <5> QED
          BY <2>16, <4>1, <5>1
      <4>3. CASE i = at
        <5>1. q[i].id = id
          BY <2>7, <2>9, <4>3
        <5> QED
          BY <2>18, <4>1, <5>1
      <4>4. CASE i > at
        <5>1. i - 1 \in 1 .. Len(nodes) /\ q[i] = nodes[i - 1] /\ i - 1 < j - 1
          BY <2>2, <2>5, <2>9, <2>10, <2>19, <4>4
        <5> QED
          BY <2>16, <4>1, <5>1
      <4> QED
        BY <2>5, <4>2, <4>3, <4>4
    <3> QED
      BY <2>5, <3>1, <3>2, <3>3
  <2>20. ASSUME NEW j \in 1 .. Len(q)
         PROVE  Earned(q[j], s.target, A, S)
    <3>1. \A i \in 1 .. Len(nodes) : Earned(nodes[i], s.target, A, S)
      BY <2>1 DEF Sound
    <3>2. CASE j < at
      <4>1. j \in 1 .. Len(nodes) /\ q[j] = nodes[j]
        BY <2>2, <2>5, <2>9, <2>10, <3>2
      <4> QED
        BY <3>1, <4>1
    <3>3. CASE j = at
      BY <2>7, <2>9, <3>3
    <3>4. CASE j > at
      <4>1. j - 1 \in 1 .. Len(nodes) /\ q[j] = nodes[j - 1]
        BY <2>2, <2>5, <2>9, <2>10, <3>4
      <4> QED
        BY <3>1, <4>1
    <3> QED
      BY <2>5, <3>2, <3>3, <3>4
  <2>21. t.target = s.target
    BY <2>14 DEF Same
  <2>22. Sorted(t.nodes, t.target)
    BY <2>14, <2>19, <2>21 DEF Sorted
  <2>23. Sound(t, A, S)
    BY <2>9, <2>14, <2>20, <2>21, <2>22 DEF Sound
  <2> QED
    BY <2>12, <2>14, <2>23
<1> QED
  BY <1>1, <1>2

InsertTurn(s, ids, f, j) == IF j = 0 THEN s ELSE Insert(f[j - 1], ids[j])

(* A search takes some nodes in, one after the other. *)
LEMMA InsertAllFacts ==
    ASSUME NEW s, NEW A, NEW S, Sound(s, A, S), NEW ids \in Seq(Others)
    PROVE  Sound(InsertAll(s, ids), A, S) /\ Same(s, InsertAll(s, ids))
<1> DEFINE X == {x \in SearchRecords : Sound(x, A, S) /\ Same(s, x)}
           All(f) == [j \in 0 .. Len(ids) |-> InsertTurn(s, ids, f, j)]
           h == [j \in 1 .. Len(ids) |-> [x \in X |-> Insert(x, ids[j])]]
<1>1. Len(ids) \in Nat /\ \A j \in 1 .. Len(ids) : ids[j] \in Others
  OBVIOUS
<1>2. s \in X
  BY DEF Sound, Same
<1>3. ASSUME NEW j \in 1 .. Len(ids), NEW x \in X
      PROVE  Insert(x, ids[j]) \in X
  <2>1. PICK t : t = Insert(x, ids[j])
    OBVIOUS
  <2>2. Sound(t, A, S) /\ Same(x, t)
    BY <1>1, <2>1, InsertFacts
  <2>3. t \in SearchRecords
    BY <2>2 DEF Sound
  <2>4. Same(s, t)
    BY <2>2 DEF Same
  <2> QED
    BY <2>1, <2>2, <2>3, <2>4
<1> HIDE DEF X
<1>4. h \in [1 .. Len(ids) -> [X -> X]]
  BY <1>3
<1>5. \A j \in 1 .. Len(ids), x \in X : h[j][x] = Insert(x, ids[j])
  OBVIOUS
<1> HIDE DEF h
<1>6. PICK f : Iterates(f, Len(ids), X, s, h)
  BY <1>1, <1>2, <1>4, Recursion
<1>7. ASSUME NEW j \in 0 .. Len(ids)
      PROVE  f[j] = InsertTurn(s, ids, f, j)
  <2>1. CASE j = 0
    BY <1>6, <2>1 DEF InsertTurn, Iterates
  <2>2. CASE j # 0
    <3>1. j \in 1 .. Len(ids) /\ f[j - 1] \in X
      BY <1>6, <2>2 DEF Iterates
    <3>2. f[j] = Insert(f[j - 1], ids[j])
      BY <1>5, <1>6, <3>1 DEF Iterates
    <3> QED
      BY <2>2, <3>2 DEF InsertTurn
  <2> QED
    BY <2>1, <2>2
<1>8. f = All(f)
  BY <1>6, <1>7 DEF Iterates
<1> DEFINE F == InsertTo(s, ids)
<1>9. F = CHOOSE g : g = All(g)
  BY DEF InsertTo, InsertTurn
<1> HIDE DEF All, F
<1>10. F = All(F)
  BY <1>8, <1>9, Zenon
<1>11. \A j \in 0 .. Len(ids) : F[j] = InsertTurn(s, ids, F, j)
  BY <1>10 DEF All
<1> DEFINE Good == {j \in 0 .. Len(ids) : F[j] \in X}
<1>12. 0 \in Good
  BY <1>1, <1>2, <1>11 DEF InsertTurn
<1>13. ASSUME NEW j \in 1 .. Len(ids), j - 1 \in Good
       PROVE  j \in Good
  <2>1. F[j] = Insert(F[j - 1], ids[j])
    BY <1>1, <1>11 DEF InsertTurn
  <2> QED
    BY <1>3, <1>13, <2>1
<1>14. \A j \in 0 .. Len(ids) : j \in Good
  <2> HIDE DEF Good
  <2> QED
    BY <1>1, <1>12, <1>13, UpTo
<1>15. F[Len(ids)] \in X
  BY <1>1, <1>14
<1> QED
  BY <1>15 DEF X, F, InsertAll

(* A search of which every node is changed, but none moved: what is asked   *)
(* of the new nodes q.                                                      *)
LEMMA ChangedFacts ==
    ASSUME NEW s, NEW A, NEW S, Sound(s, A, S), NEW q \in [1 .. Len(s.nodes) -> SearchNode],
           \A j \in 1 .. Len(s.nodes) : q[j].id = s.nodes[j].id /\ Earned(q[j], s.target, A, S),
           NEW t, t = [s EXCEPT !.nodes = q]
    PROVE  Sound(t, A, S) /\ Same(s, t) /\ t.nodes = q /\ Len(q) = Len(s.nodes)
<1>1. s \in SearchRecords /\ Len(s.nodes) \in Nat
  BY DEF Sound, SearchRecords
<1>2. q \in Seq(SearchNode) /\ Len(q) = Len(s.nodes)
  BY <1>1, FunctionSeq
<1>3. t \in SearchRecords /\ t.nodes = q /\ Same(s, t)
  BY <1>1, <1>2, NodesFacts
<1>4. t.target = s.target
  BY <1>3 DEF Same
<1>5. Sorted(t.nodes, t.target)
  BY <1>2, <1>3, <1>4 DEF Sound, Sorted
<1>6. Len(t.nodes) <= SearchNodes /\ \A j \in 1 .. Len(t.nodes) : Earned(t.nodes[j], t.target, A, S)
  BY <1>2, <1>3, <1>4 DEF Sound
<1> QED
  BY <1>2, <1>3, <1>5, <1>6 DEF Sound

LEMMA NodeOf ==
    ASSUME NEW s, NEW A, NEW S, Sound(s, A, S)
    PROVE  /\ s \in SearchRecords /\ s.nodes \in Seq(SearchNode) /\ Len(s.nodes) \in Nat
           /\ \A j \in 1 .. Len(s.nodes) : s.nodes[j] \in SearchNode /\ Earned(s.nodes[j], s.target, A, S)
           /\ s.target \in Targets /\ s.tid \in Tids
<1>1. s \in SearchRecords /\ \A j \in 1 .. Len(s.nodes) : Earned(s.nodes[j], s.target, A, S)
  BY DEF Sound
<1>2. s.nodes \in Seq(SearchNode) /\ s.target \in Targets /\ s.tid \in Tids
  BY <1>1 DEF SearchRecords
<1>3. Len(s.nodes) \in Nat /\ \A j \in 1 .. Len(s.nodes) : s.nodes[j] \in SearchNode
  BY <1>2
<1> QED
  BY <1>1, <1>2, <1>3

(* A node replied. *)
LEMMA RepliedFacts ==
    ASSUME NEW s, NEW A, NEW S, Sound(s, A, S), NEW id \in Others, NEW token \in SearchTokens,
           IF id \in Broken THEN token = NoToken ELSE token # NoToken /\ token \in 1 .. S[id][1]
    PROVE  Sound(InsertReplied(s, id, token), A, S) /\ Same(s, InsertReplied(s, id, token))
<1> DEFINE Heard(n) == IF n.id # id THEN n
                       ELSE [n EXCEPT !.replied = TRUE, !.lately = TRUE, !.justAsked = FALSE,
                                      !.pinged = 0, !.token = token]
<1>1. PICK t : t = Insert(s, id)
  OBVIOUS
<1>2. Sound(t, A, S) /\ Same(s, t)
  BY <1>1, InsertFacts
<1>3. PICK q : q = [j \in 1 .. Len(t.nodes) |-> Heard(t.nodes[j])]
  OBVIOUS
<1>4. ASSUME NEW j \in 1 .. Len(t.nodes)
      PROVE  /\ Heard(t.nodes[j]) \in SearchNode /\ Heard(t.nodes[j]).id = t.nodes[j].id
             /\ Earned(Heard(t.nodes[j]), t.target, A, S)
  <2>1. PICK n : n = t.nodes[j]
    OBVIOUS
  <2>2. n \in SearchNode /\ Earned(n, t.target, A, S)
    BY <1>2, <2>1, NodeOf
  <2>3. CASE n.id # id
    BY <2>1, <2>2, <2>3
  <2>4. CASE n.id = id
    <3>1. PICK r : r = [n EXCEPT !.replied = TRUE, !.lately = TRUE, !.justAsked = FALSE,
                                 !.pinged = 0, !.token = token]
      OBVIOUS
    <3>2. r \in SearchNode
      <4>1. PICK T : T = SearchTokens
        OBVIOUS
      <4>2. SearchNode = [id : Others, pinged : 0 .. 3, replied : BOOLEAN, acked : BOOLEAN,
                          token : T, justAsked : BOOLEAN, lately : BOOLEAN]
        BY <4>1 DEF SearchNode, SearchTokens
      <4>3. token \in T
        BY <4>1
      <4>4. n.id \in Others /\ n.acked \in BOOLEAN
        BY <2>2, <4>2
      <4>5. r = [id |-> n.id, pinged |-> 0, replied |-> TRUE, acked |-> n.acked, token |-> token,
                 justAsked |-> FALSE, lately |-> TRUE]
        BY <2>2, <3>1, <4>2
      <4> QED
        BY <4>2, <4>3, <4>4, <4>5
    <3>3. r.id = n.id /\ r.acked = n.acked /\ r.token = token /\ r.replied = TRUE
      BY <2>2, <3>1 DEF SearchNode
    <3>4. Earned(r, t.target, A, S)
      BY <2>2, <2>4, <3>3 DEF Earned
    <3> QED
      BY <2>1, <2>4, <3>1, <3>2, <3>3, <3>4
  <2> QED
    BY <2>3, <2>4
<1> HIDE DEF Heard
<1>5. q \in [1 .. Len(t.nodes) -> SearchNode]
      /\ \A j \in 1 .. Len(t.nodes) : q[j].id = t.nodes[j].id /\ Earned(q[j], t.target, A, S)
  BY <1>3, <1>4
<1>6. [t EXCEPT !.nodes = q] = [s EXCEPT !.nodes = q]
  <2>1. CASE id \in SearchIds(s)
    BY <1>1, <2>1 DEF Insert
  <2>2. CASE id \notin SearchIds(s)
    <3>1. PICK p : p = Shifted(s.nodes, Place(s, id), Blank(id))
      OBVIOUS
    <3>2. t = [s EXCEPT !.nodes = p]
      BY <1>1, <2>2, <3>1 DEF Insert
    <3>3. s \in SearchRecords
      BY NodeOf
    <3> QED
      BY <3>2, <3>3 DEF SearchRecords
  <2> QED
    BY <2>1, <2>2
<1>7. PICK r : r = [s EXCEPT !.nodes = q]
  OBVIOUS
<1>8. Sound(r, A, S) /\ Same(t, r)
  BY <1>2, <1>5, <1>6, <1>7, ChangedFacts
<1>9. InsertReplied(s, id, token) = r
  BY <1>1, <1>3, <1>7 DEF InsertReplied, Each, Heard
<1>10. Same(s, r)
  BY <1>2, <1>8 DEF Same
<1> QED
  BY <1>8, <1>9, <1>10

(* A search some nodes of which are taken out. *)
LEMMA SiftedFacts ==
    ASSUME NEW s, NEW A, NEW S, Sound(s, A, S), NEW I,
           NEW t, t = [s EXCEPT !.nodes = Sift(s.nodes, I)]
    PROVE  Sound(t, A, S) /\ Same(s, t)
<1>1. /\ s \in SearchRecords /\ s.nodes \in Seq(SearchNode) /\ Len(s.nodes) \in Nat
      /\ \A j \in 1 .. Len(s.nodes) : Earned(s.nodes[j], s.target, A, S)
  BY NodeOf
<1>2. PICK q : q = Sift(s.nodes, I)
  OBVIOUS
<1>3. PICK n \in 0 .. Len(s.nodes) : \E g \in [1 .. n -> I \cap (1 .. Len(s.nodes))] :
             /\ q \in Seq(SearchNode) /\ Len(q) = n
             /\ \A i \in 1 .. n : q[i] = s.nodes[g[i]]
             /\ \A i, k \in 1 .. n : i < k => g[i] < g[k]
  <2>1. Picked(q, SearchNode, s.nodes, I)
    BY <1>1, <1>2, SiftFacts
  <2> QED
    BY <2>1 DEF Picked
<1>4. PICK g \in [1 .. n -> I \cap (1 .. Len(s.nodes))] :
             /\ q \in Seq(SearchNode) /\ Len(q) = n
             /\ \A i \in 1 .. n : q[i] = s.nodes[g[i]]
             /\ \A i, k \in 1 .. n : i < k => g[i] < g[k]
  BY <1>3
<1>5. \A i \in 1 .. n : g[i] \in 1 .. Len(s.nodes)
  OBVIOUS
<1>6. t \in SearchRecords /\ t.nodes = q /\ Same(s, t)
  BY <1>1, <1>2, <1>4, NodesFacts
<1>7. t.target = s.target
  BY <1>6 DEF Same
<1>8. Sorted(s.nodes, s.target) /\ Len(s.nodes) <= SearchNodes
  BY DEF Sound
<1>9. Sorted(q, t.target)
  BY <1>4, <1>5, <1>7, <1>8 DEF Sorted
<1>10. Len(q) <= SearchNodes
  BY <1>1, <1>4, <1>8, DhtSearchAssumption
<1>11. \A j \in 1 .. Len(q) : Earned(q[j], t.target, A, S)
  BY <1>1, <1>4, <1>5, <1>7
<1> QED
  BY <1>6, <1>9, <1>10, <1>11 DEF Sound

LEMMA FlushFacts ==
    ASSUME NEW s, NEW A, NEW S, Sound(s, A, S), NEW id
    PROVE  Sound(Flush(s, id), A, S) /\ Same(s, Flush(s, id))
BY SiftedFacts DEF Flush

(* A search is done, or goes on, or is asked to announce. *)
Marked(s, done, step, announce) == [s EXCEPT !.done = done, !.step = step, !.announce = announce]

IsMarked(t, s, done, step, announce) ==
    /\ t.tid = s.tid /\ t.target = s.target /\ t.nodes = s.nodes
    /\ t.announce = announce /\ t.done = done /\ t.step = step

LEMMA MarkedFacts ==
    ASSUME NEW s, NEW A, NEW S, Sound(s, A, S), NEW done \in BOOLEAN, NEW step \in 0 .. 2,
           NEW announce \in BOOLEAN
    PROVE  /\ Sound(Marked(s, done, step, announce), A, S)
           /\ IsMarked(Marked(s, done, step, announce), s, done, step, announce)
<1>0. PICK t : t = Marked(s, done, step, announce)
  OBVIOUS
<1>1. s \in SearchRecords
  BY DEF Sound
<1>2. /\ t.tid = s.tid /\ t.target = s.target /\ t.nodes = s.nodes /\ t.announce = announce
      /\ t.done = done /\ t.step = step
  BY <1>0, <1>1 DEF SearchRecords, Marked
<1>3. t \in SearchRecords
  <2>1. PICK X : X = Seq(SearchNode)
    OBVIOUS
  <2> QED
    BY <1>0, <1>1, <2>1 DEF SearchRecords, Marked
<1> QED
  BY <1>0, <1>2, <1>3 DEF Sound, IsMarked

(* A search is taken up again. *)
LEMMA RenewedFacts ==
    ASSUME NEW s, NEW A, NEW S, Sound(s, A, S)
    PROVE  LET t == Renewed(s) IN
           /\ Sound(t, A, S) /\ t.tid = s.tid /\ t.target = s.target
           /\ t.done = FALSE /\ t.announce = s.announce /\ t.step = s.step
<1> DEFINE kept == {j \in 1 .. Len(s.nodes) : s.nodes[j].pinged < 3 /\ s.nodes[j].lately}
           Reset(n) == [n EXCEPT !.pinged = 0, !.token = NoToken, !.replied = FALSE, !.acked = FALSE]
<1> HIDE DEF kept
<1>1. PICK u : u = [s EXCEPT !.nodes = Sift(s.nodes, kept)]
  OBVIOUS
<1>2. Sound(u, A, S) /\ Same(s, u)
  BY <1>1, SiftedFacts
<1>3. s \in SearchRecords
  BY DEF Sound
<1>4. u.nodes = Sift(s.nodes, kept)
  BY <1>1, <1>3 DEF SearchRecords
<1>5. PICK q : q = [j \in 1 .. Len(u.nodes) |-> Reset(u.nodes[j])]
  OBVIOUS
<1>6. ASSUME NEW j \in 1 .. Len(u.nodes)
      PROVE  /\ Reset(u.nodes[j]) \in SearchNode /\ Reset(u.nodes[j]).id = u.nodes[j].id
             /\ Earned(Reset(u.nodes[j]), u.target, A, S)
  <2>1. PICK n : n = u.nodes[j]
    OBVIOUS
  <2>2. n \in SearchNode
    BY <1>2, <2>1, NodeOf
  <2>3. PICK r : r = Reset(n)
    OBVIOUS
  <2>4. /\ n.id \in Others /\ n.justAsked \in BOOLEAN /\ n.lately \in BOOLEAN
        /\ r = [id |-> n.id, pinged |-> 0, replied |-> FALSE, acked |-> FALSE, token |-> NoToken,
                justAsked |-> n.justAsked, lately |-> n.lately]
    BY <2>2, <2>3 DEF SearchNode
  <2>5. r \in SearchNode /\ r.id = n.id /\ ~r.acked /\ r.token = NoToken /\ ~r.replied
    BY <2>4 DEF SearchNode
  <2>6. Earned(r, u.target, A, S)
    BY <2>5 DEF Earned
  <2> QED
    BY <2>1, <2>3, <2>5, <2>6
<1> HIDE DEF Reset
<1>7. q \in [1 .. Len(u.nodes) -> SearchNode]
      /\ \A j \in 1 .. Len(u.nodes) : q[j].id = u.nodes[j].id /\ Earned(q[j], u.target, A, S)
  BY <1>5, <1>6
<1>8. PICK v : v = [u EXCEPT !.nodes = q]
  OBVIOUS
<1>9. Sound(v, A, S) /\ Same(u, v) /\ v.nodes = q
  BY <1>2, <1>7, <1>8, ChangedFacts
<1>10. Same(s, v)
  BY <1>2, <1>9 DEF Same
<1>11. v = [s EXCEPT !.nodes = q]
  BY <1>1, <1>3, <1>8 DEF SearchRecords
<1>12. v.announce \in BOOLEAN /\ v.step \in 0 .. 2
  BY <1>9 DEF Sound, SearchRecords
<1>13. PICK t : t = Marked(v, FALSE, v.step, v.announce)
  OBVIOUS
<1>14. /\ Sound(t, A, S) /\ t.tid = v.tid /\ t.target = v.target /\ t.nodes = v.nodes
       /\ t.announce = v.announce /\ t.done = FALSE /\ t.step = v.step
  <2>1. PICK d \in BOOLEAN : d = FALSE
    OBVIOUS
  <2>2. PICK st \in 0 .. 2 : st = v.step
    BY <1>12
  <2>3. PICK an \in BOOLEAN : an = v.announce
    BY <1>12
  <2>4. PICK x : x = Marked(v, d, st, an)
    OBVIOUS
  <2>5. Sound(x, A, S) /\ IsMarked(x, v, d, st, an)
    BY <1>9, <2>4, MarkedFacts, Zenon
  <2>6. x = t
    BY <1>13, <2>1, <2>2, <2>3, <2>4
  <2> QED
    BY <2>1, <2>2, <2>3, <2>5, <2>6 DEF IsMarked
<1>15. t = [s EXCEPT !.done = FALSE, !.nodes = q]
  BY <1>3, <1>11, <1>13 DEF SearchRecords, Marked
<1>16. q = Each(Reset, Sift(s.nodes, kept))
  BY <1>4, <1>5 DEF Each
<1>17. t = Renewed(s)
  BY <1>15, <1>16 DEF Renewed, Reset, kept
<1> QED
  BY <1>10, <1>14, <1>17 DEF Same

---------------------------------------------------------------------------
(* Requests. *)

(* What a search sends. *)
Sends(s, out, A, S) ==
    \A m \in out : Genuine(m, A, S) /\ m.tid = s.tid /\ m.target = s.target

(* t is s after a request to the nodes I. *)
AskedNodes(s, t, I) ==
    /\ Same(s, t) /\ Len(t.nodes) = Len(s.nodes)
    /\ \A j \in 1 .. Len(s.nodes) :
         /\ j \notin I => t.nodes[j] = s.nodes[j]
         /\ t.nodes[j].replied = s.nodes[j].replied /\ t.nodes[j].acked = s.nodes[j].acked

LEMMA RequestedNode ==
    ASSUME NEW n \in SearchNode, n.pinged < 3
    PROVE  LET r == [n EXCEPT !.pinged = n.pinged + 1, !.justAsked = TRUE] IN
           /\ r \in SearchNode /\ r.id = n.id /\ r.replied = n.replied
           /\ r.acked = n.acked /\ r.token = n.token
<1>1. /\ n.id \in Others /\ n.pinged + 1 \in 0 .. 3 /\ n.replied \in BOOLEAN /\ n.acked \in BOOLEAN
      /\ n.token \in SearchTokens /\ n.lately \in BOOLEAN
  BY DEF SearchNode, SearchTokens
<1>2. PICK p \in 0 .. 3 : p = n.pinged + 1
  BY <1>1
<1>3. PICK r : r = [n EXCEPT !.pinged = p, !.justAsked = TRUE]
  OBVIOUS
<1>4. r = [id |-> n.id, pinged |-> p, replied |-> n.replied, acked |-> n.acked,
           token |-> n.token, justAsked |-> TRUE, lately |-> n.lately]
  BY <1>3 DEF SearchNode
<1>5. SearchNode = [id : Others, pinged : 0 .. 3, replied : BOOLEAN, acked : BOOLEAN,
                    token : SearchTokens, justAsked : BOOLEAN, lately : BOOLEAN]
  BY DEF SearchNode, SearchTokens
<1>6. r \in SearchNode
  BY <1>1, <1>4, <1>5
<1>7. r.id = n.id /\ r.replied = n.replied /\ r.acked = n.acked /\ r.token = n.token
  BY <1>4
<1> QED
  BY <1>2, <1>3, <1>6, <1>7

LEMMA AskFacts ==
    ASSUME NEW s, NEW A, NEW S, Sound(s, A, S),
           NEW I, I \subseteq {j \in 1 .. Len(s.nodes) : s.nodes[j].pinged < 3},
           NEW type \in {"get_peers", "announce_peer"},
           type = "announce_peer" => \A j \in I : s.nodes[j].token # NoToken
    PROVE  /\ Sound(AskNodes(s, I, type).s, A, S) /\ AskedNodes(s, AskNodes(s, I, type).s, I)
           /\ Sends(s, AskNodes(s, I, type).out, A, S)
<1> DEFINE N(n) == [n EXCEPT !.pinged = n.pinged + 1, !.justAsked = TRUE]
           M(j) == [type |-> type, peer |-> s.nodes[j].id, tid |-> s.tid, target |-> s.target,
                    token |-> s.nodes[j].token]
<1>1. /\ s \in SearchRecords /\ s.nodes \in Seq(SearchNode) /\ Len(s.nodes) \in Nat
      /\ \A j \in 1 .. Len(s.nodes) : s.nodes[j] \in SearchNode /\ Earned(s.nodes[j], s.target, A, S)
      /\ s.target \in Targets /\ s.tid \in Tids
  BY NodeOf
<1>2. ASSUME NEW j \in I
      PROVE  j \in 1 .. Len(s.nodes) /\ s.nodes[j].pinged < 3
  OBVIOUS
<1>3. PICK q : q = [j \in 1 .. Len(s.nodes) |-> IF j \in I THEN N(s.nodes[j]) ELSE s.nodes[j]]
  OBVIOUS
<1>4. PICK t : t = [s EXCEPT !.nodes = q]
  OBVIOUS
<1>5. AskNodes(s, I, type) = [s |-> t, out |-> {M(j) : j \in I}]
  BY <1>3, <1>4 DEF AskNodes
<1>6. ASSUME NEW n \in SearchNode, n.pinged < 3
      PROVE  /\ N(n) \in SearchNode /\ N(n).id = n.id /\ N(n).replied = n.replied
             /\ N(n).acked = n.acked /\ N(n).token = n.token
  BY <1>6, RequestedNode
<1> HIDE DEF N, M
<1>7. ASSUME NEW j \in 1 .. Len(s.nodes)
      PROVE  /\ q[j] \in SearchNode /\ q[j].id = s.nodes[j].id /\ q[j].replied = s.nodes[j].replied
             /\ q[j].acked = s.nodes[j].acked /\ q[j].token = s.nodes[j].token
             /\ j \notin I => q[j] = s.nodes[j]
  <2>1. CASE j \in I
    <3>1. q[j] = N(s.nodes[j])
      BY <1>3, <2>1
    <3> QED
      BY <1>1, <1>2, <1>6, <2>1, <3>1
  <2>2. CASE j \notin I
    <3>1. q[j] = s.nodes[j]
      BY <1>3, <2>2
    <3> QED
      BY <1>1, <2>2, <3>1
  <2> QED
    BY <2>1, <2>2
<1>8. q \in [1 .. Len(s.nodes) -> SearchNode]
  BY <1>3, <1>7
<1>9. \A j \in 1 .. Len(s.nodes) : q[j].id = s.nodes[j].id /\ Earned(q[j], s.target, A, S)
  BY <1>1, <1>7 DEF Earned
<1>10. Sound(t, A, S) /\ Same(s, t) /\ t.nodes = q /\ Len(q) = Len(s.nodes)
  BY <1>4, <1>8, <1>9, ChangedFacts
<1>11. AskedNodes(s, t, I)
  BY <1>7, <1>10 DEF AskedNodes
<1>12. ASSUME NEW j \in I
       PROVE  Genuine(M(j), A, S) /\ M(j).tid = s.tid /\ M(j).target = s.target
  <2>1. PICK m : m = M(j)
    OBVIOUS
  <2>2. /\ m = [type |-> type, peer |-> s.nodes[j].id, tid |-> s.tid, target |-> s.target,
                token |-> s.nodes[j].token]
    BY <2>1 DEF M
  <2>3. PICK n \in SearchNode : n = s.nodes[j] /\ Earned(n, s.target, A, S)
    BY <1>1, <1>2
  <2>4. n.id \in Others /\ n.token \in SearchTokens
    BY DEF SearchNode, SearchTokens
  <2>5. m \in Packets
    BY <1>1, <2>2, <2>3, <2>4 DEF Packets
  <2>6. m.type = type /\ m.tid = s.tid /\ m.target = s.target /\ m.peer = n.id /\ m.token = n.token
    BY <2>2, <2>3
  <2>7. type = "announce_peer" => n.token # NoToken
    BY <2>3
  <2>8. n.token # NoToken => n.token \in 1 .. S[n.id][1]
    BY <2>3 DEF Earned
  <2>9. Genuine(m, A, S)
    BY <2>5, <2>6, <2>7, <2>8 DEF Genuine
  <2> QED
    BY <2>1, <2>6, <2>9
<1>13. Sends(s, {M(j) : j \in I}, A, S)
  BY <1>12 DEF Sends
<1>14. AskNodes(s, I, type).s = t /\ AskNodes(s, I, type).out = {M(j) : j \in I}
  BY <1>5
<1> QED
  BY <1>10, <1>11, <1>13, <1>14

LEMMA AskLastFacts ==
    ASSUME NEW s, NEW A, NEW S, Sound(s, A, S)
    PROVE  /\ Sound(AskLast(s).s, A, S) /\ Same(s, AskLast(s).s)
           /\ Sends(s, AskLast(s).out, A, S)
<1>1. Len(s.nodes) \in Nat
  BY NodeOf
<1>2. PICK I : I = IF Askable(s) = {} THEN {} ELSE {Max(Askable(s))}
  OBVIOUS
<1>3. Askable(s) \subseteq {j \in 1 .. Len(s.nodes) : s.nodes[j].pinged < 3}
  BY DEF Askable
<1>4. I \subseteq Askable(s)
  <2>1. CASE Askable(s) = {}
    BY <1>2, <2>1
  <2>2. CASE Askable(s) # {}
    <3>1. Askable(s) \subseteq 1 .. Len(s.nodes)
      BY DEF Askable
    <3>2. Max(Askable(s)) \in Askable(s)
      BY <1>1, <2>2, <3>1, MaxFacts
    <3> QED
      BY <1>2, <2>2, <3>2
  <2> QED
    BY <2>1, <2>2
<1>5. I \subseteq {j \in 1 .. Len(s.nodes) : s.nodes[j].pinged < 3}
  BY <1>3, <1>4
<1>6. AskLast(s) = AskNodes(s, I, "get_peers")
  BY <1>2 DEF AskLast
<1>7. /\ Sound(AskNodes(s, I, "get_peers").s, A, S) /\ AskedNodes(s, AskNodes(s, I, "get_peers").s, I)
      /\ Sends(s, AskNodes(s, I, "get_peers").out, A, S)
  BY <1>5, AskFacts
<1> QED
  BY <1>6, <1>7 DEF AskedNodes

(* A search that is done has all it asked for from the nearest nodes. *)
Complete(s) == \A j \in Live(s) : s.nodes[j].replied /\ (s.announce => s.nodes[j].acked)

(* What a step of search s may make of it. *)
StepOf(s, r, A, S) ==
    /\ Sound(r.s, A, S) /\ r.s.tid = s.tid /\ r.s.target = s.target
    /\ Sends(s, r.out, A, S)
    /\ r.s.done => s.done \/ Complete(r.s)

LEMMA LiveFacts ==
    ASSUME NEW s
    PROVE  Live(s) \subseteq {j \in 1 .. Len(s.nodes) : s.nodes[j].pinged < 3}
BY DEF Live, First

LEMMA LiveSame ==
    ASSUME NEW s, NEW t, Len(t.nodes) = Len(s.nodes),
           \A j \in 1 .. Len(s.nodes) : t.nodes[j].pinged = s.nodes[j].pinged
    PROVE  Live(t) = Live(s)
<1>1. {j \in 1 .. Len(t.nodes) : t.nodes[j].pinged < 3} = {j \in 1 .. Len(s.nodes) : s.nodes[j].pinged < 3}
  OBVIOUS
<1> QED
  BY <1>1 DEF Live

LEMMA Unstepped ==
    ASSUME NEW s, s \in SearchRecords
    PROVE  /\ [s EXCEPT !.step = 0] = Marked(s, s.done, 0, s.announce)
           /\ [s EXCEPT !.done = TRUE, !.step = 0] = Marked(s, TRUE, 0, s.announce)
BY DEF Marked, SearchRecords

(* A search is done. *)
LEMMA DoneFacts ==
    ASSUME NEW s, NEW A, NEW S, Sound(s, A, S), Complete(s)
    PROVE  StepOf(s, [s |-> [s EXCEPT !.done = TRUE, !.step = 0], out |-> {}], A, S)
<1>1. s \in SearchRecords /\ s.announce \in BOOLEAN
  BY DEF Sound, SearchRecords
<1>2. PICK d \in BOOLEAN : d = TRUE
  OBVIOUS
<1>3. PICK an \in BOOLEAN : an = s.announce
  BY <1>1
<1>4. PICK t : t = Marked(s, d, 0, an)
  OBVIOUS
<1>5. Sound(t, A, S) /\ IsMarked(t, s, d, 0, an)
  <2>1. 0 \in 0 .. 2
    OBVIOUS
  <2> QED
    BY <1>4, <2>1, MarkedFacts, Zenon
<1>6. t = [s EXCEPT !.done = TRUE, !.step = 0]
  BY <1>1, <1>2, <1>3, <1>4 DEF Marked, SearchRecords
<1>7. t.tid = s.tid /\ t.target = s.target /\ t.nodes = s.nodes /\ t.announce = s.announce
  BY <1>3, <1>5 DEF IsMarked
<1>8. Complete(t)
  BY <1>7 DEF Complete, Live
<1>9. PICK r : r = [s |-> t, out |-> {}]
  OBVIOUS
<1>10. r.s = t /\ r.out = {}
  BY <1>9
<1>11. StepOf(s, r, A, S)
  BY <1>5, <1>7, <1>8, <1>10 DEF StepOf, Sends
<1> QED
  BY <1>6, <1>9, <1>11

(* A request ends a step. *)
LEMMA AskEnds ==
    ASSUME NEW s, NEW A, NEW S, NEW t, NEW r, Sound(t, A, S), Same(s, t), Sound(r.s, A, S), Same(t, r.s),
           Sends(t, r.out, A, S), NEW u, u = [r EXCEPT !.s.step = 0], NEW out, NEW v, r = [s |-> v, out |-> out]
    PROVE  StepOf(s, u, A, S)
<1>1. v \in SearchRecords /\ v.announce \in BOOLEAN /\ v.done \in BOOLEAN
  BY DEF Sound, SearchRecords
<1>2. PICK d \in BOOLEAN : d = v.done
  BY <1>1
<1>3. PICK an \in BOOLEAN : an = v.announce
  BY <1>1
<1>4. PICK w : w = Marked(v, d, 0, an)
  OBVIOUS
<1>5. Sound(w, A, S) /\ IsMarked(w, v, d, 0, an)
  <2>1. 0 \in 0 .. 2 /\ Sound(v, A, S)
    OBVIOUS
  <2> QED
    BY <1>4, <2>1, MarkedFacts, Zenon
<1>6. w = [v EXCEPT !.step = 0]
  BY <1>1, <1>2, <1>3, <1>4 DEF Marked, SearchRecords
<1>7. u = [s |-> w, out |-> out]
  BY <1>6
<1>8. u.s = w /\ u.out = out /\ r.s = v /\ r.out = out
  BY <1>7
<1>9. w.tid = s.tid /\ w.target = s.target /\ w.done = s.done
  BY <1>2, <1>5, <1>8 DEF IsMarked, Same
<1>10. Sends(s, out, A, S)
  BY <1>8 DEF Sends, Same
<1> QED
  BY <1>5, <1>8, <1>9, <1>10 DEF StepOf

(* The nodes without a token count as acknowledged. *)
Tokenless(s) ==
    [s EXCEPT !.nodes =
       [j \in 1 .. Len(s.nodes) |->
          [s.nodes[j] EXCEPT !.acked = @ \/ (j \in Live(s) /\ s.nodes[j].token = NoToken)]]]

LEMMA AckedNode ==
    ASSUME NEW n \in SearchNode, NEW b \in BOOLEAN
    PROVE  LET r == [n EXCEPT !.acked = b] IN
           /\ r \in SearchNode /\ r.id = n.id /\ r.replied = n.replied /\ r.pinged = n.pinged
           /\ r.token = n.token /\ r.acked = b
BY DEF SearchNode

IsTokenless(t, s) ==
    /\ Len(t.nodes) = Len(s.nodes)
    /\ \A j \in 1 .. Len(s.nodes) :
         /\ t.nodes[j].pinged = s.nodes[j].pinged /\ t.nodes[j].token = s.nodes[j].token
         /\ t.nodes[j].replied = s.nodes[j].replied
         /\ s.nodes[j].acked => t.nodes[j].acked
         /\ j \in Live(s) /\ s.nodes[j].token = NoToken => t.nodes[j].acked

LEMMA TokenlessFacts ==
    ASSUME NEW s, NEW A, NEW S, Sound(s, A, S), \A j \in Live(s) : s.nodes[j].replied,
           NEW t, t = Tokenless(s)
    PROVE  Sound(t, A, S) /\ Same(s, t) /\ IsTokenless(t, s)
<1>1. /\ s \in SearchRecords /\ s.nodes \in Seq(SearchNode) /\ Len(s.nodes) \in Nat
      /\ \A j \in 1 .. Len(s.nodes) : s.nodes[j] \in SearchNode /\ Earned(s.nodes[j], s.target, A, S)
  BY NodeOf
<1> DEFINE B(j) == s.nodes[j].acked \/ (j \in Live(s) /\ s.nodes[j].token = NoToken)
           N(j) == [s.nodes[j] EXCEPT !.acked = B(j)]
<1>2. PICK q : q = [j \in 1 .. Len(s.nodes) |-> N(j)]
  OBVIOUS
<1>3. ASSUME NEW j \in 1 .. Len(s.nodes)
      PROVE  /\ q[j] \in SearchNode /\ q[j].id = s.nodes[j].id
             /\ q[j].pinged = s.nodes[j].pinged /\ q[j].token = s.nodes[j].token
             /\ q[j].replied = s.nodes[j].replied /\ q[j].acked = B(j)
             /\ Earned(q[j], s.target, A, S)
  <2>1. PICK n \in SearchNode : n = s.nodes[j] /\ Earned(n, s.target, A, S)
    BY <1>1
  <2>2. PICK b \in BOOLEAN : b = B(j)
    OBVIOUS
  <2>3. PICK r : r = [n EXCEPT !.acked = b]
    OBVIOUS
  <2>4. /\ r \in SearchNode /\ r.id = n.id /\ r.replied = n.replied /\ r.pinged = n.pinged
        /\ r.token = n.token /\ r.acked = b
    BY <2>3, AckedNode
  <2>5. q[j] = r
    BY <1>2, <2>1, <2>2, <2>3
  <2>6. b => n.acked \/ (n.replied /\ n.token = NoToken)
    BY <2>1, <2>2
  <2>7. Earned(r, s.target, A, S)
    BY <2>1, <2>4, <2>6 DEF Earned
  <2> HIDE DEF B
  <2> QED
    BY <2>1, <2>2, <2>4, <2>5, <2>7
<1>4. t = [s EXCEPT !.nodes = q]
  BY <1>2 DEF Tokenless
<1> HIDE DEF B, N
<1>5. q \in [1 .. Len(s.nodes) -> SearchNode]
  BY <1>2, <1>3
<1>6. Sound(t, A, S) /\ Same(s, t) /\ t.nodes = q /\ Len(q) = Len(s.nodes)
  BY <1>3, <1>4, <1>5, ChangedFacts
<1>7. ASSUME NEW j \in 1 .. Len(s.nodes)
      PROVE  /\ s.nodes[j].acked => q[j].acked
             /\ j \in Live(s) /\ s.nodes[j].token = NoToken => q[j].acked
  BY <1>3 DEF B
<1> QED
  BY <1>3, <1>6, <1>7 DEF IsTokenless

(* search_step *)
LEMMA StepFacts ==
    ASSUME NEW s, NEW A, NEW S, Sound(s, A, S)
    PROVE  StepOf(s, SearchStep(s), A, S)
<1> DEFINE unacked == {j \in Live(s) : s.nodes[j].token # NoToken /\ ~s.nodes[j].acked}
<1>1. Live(s) \subseteq {j \in 1 .. Len(s.nodes) : s.nodes[j].pinged < 3}
  BY LiveFacts
<1>2. CASE \A j \in Live(s) : s.nodes[j].replied
  <2>1. CASE ~s.announce
    <3>1. Complete(s)
      BY <1>2, <2>1 DEF Complete
    <3>2. SearchStep(s) = [s |-> [s EXCEPT !.done = TRUE, !.step = 0], out |-> {}]
      BY <1>2, <2>1 DEF SearchStep
    <3> QED
      BY <3>1, <3>2, DoneFacts
  <2>2. CASE s.announce
    <3>1. PICK t : t = Tokenless(s)
      OBVIOUS
    <3>2. /\ Sound(t, A, S) /\ Same(s, t) /\ Len(t.nodes) = Len(s.nodes)
          /\ \A j \in 1 .. Len(s.nodes) :
               /\ t.nodes[j].pinged = s.nodes[j].pinged /\ t.nodes[j].token = s.nodes[j].token
               /\ t.nodes[j].replied = s.nodes[j].replied
               /\ s.nodes[j].acked => t.nodes[j].acked
               /\ j \in Live(s) /\ s.nodes[j].token = NoToken => t.nodes[j].acked
      <4>1. Sound(t, A, S) /\ Same(s, t) /\ IsTokenless(t, s)
        BY <1>2, <3>1, TokenlessFacts
      <4> QED
        BY <4>1 DEF IsTokenless
    <3>3. CASE unacked = {}
      <4>1. Live(t) = Live(s)
        BY <3>2, LiveSame
      <4>2. Complete(t)
        <5>1. ASSUME NEW j \in Live(s)
              PROVE  t.nodes[j].replied /\ t.nodes[j].acked
          <6>1. j \in 1 .. Len(s.nodes) /\ s.nodes[j].replied
            BY <1>1, <1>2
          <6>2. s.nodes[j].token = NoToken \/ s.nodes[j].acked
            BY <3>3
          <6> QED
            BY <3>2, <6>1, <6>2
        <5> QED
          BY <4>1, <5>1 DEF Complete
      <4>3. PICK r : r = [s |-> [t EXCEPT !.done = TRUE, !.step = 0], out |-> {}]
        OBVIOUS
      <4>4. StepOf(t, r, A, S)
        BY <3>2, <4>2, <4>3, DoneFacts
      <4>5. t.tid = s.tid /\ t.target = s.target /\ t.done = s.done
        BY <3>2 DEF Same
      <4>6. StepOf(s, r, A, S)
        BY <4>4, <4>5 DEF StepOf, Sends
      <4>7. SearchStep(s) = r
        BY <1>2, <2>2, <3>1, <3>3, <4>3 DEF SearchStep, Tokenless
      <4> QED
        BY <4>6, <4>7
    <3>4. CASE unacked # {}
      <4>1. PICK I : I = unacked
        OBVIOUS
      <4>2. /\ I \subseteq {j \in 1 .. Len(t.nodes) : t.nodes[j].pinged < 3}
            /\ \A j \in I : t.nodes[j].token # NoToken
        BY <1>1, <3>2, <4>1
      <4>3. PICK r : r = AskNodes(t, I, "announce_peer")
        OBVIOUS
      <4>4. Sound(r.s, A, S) /\ AskedNodes(t, r.s, I) /\ Sends(t, r.out, A, S)
        BY <3>2, <4>2, <4>3, AskFacts
      <4>5. PICK v, out : r = [s |-> v, out |-> out]
        BY <4>3 DEF AskNodes
      <4>6. PICK u : u = [r EXCEPT !.s.step = 0]
        OBVIOUS
      <4>7. StepOf(s, u, A, S)
        BY <3>2, <4>4, <4>5, <4>6, AskEnds DEF AskedNodes
      <4>8. SearchStep(s) = u
        BY <1>2, <2>2, <3>1, <3>4, <4>1, <4>3, <4>6 DEF SearchStep, Tokenless
      <4> QED
        BY <4>7, <4>8
    <3> QED
      BY <3>3, <3>4
  <2> QED
    BY <2>1, <2>2
<1>3. CASE ~(\A j \in Live(s) : s.nodes[j].replied)
  <2>1. CASE s.step = 0
    <3>1. PICK r : r = [s |-> s, out |-> {}]
      OBVIOUS
    <3>2. r.s = s /\ r.out = {}
      BY <3>1
    <3>3. StepOf(s, r, A, S)
      BY <3>2 DEF StepOf, Sends
    <3>4. SearchStep(s) = r
      BY <1>3, <2>1, <3>1 DEF SearchStep
    <3> QED
      BY <3>3, <3>4
  <2>2. CASE s.step # 0
    <3>1. PICK I : I = First(Parallel, Askable(s))
      OBVIOUS
    <3>2. I \subseteq {j \in 1 .. Len(s.nodes) : s.nodes[j].pinged < 3}
      BY <3>1 DEF First, Askable
    <3>3. PICK r : r = AskNodes(s, I, "get_peers")
      OBVIOUS
    <3>4. Sound(r.s, A, S) /\ AskedNodes(s, r.s, I) /\ Sends(s, r.out, A, S)
      BY <3>2, <3>3, AskFacts
    <3>5. PICK v, out : r = [s |-> v, out |-> out]
      BY <3>3 DEF AskNodes
    <3>6. PICK u : u = [r EXCEPT !.s.step = 0]
      OBVIOUS
    <3>7. Same(s, s)
      BY DEF Same
    <3>8. StepOf(s, u, A, S)
      BY <3>4, <3>5, <3>6, <3>7, AskEnds DEF AskedNodes
    <3>9. SearchStep(s) = u
      BY <1>3, <2>2, <3>1, <3>3, <3>6 DEF SearchStep
    <3> QED
      BY <3>8, <3>9
  <2> QED
    BY <2>1, <2>2
<1> QED
  BY <1>2, <1>3

---------------------------------------------------------------------------
(* The end of dht_periodic. *)

LEMMA RangeFacts ==
    ASSUME NEW X, NEW q \in Seq(X)
    PROVE  /\ Range(q) = {q[k] : k \in 1 .. Len(q)} /\ Len(q) \in Nat
           /\ \A k \in 1 .. Len(q) : q[k] \in X
<1>1. DOMAIN q = 1 .. Len(q) /\ Len(q) \in Nat
  OBVIOUS
<1>2. \A k \in 1 .. Len(q) : q[k] \in X
  OBVIOUS
<1> QED
  BY <1>1, <1>2 DEF Range

(* The searches tt come from ss: each has the number and hash of one of     *)
(* them, and is done only if that was or it is complete.                    *)
Descend(tt, ss) ==
    \A k \in 1 .. Len(tt) : \E i \in 1 .. Len(ss) :
       /\ tt[k].tid = ss[i].tid /\ tt[k].target = ss[i].target
       /\ tt[k].done => ss[i].done \/ Complete(tt[k])

(* Some searches are left. *)
LEMMA LeftFacts ==
    ASSUME NEW ss, NEW P, NEW A, NEW S, Fit(ss, P, A, S), NEW I
    PROVE  /\ Fit(Sift(ss, I), P, A, S)
           /\ \A k \in 1 .. Len(Sift(ss, I)) : \E i \in 1 .. Len(ss) : Sift(ss, I)[k] = ss[i]
<1>1. PICK tt : tt = Sift(ss, I)
  OBVIOUS
<1>2. ss \in Seq(SearchRecords) /\ Len(ss) \in Nat /\ Len(ss) <= MaxSearches
  BY DEF Fit
<1>3. Picked(tt, SearchRecords, ss, I)
  BY <1>1, <1>2, SiftFacts
<1>4. PICK n \in 0 .. Len(ss) : \E g \in [1 .. n -> I \cap (1 .. Len(ss))] :
         tt \in Seq(SearchRecords) /\ Len(tt) = n /\ \A i \in 1 .. n : tt[i] = ss[g[i]]
  BY <1>3 DEF Picked
<1>5. PICK g \in [1 .. n -> I \cap (1 .. Len(ss))] :
         tt \in Seq(SearchRecords) /\ Len(tt) = n /\ \A i \in 1 .. n : tt[i] = ss[g[i]]
  BY <1>4
<1>6. \A i \in 1 .. n : g[i] \in 1 .. Len(ss)
  OBVIOUS
<1>7. \A k \in 1 .. Len(tt) : Sound(tt[k], A, S)
  BY <1>5, <1>6 DEF Fit
<1>8. Len(tt) <= MaxSearches
  BY <1>2, <1>5, DhtSearchAssumption
<1>9. Fit(tt, P, A, S)
  BY <1>5, <1>7, <1>8 DEF Fit
<1>10. \A k \in 1 .. Len(tt) : \E i \in 1 .. Len(ss) : tt[k] = ss[i]
  BY <1>5, <1>6
<1> QED
  BY <1>1, <1>9, <1>10

LEMMA FinishFacts ==
    ASSUME NEW ss, NEW out, Fit(ss, packets \cup out, announced, secrets), Finish(ss, out),
           searchTime \in {"none", "now", "later"}
    PROVE  /\ Fit(searches', packets', announced, secrets)
           /\ searchTime' \in {"none", "now", "later"}
           /\ Uses(searches', packets') \subseteq Uses(ss, packets \cup out)
           /\ Descend(searches', ss)
<1>1. PICK expire \in BOOLEAN, young \in BOOLEAN :
        Outcome(Each(LAMBDA s : Stepped(s, young), Left(ss, expire)), out)
  <2>1. {FALSE, \E s \in Range(ss) : s.step = 2} \subseteq BOOLEAN
    OBVIOUS
  <2>2. {TRUE, \A s \in Range(ss) : s.done \/ s.step > 0} \subseteq BOOLEAN
    OBVIOUS
  <2> QED
    BY <2>1, <2>2, Zenon DEF Finish
<1>2. PICK left : left = Left(ss, expire)
  OBVIOUS
<1>3. PICK all : all = [k \in 1 .. Len(left) |-> Stepped(left[k], young)]
  OBVIOUS
<1>4. /\ searches' = [k \in 1 .. Len(all) |-> all[k].s]
      /\ packets' = packets \cup out \cup UNION {r.out : r \in Range(all)}
      /\ searchTime' = IF searchTime # "now" THEN searchTime
                       ELSE IF \A r \in Range(all) : r.s.done THEN "none" ELSE "later"
  BY <1>1, <1>2, <1>3 DEF Outcome, Each
<1>5. /\ Fit(left, packets \cup out, announced, secrets)
      /\ \A k \in 1 .. Len(left) : \E i \in 1 .. Len(ss) : left[k] = ss[i]
  <2>1. CASE expire
    <3>1. PICK I : I = {k \in 1 .. Len(ss) : ss[k].step < 2}
      OBVIOUS
    <3>2. left = Sift(ss, I)
      BY <1>2, <2>1, <3>1 DEF Left
    <3> QED
      BY <3>2, LeftFacts
  <2>2. CASE ~expire
    BY <1>2, <2>2 DEF Left
  <2> QED
    BY <2>1, <2>2
<1>6. left \in Seq(SearchRecords) /\ Len(left) \in Nat /\ Len(left) <= MaxSearches
  BY <1>5 DEF Fit
<1>7. Len(all) = Len(left) /\ DOMAIN all = 1 .. Len(left)
      /\ \A k \in 1 .. Len(left) : all[k] = Stepped(left[k], young)
  BY <1>3, <1>6
<1>8. ASSUME NEW k \in 1 .. Len(left)
      PROVE  StepOf(left[k], all[k], announced, secrets)
  <2>1. PICK s : s = left[k] /\ Sound(s, announced, secrets)
    BY <1>5 DEF Fit
  <2>2. all[k] = Stepped(s, young)
    BY <1>7, <2>1
  <2>3. CASE all[k] = SearchStep(s)
    BY <2>1, <2>3, StepFacts
  <2>4. CASE all[k] = [s |-> s, out |-> {}]
    <3>1. PICK r : r = [s |-> s, out |-> {}]
      OBVIOUS
    <3>2. r.s = s /\ r.out = {}
      BY <3>1
    <3>3. StepOf(s, r, announced, secrets)
      BY <2>1, <3>2 DEF StepOf, Sends
    <3> QED
      BY <2>1, <2>4, <3>1, <3>3
  <2> QED
    BY <2>2, <2>3, <2>4 DEF Stepped
<1>9. PICK tt : tt = searches'
  OBVIOUS
<1>10. tt = [k \in 1 .. Len(left) |-> all[k].s]
  BY <1>4, <1>7, <1>9
<1>11. \A k \in 1 .. Len(left) : Sound(all[k].s, announced, secrets) /\ all[k].s \in SearchRecords
  BY <1>8 DEF StepOf, Sound
<1>12. tt \in [1 .. Len(left) -> SearchRecords] /\ \A k \in 1 .. Len(left) : tt[k] = all[k].s
  BY <1>10, <1>11
<1>13. tt \in Seq(SearchRecords) /\ Len(tt) = Len(left)
  BY <1>6, <1>12, FunctionSeq
<1>14. PICK sent : sent = UNION {r.out : r \in Range(all)}
  OBVIOUS
<1>15. ASSUME NEW m \in sent
       PROVE  \E k \in 1 .. Len(left) : m \in all[k].out
  <2>1. PICK r \in Range(all) : m \in r.out
    BY <1>14
  <2>2. PICK k \in 1 .. Len(left) : r = all[k]
    BY <1>7, <2>1, Zenon DEF Range
  <2> QED
    BY <2>1, <2>2
<1>16. ASSUME NEW m \in sent
       PROVE  Genuine(m, announced, secrets)
              /\ \E k \in 1 .. Len(left) : m.tid = left[k].tid /\ m.target = left[k].target
  BY <1>8, <1>15 DEF StepOf, Sends
<1>17. PICK Q : Q = packets'
  OBVIOUS
<1>18. Q = (packets \cup out) \cup sent
  BY <1>4, <1>14, <1>17
<1>19. \A m \in Q : Genuine(m, announced, secrets)
  BY <1>5, <1>16, <1>18 DEF Fit
<1>20. Fit(tt, Q, announced, secrets)
  BY <1>6, <1>11, <1>12, <1>13, <1>19 DEF Fit
<1>21. searchTime' \in {"none", "now", "later"}
  BY <1>4
<1>22. ASSUME NEW k \in 1 .. Len(tt)
       PROVE  \E i \in 1 .. Len(ss) : /\ tt[k].tid = ss[i].tid /\ tt[k].target = ss[i].target
                                      /\ tt[k].done => ss[i].done \/ Complete(tt[k])
  <2>1. PICK i \in 1 .. Len(ss) : left[k] = ss[i]
    BY <1>5, <1>13
  <2>2. StepOf(left[k], all[k], announced, secrets) /\ tt[k] = all[k].s
    BY <1>8, <1>12, <1>13
  <2> QED
    BY <2>1, <2>2 DEF StepOf
<1>23. Descend(tt, ss)
  BY <1>22 DEF Descend
<1>24. ASSUME NEW u \in Uses(tt, Q)
       PROVE  u \in Uses(ss, packets \cup out)
  <2>1. CASE \E k \in 1 .. Len(tt) : u = <<tt[k].tid, tt[k].target>>
    <3>1. PICK k \in 1 .. Len(tt) : u = <<tt[k].tid, tt[k].target>>
      BY <2>1
    <3>2. PICK i \in 1 .. Len(ss) : tt[k].tid = ss[i].tid /\ tt[k].target = ss[i].target
      BY <1>22
    <3> QED
      BY <3>1, <3>2 DEF Uses
  <2>2. CASE \E m \in packets \cup out : u = <<m.tid, m.target>>
    BY <2>2 DEF Uses
  <2>3. CASE \E m \in sent : u = <<m.tid, m.target>>
    <3>1. PICK m \in sent : u = <<m.tid, m.target>>
      BY <2>3
    <3>2. PICK k \in 1 .. Len(left) : m.tid = left[k].tid /\ m.target = left[k].target
      BY <1>16
    <3>3. PICK i \in 1 .. Len(ss) : left[k] = ss[i]
      BY <1>5
    <3> QED
      BY <3>1, <3>2, <3>3 DEF Uses
  <2> QED
    BY <1>18, <2>1, <2>2, <2>3 DEF Uses
<1> QED
  BY <1>9, <1>17, <1>20, <1>21, <1>23, <1>24

---------------------------------------------------------------------------
(* The handlers. *)

(* What a handler makes of the searches: the same numbers, hashes and marks. *)
Kin(tt, ss) ==
    \A k \in 1 .. Len(tt) : \E i \in 1 .. Len(ss) :
       tt[k].tid = ss[i].tid /\ tt[k].target = ss[i].target /\ tt[k].done = ss[i].done

(* A search that is done was done before or is complete. *)
CompleteStep ==
    \A k \in 1 .. Len(searches') : searches'[k].done =>
       \/ Complete(searches'[k])
       \/ \E i \in 1 .. Len(searches) : searches[i].tid = searches'[k].tid /\ searches[i].done

(* What is sent for one of the searches ss. *)
SentFor(out, ss) ==
    \A m \in out : \E i \in 1 .. Len(ss) : m.tid = ss[i].tid /\ m.target = ss[i].target

LEMMA KinUses ==
    ASSUME NEW tt, NEW ss, NEW P, NEW out, Kin(tt, ss), SentFor(out, ss)
    PROVE  Uses(tt, P \cup out) \subseteq Uses(ss, P)
<1> SUFFICES ASSUME NEW u \in Uses(tt, P \cup out)
             PROVE  u \in Uses(ss, P)
  OBVIOUS
<1>1. CASE \E k \in 1 .. Len(tt) : u = <<tt[k].tid, tt[k].target>>
  BY <1>1 DEF Kin, Uses
<1>2. CASE \E m \in P : u = <<m.tid, m.target>>
  BY <1>2 DEF Uses
<1>3. CASE \E m \in out : u = <<m.tid, m.target>>
  BY <1>3 DEF SentFor, Uses
<1> QED
  BY <1>1, <1>2, <1>3 DEF Uses

LEMMA FewerNumbered ==
    ASSUME NEW U, NEW V, V \subseteq U, NEW id, NEW c, Numbered(U, id, c)
    PROVE  Numbered(V, id, c)
BY DEF Numbered

(* A handler, and the end of dht_periodic. *)
LEMMA HandlerKeeps ==
    ASSUME SearchInv, NEW ss, NEW out, Finish(ss, out),
           Fit(ss, packets \cup out, announced, secrets), Kin(ss, searches), SentFor(out, searches),
           UNCHANGED <<searchId, announced, secrets, searchCalls>>,
           blacklist' \subseteq Others, arrivals' \in 0 .. MaxArrivals
    PROVE  SearchInv' /\ CompleteStep
<1>1. /\ Fit(searches', packets', announced, secrets) /\ searchTime' \in {"none", "now", "later"}
      /\ Uses(searches', packets') \subseteq Uses(ss, packets \cup out)
      /\ Descend(searches', ss)
  BY FinishFacts DEF SearchInv, Scalars
<1>2. Uses(ss, packets \cup out) \subseteq Uses(searches, packets)
  BY KinUses
<1>3. Once => Numbered(Uses(searches', packets'), searchId, searchCalls)
  BY <1>1, <1>2, FewerNumbered DEF SearchInv
<1>4. Scalars'
  BY <1>1 DEF SearchInv, Scalars
<1>5. SearchInv'
  BY <1>1, <1>3, <1>4 DEF SearchInv
<1>6. ASSUME NEW k \in 1 .. Len(searches'), searches'[k].done
      PROVE  \/ Complete(searches'[k])
             \/ \E i \in 1 .. Len(searches) : searches[i].tid = searches'[k].tid /\ searches[i].done
  <2>1. PICK i \in 1 .. Len(ss) : searches'[k].tid = ss[i].tid
                                   /\ (ss[i].done \/ Complete(searches'[k]))
    BY <1>1, <1>6 DEF Descend
  <2>2. PICK j \in 1 .. Len(searches) : ss[i].tid = searches[j].tid /\ ss[i].done = searches[j].done
    BY DEF Kin
  <2> QED
    BY <2>1, <2>2
<1> QED
  BY <1>5, <1>6 DEF CompleteStep

LEMMA IdleKeeps ==
    ASSUME SearchInv, Idle
    PROVE  SearchInv' /\ CompleteStep
<1>1. Finish(searches, {}) /\ UNCHANGED <<searchId, blacklist, secrets, announced, searchCalls, arrivals>>
  BY DEF Idle
<1>2. Fit(searches, packets \cup {}, announced, secrets)
  <2>1. packets \cup {} = packets
    OBVIOUS
  <2> QED
    BY <2>1 DEF SearchInv
<1>3. Kin(searches, searches) /\ SentFor({}, searches)
  BY DEF Kin, SentFor
<1>4. blacklist' \subseteq Others /\ arrivals' \in 0 .. MaxArrivals
  BY <1>1 DEF SearchInv, Scalars
<1> QED
  BY <1>1, <1>2, <1>3, <1>4, HandlerKeeps

LEMMA FlushedFacts ==
    ASSUME SearchInv, NEW id
    PROVE  /\ Fit(Flushed(id), packets, announced, secrets) /\ Kin(Flushed(id), searches)
           /\ Len(Flushed(id)) = Len(searches)
           /\ \A k \in 1 .. Len(searches) : Same(searches[k], Flushed(id)[k])
<1>1. /\ searches \in Seq(SearchRecords) /\ Len(searches) \in Nat /\ Len(searches) <= MaxSearches
      /\ \A k \in 1 .. Len(searches) : Sound(searches[k], announced, secrets)
      /\ \A m \in packets : Genuine(m, announced, secrets)
  BY DEF SearchInv, Fit
<1>2. PICK tt : tt = [k \in 1 .. Len(searches) |-> Flush(searches[k], id)]
  OBVIOUS
<1>3. ASSUME NEW k \in 1 .. Len(searches)
      PROVE  /\ tt[k] \in SearchRecords /\ Sound(tt[k], announced, secrets)
             /\ Same(searches[k], tt[k])
  <2>1. PICK t : t = Flush(searches[k], id)
    OBVIOUS
  <2>2. Sound(t, announced, secrets) /\ Same(searches[k], t)
    BY <1>1, <2>1, FlushFacts
  <2>3. t \in SearchRecords
    BY <2>2 DEF Sound
  <2> QED
    BY <1>2, <2>1, <2>2, <2>3
<1>4. tt \in [1 .. Len(searches) -> SearchRecords]
  BY <1>2, <1>3
<1>5. tt \in Seq(SearchRecords) /\ Len(tt) = Len(searches)
  BY <1>1, <1>4, FunctionSeq
<1>6. Fit(tt, packets, announced, secrets)
  BY <1>1, <1>3, <1>5 DEF Fit
<1>7. Kin(tt, searches)
  BY <1>3, <1>5 DEF Kin, Same
<1>8. Flushed(id) = tt
  BY <1>2 DEF Flushed, Each
<1> QED
  BY <1>3, <1>5, <1>6, <1>7, <1>8

LEMMA ReplaceFacts ==
    ASSUME NEW ss, NEW P, NEW A, NEW S, Fit(ss, P, A, S), NEW k \in 1 .. Len(ss),
           NEW t, Sound(t, A, S), Same(ss[k], t), NEW tt, tt = [ss EXCEPT ![k] = t]
    PROVE  /\ Fit(tt, P, A, S) /\ Kin(tt, ss) /\ Len(tt) = Len(ss) /\ tt[k] = t
           /\ \A j \in 1 .. Len(ss) : j # k => tt[j] = ss[j]
<1>1. ss \in Seq(SearchRecords) /\ Len(ss) \in Nat /\ Len(ss) <= MaxSearches
  BY DEF Fit
<1>2. t \in SearchRecords
  BY DEF Sound
<1>3. tt \in Seq(SearchRecords) /\ Len(tt) = Len(ss) /\ tt[k] = t
      /\ \A j \in 1 .. Len(ss) : j # k => tt[j] = ss[j]
  BY <1>1, <1>2
<1>4. \A j \in 1 .. Len(tt) : Sound(tt[j], A, S)
  BY <1>3 DEF Fit
<1>5. Kin(tt, ss)
  BY <1>3 DEF Kin, Same
<1> QED
  BY <1>1, <1>3, <1>4, <1>5 DEF Fit

LEMMA PacketFacts ==
    ASSUME SearchInv, NEW m \in packets
    PROVE  /\ m.peer \in Others /\ Genuine(m, announced, secrets)
           /\ Once => \A k \in 1 .. Len(searches) : searches[k].tid = m.tid => searches[k].target = m.target
<1>1. Genuine(m, announced, secrets)
  BY DEF SearchInv, Fit
<1>2. m.peer \in Others
  BY <1>1 DEF Genuine, Packets
<1>3. ASSUME Once, NEW k \in 1 .. Len(searches), searches[k].tid = m.tid
      PROVE  searches[k].target = m.target
  <2>1. Numbered(Uses(searches, packets), searchId, searchCalls)
    BY <1>3 DEF SearchInv
  <2>2. PICK u : u = <<searches[k].tid, searches[k].target>>
    OBVIOUS
  <2>3. PICK v : v = <<m.tid, m.target>>
    OBVIOUS
  <2>4. u \in Uses(searches, packets) /\ v \in Uses(searches, packets)
    BY <2>2, <2>3 DEF Uses
  <2>5. u[1] = v[1] => u[2] = v[2]
    BY <2>1, <2>4 DEF Numbered
  <2> QED
    BY <1>3, <2>2, <2>3, <2>5
<1> QED
  BY <1>1, <1>2, <1>3

LEMMA FoundFacts ==
    ASSUME SearchInv, NEW tid, FindSearch(searches, tid) # {}
    PROVE  /\ Min(FindSearch(searches, tid)) \in 1 .. Len(searches)
           /\ searches[Min(FindSearch(searches, tid))].tid = tid
<1>1. Len(searches) \in Nat
  BY DEF SearchInv, Fit
<1>2. PICK T : T = FindSearch(searches, tid)
  OBVIOUS
<1>3. T \subseteq 1 .. Len(searches) /\ \A k \in T : searches[k].tid = tid
  BY <1>2 DEF FindSearch
<1>4. T \subseteq Nat /\ T # {}
  BY <1>1, <1>2, <1>3
<1>5. Min(T) \in T
  BY <1>4, MinFacts
<1> QED
  BY <1>2, <1>3, <1>5

LEMMA ArrivalFacts ==
    ASSUME SearchInv, Arrival
    PROVE  arrivals' \in 0 .. MaxArrivals
BY DhtSearchAssumption DEF Arrival, SearchInv, Scalars

LEMMA NoPackets ==
    ASSUME NEW ss, NEW P, NEW A, NEW S, Fit(ss, P, A, S)
    PROVE  Fit(ss, P \cup {}, A, S)
<1>1. P \cup {} = P
  OBVIOUS
<1> QED
  BY <1>1

LEMMA TruncatedKeeps ==
    ASSUME SearchInv, NEW m \in packets, GotTruncated(m)
    PROVE  SearchInv' /\ CompleteStep
<1>1. /\ Finish(Flushed(m.peer), {}) /\ blacklist' = blacklist \cup {m.peer} /\ Arrival
      /\ UNCHANGED <<searchId, secrets, announced, searchCalls>>
  BY DEF GotTruncated
<1>2. PICK ss : ss = Flushed(m.peer)
  OBVIOUS
<1>3. Fit(ss, packets \cup {}, announced, secrets) /\ Kin(ss, searches) /\ SentFor({}, searches)
  BY <1>2, FlushedFacts, NoPackets DEF SentFor
<1>4. blacklist' \subseteq Others
  BY <1>1, PacketFacts DEF SearchInv, Scalars
<1>5. arrivals' \in 0 .. MaxArrivals
  BY <1>1, ArrivalFacts
<1> QED
  BY <1>1, <1>2, <1>3, <1>4, <1>5, HandlerKeeps

LEMMA TokenFacts ==
    ASSUME SearchInv, NEW p \in Others, NEW token \in Tokens(p)
    PROVE  /\ token \in SearchTokens
           /\ IF p \in Broken THEN token = NoToken
              ELSE token # NoToken /\ token \in 1 .. secrets[p][1]
<1>1. CASE p \in Broken
  BY <1>1 DEF Tokens, SearchTokens
<1>2. CASE p \notin Broken
  <2>1. PICK k \in 1 .. MaxRotations + 1 : secrets[p] = <<k, k - 1>>
    BY DEF SearchInv, Scalars
  <2>2. secrets[p][1] = k
    BY <2>1
  <2>3. token \in 1 .. k
    BY <1>2, <2>2 DEF Tokens
  <2>4. token \in 0 .. MaxRotations + 1
    BY <2>3, DhtSearchAssumption
  <2>5. token # NoToken
    BY <2>4, DhtSearchAssumption
  <2> QED
    BY <1>2, <2>2, <2>3, <2>4, <2>5 DEF SearchTokens
<1> QED
  BY <1>1, <1>2

LEMMA FitMore ==
    ASSUME NEW ss, NEW P, NEW A, NEW S, Fit(ss, P, A, S), NEW s, NEW out, Sends(s, out, A, S)
    PROVE  Fit(ss, P \cup out, A, S)
BY DEF Fit, Sends

LEMMA KinKin ==
    ASSUME NEW tt, NEW ss, NEW rr, Kin(tt, ss), Kin(ss, rr)
    PROVE  Kin(tt, rr)
<1> SUFFICES ASSUME NEW k \in 1 .. Len(tt)
             PROVE  \E i \in 1 .. Len(rr) :
                      tt[k].tid = rr[i].tid /\ tt[k].target = rr[i].target /\ tt[k].done = rr[i].done
  BY DEF Kin
<1>1. PICK j \in 1 .. Len(ss) :
        tt[k].tid = ss[j].tid /\ tt[k].target = ss[j].target /\ tt[k].done = ss[j].done
  BY DEF Kin
<1>2. PICK i \in 1 .. Len(rr) :
        ss[j].tid = rr[i].tid /\ ss[j].target = rr[i].target /\ ss[j].done = rr[i].done
  BY DEF Kin
<1> QED
  BY <1>1, <1>2

LEMMA NodesKeeps ==
    ASSUME SearchInv, NEW m \in packets, NEW nodes \in Seq(Others), NEW token \in Tokens(m.peer),
           GotNodes(m, nodes, token)
    PROVE  SearchInv' /\ CompleteStep
<1>1. PICK p \in Others : p = m.peer
  BY PacketFacts
<1>2. PICK found : found = FindSearch(searches, m.tid)
  OBVIOUS
<1>3. PICK k : k = Min(found)
  OBVIOUS
<1>4. found # {} => k \in 1 .. Len(searches)
  BY <1>2, <1>3, FoundFacts
<1>5. /\ token \in SearchTokens
      /\ IF p \in Broken THEN token = NoToken ELSE token # NoToken /\ token \in 1 .. secrets[p][1]
  BY <1>1, TokenFacts
<1>6. Arrival /\ UNCHANGED <<searchId, secrets, announced, searchCalls>>
  BY DEF GotNodes
<1>7. arrivals' \in 0 .. MaxArrivals
  BY <1>6, ArrivalFacts
<1>8. Fit(searches, packets, announced, secrets)
  BY DEF SearchInv
<1>9. CASE p \in Broken
  <2>1. blacklist' = blacklist \cup {p}
    BY <1>1, <1>9 DEF GotNodes
  <2>2. blacklist' \subseteq Others
    BY <2>1 DEF SearchInv, Scalars
  <2>3. PICK ss : ss = Flushed(p)
    OBVIOUS
  <2>4. /\ Fit(ss, packets, announced, secrets) /\ Kin(ss, searches) /\ Len(ss) = Len(searches)
    BY <2>3, FlushedFacts
  <2>5. CASE found = {}
    <3>1. Finish(ss, {})
      BY <1>1, <1>2, <1>9, <2>3, <2>5 DEF GotNodes
    <3>2. Fit(ss, packets \cup {}, announced, secrets) /\ SentFor({}, searches)
      BY <2>4, NoPackets DEF SentFor
    <3> QED
      BY <1>6, <1>7, <2>2, <2>4, <3>1, <3>2, HandlerKeeps
  <2>6. CASE found # {}
    <3>1. PICK t : t = InsertReplied(ss[k], p, token)
      OBVIOUS
    <3>2. PICK tt : tt = [ss EXCEPT ![k] = t]
      OBVIOUS
    <3>3. Finish(tt, {})
      BY <1>1, <1>2, <1>3, <1>9, <2>3, <2>6, <3>1, <3>2 DEF GotNodes
    <3>4. k \in 1 .. Len(ss) /\ Sound(ss[k], announced, secrets)
      BY <1>4, <2>4, <2>6 DEF Fit
    <3>5. Sound(t, announced, secrets) /\ Same(ss[k], t)
      BY <1>5, <3>1, <3>4, RepliedFacts
    <3>6. Fit(tt, packets, announced, secrets) /\ Kin(tt, ss)
      BY <2>4, <3>2, <3>4, <3>5, ReplaceFacts
    <3>7. Fit(tt, packets \cup {}, announced, secrets) /\ SentFor({}, searches) /\ Kin(tt, searches)
      BY <2>4, <3>6, NoPackets, KinKin DEF SentFor
    <3> QED
      BY <1>6, <1>7, <2>2, <3>3, <3>7, HandlerKeeps
  <2> QED
    BY <2>5, <2>6
<1>10. CASE p \notin Broken
  <2>1. blacklist' = blacklist
    BY <1>1, <1>10 DEF GotNodes
  <2>2. blacklist' \subseteq Others
    BY <2>1 DEF SearchInv, Scalars
  <2>3. CASE found = {}
    <3>1. Finish(searches, {})
      BY <1>1, <1>2, <1>10, <2>3 DEF GotNodes
    <3>2. Fit(searches, packets \cup {}, announced, secrets) /\ SentFor({}, searches) /\ Kin(searches, searches)
      BY <1>8, NoPackets DEF SentFor, Kin
    <3> QED
      BY <1>6, <1>7, <2>2, <3>1, <3>2, HandlerKeeps
  <2>4. CASE found # {}
    <3>1. PICK heard : heard = InsertAll(searches[k], nodes)
      OBVIOUS
    <3>2. PICK asked : asked = AskLast(heard)
      OBVIOUS
    <3>3. PICK t : t = InsertReplied(asked.s, p, token)
      OBVIOUS
    <3>4. PICK tt : tt = [searches EXCEPT ![k] = t]
      OBVIOUS
    <3>5. Finish(tt, asked.out)
      BY <1>1, <1>2, <1>3, <1>10, <2>4, <3>1, <3>2, <3>3, <3>4 DEF GotNodes
    <3>6. k \in 1 .. Len(searches) /\ Sound(searches[k], announced, secrets)
      BY <1>4, <1>8, <2>4 DEF Fit
    <3>7. Sound(heard, announced, secrets) /\ Same(searches[k], heard)
      BY <3>1, <3>6, InsertAllFacts
    <3>8. /\ Sound(asked.s, announced, secrets) /\ Same(heard, asked.s)
          /\ Sends(heard, asked.out, announced, secrets)
      BY <3>2, <3>7, AskLastFacts
    <3>9. Sound(t, announced, secrets) /\ Same(asked.s, t)
      BY <1>5, <3>3, <3>8, RepliedFacts
    <3>10. Same(searches[k], t)
      BY <3>7, <3>8, <3>9 DEF Same
    <3>11. Fit(tt, packets, announced, secrets) /\ Kin(tt, searches)
      BY <1>8, <3>4, <3>6, <3>9, <3>10, ReplaceFacts
    <3>12. Fit(tt, packets \cup asked.out, announced, secrets)
      BY <3>8, <3>11, FitMore
    <3>13. SentFor(asked.out, searches)
      BY <3>6, <3>7, <3>8 DEF SentFor, Sends, Same
    <3> QED
      BY <1>6, <1>7, <2>2, <3>5, <3>11, <3>12, <3>13, HandlerKeeps
  <2> QED
    BY <2>3, <2>4
<1> QED
  BY <1>9, <1>10

(* What an acknowledgement of p makes of a node. *)
NodeWithAck(n, p) ==
    IF n.id # p THEN n
    ELSE [n EXCEPT !.justAsked = FALSE, !.lately = TRUE, !.acked = TRUE, !.pinged = 0]
NodesWithAck(s, p) == [j \in 1 .. Len(s.nodes) |-> NodeWithAck(s.nodes[j], p)]

LEMMA NodeWithAckFacts ==
    ASSUME NEW n \in SearchNode, NEW h, NEW A, NEW S, Earned(n, h, A, S), NEW p,
           Once => h \in A[p]
    PROVE  /\ NodeWithAck(n, p) \in SearchNode /\ NodeWithAck(n, p).id = n.id
           /\ Earned(NodeWithAck(n, p), h, A, S)
<1>1. CASE n.id # p
  <2>1. NodeWithAck(n, p) = n
    BY <1>1 DEF NodeWithAck
  <2> QED
    BY <2>1
<1>2. CASE n.id = p
  <2>1. PICK r : r = NodeWithAck(n, p)
    OBVIOUS
  <2>2. r = [n EXCEPT !.justAsked = FALSE, !.lately = TRUE, !.acked = TRUE, !.pinged = 0]
    BY <1>2, <2>1 DEF NodeWithAck
  <2>3. /\ n.id \in Others /\ n.replied \in BOOLEAN /\ n.token \in SearchTokens
    BY DEF SearchNode, SearchTokens
  <2>4. r = [id |-> n.id, pinged |-> 0, replied |-> n.replied, acked |-> TRUE, token |-> n.token,
             justAsked |-> FALSE, lately |-> TRUE]
    BY <2>2 DEF SearchNode
  <2>5. SearchNode = [id : Others, pinged : 0 .. 3, replied : BOOLEAN, acked : BOOLEAN,
                      token : SearchTokens, justAsked : BOOLEAN, lately : BOOLEAN]
    BY DEF SearchNode, SearchTokens
  <2>6. 0 \in 0 .. 3 /\ TRUE \in BOOLEAN /\ FALSE \in BOOLEAN
    OBVIOUS
  <2>7. r \in SearchNode
    BY <2>3, <2>4, <2>5, <2>6
  <2>8. r.id = n.id /\ r.replied = n.replied /\ r.token = n.token
    BY <2>4
  <2>9. Earned(r, h, A, S)
    BY <1>2, <2>8 DEF Earned
  <2> QED
    BY <2>1, <2>7, <2>8, <2>9
<1> QED
  BY <1>1, <1>2

LEMMA AckedKeeps ==
    ASSUME NEW s, NEW A, NEW S, Sound(s, A, S), NEW p, Once => s.target \in A[p],
           NEW t, t = [s EXCEPT !.nodes = NodesWithAck(s, p)]
    PROVE  Sound(t, A, S) /\ Same(s, t)
<1>1. /\ Len(s.nodes) \in Nat
      /\ \A j \in 1 .. Len(s.nodes) : s.nodes[j] \in SearchNode /\ Earned(s.nodes[j], s.target, A, S)
  BY NodeOf
<1>2. PICK q : q = NodesWithAck(s, p)
  OBVIOUS
<1>3. ASSUME NEW j \in 1 .. Len(s.nodes)
      PROVE  /\ NodeWithAck(s.nodes[j], p) \in SearchNode
             /\ NodeWithAck(s.nodes[j], p).id = s.nodes[j].id
             /\ Earned(NodeWithAck(s.nodes[j], p), s.target, A, S)
  BY <1>1, NodeWithAckFacts
<1>4. /\ q \in [1 .. Len(s.nodes) -> SearchNode]
      /\ \A j \in 1 .. Len(s.nodes) : q[j].id = s.nodes[j].id /\ Earned(q[j], s.target, A, S)
  BY <1>2, <1>3 DEF NodesWithAck
<1>5. t = [s EXCEPT !.nodes = q]
  BY <1>2
<1> QED
  BY <1>4, <1>5, ChangedFacts

LEMMA AckKeeps ==
    ASSUME SearchInv, NEW m \in packets, GotAck(m)
    PROVE  SearchInv' /\ CompleteStep
<1>1. /\ m.peer \in Others /\ Genuine(m, announced, secrets)
      /\ Once => \A i \in 1 .. Len(searches) : searches[i].tid = m.tid => searches[i].target = m.target
  BY PacketFacts
<1>2. PICK found : found = FindSearch(searches, m.tid)
  OBVIOUS
<1>3. PICK k : k = Min(found)
  OBVIOUS
<1>4. found # {} => k \in 1 .. Len(searches) /\ searches[k].tid = m.tid
  BY <1>2, <1>3, FoundFacts
<1>5. /\ m.type = "announced" /\ Arrival
      /\ UNCHANGED <<searchId, blacklist, secrets, announced, searchCalls>>
  BY DEF GotAck
<1>6. arrivals' \in 0 .. MaxArrivals /\ blacklist' \subseteq Others
  BY <1>5, ArrivalFacts DEF SearchInv, Scalars
<1>7. Fit(searches, packets, announced, secrets)
  BY DEF SearchInv
<1>8. CASE found = {}
  <2>1. Finish(searches, {})
    BY <1>2, <1>8 DEF GotAck
  <2>2. Fit(searches, packets \cup {}, announced, secrets) /\ SentFor({}, searches) /\ Kin(searches, searches)
    BY <1>7, NoPackets DEF SentFor, Kin
  <2> QED
    BY <1>5, <1>6, <2>1, <2>2, HandlerKeeps
<1>9. CASE found # {}
  <2>1. PICK q : q = NodesWithAck(searches[k], m.peer)
    OBVIOUS
  <2>2. PICK t : t = [searches[k] EXCEPT !.nodes = q]
    OBVIOUS
  <2>3. PICK asked : asked = AskLast(t)
    OBVIOUS
  <2>4. PICK tt : tt = [searches EXCEPT ![k] = asked.s]
    OBVIOUS
  <2>5. Finish(tt, asked.out)
    BY <1>2, <1>3, <1>9, <2>1, <2>2, <2>3, <2>4 DEF GotAck, Each, NodesWithAck, NodeWithAck
  <2>6. k \in 1 .. Len(searches) /\ Sound(searches[k], announced, secrets)
    BY <1>4, <1>7, <1>9 DEF Fit
  <2>7. Once => searches[k].target \in announced[m.peer]
    BY <1>1, <1>4, <1>5, <1>9 DEF Genuine
  <2>8. Sound(t, announced, secrets) /\ Same(searches[k], t)
    BY <1>1, <2>1, <2>2, <2>6, <2>7, AckedKeeps
  <2>9. /\ Sound(asked.s, announced, secrets) /\ Same(t, asked.s)
        /\ Sends(t, asked.out, announced, secrets)
    BY <2>3, <2>8, AskLastFacts
  <2>10. Same(searches[k], asked.s)
    BY <2>8, <2>9 DEF Same
  <2>11. Fit(tt, packets, announced, secrets) /\ Kin(tt, searches)
    <3>1. PICK u : u = asked.s
      OBVIOUS
    <3>2. Sound(u, announced, secrets) /\ Same(searches[k], u) /\ tt = [searches EXCEPT ![k] = u]
      BY <2>4, <2>9, <2>10, <3>1
    <3> QED
      BY <1>7, <2>6, <3>2, ReplaceFacts
  <2>12. Fit(tt, packets \cup asked.out, announced, secrets)
    BY <2>9, <2>11, FitMore
  <2>13. SentFor(asked.out, searches)
    BY <2>6, <2>8, <2>9 DEF SentFor, Sends, Same
  <2> QED
    BY <1>5, <1>6, <2>5, <2>11, <2>12, <2>13, HandlerKeeps
<1> QED
  BY <1>8, <1>9

---------------------------------------------------------------------------
(* dht_search *)

BegunSearch(tt, Q, ss, P, k, A, S) ==
    /\ Fit(tt, Q, A, S) /\ Uses(tt, Q) \subseteq Uses(ss, P)
    /\ Len(tt) = Len(ss) /\ \A j \in 1 .. Len(ss) : j # k => tt[j] = ss[j]
    /\ tt[k].done => Complete(tt[k])

(* Search k of ss takes in what the table knows, and makes its first step. *)
LEMMA BeginFacts ==
    ASSUME NEW ss, NEW P, NEW A, NEW S, Fit(ss, P, A, S), NEW k \in 1 .. Len(ss), ss[k].done = FALSE,
           NEW known \in Seq(Others),
           NEW r, r = SearchStep(InsertAll(ss[k], known)), NEW tt, tt = [ss EXCEPT ![k] = r.s]
    PROVE  BegunSearch(tt, P \cup r.out, ss, P, k, A, S)
<1>1. /\ ss \in Seq(SearchRecords) /\ Len(ss) \in Nat /\ Len(ss) <= MaxSearches
      /\ Sound(ss[k], A, S) /\ \A j \in 1 .. Len(ss) : Sound(ss[j], A, S)
      /\ \A m \in P : Genuine(m, A, S)
  BY DEF Fit
<1>2. PICK s : s = InsertAll(ss[k], known)
  OBVIOUS
<1>3. Sound(s, A, S) /\ Same(ss[k], s)
  BY <1>1, <1>2, InsertAllFacts
<1>4. StepOf(s, r, A, S)
  BY <1>2, <1>3, StepFacts
<1>5. PICK t : t = r.s
  OBVIOUS
<1>6. /\ Sound(t, A, S) /\ t \in SearchRecords /\ t.tid = ss[k].tid /\ t.target = ss[k].target
      /\ t.done => Complete(t)
  BY <1>3, <1>4, <1>5 DEF StepOf, Same, Sound
<1>7. /\ tt \in Seq(SearchRecords) /\ Len(tt) = Len(ss) /\ tt[k] = t
      /\ \A j \in 1 .. Len(ss) : j # k => tt[j] = ss[j]
  BY <1>1, <1>5, <1>6
<1>8. \A m \in r.out : Genuine(m, A, S) /\ m.tid = ss[k].tid /\ m.target = ss[k].target
  BY <1>3, <1>4 DEF StepOf, Sends, Same
<1>9. \A j \in 1 .. Len(tt) : Sound(tt[j], A, S)
  BY <1>1, <1>6, <1>7
<1>10. Fit(tt, P \cup r.out, A, S)
  BY <1>1, <1>7, <1>8, <1>9 DEF Fit
<1>11. ASSUME NEW u \in Uses(tt, P \cup r.out)
       PROVE  u \in Uses(ss, P)
  <2>1. CASE \E j \in 1 .. Len(tt) : u = <<tt[j].tid, tt[j].target>>
    <3>1. PICK j \in 1 .. Len(ss) : u = <<tt[j].tid, tt[j].target>>
      BY <1>7, <2>1
    <3>2. tt[j].tid = ss[j].tid /\ tt[j].target = ss[j].target
      BY <1>6, <1>7
    <3> QED
      BY <3>1, <3>2 DEF Uses
  <2>2. CASE \E m \in P : u = <<m.tid, m.target>>
    BY <2>2 DEF Uses
  <2>3. CASE \E m \in r.out : u = <<m.tid, m.target>>
    BY <1>8, <2>3 DEF Uses
  <2> QED
    BY <2>1, <2>2, <2>3 DEF Uses
<1> QED
  BY <1>6, <1>7, <1>10, <1>11 DEF BegunSearch

IsPut(tt, ss, k, t) ==
    /\ Len(tt) = Len(ss) /\ tt[k] = t
    /\ \A j \in 1 .. Len(ss) : j # k => tt[j] = ss[j]

LEMMA PutFacts ==
    ASSUME NEW ss, NEW P, NEW A, NEW S, Fit(ss, P, A, S), NEW k \in 1 .. Len(ss),
           NEW t, Sound(t, A, S), NEW tt, tt = [ss EXCEPT ![k] = t]
    PROVE  Fit(tt, P, A, S) /\ IsPut(tt, ss, k, t)
<1>1. ss \in Seq(SearchRecords) /\ Len(ss) \in Nat /\ Len(ss) <= MaxSearches
  BY DEF Fit
<1>2. t \in SearchRecords
  BY DEF Sound
<1>3. tt \in Seq(SearchRecords) /\ Len(tt) = Len(ss) /\ tt[k] = t
      /\ \A j \in 1 .. Len(ss) : j # k => tt[j] = ss[j]
  BY <1>1, <1>2
<1>4. \A j \in 1 .. Len(tt) : Sound(tt[j], A, S)
  BY <1>3 DEF Fit
<1> QED
  BY <1>1, <1>3, <1>4 DEF Fit, IsPut

IsInFront(tt, ss, t) ==
    /\ Len(tt) = Len(ss) + 1 /\ tt[1] = t
    /\ \A j \in 2 .. Len(tt) : j - 1 \in 1 .. Len(ss) /\ tt[j] = ss[j - 1]

LEMMA FrontFacts ==
    ASSUME NEW ss, NEW P, NEW A, NEW S, Fit(ss, P, A, S), Len(ss) < MaxSearches,
           NEW t, Sound(t, A, S), NEW tt, tt = <<t>> \o ss
    PROVE  Fit(tt, P, A, S) /\ IsInFront(tt, ss, t)
<1>1. ss \in Seq(SearchRecords) /\ Len(ss) \in Nat
  BY DEF Fit
<1>2. t \in SearchRecords
  BY DEF Sound
<1>3. tt \in Seq(SearchRecords) /\ Len(tt) = Len(ss) + 1 /\ tt[1] = t
      /\ \A j \in 2 .. Len(tt) : j - 1 \in 1 .. Len(ss) /\ tt[j] = ss[j - 1]
  BY <1>1, <1>2
<1>4. Len(tt) <= MaxSearches
  BY <1>1, <1>3, DhtSearchAssumption
<1>5. \A j \in 1 .. Len(tt) : Sound(tt[j], A, S)
  <2> SUFFICES ASSUME NEW j \in 1 .. Len(tt)
               PROVE  Sound(tt[j], A, S)
    OBVIOUS
  <2>1. CASE j = 1
    BY <1>3, <2>1
  <2>2. CASE j # 1
    <3>1. j \in 2 .. Len(tt)
      BY <1>1, <1>3, <2>2
    <3> QED
      BY <1>3, <3>1 DEF Fit
  <2> QED
    BY <2>1, <2>2
<1> QED
  BY <1>3, <1>4, <1>5 DEF Fit, IsInFront

(* Search k of ss is begun; the others are as they were. *)
LEMMA BegunKeeps ==
    ASSUME SearchInv, NEW ss, NEW k \in 1 .. Len(ss), Fit(ss, packets, announced, secrets),
           ss[k].done = FALSE, NEW known \in Seq(Others),
           NEW r, r = SearchStep(InsertAll(ss[k], known)),
           searches' = [ss EXCEPT ![k] = r.s], packets' = packets \cup r.out,
           searchTime' = "now", searchId' \in Tids, searchCalls' \in 0 .. MaxSearchCalls,
           UNCHANGED <<blacklist, secrets, announced, arrivals>>,
           \A j \in 1 .. Len(ss) : j # k => \E i \in 1 .. Len(searches) : ss[j] = searches[i],
           Once => Numbered(Uses(ss, packets), searchId', searchCalls')
    PROVE  SearchInv' /\ CompleteStep
<1>1. PICK tt : tt = searches'
  OBVIOUS
<1>2. PICK Q : Q = packets'
  OBVIOUS
<1>3. PICK A : A = announced
  OBVIOUS
<1>4. PICK S : S = secrets
  OBVIOUS
<1>5. PICK P : P = packets
  OBVIOUS
<1>6. tt = [ss EXCEPT ![k] = r.s] /\ Q = P \cup r.out /\ Fit(ss, P, A, S)
  BY <1>1, <1>2, <1>3, <1>4, <1>5
<1>7. /\ Fit(tt, P \cup r.out, A, S) /\ Uses(tt, P \cup r.out) \subseteq Uses(ss, P)
      /\ Len(tt) = Len(ss) /\ \A j \in 1 .. Len(ss) : j # k => tt[j] = ss[j]
      /\ tt[k].done => Complete(tt[k])
  <2>1. BegunSearch(tt, P \cup r.out, ss, P, k, A, S)
    BY <1>6, BeginFacts
  <2> QED
    BY <2>1 DEF BegunSearch
<1>8. Fit(searches', packets', announced', secrets')
  BY <1>1, <1>2, <1>3, <1>4, <1>6, <1>7
<1>9. Once => Numbered(Uses(searches', packets'), searchId', searchCalls')
  BY <1>1, <1>2, <1>5, <1>6, <1>7, FewerNumbered
<1>10. Scalars'
  BY DEF SearchInv, Scalars
<1>11. SearchInv'
  BY <1>8, <1>9, <1>10 DEF SearchInv
<1>12. ASSUME NEW j \in 1 .. Len(tt), tt[j].done
       PROVE  \/ Complete(tt[j])
              \/ \E i \in 1 .. Len(searches) : searches[i].tid = tt[j].tid /\ searches[i].done
  <2>1. CASE j = k
    BY <1>7, <1>12, <2>1
  <2>2. CASE j # k
    <3>1. j \in 1 .. Len(ss) /\ tt[j] = ss[j]
      BY <1>7, <2>2
    <3>2. PICK i \in 1 .. Len(searches) : ss[j] = searches[i]
      BY <2>2, <3>1
    <3> QED
      BY <1>12, <3>1, <3>2
  <2> QED
    BY <2>1, <2>2
<1>13. CompleteStep
  BY <1>1, <1>12 DEF CompleteStep
<1> QED
  BY <1>11, <1>13

(* The number of a new search was not in use. *)
LEMMA NextNumber ==
    ASSUME NEW U, NEW V, NEW h, NEW c \in 0 .. MaxSearchCalls, c < MaxSearchCalls,
           NEW id \in Tids, Numbered(U, id, c), V \subseteq U \cup {<<id, h>>}, Once,
           \A u \in U : u[1] \in Int
    PROVE  Numbered(V, (id + 1) % TidSpan, c + 1)
<1>1. id <= c /\ (\A u \in U : u[1] < id) /\ \A u, v \in U : u[1] = v[1] => u[2] = v[2]
  BY DEF Numbered
<1>2. ASSUME NEW u \in V, NEW v \in V, u[1] = v[1]
      PROVE  u[2] = v[2]
  <2>1. u \in U \/ u = <<id, h>>
    OBVIOUS
  <2>2. v \in U \/ v = <<id, h>>
    OBVIOUS
  <2>3. id \in Int
    BY DEF Tids
  <2>4. u \in U => u[1] # id
    BY <1>1, <2>3
  <2>5. v \in U => v[1] # id
    BY <1>1, <2>3
  <2>6. <<id, h>>[1] = id
    OBVIOUS
  <2>7. CASE u \in U /\ v \in U
    BY <1>1, <1>2, <2>7
  <2>8. CASE u = <<id, h>> /\ v = <<id, h>>
    BY <2>8
  <2> QED
    BY <1>2, <2>1, <2>2, <2>4, <2>5, <2>6, <2>7, <2>8
<1>3. MaxSearchCalls \in Nat /\ TidSpan \in Nat /\ MaxSearchCalls <= TidSpan /\ id \in Nat /\ c \in Nat
  BY DhtSearchAssumption DEF Once, Tids
<1>4. CASE c + 1 = MaxSearchCalls
  BY <1>2, <1>4 DEF Numbered
<1>5. CASE c + 1 # MaxSearchCalls
  <2>1. id + 1 <= c + 1 /\ id + 1 < TidSpan /\ 0 <= id + 1
    BY <1>1, <1>3, <1>5
  <2>2. (id + 1) % TidSpan = id + 1
    BY <1>3, <2>1
  <2>3. \A u \in V : u[1] < id + 1
    <3> SUFFICES ASSUME NEW u \in V
                 PROVE  u[1] < id + 1
      OBVIOUS
    <3>1. CASE u \in U
      <4>1. u[1] \in Int /\ u[1] < id
        BY <1>1, <3>1
      <4> QED
        BY <1>3, <4>1
    <3>2. CASE u = <<id, h>>
      <4>1. u[1] = id
        BY <3>2
      <4> QED
        BY <1>3, <4>1
    <3> QED
      BY <3>1, <3>2
  <2>4. PICK x : x = (id + 1) % TidSpan
    OBVIOUS
  <2>5. x <= c + 1 /\ \A u \in V : u[1] < x
    BY <2>1, <2>2, <2>3, <2>4
  <2> QED
    BY <1>2, <2>4, <2>5 DEF Numbered
<1> QED
  BY <1>4, <1>5

LEMMA UsesAreNumbers ==
    ASSUME SearchInv
    PROVE  \A u \in Uses(searches, packets) : u[1] \in Int
<1> SUFFICES ASSUME NEW u \in Uses(searches, packets)
             PROVE  u[1] \in Int
  OBVIOUS
<1>1. Tids \subseteq Int
  BY DEF Tids
<1>2. CASE \E k \in 1 .. Len(searches) : u = <<searches[k].tid, searches[k].target>>
  <2>1. PICK k \in 1 .. Len(searches) : u = <<searches[k].tid, searches[k].target>>
    BY <1>2
  <2>2. Sound(searches[k], announced, secrets)
    BY DEF SearchInv, Fit
  <2>3. searches[k].tid \in Tids
    BY <2>2, NodeOf
  <2> QED
    BY <1>1, <2>1, <2>3
<1>3. CASE \E m \in packets : u = <<m.tid, m.target>>
  <2>1. PICK m \in packets : u = <<m.tid, m.target>>
    BY <1>3
  <2>2. m.tid \in Tids
    BY DEF SearchInv, Fit, Genuine, Packets
  <2> QED
    BY <1>1, <2>1, <2>2
<1> QED
  BY <1>2, <1>3 DEF Uses

(* A search that is made, or taken up again. *)
NewRecord(h, announce) ==
    [target |-> h, tid |-> searchId, announce |-> announce, done |-> FALSE, step |-> 2, nodes |-> <<>>]

LEMMA NewFacts ==
    ASSUME SearchInv, NEW h \in Targets, NEW announce \in BOOLEAN, NEW A, NEW S
    PROVE  /\ Sound(NewRecord(h, announce), A, S) /\ NewRecord(h, announce).done = FALSE
           /\ NewRecord(h, announce).tid = searchId /\ NewRecord(h, announce).target = h
<1>1. PICK t : t = NewRecord(h, announce)
  OBVIOUS
<1>2. t = [target |-> h, tid |-> searchId, announce |-> announce, done |-> FALSE, step |-> 2,
           nodes |-> <<>>]
  BY <1>1 DEF NewRecord
<1>3. searchId \in Tids /\ 2 \in 0 .. 2 /\ FALSE \in BOOLEAN /\ <<>> \in Seq(SearchNode)
  BY DEF SearchInv, Scalars
<1>4. t \in SearchRecords
  <2>1. PICK X : X = Seq(SearchNode)
    OBVIOUS
  <2> QED
    BY <1>2, <1>3, <2>1 DEF SearchRecords
<1>5. t.nodes = <<>> /\ t.done = FALSE /\ t.tid = searchId /\ t.target = h
  BY <1>2
<1>6. Len(t.nodes) = 0 /\ \A j \in 1 .. Len(t.nodes) : FALSE
  BY <1>5
<1>7. Len(t.nodes) <= SearchNodes
  BY <1>6, DhtSearchAssumption
<1>8. Sorted(t.nodes, t.target)
  BY <1>6 DEF Sorted
<1>9. Sound(t, A, S)
  BY <1>4, <1>6, <1>7, <1>8 DEF Sound
<1> QED
  BY <1>1, <1>5, <1>9

Again(s, announce) == [Renewed(s) EXCEPT !.announce = announce]

LEMMA AgainFacts ==
    ASSUME NEW s, NEW A, NEW S, Sound(s, A, S), NEW announce \in BOOLEAN
    PROVE  /\ Sound(Again(s, announce), A, S) /\ Again(s, announce).done = FALSE
           /\ Again(s, announce).tid = s.tid /\ Again(s, announce).target = s.target
<1>1. PICK t : t = Renewed(s)
  OBVIOUS
<1>2. /\ Sound(t, A, S) /\ t.tid = s.tid /\ t.target = s.target /\ t.done = FALSE
  BY <1>1, RenewedFacts
<1>3. t \in SearchRecords
  BY <1>2 DEF Sound
<1>4. PICK u : u = [t EXCEPT !.announce = announce]
  OBVIOUS
<1>5. /\ u.tid = t.tid /\ u.target = t.target /\ u.nodes = t.nodes /\ u.done = t.done
  BY <1>3, <1>4 DEF SearchRecords
<1>6. u \in SearchRecords
  <2>1. PICK X : X = Seq(SearchNode)
    OBVIOUS
  <2> QED
    BY <1>3, <1>4, <2>1 DEF SearchRecords
<1>7. Sound(u, A, S)
  BY <1>2, <1>5, <1>6 DEF Sound
<1>8. Again(s, announce) = u
  BY <1>1, <1>4 DEF Again
<1> QED
  BY <1>2, <1>5, <1>7, <1>8

LEMMA ListFacts ==
    /\ KnownLists \subseteq Seq(Others)
    /\ \A p : Lists(p) \subseteq Seq(Others)
<1>1. \A n \in 0 .. Cardinality(Others) : n \in Nat
  <2>1. Cardinality(Others) \in Nat
    BY DhtSearchAssumption, FS_CardinalityType
  <2> QED
    BY <2>1
<1>2. ASSUME NEW q \in KnownLists
      PROVE  q \in Seq(Others)
  <2>1. PICK n \in 0 .. Cardinality(Others) : q \in [1 .. n -> Others]
    BY DEF KnownLists
  <2> QED
    BY <1>1, <2>1, FunctionSeq
<1>3. ASSUME NEW p, NEW q \in Lists(p)
      PROVE  q \in Seq(Others)
  <2>1. CASE q = <<>>
    BY <2>1
  <2>2. CASE q # <<>>
    <3>1. PICK n \in Others \ {p} : q = <<n>>
      BY <2>2 DEF Lists
    <3> QED
      BY <3>1
  <2> QED
    BY <2>1, <2>2
<1> QED
  BY <1>2, <1>3

LEMMA IdFacts ==
    ASSUME SearchInv
    PROVE  searchId \in Tids /\ (searchId + 1) % TidSpan \in Tids
<1>1. searchId \in Tids /\ TidSpan \in Nat /\ TidSpan > 0
  BY DhtSearchAssumption DEF SearchInv, Scalars
<1>2. searchId + 1 \in Int
  BY <1>1 DEF Tids
<1>3. (searchId + 1) % TidSpan \in 0 .. TidSpan - 1
  BY <1>1, <1>2
<1> QED
  BY <1>1, <1>3 DEF Tids

(* A search for a hash that is in progress or was done. *)
LEMMA AgainKeeps ==
    ASSUME SearchInv, NEW h \in Targets, NEW announce \in BOOLEAN, NEW known \in Seq(Others),
           NEW k \in 1 .. Len(searches), searchCalls < MaxSearchCalls, searchCalls' = searchCalls + 1,
           NEW ss, Fit(ss, packets, announced, secrets), Len(ss) = Len(searches),
           ss[k] = Again(searches[k], announce),
           \A j \in 1 .. Len(searches) : j # k => ss[j] = searches[j],
           NEW r, r = SearchStep(InsertAll(ss[k], known)),
           searches' = [ss EXCEPT ![k] = r.s], packets' = packets \cup r.out,
           searchId' = searchId, searchTime' = "now",
           UNCHANGED <<blacklist, secrets, announced, arrivals>>
    PROVE  SearchInv' /\ CompleteStep
<1>1. Fit(searches, packets, announced, secrets) /\ Sound(searches[k], announced, secrets)
  BY DEF SearchInv, Fit
<1>2. PICK t : t = Again(searches[k], announce)
  OBVIOUS
<1>3. /\ Sound(t, announced, secrets) /\ t.done = FALSE
      /\ t.tid = searches[k].tid /\ t.target = searches[k].target
  BY <1>1, <1>2, AgainFacts
<1>5. ss[k] = t
  BY <1>2
<1>6. k \in 1 .. Len(ss) /\ ss[k].done = FALSE
      /\ \A j \in 1 .. Len(ss) : j # k => \E i \in 1 .. Len(searches) : ss[j] = searches[i]
  BY <1>3, <1>5
<1>7. Uses(ss, packets) \subseteq Uses(searches, packets)
  <2> SUFFICES ASSUME NEW u \in Uses(ss, packets)
               PROVE  u \in Uses(searches, packets)
    OBVIOUS
  <2>1. CASE \E j \in 1 .. Len(ss) : u = <<ss[j].tid, ss[j].target>>
    <3>1. PICK j \in 1 .. Len(searches) : u = <<ss[j].tid, ss[j].target>>
      BY <2>1
    <3>2. ss[j].tid = searches[j].tid /\ ss[j].target = searches[j].target
      BY <1>3, <1>5
    <3> QED
      BY <3>1, <3>2 DEF Uses
  <2>2. CASE \E m \in packets : u = <<m.tid, m.target>>
    BY <2>2 DEF Uses
  <2> QED
    BY <2>1, <2>2 DEF Uses
<1>8. searchCalls \in 0 .. MaxSearchCalls /\ searchId \in Tids /\ MaxSearchCalls \in Nat
  BY DhtSearchAssumption DEF SearchInv, Scalars
<1>9. searchCalls' \in 0 .. MaxSearchCalls /\ searchId' \in Tids
  BY <1>8
<1>10. ASSUME Once
       PROVE  Numbered(Uses(ss, packets), searchId', searchCalls')
  <2>1. PICK U : U = Uses(ss, packets)
    OBVIOUS
  <2>2. Numbered(U, searchId, searchCalls)
    BY <1>7, <1>10, <2>1, FewerNumbered DEF SearchInv
  <2>3. searchId \in Int
    BY <1>8 DEF Tids
  <2>4. Numbered(U, searchId', searchCalls')
    BY <1>8, <2>2, <2>3 DEF Numbered
  <2> QED
    BY <2>1, <2>4
<1> QED
  BY <1>6, <1>9, <1>10, BegunKeeps

(* A search for a new hash. *)
LEMMA FreshKeeps ==
    ASSUME SearchInv, NEW h \in Targets, NEW announce \in BOOLEAN, NEW known \in Seq(Others),
           searchCalls < MaxSearchCalls, searchCalls' = searchCalls + 1,
           NEW ss, NEW k \in 1 .. Len(ss), Fit(ss, packets, announced, secrets),
           ss[k] = NewRecord(h, announce),
           \A j \in 1 .. Len(ss) : j # k => \E i \in 1 .. Len(searches) : ss[j] = searches[i],
           NEW r, r = SearchStep(InsertAll(ss[k], known)),
           searches' = [ss EXCEPT ![k] = r.s], packets' = packets \cup r.out,
           searchId' = (searchId + 1) % TidSpan, searchTime' = "now",
           UNCHANGED <<blacklist, secrets, announced, arrivals>>
    PROVE  SearchInv' /\ CompleteStep
<1>1. ss[k].done = FALSE /\ ss[k].tid = searchId /\ ss[k].target = h
  <2>1. PICK t : t = NewRecord(h, announce)
    OBVIOUS
  <2>2. t.done = FALSE /\ t.tid = searchId /\ t.target = h
    BY <2>1, NewFacts, Zenon
  <2> QED
    BY <2>1, <2>2
<1>2. Uses(ss, packets) \subseteq Uses(searches, packets) \cup {<<searchId, h>>}
  <2> SUFFICES ASSUME NEW u \in Uses(ss, packets)
               PROVE  u \in Uses(searches, packets) \/ u = <<searchId, h>>
    OBVIOUS
  <2>1. CASE \E j \in 1 .. Len(ss) : u = <<ss[j].tid, ss[j].target>>
    <3>1. PICK j \in 1 .. Len(ss) : u = <<ss[j].tid, ss[j].target>>
      BY <2>1
    <3>2. CASE j = k
      BY <1>1, <3>1, <3>2
    <3>3. CASE j # k
      <4>1. PICK i \in 1 .. Len(searches) : ss[j] = searches[i]
        BY <3>3
      <4> QED
        BY <3>1, <4>1 DEF Uses
    <3> QED
      BY <3>2, <3>3
  <2>2. CASE \E m \in packets : u = <<m.tid, m.target>>
    BY <2>2 DEF Uses
  <2> QED
    BY <2>1, <2>2 DEF Uses
<1>3. searchCalls \in 0 .. MaxSearchCalls /\ MaxSearchCalls \in Nat
  BY DhtSearchAssumption DEF SearchInv, Scalars
<1>4. searchCalls' \in 0 .. MaxSearchCalls
  BY <1>3
<1>5. searchId \in Tids /\ searchId' \in Tids
  BY IdFacts
<1>6. ASSUME Once
      PROVE  Numbered(Uses(ss, packets), searchId', searchCalls')
  <2>1. PICK U : U = Uses(searches, packets)
    OBVIOUS
  <2>2. PICK V : V = Uses(ss, packets)
    OBVIOUS
  <2>3. Numbered(U, searchId, searchCalls) /\ \A u \in U : u[1] \in Int
    BY <1>6, <2>1, UsesAreNumbers DEF SearchInv
  <2>4. V \subseteq U \cup {<<searchId, h>>}
    BY <1>2, <2>1, <2>2
  <2>5. PICK c \in 0 .. MaxSearchCalls : c = searchCalls
    BY <1>3
  <2>6. PICK id \in Tids : id = searchId
    BY <1>5
  <2>7. c < MaxSearchCalls /\ Numbered(U, id, c) /\ V \subseteq U \cup {<<id, h>>}
    BY <2>3, <2>4, <2>5, <2>6
  <2>8. Numbered(V, (id + 1) % TidSpan, c + 1)
    BY <1>6, <2>3, <2>7, NextNumber
  <2> QED
    BY <2>2, <2>5, <2>6, <2>8
<1> QED
  BY <1>1, <1>4, <1>5, <1>6, BegunKeeps

LEMMA SearchKeeps ==
    ASSUME SearchInv, NEW h \in Targets, NEW announce \in BOOLEAN, NEW known \in KnownLists,
           Search(h, announce, known)
    PROVE  SearchInv' /\ CompleteStep
<1> DEFINE same == {k \in 1 .. Len(searches) : searches[k].target = h}
           Makes(ss, k) ==
             LET r == SearchStep(InsertAll(ss[k], known))
             IN  searches' = [ss EXCEPT ![k] = r.s] /\ packets' = packets \cup r.out
<1>1. known \in Seq(Others)
  BY ListFacts
<1>2. /\ searchCalls < MaxSearchCalls /\ searchCalls' = searchCalls + 1 /\ searchTime' = "now"
      /\ UNCHANGED <<blacklist, secrets, announced, arrivals>>
  BY DEF Search
<1>3. Fit(searches, packets, announced, secrets) /\ Len(searches) \in Nat
  BY DEF SearchInv, Fit
<1>4. CASE same # {}
  <2>1. PICK k : k = Min(same)
    OBVIOUS
  <2>2. same \subseteq Nat
    BY <1>3
  <2>3. k \in same
    BY <1>4, <2>1, <2>2, MinFacts
  <2>4. k \in 1 .. Len(searches)
    BY <2>3
  <2>5. PICK t : t = Again(searches[k], announce)
    OBVIOUS
  <2>6. PICK ss : ss = [searches EXCEPT ![k] = t]
    OBVIOUS
  <2>7. Makes(ss, k) /\ searchId' = searchId
    BY <1>4, <2>1, <2>5, <2>6 DEF Search, Again
  <2>8. Sound(t, announced, secrets)
    BY <1>3, <2>4, <2>5, AgainFacts DEF Fit
  <2>9. /\ Fit(ss, packets, announced, secrets) /\ Len(ss) = Len(searches) /\ ss[k] = t
        /\ \A j \in 1 .. Len(searches) : j # k => ss[j] = searches[j]
    <3>1. Fit(ss, packets, announced, secrets) /\ IsPut(ss, searches, k, t)
      BY <1>3, <2>4, <2>6, <2>8, PutFacts
    <3> QED
      BY <3>1 DEF IsPut
  <2>10. PICK r : r = SearchStep(InsertAll(ss[k], known))
    OBVIOUS
  <2>11. searches' = [ss EXCEPT ![k] = r.s] /\ packets' = packets \cup r.out
    BY <2>7, <2>10
  <2>12. ss[k] = Again(searches[k], announce)
    BY <2>5, <2>9
  <2> HIDE DEF same, Makes
  <2> QED
    BY <1>1, <1>2, <2>4, <2>7, <2>9, <2>10, <2>11, <2>12, AgainKeeps
<1>5. CASE same = {}
  <2>1. searchId' = (searchId + 1) % TidSpan
    BY <1>5 DEF Search
  <2>2. PICK new : new = NewRecord(h, announce)
    OBVIOUS
  <2>3. PICK slot \in NewSearch : IF slot = <<>> THEN Makes(<<new>> \o searches, 1)
                                  ELSE Makes([searches EXCEPT ![slot[1]] = new], slot[1])
    BY <1>5, <2>2 DEF Search, NewRecord
  <2>4. Sound(new, announced, secrets)
    BY <2>2, NewFacts, Zenon
  <2>5. PICK ss, k : /\ k \in 1 .. Len(ss) /\ Fit(ss, packets, announced, secrets) /\ ss[k] = new
                     /\ \A j \in 1 .. Len(ss) : j # k => \E i \in 1 .. Len(searches) : ss[j] = searches[i]
                     /\ Makes(ss, k)
    <3>1. CASE slot = <<>>
      <4>1. Len(searches) < MaxSearches
        BY <3>1 DEF NewSearch
      <4>2. PICK tt : tt = <<new>> \o searches
        OBVIOUS
      <4>3. /\ Fit(tt, packets, announced, secrets) /\ Len(tt) = Len(searches) + 1 /\ tt[1] = new
            /\ \A j \in 2 .. Len(tt) : j - 1 \in 1 .. Len(searches) /\ tt[j] = searches[j - 1]
        <5>1. Fit(tt, packets, announced, secrets) /\ IsInFront(tt, searches, new)
          BY <1>3, <2>4, <4>1, <4>2, FrontFacts
        <5> QED
          BY <5>1 DEF IsInFront
      <4>4. 1 \in 1 .. Len(tt) /\ \A j \in 1 .. Len(tt) : j # 1 => j \in 2 .. Len(tt)
        BY <1>3, <4>3
      <4>5. \A j \in 1 .. Len(tt) : j # 1 => \E i \in 1 .. Len(searches) : tt[j] = searches[i]
        BY <4>3, <4>4
      <4>6. Makes(tt, 1)
        BY <2>3, <3>1, <4>2
      <4> HIDE DEF Makes
      <4> QED
        BY <4>3, <4>4, <4>5, <4>6
    <3>2. CASE slot # <<>>
      <4>1. PICK k \in 1 .. Len(searches) : slot = <<k>>
        BY <3>2 DEF NewSearch
      <4>2. PICK tt : tt = [searches EXCEPT ![k] = new]
        OBVIOUS
      <4>3. /\ Fit(tt, packets, announced, secrets) /\ Len(tt) = Len(searches) /\ tt[k] = new
            /\ \A j \in 1 .. Len(searches) : j # k => tt[j] = searches[j]
        <5>1. Fit(tt, packets, announced, secrets) /\ IsPut(tt, searches, k, new)
          BY <1>3, <2>4, <4>2, PutFacts
        <5> QED
          BY <5>1 DEF IsPut
      <4>4. slot[1] = k
        BY <4>1
      <4>5. Makes(tt, k)
        BY <2>3, <3>2, <4>2, <4>4
      <4> HIDE DEF Makes
      <4> QED
        BY <4>3, <4>5
    <3> QED
      BY <3>1, <3>2
  <2>6. PICK r : r = SearchStep(InsertAll(ss[k], known))
    OBVIOUS
  <2>7. searches' = [ss EXCEPT ![k] = r.s] /\ packets' = packets \cup r.out
    BY <2>5, <2>6
  <2>8. ss[k] = NewRecord(h, announce)
    BY <2>2, <2>5
  <2> HIDE DEF same, Makes
  <2> QED
    BY <1>1, <1>2, <2>1, <2>5, <2>6, <2>7, <2>8, FreshKeeps
<1> QED
  BY <1>4, <1>5

---------------------------------------------------------------------------
(* The peers, and time. *)

(* What was in order stays so when a peer accepts or draws more. *)
LEMMA GrownFacts ==
    ASSUME NEW ss, NEW P, NEW A, NEW S, Fit(ss, P, A, S), NEW B, NEW T,
           \A p \in Others : A[p] \subseteq B[p],
           \A p \in Others : 1 .. S[p][1] \subseteq 1 .. T[p][1]
    PROVE  Fit(ss, P, B, T)
<1>1. ASSUME NEW n \in SearchNode, NEW h, Earned(n, h, A, S)
      PROVE  Earned(n, h, B, T)
  <2>1. n.id \in Others
    BY DEF SearchNode
  <2>2. A[n.id] \subseteq B[n.id] /\ 1 .. S[n.id][1] \subseteq 1 .. T[n.id][1]
    BY <2>1
  <2> QED
    BY <1>1, <2>2 DEF Earned
<1>2. ASSUME NEW s, Sound(s, A, S)
      PROVE  Sound(s, B, T)
  <2>1. \A j \in 1 .. Len(s.nodes) : s.nodes[j] \in SearchNode /\ Earned(s.nodes[j], s.target, A, S)
    BY <1>2, NodeOf
  <2>2. \A j \in 1 .. Len(s.nodes) : Earned(s.nodes[j], s.target, B, T)
    BY <1>1, <2>1
  <2> QED
    BY <1>2, <2>2 DEF Sound
<1>3. ASSUME NEW m, Genuine(m, A, S)
      PROVE  Genuine(m, B, T)
  <2>1. m.peer \in Others
    BY <1>3 DEF Genuine, Packets
  <2>2. A[m.peer] \subseteq B[m.peer] /\ 1 .. S[m.peer][1] \subseteq 1 .. T[m.peer][1]
    BY <2>1
  <2> QED
    BY <1>3, <2>2 DEF Genuine
<1> QED
  BY <1>2, <1>3 DEF Fit

LEMMA UnchangedSearches ==
    ASSUME searches' = searches
    PROVE  CompleteStep
BY DEF CompleteStep

LEMMA PeerAnnounceKeeps ==
    ASSUME SearchInv, NEW m \in packets, PeerAnnounce(m)
    PROVE  SearchInv' /\ CompleteStep
<1>1. UNCHANGED <<searches, searchTime, searchId, blacklist, secrets, searchCalls, arrivals>>
  BY DEF PeerAnnounce
<1>2. CompleteStep
  BY <1>1, UnchangedSearches
<1>3. Genuine(m, announced, secrets) /\ Fit(searches, packets, announced, secrets)
  BY DEF SearchInv, Fit
<1>4. CASE TokenMatch(m.peer, m.token)
  <2>1. PICK w : w = [m EXCEPT !.type = "announced", !.token = NoToken]
    OBVIOUS
  <2>2. PICK B : B = [announced EXCEPT ![m.peer] = @ \cup {m.target}]
    OBVIOUS
  <2>3. packets' = packets \cup {w} /\ announced' = B
    BY <1>4, <2>1, <2>2 DEF PeerAnnounce
  <2>4. m \in Packets
    BY <1>3 DEF Genuine
  <2>5. /\ w = [type |-> "announced", peer |-> m.peer, tid |-> m.tid, target |-> m.target, token |-> NoToken]
        /\ m.peer \in Others /\ m.target \in Targets /\ m.tid \in Tids
    BY <2>1, <2>4 DEF Packets
  <2>6. NoToken \in SearchTokens
    BY DEF SearchTokens
  <2>7. /\ w \in Packets /\ w.type = "announced" /\ w.peer = m.peer /\ w.target = m.target
        /\ w.tid = m.tid
    BY <2>5, <2>6 DEF Packets
  <2>8. announced \in [Others -> SUBSET Targets]
    BY DEF SearchInv, Scalars
  <2>9. /\ B \in [Others -> SUBSET Targets] /\ m.target \in B[m.peer]
        /\ \A p \in Others : announced[p] \subseteq B[p]
    BY <2>2, <2>5, <2>8
  <2>10. Fit(searches, packets, B, secrets)
    BY <1>3, <2>9, GrownFacts
  <2>11. Genuine(w, B, secrets)
    BY <2>7, <2>9 DEF Genuine
  <2>12. Fit(searches, packets \cup {w}, B, secrets)
    BY <2>10, <2>11 DEF Fit
  <2>13. Uses(searches, packets \cup {w}) \subseteq Uses(searches, packets)
    BY <2>7 DEF Uses
  <2>14. Once => Numbered(Uses(searches', packets'), searchId', searchCalls')
    BY <1>1, <2>3, <2>13, FewerNumbered DEF SearchInv
  <2>15. Scalars'
    BY <1>1, <2>3, <2>9 DEF SearchInv, Scalars
  <2>16. Fit(searches', packets', announced', secrets')
    BY <1>1, <2>3, <2>12
  <2> QED
    BY <1>2, <2>14, <2>15, <2>16 DEF SearchInv
<1>5. CASE ~TokenMatch(m.peer, m.token)
  <2>1. UNCHANGED <<packets, announced>>
    BY <1>5 DEF PeerAnnounce
  <2>2. Scalars'
    BY <1>1, <2>1 DEF SearchInv, Scalars
  <2> QED
    BY <1>1, <1>2, <2>1, <2>2 DEF SearchInv
<1> QED
  BY <1>4, <1>5

LEMMA RotateKeeps ==
    ASSUME SearchInv, NEW p \in Others, RotateSecrets(p)
    PROVE  SearchInv' /\ CompleteStep
<1>1. UNCHANGED <<searches, searchTime, searchId, blacklist, packets, announced, searchCalls, arrivals>>
  BY DEF RotateSecrets
<1>2. CompleteStep
  BY <1>1, UnchangedSearches
<1>3. PICK k \in 1 .. MaxRotations + 1 : secrets[p] = <<k, k - 1>>
  BY DEF SearchInv, Scalars
<1>4. secrets[p][1] = k /\ MaxRotations \in Nat
  BY <1>3, DhtSearchAssumption
<1>5. k <= MaxRotations /\ secrets' = [secrets EXCEPT ![p] = <<k + 1, k>>]
  BY <1>4 DEF RotateSecrets
<1>6. PICK T : T = secrets'
  OBVIOUS
<1>7. DOMAIN secrets = Others /\ \A q \in Others : \E j \in 1 .. MaxRotations + 1 : secrets[q] = <<j, j - 1>>
  BY DEF SearchInv, Scalars
<1>8. DOMAIN T = Others /\ T[p] = <<k + 1, k>> /\ T = [q \in Others |-> T[q]]
      /\ \A q \in Others : q # p => T[q] = secrets[q]
  BY <1>5, <1>6, <1>7
<1>9. k + 1 \in 1 .. MaxRotations + 1 /\ k = (k + 1) - 1
  BY <1>4, <1>5
<1>10. \A q \in Others : \E j \in 1 .. MaxRotations + 1 : T[q] = <<j, j - 1>>
  BY <1>7, <1>8, <1>9
<1>11. \A q \in Others : 1 .. secrets[q][1] \subseteq 1 .. T[q][1]
  <2> SUFFICES ASSUME NEW q \in Others
               PROVE  1 .. secrets[q][1] \subseteq 1 .. T[q][1]
    OBVIOUS
  <2>1. CASE q = p
    <3>1. secrets[q][1] = k /\ T[q][1] = k + 1
      BY <1>4, <1>8, <2>1
    <3> QED
      BY <3>1
  <2>2. CASE q # p
    BY <1>8, <2>2
  <2> QED
    BY <2>1, <2>2
<1>12. Fit(searches, packets, announced, T)
  <2>1. Fit(searches, packets, announced, secrets) /\ \A q \in Others : announced[q] \subseteq announced[q]
    BY DEF SearchInv
  <2> QED
    BY <1>11, <2>1, GrownFacts
<1>13. Scalars'
  BY <1>1, <1>6, <1>8, <1>10 DEF SearchInv, Scalars
<1> QED
  BY <1>1, <1>2, <1>6, <1>12, <1>13 DEF SearchInv

LEMMA MaxPair ==
    ASSUME NEW a \in Nat, NEW b \in Nat
    PROVE  Max({a, b}) \in {a, b}
<1>1. PICK x \in {a, b} : \A y \in {a, b} : x >= y
  <2>1. CASE a >= b
    BY <2>1
  <2>2. CASE ~(a >= b)
    BY <2>2
  <2> QED
    BY <2>1, <2>2
<1> QED
  BY <1>1, Zenon DEF Max

(* What time makes of a node and of a search. *)
OlderNode(n, d) == [n EXCEPT !.justAsked = FALSE, !.lately = @ /\ d < 2]
OlderNodes(s, d) == [j \in 1 .. Len(s.nodes) |-> OlderNode(s.nodes[j], d)]
Older(s, d) == [s EXCEPT !.step = Max({@, d}), !.nodes = OlderNodes(s, d)]

LEMMA OlderNodeFacts ==
    ASSUME NEW n \in SearchNode, NEW d, NEW h, NEW A, NEW S, Earned(n, h, A, S)
    PROVE  /\ OlderNode(n, d) \in SearchNode /\ OlderNode(n, d).id = n.id
           /\ Earned(OlderNode(n, d), h, A, S)
<1>1. PICK b \in BOOLEAN : b = (n.lately /\ d < 2)
  OBVIOUS
<1>2. PICK r : r = OlderNode(n, d)
  OBVIOUS
<1>3. r = [n EXCEPT !.justAsked = FALSE, !.lately = b]
  BY <1>1, <1>2, Zenon DEF OlderNode
<1>4. /\ n.id \in Others /\ n.replied \in BOOLEAN /\ n.token \in SearchTokens
      /\ n.acked \in BOOLEAN /\ n.pinged \in 0 .. 3
  BY DEF SearchNode, SearchTokens
<1>5. r = [id |-> n.id, pinged |-> n.pinged, replied |-> n.replied, acked |-> n.acked, token |-> n.token,
           justAsked |-> FALSE, lately |-> b]
  BY <1>3 DEF SearchNode
<1>6. SearchNode = [id : Others, pinged : 0 .. 3, replied : BOOLEAN, acked : BOOLEAN,
                    token : SearchTokens, justAsked : BOOLEAN, lately : BOOLEAN]
  BY DEF SearchNode, SearchTokens
<1>7. FALSE \in BOOLEAN
  OBVIOUS
<1>8. r \in SearchNode
  BY <1>4, <1>5, <1>6, <1>7
<1>9. r.id = n.id /\ r.replied = n.replied /\ r.token = n.token /\ r.acked = n.acked
  BY <1>5
<1>10. Earned(r, h, A, S)
  BY <1>9 DEF Earned
<1> QED
  BY <1>2, <1>8, <1>9, <1>10

LEMMA OlderFacts ==
    ASSUME NEW s, NEW A, NEW S, Sound(s, A, S), NEW d \in 1 .. 2
    PROVE  /\ Sound(Older(s, d), A, S) /\ Older(s, d).tid = s.tid /\ Older(s, d).target = s.target
           /\ Older(s, d).done = s.done
<1>1. /\ s \in SearchRecords /\ Len(s.nodes) \in Nat
      /\ \A j \in 1 .. Len(s.nodes) : s.nodes[j] \in SearchNode /\ Earned(s.nodes[j], s.target, A, S)
  BY NodeOf
<1>2. PICK q : q = OlderNodes(s, d)
  OBVIOUS
<1>3. ASSUME NEW j \in 1 .. Len(s.nodes)
      PROVE  /\ OlderNode(s.nodes[j], d) \in SearchNode /\ OlderNode(s.nodes[j], d).id = s.nodes[j].id
             /\ Earned(OlderNode(s.nodes[j], d), s.target, A, S)
  BY <1>1, OlderNodeFacts
<1>4. /\ q \in [1 .. Len(s.nodes) -> SearchNode]
      /\ \A j \in 1 .. Len(s.nodes) : q[j].id = s.nodes[j].id /\ Earned(q[j], s.target, A, S)
  BY <1>2, <1>3 DEF OlderNodes
<1>5. PICK t : t = [s EXCEPT !.nodes = q]
  OBVIOUS
<1>6. Sound(t, A, S) /\ Same(s, t) /\ t.nodes = q
  BY <1>4, <1>5, ChangedFacts
<1>7. s.step \in 0 .. 2 /\ s.step \in Nat /\ d \in Nat
  BY <1>1 DEF SearchRecords
<1>8. PICK x \in 0 .. 2 : x = Max({s.step, d})
  BY <1>7, MaxPair
<1>9. PICK u : u = Older(s, d)
  OBVIOUS
<1>10. u = [s EXCEPT !.step = x, !.nodes = q]
  BY <1>2, <1>8, <1>9 DEF Older
<1>11. /\ u.tid = s.tid /\ u.target = s.target /\ u.done = s.done /\ u.nodes = q
  BY <1>1, <1>10 DEF SearchRecords
<1>12. q \in Seq(SearchNode)
  BY <1>1, <1>4, FunctionSeq
<1>13. u \in SearchRecords
  <2>1. PICK X : X = Seq(SearchNode)
    OBVIOUS
  <2> QED
    BY <1>1, <1>10, <1>12, <2>1 DEF SearchRecords
<1>14. Sound(u, A, S)
  BY <1>6, <1>11, <1>13 DEF Sound, Same
<1> QED
  BY <1>9, <1>11, <1>14

LEMMA TickKeeps ==
    ASSUME SearchInv, NEW d \in 1 .. 2, Tick(d)
    PROVE  SearchInv' /\ CompleteStep
<1>1. /\ UNCHANGED <<searchId, blacklist, packets, secrets, announced, searchCalls, arrivals>>
      /\ searchTime' = IF searchTime = "none" THEN "none" ELSE "now"
  BY DEF Tick
<1>2. PICK tt : tt = searches'
  OBVIOUS
<1>3. tt = [k \in 1 .. Len(searches) |-> Older(searches[k], d)]
  BY <1>2 DEF Tick, Each, Older, OlderNodes, OlderNode
<1>4. /\ searches \in Seq(SearchRecords) /\ Len(searches) \in Nat /\ Len(searches) <= MaxSearches
      /\ \A k \in 1 .. Len(searches) : Sound(searches[k], announced, secrets)
      /\ \A m \in packets : Genuine(m, announced, secrets)
  BY DEF SearchInv, Fit
<1>5. ASSUME NEW k \in 1 .. Len(searches)
      PROVE  /\ tt[k] \in SearchRecords /\ Sound(tt[k], announced, secrets) /\ tt[k].tid = searches[k].tid
             /\ tt[k].target = searches[k].target /\ tt[k].done = searches[k].done
  <2>1. PICK t : t = Older(searches[k], d)
    OBVIOUS
  <2>2. /\ Sound(t, announced, secrets) /\ t.tid = searches[k].tid /\ t.target = searches[k].target
        /\ t.done = searches[k].done
    BY <1>4, <2>1, OlderFacts
  <2>3. t \in SearchRecords /\ tt[k] = t
    BY <1>3, <2>1, <2>2 DEF Sound
  <2> QED
    BY <2>2, <2>3
<1>6. tt \in [1 .. Len(searches) -> SearchRecords]
  BY <1>3, <1>5
<1>7. tt \in Seq(SearchRecords) /\ Len(tt) = Len(searches)
  BY <1>4, <1>6, FunctionSeq
<1>8. Fit(tt, packets, announced, secrets)
  BY <1>4, <1>5, <1>7 DEF Fit
<1>9. Kin(tt, searches) /\ SentFor({}, searches)
  BY <1>5, <1>7 DEF Kin, SentFor
<1>10. Uses(tt, packets) \subseteq Uses(searches, packets)
  <2>1. packets \cup {} = packets
    OBVIOUS
  <2>2. Uses(tt, packets \cup {}) \subseteq Uses(searches, packets)
    BY <1>9, KinUses
  <2> QED
    BY <2>1, <2>2
<1>11. Once => Numbered(Uses(searches', packets'), searchId', searchCalls')
  BY <1>1, <1>2, <1>10, FewerNumbered DEF SearchInv
<1>12. Scalars'
  BY <1>1 DEF SearchInv, Scalars
<1>13. Fit(searches', packets', announced', secrets')
  BY <1>1, <1>2, <1>8
<1>14. SearchInv'
  BY <1>11, <1>12, <1>13 DEF SearchInv
<1>15. CompleteStep
  BY <1>2, <1>5, <1>7 DEF CompleteStep
<1> QED
  BY <1>14, <1>15

---------------------------------------------------------------------------
(* The searches as a whole. *)

LEMMA SearchInitInv ==
    ASSUME SearchInit
    PROVE  SearchInv
<1>1. /\ searches = <<>> /\ searchTime = "none" /\ searchId = 0 /\ blacklist = {} /\ packets = {}
      /\ secrets = [p \in Others |-> <<1, 0>>] /\ announced = [p \in Others |-> {}]
      /\ searchCalls = 0 /\ arrivals = 0
  BY DEF SearchInit
<1>2. 0 \in Tids /\ 0 \in 0 .. MaxSearchCalls /\ 0 \in 0 .. MaxArrivals /\ 1 \in 1 .. MaxRotations + 1
      /\ 0 <= MaxSearches
  BY DhtSearchAssumption DEF Tids
<1>3. \A p \in Others : secrets[p] = <<1, 1 - 1>>
  BY <1>1
<1>4. secrets = [p \in Others |-> secrets[p]] /\ DOMAIN secrets = Others
  BY <1>1
<1>5. announced \in [Others -> SUBSET Targets]
  BY <1>1
<1>6. Scalars
  BY <1>1, <1>2, <1>3, <1>4, <1>5 DEF Scalars
<1>7. searches \in Seq(SearchRecords) /\ Len(searches) = 0
  BY <1>1
<1>8. Fit(searches, packets, announced, secrets)
  BY <1>1, <1>2, <1>7 DEF Fit
<1>9. Uses(searches, packets) = {}
  BY <1>1, <1>7 DEF Uses
<1>10. Numbered(Uses(searches, packets), searchId, searchCalls)
  BY <1>1, <1>9 DEF Numbered
<1> QED
  BY <1>6, <1>8, <1>10 DEF SearchInv

LEMMA SearchNextInv ==
    ASSUME SearchInv, SearchNext
    PROVE  SearchInv' /\ CompleteStep
<1>1. CASE Idle
  BY <1>1, IdleKeeps
<1>2. ASSUME NEW m \in packets, NEW nodes \in Lists(m.peer), NEW token \in Tokens(m.peer),
             GotNodes(m, nodes, token)
      PROVE  SearchInv' /\ CompleteStep
  <2>1. nodes \in Seq(Others)
    BY ListFacts
  <2> QED
    BY <1>2, <2>1, NodesKeeps
<1>3. ASSUME NEW m \in packets, GotTruncated(m) \/ GotAck(m) \/ PeerAnnounce(m)
      PROVE  SearchInv' /\ CompleteStep
  BY <1>3, TruncatedKeeps, AckKeeps, PeerAnnounceKeeps
<1>4. ASSUME NEW h \in Targets, NEW announce \in BOOLEAN, NEW known \in KnownLists,
             Search(h, announce, known)
      PROVE  SearchInv' /\ CompleteStep
  BY <1>4, SearchKeeps, Zenon
<1>5. ASSUME NEW p \in Others \ Broken, RotateSecrets(p)
      PROVE  SearchInv' /\ CompleteStep
  BY <1>5, RotateKeeps
<1>6. ASSUME NEW d \in 1 .. 2, Tick(d)
      PROVE  SearchInv' /\ CompleteStep
  BY <1>6, TickKeeps
<1> QED
  BY <1>1, <1>2, <1>3, <1>4, <1>5, <1>6, Zenon DEF SearchNext

LEMMA SearchStutters ==
    ASSUME SearchInv, UNCHANGED searchVars
    PROVE  SearchInv' /\ CompleteStep
<1>1. UNCHANGED <<searches, searchTime, searchId, blacklist, packets, secrets, announced, searchCalls, arrivals>>
  BY DEF searchVars
<1>2. Scalars'
  BY <1>1 DEF SearchInv, Scalars
<1>3. SearchInv'
  BY <1>1, <1>2 DEF SearchInv
<1> QED
  BY <1>1, <1>3, UnchangedSearches

(* The searches and the packets stay in order. *)
THEOREM SearchInvariance == SearchSpec => []SearchInv
<1>1. SearchInit => SearchInv
  BY SearchInitInv
<1>2. SearchInv /\ [SearchNext]_searchVars => SearchInv'
  BY SearchNextInv, SearchStutters
<1> QED
  BY <1>1, <1>2, PTL DEF SearchSpec

(* SearchSorted: whatever arrives, in whatever order, a search holds at     *)
(* most SEARCH_NODES nodes, each once and the nearest first; the places of  *)
(* insert_search_node, the flush of a blacklisted node and the renewal of a *)
(* search keep that for every number of nodes.                              *)
THEOREM NodesAreSorted == SearchSpec => []SearchSorted
<1>1. ASSUME SearchInv
      PROVE  SearchSorted
  <2>1. /\ searches \in Seq(SearchRecords) /\ Len(searches) <= MaxSearches
        /\ \A k \in 1 .. Len(searches) : Sound(searches[k], announced, secrets)
    BY <1>1 DEF SearchInv, Fit
  <2>2. \A s \in Range(searches) : Sound(s, announced, secrets)
    BY <2>1, RangeFacts
  <2>3. ASSUME NEW s \in Range(searches)
        PROVE  /\ s.target \in Targets /\ s.tid \in Tids /\ s.announce \in BOOLEAN
               /\ s.done \in BOOLEAN /\ s.step \in 0 .. 2 /\ Range(s.nodes) \subseteq SearchNode
               /\ Len(s.nodes) <= SearchNodes /\ Sorted(s.nodes, s.target)
    <3>1. s \in SearchRecords /\ Len(s.nodes) <= SearchNodes /\ Sorted(s.nodes, s.target)
      BY <2>2 DEF Sound
    <3>2. /\ s.target \in Targets /\ s.tid \in Tids /\ s.announce \in BOOLEAN
          /\ s.done \in BOOLEAN /\ s.step \in 0 .. 2 /\ s.nodes \in Seq(SearchNode)
      BY <3>1 DEF SearchRecords
    <3>3. Range(s.nodes) \subseteq SearchNode
      BY <3>2, RangeFacts
    <3> QED
      BY <3>1, <3>2, <3>3
  <2>4. /\ searchTime \in {"none", "now", "later"} /\ searchId \in Tids
        /\ \A p \in Others : announced[p] \subseteq Targets
    BY <1>1 DEF SearchInv, Scalars
  <2>5. SearchTypes
    BY <2>1, <2>3, <2>4 DEF SearchTypes
  <2> QED
    BY <2>3, <2>5 DEF SearchSorted, Sorted
<1> QED
  BY <1>1, SearchInvariance, PTL

(* AckedWasAnnounced, as long as no number of a search comes round: an      *)
(* acknowledgement, however late and however often it arrives, marks a node *)
(* only in a search for the hash the node accepted, and a token a peer made *)
(* is accepted until it has drawn two secrets more.                         *)
THEOREM AcksAreEarned ==
    ASSUME MaxSearchCalls <= TidSpan
    PROVE  SearchSpec => []AckedWasAnnounced
<1>1. ASSUME SearchInv
      PROVE  AckedWasAnnounced
  <2>1. Once
    BY DEF Once
  <2>2. ASSUME NEW s \in Range(searches), NEW n \in Range(s.nodes), n.acked, n.token # NoToken
        PROVE  s.target \in announced[n.id]
    <3>1. searches \in Seq(SearchRecords)
          /\ \A k \in 1 .. Len(searches) : Sound(searches[k], announced, secrets)
      BY <1>1 DEF SearchInv, Fit
    <3>2. Sound(s, announced, secrets)
      BY <3>1, RangeFacts
    <3>3. /\ s.nodes \in Seq(SearchNode)
          /\ \A j \in 1 .. Len(s.nodes) : Earned(s.nodes[j], s.target, announced, secrets)
      BY <3>2, NodeOf
    <3>4. PICK j \in 1 .. Len(s.nodes) : n = s.nodes[j]
      BY <3>3, RangeFacts
    <3>5. Earned(n, s.target, announced, secrets)
      BY <3>3, <3>4
    <3> QED
      BY <2>1, <2>2, <3>5 DEF Earned
  <2>3. ASSUME NEW m \in packets, m.type = "announce_peer", secrets[m.peer][1] - m.token <= 1
        PROVE  TokenMatch(m.peer, m.token)
    <3>1. m.peer \in Others /\ Genuine(m, announced, secrets)
      BY <1>1, PacketFacts
    <3>2. PICK k \in 1 .. MaxRotations + 1 : secrets[m.peer] = <<k, k - 1>>
      BY <1>1, <3>1 DEF SearchInv, Scalars
    <3>3. secrets[m.peer][1] = k
      BY <3>2
    <3>4. m.token \in 1 .. k /\ k - m.token <= 1 /\ k \in Int
      BY <2>3, <3>1, <3>3 DEF Genuine
    <3>5. m.token = k \/ m.token = k - 1
      BY <3>4
    <3>6. PICK q : q = <<k, k - 1>>
      OBVIOUS
    <3>7. DOMAIN q = 1 .. 2 /\ q[1] = k /\ q[2] = k - 1
      BY <3>6
    <3>8. k \in Range(q) /\ k - 1 \in Range(q)
      BY <3>7 DEF Range
    <3> QED
      BY <3>2, <3>5, <3>6, <3>8 DEF TokenMatch
  <2> QED
    BY <2>2, <2>3 DEF AckedWasAnnounced
<1> QED
  BY <1>1, SearchInvariance, PTL

(* DoneIsComplete: search_step reports SEARCH_DONE only when each of the    *)
(* nearest nodes it has not given up replied and, if the caller announces,  *)
(* acknowledged; no other step of the node marks a search done.             *)
THEOREM DoneMeansComplete == SearchSpec => DoneIsComplete
<1>1. ASSUME SearchInv, [SearchNext]_searchVars
      PROVE  CompleteStep
  BY <1>1, SearchNextInv, SearchStutters
<1>2. ASSUME SearchInv, CompleteStep, NEW k \in 1 .. Len(searches'), searches'[k].done,
             \A r \in Range(searches) : r.tid = searches'[k].tid => ~r.done
      PROVE  \A j \in Live(searches'[k]) :
               searches'[k].nodes[j].replied /\ (searches'[k].announce => searches'[k].nodes[j].acked)
  <2>1. PICK s : s = searches'[k]
    OBVIOUS
  <2>2. searches \in Seq(SearchRecords)
    BY <1>2 DEF SearchInv, Fit
  <2>3. ASSUME NEW i \in 1 .. Len(searches), searches[i].tid = s.tid
        PROVE  ~searches[i].done
    <3>1. searches[i] \in Range(searches)
      BY <2>2, RangeFacts
    <3> QED
      BY <1>2, <2>1, <2>3, <3>1
  <2>4. Complete(s)
    BY <1>2, <2>1, <2>3 DEF CompleteStep
  <2> QED
    BY <2>1, <2>4 DEF Complete
<1>3. SearchInv /\ [SearchNext]_searchVars =>
        [\A k \in 1 .. Len(searches') :
           LET s == searches'[k] IN
           (s.done /\ \A r \in Range(searches) : r.tid = s.tid => ~r.done) =>
              \A j \in Live(s) : s.nodes[j].replied /\ (s.announce => s.nodes[j].acked)]_searchVars
  BY <1>1, <1>2
<1> QED
  BY <1>3, SearchInvariance, PTL DEF SearchSpec, DoneIsComplete
=============================================================================

--------------------------- MODULE WantListProofs ---------------------------
(***************************************************************************)
(* Proofs about WantList, for any callers, any identifiers, any time-out   *)
(* and any number of attempts and calls.                                   *)
(***************************************************************************)
EXTENDS WantList, TLAPS

(* The parts of the type invariant: the two-valued variables, where the    *)
(* threads are, the calls they make, and the list.                         *)
FlagsTypeOK ==
    /\ block \in [Cids -> BOOLEAN]
    /\ asked \in [Cids -> BOOLEAN]
    /\ fresh \in [Threads -> BOOLEAN]
    /\ async \in [Callers -> BOOLEAN]

ThreadTypeOK ==
    /\ mutex \in SUBSET Callers
    /\ pc \in [Threads -> PCs]
    /\ want \in [Threads -> Cids \cup {NoCid}]
    /\ seen \in [Threads -> Int]
    /\ index \in Nat

CallTypeOK ==
    /\ time \in [Callers -> 0..Timeout]
    /\ answer \in [Callers -> Answers]
    /\ phase \in {"open", "stopping", "freed", "crashed"}
    /\ calls \in 0..MaxCalls

ListTypeOK ==
    /\ store \subseteq Cids
    /\ queue \in Seq(Cids)
    /\ total \in [Cids -> Int]
    /\ attempts \in [Cids -> Nat]
    /\ net \in Cids \cup {NoCid}
    /\ requested \subseteq Cids
    /\ received \subseteq Cids
    /\ searches \in [Cids -> Nat]

(* The parts make up TypeOK.                                               *)
LEMMA TypeOKParts ==
    TypeOK <=> FlagsTypeOK /\ ThreadTypeOK /\ CallTypeOK /\ ListTypeOK
BY DEF TypeOK, FlagsTypeOK, ThreadTypeOK, CallTypeOK, ListTypeOK

AddSteps == {"add", "find", "insert", "count"}
RemoveSteps == {"remove", "delete", "shift", "store"}
SearchSteps == {"local", "remote", "mark"}

(* Where a thread can be, and that it works on a cid there.                *)
Places ==
    /\ \A t \in Callers :
          /\ pc[t] \in {"idle", "wait"} \cup AddSteps \cup RemoveSteps
          /\ pc[t] # "idle" => want[t] \in Cids
    /\ pc[Processor] \in {"loop", "exit", "giveup"} \cup SearchSteps \cup RemoveSteps
    /\ pc[Processor] \notin {"loop", "exit"} => want[Processor] \in Cids

(* A caller that has not stopped looking has time left.                    *)
Patient ==
    \A t \in Callers :
        pc[t] \in AddSteps \cup {"idle", "wait"} => time[t] < Timeout

(* queue_add holds the mutex from its lock to its unlock, alone.           *)
Locking ==
    /\ \A t \in Callers : t \in mutex <=> pc[t] \in {"find", "insert", "count"}
    /\ \A s, t \in mutex : s = t

(* Between the lookup and the insert of queue_add what the lookup told     *)
(* stays true, and what a thread works on is in the list.                  *)
Found ==
    /\ \A t \in Callers :
          /\ pc[t] = "insert" => (fresh[t] <=> ~Queued(want[t]))
          /\ pc[t] \in {"count", "wait"} \cup RemoveSteps => Queued(want[t])
    /\ pc[Processor] \notin {"loop", "exit"} => Queued(want[Processor])

(* Entries are served in one direction: wanted, asked for, received.       *)
Served ==
    /\ \A c \in Cids : asked[c] => Queued(c)
    /\ \A c \in requested : Queued(c)
    /\ received \subseteq requested
    /\ net # NoCid => net \in requested
    /\ \A c \in Cids : block[c] => c \in received \cup store
    /\ \A c \in received : block[c]

(* One successful search per cid: counted when it succeeds, marked in the  *)
(* entry a step later, by the only thread that searches.                   *)
Searched ==
    /\ pc[Processor] \in SearchSteps => ~asked[want[Processor]]
    /\ \A c \in Cids :
          searches[c] = IF asked[c] \/ (pc[Processor] = "mark" /\ want[Processor] = c)
                        THEN 1 ELSE 0

(* The engine searches only for entries it has not given up.               *)
Attempted ==
    pc[Processor] \in {"local", "remote"} => attempts[want[Processor]] <= MaxAttempts

(* Close begins when no caller is inside, and ends when the engine is out; *)
(* only the answer to a request can come too late.                         *)
Closing ==
    /\ phase # "open" => \A t \in Callers : pc[t] = "idle"
    /\ phase \in {"freed", "crashed"} => pc[Processor] = "exit"
    /\ phase = "crashed" => requested # {}

(* The inductive invariant.  The properties are not inductive alone:       *)
(* TypeOK needs Patient, OneEntryPerCid needs Found, which in turn         *)
(* needs Locking, and the rest needs that entries stay in the list.        *)
IInv ==
    /\ TypeOK /\ Places /\ Patient /\ Locking /\ Found /\ Served /\ Searched
    /\ Attempted /\ Closing /\ OneEntryPerCid /\ FoundIsReal /\ AttemptsBounded

-----------------------------------------------------------------------------
(* The list only grows, at its end.                                        *)

(* A step that leaves the queue alone leaves the wants in it alone.        *)
LEMMA QueueSame ==
    ASSUME UNCHANGED queue
    PROVE  \A c \in Cids : Queued(c)' <=> Queued(c)
BY DEF Queued

(* An append adds one want to the queue.                                   *)
LEMMA QueueGrows ==
    ASSUME queue \in Seq(Cids), NEW c \in Cids, queue' = Append(queue, c)
    PROVE  \A d \in Cids : Queued(d)' <=> (Queued(d) \/ d = c)
<1>1. SUFFICES ASSUME NEW d \in Cids PROVE Queued(d)' <=> (Queued(d) \/ d = c)
  OBVIOUS
<1>2. /\ Len(queue') = Len(queue) + 1
      /\ queue'[Len(queue) + 1] = c
      /\ \A i \in 1..Len(queue) : queue'[i] = queue[i]
      /\ Len(queue) \in Nat
  OBVIOUS
<1>3. ASSUME Queued(d) \/ d = c PROVE Queued(d)'
  BY <1>2, <1>3 DEF Queued
<1>4. ASSUME Queued(d)' PROVE Queued(d) \/ d = c
  <2>1. PICK i \in 1..Len(queue') : queue'[i] = d
    BY <1>4 DEF Queued
  <2>2. CASE i = Len(queue) + 1
    BY <1>2, <2>1, <2>2
  <2>3. CASE i # Len(queue) + 1
    BY <1>2, <2>1, <2>3 DEF Queued
  <2>4. QED
    BY <2>2, <2>3
<1>5. QED
  BY <1>3, <1>4

-----------------------------------------------------------------------------
(* The type invariant                                                      *)

(* Flags are only ever set to truth values.                                *)
LEMMA FlagsStep ==
    ASSUME FlagsTypeOK, [Next]_vars
    PROVE  FlagsTypeOK'
<1> USE WantListAssumption DEF FlagsTypeOK, entryVars, callVars
<1>1. ASSUME NEW t \in Callers, NEW c \in Cids, NEW isAsync \in BOOLEAN,
             Call(t, c, isAsync)
      PROVE  FlagsTypeOK'
  BY <1>1, Zenon DEF Call
<1>2. ASSUME NEW t \in Callers, AddFind(t)
      PROVE  FlagsTypeOK'
  BY <1>2, Zenon DEF AddFind
<1>3. ASSUME NEW t \in Callers, AddInsert(t)
      PROVE  FlagsTypeOK'
  BY <1>3, Zenon DEF AddInsert
<1>4. CASE ProcessLocal
  BY <1>4, Zenon DEF ProcessLocal
<1>5. CASE MarkAsked
  BY <1>5, Zenon DEF MarkAsked
<1>6. CASE HasBlockFill
  BY <1>6, Zenon DEF HasBlockFill
<1>7. ASSUME NEW t \in Callers, LockWantList(t) \/ AddCount(t) \/ Wait(t)
      PROVE  FlagsTypeOK'
  BY <1>7, Zenon
     DEF LockWantList, AddCount, Wait
<1>8. ASSUME NEW t \in Threads, RemoveStep(t)
      PROVE  FlagsTypeOK'
  BY <1>8, Zenon
     DEF RemoveStep, RemoveTest, Removed, DeleteTest,
         DeleteRead, DeleteWrite
<1>9. ASSUME NEW c \in Cids, HasBlockPut(c)
      PROVE  FlagsTypeOK'
  BY <1>9, Zenon DEF HasBlockPut
<1>10. CASE Pop \/ GiveUp \/ ProcessRemote \/ ProcessorExits \/
            CloseBegins \/ CloseEnds \/ UNCHANGED vars
  BY <1>10, Zenon
     DEF Pop, GiveUp, ProcessRemote, ProcessorExits, CloseBegins, CloseEnds,
         vars
<1> HIDE DEF FlagsTypeOK, entryVars, callVars
<1>11. QED
  BY <1>1, <1>2, <1>3, <1>4, <1>5, <1>6, <1>7, <1>8, <1>9, <1>10
     DEF Next, CallerStep, RemoveStep, ProcessorStep

(* Threads stay within their steps, on cids.                               *)
LEMMA ThreadStep ==
    ASSUME ThreadTypeOK, ListTypeOK, Places, [Next]_vars
    PROVE  ThreadTypeOK'
<1> USE WantListAssumption DEF ThreadTypeOK, ListTypeOK, Places, PCs,
                               Threads, AddSteps, RemoveSteps, SearchSteps,
                               entryVars, callVars, Goto
<1>1. ASSUME NEW t \in Callers, AddInsert(t)
      PROVE  ThreadTypeOK'
  BY <1>1 DEF AddInsert
<1>2. ASSUME NEW t \in Callers, AddCount(t)
      PROVE  ThreadTypeOK'
  BY <1>2 DEF AddCount
<1>3. ASSUME NEW t \in Callers, Wait(t)
      PROVE  ThreadTypeOK'
  BY <1>3 DEF Wait
<1>4. ASSUME NEW t \in Threads, RemoveTest(t) \/ DeleteTest(t)
      PROVE  ThreadTypeOK'
  <2>1. CASE t = Processor
    BY <1>4, <2>1 DEF RemoveTest, DeleteTest, Removed
  <2>2. CASE t # Processor
    BY <1>4, <2>2 DEF RemoveTest, DeleteTest, Removed
  <2>3. QED
    BY <1>4, <2>1, <2>2 DEF RemoveTest, DeleteTest, Removed
<1>5. ASSUME NEW t \in Threads, DeleteRead(t)
      PROVE  ThreadTypeOK'
  BY <1>5 DEF DeleteRead
<1>6. ASSUME NEW t \in Threads, DeleteWrite(t)
      PROVE  ThreadTypeOK'
  <2>1. CASE t = Processor
    <3>1. /\ pc' = [pc EXCEPT ![t] = "giveup"]
          /\ seen' = [seen EXCEPT ![t] = 0]
          /\ index' = index + 1
          /\ UNCHANGED <<mutex, want>>
      BY <1>6, <2>1 DEF DeleteWrite, Removed
    <3>2. QED
      BY <3>1
  <2>2. CASE t # Processor
    <3>1. /\ pc' = [pc EXCEPT ![t] = "idle"]
          /\ seen' = [seen EXCEPT ![t] = 0]
          /\ want' = [want EXCEPT ![t] = NoCid]
          /\ UNCHANGED <<mutex, index>>
      BY <1>6, <2>2 DEF DeleteWrite, Removed
    <3>2. QED
      BY <3>1
  <2>3. QED
    BY <2>1, <2>2
<1>7. CASE Pop
  <2>1. PICK i \in 1..Len(queue) :
                 /\ want' = [want EXCEPT ![Processor] = queue[i]]
                 /\ pc' = [pc EXCEPT ![Processor] =
                               IF TooManyAttempts(queue[i]) THEN "giveup" ELSE "local"]
    BY <1>7 DEF Pop
  <2>2. queue[i] \in Cids
    BY <2>1
  <2>3. QED
    BY <1>7, <2>1, <2>2 DEF Pop
<1>8. ASSUME NEW t \in Callers, NEW c \in Cids, NEW isAsync \in BOOLEAN,
             Call(t, c, isAsync)
      PROVE  ThreadTypeOK'
  <2>1. CASE c \in store
    BY <1>8, <2>1 DEF Call
  <2>2. CASE c \notin store
    <3>1. /\ pc' = [pc EXCEPT ![t] = "add"]
          /\ want' = [want EXCEPT ![t] = c]
          /\ UNCHANGED <<mutex, seen, index>>
      BY <1>8, <2>2 DEF Call
    <3>2. QED
      BY <3>1
  <2>3. QED
    BY <2>1, <2>2
<1>9. ASSUME NEW t \in Callers, LockWantList(t) \/ AddFind(t)
      PROVE  ThreadTypeOK'
  BY <1>9
     DEF LockWantList, AddFind
<1>10. ASSUME NEW c \in Cids, HasBlockPut(c)
      PROVE  ThreadTypeOK'
  BY <1>10 DEF HasBlockPut
<1>11. CASE GiveUp \/ ProcessLocal \/ ProcessRemote \/ MarkAsked \/
            ProcessorExits \/ HasBlockFill \/ CloseBegins \/ CloseEnds \/
            UNCHANGED vars
  BY <1>11
     DEF GiveUp, ProcessLocal, ProcessRemote, MarkAsked, ProcessorExits,
         HasBlockFill, CloseBegins, CloseEnds, vars
<1> HIDE DEF ThreadTypeOK, ListTypeOK, Places, PCs, Threads, AddSteps,
             RemoveSteps, SearchSteps, entryVars, callVars, Goto
<1>12. QED
  BY <1>1, <1>2, <1>3, <1>4, <1>5, <1>6, <1>7, <1>8, <1>9, <1>10, <1>11
     DEF Next, CallerStep, RemoveStep, ProcessorStep

(* The clock of a caller stays within the time-out.                        *)
LEMMA CallsStep ==
    ASSUME CallTypeOK, Patient, [Next]_vars
    PROVE  CallTypeOK'
<1> USE WantListAssumption DEF CallTypeOK, Answers, Patient, AddSteps,
                               RemoveSteps, SearchSteps, entryVars,
                               callVars, Goto
<1>1. ASSUME NEW t \in Callers, NEW c \in Cids, NEW isAsync \in BOOLEAN,
             Call(t, c, isAsync)
      PROVE  CallTypeOK'
  <2>1. CASE c \in store
    BY <1>1, <2>1 DEF Call
  <2>2. CASE c \notin store
    BY <1>1, <2>2 DEF Call
  <2>3. QED
    BY <1>1, <2>1, <2>2 DEF Call
<1>2. ASSUME NEW t \in Callers, Wait(t)
      PROVE  CallTypeOK'
  <2>1. CASE block[want[t]]
    BY <1>2, <2>1 DEF Wait
  <2>2. CASE ~block[want[t]] /\ time[t] + 1 >= Timeout
    BY <1>2, <2>2 DEF Wait
  <2>3. CASE ~block[want[t]] /\ ~(time[t] + 1 >= Timeout)
    BY <1>2, <2>3 DEF Wait
  <2>4. QED
    BY <1>2, <2>1, <2>2, <2>3 DEF Wait
<1>3. ASSUME NEW t \in Callers, LockWantList(t) \/ AddFind(t) \/
                                AddInsert(t) \/ AddCount(t)
      PROVE  CallTypeOK'
  BY <1>3
     DEF LockWantList, AddFind, AddInsert, AddCount
<1>4. ASSUME NEW t \in Threads, RemoveStep(t)
      PROVE  CallTypeOK'
  BY <1>4
     DEF RemoveStep, RemoveTest, Removed, DeleteTest,
         DeleteRead, DeleteWrite
<1>5. ASSUME NEW c \in Cids, HasBlockPut(c)
      PROVE  CallTypeOK'
  BY <1>5 DEF HasBlockPut
<1>6. CASE Pop \/ GiveUp \/ ProcessLocal \/ ProcessRemote \/ MarkAsked \/
           ProcessorExits \/ HasBlockFill \/ CloseBegins \/ CloseEnds \/
           UNCHANGED vars
  BY <1>6
     DEF Pop, GiveUp, ProcessLocal, ProcessRemote, MarkAsked,
         ProcessorExits, HasBlockFill, CloseBegins, CloseEnds, vars
<1> HIDE DEF CallTypeOK, Answers, Patient, AddSteps, RemoveSteps,
             SearchSteps, entryVars, callVars, Goto
<1>7. QED
  BY <1>1, <1>2, <1>3, <1>4, <1>5, <1>6
     DEF Next, CallerStep, RemoveStep, ProcessorStep

(* The list holds cids, and its counters numbers.                          *)
LEMMA ListStep ==
    ASSUME ListTypeOK, ThreadTypeOK, Places, [Next]_vars
    PROVE  ListTypeOK'
<1> USE WantListAssumption DEF ListTypeOK, ThreadTypeOK, Places, Threads,
                               AddSteps, RemoveSteps, SearchSteps,
                               entryVars, callVars, Goto
<1>1. ASSUME NEW t \in Callers, AddInsert(t)
      PROVE  ListTypeOK'
  <2>1. want[t] \in Cids
    BY <1>1 DEF AddInsert
  <2>2. CASE fresh[t]
    <3>1. /\ queue' = Append(queue, want[t])
          /\ total' = [total EXCEPT ![want[t]] = 1]
          /\ attempts' = [attempts EXCEPT ![want[t]] = 0]
          /\ UNCHANGED <<store, net, requested, received, searches>>
      BY <1>1, <2>2 DEF AddInsert
    <3>2. queue' \in Seq(Cids)
      BY <2>1, <3>1
    <3>3. QED
      BY <2>1, <3>1, <3>2
  <2>3. CASE ~fresh[t]
    BY <1>1, <2>3 DEF AddInsert
  <2>4. QED
    BY <2>2, <2>3
<1>2. ASSUME NEW t \in Callers, AddCount(t)
      PROVE  ListTypeOK'
  BY <1>2 DEF AddCount
<1>3. ASSUME NEW t \in Threads, DeleteWrite(t)
      PROVE  ListTypeOK'
  BY <1>3, SMTT(30) DEF DeleteWrite, Removed
<1>4. CASE ProcessRemote
  <2>1. want[Processor] \in Cids
    BY <1>4 DEF ProcessRemote
  <2>2. attempts[want[Processor]] + 1 \in Nat /\ searches[want[Processor]] + 1 \in Nat
    BY <2>1
  <2>3. \/ attempts' = attempts
        \/ attempts' = [attempts EXCEPT ![want[Processor]] = attempts[want[Processor]] + 1]
    BY <1>4 DEF ProcessRemote
  <2>4. \/ searches' = searches
        \/ searches' = [searches EXCEPT ![want[Processor]] = searches[want[Processor]] + 1]
    BY <1>4 DEF ProcessRemote
  <2>5. attempts' \in [Cids -> Nat]
    BY <2>1, <2>3, <2>2
  <2>6. searches' \in [Cids -> Nat]
    BY <2>1, <2>4, <2>2
  <2>7. requested' \subseteq Cids
    BY <1>4, <2>1 DEF ProcessRemote
  <2>8. QED
    BY <1>4, <2>5, <2>6, <2>7 DEF ProcessRemote
<1>5. ASSUME NEW c \in Cids, HasBlockPut(c)
      PROVE  ListTypeOK'
  BY <1>5 DEF HasBlockPut
<1>6. CASE HasBlockFill
  BY <1>6 DEF HasBlockFill
<1>7. ASSUME NEW t \in Callers, NEW c \in Cids, NEW isAsync \in BOOLEAN,
             Call(t, c, isAsync)
      PROVE  ListTypeOK'
  BY <1>7 DEF Call
<1>8. ASSUME NEW t \in Callers, LockWantList(t) \/ AddFind(t) \/ Wait(t)
      PROVE  ListTypeOK'
  BY <1>8
     DEF LockWantList, AddFind, Wait
<1>9. ASSUME NEW t \in Threads, RemoveTest(t) \/ DeleteTest(t) \/ DeleteRead(t)
      PROVE  ListTypeOK'
  BY <1>9
     DEF RemoveTest, DeleteTest, Removed, DeleteRead
<1>10. CASE Pop \/ GiveUp \/ ProcessLocal \/ MarkAsked \/ ProcessorExits \/
            CloseBegins \/ CloseEnds \/ UNCHANGED vars
  BY <1>10
     DEF Pop, GiveUp, ProcessLocal, MarkAsked, ProcessorExits, CloseBegins,
         CloseEnds, vars
<1> HIDE DEF ListTypeOK, ThreadTypeOK, Places, Threads, AddSteps,
             RemoveSteps, SearchSteps, entryVars, callVars, Goto
<1>11. QED
  BY <1>1, <1>2, <1>3, <1>4, <1>5, <1>6, <1>7, <1>8, <1>9, <1>10
     DEF Next, CallerStep, RemoveStep, ProcessorStep

-----------------------------------------------------------------------------
(* The rest of the inductive invariant, part by part                       *)

(* Every thread goes from one of its places to another.                    *)
LEMMA PlacesStep ==
    ASSUME ThreadTypeOK, ListTypeOK, Places, [Next]_vars
    PROVE  Places'
<1> USE WantListAssumption DEF ThreadTypeOK, ListTypeOK, Places, Threads,
                               AddSteps, RemoveSteps, SearchSteps,
                               entryVars, callVars, Goto
<1>1. ASSUME NEW t \in Callers, NEW c \in Cids, NEW isAsync \in BOOLEAN,
             Call(t, c, isAsync)
      PROVE  Places'
  <2>1. CASE c \in store
    BY <1>1, <2>1 DEF Call
  <2>2. CASE c \notin store
    BY <1>1, <2>2 DEF Call
  <2>3. QED
    BY <1>1, <2>1, <2>2 DEF Call
<1>2. ASSUME NEW t \in Callers, AddCount(t)
      PROVE  Places'
  BY <1>2 DEF AddCount
<1>3. ASSUME NEW t \in Callers, Wait(t)
      PROVE  Places'
  BY <1>3 DEF Wait
<1>4. ASSUME NEW t \in Threads, RemoveTest(t) \/ DeleteTest(t)
      PROVE  Places'
  BY <1>4 DEF RemoveTest, DeleteTest, Removed
<1>5. ASSUME NEW t \in Threads, DeleteWrite(t)
      PROVE  Places'
  BY <1>5 DEF DeleteWrite, Removed
<1>6. CASE Pop
  BY <1>6 DEF Pop
<1>7. ASSUME NEW t \in Callers, LockWantList(t) \/ AddFind(t) \/
                                AddInsert(t)
      PROVE  Places'
  BY <1>7
     DEF LockWantList, AddFind, AddInsert
<1>8. ASSUME NEW t \in Threads, DeleteRead(t)
      PROVE  Places'
  BY <1>8 DEF DeleteRead
<1>9. ASSUME NEW c \in Cids, HasBlockPut(c)
      PROVE  Places'
  BY <1>9 DEF HasBlockPut
<1>10. CASE GiveUp \/ ProcessLocal \/ ProcessRemote \/ MarkAsked \/
            ProcessorExits \/ HasBlockFill \/ CloseBegins \/ CloseEnds \/
            UNCHANGED vars
  BY <1>10
     DEF GiveUp, ProcessLocal, ProcessRemote, MarkAsked, ProcessorExits,
         HasBlockFill, CloseBegins, CloseEnds, vars
<1> HIDE DEF ThreadTypeOK, ListTypeOK, Places, Threads, AddSteps,
             RemoveSteps, SearchSteps, entryVars, callVars, Goto
<1>11. QED
  BY <1>1, <1>2, <1>3, <1>4, <1>5, <1>6, <1>7, <1>8, <1>9, <1>10
     DEF Next, CallerStep, RemoveStep, ProcessorStep

(* A caller that looks on has time left.                                   *)
LEMMA PatientStep ==
    ASSUME ThreadTypeOK, CallTypeOK, Places, Patient, [Next]_vars
    PROVE  Patient'
<1> USE WantListAssumption DEF ThreadTypeOK, CallTypeOK, Places, Patient,
                               Threads, AddSteps, RemoveSteps, SearchSteps,
                               entryVars, callVars, Goto
<1>1. ASSUME NEW t \in Callers, NEW c \in Cids, NEW isAsync \in BOOLEAN,
             Call(t, c, isAsync)
      PROVE  Patient'
  <2>1. CASE c \in store
    BY <1>1, <2>1 DEF Call
  <2>2. CASE c \notin store
    BY <1>1, <2>2 DEF Call
  <2>3. QED
    BY <1>1, <2>1, <2>2 DEF Call
<1>2. ASSUME NEW t \in Callers, AddCount(t)
      PROVE  Patient'
  BY <1>2 DEF AddCount
<1>3. ASSUME NEW t \in Callers, Wait(t)
      PROVE  Patient'
  <2>1. CASE block[want[t]]
    BY <1>3, <2>1 DEF Wait
  <2>2. CASE ~block[want[t]] /\ time[t] + 1 >= Timeout
    BY <1>3, <2>2 DEF Wait
  <2>3. CASE ~block[want[t]] /\ ~(time[t] + 1 >= Timeout)
    BY <1>3, <2>3 DEF Wait
  <2>4. QED
    BY <1>3, <2>1, <2>2, <2>3 DEF Wait
<1>4. ASSUME NEW t \in Threads, RemoveTest(t) \/ DeleteTest(t)
      PROVE  Patient'
  BY <1>4 DEF RemoveTest, DeleteTest, Removed
<1>5. ASSUME NEW t \in Threads, DeleteWrite(t)
      PROVE  Patient'
  BY <1>5 DEF DeleteWrite, Removed
<1>6. CASE Pop
  BY <1>6 DEF Pop
<1>7. ASSUME NEW t \in Callers, LockWantList(t) \/ AddFind(t) \/
                                AddInsert(t)
      PROVE  Patient'
  BY <1>7
     DEF LockWantList, AddFind, AddInsert
<1>8. ASSUME NEW t \in Threads, DeleteRead(t)
      PROVE  Patient'
  BY <1>8 DEF DeleteRead
<1>9. ASSUME NEW c \in Cids, HasBlockPut(c)
      PROVE  Patient'
  BY <1>9 DEF HasBlockPut
<1>10. CASE GiveUp \/ ProcessLocal \/ ProcessRemote \/ MarkAsked \/
            ProcessorExits \/ HasBlockFill \/ CloseBegins \/ CloseEnds \/
            UNCHANGED vars
  BY <1>10
     DEF GiveUp, ProcessLocal, ProcessRemote, MarkAsked, ProcessorExits,
         HasBlockFill, CloseBegins, CloseEnds, vars
<1> HIDE DEF ThreadTypeOK, CallTypeOK, Places, Patient, Threads, AddSteps,
             RemoveSteps, SearchSteps, entryVars, callVars, Goto
<1>11. QED
  BY <1>1, <1>2, <1>3, <1>4, <1>5, <1>6, <1>7, <1>8, <1>9, <1>10
     DEF Next, CallerStep, RemoveStep, ProcessorStep

(* The mutex is taken by one thread of queue_add at a time.                *)
LEMMA LockingStep ==
    ASSUME ThreadTypeOK, ListTypeOK, Places, Locking, [Next]_vars
    PROVE  Locking'
<1> USE WantListAssumption DEF ThreadTypeOK, ListTypeOK, Places, Locking,
                               Threads, AddSteps, RemoveSteps, SearchSteps,
                               entryVars, callVars, Goto
<1>1. ASSUME NEW t \in Callers, NEW c \in Cids, NEW isAsync \in BOOLEAN,
             Call(t, c, isAsync)
      PROVE  Locking'
  BY <1>1 DEF Call
<1>2. ASSUME NEW t \in Callers, LockWantList(t)
      PROVE  Locking'
  BY <1>2 DEF LockWantList
<1>3. ASSUME NEW t \in Callers, AddCount(t)
      PROVE  Locking'
  BY <1>3 DEF AddCount
<1>4. ASSUME NEW t \in Threads, RemoveTest(t) \/ DeleteTest(t)
      PROVE  Locking'
  BY <1>4 DEF RemoveTest, DeleteTest, Removed
<1>5. ASSUME NEW t \in Threads, DeleteWrite(t)
      PROVE  Locking'
  BY <1>5 DEF DeleteWrite, Removed
<1>6. CASE Pop
  BY <1>6 DEF Pop
<1>7. ASSUME NEW t \in Callers, AddFind(t) \/ AddInsert(t) \/ Wait(t)
      PROVE  Locking'
  BY <1>7
     DEF AddFind, AddInsert, Wait
<1>8. ASSUME NEW t \in Threads, DeleteRead(t)
      PROVE  Locking'
  BY <1>8 DEF DeleteRead
<1>9. ASSUME NEW c \in Cids, HasBlockPut(c)
      PROVE  Locking'
  BY <1>9 DEF HasBlockPut
<1>10. CASE GiveUp \/ ProcessLocal \/ ProcessRemote \/ MarkAsked \/
            ProcessorExits \/ HasBlockFill \/ CloseBegins \/ CloseEnds \/
            UNCHANGED vars
  BY <1>10
     DEF GiveUp, ProcessLocal, ProcessRemote, MarkAsked, ProcessorExits,
         HasBlockFill, CloseBegins, CloseEnds, vars
<1> HIDE DEF ThreadTypeOK, ListTypeOK, Places, Locking, Threads, AddSteps,
             RemoveSteps, SearchSteps, entryVars, callVars, Goto
<1>11. QED
  BY <1>1, <1>2, <1>3, <1>4, <1>5, <1>6, <1>7, <1>8, <1>9, <1>10
     DEF Next, CallerStep, RemoveStep, ProcessorStep

(* What a thread found stays true when no thread gets anywhere new.        *)
LEMMA FoundKept ==
    ASSUME Found, Places,
           \A d \in Cids : Queued(d)' <=> Queued(d),
           UNCHANGED fresh,
           \A u \in Callers :
              /\ pc'[u] = "insert" => pc[u] = "insert" /\ want'[u] = want[u]
              /\ pc'[u] \in {"count", "wait"} \cup RemoveSteps =>
                    pc[u] \in {"count", "wait"} \cup RemoveSteps /\ want'[u] = want[u],
           pc'[Processor] \notin {"loop", "exit"} =>
              pc[Processor] \notin {"loop", "exit"} /\ want'[Processor] = want[Processor]
    PROVE  Found'
BY DEF Found, Places, RemoveSteps

(* What queue_find told holds until the insert.                            *)
LEMMA FoundStep ==
    ASSUME FlagsTypeOK, ThreadTypeOK, ListTypeOK, Places, Locking, Found, [Next]_vars
    PROVE  Found'
<1> USE WantListAssumption DEF ThreadTypeOK, ListTypeOK, Places, Locking,
                               Found, Threads, AddSteps, RemoveSteps,
                               SearchSteps, entryVars, callVars, Goto
<1>1. ASSUME NEW t \in Callers, NEW c \in Cids, NEW isAsync \in BOOLEAN,
             Call(t, c, isAsync)
      PROVE  Found'
  <2>1. \A d \in Cids : Queued(d)' <=> Queued(d)
    BY <1>1, QueueSame DEF Call
  <2>2. \A u \in Callers :
           /\ pc'[u] = "insert" => pc[u] = "insert" /\ want'[u] = want[u]
           /\ pc'[u] \in {"count", "wait"} \cup RemoveSteps =>
                 pc[u] \in {"count", "wait"} \cup RemoveSteps /\ want'[u] = want[u]
    BY <1>1 DEF Call
  <2>3. pc'[Processor] \notin {"loop", "exit"} =>
           pc[Processor] \notin {"loop", "exit"} /\ want'[Processor] = want[Processor]
    BY <1>1 DEF Call
  <2>4. fresh' = fresh
    BY <1>1 DEF Call
  <2>5. QED
    BY <2>1, <2>2, <2>3, <2>4, FoundKept
<1>2. ASSUME NEW t \in Callers, AddFind(t)
      PROVE  Found'
  <2>1. fresh'[t] <=> ~Queued(want[t])
    BY <1>2, Zenon DEF AddFind, FlagsTypeOK
  <2>2. \A u \in Callers \ {t} : fresh'[u] = fresh[u]
    BY <1>2, Zenon DEF AddFind, FlagsTypeOK
  <2>3. QED
    BY <1>2, <2>1, <2>2, QueueSame DEF AddFind
<1>3. ASSUME NEW t \in Callers, AddInsert(t)
      PROVE  Found'
  <2>1. CASE fresh[t]
    <3>1. want[t] \in Cids /\ queue' = Append(queue, want[t])
      BY <1>3, <2>1 DEF AddInsert
    <3>2. \A d \in Cids : Queued(d)' <=> (Queued(d) \/ d = want[t])
      BY <3>1, QueueGrows
    <3>3. \A u \in Callers : pc[u] = "insert" => u = t
      BY <1>3 DEF AddInsert
    <3>4. QED
      BY <1>3, <2>1, <3>1, <3>2, <3>3 DEF AddInsert
  <2>2. CASE ~fresh[t]
    BY <1>3, <2>2, QueueSame DEF AddInsert
  <2>3. QED
    BY <2>1, <2>2
<1>4. ASSUME NEW t \in Callers, AddCount(t)
      PROVE  Found'
  BY <1>4, QueueSame DEF AddCount
<1>5. ASSUME NEW t \in Callers, Wait(t)
      PROVE  Found'
  <2>1. \A d \in Cids : Queued(d)' <=> Queued(d)
    BY <1>5, QueueSame DEF Wait
  <2>2. \A u \in Callers :
           /\ pc'[u] = "insert" => pc[u] = "insert" /\ want'[u] = want[u]
           /\ pc'[u] \in {"count", "wait"} \cup RemoveSteps =>
                 pc[u] \in {"count", "wait"} \cup RemoveSteps /\ want'[u] = want[u]
    BY <1>5 DEF Wait
  <2>3. pc'[Processor] \notin {"loop", "exit"} =>
           pc[Processor] \notin {"loop", "exit"} /\ want'[Processor] = want[Processor]
    BY <1>5 DEF Wait
  <2>4. fresh' = fresh
    BY <1>5 DEF Wait
  <2>5. QED
    BY <2>1, <2>2, <2>3, <2>4, FoundKept
<1>6. ASSUME NEW t \in Threads, RemoveTest(t) \/ DeleteTest(t)
      PROVE  Found'
  <2>1. \A d \in Cids : Queued(d)' <=> Queued(d)
    BY <1>6, QueueSame DEF RemoveTest, DeleteTest, Removed
  <2>2. \A u \in Callers :
           /\ pc'[u] = "insert" => pc[u] = "insert" /\ want'[u] = want[u]
           /\ pc'[u] \in {"count", "wait"} \cup RemoveSteps =>
                 pc[u] \in {"count", "wait"} \cup RemoveSteps /\ want'[u] = want[u]
    BY <1>6 DEF RemoveTest, DeleteTest, Removed
  <2>3. pc'[Processor] \notin {"loop", "exit"} =>
           pc[Processor] \notin {"loop", "exit"} /\ want'[Processor] = want[Processor]
    BY <1>6 DEF RemoveTest, DeleteTest, Removed
  <2>4. fresh' = fresh
    BY <1>6 DEF RemoveTest, DeleteTest, Removed
  <2>5. QED
    BY <2>1, <2>2, <2>3, <2>4, FoundKept
<1>7. ASSUME NEW t \in Threads, DeleteWrite(t)
      PROVE  Found'
  <2>1. \A d \in Cids : Queued(d)' <=> Queued(d)
    BY <1>7, QueueSame DEF DeleteWrite, Removed
  <2>2. \A u \in Callers :
           /\ pc'[u] = "insert" => pc[u] = "insert" /\ want'[u] = want[u]
           /\ pc'[u] \in {"count", "wait"} \cup RemoveSteps =>
                 pc[u] \in {"count", "wait"} \cup RemoveSteps /\ want'[u] = want[u]
    <3>1. CASE t = Processor
      BY <1>7, <3>1 DEF DeleteWrite, Removed
    <3>2. CASE t # Processor
      BY <1>7, <3>2 DEF DeleteWrite, Removed
    <3>3. QED
      BY <3>1, <3>2
  <2>3. pc'[Processor] \notin {"loop", "exit"} =>
           pc[Processor] \notin {"loop", "exit"} /\ want'[Processor] = want[Processor]
    BY <1>7 DEF DeleteWrite, Removed
  <2>4. fresh' = fresh
    BY <1>7 DEF DeleteWrite, Removed
  <2>5. QED
    BY <2>1, <2>2, <2>3, <2>4, FoundKept
<1>8. CASE Pop
  <2>1. PICK i \in 1..Len(queue) :
                 /\ want' = [want EXCEPT ![Processor] = queue[i]]
                 /\ pc' = [pc EXCEPT ![Processor] =
                               IF TooManyAttempts(queue[i]) THEN "giveup" ELSE "local"]
    BY <1>8 DEF Pop
  <2>2. queue[i] \in Cids /\ Queued(queue[i])
    BY <2>1 DEF Queued
  <2>3. QED
    BY <1>8, <2>1, <2>2, QueueSame DEF Pop
<1>9. CASE GiveUp
  BY <1>9, QueueSame DEF GiveUp
<1>10. CASE ProcessLocal
  BY <1>10, QueueSame DEF ProcessLocal
<1>11. CASE ProcessRemote
  <2>1. /\ pc[Processor] = "remote"
        /\ \E s \in {"loop", "mark"} : pc' = [pc EXCEPT ![Processor] = s]
        /\ UNCHANGED <<queue, want, fresh>>
    BY <1>11 DEF ProcessRemote
  <2>2. QED
    BY <2>1, QueueSame
<1>12. ASSUME NEW t \in Callers, LockWantList(t)
      PROVE  Found'
  BY <1>12, QueueSame DEF LockWantList
<1>13. ASSUME NEW t \in Threads, DeleteRead(t)
      PROVE  Found'
  BY <1>13, QueueSame DEF DeleteRead
<1>14. ASSUME NEW c \in Cids, HasBlockPut(c)
      PROVE  Found'
  BY <1>14, QueueSame DEF HasBlockPut
<1>15. CASE MarkAsked \/ ProcessorExits \/ HasBlockFill \/ CloseBegins \/
            CloseEnds \/ UNCHANGED vars
  BY <1>15, QueueSame, SMTT(30)
     DEF MarkAsked, ProcessorExits, HasBlockFill, CloseBegins, CloseEnds,
         vars
<1> HIDE DEF ThreadTypeOK, ListTypeOK, Places, Locking, Found, Threads,
             AddSteps, RemoveSteps, SearchSteps, entryVars, callVars, Goto
<1>16. QED
  BY <1>1, <1>2, <1>3, <1>4, <1>5, <1>6, <1>7, <1>8, <1>9, <1>10, <1>11,
     <1>12, <1>13, <1>14, <1>15
     DEF Next, CallerStep, RemoveStep, ProcessorStep

(* An insert is of a cid that is not in the list.                          *)
LEMMA OneEntryStep ==
    ASSUME FlagsTypeOK, ThreadTypeOK, ListTypeOK, Places, Found, OneEntryPerCid, [Next]_vars
    PROVE  OneEntryPerCid'
<1>1. CASE UNCHANGED queue
  BY <1>1 DEF OneEntryPerCid
<1>2. ASSUME NEW t \in Callers, AddInsert(t), fresh[t]
      PROVE  OneEntryPerCid'
  <2>1. /\ queue' = Append(queue, want[t])
        /\ queue \in Seq(Cids)
        /\ want[t] \in Cids
        /\ ~Queued(want[t])
    BY <1>2 DEF AddInsert, Found, Places, ListTypeOK
  <2>2. /\ Len(queue') = Len(queue) + 1
        /\ queue'[Len(queue) + 1] = want[t]
        /\ \A i \in 1..Len(queue) : queue'[i] = queue[i]
        /\ Len(queue) \in Nat
    BY <2>1
  <2>3. \A i \in 1..Len(queue) : queue[i] # want[t]
    BY <2>1 DEF Queued
  <2>4. QED
    BY <2>2, <2>3 DEF OneEntryPerCid
<1>3. [Next]_vars => UNCHANGED queue \/ \E t \in Callers : AddInsert(t) /\ fresh[t]
  BY DEF Next, CallerStep, RemoveStep, ProcessorStep, Call, LockWantList, AddFind,
         AddInsert, AddCount, Wait, RemoveTest, DeleteTest, DeleteRead,
         DeleteWrite, Pop, GiveUp,
         ProcessLocal, ProcessRemote, MarkAsked, ProcessorExits, HasBlockPut,
         HasBlockFill, CloseBegins, CloseEnds, vars
<1>4. QED
  BY <1>1, <1>2, <1>3

(* Asked, requested and received cids are in the list.                     *)
LEMMA ServedStep ==
    ASSUME FlagsTypeOK, ThreadTypeOK, ListTypeOK, Places, Found, Served, [Next]_vars
    PROVE  Served'
<1> USE WantListAssumption DEF ListTypeOK, Served, RemoveSteps, entryVars,
                               callVars
<1>1. ASSUME NEW t \in Callers, AddInsert(t)
      PROVE  Served'
  <2>1. CASE fresh[t]
    <3>1. /\ want[t] \in Cids
          /\ queue' = Append(queue, want[t])
          /\ ~Queued(want[t])
          /\ UNCHANGED <<store, net, requested, received>>
      BY <1>1, <2>1 DEF AddInsert, Found, Places
    <3>2. \A d \in Cids : Queued(d)' <=> (Queued(d) \/ d = want[t])
      BY <3>1, QueueGrows
    <3>3. /\ \A d \in Cids : asked'[d] <=> asked[d] /\ d # want[t]
          /\ \A d \in Cids : block'[d] <=> block[d] /\ d # want[t]
      BY <1>1, <2>1, ZenonT(30) DEF AddInsert, FlagsTypeOK
    <3>4. want[t] \notin requested /\ want[t] \notin received
      BY <3>1
    <3>5. QED
      BY <3>1, <3>2, <3>3, <3>4
  <2>2. CASE ~fresh[t]
    BY <1>1, <2>2, QueueSame DEF AddInsert
  <2>3. QED
    BY <2>1, <2>2
<1>2. CASE ProcessLocal
  <2>1. \A c \in Cids : block'[c] <=> block[c] \/ (c = want[Processor] /\ c \in store)
    BY <1>2, Zenon DEF ProcessLocal, FlagsTypeOK, Places
  <2>2. UNCHANGED <<queue, store, asked, net, requested, received>>
    BY <1>2 DEF ProcessLocal
  <2>3. QED
    BY <2>1, <2>2, QueueSame
<1>3. CASE ProcessRemote
  <2>1. want[Processor] \in Cids /\ Queued(want[Processor])
    BY <1>3 DEF ProcessRemote, Found, Places
  <2>2. requested' = requested \/ requested' = requested \cup {want[Processor]}
    BY <1>3 DEF ProcessRemote
  <2>3. UNCHANGED <<queue, store, block, asked, net, received>>
    BY <1>3 DEF ProcessRemote
  <2>4. QED
    BY <2>1, <2>2, <2>3, QueueSame
<1>4. CASE MarkAsked
  <2>1. want[Processor] \in Cids /\ Queued(want[Processor])
    BY <1>4 DEF MarkAsked, Found, Places
  <2>2. \A c \in Cids : asked'[c] <=> asked[c] \/ c = want[Processor]
    BY <1>4, <2>1, Zenon DEF MarkAsked, FlagsTypeOK
  <2>3. UNCHANGED <<queue, store, block, net, requested, received>>
    BY <1>4 DEF MarkAsked
  <2>4. QED
    BY <2>1, <2>2, <2>3, QueueSame
<1>5. ASSUME NEW c \in Cids, HasBlockPut(c)
      PROVE  Served'
  BY <1>5, QueueSame DEF HasBlockPut
<1>6. CASE HasBlockFill /\ phase # "freed"
  <2>1. net \in Cids /\ net \in requested /\ Queued(net)
    BY <1>6 DEF HasBlockFill
  <2>2. \A c \in Cids : block'[c] <=> block[c] \/ c = net
    BY <1>6, <2>1, Zenon DEF HasBlockFill, FlagsTypeOK
  <2>3. /\ UNCHANGED <<queue, store, asked, requested>>
        /\ received' = received \cup {net}
        /\ net' = NoCid
    BY <1>6 DEF HasBlockFill
  <2>4. QED
    BY <2>1, <2>2, <2>3, QueueSame
<1>11. CASE HasBlockFill /\ phase = "freed"
  BY <1>11, QueueSame DEF HasBlockFill
<1>7. ASSUME NEW t \in Callers, NEW c \in Cids, NEW isAsync \in BOOLEAN,
             Call(t, c, isAsync)
      PROVE  Served'
  BY <1>7, QueueSame DEF Call
<1>8. ASSUME NEW t \in Callers, LockWantList(t) \/ AddFind(t) \/
                                AddCount(t) \/ Wait(t)
      PROVE  Served'
  BY <1>8, QueueSame
     DEF LockWantList, AddFind, AddCount, Wait
<1>9. ASSUME NEW t \in Threads, RemoveStep(t)
      PROVE  Served'
  BY <1>9, QueueSame
     DEF RemoveStep, RemoveTest, Removed, DeleteTest,
         DeleteRead, DeleteWrite
<1>10. CASE Pop \/ GiveUp \/ ProcessorExits \/ CloseBegins \/ CloseEnds \/
            UNCHANGED vars
  BY <1>10, QueueSame
     DEF Pop, GiveUp, ProcessorExits, CloseBegins, CloseEnds, vars
<1> HIDE DEF ListTypeOK, Served, RemoveSteps, entryVars, callVars
<1>12. QED
  BY <1>1, <1>2, <1>3, <1>4, <1>5, <1>6, <1>7, <1>8, <1>9, <1>10,
     <1>11
     DEF Next, CallerStep, RemoveStep, ProcessorStep

(* A search that succeeds is counted and marked once.                      *)
LEMMA SearchedStep ==
    ASSUME FlagsTypeOK, ThreadTypeOK, ListTypeOK, Places, Found, Served, Searched, [Next]_vars
    PROVE  Searched'
<1> USE WantListAssumption DEF ListTypeOK, ThreadTypeOK, Places, Searched,
                               Threads, AddSteps, RemoveSteps, SearchSteps,
                               entryVars, callVars, Goto
<1>1. ASSUME NEW t \in Callers, AddInsert(t)
      PROVE  Searched'
  <2>1. CASE fresh[t]
    <3>1. want[t] \in Cids /\ ~Queued(want[t]) /\ ~asked[want[t]]
      BY <1>1, <2>1 DEF AddInsert, Found, Places, Served
    <3>2. \A d \in Cids : asked'[d] <=> asked[d]
      BY <1>1, <2>1, <3>1, ZenonT(30) DEF AddInsert, FlagsTypeOK
    <3>3. /\ searches' = searches
          /\ pc'[Processor] = pc[Processor]
          /\ want'[Processor] = want[Processor]
      BY <1>1, <2>1 DEF AddInsert
    <3>4. QED
      BY <3>2, <3>3
  <2>2. CASE ~fresh[t]
    BY <1>1, <2>2 DEF AddInsert
  <2>3. QED
    BY <2>1, <2>2
<1>2. ASSUME NEW t \in Threads, RemoveTest(t) \/ DeleteTest(t)
      PROVE  Searched'
  BY <1>2 DEF RemoveTest, DeleteTest, Removed
<1>3. ASSUME NEW t \in Threads, DeleteWrite(t)
      PROVE  Searched'
  BY <1>3 DEF DeleteWrite, Removed
<1>4. CASE Pop
  <2>1. PICK i \in 1..Len(queue) :
                 /\ Unserved(queue[i])
                 /\ want' = [want EXCEPT ![Processor] = queue[i]]
                 /\ pc' = [pc EXCEPT ![Processor] =
                               IF TooManyAttempts(queue[i]) THEN "giveup" ELSE "local"]
    BY <1>4 DEF Pop
  <2>2. queue[i] \in Cids /\ ~asked[queue[i]]
    BY <2>1 DEF Unserved
  <2>3. UNCHANGED <<asked, searches>> /\ pc[Processor] = "loop"
    BY <1>4 DEF Pop
  <2>4. pc'[Processor] # "mark" /\ want'[Processor] = queue[i]
    BY <2>1
  <2>5. QED
    BY <2>2, <2>3, <2>4
<1>5. CASE ProcessLocal
  BY <1>5 DEF ProcessLocal
<1>6. CASE ProcessRemote
  <2>1. want[Processor] \in Cids /\ ~asked[want[Processor]] /\ searches[want[Processor]] = 0
    BY <1>6 DEF ProcessRemote
  <2>2. UNCHANGED <<asked, want>>
    BY <1>6 DEF ProcessRemote
  <2>3. CASE searches' = searches /\ pc' = [pc EXCEPT ![Processor] = "loop"]
    BY <1>6, <2>1, <2>2, <2>3 DEF ProcessRemote
  <2>4. CASE /\ searches' = [searches EXCEPT ![want[Processor]] = searches[want[Processor]] + 1]
             /\ pc' = [pc EXCEPT ![Processor] = "mark"]
    BY <1>6, <2>1, <2>2, <2>4 DEF ProcessRemote
  <2>5. QED
    BY <1>6, <2>3, <2>4 DEF ProcessRemote
<1>7. CASE MarkAsked
  <2>1. want[Processor] \in Cids
    BY <1>7 DEF MarkAsked
  <2>2. \A c \in Cids : asked'[c] <=> asked[c] \/ c = want[Processor]
    BY <1>7, <2>1, Zenon DEF MarkAsked, FlagsTypeOK
  <2>3. searches' = searches /\ pc'[Processor] = "loop"
    BY <1>7 DEF MarkAsked
  <2>4. QED
    BY <1>7, <2>1, <2>2, <2>3 DEF MarkAsked
<1>8. ASSUME NEW t \in Callers, NEW c \in Cids, NEW isAsync \in BOOLEAN,
             Call(t, c, isAsync)
      PROVE  Searched'
  BY <1>8 DEF Call
<1>9. ASSUME NEW t \in Callers, LockWantList(t) \/ AddFind(t) \/
                                AddCount(t) \/ Wait(t)
      PROVE  Searched'
  <2>1. CASE LockWantList(t)
    BY <2>1 DEF LockWantList
  <2>2. CASE AddFind(t)
    BY <2>2 DEF AddFind
  <2>3. CASE AddCount(t)
    BY <2>3 DEF AddCount
  <2>4. CASE Wait(t)
    BY <2>4 DEF Wait
  <2>5. QED
    BY <1>9, <2>1, <2>2, <2>3, <2>4
<1>10. ASSUME NEW t \in Threads, DeleteRead(t)
      PROVE  Searched'
  BY <1>10 DEF DeleteRead
<1>11. ASSUME NEW c \in Cids, HasBlockPut(c)
      PROVE  Searched'
  BY <1>11 DEF HasBlockPut
<1>12. CASE GiveUp \/ ProcessorExits \/ HasBlockFill \/ CloseBegins \/
            CloseEnds \/ UNCHANGED vars
  BY <1>12
     DEF GiveUp, ProcessorExits, HasBlockFill, CloseBegins, CloseEnds, vars
<1> HIDE DEF ListTypeOK, ThreadTypeOK, Places, Searched, Threads, AddSteps,
             RemoveSteps, SearchSteps, entryVars, callVars, Goto
<1>13. QED
  BY <1>1, <1>2, <1>3, <1>4, <1>5, <1>6, <1>7, <1>8, <1>9, <1>10, <1>11,
     <1>12
     DEF Next, CallerStep, RemoveStep, ProcessorStep

(* An attempt is counted only below the limit.                             *)
LEMMA AttemptsStep ==
    ASSUME ThreadTypeOK, ListTypeOK, Places, Attempted, AttemptsBounded, [Next]_vars
    PROVE  (Attempted /\ AttemptsBounded)'
<1> USE WantListAssumption DEF ListTypeOK, ThreadTypeOK, Places, Attempted,
                               AttemptsBounded, Threads, AddSteps,
                               RemoveSteps, SearchSteps, entryVars,
                               callVars, Goto
<1>1. ASSUME NEW t \in Callers, AddInsert(t)
      PROVE  (Attempted /\ AttemptsBounded)'
  <2>1. want[t] \in Cids
    BY <1>1 DEF AddInsert
  <2>2. \A c \in Cids : attempts'[c] = attempts[c] \/ attempts'[c] = 0
    BY <1>1, <2>1 DEF AddInsert
  <2>3. pc'[Processor] = pc[Processor] /\ want'[Processor] = want[Processor]
    BY <1>1 DEF AddInsert
  <2>4. MaxAttempts \in Nat /\ 0 <= MaxAttempts
    OBVIOUS
  <2>5. Attempted'
    BY <2>2, <2>3, <2>4
  <2>6. ASSUME NEW c \in Cids PROVE attempts'[c] <= MaxAttempts + 1
    <3>1. CASE attempts'[c] = attempts[c]
      BY <3>1
    <3>2. CASE attempts'[c] = 0
      BY <2>4, <3>2
    <3>3. QED
      BY <2>2, <3>1, <3>2
  <2>7. QED
    BY <2>5, <2>6
<1>2. ASSUME NEW t \in Threads, RemoveTest(t) \/ DeleteTest(t)
      PROVE  (Attempted /\ AttemptsBounded)'
  BY <1>2 DEF RemoveTest, DeleteTest, Removed
<1>3. ASSUME NEW t \in Threads, DeleteWrite(t)
      PROVE  (Attempted /\ AttemptsBounded)'
  BY <1>3 DEF DeleteWrite, Removed
<1>4. CASE Pop
  <2>1. PICK i \in 1..Len(queue) :
                 /\ want' = [want EXCEPT ![Processor] = queue[i]]
                 /\ pc' = [pc EXCEPT ![Processor] =
                               IF TooManyAttempts(queue[i]) THEN "giveup" ELSE "local"]
    BY <1>4 DEF Pop
  <2>2. queue[i] \in Cids /\ attempts' = attempts
    BY <1>4, <2>1 DEF Pop
  <2>3. CASE TooManyAttempts(queue[i])
    BY <2>1, <2>2, <2>3
  <2>4. CASE ~TooManyAttempts(queue[i])
    BY <2>1, <2>2, <2>4 DEF TooManyAttempts
  <2>5. QED
    BY <2>3, <2>4
<1>5. CASE ProcessLocal
  BY <1>5 DEF ProcessLocal
<1>6. CASE ProcessRemote
  <2>1. want[Processor] \in Cids /\ attempts[want[Processor]] <= MaxAttempts
    BY <1>6 DEF ProcessRemote
  <2>2. \/ attempts' = attempts
        \/ attempts' = [attempts EXCEPT ![want[Processor]] = attempts[want[Processor]] + 1]
    BY <1>6 DEF ProcessRemote
  <2>3. pc'[Processor] \in {"loop", "mark"}
    BY <1>6 DEF ProcessRemote
  <2>4. Attempted'
    BY <2>3
  <2>5. CASE attempts' = attempts
    BY <2>4, <2>5
  <2>6. CASE attempts' = [attempts EXCEPT ![want[Processor]] = attempts[want[Processor]] + 1]
    BY <2>1, <2>4, <2>6
  <2>7. QED
    BY <2>2, <2>5, <2>6
<1>7. ASSUME NEW t \in Callers, NEW c \in Cids, NEW isAsync \in BOOLEAN,
             Call(t, c, isAsync)
      PROVE  (Attempted /\ AttemptsBounded)'
  BY <1>7 DEF Call
<1>8. ASSUME NEW t \in Callers, LockWantList(t) \/ AddFind(t) \/
                                AddCount(t) \/ Wait(t)
      PROVE  (Attempted /\ AttemptsBounded)'
  BY <1>8
     DEF LockWantList, AddFind, AddCount, Wait
<1>9. ASSUME NEW t \in Threads, DeleteRead(t)
      PROVE  (Attempted /\ AttemptsBounded)'
  BY <1>9 DEF DeleteRead
<1>10. ASSUME NEW c \in Cids, HasBlockPut(c)
      PROVE  (Attempted /\ AttemptsBounded)'
  BY <1>10 DEF HasBlockPut
<1>11. CASE GiveUp \/ MarkAsked \/ ProcessorExits \/ HasBlockFill \/
            CloseBegins \/ CloseEnds \/ UNCHANGED vars
  BY <1>11
     DEF GiveUp, MarkAsked, ProcessorExits, HasBlockFill, CloseBegins,
         CloseEnds, vars
<1> HIDE DEF ListTypeOK, ThreadTypeOK, Places, Attempted, AttemptsBounded,
             Threads, AddSteps, RemoveSteps, SearchSteps, entryVars,
             callVars, Goto
<1>12. QED
  BY <1>1, <1>2, <1>3, <1>4, <1>5, <1>6, <1>7, <1>8, <1>9, <1>10, <1>11
     DEF Next, CallerStep, RemoveStep, ProcessorStep

(* An answer "found" rests on a block that is here.                        *)
LEMMA FoundIsRealStep ==
    ASSUME ThreadTypeOK, CallTypeOK, ListTypeOK, Places, Served, FoundIsReal, [Next]_vars
    PROVE  FoundIsReal'
<1> USE WantListAssumption DEF ListTypeOK, CallTypeOK, ThreadTypeOK, Places,
                               FoundIsReal, Threads, AddSteps, RemoveSteps,
                               SearchSteps, entryVars, callVars, Goto
<1>1. ASSUME NEW t \in Callers, NEW c \in Cids, NEW isAsync \in BOOLEAN,
             Call(t, c, isAsync)
      PROVE  FoundIsReal'
  BY <1>1 DEF Call
<1>2. ASSUME NEW t \in Callers, AddCount(t)
      PROVE  FoundIsReal'
  BY <1>2 DEF AddCount
<1>3. ASSUME NEW t \in Callers, Wait(t)
      PROVE  FoundIsReal'
  <2>1. CASE block[want[t]]
    BY <1>3, <2>1 DEF Wait, Served
  <2>2. CASE ~block[want[t]]
    BY <1>3, <2>2 DEF Wait, Served
  <2>3. QED
    BY <1>3, <2>1, <2>2 DEF Wait, Served
<1>4. ASSUME NEW t \in Threads, RemoveTest(t) \/ DeleteTest(t)
      PROVE  FoundIsReal'
  BY <1>4 DEF RemoveTest, DeleteTest, Removed
<1>5. ASSUME NEW t \in Threads, DeleteRead(t)
      PROVE  FoundIsReal'
  BY <1>5 DEF DeleteRead
<1>6. ASSUME NEW t \in Threads, DeleteWrite(t)
      PROVE  FoundIsReal'
  BY <1>6 DEF DeleteWrite, Removed
<1>7. ASSUME NEW t \in Callers, LockWantList(t) \/ AddFind(t) \/
                                AddInsert(t)
      PROVE  FoundIsReal'
  BY <1>7
     DEF LockWantList, AddFind, AddInsert
<1>8. ASSUME NEW c \in Cids, HasBlockPut(c)
      PROVE  FoundIsReal'
  BY <1>8 DEF HasBlockPut
<1>9. CASE Pop \/ GiveUp \/ ProcessLocal \/ ProcessRemote \/ MarkAsked \/
           ProcessorExits \/ HasBlockFill \/ CloseBegins \/ CloseEnds \/
           UNCHANGED vars
  BY <1>9
     DEF Pop, GiveUp, ProcessLocal, ProcessRemote, MarkAsked,
         ProcessorExits, HasBlockFill, CloseBegins, CloseEnds, vars
<1> HIDE DEF ListTypeOK, CallTypeOK, ThreadTypeOK, Places, FoundIsReal,
             Threads, AddSteps, RemoveSteps, SearchSteps, entryVars,
             callVars, Goto
<1>10. QED
  BY <1>1, <1>2, <1>3, <1>4, <1>5, <1>6, <1>7, <1>8, <1>9
     DEF Next, CallerStep, RemoveStep, ProcessorStep

(* No caller enters after Close has begun.                                 *)
LEMMA ClosingStep ==
    ASSUME ThreadTypeOK, ListTypeOK, Places, Served, Closing, [Next]_vars
    PROVE  Closing'
<1> USE WantListAssumption DEF ListTypeOK, ThreadTypeOK, Places, Closing,
                               Threads, AddSteps, RemoveSteps, SearchSteps,
                               entryVars, callVars, Goto
<1>1. ASSUME NEW t \in Callers, NEW c \in Cids, NEW isAsync \in BOOLEAN,
             Call(t, c, isAsync)
      PROVE  Closing'
  BY <1>1 DEF Call
<1>2. ASSUME NEW t \in Threads, RemoveTest(t) \/ DeleteTest(t)
      PROVE  Closing'
  BY <1>2 DEF RemoveTest, DeleteTest, Removed
<1>3. ASSUME NEW t \in Threads, DeleteRead(t)
      PROVE  Closing'
  BY <1>3 DEF DeleteRead
<1>4. ASSUME NEW t \in Threads, DeleteWrite(t)
      PROVE  Closing'
  BY <1>4 DEF DeleteWrite, Removed
<1>5. CASE Pop
  BY <1>5 DEF Pop
<1>6. ASSUME NEW t \in Callers, LockWantList(t) \/ AddFind(t) \/
                                AddInsert(t) \/ AddCount(t) \/ Wait(t)
      PROVE  Closing'
  BY <1>6
     DEF LockWantList, AddFind, AddInsert, AddCount, Wait
<1>7. ASSUME NEW c \in Cids, HasBlockPut(c)
      PROVE  Closing'
  BY <1>7 DEF HasBlockPut
<1>8. CASE GiveUp \/ ProcessLocal \/ ProcessRemote \/ MarkAsked \/
           ProcessorExits \/ CloseBegins \/ CloseEnds \/ UNCHANGED vars
  BY <1>8
     DEF GiveUp, ProcessLocal, ProcessRemote, MarkAsked, ProcessorExits,
         CloseBegins, CloseEnds, vars
<1>9. CASE HasBlockFill
  BY <1>9 DEF HasBlockFill, Served
<1> HIDE DEF ListTypeOK, ThreadTypeOK, Places, Closing, Threads, AddSteps,
             RemoveSteps, SearchSteps, entryVars, callVars, Goto
<1>10. QED
  BY <1>1, <1>2, <1>3, <1>4, <1>5, <1>6, <1>7, <1>8, <1>9
     DEF Next, CallerStep, RemoveStep, ProcessorStep

-----------------------------------------------------------------------------
(* The invariant holds at first ...                                        *)
LEMMA InitIInv == Init => IInv
<1>1. SUFFICES ASSUME Init PROVE IInv
  OBVIOUS
<1>2. FlagsTypeOK
  BY <1>1, Zenon DEF Init, FlagsTypeOK
<1>3. ThreadTypeOK /\ CallTypeOK /\ ListTypeOK
  BY <1>1, WantListAssumption
     DEF Init, ThreadTypeOK, CallTypeOK, ListTypeOK, PCs, Threads, Answers
<1>4. queue = <<>> /\ \A c \in Cids : ~asked[c] /\ ~block[c]
  BY <1>1 DEF Init
<1>5. Places /\ Patient /\ Locking /\ Found
  BY <1>1, WantListAssumption
     DEF Init, Places, Patient, Locking, Found, Threads, AddSteps, RemoveSteps
<1>6. Served /\ Searched /\ Attempted /\ Closing
  BY <1>1, <1>4, WantListAssumption
     DEF Init, Served, Searched, Attempted, Closing, Threads, SearchSteps
<1>7. OneEntryPerCid /\ FoundIsReal /\ AttemptsBounded
  BY <1>1, WantListAssumption
     DEF Init, OneEntryPerCid, FoundIsReal, AttemptsBounded, Threads
<1>8. QED
  BY <1>2, <1>3, <1>5, <1>6, <1>7, TypeOKParts DEF IInv

(* ... and every step keeps it.                                            *)
LEMMA NextIInv == IInv /\ [Next]_vars => IInv'
<1>1. SUFFICES ASSUME IInv, [Next]_vars PROVE IInv'
  OBVIOUS
<1>2. FlagsTypeOK /\ ThreadTypeOK /\ CallTypeOK /\ ListTypeOK
  BY <1>1, TypeOKParts DEF IInv
<1>3. (FlagsTypeOK /\ ThreadTypeOK /\ CallTypeOK /\ ListTypeOK)'
  BY <1>1, <1>2, FlagsStep, ThreadStep, CallsStep, ListStep DEF IInv
<1>4. TypeOK'
  BY <1>3 DEF TypeOK, FlagsTypeOK, ThreadTypeOK, CallTypeOK, ListTypeOK
<1>5. Places' /\ Patient' /\ Locking'
  BY <1>1, <1>2, PlacesStep, PatientStep, LockingStep DEF IInv
<1>6. Found' /\ OneEntryPerCid' /\ Served' /\ Searched'
  BY <1>1, <1>2, FoundStep, OneEntryStep, ServedStep, SearchedStep DEF IInv
<1>7. Attempted' /\ AttemptsBounded'
  BY <1>1, <1>2, AttemptsStep DEF IInv
<1>8. FoundIsReal' /\ Closing'
  BY <1>1, <1>2, FoundIsRealStep, ClosingStep DEF IInv
<1>9. QED
  BY <1>4, <1>5, <1>6, <1>7, <1>8 DEF IInv

(* The inductive invariant holds in every state the want list can reach.   *)
THEOREM Inductive == Spec => []IInv
BY InitIInv, NextIInv, PTL DEF Spec

(* Every variable of the want list keeps its type; for the clock of        *)
(* GetBlock this says that nobody waits longer than the time-out.          *)
THEOREM TypeCorrect == Spec => []TypeOK
<1>1. IInv => TypeOK
  BY DEF IInv
<1>2. QED
  BY <1>1, Inductive, PTL

(* queue_add never makes a second entry for a cid, for any number of       *)
(* concurrent callers.                                                     *)
THEOREM EntriesUnique == Spec => []OneEntryPerCid
<1>1. IInv => OneEntryPerCid
  BY DEF IInv
<1>2. QED
  BY <1>1, Inductive, PTL

(* A block HasBlock took in is in the entry of its cid, although HasBlock  *)
(* and the engine write the entry without the mutex.                       *)
THEOREM ReceivedArrives == Spec => []ReceivedReachesEntry
<1>1. IInv => ReceivedReachesEntry
  BY DEF IInv, Served, ReceivedReachesEntry
<1>2. QED
  BY <1>1, Inductive, PTL

(* The engine's search succeeds at most once for a cid.                    *)
THEOREM AskedOnce == Spec => []AskedAtMostOnce
<1>1. IInv => AskedAtMostOnce
  BY DEF IInv, Searched, AskedAtMostOnce
<1>2. QED
  BY <1>1, Inductive, PTL

(* The engine gives up after MaxAttempts + 1 searches without a provider.  *)
THEOREM AttemptsLimited == Spec => []AttemptsBounded
<1>1. IInv => AttemptsBounded
  BY DEF IInv
<1>2. QED
  BY <1>1, Inductive, PTL

(* GetBlock reports only blocks that are here.                             *)
THEOREM FoundCorrect == Spec => []FoundIsReal
<1>1. IInv => FoundIsReal
  BY DEF IInv
<1>2. QED
  BY <1>1, Inductive, PTL

(* Once Close has freed the want list neither the engine nor a caller      *)
(* touches it again, and only the block of a request comes too late.       *)
THEOREM FreedStaysQuiet == Spec => FreedIsQuiet
<1>1. IInv /\ [Next]_vars =>
         [/\ phase \in {"freed", "crashed"} =>
                UNCHANGED <<queue, entryVars, mutex, pc>>
          /\ phase' = "crashed" => requested # {}]_vars
  <2>1. SUFFICES ASSUME IInv, Next
                 PROVE  \/ UNCHANGED vars
                        \/ /\ phase \in {"freed", "crashed"} =>
                                UNCHANGED <<queue, entryVars, mutex, pc>>
                           /\ phase' = "crashed" => requested # {}
    BY DEF vars
  <2>2. ASSUME phase \in {"freed", "crashed"}
        PROVE  UNCHANGED <<queue, entryVars, mutex, pc>>
    <3>1. /\ \A t \in Callers : pc[t] = "idle"
          /\ pc[Processor] = "exit"
      BY <2>1, <2>2 DEF IInv, Closing
    <3>2. \A t \in Threads : pc[t] \in {"idle", "exit"}
      BY <3>1 DEF Threads
    <3>3. ASSUME NEW t \in Callers PROVE ~CallerStep(t)
      BY <2>2, <3>1 DEF CallerStep, Call, LockWantList, AddFind, AddInsert,
                        AddCount, Wait
    <3>4. ASSUME NEW t \in Threads PROVE ~RemoveStep(t)
      BY <3>2 DEF RemoveStep, RemoveTest, DeleteTest, DeleteRead, DeleteWrite
    <3>5. ~ProcessorStep
      BY <3>1 DEF ProcessorStep, Pop, GiveUp, ProcessLocal, ProcessRemote,
                  MarkAsked, ProcessorExits
    <3>6. ~CloseBegins /\ ~CloseEnds
      BY <2>2 DEF CloseBegins, CloseEnds
    <3>7. CASE HasBlockFill
      BY <2>2, <3>7 DEF HasBlockFill, entryVars
    <3>8. ASSUME NEW c \in Cids, HasBlockPut(c)
          PROVE  UNCHANGED <<queue, entryVars, mutex, pc>>
      BY <3>8 DEF HasBlockPut
    <3>9. QED
      BY <2>1, <3>3, <3>4, <3>5, <3>6, <3>7, <3>8 DEF Next
  <2>3. ASSUME phase' = "crashed"
        PROVE  UNCHANGED vars \/ requested # {}
    <3>1. phase = "crashed" \/ HasBlockFill \/ \E c \in Cids : HasBlockPut(c)
      BY <2>1, <2>3
         DEF Next, CallerStep, Call, LockWantList, AddFind, AddInsert, AddCount,
             Wait, RemoveStep, RemoveTest, DeleteTest, DeleteRead, DeleteWrite,
             ProcessorStep, Pop, GiveUp, ProcessLocal, ProcessRemote, MarkAsked,
             ProcessorExits, CloseBegins, CloseEnds
    <3>2. CASE HasBlockFill
      BY <2>1, <3>2 DEF HasBlockFill, IInv, Served
    <3>3. CASE \E c \in Cids : HasBlockPut(c)
      BY <3>3 DEF HasBlockPut
    <3>4. CASE phase = "crashed"
      BY <2>1, <3>4 DEF IInv, Closing
    <3>5. QED
      BY <3>1, <3>2, <3>3, <3>4
  <2>4. QED
    BY <2>1, <2>2, <2>3
<1>2. QED
  BY <1>1, Inductive, PTL DEF Spec, FreedIsQuiet
=============================================================================

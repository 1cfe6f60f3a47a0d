---------------------------- MODULE ClipLoopProofs ----------------------------
(***************************************************************************)
(* Proofs about ClipLoop, for every value of its constants.                 *)
(***************************************************************************)
EXTENDS ClipLoop, ClipHistoryProofs, FiniteSetTheorems

\* Each phase has finished the work of the ones before it.
PhaseInv ==
  /\ pc # "send" => writes = 0
  /\ pc \notin {"send", "drain"} => reads = << >>
  /\ pc \notin {"drain", "store"} => grouped = << >>
  /\ pc \notin {"store", "publish", "notify"} => outcomes = << >>
  /\ pc = "notify" => outcomes # << >>

\* Ids are given out once, in increasing order.
IdsInv ==
  /\ \A i \in 1..Len(entries) : entries[i].id < nextId
  /\ \A i, j \in 1..Len(entries) : i < j => entries[i].id < entries[j].id
  /\ \A i \in 1..Len(outcomes) : outcomes[i] < nextId
  /\ \A i, j \in 1..Len(outcomes) : i < j => outcomes[i] < outcomes[j]

\* The pending outcomes that are still held are the newest entries, in order.
PendingInv ==
  /\ Len(outcomes) <= Len(entries) \/ Len(entries) = MaxHistory
  /\ \A k \in 0..(Len(entries) - 1) :
       k < Len(outcomes) => entries[Len(entries) - k].id = outcomes[Len(outcomes) - k]
  /\ pc = "notify" => Len(outcomes) <= Len(entries)

\* What is older than the pending outcomes is the tail of the snapshot.
ListedInv ==
  /\ Len(entries) <= Len(snapshot) + Len(Unlisted)
  /\ \A k \in 0..(Len(entries) - 1) :
       k >= Len(Unlisted) =>
         entries[Len(entries) - k].id = snapshot[Len(snapshot) - (k - Len(Unlisted))]

\* The snapshot runs ahead of the history by one row at most, and only while
\* the history is full or one short of full.
GhostInv ==
  \/ Len(snapshot) + Len(Unlisted) <= Len(entries)
  \/ Len(entries) = MaxHistory
  \/ Len(entries) = MaxHistory - 1 /\ (echo = NoEcho \/ outcomes = << >>)

\* No batch is larger than what one dispatch can find.
BurstInv ==
  /\ Len(inbox) <= MaxBurst
  /\ Len(reads) + Len(grouped) + Len(outcomes) <= MaxBurst

\* Copies stored and neither announced nor pending, with an armed flag counted
\* as one more, never exceed the successful restores.
ConservationInv ==
  MaxBurst <= MaxHistory =>
    (nextId - 1) - Len(feed) - Len(outcomes) + (IF echo = NoEcho THEN 0 ELSE 1)
      <= Cardinality(Restored)

\* The history, what of it is pending and what of it is listed.
ListInv == IdsInv /\ PendingInv /\ ListedInv /\ GhostInv

-----------------------------------------------------------------------------
(* Types.                                                                   *)

\* An element of the queue of copies, its head and what follows.
LEMMA QueueFacts ==
  ASSUME NEW T, NEW q \in Seq(T), q # << >>
  PROVE  /\ Head(q) \in T /\ Tail(q) \in Seq(T) /\ Head(q) = q[1]
         /\ Len(Tail(q)) = Len(q) - 1 /\ Len(q) \in Nat \ {0}
         /\ \A i \in 1..Len(Tail(q)) : Tail(q)[i] = q[i + 1]
  BY HeadTailProperties

\* The element Lookup returns belongs to the list.
LEMMA LookupTyped ==
  ASSUME NEW T, NEW s \in Seq(T), NEW id, Holds(s, id)
  PROVE  Lookup(s, id) \in T
<1>1. Place(s, id) \in 1..Len(s) /\ Lookup(s, id) = s[Place(s, id)]
  BY PlaceProperties
<1> QED BY <1>1

\* The ids of a list of entries are numbers.
LEMMA EntryIds ==
  ASSUME NEW s \in Seq(Entry)
  PROVE  \A i \in 1..Len(s) : s[i].id \in Nat
<1>1. \A i \in 1..Len(s) : s[i] \in Entry
  OBVIOUS
<1> QED BY <1>1 DEF Entry

\* A step keeps every variable in its type.
LEMMA TypeStep == TypeOK /\ PhaseInv /\ [Next]_vars => TypeOK'
<1> SUFFICES ASSUME TypeOK, PhaseInv, [Next]_vars PROVE TypeOK'
  OBVIOUS
<1> USE DEF TypeOK
<1>1. ASSUME NEW c \in Contents, PeerCopy(c) PROVE TypeOK'
  <2>1. [content |-> c, own |-> FALSE] \in Copy
    BY DEF Copy
  <2> QED BY <1>1, <2>1 DEF PeerCopy, histVars, uiVars, rpcVars
<1>2. CASE AnnounceOwn
  <2>1. Head(selections) \in Contents /\ Tail(selections) \in Seq(Contents)
    BY <1>2, QueueFacts DEF AnnounceOwn
  <2>2. [content |-> Head(selections), own |-> TRUE] \in Copy
    BY <2>1 DEF Copy
  <2> QED BY <1>2, <2>1, <2>2 DEF AnnounceOwn, histVars, uiVars, rpcVars
<1>3. ASSUME NEW id \in 1..MaxIds, SendRestore(id) PROVE TypeOK'
  BY <1>3, BoundAssumption DEF SendRestore, netVars, histVars, uiVars
<1>4. CASE Tick
  BY <1>4, ContentAssumption, SMTT(30) DEF Tick, netVars, histVars, uiVars, rpcVars, Armed
<1>5. ASSUME NEW r \in BOOLEAN, Dispatch(r) PROVE TypeOK'
  BY <1>5 DEF Dispatch, histVars, uiVars, rpcVars, Phases
<1>6. CASE ConnectionLost
  BY <1>6 DEF ConnectionLost, netVars, histVars, uiVars, rpcVars, Phases
<1>7. CASE ReadCopy
  <2>1. Head(reads) \in Copy /\ Tail(reads) \in Seq(Copy)
    BY <1>7, QueueFacts DEF ReadCopy
  <2>2. PICK c \in Delivers(Head(reads)) :
          grouped' = Append(grouped, [content |-> c, own |-> Head(reads).own])
    BY <1>7 DEF ReadCopy
  <2>3. c \in Contents
    BY <2>1, <2>2, ContentAssumption DEF Delivers, Copy
  <2>4. [content |-> c, own |-> Head(reads).own] \in Copy
    BY <2>1, <2>3 DEF Copy
  <2> QED BY <1>7, <2>1, <2>2, <2>4 DEF ReadCopy, netVars, histVars, uiVars, rpcVars
<1>8. CASE ReadNothing
  <2>1. Tail(reads) \in Seq(Copy)
    BY <1>8, QueueFacts DEF ReadNothing
  <2> QED BY <1>8, <2>1 DEF ReadNothing, netVars, histVars, uiVars, rpcVars
<1>9. CASE DrainDone
  BY <1>9 DEF DrainDone, netVars, histVars, uiVars, rpcVars, Phases
<1>10. CASE IgnoreDuplicate
  <2>1. Tail(grouped) \in Seq(Copy)
    BY <1>10, QueueFacts DEF IgnoreDuplicate
  <2> QED BY <1>10, <2>1 DEF IgnoreDuplicate, netVars, histVars, uiVars, rpcVars
<1>11. CASE StoreCopy
  <2> DEFINE e == [id |-> nextId, content |-> Head(grouped).content,
                   own |-> Head(grouped).own]
  <2>1. Head(grouped) \in Copy /\ Tail(grouped) \in Seq(Copy)
    BY <1>11, QueueFacts DEF StoreCopy
  <2>2. e \in Entry
    BY <2>1 DEF Copy, Entry
  <2>3. entries' = Push(entries, e)
    BY <1>11 DEF StoreCopy
  <2> HIDE DEF e
  <2>4. entries' \in Seq(Entry) /\ Len(entries') <= MaxHistory
    BY <2>2, <2>3, PushProperties, MaxHistoryAssumption, SMTT(30)
  <2> QED BY <1>11, <2>1, <2>4 DEF StoreCopy, netVars, uiVars, rpcVars
<1>12. CASE StoreDone
  BY <1>12 DEF StoreDone, netVars, histVars, uiVars, rpcVars, Phases
<1>13. Pruned \in Armed \cup {NoEcho} /\ AfterEcho \in Armed \cup {NoEcho}
  BY DEF Pruned, AfterEcho
<1>14. ASSUME outcomes # << >>
       PROVE  Tail(outcomes) \in Seq(Nat) /\ Head(outcomes) \in Nat
  BY <1>14, QueueFacts
<1>15. CASE SkipEvicted
  BY <1>13, <1>14, <1>15 DEF SkipEvicted, netVars, histVars, uiVars, rpcVars
<1>16. CASE SuppressEcho
  <2>1. Holds(entries, Head(outcomes)) /\ entries' = Without(entries, Head(outcomes))
    BY <1>16 DEF SuppressEcho
  <2>2. entries' \in Seq(Entry) /\ Len(entries') = Len(entries) - 1
    BY <2>1, WithoutProperties
  <2>3. Len(entries') <= MaxHistory
    BY <2>2, MaxHistoryAssumption
  <2> QED BY <1>13, <1>14, <1>16, <2>2, <2>3 DEF SuppressEcho, netVars, uiVars, rpcVars
<1>17. CASE PublishRow
  <2>1. snapshot' = Push(snapshot, Head(outcomes)) /\ Head(outcomes) \in Nat
    BY <1>14, <1>17 DEF PublishRow
  <2>2. snapshot' \in Seq(Nat) /\ Len(snapshot') <= MaxHistory
    <3>1. snapshot \in Seq(Nat) /\ Len(snapshot) \in Nat
      OBVIOUS
    <3>2. /\ Push(snapshot, Head(outcomes)) \in Seq(Nat)
          /\ Len(Push(snapshot, Head(outcomes))) =
               IF Len(snapshot) >= MaxHistory THEN MaxHistory ELSE Len(snapshot) + 1
      BY <2>1, <3>1, PushProperties
    <3> QED BY <2>1, <3>1, <3>2, MaxHistoryAssumption
  <2>3. pc' \in Phases /\ echo' \in Armed \cup {NoEcho}
    BY <1>13, <1>17 DEF PublishRow, Phases
  <2>4. UNCHANGED <<netVars, reads, grouped, histVars, outcomes, feed, rpcVars>>
    BY <1>17 DEF PublishRow
  <2> QED BY <2>2, <2>3, <2>4 DEF netVars, histVars, rpcVars
<1>18. CASE Notify
  <2>1. Head(outcomes) \in Nat /\ Tail(outcomes) \in Seq(Nat)
    BY <1>14, <1>18 DEF Notify, PhaseInv
  <2> QED BY <1>18, <2>1 DEF Notify, netVars, histVars, rpcVars, Phases
<1>19. CASE PublishDone
  BY <1>19 DEF PublishDone, netVars, histVars, uiVars, rpcVars, Phases
<1>20. ASSUME requests # << >>
       PROVE  Head(requests) \in Nat /\ Tail(requests) \in Seq(Nat)
  BY <1>20, QueueFacts
<1>21. CASE RestoreEntry
  <2> DEFINE e == Lookup(entries, Head(requests))
  <2>1. e.content \in Contents
    <3>1. e \in Entry
      BY <1>21, LookupTyped DEF RestoreEntry
    <3> QED BY <3>1 DEF Entry
  <2>2. /\ outbox' = Append(outbox, e.content)
        /\ echo' = [age |-> 0, content |-> e.content]
    BY <1>21 DEF RestoreEntry
  <2> HIDE DEF e
  <2>3. [age |-> 0, content |-> e.content] \in Armed
    BY <2>1, ContentAssumption DEF Armed
  <2>4. /\ outbox' \in Seq(Contents) /\ echo' \in Armed \cup {NoEcho}
        /\ replies' \in Seq([entry_id : Nat, restored : BOOLEAN])
    BY <1>20, <1>21, <2>1, <2>2, <2>3, SMTT(30) DEF RestoreEntry
  <2> QED BY <1>20, <1>21, <2>4 DEF RestoreEntry, histVars, uiVars
<1>22. CASE RefuseRestore
  BY <1>20, <1>22 DEF RefuseRestore, netVars, histVars, uiVars
<1>23. CASE Flush
  BY <1>23 DEF Flush, histVars, uiVars, rpcVars, Phases
<1>24. CASE Paste
  BY <1>24 DEF Paste, histVars, uiVars, rpcVars
<1>25. CASE WriteSelection \/ SendDone
  <2>1. CASE WriteSelection
    <3>1. writes' \in Nat
      BY <2>1 DEF WriteSelection
    <3> QED BY <2>1, <3>1 DEF WriteSelection, histVars, uiVars, rpcVars
  <2>2. CASE SendDone
    BY <2>2 DEF SendDone, netVars, histVars, uiVars, rpcVars, Phases
  <2> QED BY <1>25, <2>1, <2>2
<1>26. CASE UNCHANGED vars
  BY <1>26 DEF vars, netVars, histVars, uiVars, rpcVars
<1> QED
  BY <1>1, <1>2, <1>3, <1>4, <1>5, <1>6, <1>7, <1>8, <1>9, <1>10, <1>11, <1>12,
     <1>15, <1>16, <1>17, <1>18, <1>19, <1>21, <1>22, <1>23, <1>24, <1>25, <1>26
  DEF Next, Proceed, Transfer, Store, Publish, Serve, Environment, Exited

\* A step keeps the work of each phase to that phase.
LEMMA PhaseStep == TypeOK /\ PhaseInv /\ [Next]_vars => PhaseInv'
<1> SUFFICES ASSUME TypeOK, PhaseInv, [Next]_vars PROVE PhaseInv'
  OBVIOUS
<1> USE DEF PhaseInv, netVars, histVars, uiVars, rpcVars
<1>1. CASE Environment
  BY <1>1 DEF Environment, PeerCopy, AnnounceOwn, Paste, SendRestore, Tick
<1>2. ASSUME NEW r \in BOOLEAN, Dispatch(r) PROVE PhaseInv'
  BY <1>2 DEF Dispatch
<1>3. CASE Transfer \/ SendDone \/ DrainDone \/ ConnectionLost
  BY <1>3 DEF Transfer, WriteSelection, ReadCopy, ReadNothing, SendDone,
     DrainDone, ConnectionLost
<1>4. CASE Store
  BY <1>4 DEF Store, IgnoreDuplicate, StoreCopy, StoreDone
<1>5. CASE Publish
  BY <1>5 DEF Publish, SkipEvicted, SuppressEcho, PublishRow, Notify, PublishDone
<1>6. CASE Serve
  BY <1>6 DEF Serve, RestoreEntry, RefuseRestore, Flush
<1>7. CASE UNCHANGED vars
  BY <1>7 DEF vars
<1> QED
  BY <1>1, <1>2, <1>3, <1>4, <1>5, <1>6, <1>7 DEF Next, Proceed, Exited

\* The type invariant of the Wayland thread: every variable keeps its type,
\* neither list outgrows MAX_HISTORY, and each phase finishes its work.
THEOREM TypeCorrect == Spec => [](TypeOK /\ PhaseInv)
<1>1. Init => TypeOK /\ PhaseInv
  BY MaxHistoryAssumption DEF Init, TypeOK, PhaseInv, Phases
<1> QED BY <1>1, TypeStep, PhaseStep, PTL DEF Spec

-----------------------------------------------------------------------------
(* The history and the snapshot.                                            *)

\* The oldest pending outcome is held exactly when the history still has room
\* for every pending one, and then it sits just before the other pending ones.
LEMMA HeadPlace ==
  ASSUME TypeOK, IdsInv, PendingInv, outcomes # << >>
  PROVE  /\ Holds(entries, Head(outcomes)) <=> Len(outcomes) <= Len(entries)
         /\ Holds(entries, Head(outcomes)) =>
              Place(entries, Head(outcomes)) = Len(entries) - Len(outcomes) + 1
<1> DEFINE n == Len(entries)
           q == Len(outcomes)
           h == Head(outcomes)
<1>1. n \in Nat /\ q \in Nat \ {0} /\ h = outcomes[1]
  BY QueueFacts DEF TypeOK
<1>2. \A k \in 0..(n - 1) : k < q => entries[n - k].id = outcomes[q - k]
  BY DEF PendingInv
<1>3. \A i, j \in 1..n : i < j => entries[i].id < entries[j].id
  BY DEF IdsInv
<1>4. \A i \in 1..n : entries[i].id \in Nat
  BY EntryIds DEF TypeOK
<1>5. \A i, j \in 1..q : i < j => outcomes[i] < outcomes[j]
  BY DEF IdsInv
<1>6. \A i \in 1..q : outcomes[i] \in Nat
  <2>1. outcomes \in Seq(Nat)
    BY DEF TypeOK
  <2> QED BY <2>1
<1> HIDE DEF n, q, h
<1>7. ASSUME q <= n
      PROVE  Holds(entries, h) /\ Place(entries, h) = n - q + 1
  <2>1. /\ q - 1 \in 0..(n - 1) /\ q - 1 < q /\ n - (q - 1) = n - q + 1
        /\ q - (q - 1) = 1 /\ n - q + 1 \in 1..n
    BY <1>1, <1>7
  <2>2. entries[n - q + 1].id = h
    BY <1>1, <1>2, <2>1
  <2>3. Holds(entries, h)
    BY <2>1, <2>2 DEF Holds, n
  <2>4. Place(entries, h) \in 1..n /\ entries[Place(entries, h)].id = h
    BY <2>3, PlaceProperties DEF n
  <2> DEFINE p == Place(entries, h)
  <2> HIDE DEF p
  <2>5. p \in 1..n /\ entries[p].id = h
    BY <2>4 DEF p
  <2>6. ~(p < n - q + 1) /\ ~(p > n - q + 1)
    BY <1>1, <1>3, <1>4, <2>1, <2>2, <2>5
  <2>7. p = n - q + 1
    BY <1>1, <2>5, <2>6
  <2> QED BY <2>3, <2>7 DEF p
<1>8. ASSUME q > n, Holds(entries, h) PROVE FALSE
  <2>1. PICK i \in 1..n : entries[i].id = h
    BY <1>8 DEF Holds, n
  <2> DEFINE k == n - i
  <2>2. /\ k \in 0..(n - 1) /\ k < q /\ n - k = i /\ q - k \in 1..q /\ 1 < q - k /\ 1 \in 1..q
    BY <1>1, <1>8
  <2> HIDE DEF k
  <2>3. outcomes[q - k] = h
    BY <1>2, <2>1, <2>2
  <2>4. outcomes[1] < outcomes[q - k]
    BY <1>5, <2>2
  <2> QED BY <1>1, <1>6, <2>2, <2>3, <2>4
<1>9. Holds(entries, h) <=> q <= n
  BY <1>1, <1>7, <1>8
<1> QED BY <1>7, <1>9 DEF n, q, h

\* A step that touches neither list nor the pending outcomes, and arms the
\* flag only when nothing is pending, keeps ListInv.
LEMMA ListQuiet ==
  ASSUME TypeOK, ListInv,
         UNCHANGED <<entries, nextId, outcomes, snapshot>>,
         pc = "notify" <=> pc' = "notify",
         echo = NoEcho /\ outcomes # << >> => echo' = NoEcho
  PROVE  ListInv'
<1>1. Unlisted' = Unlisted
  BY DEF Unlisted
<1>2. IdsInv' /\ PendingInv'
  BY DEF ListInv, IdsInv, PendingInv
<1>3. ListedInv' /\ GhostInv'
  BY <1>1 DEF ListInv, ListedInv, GhostInv
<1> QED BY <1>2, <1>3 DEF ListInv

\* Storing a copy: the newest entry is the newest pending outcome.
LEMMA ListStore == TypeOK /\ ListInv /\ StoreCopy => ListInv'
<1> SUFFICES ASSUME TypeOK, ListInv, StoreCopy PROVE ListInv'
  OBVIOUS
<1> DEFINE e == [id |-> nextId, content |-> Head(grouped).content,
                 own |-> Head(grouped).own]
           n == Len(entries)
           m == Len(entries')
           q == Len(outcomes)
           s == Len(snapshot)
<1>1. /\ pc = "store" /\ pc' = "store" /\ nextId' = nextId + 1
      /\ entries' = Push(entries, e) /\ outcomes' = Append(outcomes, nextId)
      /\ UNCHANGED <<snapshot, echo>>
  BY DEF StoreCopy, uiVars
<1>2. e \in Entry /\ e.id = nextId
  <2>1. Head(grouped) \in Copy
    BY QueueFacts DEF TypeOK, StoreCopy
  <2> QED BY <2>1 DEF TypeOK, Copy, Entry
<1> HIDE DEF e
<1>3. /\ entries \in Seq(Entry) /\ n \in Nat /\ n <= MaxHistory
      /\ q \in Nat /\ s \in Nat /\ nextId \in Nat \ {0} /\ outcomes \in Seq(Nat)
      /\ MaxHistory \in Nat \ {0}
  BY MaxHistoryAssumption DEF TypeOK
<1>4. /\ entries' \in Seq(Entry)
      /\ m = IF n >= MaxHistory THEN MaxHistory ELSE n + 1
      /\ entries'[m] = e
      /\ \A k \in 1..(m - 1) : entries'[m - k] = entries[n - k + 1]
      /\ \A i \in 1..(m - 1) :
           i + (n + 1 - m) \in 1..n /\ entries'[i] = entries[i + (n + 1 - m)]
  <2> DEFINE P == Push(entries, e)
  <2>1. /\ P \in Seq(Entry)
        /\ Len(P) = IF n >= MaxHistory THEN MaxHistory ELSE n + 1
        /\ P[Len(P)] = e
        /\ \A k \in 1..(Len(P) - 1) : P[Len(P) - k] = entries[n - k + 1]
        /\ \A i \in 1..(Len(P) - 1) :
             i + (n + 1 - Len(P)) \in 1..n /\ P[i] = entries[i + (n + 1 - Len(P))]
    <3>1. entries \in Seq(Entry) /\ e \in Entry
      BY <1>2, <1>3
    <3> QED BY <3>1, PushProperties, ZenonT(30)
  <2> QED BY <1>1, <2>1
<1>5. /\ Len(outcomes') = q + 1 /\ outcomes'[q + 1] = nextId
      /\ \A i \in 1..q : outcomes'[i] = outcomes[i]
  BY <1>1, <1>3
<1>6. Unlisted = outcomes /\ Unlisted' = outcomes'
  BY <1>1 DEF Unlisted
<1>7. IdsInv'
  <2>1. \A i \in 1..n : entries[i].id \in Nat
    BY <1>3, EntryIds
  <2>2. \A i \in 1..q : outcomes[i] \in Nat
    BY <1>3
  <2>3. /\ \A i \in 1..n : entries[i].id < nextId
        /\ \A i, j \in 1..n : i < j => entries[i].id < entries[j].id
        /\ \A i \in 1..q : outcomes[i] < nextId
        /\ \A i, j \in 1..q : i < j => outcomes[i] < outcomes[j]
    BY DEF ListInv, IdsInv
  <2> HIDE DEF n, m, q
  <2>4. m \in Nat \ {0} /\ m <= n + 1
    BY <1>3, <1>4
  <2>5. ASSUME NEW i \in 1..m PROVE entries'[i].id < nextId'
    <3>1. CASE i = m
      BY <1>1, <1>2, <1>3, <1>4, <3>1
    <3>2. CASE i < m
      <4>1. i + (n + 1 - m) \in 1..n /\ entries'[i] = entries[i + (n + 1 - m)]
        BY <1>4, <2>4, <3>2
      <4> QED BY <1>1, <1>3, <2>1, <2>3, <4>1
    <3> QED BY <2>4, <3>1, <3>2
  <2>6. ASSUME NEW i \in 1..m, NEW j \in 1..m, i < j
        PROVE  entries'[i].id < entries'[j].id
    <3>1. i + (n + 1 - m) \in 1..n /\ entries'[i] = entries[i + (n + 1 - m)]
      BY <1>4, <2>4, <2>6
    <3>2. CASE j = m
      BY <1>2, <1>4, <2>3, <3>1, <3>2
    <3>3. CASE j < m
      <4>1. j + (n + 1 - m) \in 1..n /\ entries'[j] = entries[j + (n + 1 - m)]
        BY <1>4, <2>4, <3>3
      <4>2. i + (n + 1 - m) < j + (n + 1 - m)
        BY <1>3, <2>4, <2>6
      <4> QED BY <2>3, <3>1, <4>1, <4>2
    <3> QED BY <2>4, <3>2, <3>3
  <2>7. /\ \A i \in 1..(q + 1) : outcomes'[i] < nextId'
        /\ \A i, j \in 1..(q + 1) : i < j => outcomes'[i] < outcomes'[j]
    BY <1>1, <1>3, <1>5, <2>2, <2>3, SMTT(30)
  <2> QED BY <1>5, <2>5, <2>6, <2>7 DEF IdsInv, m
<1>8. \A k \in 0..(n - 1) : k < q => entries[n - k].id = outcomes[q - k]
  BY DEF ListInv, PendingInv
<1>9. /\ n <= s + q
      /\ \A k \in 0..(n - 1) : k >= q => entries[n - k].id = snapshot[s - (k - q)]
  BY <1>6 DEF ListInv, ListedInv
<1>10. /\ q <= n \/ n = MaxHistory
       /\ \/ s + q <= n
          \/ n = MaxHistory
          \/ n = MaxHistory - 1
  BY <1>6 DEF ListInv, PendingInv, GhostInv
<1>11. ASSUME NEW k \in 1..(m - 1)
       PROVE  k - 1 \in 0..(n - 1) /\ entries'[m - k] = entries[n - (k - 1)]
  <2>1. m <= n + 1 /\ m \in Nat
    BY <1>3, <1>4
  <2>2. k - 1 \in 0..(n - 1) /\ n - k + 1 = n - (k - 1)
    BY <1>3, <2>1
  <2> QED BY <1>4, <2>2
<1> HIDE DEF n, m, q, s
<1>12. ASSUME NEW k \in 0..(m - 1)
       PROVE  /\ k < q + 1 => entries'[m - k].id = outcomes'[q + 1 - k]
              /\ k >= q + 1 => entries'[m - k].id = snapshot[s - (k - (q + 1))]
  <2>1. CASE k = 0
    BY <1>2, <1>3, <1>4, <1>5, <2>1
  <2>2. CASE k > 0
    <3>1. k \in 1..(m - 1) /\ k - 1 \in 0..(n - 1) /\ entries'[m - k] = entries[n - (k - 1)]
      BY <1>11, <2>2
    <3>2. ASSUME k < q + 1 PROVE entries'[m - k].id = outcomes'[q + 1 - k]
      <4>1. k - 1 < q /\ q - (k - 1) = q + 1 - k /\ q + 1 - k \in 1..q
        BY <1>3, <2>2, <3>2
      <4> QED BY <1>5, <1>8, <3>1, <4>1
    <3>3. ASSUME k >= q + 1 PROVE entries'[m - k].id = snapshot[s - (k - (q + 1))]
      <4>1. k - 1 >= q /\ s - ((k - 1) - q) = s - (k - (q + 1))
        BY <1>3, <2>2, <3>3
      <4> QED BY <1>9, <3>1, <4>1
    <3> QED BY <3>2, <3>3
  <2> QED BY <2>1, <2>2
<1>13. /\ q + 1 <= m \/ m = MaxHistory
       /\ m <= s + (q + 1)
       /\ s + (q + 1) <= m \/ m = MaxHistory
  BY <1>3, <1>4, <1>9, <1>10
<1>14. PendingInv'
  <2>1. q \in Nat /\ m \in Nat
    BY <1>3, <1>4
  <2>2. \A k \in 0..(m - 1) :
          k < Len(outcomes') => entries'[m - k].id = outcomes'[Len(outcomes') - k]
    BY <1>5, <1>12, <2>1
  <2> QED BY <1>1, <1>5, <1>13, <2>1, <2>2 DEF PendingInv, m
<1>15. ListedInv' /\ GhostInv'
  BY <1>1, <1>5, <1>6, <1>12, <1>13 DEF ListedInv, GhostInv, m, s
<1> QED BY <1>7, <1>14, <1>15 DEF ListInv

\* What ListInv says in a publish phase, in plain numbers.
LEMMA PublishFacts ==
  ASSUME TypeOK, ListInv, pc = "publish", outcomes # << >>
  PROVE  /\ Len(entries) \in Nat /\ Len(outcomes) \in Nat \ {0} /\ Len(snapshot) \in Nat
         /\ Len(entries) <= MaxHistory /\ MaxHistory \in Nat \ {0}
         /\ Len(snapshot) <= MaxHistory
         /\ Head(outcomes) \in Nat /\ Head(outcomes) = outcomes[1]
         /\ Tail(outcomes) \in Seq(Nat) /\ Len(Tail(outcomes)) = Len(outcomes) - 1
         /\ \A i \in 1..(Len(outcomes) - 1) : Tail(outcomes)[i] = outcomes[i + 1]
         /\ Len(entries) <= Len(snapshot) + Len(outcomes)
         /\ Len(outcomes) <= Len(entries) \/ Len(entries) = MaxHistory
         /\ \/ Len(snapshot) + Len(outcomes) <= Len(entries)
            \/ Len(entries) = MaxHistory
            \/ Len(entries) = MaxHistory - 1 /\ echo = NoEcho
         /\ \A k \in 0..(Len(entries) - 1) :
              k < Len(outcomes) =>
                entries[Len(entries) - k].id = outcomes[Len(outcomes) - k]
         /\ \A k \in 0..(Len(entries) - 1) :
              k >= Len(outcomes) =>
                entries[Len(entries) - k].id = snapshot[Len(snapshot) - (k - Len(outcomes))]
<1>1. Unlisted = outcomes
  BY DEF Unlisted
<1>2. /\ Head(outcomes) \in Nat /\ Head(outcomes) = outcomes[1]
      /\ Tail(outcomes) \in Seq(Nat) /\ Len(Tail(outcomes)) = Len(outcomes) - 1
      /\ \A i \in 1..(Len(outcomes) - 1) : Tail(outcomes)[i] = outcomes[i + 1]
      /\ Len(outcomes) \in Nat \ {0}
  BY QueueFacts DEF TypeOK
<1>3. /\ Len(entries) \in Nat /\ Len(snapshot) \in Nat /\ Len(entries) <= MaxHistory
      /\ Len(snapshot) <= MaxHistory /\ MaxHistory \in Nat \ {0}
  BY MaxHistoryAssumption DEF TypeOK
<1> QED BY <1>1, <1>2, <1>3 DEF ListInv, PendingInv, ListedInv, GhostInv

\* Dropping the oldest outcome keeps the outcomes increasing.
LEMMA TailIds ==
  ASSUME TypeOK, IdsInv, outcomes # << >>, outcomes' = Tail(outcomes), nextId' = nextId
  PROVE  /\ \A i \in 1..Len(outcomes') : outcomes'[i] < nextId'
         /\ \A i, j \in 1..Len(outcomes') : i < j => outcomes'[i] < outcomes'[j]
<1>1. /\ Len(outcomes) \in Nat \ {0} /\ Len(outcomes') = Len(outcomes) - 1
      /\ \A i \in 1..Len(outcomes') : outcomes'[i] = outcomes[i + 1]
  BY QueueFacts DEF TypeOK
<1>2. \A i \in 1..Len(outcomes') : i + 1 \in 1..Len(outcomes)
  BY <1>1
<1>3. \A i, j \in 1..Len(outcomes') : i < j => i + 1 < j + 1
  BY <1>1
<1> QED BY <1>1, <1>2, <1>3 DEF IdsInv

\* Skipping an outcome whose entry is gone.
LEMMA ListSkip == TypeOK /\ ListInv /\ SkipEvicted => ListInv'
<1> SUFFICES ASSUME TypeOK, ListInv, SkipEvicted PROVE ListInv'
  OBVIOUS
<1> DEFINE n == Len(entries)
           q == Len(outcomes)
           s == Len(snapshot)
<1>1. /\ pc = "publish" /\ pc' = "publish" /\ outcomes # << >>
      /\ ~Holds(entries, Head(outcomes)) /\ outcomes' = Tail(outcomes)
      /\ UNCHANGED <<entries, nextId, snapshot>>
  BY DEF SkipEvicted, histVars, uiVars
<1>2. q > n /\ n \in Nat /\ q \in Nat \ {0} /\ n = MaxHistory /\ s \in Nat
  BY <1>1, HeadPlace, PublishFacts DEF ListInv
<1>3. /\ Len(outcomes') = q - 1
      /\ \A i \in 1..(q - 1) : outcomes'[i] = outcomes[i + 1]
      /\ \A k \in 0..(n - 1) : k < q => entries[n - k].id = outcomes[q - k]
  BY <1>1, PublishFacts
<1>4. IdsInv'
  BY <1>1, TailIds DEF ListInv, IdsInv
<1>5. Unlisted' = outcomes'
  BY <1>1 DEF Unlisted
<1>6. PendingInv'
  <2>1. ASSUME NEW k \in 0..(n - 1), k < q - 1
        PROVE  entries[n - k].id = outcomes'[q - 1 - k]
    <3>1. q - 1 - k \in 1..(q - 1) /\ q - 1 - k + 1 = q - k /\ k < q
      BY <1>2, <2>1
    <3> QED BY <1>3, <3>1
  <2> QED BY <1>1, <1>2, <1>3, <2>1 DEF PendingInv
<1>7. ListedInv' /\ GhostInv'
  BY <1>1, <1>2, <1>3, <1>5 DEF ListedInv, GhostInv
<1> QED BY <1>4, <1>6, <1>7 DEF ListInv

\* Suppressing an echo takes the oldest pending entry out of the history.
LEMMA ListSuppress == TypeOK /\ ListInv /\ SuppressEcho => ListInv'
<1> SUFFICES ASSUME TypeOK, ListInv, SuppressEcho PROVE ListInv'
  OBVIOUS
<1> DEFINE n == Len(entries)
           q == Len(outcomes)
           s == Len(snapshot)
           h == Head(outcomes)
           p == Place(entries, h)
<1>1. /\ pc = "publish" /\ pc' = "publish" /\ outcomes # << >>
      /\ Holds(entries, h) /\ entries' = Without(entries, h)
      /\ outcomes' = Tail(outcomes) /\ echo' = NoEcho /\ echo # NoEcho
      /\ UNCHANGED <<nextId, snapshot>>
  BY DEF SuppressEcho, AfterEcho, IsEcho, Pruned, uiVars
<1>2. /\ n \in Nat /\ q \in Nat \ {0} /\ s \in Nat /\ q <= n /\ p = n - q + 1
      /\ n <= MaxHistory /\ MaxHistory \in Nat \ {0} /\ n <= s + q
      /\ s + q <= n \/ n = MaxHistory
  BY <1>1, HeadPlace, PublishFacts DEF ListInv
<1>3. /\ Len(outcomes') = q - 1
      /\ \A i \in 1..(q - 1) : outcomes'[i] = outcomes[i + 1]
      /\ \A k \in 0..(n - 1) : k < q => entries[n - k].id = outcomes[q - k]
      /\ \A k \in 0..(n - 1) : k >= q => entries[n - k].id = snapshot[s - (k - q)]
  BY <1>1, PublishFacts
<1>4. entries \in Seq(Entry)
  BY DEF TypeOK
<1>5. /\ Len(entries') = n - 1
      /\ \A k \in 0..(n - 2) :
           entries'[n - 1 - k] = IF k < n - p THEN entries[n - k] ELSE entries[n - 1 - k]
      /\ \A j \in 1..(n - 1) : entries'[j] = IF j < p THEN entries[j] ELSE entries[j + 1]
  <2> DEFINE W == Without(entries, h)
  <2>1. /\ Len(W) = n - 1
        /\ \A k \in 0..(n - 2) :
             W[n - 1 - k] = IF k < n - p THEN entries[n - k] ELSE entries[n - 1 - k]
        /\ \A j \in 1..(n - 1) : W[j] = IF j < p THEN entries[j] ELSE entries[j + 1]
    BY <1>1, <1>4, WithoutProperties
  <2> QED BY <1>1, <2>1
<1> HIDE DEF h, p, n, q, s
<1>6. IdsInv'
  <2>1. /\ \A i \in 1..n : entries[i].id < nextId
        /\ \A i, j \in 1..n : i < j => entries[i].id < entries[j].id
    BY DEF ListInv, IdsInv, n
  <2>2. \A i \in 1..n : entries[i].id \in Nat
    BY <1>4, EntryIds DEF n
  <2> DEFINE from(i) == IF i < p THEN i ELSE i + 1
  <2>3. \A i \in 1..(n - 1) : from(i) \in 1..n /\ entries'[i] = entries[from(i)]
    BY <1>2, <1>5
  <2>4. \A i, j \in 1..(n - 1) : i < j => from(i) < from(j)
    BY <1>2
  <2> HIDE DEF from
  <2>5. /\ \A i \in 1..(n - 1) : entries'[i].id < nextId
        /\ \A i, j \in 1..(n - 1) : i < j => entries'[i].id < entries'[j].id
    BY <2>1, <2>3, <2>4
  <2> QED BY <1>1, <1>5, <2>5, TailIds DEF IdsInv, ListInv
<1>7. Unlisted' = outcomes'
  BY <1>1 DEF Unlisted
<1>8. ASSUME NEW k \in 0..(n - 2)
      PROVE  /\ k < q - 1 => entries'[n - 1 - k].id = outcomes'[q - 1 - k]
             /\ k >= q - 1 => entries'[n - 1 - k].id = snapshot[s - (k - (q - 1))]
  <2>1. ASSUME k < q - 1 PROVE entries'[n - 1 - k].id = outcomes'[q - 1 - k]
    <3>1. /\ k < n - p /\ k \in 0..(n - 1) /\ k < q
          /\ q - 1 - k \in 1..(q - 1) /\ q - 1 - k + 1 = q - k
      BY <1>2, <2>1
    <3>2. entries'[n - 1 - k] = entries[n - k]
      BY <1>5, <3>1
    <3> QED BY <1>3, <3>1, <3>2
  <2>2. ASSUME k >= q - 1
        PROVE  entries'[n - 1 - k].id = snapshot[s - (k - (q - 1))]
    <3>1. /\ ~(k < n - p) /\ k + 1 \in 0..(n - 1) /\ k + 1 >= q
          /\ n - (k + 1) = n - 1 - k /\ s - ((k + 1) - q) = s - (k - (q - 1))
      BY <1>2, <2>2
    <3>2. entries'[n - 1 - k] = entries[n - 1 - k]
      BY <1>5, <3>1
    <3> QED BY <1>3, <3>1, <3>2
  <2> QED BY <2>1, <2>2
<1>9. PendingInv'
  <2>1. /\ Len(outcomes') = q - 1 /\ Len(entries') = n - 1
        /\ q - 1 \in Nat /\ n - 1 \in Nat /\ q - 1 <= n - 1
    BY <1>2, <1>3, <1>5
  <2>2. \A k \in 0..(n - 2) :
          k < q - 1 => entries'[n - 1 - k].id = outcomes'[q - 1 - k]
    BY <1>8
  <2>3. pc' # "notify"
    BY <1>1
  <2>4. \A k \in 0..(Len(entries') - 1) : k \in 0..(n - 2)
    BY <1>2, <2>1
  <2> QED BY <1>2, <2>1, <2>2, <2>3, <2>4 DEF PendingInv
<1>10. ListedInv'
  BY <1>1, <1>2, <1>3, <1>5, <1>7, <1>8 DEF ListedInv, s
<1>11. GhostInv'
  BY <1>1, <1>2, <1>3, <1>5, <1>7 DEF GhostInv, s
<1> QED BY <1>6, <1>9, <1>10, <1>11 DEF ListInv

\* Publishing a row: the oldest pending entry becomes the newest row.
LEMMA ListPublish == TypeOK /\ ListInv /\ PublishRow => ListInv'
<1> SUFFICES ASSUME TypeOK, ListInv, PublishRow PROVE ListInv'
  OBVIOUS
<1> DEFINE n == Len(entries)
           q == Len(outcomes)
           s == Len(snapshot)
           t == Len(snapshot')
           h == Head(outcomes)
<1>1. /\ pc = "publish" /\ pc' = "notify" /\ outcomes # << >>
      /\ Holds(entries, h) /\ snapshot' = Push(snapshot, h)
      /\ echo = NoEcho => echo' = NoEcho
      /\ UNCHANGED <<entries, nextId, outcomes>>
  BY DEF PublishRow, Pruned, histVars
<1>2. /\ n \in Nat /\ q \in Nat \ {0} /\ s \in Nat /\ q <= n
      /\ n <= MaxHistory /\ s <= MaxHistory /\ MaxHistory \in Nat \ {0} /\ n <= s + q
      /\ \/ s + q <= n
         \/ n = MaxHistory
         \/ n = MaxHistory - 1 /\ echo = NoEcho
      /\ h \in Nat /\ h = outcomes[1]
  BY <1>1, HeadPlace, PublishFacts DEF ListInv
<1>3. /\ \A k \in 0..(n - 1) : k < q => entries[n - k].id = outcomes[q - k]
      /\ \A k \in 0..(n - 1) : k >= q => entries[n - k].id = snapshot[s - (k - q)]
  BY <1>1, PublishFacts
<1>4. /\ t = IF s >= MaxHistory THEN MaxHistory ELSE s + 1
      /\ snapshot'[t] = h
      /\ \A k \in 1..(t - 1) : snapshot'[t - k] = snapshot[s - k + 1]
  <2> DEFINE P == Push(snapshot, h)
  <2>1. snapshot \in Seq(Nat) /\ h \in Nat
    BY <1>2 DEF TypeOK
  <2>2. /\ P \in Seq(Nat)
        /\ Len(P) = IF Len(snapshot) >= MaxHistory THEN MaxHistory ELSE Len(snapshot) + 1
        /\ P[Len(P)] = h
        /\ \A k \in 1..(Len(P) - 1) : P[Len(P) - k] = snapshot[Len(snapshot) - k + 1]
        /\ \A i \in 1..(Len(P) - 1) :
             /\ i + (Len(snapshot) + 1 - Len(P)) \in 1..Len(snapshot)
             /\ P[i] = snapshot[i + (Len(snapshot) + 1 - Len(P))]
    <3> HIDE DEF h
    <3> QED BY <2>1, PushProperties, ZenonT(60)
  <2> QED BY <1>1, <2>2
<1>5. Unlisted' = Tail(outcomes) /\ Len(Tail(outcomes)) = q - 1
  BY <1>1, PublishFacts DEF Unlisted
<1>6. IdsInv'
  BY <1>1 DEF ListInv, IdsInv
<1>7. PendingInv'
  BY <1>1, <1>2, <1>3 DEF PendingInv
<1> HIDE DEF h, n, q, s, t
<1>8. t \in Nat /\ n <= t + (q - 1) /\ n - q <= t - 1
      /\ (s + q <= n => t + (q - 1) <= n)
  BY <1>2, <1>4
<1>9. ASSUME NEW k \in 0..(n - 1), k >= q - 1
      PROVE  entries[n - k].id = snapshot'[t - (k - (q - 1))]
  <2>1. CASE k = q - 1
    <3>1. k < q /\ q - k = 1 /\ t - (k - (q - 1)) = t
      BY <1>2, <1>8, <2>1
    <3> QED BY <1>2, <1>3, <1>4, <3>1
  <2>2. CASE k >= q
    <3>1. /\ k - (q - 1) \in 1..(t - 1)
          /\ s - (k - (q - 1)) + 1 = s - (k - q)
      BY <1>2, <1>8, <2>2
    <3> QED BY <1>3, <1>4, <2>2, <3>1
  <2> QED BY <1>2, <1>9, <2>1, <2>2
<1>10. ListedInv'
  <2>1. Len(entries') = n /\ Len(Unlisted') = q - 1 /\ Len(snapshot') = t
    BY <1>1, <1>5 DEF n, t
  <2> QED BY <1>1, <1>2, <1>8, <1>9, <2>1 DEF ListedInv
<1>11. GhostInv'
  <2>1. Len(entries') = n /\ Len(Unlisted') = q - 1 /\ Len(snapshot') = t
    BY <1>1, <1>5 DEF n, t
  <2> QED BY <1>1, <1>2, <1>8, <2>1 DEF GhostInv
<1> QED BY <1>6, <1>7, <1>10, <1>11 DEF ListInv

\* The broadcast that follows: the outcome leaves the queue.
LEMMA ListNotify == TypeOK /\ PhaseInv /\ ListInv /\ Notify => ListInv'
<1> SUFFICES ASSUME TypeOK, PhaseInv, ListInv, Notify PROVE ListInv'
  OBVIOUS
<1> DEFINE n == Len(entries)
           q == Len(outcomes)
<1>1. /\ pc = "notify" /\ pc' = "publish" /\ outcomes # << >>
      /\ outcomes' = Tail(outcomes)
      /\ UNCHANGED <<entries, nextId, snapshot, echo>>
  BY DEF Notify, PhaseInv, histVars
<1>2. Unlisted' = Unlisted
  BY <1>1 DEF Unlisted
<1>3. /\ q \in Nat \ {0} /\ n \in Nat /\ Len(outcomes') = q - 1
      /\ \A i \in 1..(q - 1) : outcomes'[i] = outcomes[i + 1]
  BY <1>1, QueueFacts DEF TypeOK
<1>4. IdsInv'
  BY <1>1, TailIds DEF ListInv, IdsInv
<1>5. PendingInv'
  <2>1. /\ q <= n
        /\ \A k \in 0..(n - 1) : k < q => entries[n - k].id = outcomes[q - k]
    BY <1>1 DEF ListInv, PendingInv
  <2>2. ASSUME NEW k \in 0..(n - 1), k < q - 1
        PROVE  entries[n - k].id = outcomes'[q - 1 - k]
    <3>1. q - 1 - k \in 1..(q - 1) /\ q - 1 - k + 1 = q - k /\ k < q
      BY <1>3, <2>2
    <3> QED BY <1>3, <2>1, <3>1
  <2> QED BY <1>1, <1>3, <2>1, <2>2 DEF PendingInv
<1>6. ListedInv' /\ GhostInv'
  BY <1>1, <1>2 DEF ListInv, ListedInv, GhostInv
<1> QED BY <1>4, <1>5, <1>6 DEF ListInv

\* Every step keeps ListInv.
LEMMA ListStep == TypeOK /\ PhaseInv /\ ListInv /\ [Next]_vars => ListInv'
<1> SUFFICES ASSUME TypeOK, PhaseInv, ListInv, [Next]_vars PROVE ListInv'
  OBVIOUS
<1> USE DEF netVars, histVars, uiVars, rpcVars
<1>1. CASE Environment
  BY <1>1, ListQuiet DEF Environment, PeerCopy, AnnounceOwn, Paste, SendRestore, Tick, TypeOK, Armed
<1>2. ASSUME NEW r \in BOOLEAN, Dispatch(r) PROVE ListInv'
  BY <1>2, ListQuiet DEF Dispatch
<1>3. CASE Transfer \/ SendDone \/ DrainDone \/ ConnectionLost
  BY <1>3, ListQuiet DEF Transfer, WriteSelection, ReadCopy, ReadNothing, SendDone,
     DrainDone, ConnectionLost
<1>4. CASE IgnoreDuplicate \/ StoreDone \/ PublishDone
  BY <1>4, ListQuiet DEF IgnoreDuplicate, StoreDone, PublishDone
<1>5. CASE Serve
  BY <1>5, ListQuiet DEF Serve, RestoreEntry, RefuseRestore, Flush, PhaseInv
<1>6. CASE UNCHANGED vars
  BY <1>6, ListQuiet DEF vars
<1> QED
  BY <1>1, <1>2, <1>3, <1>4, <1>5, <1>6, ListStore, ListSkip, ListSuppress,
     ListPublish, ListNotify
  DEF Next, Proceed, Store, Publish, Exited

\* ListInv holds at the start.
LEMMA ListInit == Init => ListInv
  BY MaxHistoryAssumption
  DEF Init, ListInv, IdsInv, PendingInv, ListedInv, GhostInv, Unlisted

\* ListInv is an invariant of the thread.
LEMMA ListInvariant == Spec => []ListInv
<1>1. (TypeOK /\ PhaseInv) /\ ListInv /\ [Next]_vars => ListInv'
  BY ListStep
<1> QED BY <1>1, ListInit, TypeCorrect, PTL DEF Spec

\* Between batches the history is exactly the tail of the snapshot.
THEOREM HistoryIsListed == Spec => []HistoryListed
<1>1. TypeOK /\ ListInv => HistoryListed
  <2> SUFFICES ASSUME TypeOK, ListInv, Unlisted = << >>
               PROVE  /\ Len(entries) <= Len(snapshot)
                      /\ \A i \in 1..Len(entries) :
                           entries[i].id = snapshot[Len(snapshot) - Len(entries) + i]
    BY DEF HistoryListed
  <2> DEFINE n == Len(entries)
             s == Len(snapshot)
  <2>1. /\ n \in Nat /\ s \in Nat /\ n <= s
        /\ \A k \in 0..(n - 1) : entries[n - k].id = snapshot[s - k]
    <3>1. n \in Nat /\ s \in Nat /\ Len(Unlisted) = 0
      BY DEF TypeOK
    <3>2. /\ n <= s + 0
          /\ \A k \in 0..(n - 1) : k >= 0 => entries[n - k].id = snapshot[s - (k - 0)]
      BY <3>1 DEF ListInv, ListedInv
    <3>3. \A k \in 0..(n - 1) : k >= 0 /\ s - (k - 0) = s - k
      BY <3>1
    <3> QED BY <3>1, <3>2, <3>3
  <2> HIDE DEF n, s
  <2>2. ASSUME NEW i \in 1..n PROVE entries[i].id = snapshot[s - n + i]
    <3>1. n - i \in 0..(n - 1) /\ n - (n - i) = i /\ s - (n - i) = s - n + i
      BY <2>1
    <3> QED BY <2>1, <3>1
  <2> QED BY <2>1, <2>2 DEF n, s
<1> QED BY <1>1, ListInvariant, TypeCorrect, PTL

\* However many echoes are suppressed, at most one row outlives its entry.
THEOREM GhostRowsBounded == Spec => []AtMostOneGhostRow
<1>1. TypeOK /\ ListInv => AtMostOneGhostRow
  <2> SUFFICES ASSUME TypeOK, ListInv, Unlisted = << >>
               PROVE  Len(snapshot) <= Len(entries) + 1
    BY DEF AtMostOneGhostRow
  <2>1. /\ Len(snapshot) \in Nat /\ Len(entries) \in Nat
        /\ Len(snapshot) <= MaxHistory /\ MaxHistory \in Nat
    BY MaxHistoryAssumption DEF TypeOK
  <2> QED BY <2>1 DEF ListInv, GhostInv
<1> QED BY <1>1, ListInvariant, TypeCorrect, PTL

-----------------------------------------------------------------------------
(* The broadcast.                                                           *)

\* Every step keeps the snapshot equal to what the broadcast leaves.
LEMMA FeedStep ==
  TypeOK /\ PhaseInv /\ SnapshotReplaysFeed /\ [Next]_vars => SnapshotReplaysFeed'
<1> SUFFICES ASSUME TypeOK, PhaseInv, SnapshotReplaysFeed, [Next]_vars
             PROVE  SnapshotReplaysFeed'
  OBVIOUS
<1> USE DEF SnapshotReplaysFeed, netVars, histVars, uiVars, rpcVars
<1>1. CASE Environment
  BY <1>1 DEF Environment, PeerCopy, AnnounceOwn, Paste, SendRestore, Tick
<1>2. ASSUME NEW r \in BOOLEAN, Dispatch(r) PROVE SnapshotReplaysFeed'
  BY <1>2 DEF Dispatch
<1>3. CASE Transfer \/ SendDone \/ DrainDone \/ ConnectionLost
  BY <1>3 DEF Transfer, WriteSelection, ReadCopy, ReadNothing, SendDone,
     DrainDone, ConnectionLost
<1>4. CASE Store
  BY <1>4 DEF Store, IgnoreDuplicate, StoreCopy, StoreDone
<1>5. CASE SkipEvicted \/ SuppressEcho \/ PublishDone
  BY <1>5 DEF SkipEvicted, SuppressEcho, PublishDone
<1>6. CASE PublishRow
  <2>1. /\ pc = "publish" /\ pc' = "notify" /\ feed' = feed /\ outcomes' = outcomes
        /\ outcomes # << >> /\ snapshot' = Push(snapshot, Head(outcomes))
    BY <1>6 DEF PublishRow
  <2>2. feed \in Seq(Nat) /\ Head(outcomes) \in Nat
    BY <2>1, QueueFacts DEF TypeOK
  <2>3. Push(KeepNewest(feed), Head(outcomes)) = KeepNewest(Append(feed, Head(outcomes)))
    BY <2>2, KeepNewestPush
  <2> QED BY <2>1, <2>3
<1>7. CASE Notify
  BY <1>7 DEF Notify
<1>8. CASE Serve
  BY <1>8 DEF Serve, RestoreEntry, RefuseRestore, Flush
<1>9. CASE UNCHANGED vars
  BY <1>9 DEF vars
<1> QED
  BY <1>1, <1>2, <1>3, <1>4, <1>5, <1>6, <1>7, <1>8, <1>9
  DEF Next, Proceed, Publish, Exited

\* List and the EntryAdded pushes agree: the snapshot is what the pushes leave.
THEOREM SnapshotIsReplay == Spec => []SnapshotReplaysFeed
<1>1. Init => SnapshotReplaysFeed
  BY MaxHistoryAssumption DEF Init, SnapshotReplaysFeed, KeepNewest
<1>2. (TypeOK /\ PhaseInv) /\ SnapshotReplaysFeed /\ [Next]_vars => SnapshotReplaysFeed'
  BY FeedStep
<1> QED BY <1>1, <1>2, TypeCorrect, PTL DEF Spec

-----------------------------------------------------------------------------
(* How much a restore can hide.                                             *)

\* No batch is larger than what one dispatch can find.
LEMMA BurstStep == TypeOK /\ PhaseInv /\ BurstInv /\ [Next]_vars => BurstInv'
<1> SUFFICES ASSUME TypeOK, PhaseInv, BurstInv, [Next]_vars PROVE BurstInv'
  OBVIOUS
<1> USE BoundAssumption DEF BurstInv, netVars, histVars, uiVars, rpcVars
<1>1. /\ Len(inbox) \in Nat /\ Len(reads) \in Nat /\ Len(grouped) \in Nat
      /\ Len(outcomes) \in Nat
      /\ reads # << >> => Len(Tail(reads)) = Len(reads) - 1
      /\ grouped # << >> => Len(Tail(grouped)) = Len(grouped) - 1
      /\ outcomes # << >> => Len(Tail(outcomes)) = Len(outcomes) - 1
      /\ \A x : Len(Append(inbox, x)) = Len(inbox) + 1
      /\ \A x : Len(Append(grouped, x)) = Len(grouped) + 1
      /\ \A x : Len(Append(outcomes, x)) = Len(outcomes) + 1
  BY QueueFacts DEF TypeOK
<1>2. CASE Environment
  <2>1. ASSUME NEW c \in Contents, PeerCopy(c) PROVE BurstInv'
    <3>1. /\ Len(inbox') = Len(inbox) + 1 /\ Len(inbox) < MaxBurst
          /\ UNCHANGED <<reads, grouped, outcomes>>
      BY <1>1, <2>1 DEF PeerCopy
    <3> QED BY <1>1, <3>1
  <2>2. CASE AnnounceOwn
    <3>1. /\ Len(inbox') = Len(inbox) + 1 /\ Len(inbox) < MaxBurst
          /\ UNCHANGED <<reads, grouped, outcomes>>
      BY <1>1, <2>2 DEF AnnounceOwn
    <3> QED BY <1>1, <3>1
  <2>3. ASSUME NEW id \in 1..MaxIds, SendRestore(id) PROVE BurstInv'
    BY <2>3 DEF SendRestore
  <2>4. CASE Tick \/ Paste
    BY <2>4 DEF Tick, Paste
  <2> QED BY <1>2, <2>1, <2>2, <2>3, <2>4 DEF Environment
<1>3. ASSUME NEW r \in BOOLEAN, Dispatch(r) PROVE BurstInv'
  <2>1. reads = << >> /\ reads' = reads \o inbox /\ inbox' = << >>
        /\ UNCHANGED <<grouped, outcomes>> /\ grouped = << >> /\ outcomes = << >>
    BY <1>3 DEF Dispatch, PhaseInv
  <2>2. reads' = inbox
    BY <2>1, ConcatEmptySeq DEF TypeOK
  <2> QED BY <1>1, <2>1, <2>2
<1>4. CASE Transfer \/ SendDone \/ DrainDone \/ ConnectionLost
  <2>1. CASE ReadCopy
    <3>1. /\ Len(grouped') = Len(grouped) + 1 /\ Len(reads') = Len(reads) - 1
          /\ UNCHANGED <<inbox, outcomes>>
      BY <1>1, <2>1 DEF ReadCopy
    <3> QED BY <1>1, <3>1
  <2>2. CASE WriteSelection \/ ReadNothing \/ SendDone \/ DrainDone \/ ConnectionLost
    BY <1>1, <2>2 DEF WriteSelection, ReadNothing, SendDone, DrainDone, ConnectionLost
  <2> QED BY <1>4, <2>1, <2>2 DEF Transfer
<1>5. CASE Store
  BY <1>1, <1>5 DEF Store, IgnoreDuplicate, StoreCopy, StoreDone
<1>6. CASE Publish
  BY <1>1, <1>6 DEF Publish, SkipEvicted, SuppressEcho, PublishRow, Notify,
                    PublishDone, PhaseInv
<1>7. CASE Serve
  BY <1>7 DEF Serve, RestoreEntry, RefuseRestore, Flush
<1>8. CASE UNCHANGED vars
  BY <1>8 DEF vars
<1> QED
  BY <1>2, <1>3, <1>4, <1>5, <1>6, <1>7, <1>8 DEF Next, Proceed, Exited

\* The size of the batches is bounded throughout.
LEMMA BurstInvariant == Spec => []BurstInv
<1>1. Init => BurstInv
  BY BoundAssumption DEF Init, BurstInv
<1>2. (TypeOK /\ PhaseInv) /\ BurstInv /\ [Next]_vars => BurstInv'
  BY BurstStep
<1> QED BY <1>1, <1>2, TypeCorrect, PTL DEF Spec

\* The restores that succeeded are finitely many.
LEMMA RestoredFinite ==
  ASSUME TypeOK
  PROVE  IsFiniteSet(Restored) /\ Cardinality(Restored) \in Nat
<1>1. Len(replies) \in Nat
  BY DEF TypeOK
<1>2. IsFiniteSet(1..Len(replies))
  BY <1>1, FS_Interval
<1>3. Restored \in SUBSET (1..Len(replies))
  BY DEF Restored
<1>4. IsFiniteSet(Restored)
  BY <1>2, <1>3, FS_Subset
<1> QED BY <1>4, FS_CardinalityType

\* One more reply raises the number of successful restores by one or not at all.
LEMMA RestoredCount ==
  ASSUME TypeOK, NEW r \in [entry_id : Nat, restored : BOOLEAN],
         replies' = Append(replies, r)
  PROVE  /\ Cardinality(Restored) \in Nat
         /\ Cardinality(Restored') =
              IF r.restored THEN Cardinality(Restored) + 1 ELSE Cardinality(Restored)
<1> DEFINE n == Len(replies)
<1>1. /\ n \in Nat /\ Len(replies') = n + 1 /\ replies'[n + 1] = r
      /\ \A i \in 1..n : replies'[i] = replies[i]
  BY DEF TypeOK
<1>2. Restored \subseteq 1..n /\ n + 1 \notin Restored
  BY <1>1 DEF Restored
<1>3. IsFiniteSet(Restored)
  BY RestoredFinite
<1>4. Restored' = IF r.restored THEN Restored \cup {n + 1} ELSE Restored
  <2>1. 1..(n + 1) = 1..n \cup {n + 1}
    BY <1>1
  <2> QED BY <1>1, <2>1 DEF Restored
<1>5. Cardinality(Restored \cup {n + 1}) = Cardinality(Restored) + 1
  BY <1>2, <1>3, FS_AddElement
<1> QED BY <1>4, <1>5, RestoredFinite

\* Every step keeps the balance: an armed flag stands for one restore that has
\* hidden nothing yet.
LEMMA ConservationStep ==
  TypeOK /\ PhaseInv /\ ListInv /\ BurstInv /\ ConservationInv /\ [Next]_vars
    => ConservationInv'
<1> SUFFICES ASSUME TypeOK, PhaseInv, ListInv, BurstInv, [Next]_vars,
                    MaxBurst <= MaxHistory,
                    (nextId - 1) - Len(feed) - Len(outcomes)
                      + (IF echo = NoEcho THEN 0 ELSE 1) <= Cardinality(Restored)
             PROVE  (nextId' - 1) - Len(feed') - Len(outcomes')
                      + (IF echo' = NoEcho THEN 0 ELSE 1) <= Cardinality(Restored')
  BY DEF ConservationInv
<1> USE DEF netVars, histVars, uiVars, rpcVars
<1>1. /\ nextId \in Nat /\ Len(feed) \in Nat /\ Len(outcomes) \in Nat
      /\ outcomes # << >> => Len(Tail(outcomes)) = Len(outcomes) - 1
      /\ \A x : Len(Append(outcomes, x)) = Len(outcomes) + 1
      /\ \A x : Len(Append(feed, x)) = Len(feed) + 1
  BY QueueFacts DEF TypeOK
<1>2. Cardinality(Restored) \in Nat
  BY RestoredFinite
<1>3. replies' = replies => Restored' = Restored
  BY DEF Restored
<1>4. CASE Environment
  <2>1. /\ UNCHANGED <<nextId, feed, outcomes, replies>>
        /\ echo = NoEcho => echo' = NoEcho
    BY <1>4 DEF Environment, PeerCopy, AnnounceOwn, Paste, SendRestore, Tick
  <2> QED BY <1>1, <1>2, <1>3, <2>1
<1>5. ASSUME NEW r \in BOOLEAN, Dispatch(r)
      PROVE  UNCHANGED <<nextId, feed, outcomes, echo, replies>>
  BY <1>5 DEF Dispatch
<1>6. CASE Transfer \/ SendDone \/ DrainDone \/ ConnectionLost
  BY <1>3, <1>6 DEF Transfer, WriteSelection, ReadCopy, ReadNothing, SendDone,
     DrainDone, ConnectionLost
<1>7. CASE Store
  BY <1>1, <1>2, <1>3, <1>7 DEF Store, IgnoreDuplicate, StoreCopy, StoreDone
<1>8. ~SkipEvicted
  <2>1. Len(reads) \in Nat /\ Len(grouped) \in Nat /\ MaxBurst \in Nat /\ MaxHistory \in Nat
        /\ Len(entries) \in Nat
    BY BoundAssumption, MaxHistoryAssumption DEF TypeOK
  <2>2. Len(outcomes) <= Len(entries)
    BY <1>1, <2>1 DEF BurstInv, ListInv, PendingInv
  <2> QED BY <2>2, HeadPlace DEF SkipEvicted, ListInv
<1>9. CASE SuppressEcho
  <2>1. /\ echo # NoEcho /\ echo' = NoEcho /\ outcomes # << >>
        /\ outcomes' = Tail(outcomes) /\ UNCHANGED <<nextId, feed, replies>>
    BY <1>9 DEF SuppressEcho, AfterEcho, IsEcho, Pruned
  <2> QED BY <1>1, <1>2, <1>3, <2>1
<1>10. CASE PublishRow
  BY <1>1, <1>2, <1>3, <1>10 DEF PublishRow, Pruned
<1>11. CASE Notify
  BY <1>1, <1>2, <1>3, <1>11 DEF Notify, PhaseInv
<1>12. CASE PublishDone
  BY <1>3, <1>12 DEF PublishDone
<1>13. ASSUME requests # << >> PROVE Head(requests) \in Nat
  BY <1>13, QueueFacts DEF TypeOK
<1>14. CASE RestoreEntry
  <2> DEFINE r == [entry_id |-> Head(requests), restored |-> TRUE]
  <2>1. r \in [entry_id : Nat, restored : BOOLEAN] /\ replies' = Append(replies, r)
        /\ r.restored = TRUE /\ UNCHANGED <<nextId, feed, outcomes>>
    BY <1>13, <1>14 DEF RestoreEntry
  <2> HIDE DEF r
  <2>2. Cardinality(Restored') = Cardinality(Restored) + 1
    BY <2>1, RestoredCount
  <2> QED BY <1>1, <1>2, <2>1, <2>2
<1>15. CASE RefuseRestore
  <2> DEFINE r == [entry_id |-> Head(requests), restored |-> FALSE]
  <2>1. r \in [entry_id : Nat, restored : BOOLEAN] /\ replies' = Append(replies, r)
        /\ r.restored = FALSE /\ UNCHANGED <<nextId, feed, outcomes, echo>>
    BY <1>13, <1>15 DEF RefuseRestore
  <2> HIDE DEF r
  <2>2. Cardinality(Restored') = Cardinality(Restored)
    BY <2>1, RestoredCount
  <2> QED BY <2>1, <2>2
<1>16. CASE Flush
  BY <1>3, <1>16 DEF Flush
<1>17. CASE UNCHANGED vars
  BY <1>3, <1>17 DEF vars
<1> QED
  BY <1>3, <1>4, <1>5, <1>6, <1>7, <1>8, <1>9, <1>10, <1>11, <1>12, <1>14, <1>15,
     <1>16, <1>17
  DEF Next, Proceed, Publish, Serve, Exited

\* Nothing is lost on the way to the UI: every stored copy is announced, but
\* for at most one per successful restore.
THEOREM HiddenBounded == Spec => []AtMostOneHiddenPerRestore
<1>1. Init => ConservationInv
  <2>1. ASSUME Init PROVE Restored = {}
    BY <2>1 DEF Init, Restored
  <2> QED BY <2>1, FS_EmptySet DEF Init, ConservationInv
<1>2. (TypeOK /\ PhaseInv) /\ ListInv /\ BurstInv /\ ConservationInv /\ [Next]_vars
        => ConservationInv'
  BY ConservationStep
<1>3. Spec => []ConservationInv
  BY <1>1, <1>2, TypeCorrect, ListInvariant, BurstInvariant, PTL DEF Spec
<1>4. TypeOK /\ ConservationInv => AtMostOneHiddenPerRestore
  <2> SUFFICES ASSUME TypeOK, ConservationInv, MaxBurst <= MaxHistory
               PROVE  (nextId - 1) - Len(feed) - Len(outcomes) <= Cardinality(Restored)
    BY DEF AtMostOneHiddenPerRestore
  <2>1. nextId \in Nat /\ Len(feed) \in Nat /\ Len(outcomes) \in Nat
    BY DEF TypeOK
  <2>2. Cardinality(Restored) \in Nat
    BY RestoredFinite
  <2>3. (nextId - 1) - Len(feed) - Len(outcomes)
          + (IF echo = NoEcho THEN 0 ELSE 1) <= Cardinality(Restored)
    BY DEF ConservationInv
  <2> QED BY <2>1, <2>2, <2>3
<1> QED BY <1>3, <1>4, TypeCorrect, PTL
==============================================================================

---------------------------- MODULE ClipFeedProofs ----------------------------
(***************************************************************************)
(* ClipLoop implements ClipFeed, for every value of its constants.          *)
(***************************************************************************)
EXTENDS ClipLoopProofs

\* Rows are announced in the order of their ids, before younger outcomes.
OrderInv ==
  /\ \A i \in 1..Len(feed) : feed[i] < nextId
  /\ \A j \in 1..Len(outcomes) : 0 < outcomes[j]
  /\ \A i \in 1..Len(feed), j \in 1..Len(outcomes) : feed[i] < outcomes[j]

\* Every id is a copy of a peer or our own selection announced back, and a
\* selection takes a restore.
IdBound ==
  /\ Len(requests) + Len(replies) <= MaxRestores
  /\ Len(selections) + Len(outbox) <= Len(replies)
  /\ nextId + Len(inbox) + Len(reads) + Len(grouped) + Len(selections) + Len(outbox)
       <= MaxIds + Len(replies) + 1

AnyRestored == \E i \in 1..Len(replies) : replies[i].restored

\* Before the first successful restore nothing is armed and no row outlives
\* its entry.
UnarmedInv ==
  ~AnyRestored =>
    /\ echo = NoEcho
    /\ \/ Len(snapshot) + Len(Unlisted) <= Len(entries)
       \/ Len(entries) = MaxHistory

-----------------------------------------------------------------------------
\* The ids of the feed stay below those still to come.
LEMMA OrderStep == TypeOK /\ PhaseInv /\ IdsInv /\ OrderInv /\ [Next]_vars => OrderInv'
<1> SUFFICES ASSUME TypeOK, PhaseInv, IdsInv, OrderInv, [Next]_vars PROVE OrderInv'
  OBVIOUS
<1> USE DEF netVars, histVars, uiVars, rpcVars
<1>1. UNCHANGED <<feed, nextId, outcomes>> => OrderInv'
  BY DEF OrderInv
<1>2. CASE Environment
  BY <1>1, <1>2 DEF Environment, PeerCopy, AnnounceOwn, Paste, SendRestore, Tick
<1>3. ASSUME NEW r \in BOOLEAN, Dispatch(r) PROVE OrderInv'
  BY <1>1, <1>3 DEF Dispatch
<1>4. CASE Transfer \/ SendDone \/ DrainDone \/ ConnectionLost
  BY <1>1, <1>4 DEF Transfer, WriteSelection, ReadCopy, ReadNothing, SendDone,
     DrainDone, ConnectionLost
<1>5. CASE IgnoreDuplicate \/ StoreDone \/ PublishRow \/ PublishDone
  BY <1>1, <1>5 DEF IgnoreDuplicate, StoreDone, PublishRow, PublishDone
<1>6. CASE Serve
  BY <1>1, <1>6 DEF Serve, RestoreEntry, RefuseRestore, Flush
<1>7. CASE UNCHANGED vars
  BY <1>1, <1>7 DEF vars
<1>8. /\ nextId \in Nat \ {0} /\ Len(outcomes) \in Nat /\ Len(feed) \in Nat
      /\ \A i \in 1..Len(feed) : feed[i] \in Nat
      /\ \A i \in 1..Len(outcomes) : outcomes[i] \in Nat
  <2>1. nextId \in Nat \ {0} /\ outcomes \in Seq(Nat) /\ feed \in Seq(Nat)
    BY DEF TypeOK
  <2> QED BY <2>1
<1>9. CASE StoreCopy
  <2>1. /\ nextId' = nextId + 1 /\ feed' = feed
        /\ Len(outcomes') = Len(outcomes) + 1 /\ outcomes'[Len(outcomes) + 1] = nextId
        /\ \A i \in 1..Len(outcomes) : outcomes'[i] = outcomes[i]
    BY <1>8, <1>9 DEF StoreCopy, TypeOK
  <2> QED BY <1>8, <2>1 DEF OrderInv
<1>10. ASSUME outcomes # << >>
       PROVE  /\ Head(outcomes) = outcomes[1] /\ Len(outcomes) >= 1
              /\ Len(Tail(outcomes)) = Len(outcomes) - 1
              /\ \A i \in 1..Len(Tail(outcomes)) : Tail(outcomes)[i] = outcomes[i + 1]
  BY <1>10, QueueFacts DEF TypeOK
<1>11. CASE SkipEvicted \/ SuppressEcho
  <2>1. UNCHANGED <<nextId, feed>> /\ outcomes # << >> /\ outcomes' = Tail(outcomes)
    BY <1>11 DEF SkipEvicted, SuppressEcho
  <2> QED BY <1>8, <1>10, <2>1 DEF OrderInv
<1>12. CASE Notify
  <2>1. /\ nextId' = nextId /\ outcomes # << >> /\ outcomes' = Tail(outcomes)
        /\ Len(feed') = Len(feed) + 1 /\ feed'[Len(feed) + 1] = outcomes[1]
        /\ \A i \in 1..Len(feed) : feed'[i] = feed[i]
    BY <1>10, <1>12 DEF Notify, PhaseInv, TypeOK
  <2>2. \A j \in 2..Len(outcomes) : outcomes[1] < outcomes[j]
    BY <1>8, <1>10, <2>1 DEF IdsInv
  <2>3. outcomes[1] < nextId
    BY <1>8, <1>10, <2>1 DEF IdsInv
  <2>4. \A j \in 1..Len(outcomes') : j + 1 \in 2..Len(outcomes) /\ outcomes'[j] = outcomes[j + 1]
    BY <1>8, <1>10, <2>1
  <2>5. \A i \in 1..Len(feed') : i = Len(feed) + 1 \/ i \in 1..Len(feed)
    BY <1>8, <2>1
  <2>6. \A i \in 1..Len(feed') : feed'[i] < nextId'
    BY <2>1, <2>3, <2>5 DEF OrderInv
  <2>7. \A j \in 1..Len(outcomes') : 0 < outcomes'[j]
    BY <2>4 DEF OrderInv
  <2>8. ASSUME NEW i \in 1..Len(feed'), NEW j \in 1..Len(outcomes')
        PROVE  feed'[i] < outcomes'[j]
    BY <2>1, <2>2, <2>4, <2>5 DEF OrderInv
  <2> QED BY <2>6, <2>7, <2>8 DEF OrderInv
<1> QED
  BY <1>2, <1>3, <1>4, <1>5, <1>6, <1>7, <1>9, <1>11, <1>12
  DEF Next, Proceed, Store, Publish, Exited

\* The number of ids stays bounded by copies and restores.
LEMMA BoundStep == TypeOK /\ PhaseInv /\ IdBound /\ [Next]_vars => IdBound'
<1> SUFFICES ASSUME TypeOK, PhaseInv, IdBound, [Next]_vars PROVE IdBound'
  OBVIOUS
<1> USE BoundAssumption DEF IdBound, netVars, histVars, uiVars, rpcVars
<1>1. /\ Len(inbox) \in Nat /\ Len(reads) \in Nat /\ Len(grouped) \in Nat
      /\ Len(selections) \in Nat /\ Len(outbox) \in Nat /\ Len(requests) \in Nat
      /\ Len(replies) \in Nat /\ nextId \in Nat
      /\ reads # << >> => Len(Tail(reads)) = Len(reads) - 1
      /\ grouped # << >> => Len(Tail(grouped)) = Len(grouped) - 1
      /\ selections # << >> => Len(Tail(selections)) = Len(selections) - 1
      /\ requests # << >> => Len(Tail(requests)) = Len(requests) - 1
      /\ \A x : Len(Append(inbox, x)) = Len(inbox) + 1
      /\ \A x : Len(Append(grouped, x)) = Len(grouped) + 1
      /\ \A x : Len(Append(requests, x)) = Len(requests) + 1
      /\ \A x : Len(Append(replies, x)) = Len(replies) + 1
      /\ \A x : Len(Append(outbox, x)) = Len(outbox) + 1
  <2>1. /\ inbox \in Seq(Copy) /\ reads \in Seq(Copy) /\ grouped \in Seq(Copy)
        /\ selections \in Seq(Contents) /\ outbox \in Seq(Contents)
        /\ requests \in Seq(Nat) /\ nextId \in Nat
        /\ replies \in Seq([entry_id : Nat, restored : BOOLEAN])
    BY DEF TypeOK
  <2>2. /\ reads # << >> => Len(Tail(reads)) = Len(reads) - 1
        /\ grouped # << >> => Len(Tail(grouped)) = Len(grouped) - 1
        /\ selections # << >> => Len(Tail(selections)) = Len(selections) - 1
        /\ requests # << >> => Len(Tail(requests)) = Len(requests) - 1
    BY <2>1, QueueFacts
  <2>3. /\ \A x : Len(Append(inbox, x)) = Len(inbox) + 1
        /\ \A x : Len(Append(grouped, x)) = Len(grouped) + 1
        /\ \A x : Len(Append(requests, x)) = Len(requests) + 1
        /\ \A x : Len(Append(replies, x)) = Len(replies) + 1
        /\ \A x : Len(Append(outbox, x)) = Len(outbox) + 1
    BY <2>1
  <2> QED BY <2>1, <2>2, <2>3
<1>2. CASE Environment
  <2>1. ASSUME NEW c \in Contents, PeerCopy(c) PROVE IdBound'
    <3>1. /\ Len(inbox') = Len(inbox) + 1
          /\ nextId + Len(inbox) + Len(reads) + Len(grouped) <= MaxIds
          /\ UNCHANGED <<nextId, reads, grouped, selections, outbox, requests, replies>>
      BY <1>1, <2>1 DEF PeerCopy
    <3> QED BY <1>1, <3>1
  <2>2. CASE AnnounceOwn
    <3>1. /\ Len(inbox') = Len(inbox) + 1 /\ Len(selections') = Len(selections) - 1
          /\ UNCHANGED <<nextId, reads, grouped, outbox, requests, replies>>
      BY <1>1, <2>2 DEF AnnounceOwn
    <3> QED BY <1>1, <3>1
  <2>3. ASSUME NEW id \in 1..MaxIds, SendRestore(id) PROVE IdBound'
    <3>1. /\ Len(requests') = Len(requests) + 1 /\ Len(requests) + Len(replies) < MaxRestores
          /\ UNCHANGED <<nextId, inbox, reads, grouped, outbox, selections, replies>>
      BY <1>1, <2>3 DEF SendRestore
    <3> QED BY <1>1, <3>1
  <2>4. CASE Tick \/ Paste
    BY <2>4 DEF Tick, Paste
  <2> QED BY <1>2, <2>1, <2>2, <2>3, <2>4 DEF Environment
<1>3. ASSUME NEW r \in BOOLEAN, Dispatch(r) PROVE IdBound'
  <2>1. Len(reads \o inbox) = Len(reads) + Len(inbox) /\ Len(<< >>) = 0
    BY DEF TypeOK
  <2>2. /\ Len(reads') = Len(reads) + Len(inbox) /\ Len(inbox') = 0
        /\ UNCHANGED <<nextId, grouped, outbox, selections, requests, replies>>
    BY <1>3, <2>1 DEF Dispatch
  <2> QED BY <1>1, <2>2
<1>4. CASE ReadCopy
  <2>1. /\ Len(grouped') = Len(grouped) + 1 /\ Len(reads') = Len(reads) - 1
        /\ UNCHANGED <<nextId, inbox, outbox, selections, requests, replies>>
    BY <1>1, <1>4 DEF ReadCopy
  <2> QED BY <1>1, <2>1
<1>5. CASE ReadNothing
  BY <1>1, <1>5 DEF ReadNothing
<1>6. CASE IgnoreDuplicate
  BY <1>1, <1>6 DEF IgnoreDuplicate
<1>7. CASE StoreCopy
  <2>1. /\ nextId' = nextId + 1 /\ Len(grouped') = Len(grouped) - 1
        /\ UNCHANGED <<inbox, reads, outbox, selections, requests, replies>>
    BY <1>1, <1>7 DEF StoreCopy
  <2> QED BY <1>1, <2>1
<1>8. CASE WriteSelection \/ SendDone \/ DrainDone \/ ConnectionLost \/ StoreDone \/ Publish
  BY <1>8 DEF WriteSelection, SendDone, DrainDone, ConnectionLost, StoreDone, Publish, SkipEvicted, SuppressEcho,
              PublishRow, Notify, PublishDone
<1>9. CASE RestoreEntry
  <2>1. /\ Len(outbox') = Len(outbox) + 1 /\ Len(requests') = Len(requests) - 1
        /\ Len(replies') = Len(replies) + 1
        /\ UNCHANGED <<nextId, inbox, reads, grouped, selections>>
    BY <1>1, <1>9 DEF RestoreEntry
  <2> QED BY <1>1, <2>1
<1>10. CASE RefuseRestore
  <2>1. /\ Len(requests') = Len(requests) - 1 /\ Len(replies') = Len(replies) + 1
        /\ UNCHANGED <<nextId, inbox, reads, grouped, selections, outbox>>
    BY <1>1, <1>10 DEF RefuseRestore
  <2> QED BY <1>1, <2>1
<1>11. CASE Flush
  <2>1. Len(selections \o outbox) = Len(selections) + Len(outbox) /\ Len(<< >>) = 0
    BY DEF TypeOK
  <2>2. /\ Len(selections') = Len(selections) + Len(outbox) /\ Len(outbox') = 0
        /\ UNCHANGED <<nextId, inbox, reads, grouped, requests, replies>>
    BY <1>11, <2>1 DEF Flush
  <2> QED BY <1>1, <2>2
<1>12. CASE UNCHANGED vars
  BY <1>12 DEF vars
<1> QED
  BY <1>2, <1>3, <1>4, <1>5, <1>6, <1>7, <1>8, <1>9, <1>10, <1>11, <1>12
  DEF Next, Proceed, Transfer, Store, Serve, Exited

\* Only a restore arms the flag, and only a suppression leaves a row behind.
LEMMA UnarmedStep ==
  TypeOK /\ PhaseInv /\ ListInv /\ UnarmedInv /\ [Next]_vars => UnarmedInv'
<1> SUFFICES ASSUME TypeOK, PhaseInv, ListInv, UnarmedInv, [Next]_vars, ~AnyRestored'
             PROVE  /\ echo' = NoEcho
                    /\ \/ Len(snapshot') + Len(Unlisted') <= Len(entries')
                       \/ Len(entries') = MaxHistory
  BY DEF UnarmedInv
<1> USE DEF netVars, histVars, uiVars, rpcVars
<1>1. /\ Len(snapshot) \in Nat /\ Len(entries) \in Nat /\ Len(outcomes) \in Nat
      /\ Len(Unlisted) \in Nat /\ Len(entries) <= MaxHistory /\ MaxHistory \in Nat \ {0}
  <2>1. snapshot \in Seq(Nat) /\ entries \in Seq(Entry) /\ outcomes \in Seq(Nat)
        /\ Len(entries) <= MaxHistory
    BY DEF TypeOK
  <2>2. Unlisted \in Seq(Nat)
    BY <2>1, QueueFacts DEF Unlisted, PhaseInv
  <2> QED BY <2>1, <2>2, MaxHistoryAssumption
<1>2. ~AnyRestored
  <2>1. SUFFICES ASSUME NEW i \in 1..Len(replies), replies[i].restored PROVE AnyRestored'
    BY DEF AnyRestored
  <2>2. \/ replies' = replies
        \/ \E b \in BOOLEAN :
             replies' = Append(replies, [entry_id |-> Head(requests), restored |-> b])
    BY DEF Next, Proceed, Transfer, Environment, Store, Publish, Serve, Exited, vars, PeerCopy,
       AnnounceOwn, Paste, SendRestore, Tick, Dispatch, WriteSelection, SendDone, ConnectionLost, ReadCopy, ReadNothing, DrainDone,
       IgnoreDuplicate, StoreCopy, StoreDone, SkipEvicted, SuppressEcho, PublishRow, Notify,
       PublishDone, RestoreEntry, RefuseRestore, Flush
  <2>3. replies \in Seq([entry_id : Nat, restored : BOOLEAN])
    BY DEF TypeOK
  <2>4. i \in 1..Len(replies') /\ replies'[i] = replies[i]
    <3>1. ASSUME NEW r, replies' = Append(replies, r)
          PROVE  i \in 1..Len(replies') /\ replies'[i] = replies[i]
      BY <2>3, <3>1
    <3> QED BY <2>2, <3>1
  <2> QED BY <2>1, <2>4 DEF AnyRestored
<1>3. /\ echo = NoEcho
      /\ Len(snapshot) + Len(Unlisted) <= Len(entries) \/ Len(entries) = MaxHistory
  BY <1>2 DEF UnarmedInv
<1>4. Pruned = NoEcho
  BY <1>3 DEF Pruned
<1>5. outcomes # << >> => Len(Tail(outcomes)) = Len(outcomes) - 1
  BY QueueFacts DEF TypeOK
<1>6. ASSUME UNCHANGED <<entries, outcomes, snapshot, echo>>, pc = "notify" <=> pc' = "notify"
      PROVE  /\ echo' = NoEcho
             /\ \/ Len(snapshot') + Len(Unlisted') <= Len(entries')
                \/ Len(entries') = MaxHistory
  BY <1>3, <1>6 DEF Unlisted
<1>7. CASE Environment
  BY <1>3, <1>6, <1>7 DEF Environment, PeerCopy, AnnounceOwn, Paste, SendRestore, Tick
<1>8. ASSUME NEW r \in BOOLEAN, Dispatch(r)
      PROVE  UNCHANGED <<entries, outcomes, snapshot, echo>> /\ (pc = "notify" <=> pc' = "notify")
  BY <1>8 DEF Dispatch
<1>9. CASE Transfer \/ SendDone \/ DrainDone \/ ConnectionLost
  BY <1>6, <1>9 DEF Transfer, WriteSelection, ReadCopy, ReadNothing, SendDone,
     DrainDone, ConnectionLost
<1>10. CASE IgnoreDuplicate \/ StoreDone \/ PublishDone
  BY <1>6, <1>10 DEF IgnoreDuplicate, StoreDone, PublishDone
<1>11. CASE StoreCopy
  <2> DEFINE e == [id |-> nextId, content |-> Head(grouped).content, own |-> Head(grouped).own]
  <2>1. Head(grouped) \in Copy
    BY <1>11, QueueFacts DEF TypeOK, StoreCopy
  <2>2. e \in Entry
    BY <2>1 DEF Copy, Entry, TypeOK
  <2>3. /\ entries' = Push(entries, e) /\ outcomes' = Append(outcomes, nextId)
        /\ pc = "store" /\ UNCHANGED <<pc, snapshot, echo>>
    BY <1>11 DEF StoreCopy
  <2> HIDE DEF e
  <2>4. Len(entries') = IF Len(entries) >= MaxHistory THEN MaxHistory ELSE Len(entries) + 1
    <3>1. entries \in Seq(Entry)
      BY DEF TypeOK
    <3> QED BY <2>2, <2>3, <3>1, PushProperties
  <2>5. Len(Unlisted') = Len(Unlisted) + 1
    BY <2>3 DEF Unlisted, TypeOK
  <2> QED BY <1>1, <1>3, <2>3, <2>4, <2>5
<1>12. CASE SkipEvicted
  <2>1. /\ outcomes # << >> /\ outcomes' = Tail(outcomes) /\ echo' = NoEcho
        /\ pc = "publish" /\ UNCHANGED <<pc, entries, snapshot>>
    BY <1>4, <1>12 DEF SkipEvicted
  <2>2. Unlisted = outcomes /\ Unlisted' = Tail(outcomes)
    BY <2>1 DEF Unlisted
  <2> QED BY <1>1, <1>3, <1>5, <2>1, <2>2
<1>13. CASE SuppressEcho
  BY <1>4, <1>13 DEF SuppressEcho, IsEcho
<1>14. CASE PublishRow
  <2>1. /\ outcomes # << >> /\ pc = "publish" /\ pc' = "notify" /\ echo' = NoEcho
        /\ snapshot' = Push(snapshot, Head(outcomes)) /\ UNCHANGED <<entries, outcomes>>
    BY <1>4, <1>14 DEF PublishRow
  <2>2. Unlisted = outcomes /\ Unlisted' = Tail(outcomes)
    BY <2>1 DEF Unlisted
  <2>3. snapshot \in Seq(Nat) /\ Head(outcomes) \in Nat
    BY <2>1, QueueFacts DEF TypeOK
  <2>4. Len(snapshot') = IF Len(snapshot) >= MaxHistory THEN MaxHistory ELSE Len(snapshot) + 1
    BY <2>1, <2>3, PushProperties
  <2>5. Len(snapshot) <= MaxHistory
    BY DEF TypeOK
  <2> QED BY <1>1, <1>3, <1>5, <2>1, <2>2, <2>4, <2>5
<1>15. CASE Notify
  <2>1. /\ Unlisted' = Unlisted /\ echo' = NoEcho /\ UNCHANGED <<entries, snapshot>>
    BY <1>3, <1>15 DEF Notify, Unlisted
  <2> QED BY <1>3, <2>1
<1>16. CASE RestoreEntry
  <2>1. replies' = Append(replies, [entry_id |-> Head(requests), restored |-> TRUE])
    BY <1>16 DEF RestoreEntry
  <2>2. AnyRestored'
    <3>1. Len(replies) + 1 \in 1..Len(replies') /\ replies'[Len(replies) + 1].restored
      BY <2>1 DEF TypeOK
    <3> QED BY <3>1 DEF AnyRestored
  <2> QED BY <2>2
<1>17. CASE RefuseRestore \/ Flush
  BY <1>6, <1>17 DEF RefuseRestore, Flush
<1>18. CASE UNCHANGED vars
  BY <1>6, <1>18 DEF vars
<1> QED
  BY <1>6, <1>7, <1>8, <1>9, <1>10, <1>11, <1>12, <1>13, <1>14, <1>15, <1>16, <1>17, <1>18
  DEF Next, Proceed, Store, Publish, Serve, Exited

-----------------------------------------------------------------------------
(* The refinement.                                                          *)

FeedInv ==
  TypeOK /\ PhaseInv /\ ListInv /\ SnapshotReplaysFeed /\ OrderInv /\ IdBound /\ UnarmedInv

LEMMA FeedInvariant == Spec => []FeedInv
<1>1. Init => OrderInv /\ IdBound /\ UnarmedInv
  BY BoundAssumption DEF Init, OrderInv, IdBound, UnarmedInv, Unlisted
<1>2. TypeOK /\ PhaseInv /\ ListInv /\ OrderInv /\ [Next]_vars => OrderInv'
  BY OrderStep DEF ListInv
<1>3. Spec => []OrderInv
  BY <1>1, <1>2, TypeCorrect, ListInvariant, PTL DEF Spec
<1>4. Spec => []IdBound
  BY <1>1, BoundStep, TypeCorrect, PTL DEF Spec
<1>5. Spec => []UnarmedInv
  BY <1>1, UnarmedStep, TypeCorrect, ListInvariant, PTL DEF Spec
<1> QED
  BY <1>3, <1>4, <1>5, TypeCorrect, ListInvariant, SnapshotIsReplay, PTL DEF FeedInv

\* A row becomes visible with an id above all announced ones.
LEMMA PublishImplements == FeedInv /\ PublishRow => Feed!Next
<1> SUFFICES ASSUME FeedInv, PublishRow PROVE Feed!Next
  OBVIOUS
<1>1. /\ pc = "publish" /\ outcomes # << >> /\ pc' = "notify"
      /\ snapshot' = Push(snapshot, Head(outcomes))
      /\ UNCHANGED <<device, feed, requests, replies>>
  BY DEF PublishRow, netVars, rpcVars
<1>2. Head(outcomes) = outcomes[1] /\ 1 \in 1..Len(outcomes) /\ Head(outcomes) \in Nat
  BY <1>1, QueueFacts DEF FeedInv, TypeOK
<1>3. \A i \in 1..Len(feed) : feed[i] < Head(outcomes)
  BY <1>2 DEF FeedInv, OrderInv
<1>4. Head(outcomes) \in 1..(MaxIds + MaxRestores)
  <2>1. 0 < Head(outcomes) /\ Head(outcomes) < nextId
    BY <1>2 DEF FeedInv, OrderInv, ListInv, IdsInv
  <2>2. /\ nextId \in Nat /\ Len(inbox) \in Nat /\ Len(reads) \in Nat /\ Len(grouped) \in Nat
        /\ Len(selections) \in Nat /\ Len(outbox) \in Nat /\ Len(requests) \in Nat
        /\ Len(replies) \in Nat
    BY DEF FeedInv, TypeOK
  <2> QED BY <1>2, <2>1, <2>2, BoundAssumption, SMTT(30) DEF FeedInv, IdBound
<1>5. Feed!PushRow(Head(outcomes))
  <2>1. (pc # "exited")' = (pc # "exited") /\ pc # "exited" /\ ~(pc = "notify")
        /\ (pc = "notify")' = TRUE
    BY <1>1
  <2> QED
    BY <1>1, <1>3, <2>1 DEF Feed!PushRow, Feed!Push, Feed!KeepNewest, Push, KeepNewest
<1> QED BY <1>4, <1>5 DEF Feed!Next

\* The event is that of the newest row.
LEMMA NotifyImplements == FeedInv /\ Notify => Feed!Next
<1> SUFFICES ASSUME FeedInv, Notify PROVE Feed!Next
  OBVIOUS
<1>1. /\ pc = "notify" /\ pc' = "publish" /\ feed' = Append(feed, Head(outcomes))
      /\ UNCHANGED <<device, snapshot, requests, replies>>
  BY DEF Notify, netVars, rpcVars
<1>2. Last(snapshot) = Head(outcomes)
  <2>1. Head(outcomes) \in Nat /\ feed \in Seq(Nat)
    BY <1>1, QueueFacts DEF FeedInv, TypeOK, PhaseInv
  <2> DEFINE a == Append(feed, Head(outcomes))
  <2>2. a \in Seq(Nat) /\ Len(a) = Len(feed) + 1 /\ a[Len(a)] = Head(outcomes) /\ Len(feed) \in Nat
    BY <2>1
  <2>3. snapshot = KeepNewest(a)
    BY <1>1 DEF FeedInv, SnapshotReplaysFeed
  <2> HIDE DEF a
  <2>4. /\ Len(KeepNewest(a)) = IF Len(a) > MaxHistory THEN MaxHistory ELSE Len(a)
        /\ \A k \in 0..(Len(KeepNewest(a)) - 1) :
             KeepNewest(a)[Len(KeepNewest(a)) - k] = a[Len(a) - k]
    BY <2>2, KeepNewestProperties
  <2>5. Len(snapshot) \in Nat \ {0} /\ snapshot[Len(snapshot) - 0] = a[Len(a) - 0]
    BY <2>2, <2>3, <2>4, MaxHistoryAssumption
  <2>6. Len(snapshot) - 0 = Len(snapshot) /\ Len(a) - 0 = Len(a)
    BY <2>2, <2>5
  <2> QED BY <2>2, <2>5, <2>6 DEF Last
<1>3. Feed!Broadcast
  <2>1. (pc # "exited")' = (pc # "exited") /\ (pc = "notify")' = FALSE
    BY <1>1
  <2> QED BY <1>1, <1>2, <2>1 DEF Feed!Broadcast, Feed!Last, Last
<1> QED BY <1>3 DEF Feed!Next

\* What is held is listed, and what is listed and not held is the ghost.
LEMMA HeldOrGhost ==
  ASSUME FeedInv, pc = "restore", NEW id
  PROVE  /\ Holds(entries, id) => Feed!Listed(id)
         /\ Feed!Listed(id) => Holds(entries, id) \/ Feed!Ghost(id)
<1> DEFINE n == Len(entries)
           s == Len(snapshot)
<1>1. outcomes = << >> /\ Len(Unlisted) = 0
  BY DEF FeedInv, PhaseInv, Unlisted
<1>2. n \in Nat /\ s \in Nat /\ s <= MaxHistory /\ n <= MaxHistory /\ MaxHistory \in Nat \ {0}
  BY MaxHistoryAssumption DEF FeedInv, TypeOK
<1>3. n <= s /\ \A k \in 0..(n - 1) : entries[n - k].id = snapshot[s - k]
  <2>1. /\ n <= s + 0
        /\ \A k \in 0..(n - 1) : k >= 0 => entries[n - k].id = snapshot[s - (k - 0)]
    BY <1>1 DEF FeedInv, ListInv, ListedInv
  <2>2. \A k \in 0..(n - 1) : k >= 0 /\ s - (k - 0) = s - k
    BY <1>2
  <2> QED BY <1>2, <2>1, <2>2
<1>4. s <= n \/ n = MaxHistory \/ n = MaxHistory - 1
  BY <1>1, <1>2 DEF FeedInv, ListInv, GhostInv
<1>5. s > n => AnyRestored
  BY <1>1, <1>2 DEF FeedInv, UnarmedInv
<1> HIDE DEF n, s
<1>6. ASSUME Holds(entries, id) PROVE Feed!Listed(id)
  <2>1. PICK i \in 1..n : entries[i].id = id
    BY <1>6 DEF Holds, n
  <2>2. n - i \in 0..(n - 1) /\ n - (n - i) = i /\ s - (n - i) \in 1..s
    BY <1>2, <1>3
  <2>3. snapshot[s - (n - i)] = id
    BY <1>3, <2>1, <2>2
  <2> QED BY <2>2, <2>3 DEF Feed!Listed, s
<1>7. ASSUME Feed!Listed(id), ~Holds(entries, id) PROVE Feed!Ghost(id)
  <2>1. PICK j \in 1..s : snapshot[j] = id
    BY <1>7 DEF Feed!Listed, s
  <2>2. ASSUME s - j <= n - 1 PROVE FALSE
    <3>1. s - j \in 0..(n - 1) /\ s - (s - j) = j /\ n - (s - j) \in 1..n
      BY <1>2, <1>3, <2>2
    <3>2. entries[n - (s - j)].id = id
      BY <1>3, <2>1, <3>1
    <3> QED BY <1>7, <3>1, <3>2 DEF Holds, n
  <2>3. s = MaxHistory /\ j = 1 /\ s > n
    BY <1>2, <1>3, <1>4, <2>1, <2>2
  <2> QED BY <1>5, <2>1, <2>3 DEF Feed!Ghost, AnyRestored, s
<1> QED BY <1>6, <1>7

\* An answer agrees with the list.
LEMMA AnswerImplements == FeedInv /\ (RestoreEntry \/ RefuseRestore) => Feed!Next
<1> SUFFICES ASSUME FeedInv, RestoreEntry \/ RefuseRestore PROVE Feed!Next
  OBVIOUS
<1>1. /\ pc = "restore" /\ pc' = "restore" /\ requests # << >> /\ requests' = Tail(requests)
      /\ UNCHANGED <<device, snapshot, feed>>
  BY DEF RestoreEntry, RefuseRestore, netVars, uiVars
<1>2. /\ (pc # "exited")' = (pc # "exited") /\ pc # "exited" /\ ~(pc = "notify")
      /\ (pc = "notify")' = (pc = "notify")
  BY <1>1
<1>3. CASE RestoreEntry
  <2>1. device /\ Feed!Listed(Head(requests))
    BY <1>1, <1>3, HeldOrGhost DEF RestoreEntry
  <2>2. replies' = Append(replies, [entry_id |-> Head(requests), restored |-> TRUE])
    BY <1>3 DEF RestoreEntry
  <2>3. Feed!Answer(TRUE)
    BY <1>1, <1>2, <2>1, <2>2 DEF Feed!Answer
  <2> QED BY <2>3 DEF Feed!Next
<1>4. CASE RefuseRestore
  <2>1. device => ~Feed!Listed(Head(requests)) \/ Feed!Ghost(Head(requests))
    BY <1>1, <1>4, HeldOrGhost DEF RefuseRestore
  <2>2. replies' = Append(replies, [entry_id |-> Head(requests), restored |-> FALSE])
    BY <1>4 DEF RefuseRestore
  <2>3. Feed!Answer(FALSE)
    BY <1>1, <1>2, <2>1, <2>2 DEF Feed!Answer
  <2> QED BY <2>3 DEF Feed!Next
<1> QED BY <1>3, <1>4

\* Every step is a step of ClipFeed or leaves what the socket tasks see alone.
LEMMA FeedSimulation == FeedInv /\ [Next]_vars => [Feed!Next]_Feed!feedVars
<1> SUFFICES ASSUME FeedInv, [Next]_vars PROVE [Feed!Next]_Feed!feedVars
  OBVIOUS
<1> USE DEF netVars, histVars, uiVars, rpcVars
<1>1. ASSUME UNCHANGED <<device, snapshot, feed, requests, replies>>,
             pc = "exited" <=> pc' = "exited", pc = "notify" <=> pc' = "notify"
      PROVE  UNCHANGED Feed!feedVars
  <2>1. (pc # "exited")' = (pc # "exited") /\ (pc = "notify")' = (pc = "notify")
    BY <1>1
  <2> QED BY <1>1, <2>1 DEF Feed!feedVars
<1>2. CASE (\E c \in Contents : PeerCopy(c)) \/ AnnounceOwn \/ Paste \/ Tick
  BY <1>1, <1>2 DEF PeerCopy, AnnounceOwn, Paste, Tick
<1>3. ASSUME NEW id \in 1..MaxIds, SendRestore(id) PROVE Feed!Next
  <2>1. id \in 1..(MaxIds + MaxRestores)
    BY BoundAssumption
  <2>2. (pc # "exited")' = (pc # "exited") /\ (pc = "notify")' = (pc = "notify")
    BY <1>3 DEF SendRestore
  <2>3. Feed!Send(id)
    BY <1>3, <2>2 DEF SendRestore, Feed!Send
  <2> QED BY <2>1, <2>3 DEF Feed!Next
<1>4. CASE Dispatch(FALSE)
  <2>1. device' = device
    BY <1>4 DEF Dispatch, FeedInv, TypeOK
  <2> QED BY <1>1, <1>4, <2>1 DEF Dispatch
<1>5. CASE Dispatch(TRUE)
  <2>1. /\ (pc # "exited")' = (pc # "exited") /\ pc # "exited"
        /\ (pc = "notify")' = (pc = "notify")
        /\ device' = FALSE /\ UNCHANGED <<snapshot, feed, requests, replies>>
    BY <1>5 DEF Dispatch
  <2>2. CASE device
    <3>1. Feed!Revoke
      BY <2>1, <2>2 DEF Feed!Revoke
    <3> QED BY <3>1 DEF Feed!Next
  <2>3. CASE ~device
    <3>1. device' = device
      BY <2>1, <2>3 DEF FeedInv, TypeOK
    <3> QED BY <2>1, <3>1 DEF Feed!feedVars
  <2> QED BY <2>2, <2>3
<1>6. CASE ConnectionLost
  <2>1. /\ pc # "exited" /\ (pc # "exited")' = FALSE /\ ~(pc = "notify")
        /\ (pc = "notify")' = (pc = "notify")
        /\ UNCHANGED <<device, snapshot, feed, requests, replies>>
    BY <1>6 DEF ConnectionLost
  <2>2. Feed!Stop
    BY <2>1 DEF Feed!Stop
  <2> QED BY <2>2 DEF Feed!Next
<1>7. CASE Transfer \/ SendDone \/ DrainDone
  BY <1>1, <1>7 DEF Transfer, WriteSelection, ReadCopy, ReadNothing, SendDone, DrainDone
<1>8. CASE Store
  BY <1>1, <1>8 DEF Store, IgnoreDuplicate, StoreCopy, StoreDone
<1>9. CASE SkipEvicted \/ SuppressEcho \/ PublishDone
  BY <1>1, <1>9 DEF SkipEvicted, SuppressEcho, PublishDone
<1>10. CASE Flush
  BY <1>1, <1>10 DEF Flush
<1>11. CASE UNCHANGED vars
  BY <1>1, <1>11 DEF vars
<1> QED
  BY <1>2, <1>3, <1>4, <1>5, <1>6, <1>7, <1>8, <1>9, <1>10, <1>11, PublishImplements,
     NotifyImplements, AnswerImplements
  DEF Next, Proceed, Environment, Publish, Serve, Exited

\* The Wayland thread keeps what ClipFeed promises the socket tasks.
THEOREM Implementation == Spec => ImplementsFeed
<1>1. Init => Feed!Init
  BY DEF Init, Feed!Init
<1> QED
  BY <1>1, FeedInvariant, FeedSimulation, PTL DEF Spec, ImplementsFeed, Feed!Spec
==============================================================================

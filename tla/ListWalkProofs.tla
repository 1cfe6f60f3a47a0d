---------------------------- MODULE ListWalkProofs ----------------------------
(***************************************************************************)
(* Proofs about ListWalk, for every history length, page length and set of  *)
(* ids: a walk receives no row twice, and misses only what evictions moved. *)
(***************************************************************************)
EXTENDS ListWalk, ClipHistoryProofs, FiniteSetTheorems

\* The row has been announced, or is the one about to be.
Known(id) ==
  \/ \E k \in 1..Len(feed) : feed[k] = id
  \/ unsent /\ id = listed[Len(listed)]

\* The list is sorted, and every row listed or received is known.
SortedInv ==
  /\ unsent => listed # << >>
  /\ Len(listed) <= Len(feed) + (IF unsent THEN 1 ELSE 0)
  /\ \A i, j \in 1..Len(listed) : i < j => listed[i] < listed[j]
  /\ \A i \in 1..Len(listed) : Known(listed[i])
  /\ \A i \in 1..Len(got) : Known(got[i])

\* Whatever the next pages will list is younger than what was received.
AheadInv ==
  \A i \in 1..Len(got), j \in 1..Len(listed) : offset < j => got[i] < listed[j]

WalkInv == TypeOK /\ SortedInv /\ AheadInv /\ NoRowTwice

-----------------------------------------------------------------------------
(* Pages.                                                                   *)

\* A page is the rows that follow the offset.
LEMMA PageProperties ==
  ASSUME TypeOK
  PROVE  LET entries == list_snapshot(offset, limit).entries
         IN  /\ entries \in Seq(RowIds)
             /\ \A m \in 1..Len(entries) :
                  offset + m \in 1..Len(listed) /\ entries[m] = listed[offset + m]
<1> DEFINE n == clamp_limit(limit)
           last == IF offset + n <= Len(listed) THEN offset + n ELSE Len(listed)
           entries == SubSeq(listed, offset + 1, last)
<1>1. /\ offset \in Nat /\ limit \in Nat \ {0} /\ listed \in Seq(RowIds)
      /\ MAX_LIST_LIMIT \in Nat \ {0}
  BY ListAssumption DEF TypeOK
<1>2. n \in Nat \ {0}
  BY <1>1 DEF clamp_limit
<1> HIDE DEF n
<1>3. last \in Nat /\ last <= Len(listed)
  BY <1>1, <1>2
<1> HIDE DEF last
<1>4. /\ entries \in Seq(RowIds)
      /\ Len(entries) = IF offset + 1 <= last THEN last - offset ELSE 0
      /\ \A m \in 1..Len(entries) : entries[m] = listed[offset + m]
  <2>1. \A i \in (offset + 1)..last : i \in 1..Len(listed) /\ listed[i] \in RowIds
    BY <1>1, <1>3
  <2> QED BY <1>1, <1>3, <2>1
<1>5. \A m \in 1..Len(entries) : offset + m \in 1..Len(listed)
  BY <1>1, <1>3, <1>4
<1>6. list_snapshot(offset, limit).entries = entries
  BY DEF list_snapshot, Slice, last, n
<1> HIDE DEF entries
<1> QED BY <1>4, <1>5, <1>6

-----------------------------------------------------------------------------
\* A row is pushed: positions move towards the front, never away from it.
LEMMA WalkPush ==
  ASSUME WalkInv, NEW id \in RowIds, PushRow(id), UNCHANGED walkVars
  PROVE  WalkInv'
<1> DEFINE s == Len(listed)
           t == Len(listed')
           d == s + 1 - t
<1>1. /\ listed' = Push(listed, id) /\ unsent' = TRUE /\ ~unsent /\ running
      /\ \A i \in 1..Len(feed) : feed[i] < id
      /\ UNCHANGED <<running, access, feed, requests, replies, walk, limit, offset, got, begun>>
  BY DEF PushRow, walkVars
<1>2. listed \in Seq(RowIds) /\ s \in Nat /\ s <= MaxHistory /\ MaxHistory \in Nat \ {0}
  BY MaxHistoryAssumption DEF WalkInv, TypeOK
<1> DEFINE r == Push(listed, id)
<1>p. /\ r \in Seq(RowIds)
      /\ Len(r) = IF Len(listed) >= MaxHistory THEN MaxHistory ELSE Len(listed) + 1
      /\ r[Len(r)] = id
      /\ \A k \in 1..(Len(r) - 1) : r[Len(r) - k] = listed[Len(listed) - k + 1]
      /\ \A i \in 1..(Len(r) - 1) :
           /\ i + (Len(listed) + 1 - Len(r)) \in 1..Len(listed)
           /\ r[i] = listed[i + (Len(listed) + 1 - Len(r))]
  <2>1. listed \in Seq(RowIds) /\ id \in RowIds
    BY <1>2
  <2> QED BY <2>1, PushProperties, ZenonT(30)
<1>3. /\ listed' \in Seq(RowIds)
      /\ t = IF s >= MaxHistory THEN MaxHistory ELSE s + 1
      /\ listed'[t] = id
      /\ \A i \in 1..(t - 1) : i + d \in 1..s /\ listed'[i] = listed[i + d]
  BY <1>1, <1>p
<1>4. t \in Nat \ {0} /\ t <= MaxHistory /\ t <= s + 1 /\ d \in {0, 1}
  <2> HIDE DEF s, t
  <2>1. CASE s >= MaxHistory
    BY <1>2, <1>3, <2>1
  <2>2. CASE ~(s >= MaxHistory)
    BY <1>2, <1>3, <2>2
  <2> QED BY <2>1, <2>2
<1> HIDE DEF s, t, d
<1>5. TypeOK'
  BY <1>1, <1>3, <1>4 DEF WalkInv, TypeOK, t
<1>6. /\ \A i \in 1..s : \E k \in 1..Len(feed) : feed[k] = listed[i]
      /\ \A i \in 1..Len(got) : \E k \in 1..Len(feed) : feed[k] = got[i]
  BY <1>1 DEF WalkInv, SortedInv, Known, s
<1>7. /\ \A i \in 1..s : listed[i] < id
      /\ \A i \in 1..Len(got) : got[i] < id
  BY <1>1, <1>6
<1>8. \A i \in 1..t : i = t \/ i \in 1..(t - 1)
  BY <1>4
<1>9. SortedInv'
  <2>1. (unsent => listed # << >>)'
    BY <1>3, <1>4 DEF t
  <2>2. ASSUME NEW i \in 1..t, NEW j \in 1..t, i < j PROVE listed'[i] < listed'[j]
    <3>0. i \in 1..(t - 1)
      BY <1>4, <2>2
    <3>1. i \in 1..(t - 1) /\ i + d \in 1..s /\ listed'[i] = listed[i + d]
      BY <1>3, <3>0
    <3>2. CASE j = t
      BY <1>3, <1>7, <3>1, <3>2
    <3>3. CASE j \in 1..(t - 1)
      <4>1. j + d \in 1..s /\ listed'[j] = listed[j + d] /\ i + d < j + d
        BY <1>3, <1>4, <2>2, <3>3
      <4>2. \A a, b \in 1..s : a < b => listed[a] < listed[b]
        BY DEF WalkInv, SortedInv, s
      <4>3. listed[i + d] < listed[j + d]
        BY <3>1, <4>1, <4>2
      <4> QED BY <3>1, <4>1, <4>3
    <3> QED BY <1>8, <3>2, <3>3
  <2>3. ASSUME NEW i \in 1..t PROVE Known(listed[i])'
    <3>1. CASE i = t
      BY <1>1, <3>1 DEF Known, t
    <3>2. CASE i \in 1..(t - 1)
      BY <1>1, <1>3, <1>6, <3>2 DEF Known
    <3> QED BY <1>8, <3>1, <3>2
  <2>4. ASSUME NEW i \in 1..Len(got) PROVE Known(got[i])'
    BY <1>1, <1>6 DEF Known
  <2>5. t <= Len(feed) + 1
    BY <1>1, <1>2, <1>4 DEF WalkInv, TypeOK, SortedInv, s
  <2> QED BY <1>1, <2>1, <2>2, <2>3, <2>4, <2>5 DEF SortedInv, t
<1>10. AheadInv'
  <2> SUFFICES ASSUME NEW i \in 1..Len(got), NEW j \in 1..t, offset < j
               PROVE  got[i] < listed'[j]
    BY <1>1 DEF AheadInv, t
  <2>1. CASE j = t
    BY <1>3, <1>7, <2>1
  <2>2. CASE j \in 1..(t - 1)
    <3>1. j + d \in 1..s /\ listed'[j] = listed[j + d] /\ offset < j + d
      <4>1. offset \in Nat
        BY DEF WalkInv, TypeOK
      <4> QED BY <1>3, <1>4, <2>2, <4>1
    <3> QED BY <3>1 DEF WalkInv, AheadInv, s
  <2> QED BY <1>8, <2>1, <2>2
<1>11. NoRowTwice'
  BY <1>1 DEF WalkInv, NoRowTwice
<1> QED BY <1>5, <1>9, <1>10, <1>11 DEF WalkInv

\* A page is received.
LEMMA WalkPage ==
  ASSUME WalkInv, NextPage
  PROVE  WalkInv'
<1> DEFINE e == list_snapshot(offset, limit).entries
           n == Len(got)
<1>1. /\ got' = got \o e /\ offset' = offset + Len(e)
      /\ walk' \in {"done", "walking"}
      /\ UNCHANGED <<running, access, listed, unsent, feed, requests, replies, limit, begun>>
  BY DEF NextPage, feedVars
<1>2. /\ e \in Seq(RowIds)
      /\ \A m \in 1..Len(e) : offset + m \in 1..Len(listed) /\ e[m] = listed[offset + m]
  BY PageProperties DEF WalkInv
<1>3. got \in Seq(RowIds) /\ n \in Nat /\ offset \in Nat /\ offset = n
  BY DEF WalkInv, TypeOK
<1> HIDE DEF e
<1>4. /\ got' \in Seq(RowIds) /\ Len(got') = n + Len(e) /\ Len(e) \in Nat
      /\ \A i \in 1..n : got'[i] = got[i]
      /\ \A i \in (n + 1)..(n + Len(e)) : got'[i] = e[i - n]
  BY <1>1, <1>2, <1>3
<1> HIDE DEF n
<1>5. \A i \in 1..Len(got') : i \in 1..n \/ i - n \in 1..Len(e)
  BY <1>3, <1>4
<1>6. ASSUME NEW i \in 1..Len(got'), i - n \in 1..Len(e)
      PROVE  i \in 1..Len(listed) /\ got'[i] = listed[i]
  <2>1. i \in (n + 1)..(n + Len(e)) /\ offset + (i - n) = i
    BY <1>3, <1>4, <1>6
  <2> QED BY <1>2, <1>4, <1>6, <2>1
<1>7. TypeOK'
  BY <1>1, <1>3, <1>4 DEF WalkInv, TypeOK, n
<1>8. SortedInv'
  <2>1. ASSUME NEW i \in 1..Len(got') PROVE Known(got'[i])
    BY <1>4, <1>5, <1>6 DEF WalkInv, SortedInv, n
  <2>2. \A x : Known(x)' <=> Known(x)
    BY <1>1 DEF Known
  <2> QED BY <1>1, <2>1, <2>2 DEF WalkInv, SortedInv
<1>9. AheadInv'
  <2> SUFFICES ASSUME NEW i \in 1..Len(got'), NEW j \in 1..Len(listed), offset + Len(e) < j
               PROVE  got'[i] < listed[j]
    BY <1>1 DEF AheadInv
  <2>1. offset < j
    BY <1>3, <1>4
  <2>2. CASE i \in 1..n
    BY <1>4, <2>1, <2>2 DEF WalkInv, AheadInv, n
  <2>3. CASE i - n \in 1..Len(e)
    <3>1. i < j /\ i \in 1..Len(listed) /\ got'[i] = listed[i]
      BY <1>3, <1>4, <1>6, <2>3
    <3> QED BY <3>1 DEF WalkInv, SortedInv
  <2> QED BY <1>5, <2>2, <2>3
<1>10. NoRowTwice'
  <2> SUFFICES ASSUME NEW i \in 1..Len(got'), NEW j \in 1..Len(got'), i < j
               PROVE  got'[i] < got'[j]
    BY DEF NoRowTwice
  <2>1. CASE j \in 1..n
    <3>1. i \in 1..n
      BY <1>3, <1>4, <2>1
    <3> QED BY <1>4, <2>1, <3>1 DEF WalkInv, NoRowTwice, n
  <2>2. CASE j - n \in 1..Len(e) /\ i \in 1..n
    <3>1. j \in 1..Len(listed) /\ got'[j] = listed[j] /\ offset < j
      BY <1>3, <1>4, <1>6, <2>2
    <3> QED BY <1>4, <2>2, <3>1 DEF WalkInv, AheadInv, n
  <2>3. CASE j - n \in 1..Len(e) /\ i - n \in 1..Len(e)
    BY <1>6, <2>3 DEF WalkInv, SortedInv
  <2> QED BY <1>5, <2>1, <2>2, <2>3
<1> QED BY <1>7, <1>8, <1>9, <1>10 DEF WalkInv

\* The newest row is announced.
LEMMA WalkBroadcast ==
  ASSUME WalkInv, Broadcast, UNCHANGED walkVars
  PROVE  WalkInv'
<1>1. /\ unsent /\ unsent' = FALSE /\ feed' = Append(feed, listed[Len(listed)])
      /\ UNCHANGED <<running, access, listed, requests, replies, walk, limit, offset, got, begun>>
  BY DEF Broadcast, walkVars, Last
<1>2. listed \in Seq(RowIds) /\ listed # << >> /\ feed \in Seq(RowIds)
  BY <1>1 DEF WalkInv, TypeOK, SortedInv
<1>3. listed[Len(listed)] \in RowIds
  BY <1>2
<1>4. /\ feed' \in Seq(RowIds) /\ Len(feed') = Len(feed) + 1 /\ Len(feed) \in Nat
      /\ feed'[Len(feed) + 1] = listed[Len(listed)]
      /\ \A i \in 1..Len(feed) : feed'[i] = feed[i]
  BY <1>1, <1>2, <1>3
<1>5. TypeOK'
  BY <1>1, <1>4 DEF WalkInv, TypeOK
<1>6. ASSUME NEW x, Known(x) PROVE Known(x)'
  BY <1>1, <1>4, <1>6 DEF Known
<1>7. SortedInv'
  <2>1. Len(listed) <= Len(feed) + 1 /\ Len(listed) \in Nat
    BY <1>1, <1>2 DEF WalkInv, SortedInv
  <2> QED BY <1>1, <1>4, <1>6, <2>1 DEF WalkInv, SortedInv
<1>8. AheadInv' /\ NoRowTwice'
  BY <1>1 DEF WalkInv, AheadInv, NoRowTwice
<1> QED BY <1>5, <1>7, <1>8 DEF WalkInv

\* Every other step leaves the list, the events and the rows received alone.
LEMMA WalkQuiet ==
  ASSUME WalkInv, UNCHANGED <<listed, unsent, feed, got, offset>>, TypeOK'
  PROVE  WalkInv'
<1>1. \A x : Known(x)' <=> Known(x)
  BY DEF Known
<1> QED BY <1>1 DEF WalkInv, SortedInv, AheadInv, NoRowTwice

\* Every step keeps WalkInv.
LEMMA WalkStep == WalkInv /\ [ListNext]_vars => WalkInv'
<1> SUFFICES ASSUME WalkInv, [ListNext]_vars PROVE WalkInv'
  OBVIOUS
<1>1. TypeOK
  BY DEF WalkInv
<1>2. ASSUME NEW id \in RowIds, Send(id), UNCHANGED walkVars PROVE WalkInv'
  <2>1. TypeOK' /\ UNCHANGED <<listed, unsent, feed, got, offset>>
    BY <1>1, <1>2 DEF Send, walkVars, TypeOK
  <2> QED BY <2>1, WalkQuiet
<1>3. ASSUME NEW r \in BOOLEAN, Answer(r), UNCHANGED walkVars PROVE WalkInv'
  <2>1. requests \in Seq(RowIds) /\ requests # << >>
    BY <1>1, <1>3 DEF Answer, TypeOK
  <2>2. Head(requests) \in RowIds /\ Tail(requests) \in Seq(RowIds)
    BY <2>1, HeadTailProperties
  <2>3. [entry_id |-> Head(requests), restored |-> r] \in [entry_id : RowIds, restored : BOOLEAN]
    BY <2>2
  <2>4. TypeOK' /\ UNCHANGED <<listed, unsent, feed, got, offset>>
    BY <1>1, <1>3, <2>2, <2>3 DEF Answer, walkVars, TypeOK
  <2> QED BY <2>4, WalkQuiet
<1>4. CASE (Revoke \/ Stop) /\ UNCHANGED walkVars
  <2>1. TypeOK' /\ UNCHANGED <<listed, unsent, feed, got, offset>>
    BY <1>1, <1>4 DEF Revoke, Stop, walkVars, TypeOK
  <2> QED BY <2>1, WalkQuiet
<1>5. CASE Orphaned \/ UNCHANGED vars
  <2>1. TypeOK' /\ UNCHANGED <<listed, unsent, feed, got, offset>>
    BY <1>1, <1>5 DEF Orphaned, vars, feedVars, walkVars, TypeOK
  <2> QED BY <2>1, WalkQuiet
<1>6. ASSUME NEW l \in Limits, StartWalk(l) PROVE WalkInv'
  <2>1. /\ UNCHANGED <<running, access, listed, unsent, feed, requests, replies>>
        /\ walk' = "walking" /\ limit' = l /\ offset' = 0 /\ got' = << >>
        /\ begun' = [feed |-> Len(feed), evicted |-> Evicted]
    BY <1>6 DEF StartWalk, feedVars
  <2>2. Len(feed) \in Nat /\ Evicted \in Nat
    <3>1. Len(feed) \in Nat /\ Len(listed) \in Nat
      BY <1>1 DEF TypeOK
    <3>2. Len(listed) <= Len(feed) + (IF unsent THEN 1 ELSE 0)
      BY DEF WalkInv, SortedInv
    <3> QED BY <3>1, <3>2 DEF Evicted
  <2>3. TypeOK'
    BY <1>1, <2>1, <2>2, ListAssumption DEF TypeOK
  <2>4. \A x : Known(x)' <=> Known(x)
    BY <2>1 DEF Known
  <2>5. SortedInv' /\ AheadInv' /\ NoRowTwice'
    BY <2>1, <2>4 DEF WalkInv, SortedInv, AheadInv, NoRowTwice
  <2> QED BY <2>3, <2>5 DEF WalkInv
<1>7. ASSUME Next, UNCHANGED walkVars PROVE WalkInv'
  BY <1>2, <1>3, <1>4, <1>7, WalkPush, WalkBroadcast DEF Next
<1>8. CASE NextPage
  BY <1>8, WalkPage
<1> QED BY <1>5, <1>6, <1>7, <1>8 DEF ListNext

LEMMA WalkStart == ListInit => WalkInv
<1> SUFFICES ASSUME ListInit PROVE WalkInv
  OBVIOUS
<1> USE DEF ListInit, Init
<1>1. TypeOK
  <2>1. /\ << >> \in Seq(RowIds) /\ << >> \in Seq([entry_id : RowIds, restored : BOOLEAN])
        /\ Len(<< >>) = 0 /\ 0 <= MaxHistory /\ 1 \in Nat \ {0} /\ 0 \in Nat
    BY MaxHistoryAssumption
  <2>2. [feed |-> 0, evicted |-> 0] \in [feed : Nat, evicted : Nat]
    OBVIOUS
  <2> QED BY <2>1, <2>2 DEF TypeOK
<1>2. SortedInv /\ AheadInv /\ NoRowTwice
  BY DEF SortedInv, AheadInv, NoRowTwice
<1> QED BY <1>1, <1>2 DEF WalkInv

-----------------------------------------------------------------------------
\* The list, the rows received and the counters keep their types, and the
\* list its bound, for any history length and page length.
THEOREM ListTypes == ListSpec => []TypeOK
<1>1. WalkInv => TypeOK
  BY DEF WalkInv
<1> QED BY <1>1, WalkStart, WalkStep, PTL DEF ListSpec

\* However rows are pushed and evicted between two pages, no row is received
\* twice, and the rows arrive in the order they were copied.
THEOREM NoRowReceivedTwice == ListSpec => []NoRowTwice
<1>1. WalkInv => NoRowTwice
  BY DEF WalkInv
<1> QED BY <1>1, WalkStart, WalkStep, PTL DEF ListSpec

-----------------------------------------------------------------------------
(* What a walk misses.  Rows are numbered from the first one ever pushed;   *)
(* an eviction moves no number, only where a page starts.                   *)

\* Rows pushed so far.
Total == Len(feed) + (IF unsent THEN 1 ELSE 0)

\* The row of this number: it has been announced, or is the one about to be.
Row(events, rows, p) == IF p <= Len(events) THEN events[p] ELSE rows[Len(rows)]

\* The list is the newest rows, and what was received lies between the first
\* row listed when the walk began and the first row of the next page: as many
\* rows in between were missed as were evicted meanwhile.
PlaceInv ==
  /\ \A i \in 1..Len(listed) : listed[i] = Row(feed, listed, Evicted + i)
  /\ \A p, q \in 1..Total : p < q => Row(feed, listed, p) < Row(feed, listed, q)
  /\ begun.evicted <= Evicted /\ begun.feed <= Len(feed)
  /\ \A i \in 1..Len(got) :
       \E p \in (begun.evicted + 1)..(Evicted + offset) : p <= Total /\ got[i] = Row(feed, listed, p)
  /\ walk = "done" => begun.feed <= Evicted + offset

LEMMA PlaceTypes ==
  ASSUME WalkInv
  PROVE  /\ Total \in Nat /\ Evicted \in Nat /\ Evicted + Len(listed) = Total
         /\ Len(feed) \in Nat /\ Len(listed) \in Nat /\ offset \in Nat
         /\ Len(got) \in Nat /\ offset = Len(got)
         /\ begun.evicted \in Nat /\ begun.feed \in Nat
         /\ (unsent => Total = Len(feed) + 1) /\ (~unsent => Total = Len(feed))
         /\ (unsent => Len(listed) # 0)
<1>1. /\ listed \in Seq(RowIds) /\ feed \in Seq(RowIds) /\ got \in Seq(RowIds)
      /\ offset \in Nat /\ begun \in [feed : Nat, evicted : Nat] /\ offset = Len(got)
      /\ unsent \in BOOLEAN
  BY DEF WalkInv, TypeOK
<1>2. Len(feed) \in Nat /\ Len(listed) \in Nat /\ Len(got) \in Nat
  BY <1>1
<1>3. /\ Len(listed) <= Len(feed) + (IF unsent THEN 1 ELSE 0)
      /\ (unsent => listed # << >>)
  BY DEF WalkInv, SortedInv
<1>4. unsent => Len(listed) # 0
  BY <1>1, <1>3
<1> QED BY <1>1, <1>2, <1>3, <1>4 DEF Total, Evicted

LEMMA PlaceInit == ListInit => PlaceInv
<1> SUFFICES ASSUME ListInit PROVE PlaceInv
  OBVIOUS
<1>1. /\ listed = << >> /\ feed = << >> /\ got = << >> /\ unsent = FALSE /\ walk = "idle"
      /\ begun.evicted = 0 /\ begun.feed = 0
  BY DEF ListInit, Init
<1>2. Total = 0 /\ Evicted = 0
  BY <1>1 DEF Total, Evicted
<1> QED BY <1>1, <1>2 DEF PlaceInv

\* Rows keep their numbers, and only what is received or evicted changes.
LEMMA PlaceKeeps ==
  ASSUME WalkInv, PlaceInv, WalkInv', Total <= Total', Evicted <= Evicted',
         Total' \in Nat, Evicted' \in Nat, Len(feed') \in Nat, Len(feed) <= Len(feed'),
         \A p \in 1..Total : Row(feed', listed', p) = Row(feed, listed, p),
         \A i \in 1..Len(listed') : listed'[i] = Row(feed', listed', Evicted' + i),
         \A p, q \in 1..Total' : p < q => Row(feed', listed', p) < Row(feed', listed', q),
         UNCHANGED walkVars
  PROVE  PlaceInv'
<1>1. /\ got' = got /\ offset' = offset /\ begun' = begun /\ walk' = walk
  BY DEF walkVars
<1>2. /\ Total \in Nat /\ Evicted \in Nat /\ offset \in Nat /\ Len(feed) \in Nat
      /\ begun.evicted \in Nat /\ begun.feed \in Nat
  BY PlaceTypes
<1>3. ASSUME NEW i \in 1..Len(got)
      PROVE  \E p \in (begun.evicted + 1)..(Evicted' + offset) : p <= Total' /\ got[i] = Row(feed', listed', p)
  <2>1. PICK p \in (begun.evicted + 1)..(Evicted + offset) : p <= Total /\ got[i] = Row(feed, listed, p)
    BY DEF PlaceInv
  <2> DEFINE b == begun.evicted
             e == Evicted
             f == Evicted'
             n == offset
             t == Total
             u == Total'
  <2>n. b \in Nat /\ e \in Nat /\ f \in Nat /\ n \in Nat /\ t \in Nat /\ u \in Nat /\ e <= f /\ t <= u
    BY <1>2
  <2>p. p \in (b + 1)..(e + n) /\ p <= t
    BY <2>1
  <2> HIDE DEF b, e, f, n, t, u
  <2>q. p \in 1..t /\ p \in (b + 1)..(f + n) /\ p <= u
    BY <2>n, <2>p
  <2>2. p \in 1..Total /\ p \in (begun.evicted + 1)..(Evicted' + offset) /\ p <= Total'
    BY <2>q DEF b, e, f, n, t, u
  <2> QED BY <2>1, <2>2
<1>4. /\ begun.evicted <= Evicted' /\ begun.feed <= Len(feed')
      /\ (walk = "done" => begun.feed <= Evicted' + offset)
  BY <1>2 DEF PlaceInv
<1> QED BY <1>1, <1>3, <1>4 DEF PlaceInv

LEMMA PlacePush ==
  ASSUME WalkInv, PlaceInv, WalkInv', NEW id \in RowIds, PushRow(id), UNCHANGED walkVars
  PROVE  PlaceInv'
<1> DEFINE s == Len(listed)
           r == Push(listed, id)
           t == Len(r)
           d == s + 1 - t
<1>1. /\ listed' = r /\ unsent' = TRUE /\ ~unsent /\ feed' = feed
      /\ \A i \in 1..Len(feed) : feed[i] < id
  BY DEF PushRow
<1>2. listed \in Seq(RowIds) /\ s \in Nat /\ s <= MaxHistory /\ MaxHistory \in Nat \ {0}
  BY MaxHistoryAssumption DEF WalkInv, TypeOK
<1>p. /\ Len(r) = IF Len(listed) >= MaxHistory THEN MaxHistory ELSE Len(listed) + 1
      /\ r[Len(r)] = id
      /\ \A i \in 1..(Len(r) - 1) :
           /\ i + (Len(listed) + 1 - Len(r)) \in 1..Len(listed)
           /\ r[i] = listed[i + (Len(listed) + 1 - Len(r))]
  <2>1. listed \in Seq(RowIds) /\ id \in RowIds
    BY <1>2
  <2> QED BY <2>1, PushProperties, ZenonT(60)
<1>3. /\ t = IF s >= MaxHistory THEN MaxHistory ELSE s + 1
      /\ r[t] = id /\ \A i \in 1..(t - 1) : i + d \in 1..s /\ r[i] = listed[i + d]
  BY <1>p
<1>4. /\ Total = Len(feed) /\ Len(feed) \in Nat /\ Evicted = Len(feed) - s
      /\ Evicted + s = Len(feed) /\ Evicted \in Nat
  BY <1>1, PlaceTypes DEF Evicted
<1> HIDE DEF r
<1>5. Total' = Len(feed) + 1 /\ Evicted' = Len(feed) + 1 - t
  BY <1>1 DEF Total, Evicted
<1>6. t \in Nat \ {0} /\ d \in {0, 1}
  <2> HIDE DEF s, t
  <2>1. CASE s >= MaxHistory
    BY <1>2, <1>3, <2>1
  <2>2. CASE ~(s >= MaxHistory)
    BY <1>2, <1>3, <2>2
  <2> QED BY <2>1, <2>2
<1> HIDE DEF s, t
<1>7. /\ \A p \in 1..Len(feed) : Row(feed', listed', p) = feed[p] /\ Row(feed, listed, p) = feed[p]
      /\ Row(feed', listed', Len(feed) + 1) = id
  <2>1. \A p \in 1..Len(feed) : Row(feed', listed', p) = feed[p] /\ Row(feed, listed, p) = feed[p]
    BY <1>1 DEF Row
  <2>2. Row(feed', listed', Len(feed) + 1) = id
    BY <1>1, <1>3, <1>4 DEF Row, t
  <2> QED BY <2>1, <2>2
<1>8. ASSUME NEW i \in 1..t PROVE r[i] = Row(feed', listed', Evicted' + i)
  <2>1. CASE i = t
    <3>1. Evicted' + i = Len(feed) + 1
      BY <1>4, <1>5, <1>6, <2>1
    <3> QED BY <1>3, <1>7, <2>1, <3>1
  <2>2. CASE i \in 1..(t - 1)
    <3>1. i + d \in 1..s /\ r[i] = listed[i + d]
      BY <1>3, <2>2
    <3>2. listed[i + d] = Row(feed, listed, Evicted + (i + d))
      BY <3>1 DEF PlaceInv, s
    <3>3. Evicted' + i = Evicted + (i + d) /\ Evicted + (i + d) \in 1..Len(feed)
      <4>1. i \in Nat \ {0} /\ i + d \in 1..s
        BY <1>6, <2>2, <3>1
      <4>2. /\ Len(feed) \in Nat /\ s \in Nat /\ t \in Nat /\ Evicted \in Nat /\ d \in {0, 1}
            /\ Evicted + s = Len(feed) /\ Evicted' = Len(feed) + 1 - t
        BY <1>2, <1>4, <1>5, <1>6
      <4> QED BY <4>1, <4>2
    <3> QED BY <1>7, <3>1, <3>2, <3>3
  <2> QED BY <1>6, <2>1, <2>2
<1>9. \A p, q \in 1..Total' : p < q => Row(feed', listed', p) < Row(feed', listed', q)
  <2> SUFFICES ASSUME NEW p \in 1..Total', NEW q \in 1..Total', p < q
               PROVE  Row(feed', listed', p) < Row(feed', listed', q)
    OBVIOUS
  <2>1. p \in 1..Len(feed) /\ (q \in 1..Len(feed) \/ q = Len(feed) + 1)
    BY <1>4, <1>5
  <2>2. q \in 1..Len(feed) => Row(feed, listed, p) < Row(feed, listed, q)
    BY <1>4, <2>1 DEF PlaceInv
  <2> QED BY <1>1, <1>7, <2>1, <2>2
<1>10. /\ Total <= Total' /\ Evicted <= Evicted' /\ Total' \in Nat /\ Evicted' \in Nat
       /\ Len(feed') \in Nat /\ Len(feed) <= Len(feed')
  BY <1>1, <1>2, <1>4, <1>5, <1>6
<1>11. \A i \in 1..Len(listed') : listed'[i] = Row(feed', listed', Evicted' + i)
  BY <1>1, <1>8 DEF t
<1> QED BY <1>4, <1>7, <1>9, <1>10, <1>11, PlaceKeeps

LEMMA PlaceBroadcast ==
  ASSUME WalkInv, PlaceInv, WalkInv', Broadcast, UNCHANGED walkVars
  PROVE  PlaceInv'
<1>1. /\ unsent /\ unsent' = FALSE /\ feed' = Append(feed, listed[Len(listed)])
      /\ listed' = listed
  BY DEF Broadcast, Last
<1>2. /\ Total = Len(feed) + 1 /\ Len(feed) \in Nat /\ Evicted + Len(listed) = Total
      /\ Evicted \in Nat /\ Len(listed) \in Nat \ {0} /\ feed \in Seq(RowIds)
      /\ listed \in Seq(RowIds)
  BY <1>1, PlaceTypes DEF WalkInv, TypeOK
<1>3. listed[Len(listed)] \in RowIds
  BY <1>2
<1>4. /\ Len(feed') = Len(feed) + 1 /\ feed'[Len(feed) + 1] = listed[Len(listed)]
      /\ \A i \in 1..Len(feed) : feed'[i] = feed[i]
  BY <1>1, <1>2, <1>3
<1>5. Total' = Total /\ Evicted' = Evicted
  BY <1>1, <1>2, <1>4 DEF Total, Evicted
<1>6. \A p \in 1..Total : Row(feed', listed', p) = Row(feed, listed, p)
  BY <1>1, <1>2, <1>4 DEF Row
<1>7. \A i \in 1..Len(listed) : Evicted + i \in 1..Total
  BY <1>2
<1>8. \A i \in 1..Len(listed') : listed'[i] = Row(feed', listed', Evicted' + i)
  BY <1>1, <1>5, <1>6, <1>7 DEF PlaceInv
<1>9. \A p, q \in 1..Total' : p < q => Row(feed', listed', p) < Row(feed', listed', q)
  BY <1>5, <1>6 DEF PlaceInv
<1>10. /\ Total <= Total' /\ Evicted <= Evicted' /\ Total' \in Nat /\ Evicted' \in Nat
       /\ Len(feed') \in Nat /\ Len(feed) <= Len(feed')
  BY <1>2, <1>4, <1>5
<1> QED BY <1>6, <1>8, <1>9, <1>10, PlaceKeeps

\* A step that touches neither the list nor the events.
LEMMA PlaceQuiet ==
  ASSUME PlaceInv, UNCHANGED <<listed, unsent, feed, walkVars>>
  PROVE  PlaceInv'
<1>1. Total' = Total /\ Evicted' = Evicted /\ feed' = feed /\ listed' = listed
  BY DEF Total, Evicted
<1> QED BY <1>1 DEF PlaceInv, walkVars

LEMMA PlacePage ==
  ASSUME WalkInv, PlaceInv, WalkInv', NextPage
  PROVE  PlaceInv'
<1> DEFINE e == list_snapshot(offset, limit).entries
<1>1. /\ got' = got \o e /\ offset' = offset + Len(e)
      /\ walk' = IF offset' >= Len(listed) THEN "done" ELSE "walking"
      /\ UNCHANGED <<listed, unsent, feed, begun>>
  BY DEF NextPage, feedVars, list_snapshot
<1>2. /\ e \in Seq(RowIds)
      /\ \A m \in 1..Len(e) : offset + m \in 1..Len(listed) /\ e[m] = listed[offset + m]
  BY PageProperties DEF WalkInv
<1>3. /\ Total \in Nat /\ Evicted \in Nat /\ Evicted + Len(listed) = Total
      /\ Len(listed) \in Nat /\ offset \in Nat /\ Len(got) \in Nat /\ offset = Len(got)
      /\ begun.evicted \in Nat /\ got \in Seq(RowIds) /\ Len(feed) \in Nat
      /\ (unsent => Total = Len(feed) + 1) /\ (~unsent => Total = Len(feed))
  BY PlaceTypes DEF WalkInv, TypeOK
<1> HIDE DEF e
<1>4. /\ Len(got') = Len(got) + Len(e) /\ Len(e) \in Nat
      /\ \A i \in 1..Len(got) : got'[i] = got[i]
      /\ \A i \in 1..Len(got') : i \in 1..Len(got)
                                 \/ (i - Len(got) \in 1..Len(e) /\ got'[i] = e[i - Len(got)])
  BY <1>1, <1>2, <1>3
<1>5. Total' = Total /\ Evicted' = Evicted /\ feed' = feed /\ listed' = listed
  BY <1>1 DEF Total, Evicted
<1>6. ASSUME NEW i \in 1..Len(got')
      PROVE  \E p \in (begun.evicted + 1)..(Evicted + offset') : p <= Total /\ got'[i] = Row(feed, listed, p)
  <2>1. CASE i \in 1..Len(got)
    <3>1. PICK p \in (begun.evicted + 1)..(Evicted + offset) : p <= Total /\ got[i] = Row(feed, listed, p)
      BY <2>1 DEF PlaceInv
    <3>2. p \in (begun.evicted + 1)..(Evicted + offset')
      BY <1>1, <1>3, <1>4, <3>1
    <3> QED BY <1>4, <2>1, <3>1, <3>2
  <2>2. CASE i - Len(got) \in 1..Len(e) /\ got'[i] = e[i - Len(got)]
    <3> DEFINE m == i - Len(got)
    <3>1. m \in 1..Len(e) /\ got'[i] = e[m]
      BY <2>2
    <3> HIDE DEF m
    <3>2. offset + m \in 1..Len(listed) /\ got'[i] = listed[offset + m]
      BY <1>2, <3>1
    <3>3. got'[i] = Row(feed, listed, Evicted + (offset + m))
      BY <3>2 DEF PlaceInv
    <3>e. begun.evicted <= Evicted
      BY DEF PlaceInv
    <3>4. /\ Evicted + (offset + m) \in (begun.evicted + 1)..(Evicted + offset')
          /\ Evicted + (offset + m) <= Total
      <4> DEFINE b == begun.evicted
                 v == Evicted
                 n == offset
                 k == Len(e)
                 l == Len(listed)
      <4>1. /\ b \in Nat /\ v \in Nat /\ n \in Nat /\ k \in Nat /\ l \in Nat /\ b <= v
            /\ m \in 1..k /\ n + m \in 1..l /\ v + l = Total /\ offset' = n + k
        BY <1>1, <1>3, <1>4, <3>1, <3>2, <3>e
      <4> HIDE DEF b, v, n, k, l
      <4>2. v + (n + m) \in (b + 1)..(v + (n + k)) /\ v + (n + m) <= v + l
        BY <4>1
      <4> QED BY <4>1, <4>2 DEF b, v, n, k, l
    <3> QED BY <3>3, <3>4
  <2> QED BY <1>4, <2>1, <2>2
<1>7. walk' = "done" => begun.feed <= Evicted + offset'
  <2>1. begun.feed <= Total
    <3>1. begun.feed <= Len(feed) /\ begun.feed \in Nat
      BY PlaceTypes DEF PlaceInv
    <3> QED BY <1>3, <3>1
  <2>2. walk' = "done" => offset' >= Len(listed)
    BY <1>1
  <2> QED BY <1>1, <1>3, <1>4, <2>1, <2>2, PlaceTypes
<1> QED BY <1>1, <1>5, <1>6, <1>7 DEF PlaceInv

LEMMA PlaceBegin ==
  ASSUME WalkInv, PlaceInv, WalkInv', NEW l \in Limits, StartWalk(l)
  PROVE  PlaceInv'
<1>1. /\ UNCHANGED <<listed, unsent, feed>> /\ got' = << >> /\ walk' = "walking"
      /\ begun' = [feed |-> Len(feed), evicted |-> Evicted]
  BY DEF StartWalk, feedVars
<1>2. /\ Total' = Total /\ Evicted' = Evicted
      /\ begun'.feed = Len(feed) /\ begun'.evicted = Evicted
  BY <1>1 DEF Total, Evicted
<1>3. Len(feed) \in Nat /\ Evicted \in Nat /\ Len(got') = 0
  BY <1>1, PlaceTypes
<1>4. begun'.evicted <= Evicted' /\ begun'.feed <= Len(feed')
  BY <1>1, <1>2, <1>3
<1> QED BY <1>1, <1>2, <1>3, <1>4 DEF PlaceInv

LEMMA PlaceStep == WalkInv /\ PlaceInv /\ [ListNext]_vars => PlaceInv'
<1> SUFFICES ASSUME WalkInv, PlaceInv, [ListNext]_vars PROVE PlaceInv'
  OBVIOUS
<1>1. WalkInv'
  BY WalkStep
<1>2. ASSUME Next, UNCHANGED walkVars PROVE PlaceInv'
  <2>1. ASSUME NEW id \in RowIds, PushRow(id) PROVE PlaceInv'
    BY <1>1, <1>2, <2>1, PlacePush
  <2>2. CASE Broadcast
    BY <1>1, <1>2, <2>2, PlaceBroadcast
  <2>3. ASSUME UNCHANGED <<listed, unsent, feed>> PROVE PlaceInv'
    BY <1>2, <2>3, PlaceQuiet
  <2>4. ASSUME NEW id \in RowIds, Send(id) PROVE PlaceInv'
    BY <2>3, <2>4 DEF Send
  <2>5. ASSUME NEW r \in BOOLEAN, Answer(r) PROVE PlaceInv'
    BY <2>3, <2>5 DEF Answer
  <2>6. CASE Revoke \/ Stop
    BY <2>3, <2>6 DEF Revoke, Stop
  <2> QED BY <1>2, <2>1, <2>2, <2>4, <2>5, <2>6 DEF Next
<1>3. CASE Orphaned \/ UNCHANGED vars
  BY <1>3, PlaceQuiet DEF Orphaned, vars, feedVars
<1>4. ASSUME NEW l \in Limits, StartWalk(l) PROVE PlaceInv'
  BY <1>1, <1>4, PlaceBegin
<1>5. CASE NextPage
  BY <1>1, <1>5, PlacePage
<1> QED BY <1>2, <1>3, <1>4, <1>5 DEF ListNext

\* At the end of a walk a row the UI lacks has one of the numbers that were
\* passed over, and there are as many of those as evictions.
LEMMA FewSkipped == WalkInv /\ PlaceInv => SkipsOnlyByEviction
<1> SUFFICES ASSUME WalkInv, PlaceInv, walk = "done"
             PROVE  LET known == Rows(got) \cup Announced
                                 \cup (IF unsent THEN {Last(listed)} ELSE {})
                    IN  Cardinality(Rows(listed) \ known) <= Evicted - begun.evicted
  BY DEF SkipsOnlyByEviction
<1> DEFINE known == Rows(got) \cup Announced \cup (IF unsent THEN {Last(listed)} ELSE {})
           missing == Rows(listed) \ known
           b == begun.evicted
           v == Evicted
           n == offset
           t == Total
           w == Len(feed)
           row(p) == Row(feed, listed, p)
           P == (b + 1)..(v + n)
           G == {p \in P : p <= t /\ row(p) \in Rows(got)}
<1>1. /\ b \in Nat /\ v \in Nat /\ n \in Nat /\ t \in Nat /\ w \in Nat /\ n = Len(got)
      /\ Len(listed) \in Nat /\ v + Len(listed) = t /\ begun.feed \in Nat
      /\ (unsent => t = w + 1) /\ (~unsent => t = w) /\ unsent \in BOOLEAN
  BY PlaceTypes DEF WalkInv, TypeOK
<1>2. b <= v /\ begun.feed <= v + n
  BY DEF PlaceInv
<1>3. \A i \in 1..n : \E p \in P : p <= t /\ got[i] = row(p)
  BY <1>1 DEF PlaceInv
<1>4. \A i, j \in 1..n : i < j => got[i] < got[j]
  BY <1>1 DEF WalkInv, NoRowTwice
<1>g. \A i \in 1..n : got[i] \in Nat /\ got[i] \in Rows(got)
  <2>1. got \in Seq(RowIds) /\ RowIds \subseteq Nat
    BY FeedAssumption DEF WalkInv, TypeOK
  <2>2. \A i \in 1..n : got[i] \in RowIds
    BY <1>1, <2>1
  <2>3. \A i \in 1..n : got[i] \in Rows(got)
    BY <1>1 DEF Rows
  <2> QED BY <2>1, <2>2, <2>3
<1>5. /\ IsFiniteSet(P) /\ Cardinality(P) = (v + n) - b
      /\ IsFiniteSet(1..n) /\ Cardinality(1..n) = n
  <2> HIDE DEF b, v, n
  <2>1. /\ b + 1 \in Int /\ v + n \in Int /\ 1 \in Int /\ n \in Int
        /\ (b + 1 > v + n => v + n = b) /\ (1 > n => n = 0)
    BY <1>1, <1>2
  <2>2. IsFiniteSet(P) /\ Cardinality(P) = IF b + 1 > v + n THEN 0 ELSE (v + n) - (b + 1) + 1
    BY <2>1, FS_Interval
  <2>3. IsFiniteSet(1..n) /\ Cardinality(1..n) = IF 1 > n THEN 0 ELSE n - 1 + 1
    BY <2>1, FS_Interval
  <2> HIDE DEF P
  <2> QED BY <1>1, <2>1, <2>2, <2>3
<1>6. IsFiniteSet(G) /\ Cardinality(G) \in Nat /\ n <= Cardinality(G)
  <2>1. IsFiniteSet(G)
    BY <1>5, FS_Subset
  <2> DEFINE f == [i \in 1..n |-> CHOOSE p \in P : p <= t /\ got[i] = row(p)]
  <2>2. \A i \in 1..n : f[i] \in P /\ f[i] <= t /\ got[i] = row(f[i])
    BY <1>3
  <2>3. \A i \in 1..n : f[i] \in G
    BY <1>g, <2>2
  <2>4. \A i, j \in 1..n : i # j => got[i] # got[j]
    BY <1>1, <1>4, <1>g
  <2>5. \A i, j \in 1..n : f[i] = f[j] => i = j
    BY <2>2, <2>4
  <2>6. f \in [1..n -> G]
    BY <2>3
  <2> HIDE DEF f, G
  <2>7. f \in Injection(1..n, G)
    BY <2>5, <2>6 DEF Injection, IsInjective
  <2>8. Cardinality(1..n) <= Cardinality(G)
    BY <1>5, <2>1, <2>7, FS_Injection
  <2> QED BY <1>5, <2>1, <2>8, FS_CardinalityType
<1>7. /\ IsFiniteSet(P \ G) /\ Cardinality(P \ G) \in Nat /\ Cardinality(P \ G) <= v - b
  <2>1. P \cap G = G
    OBVIOUS
  <2> HIDE DEF G, P
  <2>d. IsFiniteSet(P)
    BY <1>5
  <2>e. IsFiniteSet(P \ G) /\ Cardinality(P \ G) = Cardinality(P) - Cardinality(P \cap G)
    BY <2>d, FS_Difference
  <2>2. IsFiniteSet(P \ G) /\ Cardinality(P \ G) = Cardinality(P) - Cardinality(G)
    BY <2>1, <2>e, Zenon
  <2>3. Cardinality(P \ G) \in Nat
    BY <2>2, FS_CardinalityType
  <2> QED BY <1>1, <1>5, <1>6, <2>2, <2>3
<1>8. ASSUME NEW x \in missing PROVE \E p \in P \ G : row(p) = x
  <2>1. PICK i \in 1..Len(listed) : x = listed[i]
    BY <1>8 DEF Rows
  <2> DEFINE p == v + i
  <2>2. listed[i] = row(p)
    BY DEF PlaceInv
  <2>3. p \in 1..t /\ b + 1 <= p
    BY <1>1, <1>2
  <2> HIDE DEF p
  <2>4. p <= begun.feed
    <3> SUFFICES ASSUME ~(p <= begun.feed) PROVE FALSE
      OBVIOUS
    <3>1. CASE p <= w
      <4>1. p \in (begun.feed + 1)..w /\ x = feed[p]
        BY <1>1, <2>1, <2>2, <2>3, <3>1 DEF Row
      <4> QED BY <4>1 DEF Announced
    <3>2. CASE ~(p <= w)
      <4>1. unsent /\ x = listed[Len(listed)]
        BY <1>1, <2>1, <2>2, <2>3, <3>2 DEF Row
      <4> QED BY <4>1 DEF Last
    <3> QED BY <3>1, <3>2
  <2>5. p \in P
    BY <1>1, <1>2, <2>3, <2>4
  <2>6. p \notin G
    BY <2>1, <2>2
  <2> QED BY <2>1, <2>2, <2>5, <2>6
<1>9. IsFiniteSet(missing) /\ Cardinality(missing) <= Cardinality(P \ G)
  <2> DEFINE g == [x \in missing |-> CHOOSE p \in P \ G : row(p) = x]
  <2>1. \A x \in missing : g[x] \in P \ G /\ row(g[x]) = x
    <3> HIDE DEF missing, G, P
    <3> QED BY <1>8
  <2>2. g \in [missing -> P \ G] /\ \A x, y \in missing : g[x] = g[y] => x = y
    <3> HIDE DEF missing, G, P
    <3> QED BY <2>1
  <2> HIDE DEF g, missing, G, P
  <2>3. g \in Injection(missing, P \ G)
    BY <2>2 DEF Injection, IsInjective
  <2> QED BY <1>7, <2>3, FS_Injection
<1>10. Cardinality(missing) \in Nat
  BY <1>9, FS_CardinalityType
<1> QED BY <1>1, <1>7, <1>9, <1>10

\* A walk that ends has missed no more of the rows still listed than were
\* evicted since it began, whatever was copied meanwhile and however the pages
\* were cut.
THEOREM WalkMissesOnlyEvicted == ListSpec => []SkipsOnlyByEviction
<1>1. ListInit => WalkInv /\ PlaceInv
  BY WalkStart, PlaceInit
<1>2. WalkInv /\ PlaceInv /\ [ListNext]_vars => (WalkInv /\ PlaceInv)'
  BY WalkStep, PlaceStep
<1>3. WalkInv /\ PlaceInv => SkipsOnlyByEviction
  BY FewSkipped
<1> QED BY <1>1, <1>2, <1>3, PTL DEF ListSpec
=============================================================================

------------------------------- MODULE ClipFeed -------------------------------
(***************************************************************************)
(* What the Wayland thread promises the socket tasks, and through them the  *)
(* UI: a list of rows that only grows at its end and drops its oldest, one  *)
(* event per row, and an answer per Restore that agrees with the list.      *)
(* ClipLoop implements it; ListWalk builds on it.                           *)
(***************************************************************************)
EXTENDS ClipHistory

CONSTANTS
  RowIds,        \* ids a row can have or a client can ask for
  MaxRestores    \* bound: Restore requests the socket tasks send

ASSUME FeedAssumption == RowIds \subseteq Nat /\ MaxRestores \in Nat

VARIABLES
  running,     \* the thread has not returned an error
  access,      \* it may still set the selection
  listed,      \* ids of the rows of the snapshot, oldest first
  unsent,      \* the newest row is not broadcast yet
  feed,        \* ids of the EntryAdded events, in order
  requests,    \* PendingRestore channel
  replies      \* answers given

feedVars == <<running, access, listed, unsent, feed, requests, replies>>

Init ==
  /\ running = TRUE /\ access = TRUE
  /\ listed = << >> /\ unsent = FALSE /\ feed = << >>
  /\ requests = << >> /\ replies = << >>

Listed(id) == \E i \in 1..Len(listed) : listed[i] = id

\* The one row that can be listed and refused: a suppressed echo evicted its
\* entry.  That takes a restore, and a full list.
Ghost(id) ==
  /\ Len(listed) = MaxHistory /\ id = listed[1]
  /\ \E i \in 1..Len(replies) : replies[i].restored

\* A new entry gets its row.
PushRow(id) ==
  /\ running /\ ~unsent
  /\ \A i \in 1..Len(feed) : feed[i] < id
  /\ listed' = Push(listed, id) /\ unsent' = TRUE
  /\ UNCHANGED <<running, access, feed, requests, replies>>

\* The row is announced before anything else happens.
Broadcast ==
  /\ unsent /\ unsent' = FALSE
  /\ feed' = Append(feed, Last(listed))
  /\ UNCHANGED <<running, access, listed, requests, replies>>

Send(id) ==
  /\ running /\ Len(requests) + Len(replies) < MaxRestores
  /\ requests' = Append(requests, id)
  /\ UNCHANGED <<running, access, listed, unsent, feed, replies>>

\* Requests are answered in order and between two rows.
Answer(restored) ==
  /\ running /\ ~unsent /\ requests # << >>
  /\ IF restored
     THEN access /\ Listed(Head(requests))
     ELSE access => ~Listed(Head(requests)) \/ Ghost(Head(requests))
  /\ requests' = Tail(requests)
  /\ replies' = Append(replies, [entry_id |-> Head(requests), restored |-> restored])
  /\ UNCHANGED <<running, access, listed, unsent, feed>>

\* The compositor takes the device back.
Revoke ==
  /\ running /\ access /\ access' = FALSE
  /\ UNCHANGED <<running, listed, unsent, feed, requests, replies>>

\* The thread fails, but never between a row and its event.
Stop ==
  /\ running /\ ~unsent /\ running' = FALSE
  /\ UNCHANGED <<access, listed, unsent, feed, requests, replies>>

Next ==
  \/ \E id \in RowIds : PushRow(id) \/ Send(id)
  \/ \E restored \in BOOLEAN : Answer(restored)
  \/ Broadcast \/ Revoke \/ Stop

Spec == Init /\ [][Next]_feedVars
==============================================================================

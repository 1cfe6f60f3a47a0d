------------------------------- MODULE ListWalk -------------------------------
(***************************************************************************)
(* A UI that pages through the history with List { offset, limit }, while   *)
(* the daemon (as ClipFeed promises it) goes on pushing and evicting rows   *)
(* between two pages.  The UI is subscribed: the EntryAdded events since    *)
(* the start of the walk are its other source of rows.                      *)
(***************************************************************************)
EXTENDS ClipFeed, FiniteSets

CONSTANTS
  MAX_LIST_LIMIT,   \* types.rs
  Limits            \* page lengths the UI asks for

ASSUME ListAssumption == MAX_LIST_LIMIT \in Nat \ {0} /\ Limits \subseteq Nat \ {0}

VARIABLES
  walk,      \* "idle", "walking" or "done"
  limit,     \* the page length of this walk
  offset,    \* rows received, which is where the next page starts
  got,       \* ids of the rows received, in order
  begun      \* how much had been broadcast and evicted when the walk began

walkVars == <<walk, limit, offset, got, begun>>
vars == <<feedVars, walkVars>>

\* Rows that have left the list.
Evicted == Len(feed) + (IF unsent THEN 1 ELSE 0) - Len(listed)

ListInit ==
  /\ Init
  /\ walk = "idle" /\ limit = 1 /\ offset = 0 /\ got = << >>
  /\ begun = [feed |-> 0, evicted |-> 0]

-----------------------------------------------------------------------------
(* list_snapshot.                                                           *)

\* Mutated form of clamp_limit: a limit that is too large lists nothing.
RejectLimit(l) == IF l <= MAX_LIST_LIMIT THEN l ELSE 0

clamp_limit(l) == IF l <= MAX_LIST_LIMIT THEN l ELSE MAX_LIST_LIMIT

\* skip(from).take(n)
Slice(rows, from, n) ==
  SubSeq(rows, from + 1, IF from + n <= Len(rows) THEN from + n ELSE Len(rows))

\* Mutated forms of list_snapshot: the first row is row 1; the total is that
\* of the page.
list_from_one(from, n) ==
  [total   |-> Len(listed),
   entries |-> Slice(listed, IF from > 0 THEN from - 1 ELSE 0, clamp_limit(n))]
list_page_total(from, n) ==
  LET entries == Slice(listed, from, clamp_limit(n))
  IN  [total |-> Len(entries), entries |-> entries]

list_snapshot(from, n) ==
  [total |-> Len(listed), entries |-> Slice(listed, from, clamp_limit(n))]

-----------------------------------------------------------------------------
(* The UI.                                                                  *)

StartWalk(l) ==
  /\ running /\ walk # "walking" /\ walk' = "walking"
  /\ limit' = l /\ offset' = 0 /\ got' = << >>
  /\ begun' = [feed |-> Len(feed), evicted |-> Evicted]
  /\ UNCHANGED feedVars

\* Ask for the next page and append it; the walk is over at the total.
NextPage ==
  /\ running /\ walk = "walking"
  /\ LET page == list_snapshot(offset, limit) IN
     /\ got' = got \o page.entries
     /\ offset' = offset + Len(page.entries)
     /\ walk' = IF offset' >= page.total THEN "done" ELSE "walking"
  /\ UNCHANGED <<feedVars, limit, begun>>

\* The daemon is gone; the UI keeps what it has.
Orphaned == ~running /\ ~unsent /\ UNCHANGED vars

ListNext ==
  \/ Next /\ UNCHANGED walkVars
  \/ \E l \in Limits : StartWalk(l)
  \/ NextPage \/ Orphaned

ListSpec == ListInit /\ [][ListNext]_vars

\* The UI asks on, and a socket task answers.
FairListSpec == ListSpec /\ WF_vars(NextPage)

-----------------------------------------------------------------------------
(* Properties.                                                              *)

\* Every variable has its type and the list respects MAX_HISTORY.
TypeOK ==
  /\ running \in BOOLEAN /\ access \in BOOLEAN /\ unsent \in BOOLEAN
  /\ listed \in Seq(RowIds) /\ Len(listed) <= MaxHistory /\ feed \in Seq(RowIds)
  /\ requests \in Seq(RowIds) /\ replies \in Seq([entry_id : RowIds, restored : BOOLEAN])
  /\ walk \in {"idle", "walking", "done"} /\ limit \in Nat \ {0} /\ offset \in Nat
  /\ got \in Seq(RowIds) /\ begun \in [feed : Nat, evicted : Nat]
  /\ offset = Len(got)

\* However rows are pushed and evicted between two pages, no row is received
\* twice, and rows arrive in the order they were copied.
NoRowTwice == \A i, j \in 1..Len(got) : i < j => got[i] < got[j]

\* Rows announced since the walk began.
Announced == {feed[i] : i \in (begun.feed + 1)..Len(feed)}

Rows(s) == {s[i] : i \in 1..Len(s)}

\* A walk skips a row that is still listed only because an eviction moved it
\* to an earlier page: at its end the UI lacks at most as many listed rows as
\* were evicted meanwhile.
SkipsOnlyByEviction ==
  walk = "done" =>
    LET known == Rows(got) \cup Announced \cup (IF unsent THEN {Last(listed)} ELSE {})
    IN  Cardinality(Rows(listed) \ known) <= Evicted - begun.evicted

\* A walk ends, whatever page length is asked for and however fast rows come.
WalkEnds == walk = "walking" ~> walk = "done" \/ ~running
==============================================================================

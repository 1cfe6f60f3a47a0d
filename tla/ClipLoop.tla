------------------------------- MODULE ClipLoop -------------------------------
(***************************************************************************)
(* The Wayland thread of uclip_daemon: `run_event_loop` with                *)
(* `drain_pending_reads`, the clipboard history, the snapshot and the       *)
(* broadcast it publishes to the socket tasks, restores, and the            *)
(* suppression of the echo a restore causes.                                *)
(*                                                                          *)
(* One iteration of the loop visits the phases                              *)
(*   dispatch -> send -> drain -> store -> publish (<-> notify) -> restore  *)
(* A copy is one selection offer with all its payloads; which payloads are  *)
(* requested and how they make one content is below this model's grain.     *)
(***************************************************************************)
EXTENDS ClipHistory

CONSTANTS
  Contents,      \* contents a history entry can have
  Preview,       \* Preview[c]: the one-line preview is_echo compares
  EchoOf,        \* EchoOf[c]: contents read back from our own offer of c
  EchoWindow,    \* ECHO_SUPPRESS_SECS, in ticks of the clock
  NoEcho,        \* expect_echo is None
  EchoServed,    \* TRUE when another client serves our announced selection
  MaxBurst,      \* bound: selections one dispatch can find waiting
  MaxIds,        \* bound: entries peers make the daemon store
  MaxPastes,     \* bound: pastes of our selection not served yet
  MaxRestores    \* bound: Restore requests the socket tasks send

ASSUME ContentAssumption ==
  /\ DOMAIN Preview = Contents
  /\ EchoOf \in [Contents -> SUBSET Contents]
  /\ EchoWindow \in Nat \ {0}
  /\ EchoServed \in BOOLEAN

ASSUME BoundAssumption ==
  MaxBurst \in Nat /\ MaxIds \in Nat /\ MaxPastes \in Nat /\ MaxRestores \in Nat

VARIABLES
  pc,          \* phase of the loop
  device,      \* state.device is Some
  inbox,       \* selections announced by the compositor, not dispatched
  pastes,      \* Send events of our sources, not dispatched
  writes,      \* Send handlers that this dispatch has still to run
  reads,       \* pending_reads, one element per offer
  grouped,     \* order/grouped: the offers read and not yet stored
  entries,     \* ClipState::entries
  nextId,      \* ClipState::next_id
  outcomes,    \* ids of the Stored outcomes still to be published
  snapshot,    \* ids of the rows of the shared snapshot
  feed,        \* ids of the EntryAdded events broadcast so far
  echo,        \* expect_echo
  requests,    \* the mpsc channel of PendingRestore: entry ids
  replies,     \* what the oneshot senders were given, in order
  outbox,      \* contents whose set_selection is not flushed
  selections   \* contents set by us that the compositor has not announced

netVars == <<device, inbox, pastes, writes, selections, outbox>>
histVars == <<entries, nextId>>
uiVars == <<snapshot, feed>>
rpcVars == <<requests, replies>>
vars == <<pc, netVars, reads, grouped, histVars, outcomes, uiVars, echo, rpcVars>>

\* A copy remembers whether it is our own selection announced back.
Copy == [content : Contents, own : BOOLEAN]
Entry == [id : Nat, content : Contents, own : BOOLEAN]

\* Some((at, preview)): age is at.elapsed(), content what was restored; the
\* preview compared is Preview[content].
Armed == [age : 0..EchoWindow, content : Contents]

ASSUME NoEchoAssumption == NoEcho \notin Armed

Phases == {"dispatch", "send", "drain", "store", "publish", "notify", "restore", "exited"}

Init ==
  /\ pc = "dispatch" /\ device = TRUE
  /\ inbox = << >> /\ pastes = 0 /\ writes = 0
  /\ reads = << >> /\ grouped = << >>
  /\ entries = << >> /\ nextId = 1 /\ outcomes = << >>
  /\ snapshot = << >> /\ feed = << >>
  /\ echo = NoEcho
  /\ requests = << >> /\ replies = << >>
  /\ outbox = << >> /\ selections = << >>

-----------------------------------------------------------------------------
(* The compositor, its other clients, the socket tasks and the clock.       *)

\* Another client copies c and the compositor announces its selection.
PeerCopy(c) ==
  /\ device /\ Len(inbox) < MaxBurst
  /\ nextId + Len(inbox) + Len(reads) + Len(grouped) <= MaxIds
  /\ inbox' = Append(inbox, [content |-> c, own |-> FALSE])
  /\ UNCHANGED <<pc, device, pastes, writes, selections, outbox, reads, grouped,
                 histVars, outcomes, uiVars, echo, rpcVars>>

\* The compositor announces our own selection to every client, us included.
AnnounceOwn ==
  /\ device /\ selections # << >> /\ Len(inbox) < MaxBurst
  /\ inbox' = Append(inbox, [content |-> Head(selections), own |-> TRUE])
  /\ selections' = Tail(selections)
  /\ UNCHANGED <<pc, device, pastes, writes, outbox, reads, grouped, histVars,
                 outcomes, uiVars, echo, rpcVars>>

\* Restores that succeeded.
Restored == {i \in 1..Len(replies) : replies[i].restored}

\* Another client pastes a selection of ours that the compositor knows of.
Paste ==
  /\ Len(outbox) < Cardinality(Restored)
  /\ pastes + writes < MaxPastes
  /\ pastes' = pastes + 1
  /\ UNCHANGED <<pc, device, inbox, writes, selections, outbox, reads, grouped,
                 histVars, outcomes, uiVars, echo, rpcVars>>

\* A socket task forwards a client's Restore of any id.
SendRestore(id) ==
  /\ pc # "exited"
  /\ Len(requests) + Len(replies) < MaxRestores
  /\ requests' = Append(requests, id)
  /\ UNCHANGED <<pc, netVars, reads, grouped, histVars, outcomes, uiVars,
                 echo, replies>>

\* Time passes for the armed flag; past the window all ages are alike.
Tick ==
  /\ echo # NoEcho /\ echo.age < EchoWindow
  /\ echo' = [echo EXCEPT !.age = @ + 1]
  /\ UNCHANGED <<pc, netVars, reads, grouped, histVars, outcomes, uiVars, rpcVars>>

-----------------------------------------------------------------------------
(* dispatch_pending: every waiting selection becomes a queued read, and     *)
(* every waiting Send is handled.  With Finished as its last event the      *)
(* batch revokes the device.                                                *)

Dispatch(revoked) ==
  /\ pc = "dispatch" /\ pc' = "send"
  /\ reads' = reads \o inbox /\ inbox' = << >>
  /\ writes' = pastes /\ pastes' = 0
  /\ device' = (device /\ ~revoked)
  /\ UNCHANGED <<selections, outbox, grouped, histVars, outcomes, uiVars, echo, rpcVars>>

\* The Send handler: a blocking write_all of the whole content.  It returns
\* when the reader has taken the data or closed its end, which is only logged.
WriteSelection ==
  /\ pc = "send" /\ writes > 0
  /\ writes' = writes - 1
  /\ UNCHANGED <<pc, device, inbox, pastes, selections, outbox, reads, grouped,
                 histVars, outcomes, uiVars, echo, rpcVars>>

SendDone ==
  /\ pc = "send" /\ writes = 0
  /\ pc' = "drain"
  /\ UNCHANGED <<netVars, reads, grouped, histVars, outcomes, uiVars, echo, rpcVars>>

\* An I/O error of dispatch, flush or poll leaves the loop and the process.
ConnectionLost ==
  /\ pc \in {"dispatch", "restore"}
  /\ pc = "restore" => requests = << >>
  /\ pc' = "exited"
  /\ UNCHANGED <<netVars, reads, grouped, histVars, outcomes, uiVars, echo, rpcVars>>

-----------------------------------------------------------------------------
(* drain_pending_reads, first loop: blocking reads.                         *)

\* Contents the head of the queue can deliver.  The Send handler that would
\* write to the pipe of our own offer runs on this thread, so unless another
\* client serves it that read never delivers anything.
Delivers(copy) ==
  IF copy.own THEN IF EchoServed THEN EchoOf[copy.content] ELSE {}
              ELSE {copy.content}

ReadCopy ==
  /\ pc = "drain" /\ reads # << >>
  /\ \E c \in Delivers(Head(reads)) :
       grouped' = Append(grouped, [content |-> c, own |-> Head(reads).own])
  /\ reads' = Tail(reads)
  /\ UNCHANGED <<pc, netVars, histVars, outcomes, uiVars, echo, rpcVars>>

\* Every payload of the offer is empty or fails: the source went away.
ReadNothing ==
  /\ pc = "drain" /\ reads # << >>
  /\ reads' = Tail(reads)
  /\ UNCHANGED <<pc, netVars, grouped, histVars, outcomes, uiVars, echo, rpcVars>>

DrainDone ==
  /\ pc = "drain" /\ reads = << >>
  /\ pc' = "store"
  /\ UNCHANGED <<netVars, reads, grouped, histVars, outcomes, uiVars, echo, rpcVars>>

(* drain_pending_reads, second loop: ClipState::add_grouped per offer.      *)

IgnoreDuplicate ==
  /\ pc = "store" /\ grouped # << >>
  /\ RepeatsLast(entries, Head(grouped).content)
  /\ grouped' = Tail(grouped)
  /\ UNCHANGED <<pc, netVars, reads, histVars, outcomes, uiVars, echo, rpcVars>>

StoreCopy ==
  /\ pc = "store" /\ grouped # << >>
  /\ ~RepeatsLast(entries, Head(grouped).content)
  /\ entries' = Push(entries, [id |-> nextId, content |-> Head(grouped).content,
                               own |-> Head(grouped).own])
  /\ nextId' = nextId + 1
  /\ outcomes' = Append(outcomes, nextId)
  /\ grouped' = Tail(grouped)
  /\ UNCHANGED <<pc, netVars, reads, uiVars, echo, rpcVars>>

StoreDone ==
  /\ pc = "store" /\ grouped = << >>
  /\ pc' = "publish"
  /\ UNCHANGED <<netVars, reads, grouped, histVars, outcomes, uiVars, echo, rpcVars>>

-----------------------------------------------------------------------------
(* run_event_loop: suppress or publish each stored entry.                   *)

\* expect_echo after the pruning at the top of each Stored outcome.
Pruned == IF echo # NoEcho /\ echo.age >= EchoWindow THEN NoEcho ELSE echo

IsEcho(content) == Pruned # NoEcho /\ Preview[Pruned.content] = Preview[content]

\* Mutated form of AfterEcho: the flag goes on matching.
StillArmed == Pruned

\* expect_echo once its echo is suppressed.
AfterEcho == NoEcho

\* Mutated form of SkipEvicted: the event does not depend on the lookup.
SkipEvictedNotifying ==
  /\ pc = "publish" /\ outcomes # << >>
  /\ ~Holds(entries, Head(outcomes))
  /\ echo' = Pruned /\ outcomes' = Tail(outcomes)
  /\ feed' = Append(feed, Head(outcomes))
  /\ UNCHANGED <<pc, netVars, reads, grouped, histVars, snapshot, rpcVars>>

\* A later copy of the same batch already evicted the entry.
SkipEvicted ==
  /\ pc = "publish" /\ outcomes # << >>
  /\ ~Holds(entries, Head(outcomes))
  /\ echo' = Pruned /\ outcomes' = Tail(outcomes)
  /\ UNCHANGED <<pc, netVars, reads, grouped, histVars, uiVars, rpcVars>>

SuppressEcho ==
  /\ pc = "publish" /\ outcomes # << >>
  /\ Holds(entries, Head(outcomes))
  /\ IsEcho(Lookup(entries, Head(outcomes)).content)
  /\ entries' = Without(entries, Head(outcomes))
  /\ echo' = AfterEcho /\ outcomes' = Tail(outcomes)
  /\ UNCHANGED <<pc, netVars, reads, grouped, nextId, uiVars, rpcVars>>

\* push_summary under the write lock; readers see the row from here on.
PublishRow ==
  /\ pc = "publish" /\ outcomes # << >>
  /\ Holds(entries, Head(outcomes))
  /\ ~IsEcho(Lookup(entries, Head(outcomes)).content)
  /\ echo' = Pruned
  /\ snapshot' = Push(snapshot, Head(outcomes))
  /\ pc' = "notify"
  /\ UNCHANGED <<netVars, reads, grouped, histVars, outcomes, feed, rpcVars>>

\* The lock is released; the EntryAdded broadcast follows.
Notify ==
  /\ pc = "notify" /\ pc' = "publish"
  /\ feed' = Append(feed, Head(outcomes))
  /\ outcomes' = Tail(outcomes)
  /\ UNCHANGED <<netVars, reads, grouped, histVars, snapshot, echo, rpcVars>>

PublishDone ==
  /\ pc = "publish" /\ outcomes = << >>
  /\ pc' = "restore"
  /\ UNCHANGED <<netVars, reads, grouped, histVars, outcomes, uiVars, echo, rpcVars>>

-----------------------------------------------------------------------------
(* The try_recv loop and handle_restore with restore_entry, then flush.     *)

RestoreEntry ==
  /\ pc = "restore" /\ requests # << >>
  /\ device /\ Holds(entries, Head(requests))
  /\ LET e == Lookup(entries, Head(requests))
     IN  /\ outbox' = Append(outbox, e.content)
         /\ echo' = [age |-> 0, content |-> e.content]
  /\ requests' = Tail(requests)
  /\ replies' = Append(replies, [entry_id |-> Head(requests), restored |-> TRUE])
  /\ UNCHANGED <<pc, device, inbox, pastes, writes, selections, reads, grouped,
                 histVars, outcomes, uiVars>>

\* Mutated form of RefuseRestore: the error path forgets the oneshot.
RefuseSilently ==
  /\ pc = "restore" /\ requests # << >>
  /\ ~(device /\ Holds(entries, Head(requests)))
  /\ requests' = Tail(requests)
  /\ UNCHANGED <<pc, netVars, reads, grouped, histVars, outcomes, uiVars, echo, replies>>

\* EntryNotFound or NoDevice: a typed error, expect_echo is left as it was.
RefuseRestore ==
  /\ pc = "restore" /\ requests # << >>
  /\ ~(device /\ Holds(entries, Head(requests)))
  /\ requests' = Tail(requests)
  /\ replies' = Append(replies, [entry_id |-> Head(requests), restored |-> FALSE])
  /\ UNCHANGED <<pc, netVars, reads, grouped, histVars, outcomes, uiVars, echo>>

\* flush, then poll; the next iteration starts at latest after the timeout.
Flush ==
  /\ pc = "restore" /\ requests = << >>
  /\ pc' = "dispatch"
  /\ selections' = selections \o outbox /\ outbox' = << >>
  /\ UNCHANGED <<device, inbox, pastes, writes, reads, grouped, histVars,
                 outcomes, uiVars, echo, rpcVars>>

\* The process is gone: run_event_loop returned an error to main.
Exited == pc = "exited" /\ UNCHANGED vars

-----------------------------------------------------------------------------
Store == IgnoreDuplicate \/ StoreCopy \/ StoreDone
Publish == SkipEvicted \/ SuppressEcho \/ PublishRow \/ Notify \/ PublishDone
Serve == RestoreEntry \/ RefuseRestore \/ Flush

\* What the thread does of itself, without another client at a pipe.
Proceed == Dispatch(FALSE) \/ SendDone \/ DrainDone \/ Store \/ Publish \/ Serve

\* What it does once another client has filled, emptied or closed a pipe.
Transfer == WriteSelection \/ ReadCopy \/ ReadNothing

Environment ==
  \/ \E c \in Contents : PeerCopy(c)
  \/ AnnounceOwn \/ Paste
  \/ \E id \in 1..MaxIds : SendRestore(id)
  \/ Tick

Next == Proceed \/ Transfer \/ Dispatch(TRUE) \/ ConnectionLost \/ Exited \/ Environment

Spec == Init /\ [][Next]_vars

\* The thread is scheduled.  Nothing is assumed of the clients at its pipes.
FairSpec == Spec /\ WF_vars(Proceed)

\* Other clients also read what they paste and write what they offer.
ServedSpec == FairSpec /\ WF_vars(WriteSelection) /\ WF_vars(ReadCopy)

-----------------------------------------------------------------------------
(* Properties.                                                              *)

\* Stored entries the snapshot does not show yet.
Unlisted == IF pc = "notify" THEN Tail(outcomes) ELSE outcomes

\* Every variable has its type, and both lists respect MAX_HISTORY.
TypeOK ==
  /\ pc \in Phases /\ device \in BOOLEAN
  /\ inbox \in Seq(Copy) /\ pastes \in Nat /\ writes \in Nat
  /\ reads \in Seq(Copy) /\ grouped \in Seq(Copy)
  /\ entries \in Seq(Entry) /\ Len(entries) <= MaxHistory
  /\ nextId \in Nat \ {0} /\ outcomes \in Seq(Nat)
  /\ snapshot \in Seq(Nat) /\ Len(snapshot) <= MaxHistory
  /\ feed \in Seq(Nat)
  /\ echo \in Armed \cup {NoEcho}
  /\ requests \in Seq(Nat) /\ replies \in Seq([entry_id : Nat, restored : BOOLEAN])
  /\ outbox \in Seq(Contents) /\ selections \in Seq(Contents)

\* Once a batch is published the history is exactly the tail of the snapshot:
\* no entry that can be restored is missing from List or out of its place.
HistoryListed ==
  Unlisted = << >> =>
    /\ Len(entries) <= Len(snapshot)
    /\ \A i \in 1..Len(entries) :
         entries[i].id = snapshot[Len(snapshot) - Len(entries) + i]

\* Suppressing an echo that evicted the oldest entry leaves that entry's row
\* behind; however often it happens, there is never more than one such row.
AtMostOneGhostRow == Unlisted = << >> => Len(snapshot) <= Len(entries) + 1

\* List and the EntryAdded pushes agree: the snapshot is what the broadcast so
\* far leaves after eviction, with the row that is about to be broadcast.  (A
\* client that lists just then gets that row twice, in the list and as an event.)
SnapshotReplaysFeed ==
  snapshot = KeepNewest(IF pc = "notify" THEN Append(feed, Head(outcomes)) ELSE feed)

\* Every stored copy is announced, except at most one per successful restore:
\* an armed flag swallows one entry and no more.
AtMostOneHiddenPerRestore ==
  MaxBurst <= MaxHistory =>
    (nextId - 1) - Len(feed) - Len(outcomes) <= Cardinality(Restored)

Feed == INSTANCE ClipFeed WITH
  RowIds <- 1..(MaxIds + MaxRestores),
  running <- pc # "exited",
  access <- device,
  listed <- snapshot,
  unsent <- pc = "notify"

\* The thread keeps the promise the socket tasks build on: rows are listed and
\* announced in the order of their ids, every answer agrees with the list at
\* that moment, and the only listed row it may refuse is the oldest of a full
\* list, after a restore.
ImplementsFeed == Feed!Spec

\* The thread waits for another client: it reads a pipe that is not closed, or
\* writes to one that is not emptied.
WaitsForPipe == (pc = "drain" /\ reads # << >>) \/ (pc = "send" /\ writes > 0)

\* The k-th Restore, once sent, has been asked for / has been dealt with.
Asked(k) == Len(requests) + Len(replies) >= k
Answered(k) == Len(replies) >= k \/ pc = "exited"

\* Unless the thread stays blocked on one pipe for good, every Restore it is
\* sent is answered or the process exits, whatever was restored, announced
\* back, revoked, copied and pasted before.
RestoreAnswered ==
  ~<>[]WaitsForPipe => \A k \in 1..MaxRestores : Asked(k) ~> Answered(k)

\* README: the Wayland thread picks every Restore up within ~100 ms.
RestorePickedUp == \A k \in 1..MaxRestores : Asked(k) ~> Answered(k)

\* README: the echo is dropped, so the UI never sees a phantom row.
NoPhantomRow == \A i \in 1..Len(entries) :
  entries[i].own => \A j \in 1..Len(feed) : feed[j] # entries[i].id
==============================================================================

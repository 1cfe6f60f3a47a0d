# Verification of uclip_daemon

TLA+ models of the clipboard daemon in `src/`, the TLC configurations that
check them on small instances, and TLAPS proofs about the core of the system.

## 1. The system

`uclip_daemon` watches the Wayland clipboard, keeps a history of what was
copied and serves it to UI clients over a Unix socket. Two worlds run side by
side: the *Wayland thread* (the main thread, `run_event_loop`) and the *socket
tasks* (`serve` and one `handle_client` per connection on a tokio runtime).

| Component (file) | State | Operations | Talks to |
|---|---|---|---|
| Event loop (`main.rs`) | `expect_echo` | dispatch, drain, suppress or publish, serve restores, flush, poll | everything below |
| Wayland objects (`clipboard/state.rs`, `clipboard/wayland/*`) | device, manager, offers and their cached types, current selection, owned source, queue of pipe reads | `DataOffer`, `Offer`, `Selection`, `Finished`, `Send`, `Cancelled`, `restore_entry` | the compositor |
| Reading (`clipboard/io.rs`) | none between calls | `drain_pending_reads`, `read_bounded` | pipes of other clients, the history |
| History (`clipboard/history.rs`) | `entries`, `next_id` | `add_grouped`, `remove`, `get` | event loop |
| Contents (`clipboard/history.rs`, `mime.rs`, `config.rs`) | none | `pick_mimes`, `from_blobs`, `preview`, `representations`, alias top-up | reading, restore |
| Snapshot (`daemon/snapshot.rs`) | rows behind an `RwLock` | `push_summary`, `list_snapshot` | written by the Wayland thread, read by tasks |
| IPC server (`daemon/server.rs`) | per connection: the line being read, `subscribed`, a broadcast receiver, the request in hand | accept, List, Restore, Ping, Subscribe, error replies, event delivery | snapshot (lock), mpsc channel of 32, oneshot per restore, broadcast ring of 64 |
| Wire types (`daemon/types.rs`) | none | conversions, `clamp_limit` | server |
| Boot (`main.rs`, `server.rs`) | the socket file | `bind`, `setup_connection`, shutdown | file system, compositor |
| Rendering (`display.rs`), errors (`error.rs`) | none | formatting | log |

What is hard here:

* **A restore comes back.** Restoring an entry makes the daemon the owner of
  the selection; the compositor announces that selection to the daemon like any
  other. The echo has to be recognised (by a one-line preview, within five
  seconds) and removed from a history that has already evicted for it.
* **Two copies of the list.** The history and the snapshot are cut to the same
  length by two loops at two moments, and clients reconstruct the snapshot from
  a listing and pushed events.
* **Blocking on others.** The Wayland thread reads pipes, and writes to the pipes
  of clients that paste, without a time limit; tasks wait for a bounded channel, then for an answer with a limit of five seconds.
* **Cancellation.** The select loop of a task abandons a `read_line` whenever
  an event arrives; a timed-out restore is abandoned while it is queued.
* **Moving offsets.** A UI pages through the list by offset while rows are
  pushed and evicted under it.
* **Names in the file system.** A socket file outlives its daemon, and every
  start unlinks whatever it finds there.
* **Random order.** The keys of a `HashMap` leak into contents that are compared.

What makes each component correct:

* Event loop and history: nothing stored is lost from the UI's view except
  what a restore may hide; what List shows can be restored; every restore is answered.
* Contents: a row shows the plain text if there is some; a restored entry
  pastes the bytes that were copied; an echo looks like what was restored.
* IPC server: every request gets its own answer with its id; a subscriber never
  misses a row unknowingly; a task ends with its client.
* Snapshot and paging: a walk through the list shows no row twice, skips none
  but by eviction, and ends.
* Boot: every start ends in the loop or in an error, and only for a reason that
  is there; a live daemon loses its name only to another start.
* Wayland objects: no proxy leaks, no event is applied to the wrong object, the
  caches stay small.

## 2. Modules

| Module | Models |
|---|---|
| `ClipHistory` | the two bounded lists: eviction, lookup, removal, the duplicate guard |
| `ClipLoop` | the Wayland thread: one action per step of an iteration, plus the compositor, clients and clock around it |
| `ClipFeed` | the contract between the Wayland thread and everything behind the socket: a list, an event per row, an answer per restore; `ClipLoop` implements it |
| `ListWalk` | `list_snapshot` and a UI that pages through the list, over that contract |
| `ClipContent` | pure operators: `pick_mimes`, `from_blobs`, `preview`, the row of an entry, alias top-up, `content_for` |
| `CopyTrip` | the life of one copy through those operators: offered, read, stored, restored, read back |
| `IpcServer` | `serve`, `handle_client`, channels, ring, clients |
| `WlObjects` | the Wayland objects of `AppState`, against a compositor with messages in flight both ways |
| `Boot` | `bind`, `setup_connection`, the registry and the ways a process ends, for several daemons on one path |
| `MCClipLoop`, `MCCopyTrip`, `MCWlObjects`, `MCIpcServer` | small instances (`ListWalk` and `Boot` need none: their cfg gives every constant) |
| `ClipHistoryProofs`, `ClipLoopProofs`, `ClipFeedProofs`, `ListWalkProofs`, `BootProofs`, `IpcServerProofs`, `WlObjectsProofs`, `CopyTripProofs` | lemmas and theorems |

How they fit together: `ClipLoop` is the thread in detail, and `ClipFeed` all
that the tasks rely on of it, with `ImplementsFeed` (checked and proved) between
the two. Everything on the other side of the channel can then be examined
against the contract instead of the thread: `ListWalk` extends it, and the
Wayland actions of `IpcServer` (push, broadcast, answer in order between two
rows, stop) are its steps with rows counted instead of listed.

### ClipLoop and the code

`pc` is the place in the loop body: `dispatch` (`dispatch_pending`, what it takes
from the queue), `send` (the `Send` handlers among it), `drain` and `store` (the two loops of `drain_pending_reads`), `publish` and `notify` (the
`for outcome` loop before and after the snapshot's lock is released), `restore`
(the `try_recv` loop, ending in flush and poll), `exited`. `inbox` is what the
compositor announced and the thread has not dispatched, `pastes` the `Send`
events not dispatched and `writes` those being handled, each a blocking
`write_all` (`WriteSelection`), `reads` the pending reads (one element per offer), `grouped` the offers read and not stored,
`outcomes` the `Stored` results not published, `entries`/`nextId` the
`ClipState`, `snapshot` and `feed` what tasks can see, `echo` the flag
`expect_echo`, `requests`/`replies` the two ends of a restore, `outbox` and
`selections` a `set_selection` before and after the flush.

Everything the thread does between two of these steps is invisible to others;
what others can do between them (copies, requests, time) is interleaved freely.
An entry remembers with `own` that it was read from the daemon's own offer. The
code has no such field and no action looks at it: it is there for the properties.

Three constants say what surrounds the thread. `EchoServed` says whether another
client (a second clipboard manager) serves the data of our re-announced offer;
alone, the daemon would have to serve it itself, and cannot: the `Send` event is
handled by the thread that is blocked in the read (`Delivers`). `EchoOf` and `Preview` give
what an entry reads back as and is shown as; `MCClipLoop` checks its values for
them against `ClipContent` before each run. All runs but `ClipLoopSelfRead`
take `EchoServed` to be true, so that the rest of the design can be examined.

The model also assumes that events reach the queue which `dispatch_pending`
empties. That is outside the repository: see "Noticed, not run" below.

### ClipFeed

`listed` is the snapshot, `feed` the events sent, `unsent` the moment between
`push_summary` and the broadcast, `requests` and `replies` the two ends of a
restore, `access` whether the device is still there. The refinement mapping in
`ClipLoop` maps each to a variable or to a condition on `pc`; everything else of
the thread (inbox, reads, history, echo flag) is hidden. The contract says what
the history cannot: a listed row may be refused only when the list is full, the
row is its oldest and some restore has succeeded (`Ghost`). That is the row left
behind when a suppressed echo evicts an entry.

### ListWalk

The UI is not in the repository, so it is the model's: it takes pages of a fixed
length from offset 0, each from where the last one ended, until it has as many
rows as the last reply's `total`, and it is subscribed meanwhile. A page is
taken between two steps of the thread, under the lock. `list_snapshot`, `Slice`
and `clamp_limit` are the functions of the code.

### Boot

`pc` is the place in `main`: `unlink` and `bind` are two system calls of the
function `bind`, `connect` is `connect_to_env`, `first` and `second` are the two
roundtrips, `check` the two tests after them, `loop` the event loop. Files are
numbered as they are bound: `path` is the one the name leads to, `listener` the
one a process accepts on. The path is `bind`'s only shared state, so a process
at `unlink` may be overtaken by all of another one's steps. `outcome` keeps how
a start ended and is what the operator sees. The compositor sends the globals in
any order, answers a `sync` after what came before it, and may add or remove a
global at any moment; an event that is read along with the end of a roundtrip is
dispatched with it or later.

### ClipContent and CopyTrip

MIME types are the strings of `config.rs` and two representatives of the text
types it does not list; a payload is an abstract value with a first line, a
size and a truncated form. `blobs` is the map of the code. Two `TextData` are
equal exactly when their blobs and their `offered_mimes` order are, since every
other field is computed from the blobs, so a content is those two fields.
A row (`summary`) is kind, primary type, preview and the text flag; the
timestamp and the truncation to 200 characters are left out. What
depends on the order of `HashMap` keys (the order of unlisted text types, the
fallback payload of the aliases) is a set of possible results.

The code computes with loops and sorts; the model says what they leave, in a
form that can be reasoned about. `pick_mimes` pushes the types of one group
after another and truncates: `Priority` numbers the types in that order, and a
type is picked when fewer than `MAX_MIMES_PER_SELECTION` others come before it.
Its result is a set, since the order of the requests only decides in which order
pipes are read, into a map. `Rank` is the key `offered_mimes` is sorted by.
Reading our own offer back, the types come in the random order of a `HashMap`;
`pick_mimes` depends on that order only for unlisted text types, and with five
aliases ahead of these none is picked (without text there are none), so
`KeyOrder` fixes one.

### WlObjects

The variables of the thread are the fields of `AppState`: `offers` (types by
protocol id), `current_selection`, `pending_reads`, `current_source`, `device`.
An offer is an id and a serial number: the compositor takes a free id, used
before or not, and the proxies compare the object while the cache and the
grouping of reads use the id alone. Events go from the compositor through
`wire` (the socket) into `queue` (the event queue) between iterations only,
since nothing reads the socket inside `dispatch_pending`. `Poll` is the code's
flush and poll and moves nothing; `ReadEvents`, the step after it, is
wayland-client's and an assumption (see "Noticed, not run"). Each handler is an
action. Requests reach the compositor in order, and the model lets it see them
at any time from the moment they are made, flushed or not, which only adds
behaviours. An event for a destroyed source is still delivered, the worst case
for `take_source_if_active`. The compositor announces every selection to the
daemon, its own included, and announces mouse selections as well.

### IpcServer

A task is at `select`, `sending` (awaiting room in the channel), `waiting` (for
the oneshot, under the timeout) or `writing` (awaiting room in the socket);
these are its await points, and everything between two of them is one action.
`inq` and `out` are the two directions of the connection, `partial` says that
the abandoned or pending `read_line` had consumed the first piece of a line,
`cursor` is the position of the task's broadcast receiver. An answer given to a
oneshot whose receiver was dropped goes nowhere (`Listens`).

A line is a request or one of `Unparsable` (an id, but no request), `Oversized`
and `NotUtf8`; any of them can arrive in two pieces, and the second piece of a
line whose first was dropped is a `Remnant`. `read_line` fails on a line that is
not UTF-8, and `handle_client` then closes the connection of a client that is
still there without a reply (`HandleNotUtf8`); it also fails when a client that
left has reset the connection (`HandleReadError`). `n` in a message says which
line it answers, `Id` which id it carries: none for `TooLong` and `Remnant`.

A `List` with its offset and limit gets the whole snapshot (`Entries`) or less
(`Page`); a UI has a view of the whole only from the first, and walks by pages
are `ListWalk`'s. Rows are numbered
by publication; the Wayland thread is reduced to pushing a row, broadcasting
it, answering a restore with yes or no, and dying, after which `main` returns
and drops the runtime with all its tasks.

## 3. Runs

| Run | Shows | Distinct states |
|---|---|---|
| `ClipLoop` | types and bounds of both lists; at most one row outlives its entry; a restore hides at most one stored copy; the thread implements `ClipFeed` | 292,212 |
| `ClipLoopBurst` | batches larger than the history: the history is the newest part of List, List is the replay of the pushed events, and each of two restores is answered unless the thread stays blocked on one pipe | 504,394 |
| `CopyTrip` | plain text is requested and shown; pastes are exact; echoes of plain text or of images alone are recognised; the same copy made again is not stored; a row tells what restoring it pastes | 468,677 |
| `WlObjects` | offers and their cached types are dropped except for the primary selection; reads grouped by id are of one offer; a stale `Cancelled` takes nothing; no gap between two selections | 1,067,249 |
| `IpcView` | a subscriber misses no row unknowingly, in any order of listing and subscribing, with torn request lines | 204,063 |
| `IpcRestore` | capacities respected; an answer never reaches another request, with timeouts and retries; a timed-out restore that is carried out late never overtakes a later one of its client | 152,985 |
| `IpcLive` | lines of every kind, each torn in two: every request is answered and a task ends after its client, but for two named exceptions | 353,549 |
| `ListWalk` | pages taken while rows are pushed and evicted: no row twice, none skipped but by eviction, and the walk ends | 106,626 |
| `Boot` | two daemons on one path: a stale socket blocks no start; a live daemon loses its name only to another start; boot misses no global that is there; every start ends | 222,708 |

Runs that are expected to find a violation, each of one statement that the
repository makes:

| Run | Statement | What happens |
|---|---|---|
| `ClipLoopPhantom` | `README.md:93`: no phantom row | an entry with an image reads back as text alone, where another client serves the re-announced offer |
| `ClipLoopSelfRead` | `README.md:85`: picked up within ~100 ms | the thread blocks reading its own offer |
| `IpcFragment` | `TESTING.md:65`: each reply has the id echoed | an event tears a request line in two |

### Noticed, not run

Reading the code for the models turned up more disagreements that no run shows:

* `main.rs:184` says the loop wakes for compositor events. It polls the fd and
  calls `dispatch_pending`, which in wayland-client 0.31 only dispatches what
  is queued; nothing in the loop reads the socket (`prepare_read`, `read`). The
  library is not part of the repository, and the model assumes the events arrive.
* `server.rs:211` promises a typed error and never a hung client. `send().await`
  on a full channel has no time limit, so a task waits there while the Wayland
  thread is blocked at a pipe. `EveryRequestAnswered` and `TaskReleased` are
  stated without the tasks for which this lasts (`Stalled`).
* A request line that is not UTF-8 gets no error reply: `handle_client` returns
  and the connection closes. `EveryRequestAnswered` names this exception too
  (`ClosedOnNotUtf8`); no document promises otherwise.
* A client that pastes a restored entry and does not read its pipe stops the
  daemon in `write_all` (`source.rs:24`), as one that does not close its pipe
  does in `read_to_end`. `RestoreAnswered` names both (`WaitsForPipe`).
* `TESTING.md:118` says the same text twice in a row pushes nothing. Two text
  types that `config.rs` does not list come in the order of a `HashMap`, which
  differs between the two copies; `SameCopyIgnored` is stated without that case.
* `state.rs:260` says the missing aliases get the primary text. With no plain
  type stored they get the value of an arbitrary key: an entry of HTML and an
  image can serve the image as `text/plain`. `EchoRecognised` excludes that case.
* `snapshot.rs:14` says the snapshot never diverges from `ClipState`. In a full
  history a suppressed echo has already evicted the oldest entry, whose row
  stays listed and can no longer be restored: `AtMostOneGhostRow` and
  `ClipFeed!Ghost` say how far the two can be apart.
* `ROADMAP.md:91` accepts the loss of "a byte-identical user copy". `is_echo`
  compares previews, so another text with the same first line is lost too;
  `AtMostOneHiddenPerRestore` bounds how often.
* `TESTING.md:55` explains "Address in use" by a stale socket. `bind` removes
  that file first (`StaleSocketNeverBlocks`): only a race between two starts can
  give this error. A second daemon started later silently takes over the path,
  and the first goes on without a name.
* `main.rs:197` says a UI that connects while the compositor is missing gets a
  typed error later. `setup_connection` fails, `main` returns and the runtime
  drops the task: the UI sees its connection close.
* `TESTING.md:53` explains "no wl_seat found" by a missing compositor. Without
  one `connect_to_env` fails before any seat is looked for.
* The repository's `README.md:75` says the cache of offered types cannot
  accumulate stale entries because reads drop them. An offer of the primary
  selection is cached as well (`device.rs:24`) and never read or dropped.

### Bounds

* `MaxHistory` is 1 or 2 (1000 in the code). Every eviction case needs a list
  that is full, one short of full or empty; the theorems hold for any value.
* `MaxBurst` bounds what one dispatch finds. `ClipLoopBurst` takes it above
  `MaxHistory`, which makes a copy be evicted before it is published.
* `MaxIds` and `MaxRestores` bound copies and requests: two restores are what
  an overwritten flag needs, three ids what an eviction after an echo needs.
  With two restores in `ClipLoopBurst` the second one can come while the echo of
  the first is announced, read, stored, suppressed or refused.
* `MaxPastes` bounds the pastes of our selection not served: one is what blocks
  the thread in `WriteSelection`. Only `ClipLoopBurst` has it above 0, since the
  other properties of `ClipLoop` do not depend on `pastes` and `writes`.
* `EchoWindow` counts ticks; the flag is fresh, or has expired, whatever its length.
* `RingCap` and `SockCap` are 1 (64 and the socket buffer in the code): each
  limit is reached with one element and passed with two. `ChannelCap` (32) is 1
  too, but 2 in `IpcRestore`, where the order of two queued restores matters.
* `MaxRequests` is 2 or 3 per client: a timeout, the retry and the request behind it.
* `MaxRows` is 3 over a ring of one: a row received, one overrun, one in the ring.
* `WlObjects` has two offer ids for four offers, so ids are used again, and two
  restores, so that one source is replaced. With all ids taken (mouse selections
  never give theirs back) the instance's compositor announces nothing more.
* `ListWalk`: a list of three, pages of at most two (`MAX_LIST_LIMIT` is 100 in
  the code) asked for with lengths 1 and 3, five ids: a page can be clamped, a
  walk can need three pages, and two evictions can fall between two of them. A
  length of 0 is legal in the code and lists nothing; no walk asks for it.
* `Boot`: two daemons, three bound files and one change of the globals, so that
  two starts race, one of them is killed, and a third finds what they left.
* Clients are interchangeable in `IpcServer` and `IpcRestore` uses the symmetry;
  the runs with temporal properties do not.

No run turns the deadlock check off. `Exited` and `Idle` are the two places
where the real system stops: the process has ended, or every client of the
instance has come and gone and the server waits for the next.

### Fairness

* `ClipLoop!FairSpec`: weak fairness of what the thread can do alone (`Proceed`).
  It is alone in its loop and the poll has a timeout, so an iteration goes on
  unless it is at a pipe. Nothing is assumed there: `RestoreAnswered` excludes
  the behaviours that stay at one pipe for good, and no others. Reads that fail,
  revocation and I/O errors are not relied on.
* `ClipLoop!ServedSpec`, of `ClipLoopSelfRead` alone, adds that other clients
  write what they offer and read what they paste, so that the counterexample is
  the thread's own doing.
* `IpcServer!TaskFairness`: weak fairness of each task's steps (the runtime
  polls every woken task), of the timer, and of clients reading what they were
  sent. Sending requests and disconnecting are never relied on, nor is a reset,
  nor anything of the Wayland thread (`FairSpec`): it may be blocked for good.
* `ListWalk!FairListSpec`: weak fairness of asking for the next page; that a task
  answers it is `EveryRequestAnswered`. Nothing is assumed of the pushes: a walk
  ends because the list is bounded and each page moves the offset on.
* `Boot!FairSpec`: weak fairness of a started process and of the compositor's
  answers. Failures and signals are not relied on.

## 4. Proofs

`ClipHistoryProofs` proves what the list operators return and preserve; the other
proof modules each prove the properties of the module they are named for, for
every value of its constants that satisfies its named assumptions:

| Assumption | Says |
|---|---|
| `MaxHistoryAssumption` | the history has room for at least one entry |
| `ContentAssumption`, `BoundAssumption`, `NoEchoAssumption` (`ClipLoop`) | the constants are of their kind; the disarmed flag is no armed one; the window is not empty |
| `FeedAssumption`, `ListAssumption` | ids are numbers; page lengths and their limit are positive |
| `BootAssumption` | the daemons are finitely many |
| `IpcAssumption` | each channel has room for at least one element |
| `ObjectAssumption` (`WlObjects`) | ids differ from the null id 0; the types are finitely many, and those requested are among them |
| `PayloadAssumption`, `OfferAssumption` (`CopyTrip`) | cutting a payload at the limit twice is cutting it once; an offer is a sequence of strings |

Every invariant that a passing run checks is a theorem, and so are the action
properties and the refinement:

| Theorem | Statement |
|---|---|
| `TypeCorrect` | `Spec => [](TypeOK /\ PhaseInv)` |
| `HistoryIsListed` | `Spec => []HistoryListed` |
| `GhostRowsBounded` | `Spec => []AtMostOneGhostRow` |
| `SnapshotIsReplay` | `Spec => []SnapshotReplaysFeed` |
| `HiddenBounded` | `Spec => []AtMostOneHiddenPerRestore` |
| `Implementation` (`ClipFeedProofs`) | `Spec => ImplementsFeed` |
| `ListTypes` (`ListWalkProofs`) | `ListSpec => []TypeOK` |
| `NoRowReceivedTwice` (`ListWalkProofs`) | `ListSpec => []NoRowTwice` |
| `WalkMissesOnlyEvicted` (`ListWalkProofs`) | `ListSpec => []SkipsOnlyByEviction` |
| `StaleSocketHarmless` (`BootProofs`) | `Spec => []StaleSocketNeverBlocks` |
| `NameIsKept` (`BootProofs`) | `Spec => NameKept` |
| `GlobalsFound` (`BootProofs`) | `Spec => []BootFindsGlobals` |
| `TypeCorrect` (`IpcServerProofs`) | `Spec => []TypeOK` |
| `RestoresInOrder` (`IpcServerProofs`) | `Spec => LateRestoreOrdered` |
| `AnswersOwn` (`IpcServerProofs`) | `Spec => []AnswersOwnRequest` |
| `ViewComplete` (`IpcServerProofs`) | `Spec => []CompleteView` |
| `TypeCorrect` (`WlObjectsProofs`) | `Spec => []TypeOK` |
| `SelectedOwned` (`WlObjectsProofs`) | `Spec => []SelectedSourceOwned` |
| `NeverGap` (`WlObjectsProofs`) | `Spec => NoSelectionGap` |
| `CacheWithOffers` (`WlObjectsProofs`) | `Spec => []CacheKept` |
| `OffersDestroyed` (`WlObjectsProofs`) | `Spec => []NoOfferLeak` |
| `OneOfferPerRead` (`WlObjectsProofs`) | `Spec => []ReadsOfOneOffer` |
| `PlainPreviewed` (`CopyTripProofs`) | `Spec => []PlainTextPreviewed` |
| `PasteExact` (`CopyTripProofs`) | `Spec => []PasteIsExact` |
| `EchoKnown` (`CopyTripProofs`) | `Spec => []EchoRecognised` |
| `SecondCopyIgnored` (`CopyTripProofs`) | `Spec => []SameCopyIgnored` |
| `RowTruthful` (`CopyTripProofs`) | `Spec => []RowTellsPaste` |
| `PipesBounded` (`CopyTripProofs`) | at most `MAX_MIMES_PER_SELECTION` types of any offer are picked |

### The Wayland thread

None of `ClipLoop`'s properties is inductive. The strengthening has these parts:

* `PhaseInv`: each phase leaves its work queue empty.
* `IdsInv`: ids are given out once and increase along both the history and the outcomes.
* `PendingInv`: the outcomes still held are the newest entries, in the same
  order. A lookup at publish time therefore misses only what was evicted.
* `ListedInv`: what is older than the pending outcomes is the tail of the
  snapshot. This is `HistoryListed` in the middle of a batch.
* `GhostInv`: the snapshot with the pending rows exceeds the history only when
  the history is full, or one short of full with the flag disarmed or nothing
  pending. Suppressing an echo of a full history creates the one ghost row and
  disarms the flag. Restoring again needs the next batch, and storing in it
  fills the history up before the next echo can be suppressed.
* `BurstInv` and `ConservationInv`: an armed flag is one successful restore that
  has hidden nothing yet; this is what bounds the hidden copies by the restores.

`ListStep` treats the actions that store, skip, suppress, publish and notify one
by one (`ListStore`, `ListSkip`, `ListSuppress`, `ListPublish`, `ListNotify`) and
the others together (`ListQuiet`).

The refinement (`ClipFeedProofs`) needs more of the thread than its list: that
the rows already listed, the pending outcomes and the ids still to be given out
are in this order (`OrderInv`, `IdBound`), and that a flag is armed only after a
successful restore (`UnarmedInv`). `HeldOrGhost` is the heart of it: a listed id
that the history does not hold is the first of a full list, from `ListedInv`
and `AtMostOneGhostRow`. `PublishImplements`, `NotifyImplements` and
`AnswerImplements` then show the three steps a client can see, `FeedSimulation`
that every other step stutters, sends, revokes or stops.

### Paging

`NoRowReceivedTwice` rests on `WalkInv`: the list is sorted, every row listed or
received has been announced or is about to be (so a new id is above them all),
and whatever lies beyond the offset is younger than everything received. The
last part is what an eviction keeps: it moves rows to the front, so a row beyond
the offset was beyond it before.

`WalkMissesOnlyEvicted` numbers all rows ever pushed (`Row`): the list is those
after the first `Evicted` ones (`PlaceInv`). A finished walk has received a page
up to number `Evicted + offset`, and each row it received has a number above
those evicted when it began. `FewSkipped` then counts: the offset is the number
of rows received, so the numbers not received among those still listed and not
announced are at most the evictions since the walk began (two injections).

### Boot

`StaleSocketHarmless` needs that between unlink and bind the path is empty or
somebody has bound in between (`RaceInv`); `NameIsKept` that a process before
its bind listens on nothing (`DeafInv`), so the unlinker is another daemon.

`GlobalsFound` rests on `RegistryInv`. A global that is there once the registry
has been asked for is found or announced on the wire (`ToldOk`); one that was
there when a sync was answered is found or announced *before* that answer
(`AnsweredOk`), so dispatching the answer leaves it found; and while a sync
is unanswered there is no answer on the wire (`StartOk`).

### IPC server

* `HandInv`: a request on its way to the Wayland thread has an id.
* `LineInv`: a client's lines arrive in the order of their ids, after the one its
  task has in hand. The head of a torn line shares its tail's id.
* `QueueInv`: what is queued or carried out was forwarded by its client's task
  and precedes what the task has in hand; the queue and the past are in order for each
  client. Only `ServeRestore` carries anything out, and takes the first.
* `AnswerInv`: a oneshot, a reply in hand and a message in the socket say
  "restored" only of what was carried out under their id; while the request
  is still being sent the oneshot is empty.
* `ViewInv`: the receiver dates from accept, and a UI that has listed has every
  row, or is being sent it, or has the cursor still before it; an `Entries`
  message on its way has all rows up to its time or later messages bring them.

### Wayland objects

* `SourceInv`: sources are created in order and asked for in order, so the
  sources asked for and not yet selected are the newest (`SourceOk`). A source
  the daemon has been told of as cancelled is neither selected nor asked for,
  and the one it owns is the newest. That the queue is reordered nowhere carries
  this through messages crossing on the socket.
* `GapInv`: a source whose destruction is requested has lost the selection, or a
  newer one is asked for earlier in the same stream.
* `NumberInv`: offers are numbered, and two that are alive never share an id.
* `OfferInv`: what an event is about is an offer still held; `Selection` is
  the last event about its offer. The current offer has no event to come, a held offer is current,
  awaits its `Selection`, or is of the primary selection; and a cached id is one of
  a held offer. `CacheKept` and `NoOfferLeak` are two of its conjuncts and hold
  only together with the others.
* `ReadInv`: the offers of pending reads and of queued events have different ids
  if they differ. Without it an id used again while its reads are pending
  would merge two copies; the loop drains before it reads the socket again.

### Contents

`TripInv` says that an entry is made of payloads that were read from the offer and
that source and echo come from it. The rest are lemmas about the operators:

* `LeastNumber` (from the well-foundedness of the naturals) and `MinProperties`
  give `IndexProperties` and `FirstInProperties`, the facts about positions.
* `PlainPicked`: fewer than four types can precede a plain one, so it survives
  the truncation; `ImagesPicked`: with no text all four images do.
  `PrioritiesDiffer` makes the priorities an injection, hence `PipesBounded`.
* `PrimaryProperties`: the first type in the order of preference that is there.
* `OneOrder`: two sorted orders of the same types agree when at most one type
  is unlisted, since the position of a type is the number of those below it
  (`SortedPlace`). This is where `SameCopyIgnored` gets its exception.
* `SourceKeeps`, `ReadTwice`: a restore changes no stored payload, and reading it
  back truncates what was already truncated.

### What stays with TLC

Liveness under fairness (`RestoreAnswered`, `EveryRequestAnswered`,
`TaskReleased`, `WalkEnds`, `BootEnds`) and `ENABLED` are beyond the prover. The
assumption of `MCClipLoop` that ties `EchoOf` and `Preview` to `ClipContent` is
evaluated for the four contents of that instance. The three statements
that the code violates are counterexamples, not theorems.

## 5. Not modelled

* The choice of the socket path (`XDG_RUNTIME_DIR` or `/tmp`) and the file's
  permissions: no state depends on them.
* The truncation of previews to 200 characters in a row: `is_echo` compares the
  preview before truncation.
* A poisoned snapshot lock: nothing can panic while it is held.
* `RecvError::Closed`: `serve` owns a sender as long as tasks exist.
* `ServerEvent::SelectionCleared`, which no code sends.
* Requests of the UI after its daemon is gone: a UI that reconnects is a new client.
* Rendering, logging, JSON.

Three hazards stay without a property. Whether events ever reach the queue
depends on a library that is not part of the repository. An echo that comes after
the window is published, which the code accepts. The same copy with two unlisted
text types can be stored twice, which it does: `SameCopyIgnored` leaves that case out.

## 6. Plan

1. Done: `ClipHistory`, `ClipLoop` and its theorems; `ClipFeed` and the proof
   that `ClipLoop` implements it; `ListWalk`, `Boot`, `ClipContent`, `CopyTrip`,
   `WlObjects`, `IpcServer`.
2. Done: a theorem for every safety property that a passing run checks.
3. Next: the Wayland actions of `IpcServer` as steps of `ClipFeed`, so that the
   tasks are examined against the contract that the thread is proved to keep.
4. The values of `EchoOf` that `ClipContent` allows, for any contents: an echo
   of text alone is text, an echo of images alone is the entry itself.

------------------------------ MODULE IpcServer ------------------------------
(***************************************************************************)
(* The socket side of uclip_daemon: `serve` and one `handle_client` task    *)
(* per connection, the bounded mpsc channel and the oneshots that carry a   *)
(* Restore to the Wayland thread and its answer back, the snapshot and the  *)
(* broadcast ring the Wayland thread publishes to, and the clients.         *)
(*                                                                          *)
(* Rows are numbered in the order they are published.  A listing is of the  *)
(* whole snapshot or of a page of it (walks by pages are in ListWalk); what *)
(* the Wayland thread does to serve a Restore is in ClipLoop, here it       *)
(* answers yes or no.                                                       *)
(***************************************************************************)
EXTENDS Naturals, Sequences, FiniteSets, SequencesExt

CONSTANTS
  Clients,
  Kinds,         \* which requests the clients send, a subset of AllKinds
  Fragmented,    \* TRUE when a request line can arrive in two pieces
  ChannelCap,    \* capacity of the PendingRestore mpsc channel (32)
  RingCap,       \* capacity of the broadcast ring (64)
  SockCap,       \* bound: messages a client's socket holds unread
  MaxRequests,   \* bound: requests per client
  MaxRows        \* bound: rows published

\* The last three are lines that are no request: not JSON of one, longer than
\* MAX_LINE_BYTES, not UTF-8.
AllKinds == {"List", "Restore", "Ping", "Subscribe", "Unparsable", "Oversized", "NotUtf8"}

ASSUME IpcAssumption ==
  /\ Kinds \subseteq AllKinds /\ Fragmented \in BOOLEAN
  /\ ChannelCap \in Nat \ {0} /\ RingCap \in Nat \ {0} /\ SockCap \in Nat \ {0}
  /\ MaxRequests \in Nat /\ MaxRows \in Nat

VARIABLES
  \* the clients
  up,          \* the client holds its end of the connection open
  eof,         \* it has finished sending
  asked,       \* requests it has sent: they carry the ids 1..asked[c]
  have,        \* rows its UI shows
  stale,       \* its UI has to (re-)list
  \* the connections
  inq,         \* pieces of request lines not read by the task
  out,         \* messages not read by the client
  \* the tasks
  task,        \* where handle_client is
  partial,     \* `line` holds the first piece of a request
  current,     \* the request in hand
  reply,       \* the message being written
  subscribed,
  cursor,      \* the next broadcast the task's Receiver returns
  answer,      \* what the oneshot of the request in hand holds
  \* the Wayland thread
  running,
  chan,        \* the mpsc channel
  executed,    \* Restore requests it carried out
  rows,        \* rows pushed to the snapshot
  sent         \* EntryAdded events broadcast

clientVars == <<up, eof, asked, have, stale>>
taskVars == <<task, partial, current, reply, subscribed, cursor, answer>>
wlVars == <<running, chan, executed, rows, sent>>
vars == <<clientVars, inq, out, taskVars, wlVars>>

Piece == [n : 1..MaxRequests, kind : AllKinds, part : {"all", "head", "tail"}]

\* n is the request the message answers (0: none); k is the number of listed
\* rows or the row announced.  Page lists less than the whole snapshot; TooLong
\* and Remnant are errors for a line whose id the task has not seen.
Message ==
  {m \in [type : {"Entries", "Page", "Restored", "Pong", "Subscribed", "Error",
                  "TooLong", "Remnant", "Lagged", "Event"},
          n : 0..MaxRequests, k : 0..MaxRows] :
     m.type = "Event" => m.k > 0}

Msg(type, n, k) == [type |-> type, n |-> n, k |-> k]

\* The id a message carries; 0 is the empty one.
Id(m) == IF m.type \in {"TooLong", "Remnant"} THEN 0 ELSE m.n

Init ==
  /\ up = [c \in Clients |-> TRUE] /\ eof = [c \in Clients |-> FALSE]
  /\ asked = [c \in Clients |-> 0]
  /\ have = [c \in Clients |-> {}] /\ stale = [c \in Clients |-> TRUE]
  /\ inq = [c \in Clients |-> << >>] /\ out = [c \in Clients |-> << >>]
  /\ task = [c \in Clients |-> "unborn"]
  /\ partial = [c \in Clients |-> FALSE] /\ current = [c \in Clients |-> 0]
  /\ reply = [c \in Clients |-> Msg("Error", 0, 0)]
  /\ subscribed = [c \in Clients |-> FALSE] /\ cursor = [c \in Clients |-> 1]
  /\ answer = [c \in Clients |-> "empty"]
  /\ running = TRUE /\ chan = << >> /\ executed = {}
  /\ rows = 0 /\ sent = 0

-----------------------------------------------------------------------------
(* Clients.                                                                 *)

\* A client sends its next request line, pipelined if it likes.
Ask(c, kind) ==
  /\ up[c] /\ ~eof[c] /\ asked[c] < MaxRequests
  /\ LET piece(part) == [n |-> asked[c] + 1, kind |-> kind, part |-> part]
         line == IF Fragmented THEN <<piece("head"), piece("tail")>> ELSE <<piece("all")>>
     IN  inq' = [inq EXCEPT ![c] = @ \o line]
  /\ asked' = [asked EXCEPT ![c] = @ + 1]
  /\ UNCHANGED <<up, eof, have, stale, out, taskVars, wlVars>>

\* The client closes its sending half, as `echo ... | socat` does.
FinishSending(c) ==
  /\ up[c] /\ ~eof[c]
  /\ eof' = [eof EXCEPT ![c] = TRUE]
  /\ UNCHANGED <<up, asked, have, stale, inq, out, taskVars, wlVars>>

\* The client goes away with whatever it had not read.
Disconnect(c) ==
  /\ up[c]
  /\ up' = [up EXCEPT ![c] = FALSE] /\ eof' = [eof EXCEPT ![c] = TRUE]
  /\ out' = [out EXCEPT ![c] = << >>]
  /\ UNCHANGED <<asked, have, stale, inq, taskVars, wlVars>>

\* The client reads a message; a whole listing replaces its rows, an event
\* adds one, the lag notice tells it to list again.  It leaves pages aside.
Take(c) ==
  /\ up[c] /\ out[c] # << >>
  /\ LET m == Head(out[c]) IN
     /\ have' = [have EXCEPT ![c] = CASE m.type = "Entries" -> 1..m.k
                                      [] m.type = "Event" -> @ \cup {m.k}
                                      [] OTHER -> @]
     /\ stale' = [stale EXCEPT ![c] = CASE m.type = "Entries" -> FALSE
                                        [] m.type = "Lagged" -> TRUE
                                        [] OTHER -> @]
  /\ out' = [out EXCEPT ![c] = Tail(@)]
  /\ UNCHANGED <<up, eof, asked, inq, taskVars, wlVars>>

-----------------------------------------------------------------------------
(* serve and handle_client.                                                 *)

\* accept: the Receiver exists from here on, before any Subscribe.
Accept(c) ==
  /\ task[c] = "unborn"
  /\ task' = [task EXCEPT ![c] = "select"]
  /\ cursor' = [cursor EXCEPT ![c] = sent + 1]
  /\ UNCHANGED <<clientVars, inq, out, partial, current, reply, subscribed, answer, wlVars>>

\* read_line gets the first piece of a line and stays pending.
ReadHead(c) ==
  /\ task[c] = "select" /\ inq[c] # << >> /\ Head(inq[c]).part = "head"
  /\ partial' = [partial EXCEPT ![c] = TRUE]
  /\ inq' = [inq EXCEPT ![c] = Tail(@)]
  /\ UNCHANGED <<clientVars, out, task, current, reply, subscribed, cursor, answer, wlVars>>

\* read_line completes a line.
LineRead(c) ==
  /\ task[c] = "select" /\ inq[c] # << >> /\ Head(inq[c]).part # "head"
  /\ inq' = [inq EXCEPT ![c] = Tail(@)]
  /\ partial' = [partial EXCEPT ![c] = FALSE]

\* The line is the client's request, of one of these kinds.
RequestRead(c, kinds) ==
  /\ LineRead(c)
  /\ Head(inq[c]).kind \in kinds
  /\ Head(inq[c]).part = "tail" => partial[c]

Respond(c, m) ==
  /\ task' = [task EXCEPT ![c] = "writing"]
  /\ reply' = [reply EXCEPT ![c] = m]

\* The read lock is taken and released before the reply is written.  Offset
\* and limit of the request select every row or fewer.
HandleList(c) ==
  /\ RequestRead(c, {"List"})
  /\ \/ Respond(c, Msg("Entries", Head(inq[c]).n, rows))
     \/ rows > 0 /\ Respond(c, Msg("Page", Head(inq[c]).n, 0))
  /\ UNCHANGED <<clientVars, out, current, subscribed, cursor, answer, wlVars>>

HandlePing(c) ==
  /\ RequestRead(c, {"Ping"})
  /\ Respond(c, Msg("Pong", Head(inq[c]).n, 0))
  /\ UNCHANGED <<clientVars, out, current, subscribed, cursor, answer, wlVars>>

\* Mutated form of HandleSubscribe: the Receiver is created here.
SubscribeAfresh(c) ==
  /\ RequestRead(c, {"Subscribe"})
  /\ subscribed' = [subscribed EXCEPT ![c] = TRUE]
  /\ cursor' = [cursor EXCEPT ![c] = sent + 1]
  /\ Respond(c, Msg("Subscribed", Head(inq[c]).n, 0))
  /\ UNCHANGED <<clientVars, out, current, answer, wlVars>>

HandleSubscribe(c) ==
  /\ RequestRead(c, {"Subscribe"})
  /\ subscribed' = [subscribed EXCEPT ![c] = TRUE]
  /\ Respond(c, Msg("Subscribed", Head(inq[c]).n, 0))
  /\ UNCHANGED <<clientVars, out, current, cursor, answer, wlVars>>

\* Mutated form of HandleUnparsable: the parse error is only logged.
LogUnparsable(c) ==
  /\ RequestRead(c, {"Unparsable"})
  /\ UNCHANGED <<clientVars, out, task, current, reply, subscribed, cursor, answer, wlVars>>

\* A line that is no request but has an id gets an error with that id.
HandleUnparsable(c) ==
  /\ RequestRead(c, {"Unparsable"})
  /\ Respond(c, Msg("Error", Head(inq[c]).n, 0))
  /\ UNCHANGED <<clientVars, out, current, subscribed, cursor, answer, wlVars>>

\* More bytes than MAX_LINE_BYTES: the line is dropped, its id unseen.
HandleTooLong(c) ==
  /\ LineRead(c) /\ Head(inq[c]).kind = "Oversized"
  /\ Respond(c, Msg("TooLong", Head(inq[c]).n, 0))
  /\ UNCHANGED <<clientVars, out, current, subscribed, cursor, answer, wlVars>>

\* What is left of a line whose first piece was dropped is not JSON: an error
\* with the empty id.
HandleRemnant(c) ==
  /\ LineRead(c) /\ Head(inq[c]).part = "tail" /\ ~partial[c]
  /\ Respond(c, Msg("Remnant", Head(inq[c]).n, 0))
  /\ UNCHANGED <<clientVars, out, current, subscribed, cursor, answer, wlVars>>

\* Mutated form of HandleEof: an empty read is taken for an empty line.
IgnoreEof(c) ==
  /\ task[c] = "select" /\ inq[c] = << >> /\ eof[c]
  /\ UNCHANGED vars

\* read_line returns Ok(0).
HandleEof(c) ==
  /\ task[c] = "select" /\ inq[c] = << >> /\ eof[c]
  /\ task' = [task EXCEPT ![c] = "done"]
  /\ UNCHANGED <<clientVars, inq, out, partial, current, reply, subscribed, cursor,
                 answer, wlVars>>

\* read_line fails on a line that is not UTF-8: the connection of a live client
\* is closed without a reply.  The line stays in inq, where nobody reads again.
HandleNotUtf8(c) ==
  /\ task[c] = "select" /\ inq[c] # << >>
  /\ Head(inq[c]).part # "head" /\ Head(inq[c]).kind = "NotUtf8"
  /\ task' = [task EXCEPT ![c] = "done"]
  /\ UNCHANGED <<clientVars, inq, out, partial, current, reply, subscribed, cursor,
                 answer, wlVars>>

\* read_line fails: the client left with messages it had not read.
HandleReadError(c) ==
  /\ task[c] = "select" /\ ~up[c]
  /\ task' = [task EXCEPT ![c] = "done"]
  /\ UNCHANGED <<clientVars, inq, out, partial, current, reply, subscribed, cursor,
                 answer, wlVars>>

\* send_envelope / send_event: waits for room.
Write(c) ==
  /\ task[c] = "writing" /\ up[c] /\ Len(out[c]) < SockCap
  /\ out' = [out EXCEPT ![c] = Append(@, reply[c])]
  /\ task' = [task EXCEPT ![c] = "select"]
  /\ UNCHANGED <<clientVars, inq, partial, current, reply, subscribed, cursor, answer, wlVars>>

\* The client is gone: handle_client returns, unless the reply was the
\* best-effort one to a line that is too long.
WriteFails(c) ==
  /\ task[c] = "writing" /\ ~up[c]
  /\ task' = [task EXCEPT ![c] = IF reply[c].type = "TooLong" THEN "select" ELSE "done"]
  /\ UNCHANGED <<clientVars, inq, out, partial, current, reply, subscribed, cursor,
                 answer, wlVars>>

-----------------------------------------------------------------------------
(* The broadcast branch of the select: it wins over a read_line that is     *)
(* pending, whose future is dropped and whose line is cleared.              *)

Oldest == IF sent > RingCap THEN sent - RingCap + 1 ELSE 1

ReceiveEvent(c) ==
  /\ task[c] = "select" /\ subscribed[c]
  /\ Oldest <= cursor[c] /\ cursor[c] <= sent
  /\ cursor' = [cursor EXCEPT ![c] = @ + 1]
  /\ partial' = [partial EXCEPT ![c] = FALSE]
  /\ Respond(c, Msg("Event", 0, cursor[c]))
  /\ UNCHANGED <<clientVars, inq, out, current, subscribed, answer, wlVars>>

ReceiveLagged(c) ==
  /\ task[c] = "select" /\ subscribed[c]
  /\ cursor[c] < Oldest
  /\ cursor' = [cursor EXCEPT ![c] = Oldest]
  /\ partial' = [partial EXCEPT ![c] = FALSE]
  /\ Respond(c, Msg("Lagged", 0, 0))
  /\ UNCHANGED <<clientVars, inq, out, current, subscribed, answer, wlVars>>

-----------------------------------------------------------------------------
(* Restore: oneshot, bounded channel, timeout.                              *)

HandleRestore(c) ==
  /\ RequestRead(c, {"Restore"})
  /\ task' = [task EXCEPT ![c] = "sending"]
  /\ current' = [current EXCEPT ![c] = Head(inq[c]).n]
  /\ answer' = [answer EXCEPT ![c] = "empty"]
  /\ UNCHANGED <<clientVars, out, reply, subscribed, cursor, wlVars>>

\* Mutated form of RoomInChannel.
RoomForOneMore == Len(chan) <= ChannelCap

RoomInChannel == Len(chan) < ChannelCap

\* req_tx.send(..).await completes.
Forward(c) ==
  /\ task[c] = "sending" /\ running /\ RoomInChannel
  /\ chan' = Append(chan, [client |-> c, n |-> current[c]])
  /\ task' = [task EXCEPT ![c] = "waiting"]
  /\ UNCHANGED <<clientVars, inq, out, partial, current, reply, subscribed, cursor,
                 answer, running, executed, rows, sent>>

\* The receiver of the channel is gone: "daemon shutting down".
ForwardFails(c) ==
  /\ task[c] = "sending" /\ ~running
  /\ Respond(c, Msg("Error", current[c], 0))
  /\ UNCHANGED <<clientVars, inq, out, partial, current, subscribed, cursor, answer, wlVars>>

\* The oneshot resolves before the timeout.
Answered(c) ==
  /\ task[c] = "waiting" /\ answer[c] # "empty"
  /\ Respond(c, Msg(IF answer[c] = "restored" THEN "Restored" ELSE "Error", current[c], 0))
  /\ UNCHANGED <<clientVars, inq, out, partial, current, subscribed, cursor, answer, wlVars>>

\* RESTORE_TIMEOUT_SECS pass first; the oneshot is dropped with the future.
TimeOut(c) ==
  /\ task[c] = "waiting" /\ answer[c] = "empty"
  /\ Respond(c, Msg("Error", current[c], 0))
  /\ UNCHANGED <<clientVars, inq, out, partial, current, subscribed, cursor, answer, wlVars>>

-----------------------------------------------------------------------------
(* The Wayland thread, as the tasks see it.                                 *)

\* Mutated form of Listens: the oneshot is kept from one request to the next.
ListensAlways(p) == TRUE

\* The receiving half of this request's oneshot is still alive.
Listens(p) == task[p.client] = "waiting" /\ current[p.client] = p.n

\* Mutated form of ServeRestore: the newest request first.
ServeNewest(restored) ==
  /\ running /\ rows = sent /\ chan # << >>
  /\ executed' = IF restored THEN executed \cup {Last(chan)} ELSE executed
  /\ answer' = IF Listens(Last(chan))
               THEN [answer EXCEPT ![Last(chan).client] =
                       IF restored THEN "restored" ELSE "refused"]
               ELSE answer
  /\ chan' = Front(chan)
  /\ UNCHANGED <<clientVars, inq, out, task, partial, current, reply, subscribed,
                 cursor, running, rows, sent>>

\* handle_restore; the answer to a request nobody waits for is dropped.
ServeRestore(restored) ==
  /\ running /\ rows = sent /\ chan # << >>
  /\ LET p == Head(chan) IN
     /\ executed' = IF restored THEN executed \cup {p} ELSE executed
     /\ answer' = IF Listens(p)
                  THEN [answer EXCEPT ![p.client] = IF restored THEN "restored" ELSE "refused"]
                  ELSE answer
  /\ chan' = Tail(chan)
  /\ UNCHANGED <<clientVars, inq, out, task, partial, current, reply, subscribed,
                 cursor, running, rows, sent>>

\* push_summary, then the broadcast.
PushRow ==
  /\ running /\ rows = sent /\ rows < MaxRows
  /\ rows' = rows + 1
  /\ UNCHANGED <<clientVars, inq, out, taskVars, running, chan, executed, sent>>

Broadcast ==
  /\ running /\ sent < rows
  /\ sent' = sent + 1
  /\ UNCHANGED <<clientVars, inq, out, taskVars, running, chan, executed, rows>>

\* The thread fails: its end of the channel and the queued oneshots drop.
WaylandGone ==
  /\ running /\ running' = FALSE
  /\ chan' = << >>
  /\ answer' = [c \in Clients |->
                  IF \E i \in 1..Len(chan) : chan[i].client = c /\ Listens(chan[i])
                  THEN "gone" ELSE answer[c]]
  /\ UNCHANGED <<clientVars, inq, out, task, partial, current, reply, subscribed,
                 cursor, executed, rows, sent>>

\* main returns and drops the runtime, with every task at its await.
RuntimeDropped ==
  /\ ~running /\ \E c \in Clients : task[c] # "done"
  /\ task' = [c \in Clients |-> "done"]
  /\ UNCHANGED <<clientVars, inq, out, partial, current, reply, subscribed,
                 cursor, answer, wlVars>>

\* Every client of this instance has come and gone: accept waits for more.
Idle ==
  /\ \A c \in Clients : ~up[c] /\ task[c] = "done"
  /\ UNCHANGED vars

-----------------------------------------------------------------------------
Client(c) == \/ \E kind \in Kinds : Ask(c, kind)
             \/ FinishSending(c) \/ Disconnect(c) \/ Take(c)

HandleRequest(c) ==
  \/ ReadHead(c) \/ HandleList(c) \/ HandlePing(c) \/ HandleSubscribe(c)
  \/ HandleUnparsable(c) \/ HandleTooLong(c) \/ HandleRemnant(c) \/ HandleRestore(c)
  \/ HandleEof(c) \/ HandleNotUtf8(c)

Task(c) ==
  \/ Accept(c) \/ HandleRequest(c) \/ HandleReadError(c) \/ Write(c) \/ WriteFails(c)
  \/ ReceiveEvent(c) \/ ReceiveLagged(c)
  \/ Forward(c) \/ ForwardFails(c) \/ Answered(c) \/ TimeOut(c)

Wayland == Broadcast \/ \E restored \in BOOLEAN : ServeRestore(restored)

Next == (\E c \in Clients : Client(c) \/ Task(c)) \/ Wayland \/ PushRow \/ WaylandGone
        \/ RuntimeDropped \/ Idle

Spec == Init /\ [][Next]_vars

\* The runtime schedules every task, timers fire and clients read.  A reset is
\* never relied on: a client may leave with nothing unread.
TaskFairness ==
  \A c \in Clients :
    /\ WF_vars(Accept(c)) /\ WF_vars(HandleRequest(c)) /\ WF_vars(Write(c) \/ WriteFails(c))
    /\ WF_vars(Forward(c) \/ ForwardFails(c)) /\ WF_vars(Answered(c) \/ TimeOut(c))
    /\ WF_vars(Take(c))

\* Nothing is assumed of the Wayland thread: it may be blocked for good.
FairSpec == Spec /\ TaskFairness

-----------------------------------------------------------------------------
(* Properties.                                                              *)

Alive(c) == task[c] \notin {"unborn", "done"}

\* Messages written or being written for c that it has not read.
InTransit(c) ==
  {out[c][i] : i \in 1..Len(out[c])} \cup (IF task[c] = "writing" THEN {reply[c]} ELSE {})

\* Every variable has its type and the channels respect their capacities.
TypeOK ==
  /\ up \in [Clients -> BOOLEAN] /\ eof \in [Clients -> BOOLEAN]
  /\ asked \in [Clients -> 0..MaxRequests]
  /\ have \in [Clients -> SUBSET (1..MaxRows)] /\ stale \in [Clients -> BOOLEAN]
  /\ inq \in [Clients -> Seq(Piece)] /\ out \in [Clients -> Seq(Message)]
  /\ \A c \in Clients : Len(out[c]) <= SockCap
  /\ task \in [Clients -> {"unborn", "select", "sending", "waiting", "writing", "done"}]
  /\ partial \in [Clients -> BOOLEAN] /\ current \in [Clients -> 0..MaxRequests]
  /\ reply \in [Clients -> Message] /\ subscribed \in [Clients -> BOOLEAN]
  /\ cursor \in [Clients -> 1..(MaxRows + 1)]
  /\ answer \in [Clients -> {"empty", "restored", "refused", "gone"}]
  /\ running \in BOOLEAN
  /\ chan \in Seq([client : Clients, n : 1..MaxRequests]) /\ Len(chan) <= ChannelCap
  /\ executed \subseteq [client : Clients, n : 1..MaxRequests]
  /\ rows \in 0..MaxRows /\ sent \in 0..MaxRows /\ sent <= rows

\* A subscribed client that has listed once misses no row silently: a row it
\* does not show is on its way, still in the ring for it, or a lag notice is
\* on its way.  It holds whichever of List and Subscribe came first, because
\* the Receiver dates from accept and rows are pushed before they are sent.
CompleteView ==
  \A c \in Clients : Alive(c) /\ up[c] /\ subscribed[c] /\ ~stale[c] =>
    \A k \in 1..sent :
      \/ k \in have[c]
      \/ cursor[c] <= k
      \/ \E m \in InTransit(c) :
           m.type = "Lagged" \/ (m.type = "Event" /\ m.k = k)
                             \/ (m.type = "Entries" /\ m.k >= k)

\* A client is told Restored only for a request the Wayland thread carried
\* out: the late answer to a request that timed out never answers the next.
AnswersOwnRequest ==
  \A c \in Clients : \A m \in InTransit(c) :
    m.type = "Restored" => [client |-> c, n |-> m.n] \in executed

\* A restore whose client was told it timed out may still be carried out, but
\* never after one the same client asked for later: the selection ends up
\* being the client's last successful choice.
LateRestoreOrdered ==
  [][ \A p \in executed' \ executed : \A q \in executed :
        q.client = p.client => q.n < p.n ]_executed

\* Request n of c is on its way to the task or in its hands.
Unanswered(c, n) ==
  \/ \E i \in 1..Len(inq[c]) : inq[c][i].n = n
  \/ task[c] \in {"sending", "waiting"} /\ current[c] = n

\* The task waits in send(..).await: its timeout has not started.
Stalled(c) == task[c] = "sending" /\ running /\ ~RoomInChannel

\* The task has closed the connection on a line that is not UTF-8.
ClosedOnNotUtf8(c) ==
  task[c] = "done" /\ inq[c] # << >> /\ Head(inq[c]).kind = "NotUtf8"

\* Every request of a client that stays is answered in the end, whatever the
\* Wayland thread does: no error path of handle_client forgets the reply.  The
\* exceptions: a channel that stays full, which send awaits without a timeout,
\* a line that is not UTF-8, and the end of the daemon.
EveryRequestAnswered ==
  \A c \in Clients : ~<>[]Stalled(c) =>
    \A n \in 1..MaxRequests :
      Unanswered(c, n) ~> \/ ~up[c] \/ ~running \/ ClosedOnNotUtf8(c)
                         \/ \E m \in InTransit(c) : m.n = n

\* A client that leaves does not leave its task behind, wherever the task was
\* waiting, unless that is at a channel that stays full.
TaskReleased ==
  \A c \in Clients : ~<>[]Stalled(c) => (~up[c] ~> task[c] = "done")

\* TESTING.md: each reply is one line with the request's id echoed.
IdAlwaysEchoed == \A c \in Clients : \A m \in InTransit(c) : m.n > 0 => Id(m) = m.n
==============================================================================

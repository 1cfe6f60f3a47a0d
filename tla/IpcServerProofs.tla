--------------------------- MODULE IpcServerProofs ---------------------------
(***************************************************************************)
(* Proofs about IpcServer, for any number of clients, kinds of requests,    *)
(* capacities and bounds, with lines that arrive whole or in pieces.        *)
(***************************************************************************)
EXTENDS IpcServer, SequenceTheorems, TLAPS

\* A request that is on its way to the Wayland thread has an id.
HandInv == \A c \in Clients : task[c] \in {"sending", "waiting"} => current[c] > 0

TypeInv == TypeOK /\ HandInv

Pending == [client : Clients, n : 1..MaxRequests]

-----------------------------------------------------------------------------
(* Types.                                                                   *)

LEMMA QueueFacts ==
  ASSUME NEW T, NEW s \in Seq(T), s # << >>
  PROVE  /\ Head(s) \in T /\ Tail(s) \in Seq(T) /\ Head(s) = s[1]
         /\ Len(Tail(s)) = Len(s) - 1 /\ Len(s) \in Nat \ {0}
         /\ \A i \in 1..Len(Tail(s)) : i + 1 \in 1..Len(s) /\ Tail(s)[i] = s[i + 1]
  OBVIOUS

LEMMA QueueAppend ==
  ASSUME NEW T, NEW s \in Seq(T), s # << >>, NEW e \in T
  PROVE  /\ Append(s, e) # << >> /\ Head(Append(s, e)) = Head(s)
         /\ Tail(Append(s, e)) = Append(Tail(s), e)
<1>1. Append(s, e) \in Seq(T) /\ Len(Append(s, e)) = Len(s) + 1
  OBVIOUS
<1> QED BY <1>1, HeadTailAppend

LEMMA MessageTypes ==
  /\ \A n \in 0..MaxRequests, k \in 0..MaxRows :
       \A type \in {"Entries", "Page", "Restored", "Pong", "Subscribed", "Error",
                    "TooLong", "Remnant", "Lagged"} : Msg(type, n, k) \in Message
  /\ \A k \in 1..MaxRows : Msg("Event", 0, k) \in Message
  /\ 0 \in 0..MaxRequests /\ 0 \in 0..MaxRows
  BY IpcAssumption DEF Msg, Message

LEMMA TypeInit == Init => TypeInv
<1> SUFFICES ASSUME Init PROVE TypeInv
  OBVIOUS
<1>1. /\ Msg("Error", 0, 0) \in Message /\ 0 \in 0..MaxRequests /\ 0 \in 0..MaxRows
      /\ 1 \in 1..(MaxRows + 1)
  BY MessageTypes, IpcAssumption
<1>2. /\ << >> \in Seq(Piece) /\ << >> \in Seq(Message)
      /\ << >> \in Seq([client : Clients, n : 1..MaxRequests])
      /\ Len(<< >>) = 0
  OBVIOUS
<1>3. TypeOK
  BY <1>1, <1>2, IpcAssumption DEF Init, TypeOK
<1>4. HandInv
  BY DEF Init, HandInv
<1> QED BY <1>3, <1>4 DEF TypeInv

\* A client's step.
LEMMA TypeClient ==
  ASSUME TypeInv, NEW c \in Clients, Client(c)
  PROVE  TypeInv'
<1> USE DEF TypeInv
<1>1. ASSUME NEW kind \in Kinds, Ask(c, kind) PROVE TypeInv'
  <2> DEFINE piece(part) == [n |-> asked[c] + 1, kind |-> kind, part |-> part]
             line == IF Fragmented THEN <<piece("head"), piece("tail")>> ELSE <<piece("all")>>
  <2>1. asked[c] + 1 \in 1..MaxRequests /\ kind \in AllKinds
    BY <1>1, IpcAssumption DEF Ask, TypeOK
  <2>2. \A part \in {"all", "head", "tail"} : piece(part) \in Piece
    BY <2>1 DEF Piece
  <2>3. line \in Seq(Piece)
    BY <2>2
  <2>4. /\ inq' = [inq EXCEPT ![c] = @ \o line] /\ asked' = [asked EXCEPT ![c] = @ + 1]
        /\ UNCHANGED <<up, eof, have, stale, out, taskVars, wlVars>>
    BY <1>1 DEF Ask
  <2> HIDE DEF line
  <2>5. inq' \in [Clients -> Seq(Piece)] /\ asked' \in [Clients -> 0..MaxRequests]
    BY <2>1, <2>3, <2>4 DEF TypeOK
  <2>6. TypeOK'
    BY <2>4, <2>5 DEF TypeOK, taskVars, wlVars
  <2> QED BY <2>4, <2>6 DEF HandInv, taskVars
<1>2. CASE FinishSending(c)
  BY <1>2 DEF FinishSending, TypeOK, HandInv, taskVars, wlVars
<1>3. CASE Disconnect(c)
  <2>1. /\ up' = [up EXCEPT ![c] = FALSE] /\ eof' = [eof EXCEPT ![c] = TRUE]
        /\ out' = [out EXCEPT ![c] = << >>]
        /\ UNCHANGED <<asked, have, stale, inq, taskVars, wlVars>>
    BY <1>3 DEF Disconnect
  <2>2. /\ up' \in [Clients -> BOOLEAN] /\ eof' \in [Clients -> BOOLEAN]
        /\ out' \in [Clients -> Seq(Message)] /\ \A d \in Clients : Len(out'[d]) <= SockCap
    BY <2>1, IpcAssumption DEF TypeOK
  <2> QED BY <2>1, <2>2 DEF TypeOK, HandInv, taskVars, wlVars
<1>4. CASE Take(c)
  <2> DEFINE m == Head(out[c])
  <2>1. /\ out[c] # << >> /\ out' = [out EXCEPT ![c] = Tail(@)]
        /\ UNCHANGED <<up, eof, asked, inq, taskVars, wlVars>>
        /\ have' = [have EXCEPT ![c] = CASE m.type = "Entries" -> 1..m.k
                                         [] m.type = "Event" -> @ \cup {m.k}
                                         [] OTHER -> @]
        /\ stale' = [stale EXCEPT ![c] = CASE m.type = "Entries" -> FALSE
                                           [] m.type = "Lagged" -> TRUE
                                           [] OTHER -> @]
    BY <1>4 DEF Take
  <2>2. out[c] \in Seq(Message) /\ Len(out[c]) <= SockCap /\ SockCap \in Nat
    BY IpcAssumption DEF TypeOK
  <2>3. /\ m \in Message /\ Tail(out[c]) \in Seq(Message)
        /\ Len(Tail(out[c])) <= SockCap
    BY <2>1, <2>2, QueueFacts
  <2> HIDE DEF m
  <2>4. stale' \in [Clients -> BOOLEAN]
    BY <2>1 DEF TypeOK
  <2>5. have' \in [Clients -> SUBSET (1..MaxRows)]
    <3>1. CASE m.type = "Entries"
      <4>1. 1..m.k \in SUBSET (1..MaxRows)
        BY <2>3, IpcAssumption DEF Message
      <4>2. have' = [have EXCEPT ![c] = 1..m.k]
        BY <2>1, <3>1
      <4> QED BY <4>1, <4>2 DEF TypeOK
    <3>2. CASE m.type = "Event"
      <4>1. m.k \in 1..MaxRows
        BY <2>3, <3>2, IpcAssumption DEF Message
      <4>2. have' = [have EXCEPT ![c] = @ \cup {m.k}]
        BY <2>1, <3>2
      <4> QED BY <4>1, <4>2 DEF TypeOK
    <3>3. CASE m.type \notin {"Entries", "Event"}
      BY <2>1, <3>3 DEF TypeOK
    <3> QED BY <3>1, <3>2, <3>3
  <2>6. out' \in [Clients -> Seq(Message)] /\ \A d \in Clients : Len(out'[d]) <= SockCap
    BY <2>1, <2>3 DEF TypeOK
  <2> QED BY <2>1, <2>4, <2>5, <2>6 DEF TypeOK, HandInv, taskVars, wlVars
<1> QED BY <1>1, <1>2, <1>3, <1>4 DEF Client

LEMMA RespondTypes ==
  ASSUME TypeInv, NEW c \in Clients, NEW m \in Message, Respond(c, m)
  PROVE  /\ task' \in [Clients -> {"unborn", "select", "sending", "waiting", "writing", "done"}]
         /\ reply' \in [Clients -> Message]
         /\ task' = [task EXCEPT ![c] = "writing"] /\ reply' = [reply EXCEPT ![c] = m]
  BY DEF Respond, TypeInv, TypeOK

LEMMA LineTypes ==
  ASSUME TypeInv, NEW c \in Clients, inq[c] # << >>
  PROVE  /\ Head(inq[c]) \in Piece /\ Head(inq[c]).n \in 1..MaxRequests
         /\ Head(inq[c]).n \in 0..MaxRequests /\ Head(inq[c]).n > 0
         /\ [inq EXCEPT ![c] = Tail(@)] \in [Clients -> Seq(Piece)]
<1>1. inq[c] \in Seq(Piece) /\ inq \in [Clients -> Seq(Piece)]
  BY DEF TypeInv, TypeOK
<1>2. Head(inq[c]) \in Piece /\ Tail(inq[c]) \in Seq(Piece)
  BY <1>1, QueueFacts
<1>3. Head(inq[c]).n \in 1..MaxRequests
  BY <1>2 DEF Piece
<1> QED BY <1>1, <1>2, <1>3, IpcAssumption

\* A step that only reads a line and answers it.
LEMMA TypeReply ==
  ASSUME TypeInv, NEW c \in Clients, NEW m \in Message,
         LineRead(c), Respond(c, m),
         UNCHANGED <<clientVars, out, current, cursor, answer, wlVars>>,
         subscribed' \in [Clients -> BOOLEAN]
  PROVE  TypeInv'
<1>1. inq' \in [Clients -> Seq(Piece)] /\ partial' \in [Clients -> BOOLEAN]
  BY LineTypes DEF LineRead, TypeInv, TypeOK
<1>2. /\ task' \in [Clients -> {"unborn", "select", "sending", "waiting", "writing", "done"}]
      /\ reply' \in [Clients -> Message]
      /\ task' = [task EXCEPT ![c] = "writing"]
  BY RespondTypes
<1>3. TypeOK'
  BY <1>1, <1>2 DEF TypeInv, TypeOK, clientVars, wlVars
<1>4. HandInv'
  BY <1>2 DEF TypeInv, TypeOK, HandInv
<1> QED BY <1>3, <1>4 DEF TypeInv

\* A step of the task that only takes a message in hand.
LEMMA TypeRespond ==
  ASSUME TypeInv, NEW c \in Clients, NEW m \in Message, Respond(c, m),
         UNCHANGED <<clientVars, inq, out, current, subscribed, answer, wlVars>>,
         partial' \in [Clients -> BOOLEAN], cursor' \in [Clients -> 1..(MaxRows + 1)]
  PROVE  TypeInv'
<1>2. /\ task' \in [Clients -> {"unborn", "select", "sending", "waiting", "writing", "done"}]
      /\ reply' \in [Clients -> Message]
      /\ task' = [task EXCEPT ![c] = "writing"]
  BY RespondTypes
<1>3. TypeOK'
  BY <1>2 DEF TypeInv, TypeOK, clientVars, wlVars
<1>4. HandInv'
  BY <1>2 DEF TypeInv, TypeOK, HandInv
<1> QED BY <1>3, <1>4 DEF TypeInv

\* handle_client at its select, reading.
LEMMA TypeRequest ==
  ASSUME TypeInv, NEW c \in Clients, HandleRequest(c)
  PROVE  TypeInv'
<1> DEFINE p == Head(inq[c])
<1>0. 0 \in 0..MaxRows /\ 0 \in 0..MaxRequests /\ rows \in 0..MaxRows
  BY MessageTypes DEF TypeInv, TypeOK
<1>1. CASE ReadHead(c)
  <2>1. inq' \in [Clients -> Seq(Piece)] /\ partial' \in [Clients -> BOOLEAN]
    BY <1>1, LineTypes DEF ReadHead, TypeInv, TypeOK
  <2> QED BY <1>1, <2>1 DEF ReadHead, TypeInv, TypeOK, HandInv, clientVars, wlVars
<1>2. CASE HandleList(c)
  <2>1. LineRead(c) /\ inq[c] # << >>
    BY <1>2 DEF HandleList, RequestRead, LineRead
  <2>2. Msg("Entries", p.n, rows) \in Message /\ Msg("Page", p.n, 0) \in Message
    BY <2>1, <1>0, LineTypes, MessageTypes
  <2> QED BY <1>2, <2>1, <2>2, TypeReply DEF HandleList, TypeInv, TypeOK
<1>3. CASE HandlePing(c)
  <2>1. LineRead(c) /\ inq[c] # << >>
    BY <1>3 DEF HandlePing, RequestRead, LineRead
  <2>2. Msg("Pong", p.n, 0) \in Message
    BY <2>1, <1>0, LineTypes, MessageTypes
  <2> QED BY <1>3, <2>1, <2>2, TypeReply DEF HandlePing, TypeInv, TypeOK
<1>4. CASE HandleSubscribe(c)
  <2>1. LineRead(c) /\ inq[c] # << >>
    BY <1>4 DEF HandleSubscribe, RequestRead, LineRead
  <2>2. Msg("Subscribed", p.n, 0) \in Message
    BY <2>1, <1>0, LineTypes, MessageTypes
  <2> QED BY <1>4, <2>1, <2>2, TypeReply DEF HandleSubscribe, TypeInv, TypeOK
<1>5. CASE HandleUnparsable(c)
  <2>1. LineRead(c) /\ inq[c] # << >>
    BY <1>5 DEF HandleUnparsable, RequestRead, LineRead
  <2>2. Msg("Error", p.n, 0) \in Message
    BY <2>1, <1>0, LineTypes, MessageTypes
  <2> QED BY <1>5, <2>1, <2>2, TypeReply DEF HandleUnparsable, TypeInv, TypeOK
<1>6. CASE HandleTooLong(c)
  <2>1. LineRead(c) /\ inq[c] # << >>
    BY <1>6 DEF HandleTooLong, LineRead
  <2>2. Msg("TooLong", p.n, 0) \in Message
    BY <2>1, <1>0, LineTypes, MessageTypes
  <2> QED BY <1>6, <2>1, <2>2, TypeReply DEF HandleTooLong, TypeInv, TypeOK
<1>7. CASE HandleRemnant(c)
  <2>1. LineRead(c) /\ inq[c] # << >>
    BY <1>7 DEF HandleRemnant, LineRead
  <2>2. Msg("Remnant", p.n, 0) \in Message
    BY <2>1, <1>0, LineTypes, MessageTypes
  <2> QED BY <1>7, <2>1, <2>2, TypeReply DEF HandleRemnant, TypeInv, TypeOK
<1>8. CASE HandleRestore(c)
  <2>1. LineRead(c) /\ inq[c] # << >>
    BY <1>8 DEF HandleRestore, RequestRead, LineRead
  <2>2. inq' \in [Clients -> Seq(Piece)] /\ partial' \in [Clients -> BOOLEAN]
        /\ p.n \in 0..MaxRequests /\ p.n > 0
    BY <2>1, LineTypes DEF LineRead, TypeInv, TypeOK
  <2>3. /\ task' = [task EXCEPT ![c] = "sending"]
        /\ current' = [current EXCEPT ![c] = p.n]
        /\ answer' = [answer EXCEPT ![c] = "empty"]
        /\ UNCHANGED <<clientVars, out, reply, subscribed, cursor, wlVars>>
    BY <1>8 DEF HandleRestore
  <2> HIDE DEF p
  <2>4. TypeOK'
    BY <2>2, <2>3 DEF TypeInv, TypeOK, clientVars, wlVars
  <2>5. HandInv'
    BY <2>2, <2>3 DEF TypeInv, TypeOK, HandInv
  <2> QED BY <2>4, <2>5 DEF TypeInv
<1>9. CASE HandleEof(c) \/ HandleNotUtf8(c)
  BY <1>9 DEF HandleEof, HandleNotUtf8, TypeInv, TypeOK, HandInv, clientVars, wlVars
<1> QED BY <1>1, <1>2, <1>3, <1>4, <1>5, <1>6, <1>7, <1>8, <1>9 DEF HandleRequest

\* Any step of a task.
LEMMA TypeTask ==
  ASSUME TypeInv, NEW c \in Clients, Task(c)
  PROVE  TypeInv'
<1>0. /\ 0 \in 0..MaxRows /\ 0 \in 0..MaxRequests
      /\ current[c] \in 0..MaxRequests /\ cursor[c] \in 1..(MaxRows + 1)
      /\ rows \in Nat /\ sent \in Nat /\ sent <= MaxRows /\ MaxRows \in Nat
      /\ RingCap \in Nat \ {0} /\ ChannelCap \in Nat
      /\ partial \in [Clients -> BOOLEAN]
  BY MessageTypes, IpcAssumption DEF TypeInv, TypeOK
<1>1. CASE Accept(c)
  <2>1. sent + 1 \in 1..(MaxRows + 1)
    BY <1>0
  <2> QED BY <1>1, <2>1 DEF Accept, TypeInv, TypeOK, HandInv, clientVars, wlVars
<1>2. CASE HandleRequest(c)
  BY <1>2, TypeRequest
<1>3. CASE HandleReadError(c)
  BY <1>3 DEF HandleReadError, TypeInv, TypeOK, HandInv, clientVars, wlVars
<1>4. CASE Write(c)
  <2>1. /\ Len(out[c]) < SockCap
        /\ out' = [out EXCEPT ![c] = Append(@, reply[c])]
        /\ task' = [task EXCEPT ![c] = "select"]
        /\ UNCHANGED <<clientVars, inq, partial, current, reply, subscribed, cursor, answer,
                       wlVars>>
    BY <1>4 DEF Write
  <2>2. out[c] \in Seq(Message) /\ reply[c] \in Message /\ SockCap \in Nat
    BY IpcAssumption DEF TypeInv, TypeOK
  <2>3. Append(out[c], reply[c]) \in Seq(Message) /\ Len(Append(out[c], reply[c])) <= SockCap
    BY <2>1, <2>2
  <2>4. out' \in [Clients -> Seq(Message)] /\ \A d \in Clients : Len(out'[d]) <= SockCap
    BY <2>1, <2>3 DEF TypeInv, TypeOK
  <2> QED BY <2>1, <2>4 DEF TypeInv, TypeOK, HandInv, clientVars, wlVars
<1>5. CASE WriteFails(c)
  BY <1>5 DEF WriteFails, TypeInv, TypeOK, HandInv, clientVars, wlVars
<1>6. CASE ReceiveEvent(c)
  <2>1. /\ cursor[c] <= sent /\ cursor' = [cursor EXCEPT ![c] = @ + 1]
        /\ partial' = [partial EXCEPT ![c] = FALSE]
        /\ Respond(c, Msg("Event", 0, cursor[c]))
        /\ UNCHANGED <<clientVars, inq, out, current, subscribed, answer, wlVars>>
    BY <1>6 DEF ReceiveEvent
  <2>2. cursor[c] \in 1..MaxRows /\ cursor[c] + 1 \in 1..(MaxRows + 1)
    BY <1>0, <2>1
  <2>3. Msg("Event", 0, cursor[c]) \in Message
    BY <2>2, MessageTypes
  <2>4. partial' \in [Clients -> BOOLEAN] /\ cursor' \in [Clients -> 1..(MaxRows + 1)]
    BY <1>0, <2>1, <2>2 DEF TypeInv, TypeOK
  <2> QED BY <2>1, <2>3, <2>4, TypeRespond
<1>7. CASE ReceiveLagged(c)
  <2>1. /\ cursor' = [cursor EXCEPT ![c] = Oldest]
        /\ partial' = [partial EXCEPT ![c] = FALSE]
        /\ Respond(c, Msg("Lagged", 0, 0))
        /\ UNCHANGED <<clientVars, inq, out, current, subscribed, answer, wlVars>>
    BY <1>7 DEF ReceiveLagged
  <2>2. Oldest \in 1..(MaxRows + 1)
    BY <1>0 DEF Oldest
  <2>3. Msg("Lagged", 0, 0) \in Message
    BY <1>0, MessageTypes
  <2>4. partial' \in [Clients -> BOOLEAN] /\ cursor' \in [Clients -> 1..(MaxRows + 1)]
    BY <1>0, <2>1, <2>2 DEF TypeInv, TypeOK
  <2> QED BY <2>1, <2>3, <2>4, TypeRespond
<1>8. CASE Forward(c)
  <2> DEFINE p == [client |-> c, n |-> current[c]]
  <2>1. /\ task[c] = "sending" /\ Len(chan) < ChannelCap
        /\ chan' = Append(chan, p) /\ task' = [task EXCEPT ![c] = "waiting"]
        /\ UNCHANGED <<clientVars, inq, out, partial, current, reply, subscribed, cursor,
                       answer, running, executed, rows, sent>>
    BY <1>8 DEF Forward, RoomInChannel
  <2>2. current[c] > 0
    BY <2>1 DEF TypeInv, HandInv
  <2>3. p \in Pending /\ chan \in Seq(Pending)
    BY <1>0, <2>2, IpcAssumption DEF Pending, TypeInv, TypeOK
  <2> HIDE DEF p
  <2>4. chan' \in Seq(Pending) /\ Len(chan') <= ChannelCap
    BY <1>0, <2>1, <2>3
  <2>5. TypeOK'
    BY <2>1, <2>4 DEF TypeInv, TypeOK, Pending, clientVars
  <2>6. HandInv'
    BY <2>1, <2>2 DEF TypeInv, TypeOK, HandInv
  <2> QED BY <2>5, <2>6 DEF TypeInv
<1>9. CASE ForwardFails(c)
  <2>1. Msg("Error", current[c], 0) \in Message
    BY <1>0, MessageTypes
  <2> QED BY <1>9, <2>1, TypeRespond DEF ForwardFails, TypeInv, TypeOK
<1>10. CASE Answered(c)
  <2>1. Msg(IF answer[c] = "restored" THEN "Restored" ELSE "Error", current[c], 0) \in Message
    BY <1>0, MessageTypes
  <2> QED BY <1>10, <2>1, TypeRespond DEF Answered, TypeInv, TypeOK
<1>11. CASE TimeOut(c)
  <2>1. Msg("Error", current[c], 0) \in Message
    BY <1>0, MessageTypes
  <2> QED BY <1>11, <2>1, TypeRespond DEF TimeOut, TypeInv, TypeOK
<1> QED
  BY <1>1, <1>2, <1>3, <1>4, <1>5, <1>6, <1>7, <1>8, <1>9, <1>10, <1>11 DEF Task

\* The Wayland thread's steps.
LEMMA TypeServe ==
  ASSUME TypeInv, NEW restored \in BOOLEAN, ServeRestore(restored)
  PROVE  TypeInv'
<1> DEFINE p == Head(chan)
<1>1. chan \in Seq(Pending) /\ chan # << >> /\ ChannelCap \in Nat /\ Len(chan) <= ChannelCap
  BY IpcAssumption DEF Pending, TypeInv, TypeOK, ServeRestore
<1>2. p \in Pending /\ Tail(chan) \in Seq(Pending) /\ Len(Tail(chan)) <= ChannelCap
  BY <1>1, QueueFacts
<1>3. p.client \in Clients
  BY <1>2 DEF Pending
<1>4. /\ executed' = IF restored THEN executed \cup {p} ELSE executed
      /\ answer' = IF Listens(p)
                   THEN [answer EXCEPT ![p.client] = IF restored THEN "restored" ELSE "refused"]
                   ELSE answer
      /\ chan' = Tail(chan)
      /\ UNCHANGED <<clientVars, inq, out, task, partial, current, reply, subscribed,
                     cursor, running, rows, sent>>
  BY DEF ServeRestore
<1> HIDE DEF p
<1>5. executed' \subseteq Pending
  BY <1>2, <1>4 DEF TypeInv, TypeOK, Pending
<1>6. answer' \in [Clients -> {"empty", "restored", "refused", "gone"}]
  BY <1>3, <1>4 DEF TypeInv, TypeOK
<1>7. TypeOK'
  BY <1>2, <1>4, <1>5, <1>6 DEF TypeInv, TypeOK, Pending, clientVars
<1> QED BY <1>4, <1>7 DEF TypeInv, HandInv

LEMMA TypeRest ==
  ASSUME TypeInv, PushRow \/ Broadcast \/ WaylandGone \/ RuntimeDropped \/ Idle
                  \/ UNCHANGED vars
  PROVE  TypeInv'
<1>0. rows \in Nat /\ sent \in Nat /\ rows <= MaxRows /\ MaxRows \in Nat /\ ChannelCap \in Nat
  BY IpcAssumption DEF TypeInv, TypeOK
<1>1. CASE PushRow
  <2>1. rows' \in 0..MaxRows /\ sent' \in 0..MaxRows /\ sent' <= rows'
    BY <1>0, <1>1 DEF PushRow, TypeInv, TypeOK
  <2> QED BY <1>1, <2>1 DEF PushRow, TypeInv, TypeOK, HandInv, clientVars, taskVars
<1>2. CASE Broadcast
  <2>1. rows' \in 0..MaxRows /\ sent' \in 0..MaxRows /\ sent' <= rows'
    BY <1>0, <1>2 DEF Broadcast, TypeInv, TypeOK
  <2> QED BY <1>2, <2>1 DEF Broadcast, TypeInv, TypeOK, HandInv, clientVars, taskVars
<1>3. CASE WaylandGone
  <2>1. /\ chan' = << >> /\ running' = FALSE
        /\ answer' = [c \in Clients |->
                        IF \E i \in 1..Len(chan) : chan[i].client = c /\ Listens(chan[i])
                        THEN "gone" ELSE answer[c]]
        /\ UNCHANGED <<clientVars, inq, out, task, partial, current, reply, subscribed,
                       cursor, executed, rows, sent>>
    BY <1>3 DEF WaylandGone
  <2>2. answer' \in [Clients -> {"empty", "restored", "refused", "gone"}]
    BY <2>1 DEF TypeInv, TypeOK
  <2>3. chan' \in Seq([client : Clients, n : 1..MaxRequests]) /\ Len(chan') <= ChannelCap
    BY <1>0, <2>1
  <2> QED BY <2>1, <2>2, <2>3 DEF TypeInv, TypeOK, HandInv, clientVars
<1>4. CASE RuntimeDropped
  BY <1>4 DEF RuntimeDropped, TypeInv, TypeOK, HandInv, clientVars, wlVars
<1>5. CASE UNCHANGED vars
  BY <1>5 DEF vars, TypeInv, TypeOK, HandInv, clientVars, taskVars, wlVars
<1> QED BY <1>1, <1>2, <1>3, <1>4, <1>5 DEF Idle

LEMMA TypeStep == TypeInv /\ [Next]_vars => TypeInv'
  BY TypeClient, TypeTask, TypeServe, TypeRest DEF Next, Wayland

LEMMA TypeAlways == Spec => []TypeInv
  BY TypeInit, TypeStep, PTL DEF Spec

\* Types, and the two capacities: the mpsc channel never holds more than
\* ChannelCap requests, no socket more than its buffer.
THEOREM TypeCorrect == Spec => []TypeOK
<1>1. TypeInv => TypeOK
  BY DEF TypeInv
<1> QED BY TypeAlways, <1>1, PTL

-----------------------------------------------------------------------------
(* The order of a client's requests.                                        *)

\* The pieces q carry ids above lo and up to hi, and each complete line has an
\* id below those behind it.
Ordered(q, lo, hi) ==
  /\ \A i \in 1..Len(q) : lo < q[i].n /\ q[i].n <= hi
  /\ \A i, j \in 1..Len(q) : i < j /\ q[i].part # "head" => q[i].n < q[j].n

\* The lines of a client arrive in the order of their ids, after the request
\* its task has in hand.
LineInv ==
  \A c \in Clients :
    current[c] <= asked[c] /\ Ordered(inq[c], current[c], asked[c])

LEMMA OrderedTail ==
  ASSUME NEW q \in Seq(Piece), q # << >>, NEW lo \in Nat, NEW hi \in Nat, Ordered(q, lo, hi)
  PROVE  /\ lo < Head(q).n /\ Head(q).n <= hi
         /\ Ordered(Tail(q), lo, hi)
         /\ Head(q).part # "head" => Ordered(Tail(q), Head(q).n, hi)
<1>1. /\ Head(q) = q[1] /\ 1 \in 1..Len(q)
      /\ \A i \in 1..Len(Tail(q)) : i + 1 \in 1..Len(q) /\ Tail(q)[i] = q[i + 1]
      /\ Len(Tail(q)) \in Nat /\ Len(q) \in Nat
  BY QueueFacts
<1>2. /\ \A i \in 1..Len(q) : lo < q[i].n /\ q[i].n <= hi
      /\ \A i, j \in 1..Len(q) : i < j /\ q[i].part # "head" => q[i].n < q[j].n
  BY DEF Ordered
<1>3. \A i \in 1..Len(Tail(q)) : /\ lo < Tail(q)[i].n /\ Tail(q)[i].n <= hi
                                /\ q[1].part # "head" => q[1].n < Tail(q)[i].n
  BY <1>1, <1>2
<1>4. \A i, j \in 1..Len(Tail(q)) :
        i < j /\ Tail(q)[i].part # "head" => Tail(q)[i].n < Tail(q)[j].n
  BY <1>1, <1>2
<1> QED BY <1>1, <1>2, <1>3, <1>4 DEF Ordered

LEMMA OrderedAsk ==
  ASSUME NEW q \in Seq(Piece), NEW lo \in Nat, NEW hi \in Nat, lo <= hi, Ordered(q, lo, hi),
         NEW line \in Seq(Piece),
         \A i \in 1..Len(line) : line[i].n = hi + 1,
         \A i, j \in 1..Len(line) : i < j => line[i].part = "head"
  PROVE  Ordered(q \o line, lo, hi + 1)
<1> DEFINE r == q \o line
<1>1. /\ Len(q) \in Nat /\ Len(line) \in Nat /\ Len(r) = Len(q) + Len(line)
      /\ \A i \in 1..Len(r) : r[i] = IF i <= Len(q) THEN q[i] ELSE line[i - Len(q)]
  OBVIOUS
<1>0. \A i \in 1..Len(q) : q[i].n \in Nat
  <2>1. \A i \in 1..Len(q) : q[i] \in Piece
    OBVIOUS
  <2> QED BY <2>1, IpcAssumption DEF Piece
<1> HIDE DEF r
<1>2. /\ \A i \in 1..Len(q) : lo < q[i].n /\ q[i].n <= hi
      /\ \A i, j \in 1..Len(q) : i < j /\ q[i].part # "head" => q[i].n < q[j].n
  BY DEF Ordered
<1>3. ASSUME NEW i \in 1..Len(r)
      PROVE  lo < r[i].n /\ r[i].n <= hi + 1
  <2>1. CASE i <= Len(q)
    BY <1>0, <1>1, <1>2, <2>1
  <2>2. CASE i > Len(q)
    BY <1>1, <2>2, SMTT(30)
  <2> QED BY <1>1, <2>1, <2>2
<1>4. ASSUME NEW i \in 1..Len(r), NEW j \in 1..Len(r), i < j, r[i].part # "head"
      PROVE  r[i].n < r[j].n
  <2>1. CASE j <= Len(q)
    BY <1>1, <1>2, <1>4, <2>1
  <2>2. CASE i <= Len(q) /\ j > Len(q)
    BY <1>0, <1>1, <1>2, <2>2
  <2>3. CASE i > Len(q)
    <3>1. /\ i - Len(q) \in 1..Len(line) /\ j - Len(q) \in 1..Len(line)
          /\ i - Len(q) < j - Len(q) /\ r[i] = line[i - Len(q)]
      BY <1>1, <1>4, <2>3
    <3> QED BY <1>4, <3>1
  <2> QED BY <1>1, <2>1, <2>2, <2>3
<1> QED BY <1>3, <1>4 DEF Ordered, r

LEMMA LineInit == Init => LineInv
  BY DEF Init, LineInv, Ordered

\* Reading a piece keeps the order; a Restore read from a complete line has a
\* newer id than the one before.
LEMMA LineTaken ==
  ASSUME TypeInv, LineInv, NEW c \in Clients, inq[c] # << >>,
         inq' = [inq EXCEPT ![c] = Tail(@)], asked' = asked,
         \/ current' = current
         \/ /\ Head(inq[c]).part # "head"
            /\ current' = [current EXCEPT ![c] = Head(inq[c]).n]
  PROVE  LineInv'
<1> SUFFICES ASSUME NEW d \in Clients
             PROVE  current'[d] <= asked'[d] /\ Ordered(inq'[d], current'[d], asked'[d])
  BY DEF LineInv
<1>1. /\ inq \in [Clients -> Seq(Piece)] /\ current \in [Clients -> 0..MaxRequests]
      /\ asked \in [Clients -> 0..MaxRequests]
  BY DEF TypeInv, TypeOK
<1>2. current[d] <= asked[d] /\ Ordered(inq[d], current[d], asked[d])
  BY DEF LineInv
<1>3. CASE d = c
  <2>1. inq[c] \in Seq(Piece) /\ current[c] \in Nat /\ asked[c] \in Nat
    BY <1>1, IpcAssumption
  <2>2. /\ current[c] < Head(inq[c]).n /\ Head(inq[c]).n <= asked[c]
        /\ Ordered(Tail(inq[c]), current[c], asked[c])
        /\ Head(inq[c]).part # "head" => Ordered(Tail(inq[c]), Head(inq[c]).n, asked[c])
    BY <1>2, <1>3, <2>1, OrderedTail
  <2>3. inq'[c] = Tail(inq[c]) /\ asked'[c] = asked[c]
    BY <1>1
  <2>4. current'[c] = current[c]
        \/ (Head(inq[c]).part # "head" /\ current'[c] = Head(inq[c]).n)
    BY <1>1
  <2> QED BY <1>2, <1>3, <2>2, <2>3, <2>4
<1>4. CASE d # c
  BY <1>1, <1>2, <1>4
<1> QED BY <1>3, <1>4

LEMMA LineAsk ==
  ASSUME TypeInv, LineInv, NEW c \in Clients, NEW kind \in Kinds, Ask(c, kind)
  PROVE  LineInv'
<1> DEFINE piece(part) == [n |-> asked[c] + 1, kind |-> kind, part |-> part]
           line == IF Fragmented THEN <<piece("head"), piece("tail")>> ELSE <<piece("all")>>
<1>1. /\ inq \in [Clients -> Seq(Piece)] /\ current \in [Clients -> 0..MaxRequests]
      /\ asked \in [Clients -> 0..MaxRequests]
  BY DEF TypeInv, TypeOK
<1>2. /\ asked[c] + 1 \in 1..MaxRequests /\ kind \in AllKinds
      /\ inq' = [inq EXCEPT ![c] = @ \o line] /\ asked' = [asked EXCEPT ![c] = @ + 1]
      /\ current' = current
  BY <1>1, IpcAssumption DEF Ask, taskVars
<1>3. \A part \in {"all", "head", "tail"} : piece(part) \in Piece
  BY <1>2 DEF Piece
<1>4. /\ line \in Seq(Piece)
      /\ \A i \in 1..Len(line) : line[i].n = asked[c] + 1
      /\ \A i, j \in 1..Len(line) : i < j => line[i].part = "head"
  BY <1>3
<1> HIDE DEF line
<1>5. current[c] <= asked[c] /\ Ordered(inq[c], current[c], asked[c])
  BY DEF LineInv
<1>6. inq[c] \in Seq(Piece) /\ current[c] \in Nat /\ asked[c] \in Nat
  BY <1>1, IpcAssumption
<1>7. Ordered(inq[c] \o line, current[c], asked[c] + 1)
  BY <1>4, <1>5, <1>6, OrderedAsk
<1>8. \A d \in Clients \ {c} : inq'[d] = inq[d] /\ asked'[d] = asked[d]
  BY <1>1, <1>2
<1>9. inq'[c] = inq[c] \o line /\ asked'[c] = asked[c] + 1
  BY <1>1, <1>2
<1>10. current[c] <= asked[c] + 1
  BY <1>5, <1>6
<1>11. ASSUME NEW d \in Clients
       PROVE  current'[d] <= asked'[d] /\ Ordered(inq'[d], current'[d], asked'[d])
  <2>1. CASE d = c
    BY <1>2, <1>7, <1>9, <1>10, <2>1
  <2>2. CASE d # c
    BY <1>2, <1>8, <2>2 DEF LineInv
  <2> QED BY <2>1, <2>2
<1> QED BY <1>11 DEF LineInv

LEMMA LineStep == TypeInv /\ LineInv /\ [Next]_vars => LineInv'
<1> SUFFICES ASSUME TypeInv, LineInv, [Next]_vars PROVE LineInv'
  OBVIOUS
<1>0. ASSUME UNCHANGED <<inq, asked, current>> PROVE LineInv'
  BY <1>0 DEF LineInv
<1>1. ASSUME NEW c \in Clients, Client(c) PROVE LineInv'
  <2>1. ASSUME NEW kind \in Kinds, Ask(c, kind) PROVE LineInv'
    BY <2>1, LineAsk
  <2>2. CASE FinishSending(c) \/ Disconnect(c) \/ Take(c)
    BY <1>0, <2>2 DEF FinishSending, Disconnect, Take, taskVars
  <2> QED BY <1>1, <2>1, <2>2 DEF Client
<1>2. ASSUME NEW c \in Clients, HandleRequest(c) PROVE LineInv'
  <2>1. CASE ReadHead(c)
    BY <2>1, LineTaken DEF ReadHead, clientVars
  <2>2. CASE HandleList(c) \/ HandlePing(c) \/ HandleSubscribe(c) \/ HandleUnparsable(c)
    BY <2>2, LineTaken DEF HandleList, HandlePing, HandleSubscribe, HandleUnparsable,
                           RequestRead, LineRead, clientVars
  <2>3. CASE HandleTooLong(c) \/ HandleRemnant(c)
    BY <2>3, LineTaken DEF HandleTooLong, HandleRemnant, LineRead, clientVars
  <2>4. CASE HandleRestore(c)
    BY <2>4, LineTaken DEF HandleRestore, RequestRead, LineRead, clientVars
  <2>5. CASE HandleEof(c) \/ HandleNotUtf8(c)
    BY <1>0, <2>5 DEF HandleEof, HandleNotUtf8, clientVars
  <2> QED BY <1>2, <2>1, <2>2, <2>3, <2>4, <2>5 DEF HandleRequest
<1>3. ASSUME NEW c \in Clients, Task(c) PROVE LineInv'
  <2>1. CASE HandleRequest(c)
    BY <1>2, <2>1
  <2>2. CASE Accept(c) \/ HandleReadError(c) \/ Write(c) \/ WriteFails(c)
    BY <1>0, <2>2 DEF Accept, HandleReadError, Write, WriteFails, clientVars
  <2>3. CASE ReceiveEvent(c) \/ ReceiveLagged(c)
    BY <1>0, <2>3 DEF ReceiveEvent, ReceiveLagged, clientVars
  <2>4. CASE Forward(c) \/ ForwardFails(c) \/ Answered(c) \/ TimeOut(c)
    BY <1>0, <2>4 DEF Forward, ForwardFails, Answered, TimeOut, clientVars
  <2> QED BY <1>3, <2>1, <2>2, <2>3, <2>4 DEF Task
<1>4. ASSUME NEW restored \in BOOLEAN, ServeRestore(restored) PROVE LineInv'
  BY <1>0, <1>4 DEF ServeRestore, clientVars
<1>5. CASE PushRow \/ Broadcast \/ WaylandGone \/ RuntimeDropped \/ Idle \/ UNCHANGED vars
  BY <1>0, <1>5 DEF PushRow, Broadcast, WaylandGone, RuntimeDropped, Idle, vars, clientVars,
                    taskVars
<1> QED BY <1>1, <1>3, <1>4, <1>5 DEF Next, Wayland

-----------------------------------------------------------------------------
(* The order in which restores are carried out.                             *)

\* Request p was forwarded: it is no newer than the one in hand (cur), and
\* older when that one has still to be sent (at).
Forwarded(p, cur, at) ==
  p.n <= cur[p.client] /\ (at[p.client] = "sending" => p.n < cur[p.client])

\* The requests of one client are in the channel q in the order it sent them,
\* and all after those that were carried out.
InOrder(q, done, cur, at) ==
  /\ \A i \in 1..Len(q) : Forwarded(q[i], cur, at)
  /\ \A p \in done : Forwarded(p, cur, at)
  /\ \A p \in done : \A i \in 1..Len(q) : p.client = q[i].client => p.n < q[i].n
  /\ \A i, j \in 1..Len(q) : i < j /\ q[i].client = q[j].client => q[i].n < q[j].n

QueueInv == InOrder(chan, executed, current, task)

\* A task that takes a newer request in hand, or does not start sending.
LEMMA OrderKept ==
  ASSUME NEW q \in Seq(Pending), NEW done \in SUBSET Pending,
         NEW cur \in [Clients -> Nat], NEW cur2 \in [Clients -> Nat], NEW at, NEW at2,
         InOrder(q, done, cur, at),
         \A c \in Clients : \/ cur[c] < cur2[c]
                            \/ cur2[c] = cur[c] /\ (at2[c] = "sending" => at[c] = "sending")
  PROVE  InOrder(q, done, cur2, at2)
<1>1. ASSUME NEW p \in Pending, Forwarded(p, cur, at)
      PROVE  Forwarded(p, cur2, at2)
  <2>1. p.client \in Clients /\ p.n \in Nat
    BY IpcAssumption DEF Pending
  <2> QED BY <1>1, <2>1 DEF Forwarded
<1>2. \A i \in 1..Len(q) : q[i] \in Pending
  OBVIOUS
<1> QED BY <1>1, <1>2 DEF InOrder

LEMMA OrderForward ==
  ASSUME NEW q \in Seq(Pending), NEW done \in SUBSET Pending,
         NEW cur \in [Clients -> Nat], NEW at, NEW at2,
         InOrder(q, done, cur, at),
         NEW c \in Clients, at[c] = "sending", NEW p \in Pending,
         p.client = c, p.n = cur[c], at2[c] = "waiting",
         \A d \in Clients \ {c} : at2[d] = at[d]
  PROVE  InOrder(Append(q, p), done, cur, at2)
<1> DEFINE r == Append(q, p)
<1>1. /\ Len(q) \in Nat /\ Len(r) = Len(q) + 1 /\ r[Len(r)] = p
      /\ \A i \in 1..Len(q) : r[i] = q[i] /\ q[i] \in Pending
  OBVIOUS
<1> HIDE DEF r
<1>2. ASSUME NEW x \in Pending, Forwarded(x, cur, at)
      PROVE  Forwarded(x, cur, at2) /\ (x.client = c => x.n < p.n)
  <2>1. x.client \in Clients /\ x.n \in Nat
    BY IpcAssumption DEF Pending
  <2> QED BY <1>2, <2>1 DEF Forwarded
<1>3. Forwarded(p, cur, at2)
  BY DEF Forwarded
<1>4. \A i \in 1..Len(r) : i = Len(r) \/ i \in 1..Len(q)
  BY <1>1
<1>5. \A i \in 1..Len(r) : Forwarded(r[i], cur, at2)
  BY <1>1, <1>2, <1>3, <1>4 DEF InOrder
<1>6. \A x \in done : Forwarded(x, cur, at2)
  BY <1>2 DEF InOrder
<1>7. ASSUME NEW x \in done, NEW i \in 1..Len(r), x.client = r[i].client
      PROVE  x.n < r[i].n
  <2>1. CASE i = Len(r)
    BY <1>1, <1>2, <1>7, <2>1 DEF InOrder
  <2>2. CASE i \in 1..Len(q)
    BY <1>1, <1>7, <2>2 DEF InOrder
  <2> QED BY <1>4, <2>1, <2>2
<1>8. ASSUME NEW i \in 1..Len(r), NEW j \in 1..Len(r), i < j, r[i].client = r[j].client
      PROVE  r[i].n < r[j].n
  <2>1. i \in 1..Len(q)
    BY <1>1, <1>8
  <2>2. CASE j = Len(r)
    BY <1>1, <1>2, <1>8, <2>1, <2>2 DEF InOrder
  <2>3. CASE j \in 1..Len(q)
    BY <1>1, <1>8, <2>1, <2>3 DEF InOrder
  <2> QED BY <1>4, <2>2, <2>3
<1> QED BY <1>5, <1>6, <1>7, <1>8 DEF InOrder, r

LEMMA OrderServe ==
  ASSUME NEW q \in Seq(Pending), q # << >>, NEW done \in SUBSET Pending, NEW cur, NEW at,
         InOrder(q, done, cur, at)
  PROVE  /\ InOrder(Tail(q), done, cur, at)
         /\ InOrder(Tail(q), done \cup {Head(q)}, cur, at)
         /\ \A p \in done : p.client = Head(q).client => p.n < Head(q).n
<1>1. /\ Head(q) = q[1] /\ 1 \in 1..Len(q)
      /\ \A i \in 1..Len(Tail(q)) : i + 1 \in 1..Len(q) /\ Tail(q)[i] = q[i + 1] /\ 1 < i + 1
      /\ \A i, j \in 1..Len(Tail(q)) : i < j => i + 1 < j + 1
  BY QueueFacts
<1>2. /\ \A i \in 1..Len(q) : Forwarded(q[i], cur, at)
      /\ \A p \in done : Forwarded(p, cur, at)
      /\ \A p \in done : \A i \in 1..Len(q) : p.client = q[i].client => p.n < q[i].n
      /\ \A i, j \in 1..Len(q) : i < j /\ q[i].client = q[j].client => q[i].n < q[j].n
  BY DEF InOrder
<1>3. /\ \A i \in 1..Len(Tail(q)) : Forwarded(Tail(q)[i], cur, at)
      /\ \A i, j \in 1..Len(Tail(q)) :
           i < j /\ Tail(q)[i].client = Tail(q)[j].client => Tail(q)[i].n < Tail(q)[j].n
  BY <1>1, <1>2
<1>4. \A p \in done \cup {Head(q)} : \A i \in 1..Len(Tail(q)) :
        p.client = Tail(q)[i].client => p.n < Tail(q)[i].n
  BY <1>1, <1>2
<1> QED BY <1>1, <1>2, <1>3, <1>4 DEF InOrder

LEMMA QueueInit == Init => QueueInv
  BY DEF Init, QueueInv, InOrder

LEMMA QueueTypes ==
  ASSUME TypeInv
  PROVE  /\ chan \in Seq(Pending) /\ executed \in SUBSET Pending
         /\ current \in [Clients -> Nat] /\ asked \in [Clients -> Nat]
  BY IpcAssumption DEF TypeInv, TypeOK, Pending

LEMMA QueueStep == TypeInv /\ TypeInv' /\ LineInv /\ QueueInv /\ [Next]_vars => QueueInv'
<1> SUFFICES ASSUME TypeInv, TypeInv', LineInv, QueueInv, [Next]_vars PROVE QueueInv'
  OBVIOUS
<1>t. /\ chan \in Seq(Pending) /\ executed \in SUBSET Pending
      /\ current \in [Clients -> Nat] /\ current' \in [Clients -> Nat]
      /\ inq \in [Clients -> Seq(Piece)]
      /\ task \in [Clients -> {"unborn", "select", "sending", "waiting", "writing", "done"}]
  <2>1. current' \in [Clients -> Nat]
    BY IpcAssumption DEF TypeInv, TypeOK
  <2> QED BY <2>1, QueueTypes DEF TypeInv, TypeOK
<1>0. ASSUME chan' = chan, executed' = executed,
             \A c \in Clients :
               \/ current[c] < current'[c]
               \/ current'[c] = current[c] /\ (task'[c] = "sending" => task[c] = "sending")
      PROVE  QueueInv'
  BY <1>t, <1>0, OrderKept DEF QueueInv
<1>1. ASSUME NEW c \in Clients, Client(c) PROVE QueueInv'
  BY <1>0, <1>1 DEF Client, Ask, FinishSending, Disconnect, Take, taskVars, wlVars
<1>2. ASSUME NEW c \in Clients, HandleRequest(c) PROVE QueueInv'
  <2>1. CASE ReadHead(c) \/ HandleEof(c) \/ HandleNotUtf8(c)
    BY <1>0, <1>t, <2>1 DEF ReadHead, HandleEof, HandleNotUtf8, wlVars
  <2>2. CASE HandleList(c) \/ HandlePing(c) \/ HandleSubscribe(c) \/ HandleUnparsable(c)
    BY <1>0, <1>t, <2>2 DEF HandleList, HandlePing, HandleSubscribe, HandleUnparsable,
                            Respond, wlVars
  <2>3. CASE HandleTooLong(c) \/ HandleRemnant(c)
    BY <1>0, <1>t, <2>3 DEF HandleTooLong, HandleRemnant, Respond, wlVars
  <2>4. CASE HandleRestore(c)
    <3>1. inq[c] # << >> /\ current' = [current EXCEPT ![c] = Head(inq[c]).n]
          /\ task' = [task EXCEPT ![c] = "sending"] /\ chan' = chan /\ executed' = executed
      BY <2>4 DEF HandleRestore, RequestRead, LineRead, wlVars
    <3>2. inq[c] \in Seq(Piece) /\ current[c] \in Nat /\ asked[c] \in Nat
          /\ Ordered(inq[c], current[c], asked[c])
      BY <1>t, QueueTypes DEF LineInv
    <3>3. current[c] < Head(inq[c]).n
      BY <3>1, <3>2, OrderedTail
    <3> QED BY <1>0, <1>t, <3>1, <3>3
  <2> QED BY <1>2, <2>1, <2>2, <2>3, <2>4 DEF HandleRequest
<1>3. ASSUME NEW c \in Clients, Task(c) PROVE QueueInv'
  <2>1. CASE HandleRequest(c)
    BY <1>2, <2>1
  <2>2. CASE Accept(c) \/ HandleReadError(c) \/ Write(c) \/ WriteFails(c)
    BY <1>0, <1>t, <2>2 DEF Accept, HandleReadError, Write, WriteFails, wlVars
  <2>3. CASE ReceiveEvent(c) \/ ReceiveLagged(c)
    BY <1>0, <1>t, <2>3 DEF ReceiveEvent, ReceiveLagged, Respond, wlVars
  <2>4. CASE ForwardFails(c) \/ Answered(c) \/ TimeOut(c)
    BY <1>0, <1>t, <2>4 DEF ForwardFails, Answered, TimeOut, Respond, wlVars
  <2>5. CASE Forward(c)
    <3> DEFINE p == [client |-> c, n |-> current[c]]
    <3>1. /\ task[c] = "sending" /\ chan' = Append(chan, p)
          /\ task' = [task EXCEPT ![c] = "waiting"]
          /\ current' = current /\ executed' = executed
      BY <2>5 DEF Forward
    <3>2. current[c] \in 1..MaxRequests
      BY <3>1 DEF TypeInv, TypeOK, HandInv
    <3>3. p \in Pending /\ p.client = c /\ p.n = current[c]
      BY <3>2 DEF Pending
    <3> HIDE DEF p
    <3>4. task'[c] = "waiting" /\ \A d \in Clients \ {c} : task'[d] = task[d]
      BY <1>t, <3>1
    <3>5. InOrder(Append(chan, p), executed, current, task')
      BY <1>t, <3>1, <3>3, <3>4, OrderForward DEF QueueInv
    <3> QED BY <3>1, <3>5 DEF QueueInv
  <2> QED BY <1>3, <2>1, <2>2, <2>3, <2>4, <2>5 DEF Task
<1>4. ASSUME NEW restored \in BOOLEAN, ServeRestore(restored) PROVE QueueInv'
  <2>1. /\ chan # << >> /\ chan' = Tail(chan) /\ current' = current /\ task' = task
        /\ executed' = IF restored THEN executed \cup {Head(chan)} ELSE executed
    BY <1>4 DEF ServeRestore
  <2>2. /\ InOrder(Tail(chan), executed, current, task)
        /\ InOrder(Tail(chan), executed \cup {Head(chan)}, current, task)
    BY <1>t, <2>1, OrderServe DEF QueueInv
  <2> QED BY <2>1, <2>2 DEF QueueInv
<1>5. CASE WaylandGone
  <2>1. chan' = << >> /\ executed' = executed /\ current' = current /\ task' = task
    BY <1>5 DEF WaylandGone
  <2> QED BY <2>1 DEF QueueInv, InOrder
<1>6. CASE PushRow \/ Broadcast \/ RuntimeDropped \/ Idle \/ UNCHANGED vars
  BY <1>0, <1>6 DEF PushRow, Broadcast, RuntimeDropped, Idle, vars, clientVars,
                    taskVars, wlVars
<1> QED BY <1>1, <1>3, <1>4, <1>5, <1>6 DEF Next, Wayland

RestoreInv == TypeInv /\ LineInv /\ QueueInv

LEMMA RestoreAlways == Spec => []RestoreInv
<1>1. Init => RestoreInv
  BY TypeInit, LineInit, QueueInit DEF RestoreInv
<1>2. RestoreInv /\ [Next]_vars => RestoreInv'
  BY TypeStep, LineStep, QueueStep DEF RestoreInv
<1> QED BY <1>1, <1>2, PTL DEF Spec

\* Only ServeRestore carries a request out.
LEMMA ServedOnly ==
  ASSUME [Next]_vars, executed' # executed
  PROVE  \E restored \in BOOLEAN : ServeRestore(restored)
<1>1. ASSUME NEW c \in Clients, Client(c) PROVE executed' = executed
  BY <1>1 DEF Client, Ask, FinishSending, Disconnect, Take, wlVars
<1>2. ASSUME NEW c \in Clients, HandleRequest(c) PROVE executed' = executed
  BY <1>2 DEF HandleRequest, ReadHead, HandleList, HandlePing, HandleSubscribe,
              HandleUnparsable, HandleTooLong, HandleRemnant, HandleRestore, HandleEof, HandleNotUtf8, wlVars
<1>3. ASSUME NEW c \in Clients, Task(c) PROVE executed' = executed
  BY <1>2, <1>3 DEF Task, Accept, HandleReadError, Write, WriteFails, ReceiveEvent,
              ReceiveLagged, Forward, ForwardFails, Answered, TimeOut, wlVars
<1>4. CASE PushRow \/ Broadcast \/ WaylandGone \/ RuntimeDropped \/ Idle \/ UNCHANGED vars
  BY <1>4 DEF PushRow, Broadcast, WaylandGone, RuntimeDropped, Idle, vars, wlVars
<1> QED BY <1>1, <1>3, <1>4 DEF Next, Wayland

\* Restores that time out, are asked again, queue behind those of other
\* clients or outlive their connection are still carried out in the order in
\* which their client asked for them, whatever the capacity of the channel.
THEOREM RestoresInOrder == Spec => LateRestoreOrdered
<1> DEFINE A == \A p \in executed' \ executed : \A q \in executed :
                   q.client = p.client => q.n < p.n
<1>1. RestoreInv /\ [Next]_vars => [A]_executed
  <2> SUFFICES ASSUME RestoreInv, [Next]_vars, executed' # executed
               PROVE  A
    OBVIOUS
  <2>1. PICK restored \in BOOLEAN : ServeRestore(restored)
    BY ServedOnly
  <2>2. chan # << >>
        /\ executed' = IF restored THEN executed \cup {Head(chan)} ELSE executed
    BY <2>1 DEF ServeRestore
  <2>3. chan \in Seq(Pending) /\ executed \in SUBSET Pending
    BY QueueTypes DEF RestoreInv
  <2>4. \A q \in executed : q.client = Head(chan).client => q.n < Head(chan).n
    BY <2>2, <2>3, OrderServe DEF RestoreInv, QueueInv
  <2> QED BY <2>2, <2>4
<1> QED BY RestoreAlways, <1>1, PTL DEF Spec, LateRestoreOrdered

-----------------------------------------------------------------------------
(* The answer to a restore.                                                 *)

\* Restored is said, or about to be said, only of what was carried out, and
\* no answer is there yet for a request that is still being sent.
AnswerInv ==
  \A c \in Clients :
    /\ task[c] = "sending" => answer[c] = "empty"
    /\ task[c] = "waiting" /\ answer[c] = "restored" =>
         [client |-> c, n |-> current[c]] \in executed
    /\ reply[c].type = "Restored" => [client |-> c, n |-> reply[c].n] \in executed
    /\ \A i \in 1..Len(out[c]) :
         out[c][i].type = "Restored" => [client |-> c, n |-> out[c][i].n] \in executed

LEMMA AnswerInit == Init => AnswerInv
  BY DEF Init, AnswerInv, Msg

\* The message a task takes in hand says Restored of nothing else.
LEMMA AnswerReplied ==
  ASSUME TypeInv, AnswerInv, NEW c \in Clients, NEW m, Respond(c, m),
         m.type = "Restored" => [client |-> c, n |-> m.n] \in executed,
         UNCHANGED <<out, current, answer, executed>>
  PROVE  AnswerInv'
<1>1. /\ task' = [task EXCEPT ![c] = "writing"] /\ reply' = [reply EXCEPT ![c] = m]
      /\ task \in [Clients -> {"unborn", "select", "sending", "waiting", "writing", "done"}]
      /\ reply \in [Clients -> Message]
  BY DEF Respond, TypeInv, TypeOK
<1> QED BY <1>1 DEF AnswerInv

\* A step that starts no request and adds no message.
LEMMA AnswerKept ==
  ASSUME AnswerInv, UNCHANGED <<current, reply, answer, out>>, executed \subseteq executed',
         \A c \in Clients : task'[c] \in {"sending", "waiting"} => task'[c] = task[c]
  PROVE  AnswerInv'
  BY DEF AnswerInv

LEMMA AnswerClient ==
  ASSUME TypeInv, AnswerInv, NEW c \in Clients, Client(c)
  PROVE  AnswerInv'
<1>1. CASE (\E kind \in Kinds : Ask(c, kind)) \/ FinishSending(c)
  BY <1>1, AnswerKept DEF Ask, FinishSending, taskVars, wlVars
<1>2. CASE Disconnect(c) \/ Take(c)
  <2>1. /\ UNCHANGED <<task, current, reply, answer, executed>>
        /\ out' = [out EXCEPT ![c] = << >>]
           \/ (out[c] # << >> /\ out' = [out EXCEPT ![c] = Tail(@)])
    BY <1>2 DEF Disconnect, Take, taskVars, wlVars
  <2>2. out \in [Clients -> Seq(Message)]
    BY DEF TypeInv, TypeOK
  <2>3. /\ \A d \in Clients \ {c} : out'[d] = out[d]
        /\ out'[c] = << >> \/ (out[c] # << >> /\ out'[c] = Tail(out[c]))
    BY <2>1, <2>2
  <2>4. \A i \in 1..Len(out'[c]) : \E j \in 1..Len(out[c]) : out'[c][i] = out[c][j]
    <3>1. CASE out'[c] = << >>
      BY <3>1
    <3>2. CASE out[c] # << >> /\ out'[c] = Tail(out[c])
      BY <2>2, <3>2, QueueFacts
    <3> QED BY <2>3, <3>1, <3>2
  <2> QED BY <2>1, <2>3, <2>4 DEF AnswerInv
<1> QED BY <1>1, <1>2 DEF Client

LEMMA AnswerTask ==
  ASSUME TypeInv, AnswerInv, NEW c \in Clients, Task(c)
  PROVE  AnswerInv'
<1>t. /\ task \in [Clients -> {"unborn", "select", "sending", "waiting", "writing", "done"}]
      /\ current \in [Clients -> 0..MaxRequests] /\ reply \in [Clients -> Message]
      /\ answer \in [Clients -> {"empty", "restored", "refused", "gone"}]
      /\ out \in [Clients -> Seq(Message)]
  BY DEF TypeInv, TypeOK
<1>1. ASSUME HandleRequest(c) PROVE AnswerInv'
  <2>1. CASE ReadHead(c) \/ HandleEof(c) \/ HandleNotUtf8(c)
    BY <1>t, <2>1, AnswerKept DEF ReadHead, HandleEof, HandleNotUtf8, wlVars
  <2>2. CASE HandleList(c) \/ HandlePing(c) \/ HandleSubscribe(c) \/ HandleUnparsable(c)
    <3>1. PICK type, n, k :
            /\ type \in {"Entries", "Page", "Pong", "Subscribed", "Error"} /\ Respond(c, Msg(type, n, k))
            /\ UNCHANGED <<out, current, answer, executed>>
      BY <2>2 DEF HandleList, HandlePing, HandleSubscribe, HandleUnparsable, wlVars
    <3> QED BY <3>1, AnswerReplied DEF Msg
  <2>3. CASE HandleTooLong(c) \/ HandleRemnant(c)
    <3>1. PICK type, n, k :
            /\ type \in {"TooLong", "Remnant"} /\ Respond(c, Msg(type, n, k))
            /\ UNCHANGED <<out, current, answer, executed>>
      BY <2>3 DEF HandleTooLong, HandleRemnant, wlVars
    <3> QED BY <3>1, AnswerReplied DEF Msg
  <2>4. CASE HandleRestore(c)
    <3>1. /\ task' = [task EXCEPT ![c] = "sending"]
          /\ current' = [current EXCEPT ![c] = Head(inq[c]).n]
          /\ answer' = [answer EXCEPT ![c] = "empty"]
          /\ UNCHANGED <<out, reply, executed>>
      BY <2>4 DEF HandleRestore, wlVars
    <3> QED BY <1>t, <3>1 DEF AnswerInv
  <2> QED BY <1>1, <2>1, <2>2, <2>3, <2>4 DEF HandleRequest
<1>2. CASE Accept(c) \/ HandleReadError(c) \/ WriteFails(c)
  BY <1>t, <1>2, AnswerKept DEF Accept, HandleReadError, WriteFails, wlVars
<1>3. CASE Write(c)
  <2>1. /\ out' = [out EXCEPT ![c] = Append(@, reply[c])]
        /\ task' = [task EXCEPT ![c] = "select"]
        /\ UNCHANGED <<current, reply, answer, executed>>
    BY <1>3 DEF Write, wlVars
  <2>2. \A i \in 1..Len(out'[c]) :
          out'[c][i] = reply[c] \/ (i \in 1..Len(out[c]) /\ out'[c][i] = out[c][i])
    <3>1. out'[c] = Append(out[c], reply[c]) /\ out[c] \in Seq(Message)
      BY <1>t, <2>1
    <3> QED BY <3>1
  <2>3. \A d \in Clients \ {c} : out'[d] = out[d] /\ task'[d] = task[d]
    BY <1>t, <2>1
  <2>4. task'[c] = "select"
    BY <1>t, <2>1
  <2> QED BY <2>1, <2>2, <2>3, <2>4 DEF AnswerInv
<1>4. CASE ReceiveEvent(c) \/ ReceiveLagged(c)
  <2>1. PICK type, n, k :
          /\ type \in {"Event", "Lagged"} /\ Respond(c, Msg(type, n, k))
          /\ UNCHANGED <<out, current, answer, executed>>
    BY <1>4 DEF ReceiveEvent, ReceiveLagged, wlVars
  <2> QED BY <2>1, AnswerReplied DEF Msg
<1>5. CASE ForwardFails(c) \/ TimeOut(c)
  <2>1. Respond(c, Msg("Error", current[c], 0)) /\ UNCHANGED <<out, current, answer, executed>>
    BY <1>5 DEF ForwardFails, TimeOut, wlVars
  <2> QED BY <2>1, AnswerReplied DEF Msg
<1>6. CASE Answered(c)
  <2> DEFINE m == Msg(IF answer[c] = "restored" THEN "Restored" ELSE "Error", current[c], 0)
  <2>1. task[c] = "waiting" /\ Respond(c, m) /\ UNCHANGED <<out, current, answer, executed>>
    BY <1>6 DEF Answered, wlVars
  <2>2. m.type = "Restored" => [client |-> c, n |-> m.n] \in executed
    BY <2>1 DEF AnswerInv, Msg
  <2> QED BY <2>1, <2>2, AnswerReplied
<1>7. CASE Forward(c)
  <2>1. /\ task[c] = "sending" /\ task' = [task EXCEPT ![c] = "waiting"]
        /\ UNCHANGED <<out, current, reply, answer, executed>>
    BY <1>7 DEF Forward
  <2> QED BY <1>t, <2>1 DEF AnswerInv
<1> QED BY <1>1, <1>2, <1>3, <1>4, <1>5, <1>6, <1>7 DEF Task

\* handle_restore answers yes exactly when it carried the request out.
LEMMA AnswerServe ==
  ASSUME TypeInv, AnswerInv, NEW restored \in BOOLEAN, ServeRestore(restored)
  PROVE  AnswerInv'
<1> DEFINE p == Head(chan)
<1>1. /\ chan # << >> /\ executed' = IF restored THEN executed \cup {p} ELSE executed
      /\ answer' = IF Listens(p)
                   THEN [answer EXCEPT ![p.client] = IF restored THEN "restored" ELSE "refused"]
                   ELSE answer
      /\ UNCHANGED <<out, task, current, reply>>
  BY DEF ServeRestore
<1>2. p \in Pending /\ answer \in [Clients -> {"empty", "restored", "refused", "gone"}]
  BY <1>1, QueueTypes, QueueFacts DEF TypeInv, TypeOK
<1>3. p.client \in Clients /\ p = [client |-> p.client, n |-> p.n]
  BY <1>2 DEF Pending
<1> HIDE DEF p
<1>4. executed \subseteq executed'
  BY <1>1
<1>5. CASE ~Listens(p)
  BY <1>1, <1>4, <1>5, AnswerKept
<1>6. CASE Listens(p)
  <2>1. task[p.client] = "waiting" /\ current[p.client] = p.n
    BY <1>6 DEF Listens
  <2>2. answer'[p.client] = "restored" => p \in executed'
    BY <1>1, <1>2, <1>3, <1>6
  <2>3. \A d \in Clients \ {p.client} : answer'[d] = answer[d]
    BY <1>1, <1>2, <1>3, <1>6
  <2> QED BY <1>1, <1>3, <1>4, <2>1, <2>2, <2>3 DEF AnswerInv
<1> QED BY <1>5, <1>6

LEMMA AnswerStep == TypeInv /\ AnswerInv /\ [Next]_vars => AnswerInv'
<1> SUFFICES ASSUME TypeInv, AnswerInv, [Next]_vars PROVE AnswerInv'
  OBVIOUS
<1>1. CASE PushRow \/ Broadcast \/ Idle \/ UNCHANGED vars
  BY <1>1, AnswerKept DEF PushRow, Broadcast, Idle, vars, taskVars, wlVars
<1>2. CASE RuntimeDropped
  BY <1>2, AnswerKept DEF RuntimeDropped, wlVars
<1>3. CASE WaylandGone
  <2>1. /\ answer' = [c \in Clients |->
                        IF \E i \in 1..Len(chan) : chan[i].client = c /\ Listens(chan[i])
                        THEN "gone" ELSE answer[c]]
        /\ UNCHANGED <<out, task, current, reply, executed>>
    BY <1>3 DEF WaylandGone
  <2>2. ASSUME NEW c \in Clients, answer'[c] # answer[c]
        PROVE  task[c] = "waiting" /\ answer'[c] = "gone"
    BY <2>1, <2>2 DEF Listens
  <2> QED BY <2>1, <2>2 DEF AnswerInv
<1> QED BY <1>1, <1>2, <1>3, AnswerClient, AnswerTask, AnswerServe DEF Next, Wayland

\* A client is told Restored of a request only if the Wayland thread carried
\* that very request out: the answer to one that timed out reaches no other,
\* for any capacities and any number of clients and retries.
THEOREM AnswersOwn == Spec => []AnswersOwnRequest
<1>1. AnswerInv => AnswersOwnRequest
  BY DEF AnswerInv, AnswersOwnRequest, InTransit
<1>2. Init => AnswerInv
  BY AnswerInit
<1>3. TypeInv /\ AnswerInv /\ [Next]_vars => AnswerInv'
  BY AnswerStep
<1> QED BY TypeAlways, <1>1, <1>2, <1>3, PTL DEF Spec

-----------------------------------------------------------------------------
(* What a subscribed client sees.                                           *)

\* The messages a client has still to read, in the order it reads them.
Coming(c) == IF task[c] = "writing" THEN Append(out[c], reply[c]) ELSE out[c]

\* From m the client learns of row k, or that it has to list again.
Covers(m, k) ==
  \/ m.type = "Lagged"
  \/ m.type = "Event" /\ m.k = k
  \/ m.type = "Entries" /\ k <= m.k

\* With the rows in seen, the messages s to come and the ring from cur on, a
\* UI that is not stale (old) misses none of the rows 1..n, and will miss none
\* when it has read one of the listings in s.
ViewOk(s, seen, old, cur, n) ==
  /\ ~old => \A k \in 1..n : k \in seen \/ cur <= k \/ \E j \in 1..Len(s) : Covers(s[j], k)
  /\ \A i \in 1..Len(s) : s[i].type = "Entries" =>
       \A k \in 1..n : \/ k <= s[i].k \/ cur <= k
                       \/ \E j \in 1..Len(s) : i < j /\ Covers(s[j], k)

\* The Receiver dates from accept and a UI starts stale, so nothing can be
\* missed whichever of List and Subscribe comes first.
ViewInv ==
  \A c \in Clients :
    /\ cursor[c] <= sent + 1
    /\ task[c] = "unborn" => out[c] = << >> /\ stale[c]
    /\ up[c] /\ Alive(c) => ViewOk(Coming(c), have[c], stale[c], cursor[c], sent)

\* A message joins those to come: it covers every row the cursor passes, and
\* if it is a listing it has every row broadcast.
LEMMA ViewAppend ==
  ASSUME NEW s \in Seq(Message), NEW m \in Message, NEW seen, NEW old \in BOOLEAN,
         NEW cur \in Nat, NEW cur2 \in Nat, NEW n \in Nat,
         ViewOk(s, seen, old, cur, n),
         \A k \in 1..n : cur <= k => cur2 <= k \/ Covers(m, k),
         m.type = "Entries" => n <= m.k
  PROVE  ViewOk(Append(s, m), seen, old, cur2, n)
<1> DEFINE r == Append(s, m)
<1>1. /\ Len(s) \in Nat /\ Len(r) = Len(s) + 1 /\ r[Len(r)] = m
      /\ \A i \in 1..Len(s) : r[i] = s[i] /\ i \in 1..Len(r) /\ i < Len(r)
      /\ \A i \in 1..Len(r) : i = Len(r) \/ i \in 1..Len(s)
      /\ Len(r) \in 1..Len(r)
  OBVIOUS
<1> HIDE DEF r
<1>2. ASSUME ~old, NEW k \in 1..n
      PROVE  k \in seen \/ cur2 <= k \/ \E j \in 1..Len(r) : Covers(r[j], k)
  <2>1. k \in seen \/ cur <= k \/ \E j \in 1..Len(s) : Covers(s[j], k)
    BY <1>2 DEF ViewOk
  <2>2. CASE cur <= k
    BY <1>1, <2>2
  <2>3. CASE \E j \in 1..Len(s) : Covers(s[j], k)
    BY <1>1, <2>3
  <2> QED BY <2>1, <2>2, <2>3
<1>3. ASSUME NEW i \in 1..Len(r), r[i].type = "Entries", NEW k \in 1..n
      PROVE  \/ k <= r[i].k \/ cur2 <= k
             \/ \E j \in 1..Len(r) : i < j /\ Covers(r[j], k)
  <2>1. CASE i = Len(r)
    <3>1. n <= m.k /\ r[i].k = m.k /\ m.k \in Nat
      BY <1>1, <1>3, <2>1, IpcAssumption DEF Message
    <3> QED BY <3>1
  <2>2. CASE i \in 1..Len(s)
    <3>1. \/ k <= s[i].k \/ cur <= k
          \/ \E j \in 1..Len(s) : i < j /\ Covers(s[j], k)
      BY <1>1, <1>3, <2>2 DEF ViewOk
    <3>2. CASE cur <= k
      BY <1>1, <2>2, <3>2
    <3>3. CASE \E j \in 1..Len(s) : i < j /\ Covers(s[j], k)
      BY <1>1, <3>3
    <3> QED BY <1>1, <2>2, <3>1, <3>2, <3>3
  <2> QED BY <1>1, <2>1, <2>2
<1> QED BY <1>2, <1>3 DEF ViewOk, r

\* The first message is read.
LEMMA ViewTake ==
  ASSUME NEW s \in Seq(Message), s # << >>, NEW seen, NEW old \in BOOLEAN, NEW seen2,
         NEW old2 \in BOOLEAN, NEW cur \in Nat, NEW n \in Nat,
         ViewOk(s, seen, old, cur, n),
         Head(s).type = "Entries" => seen2 = 1..Head(s).k,
         Head(s).type = "Event" => Head(s).k \in seen2,
         Head(s).type # "Entries" => seen \subseteq seen2 /\ (~old2 => ~old),
         Head(s).type = "Lagged" => old2
  PROVE  ViewOk(Tail(s), seen2, old2, cur, n)
<1> DEFINE t == Tail(s)
<1>1. /\ Head(s) = s[1] /\ 1 \in 1..Len(s) /\ Len(s) \in Nat /\ Len(t) = Len(s) - 1
      /\ \A i \in 1..Len(t) : i + 1 \in 1..Len(s) /\ t[i] = s[i + 1]
      /\ Head(s) \in Message
  BY QueueFacts
<1>2. \A j \in 1..Len(s) : j # 1 => j - 1 \in 1..Len(t) /\ t[j - 1] = s[j]
  <2>1. ASSUME NEW j \in 1..Len(s), j # 1 PROVE j - 1 \in 1..Len(t)
    BY <1>1, <2>1
  <2> QED BY <1>1, <2>1
<1> HIDE DEF t
<1>3. ASSUME ~old2, NEW k \in 1..n
      PROVE  k \in seen2 \/ cur <= k \/ \E j \in 1..Len(t) : Covers(t[j], k)
  <2>1. CASE Head(s).type = "Entries"
    <3>1. \/ k <= s[1].k \/ cur <= k
          \/ \E j \in 1..Len(s) : 1 < j /\ Covers(s[j], k)
      BY <1>1, <2>1 DEF ViewOk
    <3>2. k <= s[1].k => k \in seen2
      BY <1>1, <2>1, IpcAssumption DEF Message
    <3>3. CASE \E j \in 1..Len(s) : 1 < j /\ Covers(s[j], k)
      BY <1>2, <3>3
    <3> QED BY <3>1, <3>2, <3>3
  <2>2. CASE Head(s).type # "Entries"
    <3>1. k \in seen \/ cur <= k \/ \E j \in 1..Len(s) : Covers(s[j], k)
      BY <1>3, <2>2 DEF ViewOk
    <3>2. CASE k \in seen
      BY <2>2, <3>2
    <3>3. CASE \E j \in 1..Len(s) : Covers(s[j], k)
      <4>1. PICK j \in 1..Len(s) : Covers(s[j], k)
        BY <3>3
      <4>2. CASE j = 1
        BY <1>1, <1>3, <2>2, <4>1, <4>2 DEF Covers
      <4>3. CASE j # 1
        BY <1>2, <4>1, <4>3
      <4> QED BY <4>2, <4>3
    <3> QED BY <3>1, <3>2, <3>3
  <2> QED BY <2>1, <2>2
<1>4. ASSUME NEW i \in 1..Len(t), t[i].type = "Entries", NEW k \in 1..n
      PROVE  \/ k <= t[i].k \/ cur <= k
             \/ \E j \in 1..Len(t) : i < j /\ Covers(t[j], k)
  <2>1. \/ k <= s[i + 1].k \/ cur <= k
        \/ \E j \in 1..Len(s) : i + 1 < j /\ Covers(s[j], k)
    BY <1>1, <1>4 DEF ViewOk
  <2>2. CASE \E j \in 1..Len(s) : i + 1 < j /\ Covers(s[j], k)
    <3>1. PICK j \in 1..Len(s) : i + 1 < j /\ Covers(s[j], k)
      BY <2>2
    <3>2. j - 1 \in 1..Len(t) /\ t[j - 1] = s[j] /\ i < j - 1
      BY <1>1, <1>2, <3>1
    <3> QED BY <3>1, <3>2
  <2> QED BY <1>1, <2>1, <2>2
<1> QED BY <1>3, <1>4 DEF ViewOk, t

\* One more row is broadcast: the cursor has not passed it.
LEMMA ViewBroadcast ==
  ASSUME NEW s, NEW seen, NEW old, NEW cur \in Nat, NEW n \in Nat, cur <= n + 1,
         ViewOk(s, seen, old, cur, n)
  PROVE  ViewOk(s, seen, old, cur, n + 1)
<1>1. \A k \in 1..(n + 1) : k \in 1..n \/ cur <= k
  OBVIOUS
<1> QED BY <1>1 DEF ViewOk

LEMMA ViewInit == Init => ViewInv
  BY DEF Init, ViewInv, Alive

LEMMA ViewTypes ==
  ASSUME TypeInv
  PROVE  /\ up \in [Clients -> BOOLEAN] /\ stale \in [Clients -> BOOLEAN]
         /\ have \in [Clients -> SUBSET (1..MaxRows)]
         /\ out \in [Clients -> Seq(Message)] /\ reply \in [Clients -> Message]
         /\ task \in [Clients -> {"unborn", "select", "sending", "waiting", "writing", "done"}]
         /\ cursor \in [Clients -> Nat] /\ sent \in Nat /\ rows \in Nat /\ sent <= rows
         /\ \A c \in Clients : Coming(c) \in Seq(Message)
<1>1. /\ out \in [Clients -> Seq(Message)] /\ reply \in [Clients -> Message]
      /\ cursor \in [Clients -> 1..(MaxRows + 1)] /\ MaxRows \in Nat
  BY IpcAssumption DEF TypeInv, TypeOK
<1>2. \A c \in Clients : Append(out[c], reply[c]) \in Seq(Message)
  BY <1>1
<1> QED BY <1>1, <1>2 DEF TypeInv, TypeOK, Coming

\* A step that changes nothing of what the other clients see.
LEMMA ViewOthers ==
  ASSUME ViewInv, NEW c \in Clients, sent' = sent,
         \A d \in Clients \ {c} :
           /\ up'[d] = up[d] /\ have'[d] = have[d] /\ stale'[d] = stale[d]
           /\ out'[d] = out[d] /\ task'[d] = task[d] /\ reply'[d] = reply[d]
           /\ cursor'[d] = cursor[d],
         cursor'[c] <= sent + 1,
         task'[c] = "unborn" => out'[c] = << >> /\ stale'[c],
         up'[c] /\ Alive(c)' => ViewOk(Coming(c)', have'[c], stale'[c], cursor'[c], sent)
  PROVE  ViewInv'
<1>1. ASSUME NEW d \in Clients \ {c}
      PROVE  /\ cursor'[d] <= sent' + 1
             /\ task'[d] = "unborn" => out'[d] = << >> /\ stale'[d]
             /\ up'[d] /\ Alive(d)' =>
                  ViewOk(Coming(d)', have'[d], stale'[d], cursor'[d], sent')
  <2>1. Coming(d)' = Coming(d) /\ (Alive(d)' <=> Alive(d))
    BY DEF Coming, Alive
  <2> QED BY <2>1 DEF ViewInv
<1> QED BY <1>1 DEF ViewInv

\* The task of c takes message m in hand, its cursor moving to x.
LEMMA ViewReply ==
  ASSUME TypeInv, ViewInv, NEW c \in Clients, NEW m \in Message, NEW x \in Nat,
         task[c] \in {"select", "sending", "waiting"}, Respond(c, m),
         UNCHANGED <<up, have, stale, out, sent>>, cursor' = [cursor EXCEPT ![c] = x],
         x <= sent + 1,
         \A k \in 1..sent : cursor[c] <= k => x <= k \/ Covers(m, k),
         m.type = "Entries" => sent <= m.k
  PROVE  ViewInv'
<1>1. /\ task' = [task EXCEPT ![c] = "writing"] /\ reply' = [reply EXCEPT ![c] = m]
  BY DEF Respond
<1>2. /\ task'[c] = "writing" /\ reply'[c] = m /\ cursor'[c] = x
      /\ \A d \in Clients \ {c} : /\ task'[d] = task[d] /\ reply'[d] = reply[d]
                                  /\ cursor'[d] = cursor[d]
  BY <1>1, ViewTypes
<1>3. Coming(c) = out[c] /\ Coming(c)' = Append(out[c], m)
  BY <1>2 DEF Coming
<1>4. ASSUME up[c] PROVE ViewOk(Append(out[c], m), have[c], stale[c], x, sent)
  <2>1. ViewOk(out[c], have[c], stale[c], cursor[c], sent)
    BY <1>3, <1>4 DEF ViewInv, Alive
  <2>2. /\ out[c] \in Seq(Message) /\ stale[c] \in BOOLEAN /\ cursor[c] \in Nat /\ sent \in Nat
    BY ViewTypes
  <2> QED BY <2>1, <2>2, ViewAppend
<1> QED BY <1>2, <1>3, <1>4, ViewOthers

\* A step of c's task that takes no message in hand and ends no connection.
LEMMA ViewIdle ==
  ASSUME TypeInv, ViewInv, NEW c \in Clients, NEW s \in {"select", "sending", "waiting"},
         task[c] \in {"select", "sending", "waiting"}, task' = [task EXCEPT ![c] = s],
         UNCHANGED <<up, have, stale, out, reply, cursor, sent>>
  PROVE  ViewInv'
<1>1. task'[c] = s /\ \A d \in Clients \ {c} : task'[d] = task[d]
  BY ViewTypes
<1>2. Coming(c) = out[c] /\ Coming(c)' = out[c] /\ Alive(c)
  BY <1>1 DEF Coming, Alive
<1> QED BY <1>1, <1>2, ViewOthers DEF ViewInv

\* c's connection is over.
LEMMA ViewOver ==
  ASSUME TypeInv, ViewInv, NEW c \in Clients, NEW s \in {"select", "done"},
         s = "done" \/ ~up[c], task' = [task EXCEPT ![c] = s],
         UNCHANGED <<up, have, stale, out, reply, cursor, sent>>
  PROVE  ViewInv'
<1>1. task'[c] = s /\ \A d \in Clients \ {c} : task'[d] = task[d]
  BY ViewTypes
<1>2. ~(up'[c] /\ Alive(c)')
  BY <1>1 DEF Alive
<1> QED BY <1>1, <1>2, ViewOthers DEF ViewInv

LEMMA ViewClient ==
  ASSUME TypeInv, ViewInv, NEW c \in Clients, Client(c)
  PROVE  ViewInv'
<1>1. CASE (\E kind \in Kinds : Ask(c, kind)) \/ FinishSending(c)
  BY <1>1 DEF Ask, FinishSending, taskVars, wlVars, ViewInv, Alive, Coming
<1>2. CASE Disconnect(c)
  <2>1. /\ up' = [up EXCEPT ![c] = FALSE] /\ out' = [out EXCEPT ![c] = << >>]
        /\ UNCHANGED <<have, stale, taskVars, sent>>
    BY <1>2 DEF Disconnect, wlVars
  <2>2. /\ up'[c] = FALSE /\ out'[c] = << >>
        /\ \A d \in Clients \ {c} : up'[d] = up[d] /\ out'[d] = out[d]
    BY <2>1, ViewTypes
  <2>3. task' = task /\ cursor' = cursor /\ reply' = reply /\ have' = have /\ stale' = stale
        /\ sent' = sent
    BY <2>1 DEF taskVars
  <2>4. cursor[c] <= sent + 1 /\ (task[c] = "unborn" => stale[c])
    BY DEF ViewInv
  <2> QED BY <2>2, <2>3, <2>4, ViewOthers
<1>3. CASE Take(c)
  <2> DEFINE m == Head(out[c])
  <2>1. /\ up[c] /\ out[c] # << >> /\ out' = [out EXCEPT ![c] = Tail(@)]
        /\ UNCHANGED <<up, taskVars, sent>>
        /\ have' = [have EXCEPT ![c] = CASE m.type = "Entries" -> 1..m.k
                                         [] m.type = "Event" -> @ \cup {m.k}
                                         [] OTHER -> @]
        /\ stale' = [stale EXCEPT ![c] = CASE m.type = "Entries" -> FALSE
                                           [] m.type = "Lagged" -> TRUE
                                           [] OTHER -> @]
    BY <1>3 DEF Take, wlVars
  <2>2. /\ out'[c] = Tail(out[c])
        /\ have'[c] = CASE m.type = "Entries" -> 1..m.k
                        [] m.type = "Event" -> have[c] \cup {m.k}
                        [] OTHER -> have[c]
        /\ stale'[c] = CASE m.type = "Entries" -> FALSE
                         [] m.type = "Lagged" -> TRUE
                         [] OTHER -> stale[c]
        /\ \A d \in Clients \ {c} : /\ out'[d] = out[d] /\ have'[d] = have[d]
                                    /\ stale'[d] = stale[d]
    BY <2>1, ViewTypes
  <2> DEFINE s == Coming(c)
  <2>3. out[c] \in Seq(Message) /\ reply[c] \in Message /\ s \in Seq(Message)
    BY ViewTypes
  <2>4. s # << >> /\ Head(s) = m /\ Coming(c)' = Tail(s)
    <3>1. Append(out[c], reply[c]) # << >> /\ Head(Append(out[c], reply[c])) = Head(out[c])
          /\ Tail(Append(out[c], reply[c])) = Append(Tail(out[c]), reply[c])
      BY <2>1, <2>3, QueueAppend
    <3>2. task' = task /\ reply' = reply
      BY <2>1 DEF taskVars
    <3>3. CASE task[c] = "writing"
      <4>1. s = Append(out[c], reply[c]) /\ Coming(c)' = Append(out'[c], reply[c])
        BY <3>2, <3>3 DEF Coming
      <4> QED BY <2>2, <3>1, <4>1
    <3>4. CASE task[c] # "writing"
      <4>1. s = out[c] /\ Coming(c)' = out'[c]
        BY <3>2, <3>4 DEF Coming
      <4> QED BY <2>1, <2>2, <4>1
    <3> QED BY <3>3, <3>4
  <2> HIDE DEF s, m
  <2>5. task[c] # "unborn"
    BY <2>1 DEF ViewInv
  <2>6. ASSUME Alive(c) PROVE ViewOk(Tail(s), have'[c], stale'[c], cursor[c], sent)
    <3>1. ViewOk(s, have[c], stale[c], cursor[c], sent)
      BY <2>1, <2>6 DEF ViewInv, s
    <3>2. /\ stale[c] \in BOOLEAN /\ stale'[c] \in BOOLEAN /\ cursor[c] \in Nat /\ sent \in Nat
      BY <2>2, ViewTypes
    <3>3. /\ m.type = "Entries" => have'[c] = 1..m.k
          /\ m.type = "Event" => m.k \in have'[c]
          /\ m.type = "Lagged" => stale'[c]
      BY <2>2
    <3>4. m.type # "Entries" => have[c] \subseteq have'[c] /\ (~stale'[c] => ~stale[c])
      BY <2>2
    <3> QED BY <2>3, <2>4, <3>1, <3>2, <3>3, <3>4, ViewTake
  <2>7. task' = task /\ cursor' = cursor /\ reply' = reply /\ up' = up /\ sent' = sent
        /\ (Alive(c)' <=> Alive(c))
    BY <2>1 DEF taskVars, Alive
  <2> QED BY <2>2, <2>4, <2>5, <2>6, <2>7, ViewOthers DEF ViewInv
<1> QED BY <1>1, <1>2, <1>3 DEF Client

LEMMA ViewTask ==
  ASSUME TypeInv, ViewInv, NEW c \in Clients, Task(c)
  PROVE  ViewInv'
<1>t. /\ cursor[c] \in Nat /\ sent \in Nat /\ rows \in Nat /\ sent <= rows
      /\ rows \in 0..MaxRows /\ current[c] \in 0..MaxRequests
      /\ 0 \in 0..MaxRows /\ 0 \in 0..MaxRequests
      /\ cursor \in [Clients -> Nat]
      /\ cursor[c] <= sent + 1 /\ RingCap \in Nat \ {0}
      /\ cursor = [cursor EXCEPT ![c] = cursor[c]]
  BY ViewTypes, MessageTypes, IpcAssumption DEF TypeInv, TypeOK, ViewInv
\* An answer that moves no cursor.
<1>r. ASSUME NEW m \in Message, task[c] \in {"select", "sending", "waiting"}, Respond(c, m),
             UNCHANGED <<up, have, stale, out, sent, cursor>>, m.type = "Entries" => sent <= m.k
      PROVE  ViewInv'
  <2>1. \A k \in 1..sent : cursor[c] <= k => cursor[c] <= k \/ Covers(m, k)
    OBVIOUS
  <2>2. cursor' = [cursor EXCEPT ![c] = cursor[c]]
    BY <1>t, <1>r
  <2> QED BY <1>t, <1>r, <2>1, <2>2, ViewReply
<1>1. ASSUME HandleRequest(c) PROVE ViewInv'
  <2>1. task[c] = "select" /\ sent' = sent /\ UNCHANGED <<up, have, stale>>
    BY <1>1 DEF HandleRequest, ReadHead, HandleList, HandlePing, HandleSubscribe,
                HandleUnparsable, HandleTooLong, HandleRemnant, HandleRestore, HandleEof, HandleNotUtf8,
                RequestRead, LineRead, clientVars, wlVars
  <2>n. ASSUME inq[c] # << >> PROVE Head(inq[c]).n \in 0..MaxRequests
    BY <2>n, LineTypes
  <2>2. CASE ReadHead(c)
    <3>1. task' = task /\ UNCHANGED <<out, reply, cursor>>
      BY <2>2 DEF ReadHead
    <3> QED BY <2>1, <3>1 DEF ViewInv, Coming, Alive
  <2>3. CASE HandleList(c)
    <3>1. inq[c] # << >> /\ UNCHANGED <<out, cursor>>
      BY <2>3 DEF HandleList, RequestRead, LineRead
    <3>2. CASE Respond(c, Msg("Entries", Head(inq[c]).n, rows))
      <4>1. Msg("Entries", Head(inq[c]).n, rows) \in Message
        BY <1>t, <2>n, <3>1, MessageTypes
      <4>2. sent <= Msg("Entries", Head(inq[c]).n, rows).k
        BY <1>t DEF Msg
      <4> QED BY <1>r, <2>1, <3>1, <3>2, <4>1, <4>2
    <3>3. CASE Respond(c, Msg("Page", Head(inq[c]).n, 0))
      <4>1. Msg("Page", Head(inq[c]).n, 0) \in Message
        BY <1>t, <2>n, <3>1, MessageTypes
      <4>2. Msg("Page", Head(inq[c]).n, 0).type # "Entries"
        BY DEF Msg
      <4> QED BY <1>r, <2>1, <3>1, <3>3, <4>1, <4>2
    <3> QED BY <2>3, <3>2, <3>3 DEF HandleList
  <2>4. CASE HandlePing(c) \/ HandleSubscribe(c) \/ HandleUnparsable(c)
    <3>1. PICK type \in {"Pong", "Subscribed", "Error"} :
            /\ inq[c] # << >> /\ Respond(c, Msg(type, Head(inq[c]).n, 0))
            /\ UNCHANGED <<out, cursor>>
      BY <2>4 DEF HandlePing, HandleSubscribe, HandleUnparsable, RequestRead, LineRead
    <3>2. Msg(type, Head(inq[c]).n, 0) \in Message
      BY <1>t, <2>n, <3>1, MessageTypes
    <3>3. Msg(type, Head(inq[c]).n, 0).type # "Entries"
      BY DEF Msg
    <3> QED BY <1>r, <2>1, <3>1, <3>2, <3>3
  <2>5. CASE HandleTooLong(c) \/ HandleRemnant(c)
    <3>1. PICK type \in {"TooLong", "Remnant"} :
            /\ inq[c] # << >> /\ Respond(c, Msg(type, Head(inq[c]).n, 0))
            /\ UNCHANGED <<out, cursor>>
      BY <2>5 DEF HandleTooLong, HandleRemnant, LineRead
    <3>2. Msg(type, Head(inq[c]).n, 0) \in Message
      BY <1>t, <2>n, <3>1, MessageTypes
    <3>3. Msg(type, Head(inq[c]).n, 0).type # "Entries"
      BY DEF Msg
    <3> QED BY <1>r, <2>1, <3>1, <3>2, <3>3
  <2>6. CASE HandleRestore(c)
    BY <2>1, <2>6, ViewIdle DEF HandleRestore
  <2>7. CASE HandleEof(c) \/ HandleNotUtf8(c)
    BY <2>1, <2>7, ViewOver DEF HandleEof, HandleNotUtf8
  <2> QED BY <1>1, <2>2, <2>3, <2>4, <2>5, <2>6, <2>7 DEF HandleRequest
<1>2. CASE Accept(c)
  <2>1. /\ task[c] = "unborn" /\ task' = [task EXCEPT ![c] = "select"]
        /\ cursor' = [cursor EXCEPT ![c] = sent + 1]
        /\ UNCHANGED <<up, have, stale, out, reply, sent>>
    BY <1>2 DEF Accept, clientVars, wlVars
  <2>2. /\ task'[c] = "select" /\ cursor'[c] = sent + 1
        /\ \A d \in Clients \ {c} : task'[d] = task[d] /\ cursor'[d] = cursor[d]
    BY <2>1, ViewTypes
  <2>3. out[c] = << >> /\ stale[c]
    BY <2>1 DEF ViewInv
  <2>4. ViewOk(<< >>, have[c], stale[c], sent + 1, sent)
    BY <2>3 DEF ViewOk
  <2>5. Coming(c)' = << >>
    BY <2>1, <2>2, <2>3 DEF Coming
  <2>6. ViewOk(Coming(c)', have'[c], stale'[c], cursor'[c], sent)
    BY <2>1, <2>2, <2>4, <2>5
  <2>7. cursor'[c] <= sent + 1 /\ task'[c] # "unborn"
    BY <1>t, <2>2
  <2>8. \A d \in Clients \ {c} :
           /\ up'[d] = up[d] /\ have'[d] = have[d] /\ stale'[d] = stale[d]
           /\ out'[d] = out[d] /\ task'[d] = task[d] /\ reply'[d] = reply[d]
           /\ cursor'[d] = cursor[d]
    BY <2>1, <2>2
  <2> QED BY <2>1, <2>6, <2>7, <2>8, ViewOthers
<1>3. CASE HandleReadError(c)
  BY <1>3, ViewOver DEF HandleReadError, clientVars, wlVars
<1>4. CASE Write(c)
  <2>1. /\ task[c] = "writing" /\ out' = [out EXCEPT ![c] = Append(@, reply[c])]
        /\ task' = [task EXCEPT ![c] = "select"]
        /\ UNCHANGED <<up, have, stale, reply, cursor, sent>>
    BY <1>4 DEF Write, clientVars, wlVars
  <2>2. /\ task'[c] = "select" /\ out'[c] = Append(out[c], reply[c])
        /\ \A d \in Clients \ {c} : task'[d] = task[d] /\ out'[d] = out[d]
    BY <2>1, ViewTypes
  <2>3. Coming(c)' = Coming(c) /\ Alive(c)
    BY <2>1, <2>2 DEF Coming, Alive
  <2> QED BY <1>t, <2>1, <2>2, <2>3, ViewOthers, SMTT(60) DEF ViewInv
<1>5. CASE WriteFails(c)
  <2>1. PICK s \in {"select", "done"} : task' = [task EXCEPT ![c] = s]
    BY <1>5 DEF WriteFails
  <2> QED BY <1>5, <2>1, ViewOver DEF WriteFails, clientVars, wlVars
<1>6. CASE ReceiveEvent(c)
  <2>1. /\ task[c] = "select" /\ cursor[c] <= sent /\ cursor' = [cursor EXCEPT ![c] = @ + 1]
        /\ Respond(c, Msg("Event", 0, cursor[c]))
        /\ UNCHANGED <<up, have, stale, out, sent>>
    BY <1>6 DEF ReceiveEvent, clientVars, wlVars
  <2>2. Msg("Event", 0, cursor[c]) \in Message
    <3>1. cursor[c] \in 1..MaxRows
      BY <1>t, <2>1, IpcAssumption DEF TypeInv, TypeOK
    <3> QED BY <3>1, MessageTypes
  <2>3. \A k \in 1..sent : cursor[c] <= k =>
          cursor[c] + 1 <= k \/ Covers(Msg("Event", 0, cursor[c]), k)
    BY <1>t DEF Covers, Msg
  <2>4. cursor' = [cursor EXCEPT ![c] = cursor[c] + 1] /\ cursor[c] + 1 \in Nat
        /\ cursor[c] + 1 <= sent + 1 /\ Msg("Event", 0, cursor[c]).type # "Entries"
    BY <1>t, <2>1 DEF Msg
  <2> QED BY <2>1, <2>2, <2>3, <2>4, ViewReply
<1>7. CASE ReceiveLagged(c)
  <2>1. /\ task[c] = "select" /\ cursor' = [cursor EXCEPT ![c] = Oldest]
        /\ Respond(c, Msg("Lagged", 0, 0))
        /\ UNCHANGED <<up, have, stale, out, sent>>
    BY <1>7 DEF ReceiveLagged, clientVars, wlVars
  <2>2. Msg("Lagged", 0, 0) \in Message
    BY <1>t, MessageTypes
  <2>3. \A k \in 1..sent : Covers(Msg("Lagged", 0, 0), k)
    BY DEF Covers, Msg
  <2>4. Oldest \in Nat /\ Oldest <= sent + 1 /\ Msg("Lagged", 0, 0).type # "Entries"
    BY <1>t DEF Msg, Oldest
  <2> QED BY <2>1, <2>2, <2>3, <2>4, ViewReply
<1>8. CASE Forward(c)
  BY <1>8, ViewIdle DEF Forward, clientVars
<1>9. CASE ForwardFails(c) \/ TimeOut(c) \/ Answered(c)
  <2>1. PICK type \in {"Error", "Restored"} :
          /\ Respond(c, Msg(type, current[c], 0)) /\ task[c] \in {"sending", "waiting"}
          /\ UNCHANGED <<up, have, stale, out, sent, cursor>>
    BY <1>9 DEF ForwardFails, TimeOut, Answered, clientVars, wlVars
  <2>2. Msg(type, current[c], 0) \in Message /\ Msg(type, current[c], 0).type # "Entries"
    BY <1>t, MessageTypes DEF Msg
  <2> QED BY <1>r, <2>1, <2>2
<1> QED
  BY <1>1, <1>2, <1>3, <1>4, <1>5, <1>6, <1>7, <1>8, <1>9 DEF Task

LEMMA ViewStep == TypeInv /\ ViewInv /\ [Next]_vars => ViewInv'
<1> SUFFICES ASSUME TypeInv, ViewInv, [Next]_vars PROVE ViewInv'
  OBVIOUS
<1>0. ASSUME UNCHANGED <<up, have, stale, out, task, reply, cursor, sent>> PROVE ViewInv'
  BY <1>0 DEF ViewInv, Coming, Alive
<1>1. CASE PushRow \/ WaylandGone \/ Idle \/ UNCHANGED vars
  BY <1>0, <1>1 DEF PushRow, WaylandGone, Idle, vars, clientVars, taskVars, wlVars
<1>2. CASE \E restored \in BOOLEAN : ServeRestore(restored)
  BY <1>0, <1>2 DEF ServeRestore, clientVars
<1>3. CASE RuntimeDropped
  <2>1. task' = [c \in Clients |-> "done"] /\ cursor' = cursor /\ sent' = sent
    BY <1>3 DEF RuntimeDropped, wlVars
  <2> QED BY <2>1 DEF ViewInv, Alive
<1>4. CASE Broadcast
  <2>1. sent' = sent + 1 /\ UNCHANGED <<up, have, stale, out, task, reply, cursor>>
    BY <1>4 DEF Broadcast, clientVars, taskVars
  <2>2. sent \in Nat /\ \A c \in Clients : cursor[c] \in Nat
    BY ViewTypes
  <2>3. ASSUME NEW c \in Clients
        PROVE  /\ cursor'[c] <= sent' + 1
               /\ task'[c] = "unborn" => out'[c] = << >> /\ stale'[c]
               /\ up'[c] /\ Alive(c)' =>
                    ViewOk(Coming(c)', have'[c], stale'[c], cursor'[c], sent')
    <3>1. cursor[c] <= sent + 1 /\ cursor[c] <= sent + 1 + 1
      BY <2>2 DEF ViewInv
    <3>2. Coming(c)' = Coming(c) /\ (Alive(c)' <=> Alive(c))
      BY <2>1 DEF Coming, Alive
    <3>3. up[c] /\ Alive(c) => ViewOk(Coming(c), have[c], stale[c], cursor[c], sent + 1)
      BY <2>2, <3>1, ViewBroadcast DEF ViewInv
    <3> QED BY <2>1, <3>1, <3>2, <3>3 DEF ViewInv
  <2> QED BY <2>3 DEF ViewInv
<1> QED BY <1>1, <1>2, <1>3, <1>4, ViewClient, ViewTask DEF Next, Wayland

\* A subscribed client whose UI is not waiting for a listing misses no row
\* that was broadcast: it shows the row, or the row is on its way, still in
\* the ring, or a lag notice is coming; for any capacity of ring and socket.
THEOREM ViewComplete == Spec => []CompleteView
<1>1. TypeInv /\ ViewInv => CompleteView
  <2> SUFFICES ASSUME TypeInv, ViewInv, NEW c \in Clients, Alive(c), up[c], ~stale[c],
                      NEW k \in 1..sent
               PROVE  \/ k \in have[c]
                      \/ cursor[c] <= k
                      \/ \E m \in InTransit(c) :
                           m.type = "Lagged" \/ (m.type = "Event" /\ m.k = k)
                                             \/ (m.type = "Entries" /\ m.k >= k)
    BY DEF CompleteView
  <2>1. k \in have[c] \/ cursor[c] <= k \/ \E j \in 1..Len(Coming(c)) : Covers(Coming(c)[j], k)
    BY DEF ViewInv, ViewOk
  <2>2. CASE \E j \in 1..Len(Coming(c)) : Covers(Coming(c)[j], k)
    <3>1. PICK j \in 1..Len(Coming(c)) : Covers(Coming(c)[j], k)
      BY <2>2
    <3>2. Coming(c)[j] \in InTransit(c) /\ Coming(c)[j] \in Message
      <4>1. out[c] \in Seq(Message) /\ reply[c] \in Message
        BY ViewTypes
      <4>2. CASE task[c] = "writing"
        <5>1. Coming(c) = Append(out[c], reply[c])
          BY <4>2 DEF Coming
        <5> QED BY <3>1, <4>1, <4>2, <5>1 DEF InTransit
      <4>3. CASE task[c] # "writing"
        BY <3>1, <4>1, <4>3 DEF InTransit, Coming
      <4> QED BY <4>2, <4>3
    <3>3. Coming(c)[j].k \in Nat
      BY <3>2, IpcAssumption DEF Message
    <3> QED BY <3>1, <3>2, <3>3 DEF Covers
  <2> QED BY <2>1, <2>2
<1>2. Init => ViewInv
  BY ViewInit
<1>3. TypeInv /\ ViewInv /\ [Next]_vars => ViewInv'
  BY ViewStep
<1> QED BY TypeAlways, <1>1, <1>2, <1>3, PTL DEF Spec
=============================================================================

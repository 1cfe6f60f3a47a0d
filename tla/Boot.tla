--------------------------------- MODULE Boot ---------------------------------
(***************************************************************************)
(* Starts of uclip_daemon that share one socket path: `bind`, the spawned   *)
(* server, `setup_connection` with the registry, and the ways a process     *)
(* ends.  Nothing removes the socket file at exit.  Files are numbered in   *)
(* the order they are bound.  The compositor answers requests in order and  *)
(* may gain or lose a global at any time.                                   *)
(***************************************************************************)
EXTENDS Naturals, Sequences, FiniteSets, SequencesExt

CONSTANTS
  Daemons,       \* processes; each can be started again
  MaxBinds,      \* bound: socket files created
  MaxChanges     \* bound: globals that appear or vanish

ASSUME BootAssumption ==
  IsFiniteSet(Daemons) /\ MaxBinds \in Nat /\ MaxChanges \in Nat

Needed == {"wl_seat", "ext_data_control_manager_v1"}

VARIABLES
  pc,         \* place in main
  outcome,    \* how the last start ended
  path,       \* the file at socket_path(), 0 if there is none
  binds,      \* socket files created so far
  cleared,    \* binds when this start unlinked the path
  listener,   \* the file this process accepts connections on, 0 if none
  globals,    \* what the compositor offers
  changes,    \* times that changed
  asked,      \* Wayland requests the compositor has not seen
  wire,       \* Wayland events not dispatched
  found,      \* seat and manager in AppState
  present     \* globals when the compositor answered the last sync

fileVars == <<path, binds, cleared, listener>>
waylandVars == <<globals, changes, asked, wire, found, present>>
vars == <<pc, outcome, fileVars, waylandVars>>

Init ==
  /\ pc = [d \in Daemons |-> "off"] /\ outcome = [d \in Daemons |-> "none"]
  /\ path = 0 /\ binds = 0 /\ cleared = [d \in Daemons |-> 0]
  /\ listener = [d \in Daemons |-> 0]
  /\ globals \in SUBSET Needed /\ changes = 0
  /\ asked = [d \in Daemons |-> << >>] /\ wire = [d \in Daemons |-> << >>]
  /\ found = [d \in Daemons |-> {}] /\ present = [d \in Daemons |-> {}]

-----------------------------------------------------------------------------
(* Processes.                                                               *)

\* Mutated form of PathAfterExit: a graceful shutdown tidies up.
UnlinkAtExit(d) == 0

PathAfterExit(d) == path

\* The process is gone, by an error from main or by a signal: descriptors
\* close, the runtime drops the server, the socket file stays.
End(d, why) ==
  /\ pc' = [pc EXCEPT ![d] = "off"] /\ outcome' = [outcome EXCEPT ![d] = why]
  /\ listener' = [listener EXCEPT ![d] = 0]
  /\ path' = PathAfterExit(d)
  /\ asked' = [asked EXCEPT ![d] = << >>] /\ wire' = [wire EXCEPT ![d] = << >>]
  /\ UNCHANGED <<binds, cleared, globals, changes, found, present>>

Kill(d) == pc[d] # "off" /\ End(d, "killed")

\* Starts that may still bind.
Binding == {d \in Daemons : pc[d] \in {"unlink", "bind"}}

Start(d) ==
  /\ pc[d] = "off" /\ binds + Cardinality(Binding) < MaxBinds
  /\ pc' = [pc EXCEPT ![d] = "unlink"] /\ outcome' = [outcome EXCEPT ![d] = "none"]
  /\ found' = [found EXCEPT ![d] = {}]
  /\ UNCHANGED <<fileVars, globals, changes, asked, wire, present>>

-----------------------------------------------------------------------------
(* bind.                                                                    *)

\* Mutated form of PathAfterUnlink: a file that is there is left alone.
LeaveFile == path

PathAfterUnlink == 0

\* remove_file; NotFound is fine.
Unlink(d) ==
  /\ pc[d] = "unlink" /\ pc' = [pc EXCEPT ![d] = "bind"]
  /\ path' = PathAfterUnlink
  /\ cleared' = [cleared EXCEPT ![d] = binds]
  /\ UNCHANGED <<outcome, binds, listener, waylandVars>>

\* create_dir_all, remove_file or bind fails for another reason.
BindError(d) == pc[d] \in {"unlink", "bind"} /\ End(d, "IoError")

\* EADDRINUSE: there is a file at the path.
AddressInUse(d) == pc[d] = "bind" /\ path # 0 /\ End(d, "AddressInUse")

\* From here on clients connect, whatever becomes of the compositor.
Bind(d) ==
  /\ pc[d] = "bind" /\ path = 0
  /\ binds' = binds + 1 /\ path' = binds + 1
  /\ listener' = [listener EXCEPT ![d] = binds + 1]
  /\ pc' = [pc EXCEPT ![d] = "connect"]
  /\ UNCHANGED <<outcome, cleared, waylandVars>>

-----------------------------------------------------------------------------
(* setup_connection.                                                        *)

ConnectFails(d) == pc[d] = "connect" /\ End(d, "NoCompositor")

\* connect_to_env, get_registry and the sync of the first roundtrip.
Connect(d) ==
  /\ pc[d] = "connect" /\ pc' = [pc EXCEPT ![d] = "first"]
  /\ asked' = [asked EXCEPT ![d] = <<"get_registry", "sync">>]
  /\ UNCHANGED <<outcome, fileVars, globals, changes, wire, found, present>>

\* Dispatch<WlRegistry>: a needed global is bound, a removal only logged.
\* What is read along with the end of a roundtrip may be dispatched with it.
DispatchRegistry(d) ==
  /\ pc[d] \in {"first", "second", "check", "loop"}
  /\ wire[d] # << >> /\ Head(wire[d]).type # "done"
  /\ found' = [found EXCEPT ![d] =
                 IF Head(wire[d]).type = "global" THEN @ \cup {Head(wire[d]).name} ELSE @]
  /\ wire' = [wire EXCEPT ![d] = Tail(@)]
  /\ UNCHANGED <<pc, outcome, fileVars, globals, changes, asked, present>>

\* Mutated forms of RoundtripOver: one dispatch will do; wait for the globals.
AnyEvent(d) == wire[d] # << >> \/ found[d] # {}
BothFound(d) == found[d] = Needed

\* The callback of the sync has come.
RoundtripOver(d) == wire[d] # << >> /\ Head(wire[d]).type = "done"

DropDone(d) == IF wire[d] # << >> /\ Head(wire[d]).type = "done" THEN Tail(wire[d]) ELSE wire[d]

FirstRoundtrip(d) ==
  /\ pc[d] = "first" /\ RoundtripOver(d) /\ pc' = [pc EXCEPT ![d] = "second"]
  /\ wire' = [wire EXCEPT ![d] = DropDone(d)]
  /\ asked' = [asked EXCEPT ![d] = Append(@, "sync")]
  /\ UNCHANGED <<outcome, fileVars, globals, changes, found, present>>

SecondRoundtrip(d) ==
  /\ pc[d] = "second" /\ RoundtripOver(d) /\ pc' = [pc EXCEPT ![d] = "check"]
  /\ wire' = [wire EXCEPT ![d] = DropDone(d)]
  /\ UNCHANGED <<outcome, fileVars, globals, changes, asked, found, present>>

NoSeat(d) == pc[d] = "check" /\ "wl_seat" \notin found[d] /\ End(d, "NoSeat")

NoManager(d) ==
  /\ pc[d] = "check" /\ "wl_seat" \in found[d]
  /\ "ext_data_control_manager_v1" \notin found[d]
  /\ End(d, "NoManager")

\* get_data_device, then run_event_loop.
EnterLoop(d) ==
  /\ pc[d] = "check" /\ Needed \subseteq found[d]
  /\ pc' = [pc EXCEPT ![d] = "loop"]
  /\ UNCHANGED <<outcome, fileVars, waylandVars>>

\* A roundtrip or the loop fails: the compositor went away.
ConnectionLost(d) ==
  /\ pc[d] \in {"first", "second", "loop"}
  /\ End(d, "ConnectionLost")

-----------------------------------------------------------------------------
(* The compositor.                                                          *)

Event(type, name) == [type |-> type, name |-> name]

SendGlobals(d) ==
  /\ asked[d] # << >> /\ Head(asked[d]) = "get_registry"
  /\ \E order \in SetToSeqs(globals) :
       wire' = [wire EXCEPT ![d] = @ \o [i \in 1..Len(order) |-> Event("global", order[i])]]
  /\ asked' = [asked EXCEPT ![d] = Tail(@)]
  /\ UNCHANGED <<pc, outcome, fileVars, globals, changes, found, present>>

SendDone(d) ==
  /\ asked[d] # << >> /\ Head(asked[d]) = "sync"
  /\ wire' = [wire EXCEPT ![d] = Append(@, Event("done", ""))]
  /\ present' = [present EXCEPT ![d] = globals]
  /\ asked' = [asked EXCEPT ![d] = Tail(@)]
  /\ UNCHANGED <<pc, outcome, fileVars, globals, changes, found>>

\* Clients whose registry the compositor has created.
Registered(d) ==
  /\ pc[d] \in {"first", "second", "check", "loop"}
  /\ \A i \in 1..Len(asked[d]) : asked[d][i] # "get_registry"

Change(g) ==
  /\ changes < MaxChanges /\ changes' = changes + 1
  /\ globals' = IF g \in globals THEN globals \ {g} ELSE globals \cup {g}
  /\ LET event == Event(IF g \in globals THEN "removed" ELSE "global", g)
     IN  wire' = [d \in Daemons |->
                    IF Registered(d) THEN Append(wire[d], event) ELSE wire[d]]
  /\ UNCHANGED <<pc, outcome, fileVars, asked, found, present>>

\* Every start this instance allows has been made and has ended.
Idle ==
  /\ \A d \in Daemons : pc[d] = "off"
  /\ binds = MaxBinds /\ UNCHANGED vars

-----------------------------------------------------------------------------
\* What a start does by itself, one way or the other.
Advance(d) ==
  \/ Unlink(d) \/ Bind(d) \/ AddressInUse(d) \/ Connect(d)
  \/ DispatchRegistry(d) \/ FirstRoundtrip(d) \/ SecondRoundtrip(d)
  \/ NoSeat(d) \/ NoManager(d) \/ EnterLoop(d)

Compositor(d) == SendGlobals(d) \/ SendDone(d)

Next ==
  \/ \E d \in Daemons :
       \/ Start(d) \/ Advance(d) \/ Compositor(d)
       \/ BindError(d) \/ ConnectFails(d) \/ ConnectionLost(d) \/ Kill(d)
  \/ \E g \in Needed : Change(g)
  \/ Idle

Spec == Init /\ [][Next]_vars

\* A process that was started runs, and the compositor answers.  Failures
\* and signals are not relied on.
FairSpec == Spec /\ \A d \in Daemons : WF_vars(Advance(d)) /\ WF_vars(Compositor(d))

-----------------------------------------------------------------------------
(* Properties.                                                              *)

\* A socket file left by a killed daemon never stops the next start (comment
\* of bind): one that finds the address in use has raced with another start
\* that bound after this one's unlink.
StaleSocketNeverBlocks ==
  \A d \in Daemons : outcome[d] = "AddressInUse" => binds > cleared[d]

\* A live daemon that clients can reach by the path loses the path only to
\* another start's unlink, never to some process ending.
NameKept ==
  [][ \A d \in Daemons :
        path # 0 /\ path = listener[d] /\ path' # path /\ listener'[d] = listener[d] =>
          \E e \in Daemons \ {d} : pc[e] = "unlink" /\ pc'[e] = "bind" ]_vars

\* Boot gives up for want of a global only if the compositor did not offer it
\* when it answered the last roundtrip, in whatever order the events came.
BootFindsGlobals ==
  \A d \in Daemons :
    /\ outcome[d] = "NoSeat" => "wl_seat" \notin present[d]
    /\ outcome[d] = "NoManager" => "ext_data_control_manager_v1" \notin present[d]

\* A start ends in the loop or in an error, never in a wait: not for the
\* path, not for a global that does not come.
BootEnds == \A d \in Daemons : pc[d] = "unlink" ~> pc[d] \in {"loop", "off"}
==============================================================================

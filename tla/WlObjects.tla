------------------------------ MODULE WlObjects ------------------------------
(***************************************************************************)
(* The Wayland objects uclip_daemon holds: AppState's cache of offered      *)
(* types, the current selection's offer, the queue of pipe reads and the    *)
(* data source it owns, against a compositor that answers over a socket.    *)
(*                                                                          *)
(* The compositor names offers by ids it uses again once the client has     *)
(* destroyed them; two proxies are equal when they are one object.          *)
(***************************************************************************)
EXTENDS Naturals, Sequences, FiniteSets, SequencesExt, Functions

CONSTANTS
  Ids,          \* protocol ids the compositor gives to offers: 0 is no object
  Types,        \* MIME types
  Readable,     \* those pick_mimes keeps
  MaxOffers,    \* bound: offers announced
  MaxRestores   \* bound: restores

ASSUME ObjectAssumption ==
  /\ 0 \notin Ids
  /\ IsFiniteSet(Types) /\ Readable \subseteq Types
  /\ MaxOffers \in Nat /\ MaxRestores \in Nat

VARIABLES
  pc,                 \* phase of the loop
  device,             \* state.device is Some
  offers,             \* AppState::offers: types cached by protocol id
  current_selection,
  pending_reads,      \* as a set: their order is ClipLoop's concern
  current_source,
  created,            \* sources created so far: they are numbered
  queue,              \* events in the event queue
  wire,               \* events sent by the compositor and not read
  requests,           \* requests the compositor has not processed
  announced,          \* offers created so far
  alive,              \* offers the compositor has not seen destroyed
  primaries,          \* offers announced for the primary selection
  selection,          \* the source of the selection: none, a peer's or ours
  finished            \* the compositor has revoked the device

clientVars == <<pc, device, offers, current_selection, pending_reads,
                current_source, created>>
compositorVars == <<wire, announced, alive, primaries, selection, finished>>
vars == <<clientVars, queue, requests, compositorVars>>

\* The protocol id and what tells two offers with the same id apart.
Offer == [id : Ids, n : 1..MaxOffers]
Source == 1..MaxRestores

\* No offer, no source: None in the code.
NoOffer == [id |-> 0, n |-> 0]
NoSource == 0

\* The source of another client.
PeerSource == MaxRestores + 1

\* Only the NULL selection is one of no offer; a NULL primary selection is
\* ignored like the others.
Event ==
  [type : {"DataOffer", "PrimarySelection"}, offer : Offer]
    \cup [type : {"Selection"}, offer : Offer \cup {NoOffer}]
    \cup [type : {"Offer"}, offer : Offer, mime : Types]
    \cup [type : {"Cancelled"}, source : Source]
    \cup [type : {"Finished"}]

Request ==
  [type : {"DestroyOffer"}, offer : Offer]
    \cup [type : {"SetSelection", "DestroySource"}, source : Source]

DestroyOffer(o) == [type |-> "DestroyOffer", offer |-> o]
SetSelection(s) == [type |-> "SetSelection", source |-> s]
DestroySource(s) == [type |-> "DestroySource", source |-> s]

Init ==
  /\ pc = "dispatch" /\ device = TRUE
  /\ offers = << >> /\ current_selection = NoOffer /\ pending_reads = {}
  /\ current_source = NoSource /\ created = 0
  /\ queue = << >> /\ wire = << >> /\ requests = << >>
  /\ announced = 0 /\ alive = {} /\ primaries = {}
  /\ selection = NoSource /\ finished = FALSE

-----------------------------------------------------------------------------
(* The compositor.                                                          *)

\* A new selection replaces the old one: our source, if it was that, is told.
Cancelling == IF selection \in Source
              THEN <<[type |-> "Cancelled", source |-> selection]>> ELSE << >>

\* data_offer, an offer for each type and (primary_)selection, in one go.
Announce(o, types, type) ==
  <<[type |-> "DataOffer", offer |-> o]>>
    \o SetToSeq({[type |-> "Offer", offer |-> o, mime |-> t] : t \in types})
    \o <<[type |-> type, offer |-> o]>>

\* An offer gets an id no live offer has, used before or not.
FreshOffers == [id : Ids \ {o.id : o \in alive}, n : {announced + 1}]

NewOffer(o) ==
  /\ announced < MaxOffers
  /\ announced' = announced + 1 /\ alive' = alive \cup {o}

\* Another client copies.
PeerCopy ==
  /\ ~finished
  /\ \E o \in FreshOffers, types \in SUBSET Types :
       /\ NewOffer(o)
       /\ wire' = wire \o Cancelling \o Announce(o, types, "Selection")
  /\ selection' = PeerSource
  /\ UNCHANGED <<clientVars, queue, requests, primaries, finished>>

\* Another client selects text with the mouse.
PeerSelect ==
  /\ ~finished
  /\ \E o \in FreshOffers, types \in SUBSET Types :
       /\ NewOffer(o) /\ primaries' = primaries \cup {o}
       /\ wire' = wire \o Announce(o, types, "PrimarySelection")
  /\ UNCHANGED <<clientVars, queue, requests, selection, finished>>

\* The owner of the selection goes away.
PeerLeaves ==
  /\ selection = PeerSource /\ selection' = NoSource
  /\ wire' = Append(wire, [type |-> "Selection", offer |-> NoOffer])
  /\ UNCHANGED <<clientVars, queue, requests, announced, alive, primaries, finished>>

\* The seat goes away, and its selection with it.
Revoke ==
  /\ ~finished /\ finished' = TRUE
  /\ selection' = NoSource
  /\ wire' = wire \o Cancelling \o <<[type |-> "Finished"]>>
  /\ UNCHANGED <<clientVars, queue, requests, announced, alive, primaries>>

NextRequest(type) == requests # << >> /\ Head(requests).type = type

OfferDestroyed ==
  /\ NextRequest("DestroyOffer")
  /\ requests' = Tail(requests)
  /\ alive' = alive \ {Head(requests).offer}
  /\ UNCHANGED <<clientVars, queue, wire, announced, primaries, selection, finished>>

\* Our selection is announced to us like any other.
SelectionSet ==
  /\ NextRequest("SetSelection") /\ ~finished
  /\ requests' = Tail(requests)
  /\ selection' = Head(requests).source
  /\ \E o \in FreshOffers :
       /\ NewOffer(o)
       /\ wire' = wire \o Cancelling \o Announce(o, Types, "Selection")
  /\ UNCHANGED <<clientVars, queue, primaries, finished>>

\* A revoked device is inert.
SelectionIgnored ==
  /\ NextRequest("SetSelection") /\ finished
  /\ requests' = Tail(requests)
  /\ UNCHANGED <<clientVars, queue, compositorVars>>

SourceDestroyed ==
  /\ NextRequest("DestroySource")
  /\ requests' = Tail(requests)
  /\ IF selection = Head(requests).source
     THEN /\ selection' = NoSource
          /\ wire' = Append(wire, [type |-> "Selection", offer |-> NoOffer])
     ELSE UNCHANGED <<selection, wire>>
  /\ UNCHANGED <<clientVars, queue, announced, alive, primaries, finished>>

Compositor ==
  \/ PeerCopy \/ PeerSelect \/ PeerLeaves \/ Revoke
  \/ OfferDestroyed \/ SelectionSet \/ SelectionIgnored \/ SourceDestroyed

-----------------------------------------------------------------------------
(* The Wayland thread.                                                      *)

\* flush, then poll, which a silent socket or a signal ends as well.
Poll ==
  /\ pc = "restore" /\ pc' = "polled"
  /\ UNCHANGED <<device, offers, current_selection, pending_reads, current_source,
                 created, queue, requests, compositorVars>>

\* wayland-client takes what is on the socket into the event queue, up to any
\* point of the stream, before the next dispatch_pending.
ReadEvents ==
  /\ pc = "polled" /\ pc' = "dispatch"
  /\ \E n \in 0..Len(wire) :
       /\ queue' = queue \o SubSeq(wire, 1, n)
       /\ wire' = SubSeq(wire, n + 1, Len(wire))
  /\ UNCHANGED <<device, offers, current_selection, pending_reads, current_source,
                 created, requests, announced, alive, primaries, selection, finished>>

\* dispatch_pending calls the handler of each queued event in turn.
Handling(type) ==
  /\ pc = "dispatch" /\ queue # << >> /\ Head(queue).type = type
  /\ queue' = Tail(queue)
  /\ UNCHANGED <<pc, created, compositorVars>>

DispatchDone ==
  /\ pc = "dispatch" /\ queue = << >> /\ pc' = "drain"
  /\ UNCHANGED <<device, offers, current_selection, pending_reads, current_source,
                 created, queue, requests, compositorVars>>

\* The cache with these types under id.
WithTypes(id, types) ==
  [i \in DOMAIN offers \cup {id} |-> IF i = id THEN types ELSE offers[i]]

\* insert_offer: whatever was cached under the id is reset.
OnDataOffer ==
  /\ Handling("DataOffer")
  /\ offers' = WithTypes(Head(queue).offer.id, {})
  /\ UNCHANGED <<device, current_selection, pending_reads, current_source, requests>>

\* push_offer_mime, which creates the entry when it is missing.
OnOffer ==
  /\ Handling("Offer")
  /\ LET id == Head(queue).offer.id
         cached == IF id \in DOMAIN offers THEN offers[id] ELSE {}
     IN  offers' = WithTypes(id, cached \cup {Head(queue).mime})
  /\ UNCHANGED <<device, current_selection, pending_reads, current_source, requests>>

\* Mutated form of Replaced: the previous offer goes only with a NULL one.
ReplacedByNull(new) == IF new = NoOffer THEN {current_selection} \ {NoOffer} ELSE {}

\* The offers clear_selection destroys when new is selected: the previous
\* one, unless there is none or it is the same object.
Replaced(new) == {current_selection} \ {NoOffer, new}

\* Mutated form of Forget: clear_selection leaves the cached types.
ForgetNothing(ids) == offers

\* The cache without these ids.
Forget(ids) == Restrict(offers, DOMAIN offers \ ids)

\* clear_selection: both the proxy and its cached types go.
Clear(old) ==
  /\ offers' = Forget({o.id : o \in old})
  /\ requests' = requests \o SetToSeq({DestroyOffer(o) : o \in old})

\* Mutated form of Requested: without pick_mimes.
RequestedAll(cache, o) == IF o.id \in DOMAIN cache THEN cache[o.id] ELSE {}

\* The types asked for: what pick_mimes keeps of those cached for the offer,
\* none when it is unknown.
Requested(cache, o) == IF o.id \in DOMAIN cache THEN cache[o.id] \cap Readable ELSE {}

\* A pipe for each requested type; opening it or asking for the data may fail.
OnSelection ==
  /\ Handling("Selection")
  /\ LET new == Head(queue).offer
     IN  /\ Clear(Replaced(new))
         /\ current_selection' = new
         /\ \E opened \in SUBSET Requested(offers', new) :
              pending_reads' = pending_reads \cup [offer : {new}, mime : opened]
  /\ UNCHANGED <<device, current_source>>

\* Ignored: its offer is neither used nor destroyed.
OnPrimarySelection ==
  /\ Handling("PrimarySelection")
  /\ UNCHANGED <<device, offers, current_selection, pending_reads, current_source,
                 requests>>

OnFinished ==
  /\ Handling("Finished")
  /\ device' = FALSE
  /\ Clear(Replaced(NoOffer)) /\ current_selection' = NoOffer
  /\ UNCHANGED <<pending_reads, current_source>>

\* Mutated form of Active: whatever source is owned is taken.
ActiveAny(source) == current_source # NoSource

\* take_source_if_active: the event may be for a source replaced since.
Active(source) == current_source = source

OnCancelled ==
  /\ Handling("Cancelled")
  /\ IF Active(Head(queue).source)
     THEN /\ current_source' = NoSource
          /\ requests' = Append(requests, DestroySource(current_source))
     ELSE UNCHANGED <<current_source, requests>>
  /\ UNCHANGED <<device, offers, current_selection, pending_reads>>

\* Mutated form of Drain: what could not be read is tried again next time.
DrainRead ==
  /\ pc = "drain" /\ pc' = "restore"
  /\ \E read \in SUBSET pending_reads :
       /\ offers' = Forget({r.offer.id : r \in read})
       /\ pending_reads' = pending_reads \ read
  /\ UNCHANGED <<device, current_selection, current_source, created, queue,
                 requests, compositorVars>>

\* drain_pending_reads: the queue is emptied, whichever reads succeed; the
\* types of an offer that was read are dropped.
Drain ==
  /\ pc = "drain" /\ pc' = "restore"
  /\ \E read \in SUBSET pending_reads : offers' = Forget({r.offer.id : r \in read})
  /\ pending_reads' = {}
  /\ UNCHANGED <<device, current_selection, current_source, created, queue,
                 requests, compositorVars>>

\* Mutated form of Reselect: the previous source goes first.
ReselectLate(source, old) ==
  SetToSeq({DestroySource(s) : s \in old}) \o <<SetSelection(source)>>

\* The previous source is destroyed after the new selection is set.
Reselect(source, old) ==
  <<SetSelection(source)>> \o SetToSeq({DestroySource(s) : s \in old})

\* restore_entry, for an entry of the history; without a device it is refused
\* and changes nothing.
Restore ==
  /\ pc = "restore" /\ device /\ created < MaxRestores
  /\ created' = created + 1 /\ current_source' = created'
  /\ requests' = requests \o Reselect(created', {current_source} \ {NoSource})
  /\ UNCHANGED <<pc, device, offers, current_selection, pending_reads, queue,
                 compositorVars>>

Thread ==
  \/ Poll \/ ReadEvents \/ DispatchDone \/ OnDataOffer \/ OnOffer \/ OnSelection
  \/ OnPrimarySelection \/ OnFinished \/ OnCancelled \/ Drain \/ Restore

Next == Compositor \/ Thread

Spec == Init /\ [][Next]_vars

-----------------------------------------------------------------------------
(* Properties.                                                              *)

\* Offers the thread has not destroyed.
Held == {o \in alive : DestroyOffer(o) \notin ToSet(requests)}

\* Offers whose Selection event the thread has not handled.
Awaited == {o \in alive : [type |-> "Selection", offer |-> o] \in ToSet(queue \o wire)}

\* Every variable has its type.
TypeOK ==
  /\ pc \in {"dispatch", "drain", "restore", "polled"} /\ device \in BOOLEAN
  /\ DOMAIN offers \subseteq Ids /\ \A id \in DOMAIN offers : offers[id] \subseteq Types
  /\ current_selection \in Offer \cup {NoOffer}
  /\ pending_reads \subseteq [offer : Offer, mime : Readable]
  /\ current_source \in Source \cup {NoSource} /\ created \in 0..MaxRestores
  /\ queue \in Seq(Event) /\ wire \in Seq(Event) /\ requests \in Seq(Request)
  /\ announced \in 0..MaxOffers /\ alive \subseteq Offer /\ primaries \subseteq Offer
  /\ selection \in {NoSource, PeerSource} \cup Source /\ finished \in BOOLEAN

\* Previous offers are destroyed on a new or NULL selection (README, key
\* invariants): besides the current one and those still to be handled, only
\* offers of the primary selection are left.
NoOfferLeak == Held \subseteq {current_selection} \cup Awaited \cup primaries

\* Cached types never outlive the offer they belong to, so an id that is used
\* again does not meet them.
CacheKept == DOMAIN offers \subseteq {o.id : o \in Held}

\* Reads that drain_pending_reads groups under one offer id are of one offer:
\* a reused id never mixes two copies into an entry.
ReadsOfOneOffer ==
  \A r, s \in pending_reads : r.offer.id = s.offer.id => r.offer = s.offer

\* The source that has the selection is the owned one, or one the thread has
\* already replaced: a stale Cancelled never clobbers the replacement.
SelectedSourceOwned ==
  selection \in Source =>
    \/ current_source = selection
    \/ \E s \in Source : SetSelection(s) \in ToSet(requests)

\* Nothing the thread asks for leaves the compositor without a selection
\* (state.rs: no selection gap).
NoSelectionGap ==
  [][ requests # << >> /\ requests' = Tail(requests) /\ selection # NoSource
        => selection' # NoSource ]_vars
==============================================================================

--------------------------- MODULE WlObjectsProofs ---------------------------
(***************************************************************************)
(* Proofs about WlObjects, for any protocol ids, types and bounds.          *)
(***************************************************************************)
EXTENDS WlObjects, SequenceTheorems, FiniteSetTheorems, TLAPS

-----------------------------------------------------------------------------
(* Sequences.                                                               *)

LEMMA InConcat ==
  ASSUME NEW T, NEW s \in Seq(T), NEW t \in Seq(T)
  PROVE  ToSet(s \o t) = ToSet(s) \cup ToSet(t)
<1>1. /\ Len(s \o t) = Len(s) + Len(t) /\ Len(s) \in Nat /\ Len(t) \in Nat
      /\ \A i \in 1..Len(s) + Len(t) :
           (s \o t)[i] = IF i <= Len(s) THEN s[i] ELSE t[i - Len(s)]
      /\ DOMAIN s = 1..Len(s) /\ DOMAIN t = 1..Len(t) /\ s \o t \in Seq(T)
      /\ DOMAIN (s \o t) = 1..(Len(s) + Len(t))
  BY ConcatProperties
<1>2. ASSUME NEW i \in DOMAIN s PROVE s[i] \in ToSet(s \o t)
  BY <1>1 DEF ToSet
<1>3. ASSUME NEW i \in DOMAIN t PROVE t[i] \in ToSet(s \o t)
  <2>1. Len(s) + i \in DOMAIN (s \o t) /\ (s \o t)[Len(s) + i] = t[i]
    BY <1>1
  <2> QED BY <2>1 DEF ToSet
<1>4. ASSUME NEW i \in DOMAIN (s \o t) PROVE (s \o t)[i] \in ToSet(s) \cup ToSet(t)
  <2>1. CASE i <= Len(s)
    BY <1>1, <2>1 DEF ToSet
  <2>2. CASE i > Len(s)
    <3>1. i - Len(s) \in DOMAIN t /\ (s \o t)[i] = t[i - Len(s)]
      BY <1>1, <2>2
    <3> QED BY <3>1 DEF ToSet
  <2> QED BY <1>1, <2>1, <2>2
<1> QED BY <1>2, <1>3, <1>4 DEF ToSet

LEMMA InAppend ==
  ASSUME NEW T, NEW s \in Seq(T), NEW e \in T
  PROVE  /\ Append(s, e) \in Seq(T)
         /\ ToSet(Append(s, e)) = ToSet(s) \cup {e}
<1>1. Append(s, e) = s \o <<e>> /\ <<e>> \in Seq(T)
  BY AppendIsConcat
<1>2. ToSet(<<e>>) = {e}
  BY DEF ToSet
<1>3. ToSet(s \o <<e>>) = ToSet(s) \cup ToSet(<<e>>)
  BY <1>1, InConcat, ZenonT(30)
<1>4. Append(s, e) \in Seq(T)
  OBVIOUS
<1> QED BY <1>1, <1>2, <1>3, <1>4

LEMMA InQueue ==
  ASSUME NEW T, NEW s \in Seq(T), s # << >>
  PROVE  /\ Head(s) \in T /\ Tail(s) \in Seq(T) /\ Head(s) = s[1] /\ 1 \in 1..Len(s)
         /\ Len(Tail(s)) = Len(s) - 1 /\ Len(s) \in Nat \ {0}
         /\ \A i \in 1..Len(Tail(s)) : i + 1 \in 1..Len(s) /\ Tail(s)[i] = s[i + 1]
         /\ Head(s) \in ToSet(s) /\ ToSet(Tail(s)) \subseteq ToSet(s)
         /\ ToSet(s) = {Head(s)} \cup ToSet(Tail(s))
<1>1. /\ Head(s) \in T /\ Tail(s) \in Seq(T) /\ Head(s) = s[1] /\ 1 \in 1..Len(s)
      /\ Len(Tail(s)) = Len(s) - 1 /\ Len(s) \in Nat \ {0}
      /\ \A i \in 1..Len(Tail(s)) : i + 1 \in 1..Len(s) /\ Tail(s)[i] = s[i + 1]
      /\ DOMAIN s = 1..Len(s) /\ DOMAIN Tail(s) = 1..Len(Tail(s))
  OBVIOUS
<1>2. ASSUME NEW i \in 1..Len(s), i # 1
      PROVE  i - 1 \in 1..Len(Tail(s)) /\ Tail(s)[i - 1] = s[i]
  <2>1. i - 1 \in 1..Len(Tail(s))
    BY <1>1, <1>2
  <2> QED BY <1>1, <2>1
<1>3. ASSUME NEW x \in ToSet(s) PROVE x \in {Head(s)} \cup ToSet(Tail(s))
  <2>1. PICK i \in 1..Len(s) : x = s[i]
    BY <1>1 DEF ToSet
  <2>2. CASE i = 1
    BY <1>1, <2>1, <2>2
  <2>3. CASE i # 1
    BY <1>1, <1>2, <2>1, <2>3 DEF ToSet
  <2> QED BY <2>2, <2>3
<1>4. {Head(s)} \cup ToSet(Tail(s)) \subseteq ToSet(s)
  BY <1>1 DEF ToSet
<1> QED BY <1>1, <1>3, <1>4

LEMMA InRange ==
  ASSUME NEW T, NEW s \in Seq(T)
  PROVE  /\ ToSet(s) \subseteq T
         /\ \A i \in 1..Len(s) : s[i] \in ToSet(s)
         /\ \A x \in ToSet(s) : \E i \in 1..Len(s) : s[i] = x
  BY DEF ToSet

LEMMA Regroup ==
  ASSUME NEW T, NEW s \in Seq(T), NEW t \in Seq(T), NEW u \in Seq(T)
  PROVE  (s \o t) \o u = s \o (t \o u)
<1> DEFINE l == (s \o t) \o u
           r == s \o (t \o u)
<1>1. /\ l \in Seq(T) /\ r \in Seq(T) /\ Len(l) = Len(s) + Len(t) + Len(u) /\ Len(r) = Len(l)
      /\ Len(s) \in Nat /\ Len(t) \in Nat /\ Len(u) \in Nat
  OBVIOUS
<1>2. \A i \in 1..Len(l) : l[i] = r[i]
  OBVIOUS
<1> QED BY <1>1, <1>2, SeqEqual

LEMMA InNothing == ToSet(<< >>) = {}
  BY DEF ToSet

\* A finite set has a sequence of its elements.
LEMMA SequenceOf ==
  ASSUME NEW S, IsFiniteSet(S)
  PROVE  SetToSeq(S) \in [1..Cardinality(S) -> S] /\ SetToSeq(S) \in Seq(S)
<1>1. Cardinality(S) \in Nat /\ ExistsBijection(1..Cardinality(S), S)
  BY FS_CardinalityType
<1>2. \E f \in [1..Cardinality(S) -> S] : IsInjective(f)
  BY <1>1 DEF ExistsBijection, Bijection, Injection
<1>3. SetToSeq(S) \in [1..Cardinality(S) -> S]
  BY <1>2 DEF SetToSeq
<1> QED BY <1>1, <1>3

LEMMA SequenceOfOne ==
  /\ SetToSeq({}) = << >>
  /\ \A x : SetToSeq({x}) = <<x>>
<1>1. SetToSeq({}) = << >>
  <2>1. IsFiniteSet({}) /\ Cardinality({}) = 0
    BY FS_EmptySet
  <2>2. SetToSeq({}) \in Seq({}) /\ SetToSeq({}) \in [1..0 -> {}]
    BY <2>1, SequenceOf
  <2> QED BY <2>2
<1>2. ASSUME NEW x PROVE SetToSeq({x}) = <<x>>
  <2>1. IsFiniteSet({x}) /\ Cardinality({x}) = 1
    BY FS_Singleton
  <2>2. SetToSeq({x}) \in Seq({x}) /\ SetToSeq({x}) \in [1..1 -> {x}]
    BY <2>1, SequenceOf
  <2>3. Len(SetToSeq({x})) = 1 /\ SetToSeq({x})[1] = x
    BY <2>2
  <2>4. <<x>> \in Seq({x}) /\ Len(<<x>>) = 1 /\ <<x>>[1] = x
    OBVIOUS
  <2> QED BY <2>2, <2>3, <2>4, SeqEqual
<1> QED BY <1>1, <1>2

-----------------------------------------------------------------------------
(* Events and requests.                                                     *)

OfferEvents == {"DataOffer", "Offer", "Selection", "PrimarySelection"}

\* Event e is about offer o.
About(e, o) == e.type \in OfferEvents /\ e.offer = o

Cancelled(s) == [type |-> "Cancelled", source |-> s]

LEMMA NoObjects ==
  /\ NoOffer \notin Offer /\ NoOffer.id = 0
  /\ NoSource \notin Source /\ PeerSource \notin Source /\ NoSource # PeerSource
  BY ObjectAssumption DEF NoOffer, Offer, NoSource, Source, PeerSource

LEMMA EventFacts ==
  ASSUME NEW e \in Event
  PROVE  /\ e.type \in OfferEvents \cup {"Cancelled", "Finished"}
         /\ e.type \in {"DataOffer", "PrimarySelection", "Offer"} => e.offer \in Offer
         /\ e.type = "Selection" => e.offer \in Offer \cup {NoOffer}
         /\ e.type = "Offer" => e.mime \in Types
         /\ e.type = "Cancelled" => e.source \in Source /\ e = Cancelled(e.source)
  BY DEF Event, OfferEvents, Cancelled

LEMMA EventTypes ==
  /\ \A o \in Offer : /\ [type |-> "DataOffer", offer |-> o] \in Event
                      /\ [type |-> "Selection", offer |-> o] \in Event
                      /\ [type |-> "PrimarySelection", offer |-> o] \in Event
                      /\ \A t \in Types : [type |-> "Offer", offer |-> o, mime |-> t] \in Event
  /\ [type |-> "Selection", offer |-> NoOffer] \in Event
  /\ [type |-> "Finished"] \in Event
  /\ \A s \in Source : Cancelled(s) \in Event
  BY DEF Event, Cancelled

LEMMA RequestFacts ==
  /\ \A r \in Request :
       /\ r.type \in {"DestroyOffer", "SetSelection", "DestroySource"}
       /\ r.type = "DestroyOffer" => r.offer \in Offer /\ r = DestroyOffer(r.offer)
       /\ r.type = "SetSelection" => r.source \in Source /\ r = SetSelection(r.source)
       /\ r.type = "DestroySource" => r.source \in Source /\ r = DestroySource(r.source)
  /\ \A o \in Offer : DestroyOffer(o) \in Request
  /\ \A s \in Source : SetSelection(s) \in Request /\ DestroySource(s) \in Request
  BY DEF Request, DestroyOffer, SetSelection, DestroySource

LEMMA RequestFields ==
  /\ \A o : DestroyOffer(o).type = "DestroyOffer" /\ DestroyOffer(o).offer = o
  /\ \A s : SetSelection(s).type = "SetSelection" /\ SetSelection(s).source = s
  /\ \A s : DestroySource(s).type = "DestroySource" /\ DestroySource(s).source = s
  BY DEF DestroyOffer, SetSelection, DestroySource

\* What announces an offer is about that offer, and the selection comes last.
LEMMA AnnounceFacts ==
  ASSUME NEW o \in Offer, NEW types \in SUBSET Types,
         NEW type \in {"Selection", "PrimarySelection"}
  PROVE  /\ Announce(o, types, type) \in Seq(Event)
         /\ \A i \in 1..Len(Announce(o, types, type)) :
              /\ About(Announce(o, types, type)[i], o)
              /\ i # Len(Announce(o, types, type)) =>
                   Announce(o, types, type)[i].type \in {"DataOffer", "Offer"}
         /\ [type |-> type, offer |-> o] \in ToSet(Announce(o, types, type))
<1> DEFINE S == {[type |-> "Offer", offer |-> o, mime |-> t] : t \in types}
           a == <<[type |-> "DataOffer", offer |-> o]>>
           b == SetToSeq(S)
           d == <<[type |-> type, offer |-> o]>>
<1>1. IsFiniteSet(S)
  <2> DEFINE f == [t \in types |-> [type |-> "Offer", offer |-> o, mime |-> t]]
  <2>1. IsFiniteSet(types)
    BY ObjectAssumption, FS_Subset
  <2>2. f \in Surjection(types, S)
    BY DEF Surjection
  <2> QED BY <2>1, <2>2, FS_Surjection
<1>2. S \subseteq Event
  BY EventTypes
<1>3. b \in Seq(S)
  BY <1>1, SequenceOf
<1>5. \A e \in S : e.type = "Offer" /\ e.offer = o
  OBVIOUS
<1>6. /\ a \in Seq(Event) /\ Len(a) = 1 /\ a[1].type = "DataOffer" /\ a[1].offer = o
      /\ d \in Seq(Event) /\ Len(d) = 1 /\ d[1].type = type /\ d[1].offer = o
      /\ d[1] = [type |-> type, offer |-> o]
  <2>1. /\ [type |-> "DataOffer", offer |-> o] \in Event
        /\ [type |-> type, offer |-> o] \in Event
    BY EventTypes
  <2> QED BY <2>1
<1>7. Announce(o, types, type) = (a \o b) \o d
  BY DEF Announce
<1> HIDE DEF a, b, d, S
<1>4. b \in Seq(Event) /\ \A i \in 1..Len(b) : b[i] \in S
  BY <1>2, <1>3
<1> DEFINE ab == a \o b
<1>8. /\ ab \in Seq(Event) /\ Len(ab) = Len(b) + 1 /\ Len(b) \in Nat
      /\ ab[1] = a[1] /\ \A i \in 2..Len(ab) : i - 1 \in 1..Len(b) /\ ab[i] = b[i - 1]
  <2>1. /\ ab \in Seq(Event) /\ Len(ab) = Len(a) + Len(b)
        /\ \A i \in 1..Len(a) + Len(b) :
             ab[i] = IF i <= Len(a) THEN a[i] ELSE b[i - Len(a)]
    BY <1>4, <1>6, ConcatProperties
  <2>2. Len(a) = 1 /\ Len(b) \in Nat
    BY <1>4, <1>6
  <2> HIDE DEF ab
  <2> QED BY <2>1, <2>2
<1>9. \A i \in 1..Len(ab) : ab[i].type \in {"DataOffer", "Offer"} /\ ab[i].offer = o
  <2>1. \A i \in 1..Len(ab) : i = 1 \/ i \in 2..Len(ab)
    BY <1>8
  <2> QED BY <1>4, <1>5, <1>6, <1>8, <2>1
<1> HIDE DEF ab
<1> DEFINE r == ab \o d
<1>10. /\ r \in Seq(Event) /\ Len(r) = Len(ab) + 1 /\ Len(ab) \in Nat
       /\ \A i \in 1..Len(r) : i # Len(r) => i \in 1..Len(ab) /\ r[i] = ab[i]
       /\ r[Len(r)] = d[1] /\ Len(r) \in DOMAIN r
  BY <1>6, <1>8, ConcatProperties, SMTT(30)
<1>11. r = Announce(o, types, type)
  BY <1>7 DEF ab
<1> HIDE DEF r
<1>12. ASSUME NEW i \in 1..Len(r)
       PROVE  About(r[i], o) /\ (i # Len(r) => r[i].type \in {"DataOffer", "Offer"})
  <2>1. CASE i = Len(r)
    BY <1>6, <1>10, <2>1 DEF About, OfferEvents
  <2>2. CASE i # Len(r)
    BY <1>9, <1>10, <2>2 DEF About, OfferEvents
  <2> QED BY <2>1, <2>2
<1>13. [type |-> type, offer |-> o] \in ToSet(r)
  BY <1>6, <1>10 DEF ToSet
<1> QED BY <1>10, <1>11, <1>12, <1>13

-----------------------------------------------------------------------------
(* Types.                                                                   *)

LEMMA TypeInit == Init => TypeOK
<1>1. /\ << >> \in Seq(Event) /\ << >> \in Seq(Request) /\ DOMAIN << >> = {}
      /\ 0 \in 0..MaxRestores /\ 0 \in 0..MaxOffers
  BY ObjectAssumption
<1> QED BY <1>1 DEF Init, TypeOK

LEMMA CancellingFacts ==
  ASSUME TypeOK
  PROVE  /\ Cancelling \in Seq(Event)
         /\ \/ Cancelling = << >> /\ selection \notin Source
            \/ Cancelling = <<Cancelled(selection)>> /\ selection \in Source
  BY EventTypes DEF Cancelling, TypeOK, Cancelled

LEMMA TypeCompositor ==
  ASSUME TypeOK, Compositor
  PROVE  TypeOK'
<1>0. /\ wire \in Seq(Event) /\ requests \in Seq(Request) /\ Cancelling \in Seq(Event)
      /\ announced \in 0..MaxOffers /\ MaxOffers \in Nat
  BY CancellingFacts, ObjectAssumption DEF TypeOK
<1>1. ASSUME NEW o \in FreshOffers, NewOffer(o)
      PROVE  o \in Offer /\ announced' \in 0..MaxOffers /\ alive' \subseteq Offer
  BY <1>0, <1>1 DEF FreshOffers, NewOffer, Offer, TypeOK
<1>2. ASSUME requests # << >>
      PROVE  Tail(requests) \in Seq(Request) /\ Head(requests) \in Request
  BY <1>0, <1>2, InQueue
<1>3. CASE PeerCopy
  <2>1. PICK o \in FreshOffers, types \in SUBSET Types :
           NewOffer(o) /\ wire' = (wire \o Cancelling) \o Announce(o, types, "Selection")
    BY <1>3 DEF PeerCopy
  <2>2. Announce(o, types, "Selection") \in Seq(Event)
    BY <1>1, <2>1, AnnounceFacts
  <2>3. wire' \in Seq(Event)
    BY <1>0, <2>1, <2>2
  <2> QED BY <1>1, <1>3, <2>1, <2>3 DEF PeerCopy, TypeOK, clientVars
<1>4. CASE PeerSelect
  <2>1. PICK o \in FreshOffers, types \in SUBSET Types :
           /\ NewOffer(o) /\ primaries' = primaries \cup {o}
           /\ wire' = wire \o Announce(o, types, "PrimarySelection")
    BY <1>4 DEF PeerSelect
  <2>2. Announce(o, types, "PrimarySelection") \in Seq(Event)
    BY <1>1, <2>1, AnnounceFacts
  <2>3. wire' \in Seq(Event)
    BY <1>0, <2>1, <2>2
  <2> QED BY <1>1, <1>4, <2>1, <2>3 DEF PeerSelect, TypeOK, clientVars
<1>5. CASE PeerLeaves
  <2>1. wire' \in Seq(Event)
    BY <1>0, <1>5, EventTypes DEF PeerLeaves
  <2> QED BY <1>5, <2>1 DEF PeerLeaves, TypeOK, clientVars
<1>6. CASE Revoke
  <2>1. wire' \in Seq(Event)
    BY <1>0, <1>6, EventTypes DEF Revoke
  <2> QED BY <1>6, <2>1 DEF Revoke, TypeOK, clientVars
<1>7. CASE OfferDestroyed
  BY <1>2, <1>7 DEF OfferDestroyed, NextRequest, TypeOK, clientVars
<1>8. CASE SelectionSet
  <2>1. PICK o \in FreshOffers :
           NewOffer(o) /\ wire' = (wire \o Cancelling) \o Announce(o, Types, "Selection")
    BY <1>8 DEF SelectionSet
  <2>2. Announce(o, Types, "Selection") \in Seq(Event)
    BY <1>1, <2>1, AnnounceFacts
  <2>3. wire' \in Seq(Event)
    BY <1>0, <2>1, <2>2
  <2>4. /\ requests # << >> /\ Head(requests).type = "SetSelection"
        /\ requests' = Tail(requests) /\ selection' = Head(requests).source
        /\ UNCHANGED <<clientVars, queue, primaries, finished>>
    BY <1>8 DEF SelectionSet, NextRequest
  <2>5. selection' \in Source
    BY <1>2, <2>4, RequestFacts
  <2> QED BY <1>1, <1>2, <2>1, <2>3, <2>4, <2>5 DEF TypeOK, clientVars
<1>9. CASE SelectionIgnored
  BY <1>2, <1>9 DEF SelectionIgnored, NextRequest, TypeOK, clientVars, compositorVars
<1>10. CASE SourceDestroyed
  <2>1. wire' \in Seq(Event) /\ selection' \in {NoSource, PeerSource} \cup Source
    <3>1. Append(wire, [type |-> "Selection", offer |-> NoOffer]) \in Seq(Event)
      BY <1>0, EventTypes
    <3>2. CASE selection = Head(requests).source
      BY <1>10, <3>1, <3>2 DEF SourceDestroyed
    <3>3. CASE selection # Head(requests).source
      BY <1>10, <3>3 DEF SourceDestroyed, TypeOK
    <3> QED BY <3>2, <3>3
  <2> QED BY <1>2, <1>10, <2>1 DEF SourceDestroyed, NextRequest, TypeOK, clientVars
<1> QED BY <1>3, <1>4, <1>5, <1>6, <1>7, <1>8, <1>9, <1>10 DEF Compositor

\* What the compositor has sent and the thread has not handled.
Stream == queue \o wire

LEMMA StreamType == TypeOK => Stream \in Seq(Event)
  BY DEF TypeOK, Stream

LEMMA HandlingFacts ==
  ASSUME TypeOK, NEW type, Handling(type)
  PROVE  /\ pc = "dispatch" /\ queue # << >> /\ queue' = Tail(queue)
         /\ Head(queue) \in Event /\ Head(queue).type = type /\ Tail(queue) \in Seq(Event)
         /\ Stream # << >> /\ Head(Stream) = Head(queue) /\ Stream' = Tail(Stream)
         /\ Head(queue) \in ToSet(Stream)
         /\ UNCHANGED <<pc, created, compositorVars>>
<1>1. /\ pc = "dispatch" /\ queue # << >> /\ queue' = Tail(queue) /\ Head(queue).type = type
      /\ UNCHANGED <<pc, created, compositorVars>>
  BY DEF Handling
<1>2. queue \in Seq(Event) /\ wire \in Seq(Event) /\ wire' = wire
  BY <1>1 DEF TypeOK, compositorVars
<1>3. Head(queue) \in Event /\ Tail(queue) \in Seq(Event) /\ Head(queue) \in ToSet(queue)
  BY <1>1, <1>2, InQueue
<1>4. Head(queue) \in ToSet(Stream)
  BY <1>2, <1>3, InConcat DEF Stream
<1>5. /\ queue \o wire # << >> /\ Head(queue \o wire) = Head(queue)
      /\ Tail(queue \o wire) = Tail(queue) \o wire
  <2> DEFINE s == queue \o wire
  <2>1. /\ s \in Seq(Event) /\ Len(s) = Len(queue) + Len(wire)
        /\ \A i \in 1..Len(queue) + Len(wire) :
             s[i] = IF i <= Len(queue) THEN queue[i] ELSE wire[i - Len(queue)]
    BY <1>2, ConcatProperties
  <2>2. /\ Len(queue) \in Nat \ {0} /\ Len(wire) \in Nat /\ Head(queue) = queue[1]
        /\ Len(Tail(queue)) = Len(queue) - 1
        /\ \A i \in 1..Len(Tail(queue)) : Tail(queue)[i] = queue[i + 1]
    BY <1>1, <1>2, InQueue
  <2> HIDE DEF s
  <2>3. s # << >>
    BY <2>1, <2>2
  <2>4. /\ Head(s) = s[1] /\ Tail(s) \in Seq(Event) /\ Len(Tail(s)) = Len(s) - 1
        /\ \A i \in 1..Len(Tail(s)) : Tail(s)[i] = s[i + 1]
    BY <2>1, <2>3, InQueue
  <2> DEFINE t == Tail(queue) \o wire
  <2>5. /\ t \in Seq(Event) /\ Len(t) = Len(Tail(queue)) + Len(wire)
        /\ \A i \in 1..Len(Tail(queue)) + Len(wire) :
             t[i] = IF i <= Len(Tail(queue)) THEN Tail(queue)[i]
                    ELSE wire[i - Len(Tail(queue))]
    BY <1>2, <1>3, ConcatProperties
  <2> HIDE DEF t
  <2>6. Len(Tail(s)) = Len(t)
    BY <2>1, <2>2, <2>4, <2>5
  <2>7. ASSUME NEW i \in 1..Len(t) PROVE Tail(s)[i] = t[i]
    BY <2>1, <2>2, <2>4, <2>5, <2>6
  <2>8. Tail(s) = t
    BY <2>4, <2>5, <2>6, <2>7, SeqEqual
  <2> QED BY <2>1, <2>2, <2>3, <2>4, <2>8 DEF s, t
<1> QED BY <1>1, <1>2, <1>3, <1>4, <1>5 DEF Stream

LEMMA ReadEventsFacts ==
  ASSUME TypeOK, ReadEvents
  PROVE  /\ queue' \in Seq(Event) /\ wire' \in Seq(Event) /\ Stream' = Stream
         /\ ToSet(queue') \subseteq ToSet(Stream)
<1>1. PICK n \in 0..Len(wire) : /\ queue' = queue \o SubSeq(wire, 1, n)
                                /\ wire' = SubSeq(wire, n + 1, Len(wire))
  BY DEF ReadEvents
<1>2. queue \in Seq(Event) /\ wire \in Seq(Event) /\ Len(wire) \in Nat
  BY DEF TypeOK
<1>3. SubSeq(wire, 1, n) \in Seq(Event) /\ SubSeq(wire, n + 1, Len(wire)) \in Seq(Event)
  BY <1>2
<1>4. SubSeq(wire, 1, n) \o SubSeq(wire, n + 1, Len(wire)) = wire
  <2>1. /\ 1 \in 1..(Len(wire) + 1) /\ n \in (1 - 1)..Len(wire) /\ Len(wire) \in n..Len(wire)
    BY <1>2
  <2>2. SubSeq(wire, 1, n) \o SubSeq(wire, n + 1, Len(wire)) = SubSeq(wire, 1, Len(wire))
    BY <1>2, <2>1, ConcatAdjacentSubSeq
  <2> QED BY <1>2, <2>2, SubSeqFull
<1>5. Stream' = Stream
  <2> DEFINE a == SubSeq(wire, 1, n)
             b == SubSeq(wire, n + 1, Len(wire))
  <2>1. a \in Seq(Event) /\ b \in Seq(Event) /\ a \o b = wire
        /\ queue' = queue \o a /\ wire' = b
    BY <1>1, <1>3, <1>4
  <2> HIDE DEF a, b
  <2>2. \A s, t, u \in Seq(Event) : (s \o t) \o u = s \o (t \o u)
    BY Regroup, SMTT(30)
  <2>3. queue \in Seq(Event)
    BY <1>2
  <2>4. (queue \o a) \o b = queue \o (a \o b)
    BY <2>1, <2>2, <2>3, ZenonT(30)
  <2> QED BY <2>1, <2>4 DEF Stream
<1>6. queue' \in Seq(Event) /\ wire' \in Seq(Event)
  BY <1>1, <1>2, <1>3
<1>7. ToSet(queue' \o wire') = ToSet(queue') \cup ToSet(wire')
  BY <1>6, InConcat
<1> QED BY <1>5, <1>6, <1>7 DEF Stream

\* clear_selection on what new replaces.
LEMMA ClearFacts ==
  ASSUME TypeOK, NEW new \in Offer \cup {NoOffer}, Clear(Replaced(new))
  PROVE  /\ requests' \in Seq(Request)
         /\ DOMAIN offers' = DOMAIN offers \ {o.id : o \in Replaced(new)}
         /\ \A id \in DOMAIN offers' : offers'[id] = offers[id]
         /\ \/ Replaced(new) = {} /\ requests' = requests
            \/ /\ Replaced(new) = {current_selection} /\ current_selection \in Offer
               /\ requests' = Append(requests, DestroyOffer(current_selection))
         /\ ToSet(requests') = ToSet(requests) \cup {DestroyOffer(o) : o \in Replaced(new)}
<1>1. /\ offers' = [x \in DOMAIN offers \ {o.id : o \in Replaced(new)} |-> offers[x]]
      /\ requests' = requests \o SetToSeq({DestroyOffer(o) : o \in Replaced(new)})
      /\ requests \in Seq(Request)
  <2>1. DOMAIN offers \cap (DOMAIN offers \ {o.id : o \in Replaced(new)})
          = DOMAIN offers \ {o.id : o \in Replaced(new)}
    OBVIOUS
  <2> QED BY <2>1 DEF Clear, Forget, Restrict, TypeOK
<1>2. /\ DOMAIN offers' = DOMAIN offers \ {o.id : o \in Replaced(new)}
      /\ \A id \in DOMAIN offers' : offers'[id] = offers[id]
  BY <1>1
<1>3. CASE Replaced(new) = {}
  <2>1. {DestroyOffer(o) : o \in Replaced(new)} = {}
    BY <1>3
  <2>2. requests' = requests
    BY <1>1, <2>1, SequenceOfOne, ConcatEmptySeq
  <2> QED BY <1>1, <1>2, <1>3, <2>1, <2>2
<1>4. CASE Replaced(new) # {}
  <2>1. Replaced(new) = {current_selection} /\ current_selection \in Offer
    BY <1>4 DEF Replaced, TypeOK
  <2>2. {DestroyOffer(o) : o \in Replaced(new)} = {DestroyOffer(current_selection)}
    BY <2>1
  <2>3. DestroyOffer(current_selection) \in Request
    BY <2>1, RequestFacts
  <2>4. requests' = requests \o <<DestroyOffer(current_selection)>>
    BY <1>1, <2>2, SequenceOfOne
  <2>5. requests' = Append(requests, DestroyOffer(current_selection))
    BY <1>1, <2>3, <2>4, AppendIsConcat
  <2>6. /\ requests' \in Seq(Request)
        /\ ToSet(requests') = ToSet(requests) \cup {DestroyOffer(current_selection)}
    <3>1. /\ Append(requests, DestroyOffer(current_selection)) \in Seq(Request)
          /\ ToSet(Append(requests, DestroyOffer(current_selection)))
               = ToSet(requests) \cup {DestroyOffer(current_selection)}
      BY <1>1, <2>3, InAppend
    <3> QED BY <2>5, <3>1
  <2>7. ToSet(requests') = ToSet(requests) \cup {DestroyOffer(o) : o \in Replaced(new)}
    BY <2>2, <2>6
  <2>8. \/ Replaced(new) = {} /\ requests' = requests
        \/ /\ Replaced(new) = {current_selection} /\ current_selection \in Offer
           /\ requests' = Append(requests, DestroyOffer(current_selection))
    BY <2>1, <2>5
  <2> QED BY <1>2, <2>6, <2>7, <2>8
<1> QED BY <1>3, <1>4

LEMMA TypeHandlers ==
  ASSUME TypeOK,
         OnDataOffer \/ OnOffer \/ OnSelection \/ OnPrimarySelection \/ OnFinished \/ OnCancelled
  PROVE  TypeOK'
<1> DEFINE e == Head(queue)
<1>1. CASE OnDataOffer
  <2>1. Handling("DataOffer") /\ offers' = WithTypes(e.offer.id, {})
        /\ UNCHANGED <<device, current_selection, pending_reads, current_source, requests>>
    BY <1>1 DEF OnDataOffer
  <2>2. /\ e \in Event /\ e.type = "DataOffer" /\ queue' \in Seq(Event)
        /\ UNCHANGED <<pc, created, compositorVars>>
    BY <2>1, HandlingFacts
  <2>3. e.offer.id \in Ids
    BY <2>2, EventFacts DEF Offer
  <2> HIDE DEF e
  <2>4. DOMAIN offers' \subseteq Ids /\ \A id \in DOMAIN offers' : offers'[id] \subseteq Types
    BY <2>1, <2>3 DEF TypeOK, WithTypes
  <2> QED BY <2>1, <2>2, <2>4 DEF TypeOK, compositorVars
<1>2. CASE OnOffer
  <2> DEFINE cached == IF e.offer.id \in DOMAIN offers THEN offers[e.offer.id] ELSE {}
  <2>1. Handling("Offer") /\ offers' = WithTypes(e.offer.id, cached \cup {e.mime})
        /\ UNCHANGED <<device, current_selection, pending_reads, current_source, requests>>
    BY <1>2 DEF OnOffer
  <2>2. /\ e \in Event /\ e.type = "Offer" /\ queue' \in Seq(Event)
        /\ UNCHANGED <<pc, created, compositorVars>>
    BY <2>1, HandlingFacts
  <2>3. e.offer.id \in Ids /\ e.mime \in Types
    BY <2>2, EventFacts DEF Offer
  <2>4. cached \cup {e.mime} \subseteq Types
    BY <2>3 DEF TypeOK
  <2> HIDE DEF e, cached
  <2>5. DOMAIN offers' \subseteq Ids /\ \A id \in DOMAIN offers' : offers'[id] \subseteq Types
    BY <2>1, <2>3, <2>4 DEF TypeOK, WithTypes
  <2> QED BY <2>1, <2>2, <2>5 DEF TypeOK, compositorVars
<1>3. CASE OnSelection
  <2> DEFINE new == e.offer
  <2>1. /\ Handling("Selection") /\ Clear(Replaced(new)) /\ current_selection' = new
        /\ UNCHANGED <<device, current_source>>
    BY <1>3 DEF OnSelection
  <2>2. PICK opened \in SUBSET Requested(offers', new) :
          pending_reads' = pending_reads \cup [offer : {new}, mime : opened]
    BY <1>3 DEF OnSelection
  <2>3. /\ e \in Event /\ e.type = "Selection" /\ queue' \in Seq(Event)
        /\ UNCHANGED <<pc, created, compositorVars>>
    BY <2>1, HandlingFacts
  <2>4. new \in Offer \cup {NoOffer}
    BY <2>3, EventFacts
  <2> HIDE DEF new, e
  <2>5. /\ requests' \in Seq(Request)
        /\ DOMAIN offers' \subseteq DOMAIN offers
        /\ \A id \in DOMAIN offers' : offers'[id] = offers[id]
    BY <2>1, <2>4, ClearFacts
  <2>6. opened \subseteq Readable /\ (new = NoOffer => opened = {})
    <3>1. new = NoOffer => new.id \notin DOMAIN offers'
      BY <2>5, NoObjects, ObjectAssumption DEF TypeOK
    <3> QED BY <3>1 DEF Requested
  <2>7. pending_reads' \subseteq [offer : Offer, mime : Readable]
    BY <2>2, <2>4, <2>6 DEF TypeOK
  <2> QED BY <2>1, <2>3, <2>4, <2>5, <2>7 DEF TypeOK, compositorVars
<1>4. CASE OnPrimarySelection
  <2>1. /\ Handling("PrimarySelection")
        /\ UNCHANGED <<device, offers, current_selection, pending_reads, current_source,
                       requests>>
    BY <1>4 DEF OnPrimarySelection
  <2>2. queue' \in Seq(Event) /\ UNCHANGED <<pc, created, compositorVars>>
    BY <2>1, HandlingFacts
  <2> QED BY <2>1, <2>2 DEF TypeOK, compositorVars
<1>5. CASE OnFinished
  <2>1. /\ Handling("Finished") /\ device' = FALSE /\ Clear(Replaced(NoOffer))
        /\ current_selection' = NoOffer /\ UNCHANGED <<pending_reads, current_source>>
    BY <1>5 DEF OnFinished
  <2>2. queue' \in Seq(Event) /\ UNCHANGED <<pc, created, compositorVars>>
    BY <2>1, HandlingFacts
  <2>3. /\ requests' \in Seq(Request)
        /\ DOMAIN offers' \subseteq DOMAIN offers
        /\ \A id \in DOMAIN offers' : offers'[id] = offers[id]
    BY <2>1, ClearFacts
  <2> QED BY <2>1, <2>2, <2>3 DEF TypeOK, compositorVars
<1>6. CASE OnCancelled
  <2>1. /\ Handling("Cancelled") /\ UNCHANGED <<device, offers, current_selection, pending_reads>>
        /\ IF Active(e.source)
           THEN /\ current_source' = NoSource
                /\ requests' = Append(requests, DestroySource(current_source))
           ELSE UNCHANGED <<current_source, requests>>
    BY <1>6 DEF OnCancelled
  <2>2. /\ e \in Event /\ e.type = "Cancelled" /\ queue' \in Seq(Event)
        /\ UNCHANGED <<pc, created, compositorVars>>
    BY <2>1, HandlingFacts
  <2>3. e.source \in Source
    BY <2>2, EventFacts
  <2>4. requests' \in Seq(Request) /\ current_source' \in Source \cup {NoSource}
    <3>1. CASE Active(e.source)
      <4>1. DestroySource(current_source) \in Request
        BY <2>3, <3>1, RequestFacts DEF Active
      <4> QED BY <2>1, <3>1, <4>1, SMTT(30) DEF TypeOK
    <3>2. CASE ~Active(e.source)
      BY <2>1, <3>2 DEF TypeOK
    <3> QED BY <3>1, <3>2
  <2> QED BY <2>1, <2>2, <2>4 DEF TypeOK, compositorVars
<1> QED BY <1>1, <1>2, <1>3, <1>4, <1>5, <1>6

LEMMA RestoreFacts ==
  ASSUME TypeOK, Restore
  PROVE  /\ created' = created + 1 /\ created' \in Source /\ current_source' = created'
         /\ requests' \in Seq(Request)
         /\ UNCHANGED <<pc, device, offers, current_selection, pending_reads, queue,
                        compositorVars>>
         /\ \/ /\ current_source = NoSource
               /\ requests' = Append(requests, SetSelection(created'))
            \/ /\ current_source \in Source
               /\ requests' = Append(Append(requests, SetSelection(created')),
                                     DestroySource(current_source))
<1>1. /\ created < MaxRestores /\ created' = created + 1 /\ current_source' = created'
      /\ requests' = requests \o Reselect(created', {current_source} \ {NoSource})
      /\ UNCHANGED <<pc, device, offers, current_selection, pending_reads, queue,
                     compositorVars>>
  BY DEF Restore
<1>2. created' \in Source /\ requests \in Seq(Request)
  BY <1>1, ObjectAssumption DEF TypeOK, Source
<1>3. SetSelection(created') \in Request
  BY <1>2, RequestFacts
<1>4. \A s, t, u \in Seq(Request) : (s \o t) \o u = s \o (t \o u)
  BY Regroup
<1>5. /\ requests \o <<SetSelection(created')>> = Append(requests, SetSelection(created'))
      /\ Append(requests, SetSelection(created')) \in Seq(Request)
      /\ <<SetSelection(created')>> \in Seq(Request)
  BY <1>2, <1>3, AppendIsConcat
<1>6. CASE current_source = NoSource
  <2>1. {DestroySource(s) : s \in {current_source} \ {NoSource}} = {}
    BY <1>6
  <2>2. requests' = requests \o (<<SetSelection(created')>> \o << >>)
    BY <1>1, <2>1, SequenceOfOne DEF Reselect
  <2>3. <<SetSelection(created')>> \o << >> = <<SetSelection(created')>>
    BY <1>5, ConcatEmptySeq
  <2>4. requests' = Append(requests, SetSelection(created'))
    BY <1>5, <2>2, <2>3
  <2> QED BY <1>1, <1>2, <1>5, <1>6, <2>4
<1>7. CASE current_source # NoSource
  <2>1. current_source \in Source
    BY <1>7 DEF TypeOK
  <2>2. {DestroySource(s) : s \in {current_source} \ {NoSource}} = {DestroySource(current_source)}
    BY <1>7
  <2>3. DestroySource(current_source) \in Request
    BY <2>1, RequestFacts
  <2>4. requests' = requests \o (<<SetSelection(created')>> \o <<DestroySource(current_source)>>)
    BY <1>1, <2>2, SequenceOfOne DEF Reselect
  <2>5. <<DestroySource(current_source)>> \in Seq(Request)
    BY <2>3
  <2>6. requests' = Append(requests, SetSelection(created')) \o <<DestroySource(current_source)>>
    BY <1>2, <1>4, <1>5, <2>4, <2>5
  <2>7. /\ requests' = Append(Append(requests, SetSelection(created')),
                              DestroySource(current_source))
        /\ requests' \in Seq(Request)
    BY <1>5, <2>3, <2>6, AppendIsConcat
  <2> QED BY <1>1, <1>2, <2>1, <2>7
<1> QED BY <1>6, <1>7

LEMMA TypeThread ==
  ASSUME TypeOK, Thread
  PROVE  TypeOK'
<1>1. CASE ReadEvents
  BY <1>1, ReadEventsFacts DEF ReadEvents, TypeOK
<1>2. CASE Poll \/ DispatchDone
  BY <1>2 DEF Poll, DispatchDone, TypeOK, compositorVars
<1>3. CASE OnDataOffer \/ OnOffer \/ OnSelection \/ OnPrimarySelection \/ OnFinished
           \/ OnCancelled
  BY <1>3, TypeHandlers
<1>4. CASE Drain
  <2>1. PICK read \in SUBSET pending_reads : offers' = Forget({r.offer.id : r \in read})
    BY <1>4 DEF Drain
  <2>2. DOMAIN offers' \subseteq Ids /\ \A id \in DOMAIN offers' : offers'[id] \subseteq Types
    BY <2>1 DEF Forget, Restrict, TypeOK
  <2> QED BY <1>4, <2>2 DEF Drain, TypeOK, compositorVars
<1>5. CASE Restore
  BY <1>5, RestoreFacts, ObjectAssumption DEF TypeOK, compositorVars, Source
<1> QED BY <1>1, <1>2, <1>3, <1>4, <1>5 DEF Thread

LEMMA TypeStep == TypeOK /\ [Next]_vars => TypeOK'
<1>1. ASSUME TypeOK, UNCHANGED vars PROVE TypeOK'
  BY <1>1 DEF vars, clientVars, compositorVars, TypeOK
<1> QED BY <1>1, TypeCompositor, TypeThread DEF Next

\* Every variable has its type: what is cached is under ids of offers, what is
\* read is of a type pick_mimes keeps, sources and offers are within bounds.
THEOREM TypeCorrect == Spec => []TypeOK
  BY TypeInit, TypeStep, PTL DEF Spec

-----------------------------------------------------------------------------
(* The source that owns the selection.                                      *)

\* The sources a selection is still to be set to, in the requests r.
Asked(r) == {s \in Source : SetSelection(s) \in ToSet(r)}

\* The sources whose Cancelled event is among the events e.
Told(e) == {s \in Source : Cancelled(s) \in ToSet(e)}

\* Sources are asked for in the order they were created.
Increasing(r) ==
  \A i, j \in 1..Len(r) :
    i < j /\ r[i].type = "SetSelection" /\ r[j].type = "SetSelection" =>
      r[i].source < r[j].source

\* With the sources asked for and told of, the source that has the selection
\* (sel), the owned one (own) and n created so far: those created since one
\* that is asked for, or that has the selection, are asked for; the newest one
\* is owned as long as it is asked for or selected; and one that is told of is
\* neither.
SourceOk(asked, told, sel, own, n) ==
  /\ own # NoSource => own = n
  /\ \A s \in asked : s <= n /\ s # sel /\ \A t \in Source : s <= t /\ t <= n => t \in asked
  /\ n \in asked => own = n
  /\ sel \in Source => /\ sel <= n
                       /\ \A t \in Source : sel < t /\ t <= n => t \in asked
                       /\ sel = n => own = n
  /\ \A s \in told : s <= n /\ s # sel /\ s \notin asked

SourceInv ==
  /\ finished => selection = NoSource
  /\ Increasing(requests)
  /\ SourceOk(Asked(requests), Told(Stream), selection, current_source, created)

\* The selection goes to nobody or to a peer, and its source is told.
LEMMA SourceLost ==
  ASSUME NEW asked \in SUBSET Source, NEW told \in SUBSET Source, NEW sel, NEW own,
         NEW n \in Nat, SourceOk(asked, told, sel, own, n),
         NEW sel2, sel2 \notin Source,
         NEW told2 \in SUBSET Source, told2 \subseteq told \cup {sel}
  PROVE  SourceOk(asked, told2, sel2, own, n)
  BY DEF SourceOk

\* The selection is set to the oldest source asked for.
LEMMA SourceSet ==
  ASSUME NEW asked \in SUBSET Source, NEW told \in SUBSET Source, NEW sel, NEW own,
         NEW n \in Nat, SourceOk(asked, told, sel, own, n),
         NEW h \in asked, NEW rest \in SUBSET Source, asked = {h} \cup rest,
         \A s \in rest : h < s,
         NEW told2 \in SUBSET Source, told2 \subseteq told \cup {sel}
  PROVE  SourceOk(rest, told2, h, own, n)
<1>1. \A s \in Source : s \in Nat
  BY DEF Source
<1> QED BY <1>1 DEF SourceOk

\* The same request is ignored.
LEMMA SourceIgnored ==
  ASSUME NEW asked \in SUBSET Source, NEW told \in SUBSET Source, NEW own,
         NEW n \in Nat, SourceOk(asked, told, NoSource, own, n),
         NEW h \in asked, NEW rest \in SUBSET Source, asked = {h} \cup rest,
         \A s \in rest : h < s
  PROVE  SourceOk(rest, told, NoSource, own, n)
<1>1. (\A s \in Source : s \in Nat) /\ NoSource \notin Source
  BY NoObjects DEF Source
<1> QED BY <1>1 DEF SourceOk

\* The owned source turns out to be told of.
LEMMA SourceTold ==
  ASSUME NEW asked \in SUBSET Source, NEW told \in SUBSET Source, NEW sel, NEW own \in told,
         NEW n \in Nat, SourceOk(asked, told, sel, own, n)
  PROVE  SourceOk(asked, told, sel, NoSource, n) /\ own # sel /\ own \notin asked /\ own <= n
<1>1. own # NoSource
  BY NoObjects
<1> QED BY <1>1 DEF SourceOk

\* Events are handled.
LEMMA SourceHandled ==
  ASSUME NEW asked, NEW told, NEW sel, NEW own, NEW n, SourceOk(asked, told, sel, own, n),
         NEW told2 \in SUBSET told
  PROVE  SourceOk(asked, told2, sel, own, n)
  BY DEF SourceOk

\* A new source is created and asked for.
LEMMA SourceCreated ==
  ASSUME NEW asked \in SUBSET Source, NEW told \in SUBSET Source, NEW sel, NEW own,
         NEW n \in Nat, n + 1 \in Source, SourceOk(asked, told, sel, own, n)
  PROVE  SourceOk(asked \cup {n + 1}, told, sel, n + 1, n + 1)
<1>1. \A s \in Source : s \in Nat
  BY DEF Source
<1>2. \A t \in Nat : t <= n + 1 => t <= n \/ t = n + 1
  OBVIOUS
<1> QED BY <1>1, <1>2 DEF SourceOk

LEMMA AskedTail ==
  ASSUME NEW r \in Seq(Request), r # << >>, Increasing(r)
  PROVE  /\ Increasing(Tail(r)) /\ Asked(r) \in SUBSET Source /\ Asked(Tail(r)) \in SUBSET Source
         /\ Head(r).type # "SetSelection" => Asked(Tail(r)) = Asked(r)
         /\ Head(r).type = "SetSelection" =>
              /\ Head(r).source \in Asked(r)
              /\ Asked(r) = {Head(r).source} \cup Asked(Tail(r))
              /\ \A s \in Asked(Tail(r)) : Head(r).source < s
<1>1. /\ Head(r) \in Request /\ Tail(r) \in Seq(Request) /\ Head(r) = r[1] /\ 1 \in 1..Len(r)
      /\ Len(Tail(r)) = Len(r) - 1 /\ Len(r) \in Nat \ {0}
      /\ \A i \in 1..Len(Tail(r)) : i + 1 \in 1..Len(r) /\ Tail(r)[i] = r[i + 1]
      /\ ToSet(r) = {Head(r)} \cup ToSet(Tail(r))
  BY InQueue
<1>2. ASSUME NEW i \in 1..Len(Tail(r)), NEW j \in 1..Len(Tail(r)), i < j,
             Tail(r)[i].type = "SetSelection", Tail(r)[j].type = "SetSelection"
      PROVE  Tail(r)[i].source < Tail(r)[j].source
  <2>1. i + 1 \in 1..Len(r) /\ j + 1 \in 1..Len(r) /\ i + 1 < j + 1
    BY <1>1, <1>2
  <2> QED BY <1>1, <1>2, <2>1 DEF Increasing
<1>3. Increasing(Tail(r))
  BY <1>2 DEF Increasing
<1>4. ASSUME Head(r).type # "SetSelection" PROVE Asked(Tail(r)) = Asked(r)
  <2>1. \A s : SetSelection(s) # Head(r)
    BY <1>4, RequestFields
  <2> QED BY <1>1, <2>1 DEF Asked
<1>5. ASSUME Head(r).type = "SetSelection"
      PROVE  /\ Head(r).source \in Asked(r)
             /\ Asked(r) = {Head(r).source} \cup Asked(Tail(r))
             /\ \A s \in Asked(Tail(r)) : Head(r).source < s
  <2>1. Head(r).source \in Source /\ Head(r) = SetSelection(Head(r).source)
    BY <1>1, <1>5, RequestFacts
  <2>2. \A s : SetSelection(s) = Head(r) => s = Head(r).source
    BY RequestFields
  <2>3. ASSUME NEW s \in Asked(Tail(r)) PROVE Head(r).source < s
    <3>1. PICK i \in 1..Len(Tail(r)) : Tail(r)[i] = SetSelection(s)
      BY <1>1, InRange DEF Asked
    <3>2. /\ i + 1 \in 1..Len(r) /\ 1 < i + 1 /\ r[i + 1] = SetSelection(s)
      BY <1>1, <3>1
    <3>3. r[i + 1].type = "SetSelection" /\ r[i + 1].source = s
      BY <3>2, RequestFields
    <3> QED BY <1>1, <1>5, <3>2, <3>3 DEF Increasing
  <2> QED BY <1>1, <2>1, <2>2, <2>3 DEF Asked
<1> QED BY <1>3, <1>4, <1>5 DEF Asked

LEMMA AskedAppend ==
  ASSUME NEW r \in Seq(Request), NEW x \in Request, Increasing(r)
  PROVE  /\ x.type # "SetSelection" =>
              Asked(Append(r, x)) = Asked(r) /\ Increasing(Append(r, x))
         /\ x.type = "SetSelection" /\ (\A s \in Asked(r) : s < x.source) =>
              Asked(Append(r, x)) = Asked(r) \cup {x.source} /\ Increasing(Append(r, x))
<1> DEFINE t == Append(r, x)
<1>1. /\ Len(t) = Len(r) + 1 /\ Len(r) \in Nat /\ t[Len(t)] = x
      /\ \A i \in 1..Len(r) : t[i] = r[i]
      /\ \A i \in 1..Len(t) : i = Len(t) \/ i \in 1..Len(r)
  OBVIOUS
<1>2. ToSet(t) = ToSet(r) \cup {x}
  BY InAppend
<1> HIDE DEF t
<1>3. ASSUME x.type # "SetSelection" PROVE Asked(t) = Asked(r) /\ Increasing(t)
  <2>1. \A s : SetSelection(s) # x
    BY <1>3, RequestFields
  <2>2. Asked(t) = Asked(r)
    BY <1>2, <2>1 DEF Asked
  <2>3. Increasing(t)
    BY <1>1, <1>3 DEF Increasing
  <2> QED BY <2>2, <2>3
<1>4. ASSUME x.type = "SetSelection", \A s \in Asked(r) : s < x.source
      PROVE  Asked(t) = Asked(r) \cup {x.source} /\ Increasing(t)
  <2>1. x.source \in Source /\ x = SetSelection(x.source)
    BY <1>4, RequestFacts
  <2>2. \A s : SetSelection(s) = x => s = x.source
    BY RequestFields
  <2>3. Asked(t) = Asked(r) \cup {x.source}
    BY <1>2, <2>1, <2>2 DEF Asked
  <2>4. \A i \in 1..Len(r) : r[i].type = "SetSelection" => r[i].source \in Asked(r)
    BY InRange, RequestFacts DEF Asked
  <2>5. ASSUME NEW i \in 1..Len(t), NEW j \in 1..Len(t), i < j,
               t[i].type = "SetSelection", t[j].type = "SetSelection"
        PROVE  t[i].source < t[j].source
    <3>1. i \in 1..Len(r)
      BY <1>1, <2>5
    <3>2. CASE j = Len(t)
      BY <1>1, <1>4, <2>4, <2>5, <3>1, <3>2
    <3>3. CASE j \in 1..Len(r)
      BY <1>1, <2>5, <3>1, <3>3 DEF Increasing
    <3> QED BY <1>1, <3>2, <3>3
  <2> QED BY <2>3, <2>5 DEF Increasing
<1> QED BY <1>3, <1>4 DEF t

\* What the compositor sends joins the stream.
LEMMA StreamGrows ==
  ASSUME TypeOK, queue' = queue, NEW e \in Seq(Event), wire' = wire \o e
  PROVE  Stream' = Stream \o e /\ ToSet(Stream') = ToSet(Stream) \cup ToSet(e)
<1>1. queue \in Seq(Event) /\ wire \in Seq(Event) /\ Stream \in Seq(Event)
  BY StreamType DEF TypeOK
<1>2. \A s, t, u \in Seq(Event) : (s \o t) \o u = s \o (t \o u)
  BY Regroup, SMTT(30)
<1>3. Stream' = Stream \o e
  BY <1>1, <1>2 DEF Stream
<1> QED BY <1>1, <1>3, InConcat

\* A new selection: what is sent tells of the old source only.
LEMMA NewSelectionFacts ==
  ASSUME TypeOK, NEW o \in Offer, NEW types \in SUBSET Types,
         NEW type \in {"Selection", "PrimarySelection"},
         NEW c \in {<< >>, Cancelling}
  PROVE  /\ c \o Announce(o, types, type) \in Seq(Event)
         /\ Told(c \o Announce(o, types, type)) \subseteq {selection}
         /\ c = << >> => Told(c \o Announce(o, types, type)) = {}
<1> DEFINE a == Announce(o, types, type)
<1>1. a \in Seq(Event) /\ \A i \in 1..Len(a) : About(a[i], o)
  BY AnnounceFacts
<1>2. c \in Seq(Event) /\ (c = << >> \/ c = <<Cancelled(selection)>>)
  <2>1. CASE c = << >>
    BY <2>1
  <2>2. CASE c = Cancelling
    BY <2>2, CancellingFacts
  <2> QED BY <2>1, <2>2
<1> HIDE DEF a
<1>3. ToSet(c \o a) = ToSet(c) \cup ToSet(a)
  BY <1>1, <1>2, InConcat
<1>4. \A s \in Source : Cancelled(s) \notin ToSet(a)
  <2>1. \A x \in ToSet(a) : x.type \in OfferEvents
    BY <1>1, InRange DEF About
  <2>2. \A s : Cancelled(s).type \notin OfferEvents
    BY DEF Cancelled, OfferEvents
  <2> QED BY <2>1, <2>2
<1>5. \A s : Cancelled(s) = Cancelled(selection) => s = selection
  <2>1. \A s : Cancelled(s).source = s
    BY DEF Cancelled
  <2> QED BY <2>1
<1>6. ToSet(c) \subseteq {Cancelled(selection)} /\ (c = << >> => ToSet(c) = {})
  <2>1. ToSet(<<Cancelled(selection)>>) = {Cancelled(selection)} /\ ToSet(<< >>) = {}
    BY DEF ToSet
  <2> QED BY <1>2, <2>1
<1>7. c \o a \in Seq(Event)
  BY <1>1, <1>2
<1> QED BY <1>3, <1>4, <1>5, <1>6, <1>7 DEF Told, a

LEMMA SourceInit == Init => SourceInv
<1> SUFFICES ASSUME Init PROVE SourceInv
  OBVIOUS
<1>1. /\ requests = << >> /\ Stream = << >> /\ selection = NoSource
      /\ current_source = NoSource /\ created = 0 /\ finished = FALSE
  BY ConcatEmptySeq DEF Init, Stream
<1>2. Asked(requests) = {} /\ Told(Stream) = {}
  BY <1>1, InNothing DEF Asked, Told
<1>3. Increasing(requests)
  BY <1>1 DEF Increasing
<1>4. NoSource \notin Source
  BY NoObjects
<1>5. SourceOk({}, {}, NoSource, NoSource, 0)
  BY <1>4 DEF SourceOk
<1> QED BY <1>1, <1>2, <1>3, <1>5 DEF SourceInv

LEMMA SourceFacts ==
  ASSUME TypeOK, SourceInv
  PROVE  /\ Asked(requests) \in SUBSET Source /\ Told(Stream) \in SUBSET Source
         /\ created \in Nat /\ Increasing(requests) /\ requests \in Seq(Request)
         /\ SourceOk(Asked(requests), Told(Stream), selection, current_source, created)
         /\ (finished => selection = NoSource)
  BY ObjectAssumption DEF SourceInv, Asked, Told, TypeOK

LEMMA SourceCompositor ==
  ASSUME TypeOK, SourceInv, Compositor
  PROVE  SourceInv'
<1>0. UNCHANGED <<current_source, created, queue>>
  BY DEF Compositor, PeerCopy, PeerSelect, PeerLeaves, Revoke, OfferDestroyed, SelectionSet,
         SelectionIgnored, SourceDestroyed, clientVars
<1>f. NoSource \notin Source /\ PeerSource \notin Source
  BY NoObjects
\* The selection is lost to none or a peer, and what is sent tells its source.
<1>l. ASSUME NEW e \in Seq(Event), wire' = wire \o e, Told(e) \subseteq {selection},
             requests' = requests, selection' \notin Source, finished' => selection' = NoSource
      PROVE  SourceInv'
  <2>1. ToSet(Stream') = ToSet(Stream) \cup ToSet(e)
    BY <1>0, <1>l, StreamGrows
  <2>2. Told(Stream') \in SUBSET Source /\ Told(Stream') \subseteq Told(Stream) \cup {selection}
    BY <1>l, <2>1 DEF Told
  <2>3. SourceOk(Asked(requests), Told(Stream'), selection', current_source, created)
    BY <1>l, <2>2, SourceFacts, SourceLost
  <2> QED BY <1>0, <1>l, <2>3 DEF SourceInv
\* Another request than SetSelection is processed, or none.
<1>k. ASSUME requests' = requests
             \/ (requests # << >> /\ Head(requests).type # "SetSelection"
                 /\ requests' = Tail(requests)),
             selection' = selection, finished' = finished, Told(Stream') \subseteq Told(Stream)
      PROVE  SourceInv'
  <2>1. Asked(requests') = Asked(requests) /\ Increasing(requests')
    <3>1. CASE requests' = requests
      BY <3>1, SourceFacts
    <3>2. CASE requests' # requests
      <4>1. Increasing(Tail(requests)) /\ Asked(Tail(requests)) = Asked(requests)
        BY <1>k, <3>2, SourceFacts, AskedTail
      <4> QED BY <1>k, <3>2, <4>1
    <3> QED BY <3>1, <3>2
  <2>2. SourceOk(Asked(requests), Told(Stream'), selection, current_source, created)
    BY <1>k, SourceFacts, SourceHandled
  <2> QED BY <1>0, <1>k, <2>1, <2>2, SourceFacts DEF SourceInv
<1>1. CASE PeerCopy
  <2>1. PICK o \in FreshOffers, types \in SUBSET Types :
           NewOffer(o) /\ wire' = (wire \o Cancelling) \o Announce(o, types, "Selection")
    BY <1>1 DEF PeerCopy
  <2>2. o \in Offer
    BY <2>1, ObjectAssumption DEF FreshOffers, NewOffer, Offer, TypeOK
  <2> DEFINE e == Cancelling \o Announce(o, types, "Selection")
  <2>3. e \in Seq(Event) /\ Told(e) \subseteq {selection}
        /\ Announce(o, types, "Selection") \in Seq(Event) /\ Cancelling \in Seq(Event)
    BY <2>2, NewSelectionFacts, AnnounceFacts, CancellingFacts
  <2>4. wire' = wire \o e
    <3>1. \A s, t, u \in Seq(Event) : (s \o t) \o u = s \o (t \o u)
      BY Regroup
    <3>2. wire \in Seq(Event)
      BY DEF TypeOK
    <3> QED BY <2>1, <2>3, <3>1, <3>2
  <2> HIDE DEF e
  <2> QED BY <1>f, <1>l, <1>1, <2>3, <2>4 DEF PeerCopy
<1>2. CASE PeerSelect
  <2>1. PICK o \in FreshOffers, types \in SUBSET Types :
           NewOffer(o) /\ wire' = wire \o Announce(o, types, "PrimarySelection")
    BY <1>2 DEF PeerSelect
  <2>2. o \in Offer
    BY <2>1, ObjectAssumption DEF FreshOffers, NewOffer, Offer, TypeOK
  <2> DEFINE a == Announce(o, types, "PrimarySelection")
  <2>3. a \in Seq(Event) /\ << >> \o a \in Seq(Event) /\ Told(<< >> \o a) = {}
    BY <2>2, NewSelectionFacts, AnnounceFacts
  <2>4. << >> \o a = a
    BY <2>3, ConcatEmptySeq
  <2>5. ToSet(Stream') = ToSet(Stream) \cup ToSet(a)
    BY <1>0, <2>1, <2>3, StreamGrows
  <2>6. Told(a) = {}
    BY <2>3, <2>4
  <2>7. Told(Stream') \subseteq Told(Stream)
    BY <2>5, <2>6 DEF Told
  <2> QED BY <1>k, <1>2, <2>7 DEF PeerSelect
<1>3. CASE PeerLeaves
  <2> DEFINE e == <<[type |-> "Selection", offer |-> NoOffer]>>
  <2>1. e \in Seq(Event) /\ wire' = wire \o e
    BY <1>3, EventTypes, AppendIsConcat DEF PeerLeaves, TypeOK
  <2>2. Told(e) = {}
    BY DEF Told, Cancelled, ToSet
  <2> HIDE DEF e
  <2> QED BY <1>f, <1>l, <1>3, <2>1, <2>2 DEF PeerLeaves
<1>4. CASE Revoke
  <2> DEFINE f == <<[type |-> "Finished"]>>
             e == Cancelling \o f
  <2>1. f \in Seq(Event) /\ Cancelling \in Seq(Event) /\ wire \in Seq(Event)
    BY EventTypes, CancellingFacts DEF TypeOK
  <2>2. wire' = (wire \o Cancelling) \o f
    BY <1>4 DEF Revoke
  <2>3. Told(f) = {}
    BY DEF Told, Cancelled, ToSet
  <2>4. Told(Cancelling) \subseteq {selection}
    <3>1. \A s : Cancelled(s) = Cancelled(selection) => s = selection
      <4>1. \A s : Cancelled(s).source = s
        BY DEF Cancelled
      <4> QED BY <4>1
    <3>2. ToSet(<<Cancelled(selection)>>) = {Cancelled(selection)} /\ ToSet(<< >>) = {}
      BY DEF ToSet
    <3> QED BY <3>1, <3>2, CancellingFacts DEF Told
  <2> HIDE DEF f
  <2>5. ToSet(e) = ToSet(Cancelling) \cup ToSet(f) /\ e \in Seq(Event)
    BY <2>1, InConcat
  <2>6. Told(e) \subseteq {selection}
    BY <2>3, <2>4, <2>5 DEF Told
  <2>7. wire' = wire \o e
    <3>1. \A s, t, u \in Seq(Event) : (s \o t) \o u = s \o (t \o u)
      BY Regroup
    <3> QED BY <2>1, <2>2, <3>1
  <2> HIDE DEF e
  <2> QED BY <1>f, <1>l, <1>4, <2>5, <2>6, <2>7 DEF Revoke
<1>5. CASE OfferDestroyed
  <2>1. Stream' = Stream
    BY <1>0, <1>5 DEF OfferDestroyed, Stream
  <2> QED BY <1>k, <1>5, <2>1 DEF OfferDestroyed, NextRequest
<1>6. CASE SelectionSet
  <2>1. PICK o \in FreshOffers :
           NewOffer(o) /\ wire' = (wire \o Cancelling) \o Announce(o, Types, "Selection")
    BY <1>6 DEF SelectionSet
  <2>2. o \in Offer
    BY <2>1, ObjectAssumption DEF FreshOffers, NewOffer, Offer, TypeOK
  <2> DEFINE e == Cancelling \o Announce(o, Types, "Selection")
  <2>3. e \in Seq(Event) /\ Told(e) \subseteq {selection}
        /\ Announce(o, Types, "Selection") \in Seq(Event) /\ Cancelling \in Seq(Event)
    BY <2>2, NewSelectionFacts, AnnounceFacts, CancellingFacts
  <2>4. wire' = wire \o e
    <3>1. \A s, t, u \in Seq(Event) : (s \o t) \o u = s \o (t \o u)
      BY Regroup
    <3>2. wire \in Seq(Event)
      BY DEF TypeOK
    <3> QED BY <2>1, <2>3, <3>1, <3>2
  <2> HIDE DEF e
  <2>5. ToSet(Stream') = ToSet(Stream) \cup ToSet(e)
    BY <1>0, <2>3, <2>4, StreamGrows
  <2>6. Told(Stream') \in SUBSET Source /\ Told(Stream') \subseteq Told(Stream) \cup {selection}
    BY <2>3, <2>5 DEF Told
  <2>7. /\ requests # << >> /\ Head(requests).type = "SetSelection" /\ ~finished
        /\ requests' = Tail(requests) /\ selection' = Head(requests).source
        /\ finished' = finished
    BY <1>6 DEF SelectionSet, NextRequest
  <2>8. /\ Increasing(Tail(requests)) /\ Asked(Tail(requests)) \in SUBSET Source
        /\ Head(requests).source \in Asked(requests)
        /\ Asked(requests) = {Head(requests).source} \cup Asked(Tail(requests))
        /\ \A s \in Asked(Tail(requests)) : Head(requests).source < s
    BY <2>7, SourceFacts, AskedTail
  <2>9. SourceOk(Asked(Tail(requests)), Told(Stream'), Head(requests).source, current_source,
                 created)
    BY <2>6, <2>8, SourceFacts, SourceSet
  <2> QED BY <1>0, <2>7, <2>8, <2>9 DEF SourceInv
<1>7. CASE SelectionIgnored
  <2>7. /\ requests # << >> /\ Head(requests).type = "SetSelection" /\ finished
        /\ requests' = Tail(requests) /\ selection' = selection /\ finished' = finished
        /\ Stream' = Stream
    BY <1>0, <1>7 DEF SelectionIgnored, NextRequest, compositorVars, Stream
  <2>8. /\ Increasing(Tail(requests)) /\ Asked(Tail(requests)) \in SUBSET Source
        /\ Head(requests).source \in Asked(requests)
        /\ Asked(requests) = {Head(requests).source} \cup Asked(Tail(requests))
        /\ \A s \in Asked(Tail(requests)) : Head(requests).source < s
    BY <2>7, SourceFacts, AskedTail
  <2>9. selection = NoSource
    BY <2>7, SourceFacts
  <2>10. SourceOk(Asked(Tail(requests)), Told(Stream), selection, current_source, created)
    BY <2>8, <2>9, SourceFacts, SourceIgnored
  <2> QED BY <1>0, <2>7, <2>8, <2>9, <2>10 DEF SourceInv
<1>8. CASE SourceDestroyed
  <2>1. /\ requests # << >> /\ Head(requests).type # "SetSelection"
        /\ requests' = Tail(requests) /\ finished' = finished
    BY <1>8 DEF SourceDestroyed, NextRequest
  <2>2. CASE selection # Head(requests).source
    <3>1. Stream' = Stream /\ selection' = selection
      BY <1>0, <1>8, <2>2 DEF SourceDestroyed, Stream
    <3> QED BY <1>k, <2>1, <3>1
  <2>3. CASE selection = Head(requests).source
    <3> DEFINE e == <<[type |-> "Selection", offer |-> NoOffer]>>
    <3>1. selection' = NoSource
          /\ wire' = Append(wire, [type |-> "Selection", offer |-> NoOffer])
      BY <1>8, <2>3 DEF SourceDestroyed
    <3>2. e \in Seq(Event) /\ wire' = wire \o e
      BY <3>1, EventTypes, AppendIsConcat DEF TypeOK
    <3>3. Told(e) = {}
      BY DEF Told, Cancelled, ToSet
    <3> HIDE DEF e
    <3>4. ToSet(Stream') = ToSet(Stream) \cup ToSet(e)
      BY <1>0, <3>2, StreamGrows
    <3>5. Told(Stream') = Told(Stream)
      BY <3>3, <3>4 DEF Told
    <3>6. Asked(requests') = Asked(requests) /\ Increasing(requests')
      BY <2>1, SourceFacts, AskedTail
    <3>7. SourceOk(Asked(requests), Told(Stream), NoSource, current_source, created)
      BY <1>f, SourceFacts, SourceLost
    <3> QED BY <1>0, <3>1, <3>5, <3>6, <3>7 DEF SourceInv
  <2> QED BY <2>2, <2>3
<1> QED BY <1>1, <1>2, <1>3, <1>4, <1>5, <1>6, <1>7, <1>8 DEF Compositor

LEMMA SourceThread ==
  ASSUME TypeOK, SourceInv, Thread
  PROVE  SourceInv'
<1>0. requests \in Seq(Request) /\ Stream \in Seq(Event)
  BY StreamType DEF TypeOK
\* An event is handled, and what is asked for does not change.
<1>h. ASSUME NEW type, Handling(type), Asked(requests') = Asked(requests),
             Increasing(requests'),
             current_source' = current_source
             \/ (current_source \in Told(Stream) /\ current_source' = NoSource)
      PROVE  SourceInv'
  <2>1. /\ Stream # << >> /\ Stream' = Tail(Stream) /\ created' = created
        /\ selection' = selection /\ finished' = finished
    BY <1>h, HandlingFacts DEF compositorVars
  <2>2. ToSet(Tail(Stream)) \subseteq ToSet(Stream)
    BY <1>0, <2>1, InQueue
  <2>3. Told(Stream') \in SUBSET Told(Stream)
    BY <2>1, <2>2 DEF Told
  <2>4. SourceOk(Asked(requests), Told(Stream), selection, current_source', created)
    BY <1>h, SourceFacts, SourceTold
  <2>5. SourceOk(Asked(requests), Told(Stream'), selection, current_source', created)
    BY <2>3, <2>4, SourceHandled
  <2> QED BY <1>h, <2>1, <2>5, SourceFacts DEF SourceInv
\* The handlers that destroy offers.
<1>d. ASSUME NEW new \in Offer \cup {NoOffer}, Clear(Replaced(new))
      PROVE  Asked(requests') = Asked(requests) /\ Increasing(requests')
  <2>1. CASE requests' = requests
    BY <2>1, SourceFacts
  <2>2. CASE requests' # requests
    <3>1. current_selection \in Offer
          /\ requests' = Append(requests, DestroyOffer(current_selection))
      BY <1>d, <2>2, ClearFacts
    <3>2. DestroyOffer(current_selection) \in Request
          /\ DestroyOffer(current_selection).type # "SetSelection"
      BY <3>1, RequestFacts, RequestFields
    <3>3. /\ Asked(Append(requests, DestroyOffer(current_selection))) = Asked(requests)
          /\ Increasing(Append(requests, DestroyOffer(current_selection)))
      BY <1>0, <3>2, SourceFacts, AskedAppend
    <3> QED BY <3>1, <3>3
  <2> QED BY <2>1, <2>2
<1>1. CASE ReadEvents
  <2>1. Stream' = Stream
    BY <1>1, ReadEventsFacts
  <2> QED BY <1>1, <2>1 DEF ReadEvents, SourceInv
<1>2. CASE Poll \/ DispatchDone
  BY <1>2 DEF Poll, DispatchDone, SourceInv, compositorVars, Stream
<1>3. CASE OnDataOffer
  BY <1>h, <1>3, SourceFacts DEF OnDataOffer
<1>4. CASE OnOffer
  BY <1>h, <1>4, SourceFacts DEF OnOffer
<1>5. CASE OnSelection
  <2>1. /\ Handling("Selection") /\ Clear(Replaced(Head(queue).offer))
        /\ current_source' = current_source
    BY <1>5 DEF OnSelection
  <2>2. Head(queue).offer \in Offer \cup {NoOffer}
    BY <2>1, HandlingFacts, EventFacts
  <2> QED BY <1>d, <1>h, <2>1, <2>2
<1>6. CASE OnPrimarySelection
  BY <1>h, <1>6, SourceFacts DEF OnPrimarySelection
<1>7. CASE OnFinished
  <2>1. /\ Handling("Finished") /\ Clear(Replaced(NoOffer)) /\ current_source' = current_source
    BY <1>7 DEF OnFinished
  <2> QED BY <1>d, <1>h, <2>1
<1>8. CASE OnCancelled
  <2>1. Handling("Cancelled")
    BY <1>8 DEF OnCancelled
  <2>2. CASE Active(Head(queue).source)
    <3>1. current_source = Head(queue).source /\ current_source' = NoSource
          /\ requests' = Append(requests, DestroySource(current_source))
      BY <1>8, <2>2 DEF OnCancelled, Active
    <3>2. /\ Head(queue) = Cancelled(Head(queue).source) /\ Head(queue).source \in Source
          /\ Head(queue) \in ToSet(Stream)
      BY <2>1, HandlingFacts, EventFacts
    <3>3. current_source \in Told(Stream)
      BY <3>1, <3>2 DEF Told
    <3>4. DestroySource(current_source) \in Request
          /\ DestroySource(current_source).type # "SetSelection"
      BY <3>1, <3>2, RequestFacts, RequestFields
    <3>5. /\ Asked(Append(requests, DestroySource(current_source))) = Asked(requests)
          /\ Increasing(Append(requests, DestroySource(current_source)))
      BY <1>0, <3>4, SourceFacts, AskedAppend
    <3> QED BY <1>h, <2>1, <3>1, <3>3, <3>5
  <2>3. CASE ~Active(Head(queue).source)
    BY <1>h, <1>8, <2>1, <2>3, SourceFacts DEF OnCancelled
  <2> QED BY <2>2, <2>3
<1>9. CASE Drain
  BY <1>9 DEF Drain, SourceInv, compositorVars, Stream
<1>10. CASE Restore
  <2> DEFINE n == created + 1
             r == Append(requests, SetSelection(n))
  <2>1. /\ created' = n /\ n \in Source /\ current_source' = n
        /\ selection' = selection /\ finished' = finished /\ Stream' = Stream
        /\ \/ requests' = r
           \/ current_source \in Source /\ requests' = Append(r, DestroySource(current_source))
    BY <1>10, RestoreFacts DEF compositorVars, Stream
  <2>2. SetSelection(n) \in Request /\ SetSelection(n).type = "SetSelection"
        /\ SetSelection(n).source = n
    BY <2>1, RequestFacts, RequestFields
  <2>3. \A s \in Asked(requests) : s < n
    BY SourceFacts DEF SourceOk, Source
  <2>4. Asked(r) = Asked(requests) \cup {n} /\ Increasing(r)
    BY <1>0, <2>2, <2>3, SourceFacts, AskedAppend
  <2>5. r \in Seq(Request)
    BY <1>0, <2>2
  <2> HIDE DEF r
  <2>6. Asked(requests') = Asked(r) /\ Increasing(requests')
    <3>1. ASSUME current_source \in Source
          PROVE  /\ Asked(Append(r, DestroySource(current_source))) = Asked(r)
                 /\ Increasing(Append(r, DestroySource(current_source)))
      <4>1. DestroySource(current_source) \in Request
            /\ DestroySource(current_source).type # "SetSelection"
        BY <3>1, RequestFacts, RequestFields
      <4> QED BY <2>4, <2>5, <4>1, AskedAppend
    <3> QED BY <2>1, <2>4, <3>1
  <2>7. SourceOk(Asked(requests) \cup {n}, Told(Stream), selection, n, n)
    BY <2>1, SourceFacts, SourceCreated
  <2> QED BY <2>1, <2>4, <2>6, <2>7, SourceFacts DEF SourceInv
<1> QED BY <1>1, <1>2, <1>3, <1>4, <1>5, <1>6, <1>7, <1>8, <1>9, <1>10 DEF Thread

LEMMA SourceStep == TypeOK /\ SourceInv /\ [Next]_vars => SourceInv'
<1>1. ASSUME SourceInv, UNCHANGED vars PROVE SourceInv'
  BY <1>1 DEF vars, clientVars, compositorVars, SourceInv, Stream
<1> QED BY <1>1, SourceCompositor, SourceThread DEF Next

LEMMA SourceSelected == TypeOK /\ SourceInv => SelectedSourceOwned
<1> SUFFICES ASSUME TypeOK, SourceInv, selection \in Source, current_source # selection
             PROVE  \E s \in Source : SetSelection(s) \in ToSet(requests)
  BY DEF SelectedSourceOwned
<1>1. /\ selection <= created /\ selection # created /\ created \in 0..MaxRestores
      /\ \A t \in Source : selection < t /\ t <= created => t \in Asked(requests)
  BY SourceFacts DEF SourceOk, TypeOK
<1>2. created \in Source /\ selection < created /\ created <= created
  BY <1>1, ObjectAssumption DEF Source
<1>3. created \in Asked(requests)
  BY <1>1, <1>2
<1> QED BY <1>3 DEF Asked

\* The source that has the selection is the owned one, unless the selection is
\* already to be set to another: handle_restore and a late Cancelled, in
\* whatever order, never leave the daemon without the source it still serves.
THEOREM SelectedOwned == Spec => []SelectedSourceOwned
<1>1. Init => TypeOK /\ SourceInv
  BY TypeInit, SourceInit
<1>2. TypeOK /\ SourceInv /\ [Next]_vars => TypeOK' /\ SourceInv'
  BY TypeStep, SourceStep
<1> QED BY <1>1, <1>2, SourceSelected, PTL DEF Spec

-----------------------------------------------------------------------------
(* No selection gap.                                                        *)

\* A source that is to be destroyed, in the requests r, has neither the
\* selection nor the prospect of it, or a later one is asked for before. n
\* sources were created so far.
GapOk(r, sel, n) ==
  \A i \in 1..Len(r) : r[i].type = "DestroySource" =>
    /\ r[i].source <= n
    /\ \/ r[i].source # sel /\ r[i].source \notin Asked(r)
       \/ \E j \in 1..Len(r) :
            j < i /\ r[j].type = "SetSelection" /\ r[i].source < r[j].source

GapInv == GapOk(requests, selection, created)

\* A request is processed.
LEMMA GapTail ==
  ASSUME NEW r \in Seq(Request), r # << >>, Increasing(r), NEW sel, NEW n,
         GapOk(r, sel, n), NEW sel2,
         sel2 \in {NoSource, IF Head(r).type = "SetSelection" THEN Head(r).source ELSE sel}
  PROVE  /\ GapOk(Tail(r), sel2, n)
         /\ Head(r).type = "DestroySource" => Head(r).source # sel
<1>1. /\ Head(r) \in Request /\ Tail(r) \in Seq(Request) /\ Head(r) = r[1] /\ 1 \in 1..Len(r)
      /\ Len(Tail(r)) = Len(r) - 1 /\ Len(r) \in Nat \ {0}
      /\ \A i \in 1..Len(Tail(r)) : i + 1 \in 1..Len(r) /\ Tail(r)[i] = r[i + 1]
  BY InQueue
<1>2. /\ Head(r).type # "SetSelection" => Asked(Tail(r)) = Asked(r)
      /\ Head(r).type = "SetSelection" =>
           /\ Head(r).source \in Asked(r)
           /\ Asked(r) = {Head(r).source} \cup Asked(Tail(r))
           /\ \A s \in Asked(Tail(r)) : Head(r).source < s
  BY AskedTail
<1>3. (\A s \in Source : s \in Nat) /\ NoSource \notin Source
  BY NoObjects DEF Source
<1> DEFINE t == Tail(r)
<1> HIDE DEF t
<1>4. ASSUME NEW i \in 1..Len(t), t[i].type = "DestroySource"
      PROVE  /\ t[i].source <= n
             /\ \/ t[i].source # sel2 /\ t[i].source \notin Asked(t)
                \/ \E j \in 1..Len(t) :
                     j < i /\ t[j].type = "SetSelection" /\ t[i].source < t[j].source
  <2> DEFINE s == t[i].source
  <2>1. /\ i \in Nat /\ i + 1 \in 1..Len(r) /\ t[i] = r[i + 1] /\ t \in Seq(Request)
        /\ t[i] \in Request
    BY <1>1 DEF t
  <2>2. s \in Source
    BY <1>4, <2>1, RequestFacts
  <2> HIDE DEF s
  <2>3. /\ s <= n
        /\ \/ s # sel /\ s \notin Asked(r)
           \/ \E j \in 1..Len(r) : j < i + 1 /\ r[j].type = "SetSelection" /\ s < r[j].source
    BY <1>4, <2>1 DEF GapOk, s
  <2>4. CASE s # sel /\ s \notin Asked(r)
    BY <1>2, <1>3, <2>2, <2>3, <2>4 DEF s, t
  <2>5. CASE \E j \in 1..Len(r) : j < i + 1 /\ r[j].type = "SetSelection" /\ s < r[j].source
    <3>1. PICK j \in 1..Len(r) : j < i + 1 /\ r[j].type = "SetSelection" /\ s < r[j].source
      BY <2>5
    <3>2. CASE j = 1
      <4>1. Head(r).type = "SetSelection" /\ s < Head(r).source /\ Head(r).source \in Source
        BY <1>1, <3>1, <3>2, RequestFacts
      <4>2. s # Head(r).source /\ s \notin Asked(t)
        <5>1. \A u \in Asked(t) : Head(r).source < u /\ u \in Source
          BY <1>2, <4>1 DEF t, Asked
        <5> QED BY <1>3, <2>2, <4>1, <5>1
      <4>3. s # sel2
        BY <1>3, <2>2, <4>1, <4>2
      <4> QED BY <2>3, <4>2, <4>3 DEF s
    <3>3. CASE j # 1
      <4>1. j - 1 \in 1..Len(t) /\ j - 1 < i /\ t[j - 1] = r[j]
        <5>1. j - 1 \in 1..Len(t) /\ j - 1 < i /\ (j - 1) + 1 = j
          BY <1>1, <2>1, <3>1, <3>3 DEF t
        <5> QED BY <1>1, <5>1 DEF t
      <4> QED BY <2>3, <3>1, <4>1 DEF s
    <3> QED BY <3>2, <3>3
  <2> QED BY <2>3, <2>4, <2>5
<1>5. ASSUME Head(r).type = "DestroySource" PROVE Head(r).source # sel
  BY <1>1, <1>5 DEF GapOk
<1> QED BY <1>4, <1>5 DEF GapOk, t

\* A request is sent: a source to be selected is new, one to be destroyed is
\* out of the game or behind a newer one.
LEMMA GapAppend ==
  ASSUME NEW r \in Seq(Request), NEW x \in Request, NEW sel, NEW n \in Nat, GapOk(r, sel, n),
         NEW n2 \in Nat, n <= n2,
         x.type = "SetSelection" => n < x.source,
         x.type = "DestroySource" =>
           /\ x.source <= n2
           /\ \/ x.source # sel /\ x.source \notin Asked(r)
              \/ \E j \in 1..Len(r) : r[j].type = "SetSelection" /\ x.source < r[j].source
  PROVE  GapOk(Append(r, x), sel, n2)
<1> DEFINE t == Append(r, x)
<1>1. /\ t \in Seq(Request) /\ Len(t) = Len(r) + 1 /\ Len(r) \in Nat /\ t[Len(t)] = x
      /\ \A i \in 1..Len(r) : t[i] = r[i] /\ r[i] \in Request /\ i \in 1..Len(t)
      /\ \A i \in 1..Len(t) : i = Len(t) \/ i \in 1..Len(r)
  OBVIOUS
<1>2. ToSet(t) = ToSet(r) \cup {x}
  BY InAppend
<1> HIDE DEF t
<1>3. \A s \in Asked(t) : s \in Asked(r) \/ (x.type = "SetSelection" /\ x.source = s)
  BY <1>2, RequestFields DEF Asked
<1>4. \A s \in Source : s \in Nat
  BY DEF Source
<1>5. ASSUME NEW i \in 1..Len(t), t[i].type = "DestroySource"
      PROVE  /\ t[i].source <= n2
             /\ \/ t[i].source # sel /\ t[i].source \notin Asked(t)
                \/ \E j \in 1..Len(t) :
                     j < i /\ t[j].type = "SetSelection" /\ t[i].source < t[j].source
  <2>1. CASE i = Len(t)
    <3>1. t[i] = x /\ x.type = "DestroySource"
      BY <1>1, <1>5, <2>1
    <3>2. \A j \in 1..Len(r) : j \in 1..Len(t) /\ j < i /\ t[j] = r[j]
      BY <1>1, <2>1
    <3> QED BY <1>3, <3>1, <3>2
  <2>2. CASE i \in 1..Len(r)
    <3>1. t[i] = r[i] /\ r[i].source \in Source /\ r[i].type = "DestroySource"
      BY <1>1, <1>5, <2>2, RequestFacts
    <3>2. /\ r[i].source <= n
          /\ \/ r[i].source # sel /\ r[i].source \notin Asked(r)
             \/ \E j \in 1..Len(r) :
                  j < i /\ r[j].type = "SetSelection" /\ r[i].source < r[j].source
      BY <2>2, <3>1 DEF GapOk
    <3>3. r[i].source <= n2 /\ ~(x.type = "SetSelection" /\ x.source = r[i].source)
      <4>1. x.type = "SetSelection" => x.source \in Source
        BY RequestFacts
      <4> QED BY <1>4, <3>1, <3>2, <4>1
    <3> QED BY <1>1, <1>3, <3>1, <3>2, <3>3
  <2> QED BY <1>1, <2>1, <2>2
<1> QED BY <1>5 DEF GapOk, t

\* The selection goes to nobody or to a peer.
LEMMA GapLost ==
  ASSUME NEW r \in Seq(Request), NEW sel, NEW n, GapOk(r, sel, n),
         NEW sel2, sel2 \notin Source
  PROVE  GapOk(r, sel2, n)
<1>1. \A i \in 1..Len(r) : r[i].type = "DestroySource" => r[i].source \in Source
  BY RequestFacts
<1> QED BY <1>1 DEF GapOk

LEMMA GapInit == Init => GapInv
  BY DEF Init, GapInv, GapOk

\* Requests change one way: the compositor takes the first, or the thread adds
\* some; the selection is the compositor's.
LEMMA GapStep ==
  ASSUME TypeOK, SourceInv, GapInv, Next
  PROVE  /\ GapInv'
         /\ requests # << >> /\ requests' = Tail(requests) /\ selection # NoSource =>
              selection' # NoSource
<1> DEFINE Gapless == requests # << >> /\ requests' = Tail(requests) /\ selection # NoSource =>
                        selection' # NoSource
<1>0. /\ requests \in Seq(Request) /\ Increasing(requests) /\ created \in Nat
      /\ GapOk(requests, selection, created)
      /\ SourceOk(Asked(requests), Told(Stream), selection, current_source, created)
      /\ Asked(requests) \in SUBSET Source /\ Told(Stream) \in SUBSET Source
  BY SourceFacts DEF GapInv
<1>t. requests # << >> => Head(requests) \in Request /\ Len(Tail(requests)) = Len(requests) - 1
                          /\ Len(requests) \in Nat
  BY <1>0, InQueue
<1>u. \A r \in Seq(Request) : Len(r) >= Len(requests) =>
        ~(requests # << >> /\ r = Tail(requests))
  BY <1>0, <1>t
<1>f. NoSource \notin Source /\ PeerSource \notin Source /\ PeerSource # NoSource
  BY NoObjects
\* The compositor processes a request.
<1>p. ASSUME requests # << >>, requests' = Tail(requests), created' = created,
             selection' \in {NoSource, IF Head(requests).type = "SetSelection"
                                       THEN Head(requests).source ELSE selection}
      PROVE  GapInv' /\ (Head(requests).type = "DestroySource" =>
                           Head(requests).source # selection)
  <2>1. /\ GapOk(Tail(requests), selection', created)
        /\ Head(requests).type = "DestroySource" => Head(requests).source # selection
    BY <1>0, <1>p, GapTail
  <2> QED BY <1>p, <2>1 DEF GapInv
\* Nothing is requested.
<1>n. ASSUME requests' = requests, created' = created,
             selection' = selection \/ selection' \notin Source
      PROVE  GapInv' /\ Gapless
  <2>1. GapOk(requests, selection', created)
    BY <1>0, <1>n, GapLost
  <2>2. ~(requests # << >> /\ requests' = Tail(requests))
    BY <1>0, <1>n, <1>u
  <2> QED BY <1>n, <2>1, <2>2 DEF GapInv
\* The thread adds a request that destroys an offer, if any.
<1>d. ASSUME NEW new \in Offer \cup {NoOffer}, Clear(Replaced(new)), created' = created,
             selection' = selection
      PROVE  GapInv' /\ Gapless
  <2>1. CASE requests' = requests
    BY <1>d, <1>n, <2>1
  <2>2. CASE requests' # requests
    <3> DEFINE x == DestroyOffer(current_selection)
    <3>1. current_selection \in Offer /\ requests' = Append(requests, x)
      BY <1>d, <2>2, ClearFacts
    <3>2. x \in Request /\ x.type = "DestroyOffer"
      BY <3>1, RequestFacts, RequestFields
    <3> HIDE DEF x
    <3>3. GapOk(Append(requests, x), selection, created)
      BY <1>0, <3>2, GapAppend
    <3>4. requests' \in Seq(Request) /\ Len(requests') >= Len(requests)
      BY <1>0, <3>1, <3>2
    <3>5. ~(requests # << >> /\ requests' = Tail(requests))
      BY <1>u, <3>4
    <3> QED BY <1>d, <3>1, <3>3, <3>5 DEF GapInv
  <2> QED BY <2>1, <2>2
<1>1. CASE PeerCopy \/ PeerSelect \/ PeerLeaves \/ Revoke
  BY <1>n, <1>f, <1>1 DEF PeerCopy, PeerSelect, PeerLeaves, Revoke, clientVars
<1>2. CASE OfferDestroyed
  BY <1>p, <1>2 DEF OfferDestroyed, NextRequest, clientVars
<1>3. CASE SelectionSet
  <2>1. /\ requests # << >> /\ requests' = Tail(requests) /\ created' = created
        /\ Head(requests).type = "SetSelection" /\ selection' = Head(requests).source
    BY <1>3 DEF SelectionSet, NextRequest, clientVars
  <2>2. selection' \in Source
    BY <1>t, <2>1, RequestFacts
  <2> QED BY <1>f, <1>p, <2>1, <2>2
<1>4. CASE SelectionIgnored
  <2>1. /\ requests # << >> /\ requests' = Tail(requests) /\ created' = created
        /\ finished /\ selection' = selection
    BY <1>4 DEF SelectionIgnored, NextRequest, clientVars, compositorVars
  <2>2. selection = NoSource
    BY <2>1, SourceFacts
  <2> QED BY <1>p, <2>1, <2>2
<1>5. CASE SourceDestroyed
  <2>1. /\ requests # << >> /\ requests' = Tail(requests) /\ created' = created
        /\ Head(requests).type = "DestroySource" /\ selection' \in {NoSource, selection}
        /\ selection # Head(requests).source => selection' = selection
    BY <1>5 DEF SourceDestroyed, NextRequest, clientVars
  <2> QED BY <1>p, <2>1
<1>6. CASE ReadEvents \/ Poll \/ DispatchDone \/ Drain
  BY <1>n, <1>6 DEF ReadEvents, Poll, DispatchDone, Drain, compositorVars
<1>7. CASE OnDataOffer
  BY <1>n, <1>7, HandlingFacts DEF OnDataOffer, compositorVars
<1>8. CASE OnOffer
  BY <1>n, <1>8, HandlingFacts DEF OnOffer, compositorVars
<1>9. CASE OnPrimarySelection
  BY <1>n, <1>9, HandlingFacts DEF OnPrimarySelection, compositorVars
<1>10. CASE OnSelection
  <2>1. Handling("Selection") /\ Clear(Replaced(Head(queue).offer))
    BY <1>10 DEF OnSelection
  <2>2. /\ Head(queue).offer \in Offer \cup {NoOffer}
        /\ created' = created /\ selection' = selection
    BY <2>1, HandlingFacts, EventFacts DEF compositorVars
  <2> QED BY <1>d, <2>1, <2>2
<1>11. CASE OnFinished
  <2>1. Handling("Finished") /\ Clear(Replaced(NoOffer))
    BY <1>11 DEF OnFinished
  <2>2. created' = created /\ selection' = selection
    BY <2>1, HandlingFacts DEF compositorVars
  <2> QED BY <1>d, <2>1, <2>2
<1>12. CASE OnCancelled
  <2>1. Handling("Cancelled")
    BY <1>12 DEF OnCancelled
  <2>2. created' = created /\ selection' = selection
    BY <2>1, HandlingFacts DEF compositorVars
  <2>3. CASE ~Active(Head(queue).source)
    BY <1>n, <1>12, <2>2, <2>3 DEF OnCancelled
  <2>4. CASE Active(Head(queue).source)
    <3> DEFINE x == DestroySource(current_source)
    <3>1. current_source = Head(queue).source /\ requests' = Append(requests, x)
      BY <1>12, <2>4 DEF OnCancelled, Active
    <3>2. current_source \in Told(Stream) /\ current_source \in Source
      <4>1. /\ Head(queue) = Cancelled(Head(queue).source) /\ Head(queue).source \in Source
            /\ Head(queue) \in ToSet(Stream)
        BY <2>1, HandlingFacts, EventFacts
      <4> QED BY <3>1, <4>1 DEF Told
    <3>3. /\ current_source # selection /\ current_source \notin Asked(requests)
          /\ current_source <= created
      BY <1>0, <3>2, SourceTold
    <3>4. x \in Request /\ x.type = "DestroySource" /\ x.source = current_source
      BY <3>2, RequestFacts, RequestFields
    <3> HIDE DEF x
    <3>5. GapOk(Append(requests, x), selection, created)
      BY <1>0, <3>3, <3>4, GapAppend
    <3>6. requests' \in Seq(Request) /\ Len(requests') >= Len(requests)
      BY <1>0, <3>1, <3>4
    <3>7. ~(requests # << >> /\ requests' = Tail(requests))
      BY <1>u, <3>6
    <3> QED BY <2>2, <3>1, <3>5, <3>7 DEF GapInv
  <2> QED BY <2>3, <2>4
<1>13. CASE Restore
  <2> DEFINE n == created + 1
             x == SetSelection(n)
             y == DestroySource(current_source)
             r == Append(requests, x)
  <2>1. /\ created' = n /\ n \in Source /\ selection' = selection
        /\ \/ requests' = r
           \/ current_source \in Source /\ requests' = Append(r, y)
    BY <1>13, RestoreFacts DEF compositorVars
  <2>2. x \in Request /\ x.type = "SetSelection" /\ x.source = n /\ n \in Nat /\ created < n
    BY <1>0, <2>1, RequestFacts, RequestFields
  <2> HIDE DEF x
  <2>3. /\ r \in Seq(Request) /\ Len(r) = Len(requests) + 1 /\ Len(requests) \in Nat
        /\ Len(r) \in 1..Len(r) /\ r[Len(r)] = x
    BY <1>0, <2>2
  <2>4. GapOk(r, selection, n)
    BY <1>0, <2>2, GapAppend
  <2> HIDE DEF r, n
  <2>5. ASSUME current_source \in Source
        PROVE  y \in Request /\ GapOk(Append(r, y), selection, n)
    <3>1. y \in Request /\ y.type = "DestroySource" /\ y.source = current_source
      BY <2>5, RequestFacts, RequestFields
    <3>2. current_source = created
      BY <1>0, <1>f, <2>5 DEF SourceOk
    <3> HIDE DEF y
    <3>3. y.source <= n /\ y.source < r[Len(r)].source
      BY <1>0, <2>2, <2>3, <3>1, <3>2
    <3> QED BY <2>2, <2>3, <2>4, <3>1, <3>3, GapAppend
  <2>6. requests' \in Seq(Request) /\ Len(requests') >= Len(requests)
    <3>1. CASE requests' = r
      BY <2>3, <3>1
    <3>2. CASE current_source \in Source /\ requests' = Append(r, y)
      <4>1. Len(Append(r, y)) = Len(r) + 1 /\ Append(r, y) \in Seq(Request)
        BY <2>3, <2>5, <3>2
      <4> HIDE DEF y
      <4> QED BY <2>3, <3>2, <4>1
    <3> QED BY <2>1, <3>1, <3>2
  <2>7. ~(requests # << >> /\ requests' = Tail(requests))
    BY <1>u, <2>6
  <2> QED BY <2>1, <2>4, <2>5, <2>7 DEF GapInv
<1> QED
  <2>1. GapInv' /\ Gapless
    BY <1>1, <1>2, <1>3, <1>4, <1>5, <1>6, <1>7, <1>8, <1>9, <1>10, <1>11, <1>12, <1>13
       DEF Next, Compositor, Thread
  <2> QED BY <2>1

\* Nothing the daemon asks for leaves the compositor without a selection: a
\* source is destroyed only after another took its place, whatever happens
\* between the two requests.
THEOREM NeverGap == Spec => NoSelectionGap
<1> DEFINE Gapless == requests # << >> /\ requests' = Tail(requests) /\ selection # NoSource
                        => selection' # NoSource
<1>1. Init => TypeOK /\ SourceInv /\ GapInv
  BY TypeInit, SourceInit, GapInit
<1>2. TypeOK /\ SourceInv /\ GapInv /\ [Next]_vars =>
        TypeOK' /\ SourceInv' /\ GapInv' /\ [Gapless]_vars
  <2>1. ASSUME GapInv, UNCHANGED vars PROVE GapInv'
    BY <2>1 DEF vars, clientVars, compositorVars, GapInv
  <2>2. ASSUME TypeOK, SourceInv, GapInv, Next PROVE GapInv' /\ Gapless
    BY <2>2, GapStep
  <2> QED BY <2>1, <2>2, TypeStep, SourceStep
<1> HIDE DEF Gapless
<1>3. [][Gapless]_vars => NoSelectionGap
  BY PTL DEF NoSelectionGap, Gapless
<1> QED BY <1>1, <1>2, <1>3, PTL DEF Spec

-----------------------------------------------------------------------------
(* Offers and the cache.                                                    *)

\* Nothing about an offer follows its Selection event.
SelectionLast(s) ==
  \A i, j \in 1..Len(s) :
    i < j /\ s[i].type = "Selection" /\ s[i].offer # NoOffer => ~About(s[j], s[i].offer)

\* No event of s is about an offer.
NoneOffered(s) == \A e \in ToSet(s) : \A o \in Offer : ~About(e, o)

LEMMA LastConcat ==
  ASSUME NEW s \in Seq(Event), NEW t \in Seq(Event), SelectionLast(s), SelectionLast(t),
         \A d \in ToSet(s), e \in ToSet(t) : \A o \in Offer : About(d, o) => ~About(e, o)
  PROVE  SelectionLast(s \o t)
<1> DEFINE u == s \o t
<1>1. /\ Len(u) = Len(s) + Len(t) /\ Len(s) \in Nat /\ Len(t) \in Nat
      /\ \A i \in 1..Len(s) + Len(t) : u[i] = IF i <= Len(s) THEN s[i] ELSE t[i - Len(s)]
  BY ConcatProperties
<1> HIDE DEF u
<1>2. ASSUME NEW i \in 1..Len(u), NEW j \in 1..Len(u), i < j,
             u[i].type = "Selection", u[i].offer # NoOffer
      PROVE  ~About(u[j], u[i].offer)
  <2>1. CASE j <= Len(s)
    <3>1. i \in 1..Len(s) /\ j \in 1..Len(s) /\ u[i] = s[i] /\ u[j] = s[j]
      BY <1>1, <1>2, <2>1
    <3> QED BY <1>2, <3>1 DEF SelectionLast
  <2>2. CASE i > Len(s)
    <3>1. /\ i - Len(s) \in 1..Len(t) /\ j - Len(s) \in 1..Len(t)
          /\ i - Len(s) < j - Len(s) /\ u[i] = t[i - Len(s)] /\ u[j] = t[j - Len(s)]
      BY <1>1, <1>2, <2>2
    <3> QED BY <1>2, <3>1 DEF SelectionLast
  <2>3. CASE i <= Len(s) /\ j > Len(s)
    <3>1. /\ i \in 1..Len(s) /\ j - Len(s) \in 1..Len(t)
          /\ u[i] = s[i] /\ u[j] = t[j - Len(s)]
      BY <1>1, <1>2, <2>3
    <3>2. s[i] \in ToSet(s) /\ s[i] \in Event /\ t[j - Len(s)] \in ToSet(t)
      BY <3>1, InRange
    <3>3. s[i].offer \in Offer /\ About(s[i], s[i].offer)
      BY <1>2, <3>1, <3>2, EventFacts DEF About, OfferEvents
    <3> QED BY <3>1, <3>2, <3>3
  <2> QED BY <1>1, <2>1, <2>2, <2>3
<1> QED BY <1>2 DEF SelectionLast, u

LEMMA LastTail ==
  ASSUME NEW s \in Seq(Event), s # << >>, SelectionLast(s)
  PROVE  /\ SelectionLast(Tail(s))
         /\ Head(s).type = "Selection" /\ Head(s).offer # NoOffer =>
              \A e \in ToSet(Tail(s)) : ~About(e, Head(s).offer)
<1>1. /\ Tail(s) \in Seq(Event) /\ Head(s) = s[1] /\ 1 \in 1..Len(s)
      /\ Len(Tail(s)) = Len(s) - 1 /\ Len(s) \in Nat \ {0}
      /\ \A i \in 1..Len(Tail(s)) : i + 1 \in 1..Len(s) /\ Tail(s)[i] = s[i + 1]
  BY InQueue
<1> DEFINE t == Tail(s)
<1> HIDE DEF t
<1>2. ASSUME NEW i \in 1..Len(t), NEW j \in 1..Len(t), i < j,
             t[i].type = "Selection", t[i].offer # NoOffer
      PROVE  ~About(t[j], t[i].offer)
  <2>1. /\ i + 1 \in 1..Len(s) /\ j + 1 \in 1..Len(s) /\ i + 1 < j + 1
        /\ t[i] = s[i + 1] /\ t[j] = s[j + 1]
    BY <1>1, <1>2 DEF t
  <2> QED BY <1>2, <2>1 DEF SelectionLast
<1>3. ASSUME Head(s).type = "Selection", Head(s).offer # NoOffer, NEW e \in ToSet(t)
      PROVE  ~About(e, Head(s).offer)
  <2> t \in Seq(Event)
    BY <1>1 DEF t
  <2>1. PICK i \in 1..Len(t) : t[i] = e
    BY InRange
  <2>2. i + 1 \in 1..Len(s) /\ 1 < i + 1 /\ s[i + 1] = e
    BY <1>1, <2>1 DEF t
  <2> QED BY <1>1, <1>3, <2>2 DEF SelectionLast
<1>4. SelectionLast(t)
  BY <1>2 DEF SelectionLast
<1> QED BY <1>3, <1>4 DEF t

LEMMA LastNone ==
  ASSUME NEW s \in Seq(Event), NoneOffered(s)
  PROVE  SelectionLast(s)
<1>1. ASSUME NEW i \in 1..Len(s), s[i].type = "Selection", s[i].offer # NoOffer
      PROVE  FALSE
  <2>1. s[i] \in ToSet(s) /\ s[i] \in Event
    BY InRange
  <2>2. s[i].offer \in Offer /\ About(s[i], s[i].offer)
    BY <1>1, <2>1, EventFacts DEF About, OfferEvents
  <2> QED BY <2>1, <2>2 DEF NoneOffered
<1> QED BY <1>1 DEF SelectionLast

\* What is sent for a new selection is about one offer, its Selection last.
LEMMA AddedFacts ==
  ASSUME TypeOK, NEW o \in Offer, NEW types \in SUBSET Types,
         NEW type \in {"Selection", "PrimarySelection"},
         NEW c \in Seq(Event), \A e \in ToSet(c) : e.type = "Cancelled"
  PROVE  /\ c \o Announce(o, types, type) \in Seq(Event)
         /\ SelectionLast(c \o Announce(o, types, type))
         /\ \A e \in ToSet(c \o Announce(o, types, type)) : \A p \in Offer :
              About(e, p) => p = o
         /\ [type |-> type, offer |-> o] \in ToSet(c \o Announce(o, types, type))
<1> DEFINE a == Announce(o, types, type)
<1>1. /\ a \in Seq(Event)
      /\ \A i \in 1..Len(a) : /\ About(a[i], o)
                              /\ i # Len(a) => a[i].type \in {"DataOffer", "Offer"}
      /\ [type |-> type, offer |-> o] \in ToSet(a)
  BY AnnounceFacts
<1> HIDE DEF a
<1>2. ToSet(c \o a) = ToSet(c) \cup ToSet(a) /\ c \o a \in Seq(Event)
  BY <1>1, InConcat
<1>3. \A e \in ToSet(a) : About(e, o)
  BY <1>1, InRange
<1>4. NoneOffered(c)
  BY DEF NoneOffered, About, OfferEvents
<1>5. SelectionLast(a)
  <2>1. ASSUME NEW i \in 1..Len(a), NEW j \in 1..Len(a), i < j
        PROVE  a[i].type # "Selection"
    <3>1. i # Len(a)
      BY <1>1, <2>1
    <3> QED BY <1>1, <3>1
  <2> QED BY <2>1 DEF SelectionLast
<1>6. SelectionLast(c \o a)
  BY <1>1, <1>4, <1>5, LastNone, LastConcat DEF NoneOffered
<1>7. ASSUME NEW e \in ToSet(c \o a), NEW p \in Offer, About(e, p) PROVE p = o
  BY <1>2, <1>3, <1>4, <1>7 DEF NoneOffered, About
<1> QED BY <1>1, <1>2, <1>6, <1>7 DEF a

\* With the offers held, the events to handle, the current offer, the ids
\* cached and the offers of the primary selection: what an event is about is
\* held; the current offer is held and over with; what is cached is under an id
\* of a held offer; a held offer is current, awaits its Selection event or is
\* of the primary selection.
OfferOk(held, s, cur, cached, prim) ==
  /\ SelectionLast(s)
  /\ \A e \in ToSet(s) : \A o \in Offer : About(e, o) => o \in held
  /\ cur # NoOffer => cur \in held /\ \A e \in ToSet(s) : ~About(e, cur)
  /\ cached \subseteq {o.id : o \in held}
  /\ held \subseteq {cur} \cup {o \in held : [type |-> "Selection", offer |-> o] \in ToSet(s)}
                    \cup prim

OfferInv == OfferOk(Held, Stream, current_selection, DOMAIN offers, primaries)

\* Offers are numbered, so a new one was neither seen nor destroyed before; no
\* two that are alive share an id.
NumberInv ==
  /\ \A o \in alive : o.n <= announced
  /\ \A o \in Offer : DestroyOffer(o) \in ToSet(requests) => o.n <= announced
  /\ \A o, p \in alive : o.id = p.id => o = p

\* An offer is announced.
LEMMA OfferAdded ==
  ASSUME NEW held \in SUBSET Offer, NEW s \in Seq(Event), NEW cur, NEW cached, NEW prim,
         OfferOk(held, s, cur, cached, prim),
         NEW o \in Offer \ held, NEW a \in Seq(Event), SelectionLast(a),
         \A e \in ToSet(a) : \A p \in Offer : About(e, p) => p = o,
         NEW prim2, prim \subseteq prim2,
         o \in prim2 \/ [type |-> "Selection", offer |-> o] \in ToSet(a)
  PROVE  OfferOk(held \cup {o}, s \o a, cur, cached, prim2)
<1>1. ToSet(s \o a) = ToSet(s) \cup ToSet(a)
  BY InConcat
<1>2. SelectionLast(s \o a)
  BY LastConcat DEF OfferOk
<1>3. cur # NoOffer => cur \in Offer /\ cur # o
  BY DEF OfferOk
<1> QED BY <1>1, <1>2, <1>3 DEF OfferOk

\* Events about no offer are sent.
LEMMA NoOfferAdded ==
  ASSUME NEW held \in SUBSET Offer, NEW s \in Seq(Event), NEW cur, NEW cached, NEW prim,
         OfferOk(held, s, cur, cached, prim), NEW a \in Seq(Event), NoneOffered(a)
  PROVE  OfferOk(held, s \o a, cur, cached, prim)
<1>1. ToSet(s \o a) = ToSet(s) \cup ToSet(a)
  BY InConcat
<1>2. SelectionLast(s \o a)
  BY LastConcat, LastNone DEF OfferOk, NoneOffered
<1>3. cur # NoOffer => cur \in Offer
  BY DEF OfferOk
<1> QED BY <1>1, <1>2, <1>3 DEF OfferOk, NoneOffered

\* An event other than a selection is handled, and caches types of its offer.
LEMMA EventHandled ==
  ASSUME NEW held \in SUBSET Offer, NEW s \in Seq(Event), NEW cur, NEW cached, NEW prim,
         OfferOk(held, s, cur, cached, prim), s # << >>, Head(s).type # "Selection",
         NEW cached2,
         \/ cached2 = cached
         \/ Head(s).type \in {"DataOffer", "Offer"} /\ cached2 = cached \cup {Head(s).offer.id}
  PROVE  OfferOk(held, Tail(s), cur, cached2, prim)
<1>1. /\ Head(s) \in Event /\ Head(s) \in ToSet(s) /\ ToSet(s) = {Head(s)} \cup ToSet(Tail(s))
  BY InQueue
<1>2. SelectionLast(Tail(s))
  BY LastTail DEF OfferOk
<1>3. Head(s).type \in {"DataOffer", "Offer"} => Head(s).offer \in held
  BY <1>1, EventFacts DEF OfferOk, About, OfferEvents
<1>4. cached2 \subseteq {o.id : o \in held}
  BY <1>3 DEF OfferOk
<1>5. \A o : [type |-> "Selection", offer |-> o] # Head(s)
  OBVIOUS
<1> QED BY <1>1, <1>2, <1>4, <1>5 DEF OfferOk

\* The selection is replaced by that of the event, and the previous offer and
\* its types go.
LEMMA SelectionReplaced ==
  ASSUME NEW held \in SUBSET Offer, NEW s \in Seq(Event), NEW cur, NEW cached, NEW prim,
         OfferOk(held, s, cur, cached, prim), s # << >>,
         NEW new \in Offer \cup {NoOffer},
         \/ Head(s).type = "Selection" /\ new = Head(s).offer
         \/ Head(s).type = "Finished" /\ new = NoOffer
  PROVE  LET old == {cur} \ {NoOffer, new}
         IN  OfferOk(held \ old, Tail(s), new, cached \ {o.id : o \in old}, prim)
<1> DEFINE old == {cur} \ {NoOffer, new}
<1>1. /\ Head(s) \in Event /\ Head(s) \in ToSet(s) /\ ToSet(s) = {Head(s)} \cup ToSet(Tail(s))
  BY InQueue
<1>2. /\ SelectionLast(Tail(s))
      /\ Head(s).type = "Selection" /\ Head(s).offer # NoOffer =>
           \A e \in ToSet(Tail(s)) : ~About(e, Head(s).offer)
  BY LastTail DEF OfferOk
<1>3. NoOffer \notin Offer
  BY NoObjects
<1>4. new # NoOffer => /\ new \in held /\ new # cur
                       /\ \A e \in ToSet(Tail(s)) : ~About(e, new)
  BY <1>1, <1>2, EventFacts DEF OfferOk, About, OfferEvents
<1>5. \A o \in old : o = cur /\ o \in held /\ o # new /\ \A e \in ToSet(s) : ~About(e, o)
  BY DEF OfferOk
<1>6. cur # NoOffer => cur \in old
  BY <1>4
<1>7. \A o \in Offer : [type |-> "Selection", offer |-> o] = Head(s) => o = new
  OBVIOUS
<1>8. cached \ {o.id : o \in old} \subseteq {o.id : o \in held \ old}
  BY DEF OfferOk
<1>9. ASSUME NEW o \in held \ old
      PROVE  o \in {new} \cup {p \in held \ old :
                       [type |-> "Selection", offer |-> p] \in ToSet(Tail(s))} \cup prim
  <2>1. o # cur
    BY <1>3, <1>6, <1>9
  <2>2. o \in prim \/ [type |-> "Selection", offer |-> o] \in ToSet(s)
    BY <1>9, <2>1 DEF OfferOk
  <2> HIDE DEF old
  <2> QED BY <1>1, <1>7, <1>9, <2>2
<1> QED BY <1>1, <1>2, <1>4, <1>5, <1>8, <1>9 DEF OfferOk

LEMMA OfferInit == Init => NumberInv /\ OfferInv
<1> SUFFICES ASSUME Init PROVE NumberInv /\ OfferInv
  OBVIOUS
<1>1. /\ requests = << >> /\ Stream = << >> /\ alive = {} /\ current_selection = NoOffer
      /\ offers = << >> /\ DOMAIN offers = {} /\ primaries = {} /\ queue \o wire = << >>
  BY ConcatEmptySeq DEF Init, Stream
<1>2. ToSet(Stream) = {} /\ ToSet(requests) = {} /\ Held = {}
  BY <1>1, InNothing DEF Held
<1>3. SelectionLast(Stream)
  BY <1>1 DEF SelectionLast
<1>4. NumberInv
  BY <1>1, <1>2 DEF NumberInv
<1>5. OfferInv
  BY <1>1, <1>2, <1>3 DEF OfferInv, OfferOk
<1> QED BY <1>4, <1>5

LEMMA HeldType == TypeOK => Held \in SUBSET Offer
  BY DEF TypeOK, Held

\* A new offer is held.
LEMMA HeldNew ==
  ASSUME TypeOK, NumberInv, NEW o \in FreshOffers, NewOffer(o),
         ToSet(requests') \subseteq ToSet(requests),
         \A p : DestroyOffer(p) \in ToSet(requests) => DestroyOffer(p) \in ToSet(requests')
  PROVE  o \in Offer \ Held /\ Held' = Held \cup {o} /\ NumberInv'
<1>1. /\ o.n = announced + 1 /\ o.id \in Ids /\ (\A p \in alive : p.id # o.id)
      /\ announced' = announced + 1 /\ alive' = alive \cup {o} /\ announced < MaxOffers
      /\ announced \in 0..MaxOffers /\ MaxOffers \in Nat
  BY ObjectAssumption DEF FreshOffers, NewOffer, TypeOK
<1>2. o \in Offer
  BY <1>1 DEF FreshOffers, Offer
<1>3. o \notin alive /\ DestroyOffer(o) \notin ToSet(requests)
  BY <1>1, <1>2 DEF NumberInv
<1>4. Held' = Held \cup {o}
  BY <1>1, <1>3 DEF Held
<1>5. \A p \in alive' : p.n <= announced'
  <2>1. \A p \in Offer : p.n \in Nat
    BY DEF Offer
  <2> QED BY <1>1, <2>1 DEF NumberInv, TypeOK
<1>6. \A p \in Offer : DestroyOffer(p) \in ToSet(requests') => p.n <= announced'
  <2>1. \A p \in Offer : p.n \in Nat
    BY DEF Offer
  <2> QED BY <1>1, <2>1 DEF NumberInv
<1>7. \A p, q \in alive' : p.id = q.id => p = q
  BY <1>1 DEF NumberInv
<1> QED BY <1>2, <1>3, <1>4, <1>5, <1>6, <1>7 DEF NumberInv, Held

\* Processing a request does not change which offers are held.
LEMMA HeldTail ==
  ASSUME TypeOK, requests # << >>, requests' = Tail(requests)
  PROVE  /\ ToSet(requests') \subseteq ToSet(requests)
         /\ Head(requests).type # "DestroyOffer" =>
              \A o : DestroyOffer(o) \in ToSet(requests) => DestroyOffer(o) \in ToSet(requests')
         /\ Head(requests).type = "DestroyOffer" /\ alive' = alive \ {Head(requests).offer} =>
              Held' = Held
<1>1. /\ Head(requests) \in Request
      /\ ToSet(requests) = {Head(requests)} \cup ToSet(Tail(requests))
  BY InQueue DEF TypeOK
<1>2. \A o : DestroyOffer(o) = Head(requests) => Head(requests).type = "DestroyOffer"
                                                  /\ Head(requests).offer = o
  BY RequestFields
<1>3. Head(requests).type = "DestroyOffer" => Head(requests) = DestroyOffer(Head(requests).offer)
  BY <1>1, RequestFacts
<1> QED BY <1>1, <1>2, <1>3 DEF Held

LEMMA OfferCompositor ==
  ASSUME TypeOK, NumberInv, OfferInv, Compositor
  PROVE  NumberInv' /\ OfferInv'
<1>0. /\ UNCHANGED <<clientVars, queue>> /\ Stream \in Seq(Event) /\ Held \in SUBSET Offer
      /\ OfferOk(Held, Stream, current_selection, DOMAIN offers, primaries)
  <2>1. UNCHANGED <<clientVars, queue>>
    BY DEF Compositor, PeerCopy, PeerSelect, PeerLeaves, Revoke, OfferDestroyed, SelectionSet,
           SelectionIgnored, SourceDestroyed
  <2> QED BY <2>1, StreamType, HeldType DEF OfferInv
<1>c. /\ wire \in Seq(Event) /\ Cancelling \in Seq(Event)
      /\ \A e \in ToSet(Cancelling) : e.type = "Cancelled"
      /\ << >> \in Seq(Event) /\ \A e \in ToSet(<< >>) : e.type = "Cancelled"
  <2>1. ToSet(<<Cancelled(selection)>>) = {Cancelled(selection)} /\ ToSet(<< >>) = {}
    BY DEF ToSet
  <2>2. Cancelled(selection).type = "Cancelled"
    BY DEF Cancelled
  <2> QED BY <2>1, <2>2, CancellingFacts, SMTT(30) DEF TypeOK
<1>g. \A s, t, u \in Seq(Event) : (s \o t) \o u = s \o (t \o u)
  BY Regroup
\* An offer is announced.
<1>a. ASSUME NEW o \in FreshOffers, NewOffer(o), NEW types \in SUBSET Types,
             NEW type \in {"Selection", "PrimarySelection"},
             NEW c \in Seq(Event), \A e \in ToSet(c) : e.type = "Cancelled",
             wire' = wire \o (c \o Announce(o, types, type)),
             primaries \subseteq primaries', type = "Selection" \/ o \in primaries',
             ToSet(requests') \subseteq ToSet(requests),
             \A p : DestroyOffer(p) \in ToSet(requests) => DestroyOffer(p) \in ToSet(requests')
      PROVE  NumberInv' /\ OfferInv'
  <2> DEFINE a == c \o Announce(o, types, type)
  <2>1. o \in Offer \ Held /\ Held' = Held \cup {o} /\ NumberInv'
    BY <1>a, HeldNew
  <2>2. /\ a \in Seq(Event) /\ SelectionLast(a)
        /\ \A e \in ToSet(a) : \A p \in Offer : About(e, p) => p = o
        /\ [type |-> type, offer |-> o] \in ToSet(a)
    BY <1>a, <2>1, AddedFacts
  <2> HIDE DEF a
  <2>3. Stream' = Stream \o a
    BY <1>0, <1>a, <2>2, StreamGrows DEF a
  <2>4. OfferOk(Held \cup {o}, Stream \o a, current_selection, DOMAIN offers, primaries')
    BY <1>0, <1>a, <2>1, <2>2, OfferAdded
  <2> QED BY <1>0, <2>1, <2>3, <2>4 DEF OfferInv, clientVars
\* Other events are sent, if any, and the offers held stay.
<1>n. ASSUME NEW a \in Seq(Event), NoneOffered(a), wire' = wire \o a, Held' = Held,
             primaries' = primaries
      PROVE  OfferInv'
  <2>1. Stream' = Stream \o a
    BY <1>0, <1>n, StreamGrows
  <2>2. OfferOk(Held, Stream \o a, current_selection, DOMAIN offers, primaries)
    BY <1>0, <1>n, NoOfferAdded
  <2> QED BY <1>0, <1>n, <2>1, <2>2 DEF OfferInv, clientVars
<1>s. ASSUME wire' = wire, Held' = Held, primaries' = primaries PROVE OfferInv'
  <2>1. Stream' = Stream
    BY <1>0, <1>s DEF Stream
  <2> QED BY <1>0, <1>s, <2>1 DEF OfferInv, clientVars
<1>m. NoneOffered(<<[type |-> "Selection", offer |-> NoOffer]>>)
  <2>1. ToSet(<<[type |-> "Selection", offer |-> NoOffer]>>)
          = {[type |-> "Selection", offer |-> NoOffer]}
    BY DEF ToSet
  <2> QED BY <2>1, NoObjects DEF NoneOffered, About
<1>1. CASE PeerCopy
  <2>1. PICK o \in FreshOffers, types \in SUBSET Types :
           NewOffer(o) /\ wire' = (wire \o Cancelling) \o Announce(o, types, "Selection")
    BY <1>1 DEF PeerCopy
  <2>2. Announce(o, types, "Selection") \in Seq(Event)
    BY <2>1, <1>1, HeldNew, AnnounceFacts DEF PeerCopy
  <2>3. wire' = wire \o (Cancelling \o Announce(o, types, "Selection"))
    BY <1>c, <1>g, <2>1, <2>2
  <2>4. requests' = requests /\ primaries' = primaries
    BY <1>1 DEF PeerCopy
  <2> QED BY <1>a, <1>c, <2>1, <2>3, <2>4
<1>2. CASE PeerSelect
  <2>1. PICK o \in FreshOffers, types \in SUBSET Types :
           /\ NewOffer(o) /\ primaries' = primaries \cup {o}
           /\ wire' = wire \o Announce(o, types, "PrimarySelection")
    BY <1>2 DEF PeerSelect
  <2>2. Announce(o, types, "PrimarySelection") \in Seq(Event)
    BY <2>1, <1>2, HeldNew, AnnounceFacts DEF PeerSelect
  <2>3. << >> \o Announce(o, types, "PrimarySelection") = Announce(o, types, "PrimarySelection")
    BY <2>2, ConcatEmptySeq
  <2>4. requests' = requests
    BY <1>2 DEF PeerSelect
  <2>5. wire' = wire \o (<< >> \o Announce(o, types, "PrimarySelection"))
    BY <2>1, <2>3
  <2> QED BY <1>a, <1>c, <2>1, <2>4, <2>5
<1>3. CASE PeerLeaves
  <2> DEFINE a == <<[type |-> "Selection", offer |-> NoOffer]>>
  <2>1. a \in Seq(Event) /\ wire' = wire \o a
    BY <1>c, <1>3, EventTypes, AppendIsConcat DEF PeerLeaves
  <2>2. Held' = Held /\ primaries' = primaries /\ NumberInv'
    BY <1>3 DEF PeerLeaves, Held, NumberInv
  <2> QED BY <1>m, <1>n, <2>1, <2>2
<1>4. CASE Revoke
  <2> DEFINE f == <<[type |-> "Finished"]>>
             a == Cancelling \o f
  <2>1. f \in Seq(Event) /\ wire' = (wire \o Cancelling) \o f
        /\ ToSet(f) = {[type |-> "Finished"]}
    BY <1>4, EventTypes DEF Revoke, ToSet
  <2>2. \A e \in ToSet(f) : e.type = "Finished"
    BY <2>1
  <2> HIDE DEF f
  <2>3. a \in Seq(Event) /\ wire' = wire \o a /\ ToSet(a) = ToSet(Cancelling) \cup ToSet(f)
    BY <1>c, <1>g, <2>1, InConcat, SMTT(30)
  <2>4. NoneOffered(a)
    BY <1>c, <2>2, <2>3 DEF NoneOffered, About, OfferEvents
  <2> HIDE DEF a
  <2>5. Held' = Held /\ primaries' = primaries /\ NumberInv'
    BY <1>4 DEF Revoke, Held, NumberInv
  <2> QED BY <1>n, <2>3, <2>4, <2>5
<1>5. CASE OfferDestroyed
  <2>1. /\ requests # << >> /\ Head(requests).type = "DestroyOffer"
        /\ requests' = Tail(requests) /\ alive' = alive \ {Head(requests).offer}
        /\ wire' = wire /\ primaries' = primaries /\ announced' = announced
    BY <1>5 DEF OfferDestroyed, NextRequest
  <2>2. ToSet(requests') \subseteq ToSet(requests) /\ Held' = Held
    BY <2>1, HeldTail
  <2>3. NumberInv'
    BY <2>1, <2>2 DEF NumberInv
  <2> QED BY <1>s, <2>1, <2>2, <2>3
<1>6. CASE SelectionSet
  <2>1. PICK o \in FreshOffers :
           NewOffer(o) /\ wire' = (wire \o Cancelling) \o Announce(o, Types, "Selection")
    BY <1>6 DEF SelectionSet
  <2>2. /\ requests # << >> /\ Head(requests).type = "SetSelection"
        /\ requests' = Tail(requests) /\ primaries' = primaries
    BY <1>6 DEF SelectionSet, NextRequest
  <2>3. /\ ToSet(requests') \subseteq ToSet(requests)
        /\ \A p : DestroyOffer(p) \in ToSet(requests) => DestroyOffer(p) \in ToSet(requests')
    BY <2>2, HeldTail
  <2>4. Announce(o, Types, "Selection") \in Seq(Event)
    BY <2>1, <2>3, HeldNew, AnnounceFacts
  <2>5. wire' = wire \o (Cancelling \o Announce(o, Types, "Selection"))
    BY <1>c, <1>g, <2>1, <2>4
  <2> QED BY <1>a, <1>c, <2>1, <2>2, <2>3, <2>5
<1>7. CASE SelectionIgnored \/ SourceDestroyed
  <2>1. /\ requests # << >> /\ Head(requests).type # "DestroyOffer"
        /\ requests' = Tail(requests) /\ primaries' = primaries
        /\ alive' = alive /\ announced' = announced
        /\ \/ wire' = wire
           \/ wire' = Append(wire, [type |-> "Selection", offer |-> NoOffer])
    BY <1>7 DEF SelectionIgnored, SourceDestroyed, NextRequest, compositorVars
  <2>2. /\ ToSet(requests') \subseteq ToSet(requests)
        /\ \A p : DestroyOffer(p) \in ToSet(requests) => DestroyOffer(p) \in ToSet(requests')
    BY <2>1, HeldTail
  <2>3. Held' = Held /\ NumberInv'
    BY <2>1, <2>2 DEF Held, NumberInv
  <2>4. CASE wire' = Append(wire, [type |-> "Selection", offer |-> NoOffer])
    <3> DEFINE a == <<[type |-> "Selection", offer |-> NoOffer]>>
    <3>1. a \in Seq(Event) /\ wire' = wire \o a
      BY <1>c, <2>4, EventTypes, AppendIsConcat
    <3> QED BY <1>m, <1>n, <2>1, <2>3, <3>1
  <2> QED BY <1>s, <2>1, <2>3, <2>4
<1> QED BY <1>1, <1>2, <1>3, <1>4, <1>5, <1>6, <1>7 DEF Compositor

LEMMA OfferThread ==
  ASSUME TypeOK, NumberInv, OfferInv, Thread
  PROVE  NumberInv' /\ OfferInv'
<1>0. /\ Stream \in Seq(Event) /\ Held \in SUBSET Offer /\ requests \in Seq(Request)
      /\ OfferOk(Held, Stream, current_selection, DOMAIN offers, primaries)
  BY StreamType, HeldType DEF OfferInv, TypeOK
<1>w. /\ UNCHANGED <<alive, primaries, announced>>
      /\ Stream' = Stream
         \/ \E type : Handling(type)
  <2>1. CASE ReadEvents
    BY <2>1, ReadEventsFacts DEF ReadEvents
  <2>2. CASE Poll \/ DispatchDone \/ Drain \/ Restore
    BY <2>2, RestoreFacts DEF Poll, DispatchDone, Drain, compositorVars, Stream
  <2>3. ASSUME NEW type, Handling(type) PROVE UNCHANGED <<alive, primaries, announced>>
    BY <2>3, HandlingFacts DEF compositorVars
  <2> QED BY <2>1, <2>2, <2>3 DEF Thread, OnDataOffer, OnOffer, OnSelection,
             OnPrimarySelection, OnFinished, OnCancelled
\* No request to destroy an offer is added.
<1>h. ASSUME \A p : DestroyOffer(p) \in ToSet(requests') <=> DestroyOffer(p) \in ToSet(requests)
      PROVE  Held' = Held /\ NumberInv'
  BY <1>h, <1>w DEF Held, NumberInv
\* An event other than a selection is handled.
<1>e. ASSUME NEW type, Handling(type), type # "Selection",
             \A p : DestroyOffer(p) \in ToSet(requests') <=> DestroyOffer(p) \in ToSet(requests),
             current_selection' = current_selection,
             \/ DOMAIN offers' = DOMAIN offers
             \/ /\ type \in {"DataOffer", "Offer"}
                /\ DOMAIN offers' = DOMAIN offers \cup {Head(queue).offer.id}
      PROVE  NumberInv' /\ OfferInv'
  <2>1. /\ Stream # << >> /\ Head(Stream) = Head(queue) /\ Head(queue).type = type
        /\ Stream' = Tail(Stream)
    BY <1>e, HandlingFacts
  <2>2. Held' = Held /\ NumberInv'
    BY <1>e, <1>h
  <2>3. OfferOk(Held, Tail(Stream), current_selection, DOMAIN offers', primaries)
    BY <1>0, <1>e, <2>1, EventHandled
  <2> QED BY <1>e, <1>w, <2>1, <2>2, <2>3 DEF OfferInv
\* A selection replaces the current one.
<1>r. ASSUME NEW type, Handling(type), NEW new \in Offer \cup {NoOffer}, Clear(Replaced(new)),
             current_selection' = new,
             \/ type = "Selection" /\ new = Head(queue).offer
             \/ type = "Finished" /\ new = NoOffer
      PROVE  NumberInv' /\ OfferInv'
  <2> DEFINE old == {current_selection} \ {NoOffer, new}
  <2>1. /\ Stream # << >> /\ Head(Stream) = Head(queue) /\ Head(queue).type = type
        /\ Stream' = Tail(Stream)
    BY <1>r, HandlingFacts
  <2>2. OfferOk(Held \ old, Tail(Stream), new, DOMAIN offers \ {o.id : o \in old}, primaries)
    BY <1>0, <1>r, <2>1, SelectionReplaced
  <2>3. old = Replaced(new) /\ old \subseteq Held
    BY <1>0 DEF Replaced, OfferOk
  <2> HIDE DEF old
  <2>4. /\ DOMAIN offers' = DOMAIN offers \ {o.id : o \in old}
        /\ ToSet(requests') = ToSet(requests) \cup {DestroyOffer(o) : o \in old}
    BY <1>r, <2>3, ClearFacts
  <2>5. \A p : DestroyOffer(p) \in ToSet(requests')
                 <=> DestroyOffer(p) \in ToSet(requests) \/ p \in old
    BY <2>4, RequestFields
  <2>6. Held' = Held \ old
    BY <1>w, <2>5 DEF Held
  <2>7. NumberInv'
    <3>1. \A p \in old : p.n <= announced
      BY <2>3 DEF NumberInv, Held
    <3> QED BY <1>w, <2>5, <3>1 DEF NumberInv
  <2> QED BY <1>r, <1>w, <2>1, <2>2, <2>4, <2>6, <2>7 DEF OfferInv
<1>1. CASE ReadEvents \/ Poll \/ DispatchDone
  <2>1. /\ UNCHANGED <<offers, current_selection, requests>> /\ Stream' = Stream
    BY <1>1, ReadEventsFacts DEF ReadEvents, Poll, DispatchDone, compositorVars, Stream
  <2>2. Held' = Held /\ NumberInv'
    BY <1>h, <2>1
  <2> QED BY <1>w, <2>1, <2>2 DEF OfferInv
<1>2. CASE OnDataOffer
  <2>1. DOMAIN offers' = DOMAIN offers \cup {Head(queue).offer.id}
    BY <1>2 DEF OnDataOffer, WithTypes
  <2> QED BY <1>2, <1>e, <2>1 DEF OnDataOffer
<1>3. CASE OnOffer
  <2>1. DOMAIN offers' = DOMAIN offers \cup {Head(queue).offer.id}
    BY <1>3 DEF OnOffer, WithTypes
  <2> QED BY <1>3, <1>e, <2>1 DEF OnOffer
<1>4. CASE OnSelection
  <2>1. /\ Handling("Selection") /\ Clear(Replaced(Head(queue).offer))
        /\ current_selection' = Head(queue).offer
    BY <1>4 DEF OnSelection
  <2>2. Head(queue).offer \in Offer \cup {NoOffer}
    BY <2>1, HandlingFacts, EventFacts
  <2> QED BY <1>r, <2>1, <2>2
<1>5. CASE OnPrimarySelection
  BY <1>5, <1>e DEF OnPrimarySelection
<1>6. CASE OnFinished
  BY <1>6, <1>r DEF OnFinished
<1>7. CASE OnCancelled
  <2>1. Handling("Cancelled") /\ UNCHANGED <<offers, current_selection>>
    BY <1>7 DEF OnCancelled
  <2>2. \A p : DestroyOffer(p) \in ToSet(requests') <=> DestroyOffer(p) \in ToSet(requests)
    <3>1. CASE Active(Head(queue).source)
      <4>1. /\ requests' = Append(requests, DestroySource(current_source))
            /\ current_source = Head(queue).source
        BY <1>7, <3>1 DEF OnCancelled, Active
      <4>2. current_source \in Source
        BY <2>1, <4>1, HandlingFacts, EventFacts
      <4>3. ToSet(Append(requests, DestroySource(current_source)))
              = ToSet(requests) \cup {DestroySource(current_source)}
        BY <1>0, <4>2, RequestFacts, InAppend
      <4>4. \A p : DestroyOffer(p) # DestroySource(current_source)
        BY RequestFields
      <4> QED BY <4>1, <4>3, <4>4
    <3>2. CASE ~Active(Head(queue).source)
      BY <1>7, <3>2 DEF OnCancelled
    <3> QED BY <3>1, <3>2
  <2> QED BY <1>e, <2>1, <2>2
<1>8. CASE Drain
  <2>1. DOMAIN offers' \subseteq DOMAIN offers /\ UNCHANGED <<current_selection, requests>>
        /\ Stream' = Stream
    BY <1>8 DEF Drain, Forget, Restrict, compositorVars, Stream
  <2>2. Held' = Held /\ NumberInv'
    BY <1>h, <2>1
  <2>3. OfferOk(Held, Stream, current_selection, DOMAIN offers', primaries)
    BY <1>0, <2>1 DEF OfferOk
  <2> QED BY <1>w, <2>1, <2>2, <2>3 DEF OfferInv
<1>9. CASE Restore
  <2> DEFINE x == SetSelection(created')
             y == DestroySource(current_source)
             r == Append(requests, x)
  <2>1. /\ created' \in Source /\ UNCHANGED <<offers, current_selection>> /\ Stream' = Stream
        /\ \/ requests' = r
           \/ current_source \in Source /\ requests' = Append(r, y)
    BY <1>9, RestoreFacts DEF compositorVars, Stream
  <2>2. /\ x \in Request /\ x.type = "SetSelection" /\ y.type = "DestroySource"
        /\ current_source \in Source => y \in Request
    BY <2>1, RequestFacts, RequestFields
  <2> HIDE DEF x, y
  <2>3. r \in Seq(Request) /\ ToSet(r) = ToSet(requests) \cup {x}
    BY <1>0, <2>2, InAppend
  <2> HIDE DEF r
  <2>4. current_source \in Source => ToSet(Append(r, y)) = ToSet(r) \cup {y}
    BY <2>2, <2>3, InAppend
  <2>5. \A p : DestroyOffer(p) # x /\ DestroyOffer(p) # y
    BY <2>2, RequestFields
  <2>6. Held' = Held /\ NumberInv'
    BY <1>h, <2>1, <2>3, <2>4, <2>5
  <2> QED BY <1>w, <2>1, <2>6 DEF OfferInv
<1> QED BY <1>1, <1>2, <1>3, <1>4, <1>5, <1>6, <1>7, <1>8, <1>9 DEF Thread

LEMMA OfferStep == TypeOK /\ NumberInv /\ OfferInv /\ [Next]_vars => NumberInv' /\ OfferInv'
<1>1. ASSUME NumberInv, OfferInv, UNCHANGED vars PROVE NumberInv' /\ OfferInv'
  BY <1>1 DEF vars, clientVars, compositorVars, NumberInv, OfferInv, Held, Stream
<1> QED BY <1>1, OfferCompositor, OfferThread DEF Next

LEMMA OffersAlways == Spec => [](TypeOK /\ NumberInv /\ OfferInv)
<1>1. TypeOK /\ NumberInv /\ OfferInv /\ [Next]_vars => TypeOK' /\ NumberInv' /\ OfferInv'
  BY TypeStep, OfferStep
<1> QED BY <1>1, TypeInit, OfferInit, PTL DEF Spec

\* Cached types are under ids of offers not destroyed yet: a new offer that is
\* given an id again never finds types of another.
THEOREM CacheWithOffers == Spec => []CacheKept
<1>1. OfferInv => CacheKept
  BY DEF OfferInv, OfferOk, CacheKept
<1> QED BY <1>1, OffersAlways, PTL

\* Besides the current offer and those still to be handled, the daemon holds
\* only offers of the primary selection: every replaced one is destroyed.
THEOREM OffersDestroyed == Spec => []NoOfferLeak
<1>1. OfferInv => NoOfferLeak
  BY DEF OfferInv, OfferOk, NoOfferLeak, Awaited, Held, Stream
<1> QED BY <1>1, OffersAlways, PTL

-----------------------------------------------------------------------------
(* Reads.                                                                   *)

\* The offers that queued events and waiting reads name.
Named(q, reads) ==
  {o \in Offer : \E e \in ToSet(q) : About(e, o)} \cup {r.offer : r \in reads}

\* No two of them share an id: an id is used again only by an event still in
\* the socket, which is read when all reads are done.
ReadInv ==
  /\ \A o, p \in Named(queue, pending_reads) : o.id = p.id => o = p
  /\ pc \in {"restore", "polled"} => pending_reads = {}

LEMMA ReadInit == Init => ReadInv
<1> SUFFICES ASSUME Init PROVE ReadInv
  OBVIOUS
<1>1. queue = << >> /\ pending_reads = {}
  BY DEF Init
<1>2. Named(queue, pending_reads) = {}
  BY <1>1, InNothing DEF Named
<1> QED BY <1>1, <1>2 DEF ReadInv

LEMMA ReadStep ==
  ASSUME TypeOK, NumberInv, OfferInv, ReadInv, [Next]_vars
  PROVE  ReadInv'
<1>0. queue \in Seq(Event)
  BY DEF TypeOK
\* What is named was named before.
<1>n. ASSUME Named(queue', pending_reads') \subseteq Named(queue, pending_reads),
             pc' \in {"restore", "polled"} => pending_reads' = {}
      PROVE  ReadInv'
  BY <1>n DEF ReadInv
<1>h. ASSUME NEW type, Handling(type)
      PROVE  ToSet(queue') \subseteq ToSet(queue) /\ pc' = "dispatch"
  <2>1. queue # << >> /\ queue' = Tail(queue) /\ pc' = pc /\ pc = "dispatch"
    BY <1>h, HandlingFacts
  <2> QED BY <1>0, <2>1, InQueue
<1>1. CASE UNCHANGED vars \/ Compositor \/ Poll \/ DispatchDone \/ Restore
  <2>1. UNCHANGED <<queue, pending_reads>> /\ (pc' = pc \/ pc' = "drain" \/ (pc = "restore" /\ pc' = "polled"))
    BY <1>1, RestoreFacts
       DEF vars, clientVars, Compositor, PeerCopy, PeerSelect, PeerLeaves, Revoke, OfferDestroyed,
           SelectionSet, SelectionIgnored, SourceDestroyed, Poll, DispatchDone
  <2> QED BY <1>n, <2>1 DEF ReadInv
<1>2. CASE ReadEvents
  <2>1. /\ ToSet(queue') \subseteq ToSet(Stream) /\ pending_reads' = pending_reads
        /\ pc = "polled" /\ pc' = "dispatch"
    BY <1>2, ReadEventsFacts DEF ReadEvents
  <2>2. pending_reads' = {}
    BY <2>1 DEF ReadInv
  <2>3. Named(queue', pending_reads') \subseteq Held
    BY <2>1, <2>2 DEF Named, OfferInv, OfferOk
  <2>4. \A o, p \in Held : o.id = p.id => o = p
    BY DEF NumberInv, Held
  <2> QED BY <2>1, <2>3, <2>4 DEF ReadInv
<1>3. CASE OnDataOffer \/ OnOffer \/ OnPrimarySelection \/ OnFinished \/ OnCancelled
  <2>1. PICK type : Handling(type) /\ pending_reads' = pending_reads
    BY <1>3 DEF OnDataOffer, OnOffer, OnPrimarySelection, OnFinished, OnCancelled
  <2>2. ToSet(queue') \subseteq ToSet(queue) /\ pc' = "dispatch"
    BY <1>h, <2>1
  <2> QED BY <1>n, <2>1, <2>2 DEF Named
<1>4. CASE OnSelection
  <2> DEFINE new == Head(queue).offer
  <2>1. Handling("Selection") /\ Clear(Replaced(new))
    BY <1>4 DEF OnSelection
  <2>2. PICK opened \in SUBSET Requested(offers', new) :
          pending_reads' = pending_reads \cup [offer : {new}, mime : opened]
    BY <1>4 DEF OnSelection
  <2>3. /\ ToSet(queue') \subseteq ToSet(queue) /\ pc' = "dispatch"
        /\ queue # << >> /\ Head(queue) \in Event /\ Head(queue).type = "Selection"
        /\ Head(queue) \in ToSet(queue)
    BY <1>0, <1>h, <2>1, HandlingFacts, InQueue
  <2>4. new \in Offer \cup {NoOffer}
    BY <2>3, EventFacts
  <2>5. new \in Offer => new \in Named(queue, pending_reads)
    BY <2>3 DEF Named, About, OfferEvents
  <2> HIDE DEF new
  <2>6. new = NoOffer => opened = {}
    <3>1. DOMAIN offers' \subseteq DOMAIN offers
      BY <2>1, <2>4, ClearFacts
    <3>2. new = NoOffer => new.id \notin DOMAIN offers'
      BY <3>1, NoObjects, ObjectAssumption DEF TypeOK
    <3> QED BY <3>2 DEF Requested
  <2>7. \A r \in pending_reads' : r \in pending_reads \/ (r.offer = new /\ new \in Offer)
    BY <2>2, <2>4, <2>6
  <2>8. Named(queue', pending_reads') \subseteq Named(queue, pending_reads)
    BY <2>3, <2>5, <2>7 DEF Named
  <2> QED BY <1>n, <2>3, <2>8
<1>5. CASE Drain
  <2>1. queue' = queue /\ pending_reads' = {}
    BY <1>5 DEF Drain
  <2> QED BY <1>n, <2>1 DEF Named
<1> QED BY <1>1, <1>2, <1>3, <1>4, <1>5 DEF Next, Thread

\* The reads that are grouped by offer id are of one offer: an id used again
\* never mixes two copies into one entry of the history.
THEOREM OneOfferPerRead == Spec => []ReadsOfOneOffer
<1>1. TypeOK /\ NumberInv /\ OfferInv /\ ReadInv /\ [Next]_vars => ReadInv'
  BY ReadStep
<1>2. ReadInv => ReadsOfOneOffer
  <2>1. \A r \in pending_reads : r.offer \in Named(queue, pending_reads)
    BY DEF Named
  <2> QED BY <2>1 DEF ReadInv, ReadsOfOneOffer
<1> QED BY <1>1, <1>2, ReadInit, OffersAlways, PTL DEF Spec
=============================================================================

---------------------------- MODULE CopyTripProofs ----------------------------
(***************************************************************************)
(* Proofs about CopyTrip, for every list of types a client may advertise    *)
(* and every set of payloads: what is requested, pasted, read back, listed. *)
(***************************************************************************)
EXTENDS CopyTrip, SequenceTheorems, FiniteSetTheorems, WellFoundedInduction, TLAPS

-----------------------------------------------------------------------------
(* Sequences of types.                                                      *)

LEMMA LeastNumber ==
  ASSUME NEW T \in SUBSET Nat, T # {}
  PROVE  \E x \in T : \A y \in T : x <= y
<1>1. PICK x \in T : \A y \in T : ~(<<y, x>> \in OpToRel(<, Nat))
  BY NatLessThanWellFounded, WFMin
<1>2. \A y \in T : ~(y < x)
  BY <1>1 DEF OpToRel
<1> QED BY <1>2

LEMMA MinProperties ==
  ASSUME NEW T \in SUBSET Nat, T # {}
  PROVE  Min(T) \in T /\ \A y \in T : Min(T) <= y
BY LeastNumber DEF Min

\* Index finds the element, at its first place.
LEMMA IndexProperties ==
  ASSUME NEW S, NEW s \in Seq(S), NEW m \in ToSet(s)
  PROVE  /\ Index(s, m) \in 1..Len(s) /\ s[Index(s, m)] = m
         /\ \A i \in 1..Len(s) : s[i] = m => Index(s, m) <= i
<1> DEFINE I == {i \in DOMAIN s : s[i] = m}
<1>1. DOMAIN s = 1..Len(s)
  OBVIOUS
<1>2. I \in SUBSET Nat /\ I # {}
  BY <1>1 DEF ToSet
<1>3. Min(I) \in I /\ \A y \in I : Min(I) <= y
  BY <1>2, MinProperties
<1> QED BY <1>1, <1>3 DEF Index

\* FirstIn finds a member of the set, and none comes before it.
LEMMA FirstInProperties ==
  ASSUME NEW S, NEW s \in Seq(S), NEW T, NEW x \in T, x \in ToSet(s)
  PROVE  /\ FirstIn(s, T) \in T
         /\ \E i \in 1..Len(s) : FirstIn(s, T) = s[i] /\ \A j \in 1..Len(s) : s[j] \in T => i <= j
<1> DEFINE I == {i \in DOMAIN s : s[i] \in T}
<1>1. DOMAIN s = 1..Len(s)
  OBVIOUS
<1>2. I \in SUBSET Nat /\ I # {}
  BY <1>1 DEF ToSet
<1>3. Min(I) \in I /\ \A y \in I : Min(I) <= y
  BY <1>2, MinProperties
<1> QED BY <1>1, <1>3 DEF FirstIn

LEMMA ConcatToSet ==
  ASSUME NEW S, NEW T, NEW s \in Seq(S), NEW t \in Seq(T)
  PROVE  /\ s \o t \in Seq(S \cup T)
         /\ \A x : x \in ToSet(s \o t) <=> x \in ToSet(s) \/ x \in ToSet(t)
<1>0. s \in Seq(S \cup T) /\ t \in Seq(S \cup T)
  BY SeqMonotonic
<1>1. s \o t \in Seq(S \cup T) /\ Len(s \o t) = Len(s) + Len(t)
      /\ \A i \in 1..(Len(s) + Len(t)) :
           (s \o t)[i] = IF i <= Len(s) THEN s[i] ELSE t[i - Len(s)]
  BY <1>0, ConcatProperties
<1>2. /\ Len(s) \in Nat /\ Len(t) \in Nat /\ DOMAIN s = 1..Len(s) /\ DOMAIN t = 1..Len(t)
      /\ DOMAIN (s \o t) = 1..(Len(s) + Len(t))
  BY <1>1
<1>3. ASSUME NEW x \in ToSet(s \o t) PROVE x \in ToSet(s) \cup ToSet(t)
  <2>1. PICK i \in 1..(Len(s) + Len(t)) : x = (s \o t)[i]
    BY <1>2 DEF ToSet
  <2>2. CASE i <= Len(s)
    <3>1. i \in DOMAIN s /\ x = s[i]
      BY <1>1, <1>2, <2>1, <2>2
    <3> QED BY <3>1 DEF ToSet
  <2>3. CASE ~(i <= Len(s))
    <3>1. i - Len(s) \in DOMAIN t /\ x = t[i - Len(s)]
      BY <1>1, <1>2, <2>1, <2>3
    <3> QED BY <3>1 DEF ToSet
  <2> QED BY <2>2, <2>3
<1>4. ASSUME NEW x \in ToSet(s) PROVE x \in ToSet(s \o t)
  <2>1. PICK i \in 1..Len(s) : x = s[i]
    BY <1>2 DEF ToSet
  <2>2. i \in 1..(Len(s) + Len(t)) /\ (s \o t)[i] = x
    BY <1>1, <1>2, <2>1
  <2> QED BY <1>2, <2>2 DEF ToSet
<1>5. ASSUME NEW x \in ToSet(t) PROVE x \in ToSet(s \o t)
  <2>1. PICK i \in 1..Len(t) : x = t[i]
    BY <1>2 DEF ToSet
  <2> DEFINE j == Len(s) + i
  <2>2. j \in 1..(Len(s) + Len(t)) /\ ~(j <= Len(s)) /\ j - Len(s) = i
    BY <1>2
  <2>3. (s \o t)[j] = x
    BY <1>1, <2>1, <2>2
  <2> QED BY <1>2, <2>2, <2>3 DEF ToSet
<1> QED BY <1>1, <1>3, <1>4, <1>5

-----------------------------------------------------------------------------
(* The lists of types.                                                      *)

LEMMA PreferredTypes ==
  /\ \E S : PREFERRED_TEXT_MIMES \in Seq(S)
  /\ Len(PREFERRED_TEXT_MIMES) = 8
  /\ PREFERRED_TEXT_MIMES[1] = "text/plain;charset=utf-8"
  /\ PREFERRED_TEXT_MIMES[2] = "text/plain"
  /\ PREFERRED_TEXT_MIMES[6] = "TEXT"
  /\ PREFERRED_TEXT_MIMES[7] = "STRING"
  /\ PREFERRED_TEXT_MIMES[8] = "UTF8_STRING"
<1>1. PREFERRED_TEXT_MIMES
        \in Seq({"text/plain;charset=utf-8", "text/plain", "text/markdown", "text/html",
                 "text/uri-list", "TEXT", "STRING", "UTF8_STRING"})
  BY DEF PREFERRED_TEXT_MIMES
<1>2. Len(PREFERRED_TEXT_MIMES) = 8
  BY DEF PREFERRED_TEXT_MIMES
<1>3. PREFERRED_TEXT_MIMES[1] = "text/plain;charset=utf-8" /\ PREFERRED_TEXT_MIMES[2] = "text/plain"
  BY DEF PREFERRED_TEXT_MIMES
<1>4. PREFERRED_TEXT_MIMES[6] = "TEXT" /\ PREFERRED_TEXT_MIMES[7] = "STRING"
  BY DEF PREFERRED_TEXT_MIMES
<1>5. PREFERRED_TEXT_MIMES[8] = "UTF8_STRING"
  BY DEF PREFERRED_TEXT_MIMES
<1> QED BY <1>1, <1>2, <1>3, <1>4, <1>5

LEMMA OtherTypes ==
  /\ (\E S : UnlistedText \in Seq(S)) /\ Len(UnlistedText) = 2
  /\ (\E S : SUPPORTED_BINARY_MIMES \in Seq(S)) /\ Len(SUPPORTED_BINARY_MIMES) = 4
  /\ (\E S : SortedImages \in Seq(S))
  /\ \A m \in ToSet(SUPPORTED_BINARY_MIMES) : m \in ToSet(SortedImages)
<1> DEFINE Text == {"text/csv", "text/rtf"}
           Images == {"image/png", "image/jpeg", "image/webp", "image/gif"}
<1>t. UnlistedText \in Seq(Text) /\ Len(UnlistedText) = 2
  BY DEF UnlistedText
<1>b. SUPPORTED_BINARY_MIMES \in Seq(Images) /\ Len(SUPPORTED_BINARY_MIMES) = 4
  BY DEF SUPPORTED_BINARY_MIMES
<1>s. SortedImages \in Seq(Images) /\ Len(SortedImages) = 4
  BY DEF SortedImages
<1> HIDE DEF Text, Images
<1>1. DOMAIN SUPPORTED_BINARY_MIMES = 1..4 /\ DOMAIN SortedImages = 1..4
  BY <1>b, <1>s
<1>2. ASSUME NEW m \in ToSet(SUPPORTED_BINARY_MIMES) PROVE m \in ToSet(SortedImages)
  <2>1. PICK i \in 1..4 : m = SUPPORTED_BINARY_MIMES[i]
    BY <1>1 DEF ToSet
  <2>2. /\ SUPPORTED_BINARY_MIMES[1] = SortedImages[3] /\ SUPPORTED_BINARY_MIMES[2] = SortedImages[2]
        /\ SUPPORTED_BINARY_MIMES[3] = SortedImages[4] /\ SUPPORTED_BINARY_MIMES[4] = SortedImages[1]
    BY DEF SUPPORTED_BINARY_MIMES, SortedImages
  <2>3. \E j \in 1..4 : m = SortedImages[j]
    <3>1. i = 1 \/ i = 2 \/ i = 3 \/ i = 4
      BY <2>1
    <3>2. 1 \in 1..4 /\ 2 \in 1..4 /\ 3 \in 1..4 /\ 4 \in 1..4
      OBVIOUS
    <3> QED BY <2>1, <2>2, <3>1, <3>2
  <2> QED BY <1>1, <2>3 DEF ToSet
<1> QED BY <1>t, <1>b, <1>s, <1>2

\* Text types are those of one list or the other; every alias is one.
LEMMA TextTypes ==
  /\ \A m : is_text_mime(m) <=> m \in ToSet(PREFERRED_TEXT_MIMES \o UnlistedText)
  /\ TEXT_ALIASES \subseteq ToSet(PREFERRED_TEXT_MIMES)
  /\ \A m \in TEXT_ALIASES : is_text_mime(m)
<1>1. \A x : x \in ToSet(PREFERRED_TEXT_MIMES \o UnlistedText)
             <=> x \in ToSet(PREFERRED_TEXT_MIMES) \/ x \in ToSet(UnlistedText)
  <2>1. PICK S : PREFERRED_TEXT_MIMES \in Seq(S)
    BY PreferredTypes
  <2>2. PICK T : UnlistedText \in Seq(T)
    BY OtherTypes
  <2> QED BY <2>1, <2>2, ConcatToSet, Zenon
<1>2. \A i \in {1, 2, 6, 7, 8} : PREFERRED_TEXT_MIMES[i] \in ToSet(PREFERRED_TEXT_MIMES)
  <2>1. DOMAIN PREFERRED_TEXT_MIMES = 1..8
    BY PreferredTypes, LenProperties
  <2>2. {1, 2, 6, 7, 8} \subseteq 1..8
    OBVIOUS
  <2> QED BY <2>1, <2>2 DEF ToSet
<1>3. TEXT_ALIASES \subseteq ToSet(PREFERRED_TEXT_MIMES)
  BY <1>2, PreferredTypes DEF TEXT_ALIASES
<1> QED BY <1>1, <1>3 DEF is_text_mime

\* The primary text type is a text type of the copy, and the plain ones first.
LEMMA PrimaryProperties ==
  ASSUME NEW blobs, has_text(blobs)
  PROVE  /\ PrimaryText(blobs) \in TextMimes(blobs)
         /\ "text/plain;charset=utf-8" \in DOMAIN blobs
              => PrimaryText(blobs) = "text/plain;charset=utf-8"
         /\ "text/plain;charset=utf-8" \notin DOMAIN blobs /\ "text/plain" \in DOMAIN blobs
              => PrimaryText(blobs) = "text/plain"
<1> DEFINE all == PREFERRED_TEXT_MIMES \o UnlistedText
           p == PrimaryText(blobs)
<1>1. PICK S : PREFERRED_TEXT_MIMES \in Seq(S)
  BY PreferredTypes
<1>2. PICK T : UnlistedText \in Seq(T)
  BY OtherTypes
<1>3. all \in Seq(S \cup T)
  BY <1>1, <1>2, ConcatToSet
<1>4. Len(all) = 10 /\ all[1] = PREFERRED_TEXT_MIMES[1] /\ all[2] = PREFERRED_TEXT_MIMES[2]
  <2>1. PREFERRED_TEXT_MIMES \in Seq(S \cup T) /\ UnlistedText \in Seq(S \cup T)
    BY <1>1, <1>2, SeqMonotonic
  <2>2. Len(PREFERRED_TEXT_MIMES) = 8 /\ Len(UnlistedText) = 2
    BY PreferredTypes, OtherTypes
  <2>3. /\ Len(all) = Len(PREFERRED_TEXT_MIMES) + Len(UnlistedText)
        /\ \A i \in 1..(Len(PREFERRED_TEXT_MIMES) + Len(UnlistedText)) :
             all[i] = IF i <= Len(PREFERRED_TEXT_MIMES) THEN PREFERRED_TEXT_MIMES[i]
                      ELSE UnlistedText[i - Len(PREFERRED_TEXT_MIMES)]
    BY <2>1, ConcatProperties, Zenon
  <2> HIDE DEF all
  <2> QED BY <2>2, <2>3
<1>5. PICK m \in DOMAIN blobs : m \in ToSet(all)
  BY TextTypes DEF has_text, TextMimes
<1> HIDE DEF all
<1>6. /\ FirstIn(all, DOMAIN blobs) \in DOMAIN blobs
      /\ \E i \in 1..Len(all) : FirstIn(all, DOMAIN blobs) = all[i]
                                /\ \A j \in 1..Len(all) : all[j] \in DOMAIN blobs => i <= j
  BY <1>3, <1>5, FirstInProperties
<1>7. p = FirstIn(all, DOMAIN blobs)
  BY DEF PrimaryText, all
<1> HIDE DEF p
<1>8. PICK i \in 1..10 : p = all[i] /\ \A j \in 1..10 : all[j] \in DOMAIN blobs => i <= j
  BY <1>4, <1>6, <1>7
<1>9. p \in DOMAIN blobs
  BY <1>6, <1>7
<1>10. p \in TextMimes(blobs)
  <2>1. DOMAIN all = 1..10
    BY <1>3, <1>4, LenProperties
  <2>2. p \in ToSet(all)
    BY <1>8, <2>1 DEF ToSet
  <2> QED BY <1>9, <2>2, TextTypes DEF TextMimes, all
<1>11. all[1] \in DOMAIN blobs => p = all[1]
  <2>1. all[1] \in DOMAIN blobs => i = 1
    BY <1>8
  <2> QED BY <1>8, <2>1
<1>12. all[1] \notin DOMAIN blobs /\ all[2] \in DOMAIN blobs => p = all[2]
  <2>1. all[1] \notin DOMAIN blobs => i # 1
    BY <1>8, <1>9
  <2>2. all[2] \in DOMAIN blobs => i = 1 \/ i = 2
    BY <1>8
  <2> QED BY <1>8, <2>1, <2>2
<1> QED BY <1>4, <1>10, <1>11, <1>12, PreferredTypes DEF p

-----------------------------------------------------------------------------
(* What is requested.                                                       *)

\* The place of a type: the preferred ones are numbered first.
LEMMA PriorityProperties ==
  ASSUME NEW types, NEW S, NEW listed \in Seq(S), types \subseteq ToSet(listed)
  PROVE  \A m \in Supported(types) :
           /\ Priority(listed, m) \in Nat \ {0}
           /\ m \in ToSet(PREFERRED_TEXT_MIMES) =>
                /\ Priority(listed, m) \in 1..8
                /\ PREFERRED_TEXT_MIMES[Priority(listed, m)] = m
                /\ \A i \in 1..8 : PREFERRED_TEXT_MIMES[i] = m => Priority(listed, m) <= i
           /\ m \notin ToSet(PREFERRED_TEXT_MIMES) => Priority(listed, m) > 8
<1> SUFFICES ASSUME NEW m \in Supported(types)
             PROVE  /\ Priority(listed, m) \in Nat \ {0}
                    /\ m \in ToSet(PREFERRED_TEXT_MIMES) =>
                         /\ Priority(listed, m) \in 1..8
                         /\ PREFERRED_TEXT_MIMES[Priority(listed, m)] = m
                         /\ \A i \in 1..8 :
                              PREFERRED_TEXT_MIMES[i] = m => Priority(listed, m) <= i
                    /\ m \notin ToSet(PREFERRED_TEXT_MIMES) => Priority(listed, m) > 8
  OBVIOUS
<1>1. Len(PREFERRED_TEXT_MIMES) = 8 /\ Len(listed) \in Nat /\ m \in types
  <2>1. Len(PREFERRED_TEXT_MIMES) = 8
    BY PreferredTypes
  <2>2. Len(listed) \in Nat
    OBVIOUS
  <2> QED BY <2>1, <2>2 DEF Supported
<1>2. CASE m \in ToSet(PREFERRED_TEXT_MIMES)
  <2>1. PICK R : PREFERRED_TEXT_MIMES \in Seq(R)
    BY PreferredTypes
  <2> DEFINE i == Index(PREFERRED_TEXT_MIMES, m)
  <2>2. /\ i \in 1..8 /\ PREFERRED_TEXT_MIMES[i] = m
        /\ \A k \in 1..8 : PREFERRED_TEXT_MIMES[k] = m => i <= k
    BY <1>1, <1>2, <2>1, IndexProperties
  <2>3. Priority(listed, m) = i
    BY <1>2 DEF Priority
  <2> QED BY <1>2, <2>2, <2>3
<1>3. CASE m \notin ToSet(PREFERRED_TEXT_MIMES) /\ is_text_mime(m)
  <2>1. Index(listed, m) \in 1..Len(listed)
    BY <1>1, IndexProperties
  <2>2. Priority(listed, m) = 8 + Index(listed, m)
    BY <1>1, <1>3 DEF Priority
  <2> QED BY <1>1, <1>3, <2>1, <2>2
<1>4. CASE m \notin ToSet(PREFERRED_TEXT_MIMES) /\ ~is_text_mime(m)
  <2>1. PICK R : SUPPORTED_BINARY_MIMES \in Seq(R)
    BY OtherTypes
  <2>2. Index(SUPPORTED_BINARY_MIMES, m) \in 1..4
    <3>1. m \in ToSet(SUPPORTED_BINARY_MIMES) /\ Len(SUPPORTED_BINARY_MIMES) = 4
      BY <1>4, OtherTypes DEF Supported
    <3> QED BY <2>1, <3>1, IndexProperties
  <2>3. Priority(listed, m) = 8 + Len(listed) + Index(SUPPORTED_BINARY_MIMES, m)
    BY <1>1, <1>4 DEF Priority
  <2> QED BY <1>1, <1>4, <2>2, <2>3
<1> QED BY <1>2, <1>3, <1>4

\* A plain type is requested whenever it is offered, whatever comes with it.
LEMMA PlainPicked ==
  ASSUME NEW types, NEW S, NEW listed \in Seq(S), types \subseteq ToSet(listed),
         NEW m \in types, m \in {PREFERRED_TEXT_MIMES[1], PREFERRED_TEXT_MIMES[2]}
  PROVE  m \in pick_mimes(types, listed)
<1> DEFINE place == [k \in Supported(types) |-> Priority(listed, k)]
           ahead == {k \in Supported(types) : place[k] < place[m]}
           first == PREFERRED_TEXT_MIMES[1]
<1>1. m \in TEXT_ALIASES /\ m \in ToSet(PREFERRED_TEXT_MIMES) /\ m \in Supported(types)
  <2>1. m \in TEXT_ALIASES
    BY PreferredTypes DEF TEXT_ALIASES
  <2> QED BY <2>1, TextTypes DEF Supported
<1>2. place[m] <= 2 /\ place[m] \in Nat
  <2>1. \E i \in {1, 2} : PREFERRED_TEXT_MIMES[i] = m
    OBVIOUS
  <2>2. \A i \in 1..8 : PREFERRED_TEXT_MIMES[i] = m => Priority(listed, m) <= i
    BY <1>1, PriorityProperties
  <2>3. 1 \in 1..8 /\ 2 \in 1..8 /\ Priority(listed, m) \in Nat
    BY <1>1, PriorityProperties
  <2>4. Priority(listed, m) <= 2
    BY <2>1, <2>2, <2>3
  <2> QED BY <1>1, <2>3, <2>4
<1>3. ASSUME NEW k \in ahead PROVE k = first
  <2>1. k \in Supported(types) /\ Priority(listed, k) < 2 /\ Priority(listed, k) \in Nat \ {0}
    <3>1. k \in Supported(types) /\ place[k] = Priority(listed, k) /\ place[k] < place[m]
      OBVIOUS
    <3>2. Priority(listed, k) \in Nat \ {0}
      BY <3>1, PriorityProperties
    <3> HIDE DEF place
    <3> QED BY <1>2, <3>1, <3>2
  <2>2. Priority(listed, k) = 1
    BY <2>1
  <2>3. k \in ToSet(PREFERRED_TEXT_MIMES)
    <3>1. ~(Priority(listed, k) > 8)
      BY <2>2
    <3> QED BY <2>1, <3>1, PriorityProperties
  <2>4. PREFERRED_TEXT_MIMES[1] = k
    BY <2>1, <2>2, <2>3, PriorityProperties
  <2> QED BY <2>4
<1>4. Cardinality(ahead) < 4
  <2>1. ahead \subseteq {first}
    BY <1>3
  <2> HIDE DEF ahead, first
  <2>2. IsFiniteSet({first}) /\ Cardinality({first}) = 1
    BY FS_Singleton
  <2>3. IsFiniteSet(ahead) /\ Cardinality(ahead) <= 1
    BY <2>1, <2>2, FS_Subset
  <2>4. Cardinality(ahead) \in Nat
    BY <2>3, FS_CardinalityType
  <2> QED BY <2>3, <2>4
<1> QED BY <1>1, <1>4 DEF pick_mimes, MAX_MIMES_PER_SELECTION

\* An offer of images alone is requested whole.
LEMMA ImagesPicked ==
  ASSUME NEW types, NEW listed, types \subseteq ToSet(SUPPORTED_BINARY_MIMES),
         Len(listed) \in Nat, \A m \in types : ~is_text_mime(m)
  PROVE  pick_mimes(types, listed) = types
<1> DEFINE place == [k \in Supported(types) |-> Priority(listed, k)]
           index(k) == Index(SUPPORTED_BINARY_MIMES, k)
<1>1. Supported(types) = types
  BY DEF Supported
<1>2. PICK S : SUPPORTED_BINARY_MIMES \in Seq(S)
  BY OtherTypes
<1>3. \A k \in types : index(k) \in 1..4 /\ SUPPORTED_BINARY_MIMES[index(k)] = k
  <2>1. Len(SUPPORTED_BINARY_MIMES) = 4
    BY OtherTypes
  <2> QED BY <1>2, <2>1, IndexProperties
<1>4. \A k \in types : place[k] = 8 + Len(listed) + index(k)
  <2>1. Len(PREFERRED_TEXT_MIMES) = 8
    BY PreferredTypes
  <2>2. ASSUME NEW k \in types PROVE Priority(listed, k) = 8 + Len(listed) + index(k)
    <3>1. k \notin ToSet(PREFERRED_TEXT_MIMES) /\ ~is_text_mime(k)
      BY DEF is_text_mime
    <3> QED BY <2>1, <3>1 DEF Priority
  <2> QED BY <1>1, <2>2
<1> HIDE DEF place
<1>5. ASSUME NEW m \in types
      PROVE  Cardinality({k \in Supported(types) : place[k] < place[m]}) < 4
  <2> DEFINE ahead == {k \in Supported(types) : place[k] < place[m]}
             f == [k \in ahead |-> index(k)]
  <2>1. \A k \in ahead : k \in types /\ index(k) \in 1..3
    <3> SUFFICES ASSUME NEW k \in ahead PROVE k \in types /\ index(k) \in 1..3
      OBVIOUS
    <3>1. k \in types /\ place[k] < place[m]
      BY <1>1
    <3>2. place[k] = 8 + Len(listed) + index(k) /\ place[m] = 8 + Len(listed) + index(m)
      BY <1>4, <3>1
    <3>3. index(k) \in 1..4 /\ index(m) \in 1..4
      BY <1>3, <3>1
    <3> HIDE DEF index
    <3> QED BY <3>1, <3>2, <3>3
  <2> HIDE DEF ahead, index
  <2>2. f \in [ahead -> 1..3] /\ \A k, l \in ahead : f[k] = f[l] => k = l
    <3>1. \A k \in ahead : SUPPORTED_BINARY_MIMES[f[k]] = k
      BY <1>3, <2>1
    <3> QED BY <2>1, <3>1
  <2> HIDE DEF f
  <2>3. f \in Injection(ahead, 1..3)
    BY <2>2 DEF Injection, IsInjective
  <2>4. IsFiniteSet(1..3) /\ Cardinality(1..3) = 3
    <3>1. 1 \in Int /\ 3 \in Int
      OBVIOUS
    <3>2. IsFiniteSet(1..3) /\ Cardinality(1..3) = IF 1 > 3 THEN 0 ELSE 3 - 1 + 1
      BY <3>1, FS_Interval
    <3> QED BY <3>2
  <2>5. IsFiniteSet(ahead) /\ Cardinality(ahead) <= 3
    BY <2>3, <2>4, FS_Injection
  <2>6. Cardinality(ahead) \in Nat
    BY <2>5, FS_CardinalityType
  <2>7. Cardinality(ahead) < 4
    BY <2>5, <2>6
  <2> QED BY <2>7 DEF ahead
<1> QED BY <1>1, <1>5 DEF pick_mimes, MAX_MIMES_PER_SELECTION, place

-----------------------------------------------------------------------------
(* The order text types are listed in.                                      *)

\* The sort key tells two types apart unless neither is listed.
LEMMA RankProperties ==
  /\ \A m : Rank(m) \in Nat
  /\ \A a, b : /\ a # b /\ is_text_mime(a) /\ is_text_mime(b)
               /\ ~(a \in ToSet(UnlistedText) /\ b \in ToSet(UnlistedText))
               => Rank(a) # Rank(b)
<1> DEFINE listed == ToSet(PREFERRED_TEXT_MIMES)
<1>1. PICK S : PREFERRED_TEXT_MIMES \in Seq(S)
  BY PreferredTypes
<1>2. Len(PREFERRED_TEXT_MIMES) = 8
  BY PreferredTypes
<1>3. ASSUME NEW m \in listed PROVE Rank(m) \in 1..8 /\ PREFERRED_TEXT_MIMES[Rank(m)] = m
  BY <1>1, <1>2, IndexProperties DEF Rank
<1>4. ASSUME NEW m, m \notin listed PROVE Rank(m) = 9
  BY <1>2, <1>4 DEF Rank
<1>5. \A m : Rank(m) \in Nat
  BY <1>3, <1>4
<1>6. ASSUME NEW a, NEW b, a # b, is_text_mime(a), is_text_mime(b),
             ~(a \in ToSet(UnlistedText) /\ b \in ToSet(UnlistedText)), Rank(a) = Rank(b)
      PROVE  FALSE
  <2>1. a \in listed \/ b \in listed
    BY <1>6 DEF is_text_mime
  <2>2. a \in listed <=> b \in listed
    <3>1. a \in listed <=> Rank(a) \in 1..8
      BY <1>3, <1>4
    <3>2. b \in listed <=> Rank(b) \in 1..8
      BY <1>3, <1>4
    <3> QED BY <1>6, <3>1, <3>2
  <2>3. PREFERRED_TEXT_MIMES[Rank(a)] = a /\ PREFERRED_TEXT_MIMES[Rank(b)] = b
    BY <1>3, <2>1, <2>2
  <2> QED BY <1>6, <2>3
<1> QED BY <1>5, <1>6

\* In a sorted listing of a set whose members all differ in rank, the place of
\* each member is the number of those that do not come after it.
LEMMA SortedPlace ==
  ASSUME NEW T, IsFiniteSet(T), NEW s \in SetToSeqs(T),
         \A i, j \in DOMAIN s : i < j => Rank(s[i]) <= Rank(s[j]),
         \A a, b \in T : a # b => Rank(a) # Rank(b)
  PROVE  /\ \A i \in 1..Cardinality(T) :
              s[i] \in T /\ Cardinality({m \in T : Rank(m) <= Rank(s[i])}) = i
         /\ \A m \in T : \E i \in 1..Cardinality(T) : s[i] = m
<1> DEFINE n == Cardinality(T)
<1>1. n \in Nat
  BY FS_CardinalityType
<1>2. s \in [1..n -> T] /\ \A i, j \in 1..n : i # j => s[i] # s[j]
  BY DEF SetToSeqs
<1> HIDE DEF n
<1>3. IsFiniteSet(1..n) /\ Cardinality(1..n) = n
  <2>1. 1 \in Int /\ n \in Int
    BY <1>1
  <2>2. IsFiniteSet(1..n) /\ Cardinality(1..n) = IF 1 > n THEN 0 ELSE n - 1 + 1
    BY <2>1, FS_Interval
  <2> QED BY <1>1, <2>2
<1>4. \A m \in T : \E i \in 1..n : s[i] = m
  <2>1. s \in Injection(1..n, T)
    BY <1>2 DEF Injection, IsInjective
  <2>2. Cardinality(1..n) = Cardinality(T)
    BY <1>3 DEF n
  <2>3. s \in Surjection(1..n, T)
    BY <2>1, <2>2, FS_Injection
  <2> QED BY <2>3 DEF Surjection
<1>5. \A i, j \in 1..n : i < j => Rank(s[i]) < Rank(s[j])
  <2> SUFFICES ASSUME NEW i \in 1..n, NEW j \in 1..n, i < j PROVE Rank(s[i]) < Rank(s[j])
    OBVIOUS
  <2>1. Rank(s[i]) <= Rank(s[j])
    BY <1>2
  <2>2. s[i] # s[j] /\ s[i] \in T /\ s[j] \in T
    BY <1>1, <1>2
  <2>3. Rank(s[i]) # Rank(s[j]) /\ Rank(s[i]) \in Nat /\ Rank(s[j]) \in Nat
    BY <2>2, RankProperties
  <2> QED BY <2>1, <2>3
<1>6. ASSUME NEW i \in 1..n
      PROVE  Cardinality({m \in T : Rank(m) <= Rank(s[i])}) = i
  <2> DEFINE D == 1..i
             upto == {m \in T : Rank(m) <= Rank(s[i])}
             f == [k \in D |-> s[k]]
  <2>1. \A k \in D : k \in 1..n /\ s[k] \in upto
    <3> SUFFICES ASSUME NEW k \in D PROVE k \in 1..n /\ s[k] \in upto
      OBVIOUS
    <3>1. k \in 1..n /\ (k = i \/ k < i)
      BY <1>1
    <3>2. Rank(s[k]) \in Nat /\ Rank(s[i]) \in Nat
      BY RankProperties
    <3>3. Rank(s[k]) <= Rank(s[i])
      BY <1>5, <3>1, <3>2
    <3> QED BY <1>2, <3>1, <3>3
  <2>2. \A m \in upto : \E k \in D : s[k] = m
    <3> SUFFICES ASSUME NEW m \in upto PROVE \E k \in D : s[k] = m
      OBVIOUS
    <3>1. PICK k \in 1..n : s[k] = m
      BY <1>4
    <3>2. Rank(s[k]) <= Rank(s[i]) /\ Rank(s[k]) \in Nat /\ Rank(s[i]) \in Nat
      BY <3>1, RankProperties
    <3>3. ~(i < k)
      BY <1>5, <3>2
    <3>4. k \in D
      BY <1>1, <3>3
    <3> QED BY <3>1, <3>4
  <2>3. f \in [D -> upto] /\ (\A k, l \in D : f[k] = f[l] => k = l)
        /\ \A m \in upto : \E k \in D : f[k] = m
    <3>1. f \in [D -> upto]
      BY <2>1
    <3>2. \A k, l \in D : f[k] = f[l] => k = l
      BY <1>2, <2>1
    <3>3. \A m \in upto : \E k \in D : f[k] = m
      BY <2>2
    <3> QED BY <3>1, <3>2, <3>3
  <2>4. IsFiniteSet(D) /\ Cardinality(D) = i
    <3>1. 1 \in Int /\ i \in Int /\ ~(1 > i) /\ i - 1 + 1 = i
      BY <1>1
    <3>2. IsFiniteSet(D) /\ Cardinality(D) = IF 1 > i THEN 0 ELSE i - 1 + 1
      BY <3>1, FS_Interval
    <3> QED BY <3>1, <3>2
  <2>5. IsFiniteSet(upto)
    BY FS_Subset
  <2> HIDE DEF D, upto, f
  <2>6. f \in Injection(D, upto) /\ f \in Surjection(D, upto)
    BY <2>3 DEF Injection, IsInjective, Surjection
  <2>7. Cardinality(D) = Cardinality(upto)
    BY <2>5, <2>6, FS_Injection
  <2> QED BY <2>4, <2>7 DEF upto
<1> QED BY <1>2, <1>4, <1>6 DEF n

\* With at most one type that is not listed there is one order to list them in.
LEMMA OneOrder ==
  ASSUME NEW blobs, IsFiniteSet(DOMAIN blobs),
         Cardinality(DOMAIN blobs \cap ToSet(UnlistedText)) < 2,
         NEW s \in OfferOrders(blobs), NEW t \in OfferOrders(blobs)
  PROVE  s = t
<1> DEFINE T == TextMimes(blobs)
           free == DOMAIN blobs \cap ToSet(UnlistedText)
           n == Cardinality(T)
<1>1. IsFiniteSet(T) /\ IsFiniteSet(free)
  BY FS_Subset DEF TextMimes
<1>2. \A a, b \in free : a = b
  <2> SUFFICES ASSUME NEW a \in free, NEW b \in free, a # b PROVE FALSE
    OBVIOUS
  <2> HIDE DEF free
  <2>1. IsFiniteSet({a}) /\ Cardinality({a}) = 1
    BY FS_Singleton
  <2>2. Cardinality({a} \cup {b}) = Cardinality({a}) + 1
    BY <2>1, FS_AddElement
  <2>3. {a} \cup {b} \in SUBSET free
    OBVIOUS
  <2>4. Cardinality({a} \cup {b}) <= Cardinality(free)
    BY <1>1, <2>3, FS_Subset
  <2>5. Cardinality(free) \in Nat /\ Cardinality(free) < 2
    BY <1>1, FS_CardinalityType DEF free
  <2> QED BY <2>1, <2>2, <2>4, <2>5
<1>3. \A a, b \in T : a # b => Rank(a) # Rank(b)
  BY <1>2, RankProperties DEF TextMimes
<1>4. /\ s \in SetToSeqs(T) /\ t \in SetToSeqs(T)
      /\ \A i, j \in DOMAIN s : i < j => Rank(s[i]) <= Rank(s[j])
      /\ \A i, j \in DOMAIN t : i < j => Rank(t[i]) <= Rank(t[j])
  BY DEF OfferOrders
<1> HIDE DEF T
<1>5. s \in [1..n -> T] /\ t \in [1..n -> T]
  BY <1>4 DEF SetToSeqs
<1>6. ASSUME NEW i \in 1..n PROVE s[i] = t[i]
  <2>1. s[i] \in T /\ Cardinality({m \in T : Rank(m) <= Rank(s[i])}) = i
    BY <1>1, <1>3, <1>4, SortedPlace, SMTT(30)
  <2>2. PICK k \in 1..n : t[k] = s[i]
    BY <1>1, <1>3, <1>4, <2>1, SortedPlace
  <2>3. Cardinality({m \in T : Rank(m) <= Rank(t[k])}) = k
    BY <1>1, <1>3, <1>4, SortedPlace
  <2> QED BY <2>1, <2>2, <2>3
<1>7. s = [i \in 1..n |-> s[i]] /\ t = [i \in 1..n |-> t[i]]
  BY <1>5
<1>8. [i \in 1..n |-> s[i]] = [i \in 1..n |-> t[i]]
  BY <1>6
<1> QED BY <1>7, <1>8

-----------------------------------------------------------------------------
(* The life of a copy.                                                      *)

\* What the reads of an offer may give: some of the types requested, each with
\* the bounded payload of that type.
IsRead(blobs, types, listed, bytes) ==
  /\ DOMAIN blobs # {} /\ DOMAIN blobs \subseteq pick_mimes(types, listed)
  /\ blobs = [m \in DOMAIN blobs |-> Bounded[bytes[m]]]

\* Each stage remembers how its content came from the one before.
TripInv ==
  /\ stage \in {"offered", "stored", "restored", "echoed", "again"}
  /\ offered \in Offers /\ payload \in [ToSet(offered) -> Payloads]
  /\ stage # "offered" =>
       /\ IsRead(stored.blobs, ToSet(offered), offered, payload)
       /\ stored \in from_blobs(stored.blobs)
  /\ stage \in {"restored", "echoed"} => source \in Sources(stored.blobs)
  /\ stage = "echoed" => echoed \in from_blobs(ReadBack(source))
  /\ stage = "again" => echoed \in from_blobs(stored.blobs)

LEMMA FromBlobs ==
  ASSUME NEW blobs, NEW c \in from_blobs(blobs)
  PROVE  c.blobs = blobs /\ c \in from_blobs(c.blobs) /\ c.offered_mimes \in OfferOrders(blobs)
         /\ c = [blobs |-> blobs, offered_mimes |-> c.offered_mimes]
<1>1. DOMAIN blobs # {}
  BY DEF from_blobs
<1>2. PICK order \in OfferOrders(blobs) : c = [blobs |-> blobs, offered_mimes |-> order]
  BY <1>1 DEF from_blobs
<1>3. c.blobs = blobs /\ c.offered_mimes = order
  BY <1>2
<1> QED BY <1>2, <1>3

LEMMA TripInit == Init => TripInv
BY DEF Init, TripInv

LEMMA TripStep == TripInv /\ [Next]_vars => TripInv'
<1> SUFFICES ASSUME TripInv, [Next]_vars PROVE TripInv'
  OBVIOUS
<1>1. CASE Store
  <2>1. PICK read \in (SUBSET pick_mimes(ToSet(offered), offered)) \ {{}} :
          stored' \in from_blobs([m \in read |-> Bounded[payload[m]]])
    BY <1>1 DEF Store
  <2> DEFINE blobs == [m \in read |-> Bounded[payload[m]]]
  <2>2. stored' \in from_blobs(blobs) /\ DOMAIN blobs = read
    BY <2>1
  <2>3. blobs = [m \in DOMAIN blobs |-> Bounded[payload[m]]]
    OBVIOUS
  <2>r. read # {} /\ read \subseteq pick_mimes(ToSet(offered), offered)
    BY <2>1
  <2> HIDE DEF blobs
  <2>4. IsRead(blobs, ToSet(offered), offered, payload)
    BY <2>2, <2>3, <2>r DEF IsRead
  <2>5. stored'.blobs = blobs /\ stored' \in from_blobs(stored'.blobs)
    BY <2>2, FromBlobs
  <2>6. stage' = "stored" /\ UNCHANGED <<offered, payload, source, echoed>>
    BY <1>1 DEF Store
  <2> QED BY <2>4, <2>5, <2>6 DEF TripInv
<1>2. CASE Restore
  BY <1>2 DEF Restore, TripInv
<1>3. CASE ReadEcho
  BY <1>3 DEF ReadEcho, TripInv
<1>4. CASE CopyAgain
  BY <1>4 DEF CopyAgain, TripInv
<1>5. CASE Done \/ UNCHANGED vars
  BY <1>5 DEF Done, vars, TripInv
<1> QED BY <1>1, <1>2, <1>3, <1>4, <1>5 DEF Next

LEMMA TripAlways == Spec => []TripInv
BY TripInit, TripStep, PTL DEF Spec

LEMMA OfferIsSequence ==
  ASSUME TripInv
  PROVE  /\ offered \in Seq(STRING) /\ IsFiniteSet(ToSet(offered))
         /\ stage # "offered" => IsFiniteSet(DOMAIN stored.blobs)
<1>1. offered \in Seq(STRING)
  BY OfferAssumption DEF TripInv
<1>2. IsFiniteSet(ToSet(offered))
  <2> DEFINE f == [i \in DOMAIN offered |-> offered[i]]
             D == DOMAIN offered
  <2>1. f \in Surjection(D, ToSet(offered))
    BY DEF ToSet, Surjection
  <2>2. IsFiniteSet(D)
    <3>1. D = 1..Len(offered) /\ Len(offered) \in Int /\ 1 \in Int
      BY <1>1
    <3> QED BY <3>1, FS_Interval
  <2> HIDE DEF f, D
  <2> QED BY <2>1, <2>2, FS_Surjection
<1>3. ASSUME stage # "offered" PROVE IsFiniteSet(DOMAIN stored.blobs)
  <2>1. DOMAIN stored.blobs \in SUBSET ToSet(offered)
    BY <1>3 DEF TripInv, IsRead, pick_mimes, Supported
  <2> QED BY <1>2, <2>1, FS_Subset
<1> QED BY <1>1, <1>2, <1>3

\* Copying the same thing twice in a row adds nothing, whatever order the keys
\* of the hash map come in: the two contents compare equal.
THEOREM SecondCopyIgnored == Spec => []SameCopyIgnored
<1>1. TripInv => SameCopyIgnored
  <2> SUFFICES ASSUME TripInv, stage = "again",
                      Cardinality(DOMAIN stored.blobs \cap ToSet(UnlistedText)) < 2
               PROVE  echoed = stored
    BY DEF SameCopyIgnored
  <2>1. stored \in from_blobs(stored.blobs) /\ echoed \in from_blobs(stored.blobs)
    BY DEF TripInv
  <2> DEFINE blobs == stored.blobs
  <2>2. IsFiniteSet(DOMAIN blobs)
    BY OfferIsSequence
  <2>3. /\ stored.offered_mimes \in OfferOrders(blobs) /\ echoed.offered_mimes \in OfferOrders(blobs)
        /\ stored = [blobs |-> blobs, offered_mimes |-> stored.offered_mimes]
        /\ echoed = [blobs |-> blobs, offered_mimes |-> echoed.offered_mimes]
    BY <2>1, FromBlobs
  <2>4. stored.offered_mimes = echoed.offered_mimes
    BY <2>2, <2>3, OneOrder
  <2> QED BY <2>3, <2>4
<1> QED BY <1>1, TripAlways, PTL

\* What a restore publishes: the entry's types with their payloads, and for an
\* entry with text the aliases it lacks.
LEMMA SourceKeeps ==
  ASSUME NEW blobs, NEW src \in Sources(blobs)
  PROVE  /\ \A m \in DOMAIN blobs : m \in DOMAIN src /\ src[m] = blobs[m]
         /\ has_text(blobs) => DOMAIN src = DOMAIN blobs \cup TEXT_ALIASES
         /\ has_text(blobs) => \E p \in AliasPayloads(blobs) :
                                  \A m \in TEXT_ALIASES \ DOMAIN blobs : src[m] = p
         /\ ~has_text(blobs) => src = blobs
<1>1. CASE has_text(blobs)
  <2>1. PICK p \in AliasPayloads(blobs) : src = WithAliases(blobs, p)
    BY <1>1 DEF Sources
  <2>2. src = [m \in DOMAIN blobs \cup TEXT_ALIASES |-> IF m \in DOMAIN blobs THEN blobs[m] ELSE p]
    BY <2>1 DEF WithAliases
  <2> QED BY <1>1, <2>2
<1>2. CASE ~has_text(blobs)
  BY <1>2 DEF Sources
<1> QED BY <1>1, <1>2

\* Pasting a restored entry is byte-exact: a type that was stored is served with
\* the bytes the other client gave for it.
THEOREM PasteExact == Spec => []PasteIsExact
<1>1. TripInv => PasteIsExact
  <2> SUFFICES ASSUME TripInv, stage \in {"restored", "echoed"}, NEW m \in DOMAIN stored.blobs
               PROVE  content_for(source, m) = {Bounded[payload[m]]}
    BY DEF PasteIsExact
  <2>1. source \in Sources(stored.blobs) /\ IsRead(stored.blobs, ToSet(offered), offered, payload)
    BY DEF TripInv
  <2>2. m \in DOMAIN source /\ source[m] = stored.blobs[m]
    BY <2>1, SourceKeeps, ZenonT(30)
  <2>3. stored.blobs[m] = Bounded[payload[m]]
    BY <2>1 DEF IsRead
  <2> QED BY <2>2, <2>3 DEF content_for
<1> QED BY <1>1, TripAlways, PTL

\* The plain types by their places, which is how the proofs name them.
LEMMA PlainByPlace ==
  /\ PlainTypes = {PREFERRED_TEXT_MIMES[1], PREFERRED_TEXT_MIMES[2]}
  /\ PlainTypes \subseteq TEXT_ALIASES
BY PreferredTypes DEF PlainTypes, TEXT_ALIASES

LEMMA PrimaryByPlace ==
  ASSUME NEW blobs, has_text(blobs)
  PROVE  /\ PREFERRED_TEXT_MIMES[1] \in DOMAIN blobs
              => PrimaryText(blobs) = PREFERRED_TEXT_MIMES[1]
         /\ PREFERRED_TEXT_MIMES[1] \notin DOMAIN blobs /\ PREFERRED_TEXT_MIMES[2] \in DOMAIN blobs
              => PrimaryText(blobs) = PREFERRED_TEXT_MIMES[2]
BY PrimaryProperties, PreferredTypes

LEMMA AliasByPlace ==
  ASSUME NEW blobs, PREFERRED_TEXT_MIMES[1] \notin DOMAIN blobs,
         PREFERRED_TEXT_MIMES[2] \in DOMAIN blobs
  PROVE  AliasPayloads(blobs) = {blobs[PREFERRED_TEXT_MIMES[2]]}
BY PreferredTypes DEF AliasPayloads

\* The row shows the plain text: if a client offers some and delivers what it
\* is asked for, it was asked for it, whatever else it offers in any order.
THEOREM PlainPreviewed == Spec => []PlainTextPreviewed
<1>1. TripInv => PlainTextPreviewed
  <2> SUFFICES ASSUME TripInv, DOMAIN stored.blobs = pick_mimes(ToSet(offered), offered),
                      NEW m \in ToSet(offered), m \in PlainTypes
               PROVE  PrimaryText(stored.blobs) \in PlainTypes
    BY DEF PlainTextPreviewed
  <2>1. offered \in Seq(STRING)
    BY OfferIsSequence
  <2>2. m \in DOMAIN stored.blobs
    BY <2>1, PlainByPlace, PlainPicked
  <2>3. has_text(stored.blobs)
    <3>1. is_text_mime(m)
      BY PlainByPlace, TextTypes
    <3> QED BY <2>2, <3>1 DEF has_text, TextMimes
  <2> QED BY <2>2, <2>3, PlainByPlace, PrimaryByPlace
<1> QED BY <1>1, TripAlways, PTL

\* The order of our own keys lists every text type.
LEMMA KeyOrderLists ==
  /\ \E S : KeyOrder \in Seq(S)
  /\ \A m : is_text_mime(m) => m \in ToSet(KeyOrder)
<1>1. PICK S : PREFERRED_TEXT_MIMES \in Seq(S)
  BY PreferredTypes
<1>2. PICK T : UnlistedText \in Seq(T)
  BY OtherTypes
<1>3. PICK R : SUPPORTED_BINARY_MIMES \in Seq(R)
  BY OtherTypes
<1> DEFINE text == PREFERRED_TEXT_MIMES \o UnlistedText
           Q == S \cup T
<1>4. text \in Seq(Q)
  BY <1>1, <1>2, ConcatToSet
<1>5. \A m : is_text_mime(m) => m \in ToSet(text)
  BY TextTypes
<1>6. KeyOrder = text \o SUPPORTED_BINARY_MIMES
  <2>1. KeyOrder = (PREFERRED_TEXT_MIMES \o UnlistedText) \o SUPPORTED_BINARY_MIMES
    BY DEF KeyOrder
  <2> QED BY <2>1
<1> HIDE DEF text, Q
<1>7. /\ text \o SUPPORTED_BINARY_MIMES \in Seq(Q \cup R)
      /\ \A m : m \in ToSet(text) => m \in ToSet(text \o SUPPORTED_BINARY_MIMES)
  BY <1>3, <1>4, ConcatToSet
<1> QED BY <1>5, <1>6, <1>7

\* A bounded payload read again is the same.
LEMMA ReadTwice ==
  ASSUME TripInv, stage # "offered", NEW m \in DOMAIN stored.blobs
  PROVE  Bounded[stored.blobs[m]] = stored.blobs[m]
<1>1. IsRead(stored.blobs, ToSet(offered), offered, payload)
  BY DEF TripInv
<1>2. m \in ToSet(offered)
  BY <1>1 DEF IsRead, pick_mimes, Supported
<1>3. payload[m] \in Payloads
  BY <1>2 DEF TripInv
<1>4. stored.blobs[m] = Bounded[payload[m]]
  BY <1>1 DEF IsRead
<1> QED BY <1>3, <1>4, PayloadAssumption

\* is_echo recognises the echo of an entry of text alone that has a plain type,
\* and of any entry without text: it reads back with the same preview.
THEOREM EchoKnown == Spec => []EchoRecognised
<1>1. TripInv => EchoRecognised
  <2> DEFINE blobs == stored.blobs
             rb == ReadBack(source)
             U == PREFERRED_TEXT_MIMES[1]
             V == PREFERRED_TEXT_MIMES[2]
  <2> SUFFICES ASSUME TripInv, stage = "echoed",
                      \/ ImageMimes(blobs) = {} /\ DOMAIN blobs \cap PlainTypes # {}
                      \/ ~has_text(blobs)
               PROVE  preview(echoed) = preview(stored)
    BY DEF EchoRecognised
  <2>1. source \in Sources(blobs) /\ echoed \in from_blobs(rb)
        /\ IsRead(blobs, ToSet(offered), offered, payload)
    BY DEF TripInv
  <2>2. echoed.blobs = rb
    BY <2>1, FromBlobs
  <2>3. rb = [m \in pick_mimes(DOMAIN source, KeyOrder) |-> Bounded[source[m]]]
    BY DEF ReadBack, ReadAll
  <2>4. \A m \in DOMAIN blobs : Bounded[blobs[m]] = blobs[m]
    BY ReadTwice
  <2>b. blobs = [m \in DOMAIN blobs |-> blobs[m]]
    BY <2>1 DEF IsRead
  <2>n. U \in PlainTypes /\ V \in PlainTypes /\ U \in TEXT_ALIASES /\ is_text_mime(U)
        /\ \A m \in PlainTypes : m = U \/ m = V
    BY PlainByPlace, TextTypes
  <2> HIDE DEF U, V, rb, blobs
  <2>5. CASE ImageMimes(blobs) = {} /\ DOMAIN blobs \cap PlainTypes # {}
    <3>1. \A m \in DOMAIN blobs : is_text_mime(m)
      BY <2>5 DEF ImageMimes, TextMimes
    <3>2. has_text(blobs)
      BY <2>5, <3>1 DEF has_text, TextMimes
    <3>3. /\ DOMAIN source = DOMAIN blobs \cup TEXT_ALIASES
          /\ \A m \in DOMAIN blobs : source[m] = blobs[m]
          /\ \E p \in AliasPayloads(blobs) :
               \A m \in TEXT_ALIASES \ DOMAIN blobs : source[m] = p
      <4>1. source \in Sources(blobs)
        BY <2>1
      <4>2. DOMAIN source = DOMAIN blobs \cup TEXT_ALIASES
        BY <3>2, <4>1, SourceKeeps, Zenon
      <4>3. \A m \in DOMAIN blobs : m \in DOMAIN source /\ source[m] = blobs[m]
        BY <4>1, SourceKeeps, Zenon
      <4>4. \E p \in AliasPayloads(blobs) :
              \A m \in TEXT_ALIASES \ DOMAIN blobs : source[m] = p
        BY <3>2, <4>1, SourceKeeps, Zenon
      <4> QED BY <4>2, <4>3, <4>4
    <3>4. \A m \in DOMAIN source : is_text_mime(m)
      BY <3>1, <3>3, TextTypes
    <3>5. U \in pick_mimes(DOMAIN source, KeyOrder)
      <4>1. PICK S : KeyOrder \in Seq(S)
        BY KeyOrderLists
      <4>2. DOMAIN source \subseteq ToSet(KeyOrder) /\ U \in DOMAIN source
        BY <2>n, <3>3, <3>4, KeyOrderLists
      <4> QED BY <4>1, <4>2, PlainPicked DEF U
    <3>6. U \in DOMAIN rb /\ rb[U] = Bounded[source[U]] /\ ImageMimes(rb) = {} /\ has_text(rb)
      <4>1. DOMAIN rb = pick_mimes(DOMAIN source, KeyOrder) /\ rb[U] = Bounded[source[U]]
        BY <2>3, <3>5
      <4>2. \A m \in DOMAIN rb : is_text_mime(m)
        BY <3>4, <4>1 DEF pick_mimes, Supported
      <4> QED BY <3>5, <4>1, <4>2 DEF ImageMimes, TextMimes, has_text
    <3>7. PrimaryText(rb) = U
      BY <3>6, PrimaryByPlace DEF U
    <3>8. /\ PrimaryText(blobs) \in DOMAIN blobs
          /\ source[U] = blobs[PrimaryText(blobs)]
      <4>1. CASE U \in DOMAIN blobs
        BY <3>2, <3>3, <4>1, PrimaryByPlace DEF U
      <4>2. CASE U \notin DOMAIN blobs
        <5>1. V \in DOMAIN blobs
          BY <2>5, <2>n, <4>2
        <5>2. PrimaryText(blobs) = V
          BY <3>2, <4>2, <5>1, PrimaryByPlace DEF U, V
        <5>3. AliasPayloads(blobs) = {blobs[V]}
          BY <4>2, <5>1, AliasByPlace DEF U, V
        <5>4. source[U] = blobs[V]
          <6>1. U \in TEXT_ALIASES \ DOMAIN blobs
            BY <2>n, <4>2
          <6> QED BY <3>3, <5>3, <6>1
        <5> QED BY <5>1, <5>2, <5>4
      <4> QED BY <4>1, <4>2
    <3>9. rb[PrimaryText(rb)] = blobs[PrimaryText(blobs)]
      BY <2>4, <3>6, <3>7, <3>8
    <3> QED BY <2>2, <2>5, <3>2, <3>6, <3>9 DEF preview, blobs
  <2>6. CASE ~has_text(blobs)
    <3>1. source = blobs
      BY <2>1, <2>6, SourceKeeps
    <3>2. \A m \in DOMAIN blobs : ~is_text_mime(m)
      BY <2>6 DEF has_text, TextMimes
    <3>3. DOMAIN blobs \subseteq ToSet(SUPPORTED_BINARY_MIMES)
      BY <2>1, <3>2 DEF IsRead, pick_mimes, Supported
    <3>4. pick_mimes(DOMAIN source, KeyOrder) = DOMAIN blobs
      <4>1. Len(KeyOrder) \in Nat
        BY KeyOrderLists, LenProperties
      <4> QED BY <3>1, <3>2, <3>3, <4>1, ImagesPicked
    <3>5. rb = blobs
      BY <2>3, <2>4, <2>b, <3>1, <3>4
    <3> QED BY <2>2, <3>5 DEF preview, blobs
  <2> QED BY <2>5, <2>6 DEF blobs
<1> QED BY <1>1, TripAlways, PTL

\* The row a UI shows tells what restoring it pastes.
THEOREM RowTruthful == Spec => []RowTellsPaste
<1>1. TripInv => RowTellsPaste
  <2> DEFINE blobs == stored.blobs
             row == summary(stored)
             primary == primary_mime(blobs)
  <2> SUFFICES ASSUME TripInv, stage = "restored"
               PROVE  LET pasted == content_for(source, row.primary_mime)
                      IN  /\ row.has_text <=> TEXT_ALIASES \subseteq DOMAIN source
                          /\ Cardinality(pasted) = 1
                          /\ row.has_text => {FirstLine[p] : p \in pasted} = {row.preview.line}
                          /\ row.kind = "text" <=> ImageMimes(source) = {}
                          /\ row.kind = "image" => DOMAIN source = {row.primary_mime}
    BY DEF RowTellsPaste
  <2>1. source \in Sources(blobs) /\ IsRead(blobs, ToSet(offered), offered, payload)
    BY DEF TripInv
  <2>2. /\ row.kind = Kind(blobs) /\ row.primary_mime = primary /\ row.has_text = has_text(blobs)
        /\ has_text(blobs) => row.preview.line = FirstLine[blobs[PrimaryText(blobs)]]
    BY DEF summary, preview
  <2>f. IsFiniteSet(DOMAIN blobs)
    BY OfferIsSequence
  <2>e. DOMAIN blobs # {} /\ \A m \in DOMAIN blobs : is_text_mime(m) \/ m \in ToSet(SUPPORTED_BINARY_MIMES)
    BY <2>1 DEF IsRead, pick_mimes, Supported
  <2>k. /\ Kind(blobs) = "text" <=> ImageMimes(blobs) = {}
        /\ Kind(blobs) = "image" => ~has_text(blobs) /\ Cardinality(DOMAIN blobs) = 1
    <3>1. CASE ImageMimes(blobs) = {}
      <4>1. has_text(blobs)
        BY <2>e, <3>1 DEF has_text, ImageMimes
      <4>2. Kind(blobs) = "text"
        BY <3>1, <4>1 DEF Kind
      <4> QED BY <3>1, <4>2
    <3>2. CASE ImageMimes(blobs) # {} /\ ~has_text(blobs) /\ Cardinality(DOMAIN blobs) = 1
      BY <3>2 DEF Kind
    <3>3. CASE ImageMimes(blobs) # {} /\ ~(~has_text(blobs) /\ Cardinality(DOMAIN blobs) = 1)
      BY <3>3 DEF Kind
    <3> QED BY <3>1, <3>2, <3>3
  <2>n. \A m \in TEXT_ALIASES : is_text_mime(m)
    BY TextTypes
  <2> HIDE DEF blobs, row, primary
  <2>3. \A m \in DOMAIN blobs : m \in DOMAIN source /\ source[m] = blobs[m]
    BY <2>1, SourceKeeps, Zenon
  <2>4. has_text(blobs) => DOMAIN source = DOMAIN blobs \cup TEXT_ALIASES
    BY <2>1, SourceKeeps, Zenon
  <2>5. ~has_text(blobs) => source = blobs
    BY <2>1, SourceKeeps, Zenon
  <2>6. primary \in DOMAIN blobs /\ (has_text(blobs) => primary = PrimaryText(blobs))
    <3>1. CASE has_text(blobs)
      BY <3>1, PrimaryProperties DEF primary, primary_mime, TextMimes
    <3>2. CASE ~has_text(blobs)
      <4>1. PICK m \in DOMAIN blobs : m \in ToSet(SortedImages)
        BY <2>e, <3>2, OtherTypes DEF has_text, TextMimes
      <4>2. PICK S : SortedImages \in Seq(S)
        BY OtherTypes
      <4>3. FirstIn(SortedImages, DOMAIN blobs) \in DOMAIN blobs
        BY <4>1, <4>2, FirstInProperties
      <4> QED BY <3>2, <4>3 DEF primary, primary_mime
    <3> QED BY <3>1, <3>2
  <2>7. content_for(source, primary) = {blobs[primary]}
    BY <2>3, <2>6 DEF content_for
  <2>8. has_text(blobs) <=> TEXT_ALIASES \subseteq DOMAIN source
    <3>1. ASSUME ~has_text(blobs), TEXT_ALIASES \subseteq DOMAIN source PROVE FALSE
      <4>1. PREFERRED_TEXT_MIMES[1] \in TEXT_ALIASES
        BY PlainByPlace
      <4>2. PREFERRED_TEXT_MIMES[1] \in TextMimes(blobs)
        BY <2>5, <2>n, <3>1, <4>1 DEF TextMimes
      <4> QED BY <3>1, <4>2 DEF has_text
    <3> QED BY <2>4, <3>1
  <2>9. Cardinality(content_for(source, primary)) = 1
    BY <2>7, FS_Singleton
  <2>10. ImageMimes(source) = ImageMimes(blobs)
    <3>1. CASE has_text(blobs)
      BY <2>4, <2>n, <3>1 DEF ImageMimes, TextMimes
    <3> QED BY <2>5, <3>1
  <2>11. Kind(blobs) = "image" => DOMAIN source = {primary}
    <3> SUFFICES ASSUME Kind(blobs) = "image" PROVE DOMAIN source = {primary}
      OBVIOUS
    <3>1. source = blobs /\ Cardinality(DOMAIN blobs) = 1
      BY <2>5, <2>k
    <3>2. {primary} \in SUBSET DOMAIN blobs /\ Cardinality({primary}) = 1
      BY <2>6, FS_Singleton
    <3>3. DOMAIN blobs = {primary}
      BY <2>f, <3>1, <3>2, FS_Subset
    <3> QED BY <3>1, <3>3
  <2>12. has_text(blobs) =>
           {FirstLine[p] : p \in content_for(source, primary)} = {row.preview.line}
    BY <2>2, <2>6, <2>7
  <2> QED BY <2>2, <2>8, <2>9, <2>10, <2>11, <2>12, <2>k DEF row
<1> QED BY <1>1, TripAlways, PTL

-----------------------------------------------------------------------------
\* No two supported types have the same priority.
LEMMA PrioritiesDiffer ==
  ASSUME NEW types, NEW S, NEW listed \in Seq(S), types \subseteq ToSet(listed),
         NEW a \in Supported(types), NEW b \in Supported(types),
         Priority(listed, a) = Priority(listed, b)
  PROVE  a = b
<1> DEFINE preferred == ToSet(PREFERRED_TEXT_MIMES)
           p == Priority(listed, a)
<1>1. Len(PREFERRED_TEXT_MIMES) = 8
  BY PreferredTypes
<1>2. /\ a \in preferred => p \in 1..8 /\ PREFERRED_TEXT_MIMES[p] = a
      /\ a \notin preferred => p > 8
      /\ b \in preferred => p \in 1..8 /\ PREFERRED_TEXT_MIMES[p] = b
      /\ b \notin preferred => p > 8
  BY PriorityProperties
<1>3. a \in preferred <=> b \in preferred
  BY <1>2
<1>4. ASSUME NEW m \in Supported(types), m \notin preferred
      PROVE  /\ is_text_mime(m) => /\ Priority(listed, m) = 8 + Index(listed, m)
                                   /\ Index(listed, m) \in 1..Len(listed)
                                   /\ listed[Index(listed, m)] = m
             /\ ~is_text_mime(m) =>
                  /\ Priority(listed, m) = 8 + Len(listed) + Index(SUPPORTED_BINARY_MIMES, m)
                  /\ Index(SUPPORTED_BINARY_MIMES, m) \in 1..4
                  /\ SUPPORTED_BINARY_MIMES[Index(SUPPORTED_BINARY_MIMES, m)] = m
  <2>1. m \in ToSet(listed) /\ (~is_text_mime(m) => m \in ToSet(SUPPORTED_BINARY_MIMES))
    BY DEF Supported
  <2>2. Index(listed, m) \in 1..Len(listed) /\ listed[Index(listed, m)] = m
    BY <2>1, IndexProperties
  <2>3. ~is_text_mime(m) => /\ Index(SUPPORTED_BINARY_MIMES, m) \in 1..4
                            /\ SUPPORTED_BINARY_MIMES[Index(SUPPORTED_BINARY_MIMES, m)] = m
    <3>1. PICK R : SUPPORTED_BINARY_MIMES \in Seq(R)
      BY OtherTypes
    <3>2. Len(SUPPORTED_BINARY_MIMES) = 4
      BY OtherTypes
    <3> QED BY <2>1, <3>1, <3>2, IndexProperties
  <2>4. is_text_mime(m) => Priority(listed, m) = 8 + Index(listed, m)
    BY <1>1, <1>4 DEF Priority
  <2>5. ~is_text_mime(m) =>
          Priority(listed, m) = 8 + Len(listed) + Index(SUPPORTED_BINARY_MIMES, m)
    BY <1>1, <1>4 DEF Priority
  <2> QED BY <2>2, <2>3, <2>4, <2>5
<1>5. CASE a \in preferred
  BY <1>2, <1>3, <1>5
<1>6. CASE a \notin preferred
  <2> DEFINE n == Len(listed)
             i == Index(listed, a)
             j == Index(listed, b)
             k == Index(SUPPORTED_BINARY_MIMES, a)
             l == Index(SUPPORTED_BINARY_MIMES, b)
  <2>1. n \in Nat
    OBVIOUS
  <2>2. /\ is_text_mime(a) => p = 8 + i /\ i \in 1..n /\ listed[i] = a
        /\ ~is_text_mime(a) => p = 8 + n + k /\ k \in 1..4 /\ SUPPORTED_BINARY_MIMES[k] = a
    BY <1>4, <1>6
  <2>3. /\ is_text_mime(b) => p = 8 + j /\ j \in 1..n /\ listed[j] = b
        /\ ~is_text_mime(b) => p = 8 + n + l /\ l \in 1..4 /\ SUPPORTED_BINARY_MIMES[l] = b
    BY <1>3, <1>4, <1>6
  <2> HIDE DEF n, i, j, k, l, p
  <2>4. is_text_mime(a) <=> is_text_mime(b)
    BY <2>1, <2>2, <2>3
  <2>5. (is_text_mime(a) => i = j) /\ (~is_text_mime(a) => k = l)
    BY <2>1, <2>2, <2>3, <2>4
  <2> QED BY <2>2, <2>3, <2>4, <2>5
<1> QED BY <1>5, <1>6

\* A selection opens no more pipes than MAX_MIMES_PER_SELECTION, however many
\* types the client advertises: the truncation of pick_mimes.
THEOREM PipesBounded ==
  ASSUME NEW S, NEW listed \in Seq(S), NEW types, types \subseteq ToSet(listed),
         IsFiniteSet(types)
  PROVE  Cardinality(pick_mimes(types, listed)) <= MAX_MIMES_PER_SELECTION
<1> DEFINE place == [m \in Supported(types) |-> Priority(listed, m)]
           ahead(m) == {k \in Supported(types) : place[k] < place[m]}
           picked == pick_mimes(types, listed)
<1>1. \A m \in Supported(types) : place[m] \in Nat
  BY PriorityProperties
<1>2. \A a, b \in Supported(types) : place[a] = place[b] => a = b
  BY PrioritiesDiffer
<1>3. IsFiniteSet(Supported(types))
  BY FS_Subset DEF Supported
<1> HIDE DEF place
<1>4. \A m \in Supported(types) : IsFiniteSet(ahead(m)) /\ Cardinality(ahead(m)) \in Nat
  <2> SUFFICES ASSUME NEW m \in Supported(types)
               PROVE  IsFiniteSet(ahead(m)) /\ Cardinality(ahead(m)) \in Nat
    OBVIOUS
  <2>1. ahead(m) \in SUBSET Supported(types)
    OBVIOUS
  <2> HIDE DEF ahead
  <2> QED BY <1>3, <2>1, FS_Subset, FS_CardinalityType
<1>5. \A a, b \in Supported(types) :
        place[a] < place[b] => Cardinality(ahead(a)) < Cardinality(ahead(b))
  <2> SUFFICES ASSUME NEW a \in Supported(types), NEW b \in Supported(types),
                      place[a] < place[b]
               PROVE  Cardinality(ahead(a)) < Cardinality(ahead(b))
    OBVIOUS
  <2>1. \A k \in ahead(a) : k \in ahead(b)
    BY <1>1
  <2>2. a \in ahead(b) /\ a \notin ahead(a)
    BY <1>1
  <2>3. ahead(a) \in SUBSET ahead(b) /\ ahead(a) # ahead(b)
    BY <2>1, <2>2
  <2> HIDE DEF ahead
  <2>4. /\ IsFiniteSet(ahead(b)) /\ Cardinality(ahead(b)) \in Nat /\ Cardinality(ahead(a)) \in Nat
    BY <1>4
  <2>5. /\ Cardinality(ahead(a)) <= Cardinality(ahead(b))
        /\ Cardinality(ahead(a)) # Cardinality(ahead(b))
    BY <2>3, <2>4, FS_Subset
  <2> QED BY <2>4, <2>5
<1>6. picked = {m \in Supported(types) : Cardinality(ahead(m)) < 4}
  BY DEF pick_mimes, MAX_MIMES_PER_SELECTION, place
<1> DEFINE f == [m \in picked |-> Cardinality(ahead(m))]
<1> HIDE DEF picked
<1>7. \A m \in picked : m \in Supported(types) /\ Cardinality(ahead(m)) \in 0..3
  <2> HIDE DEF ahead
  <2> QED BY <1>4, <1>6
<1>8. \A a, b \in picked : Cardinality(ahead(a)) = Cardinality(ahead(b)) => a = b
  <2> HIDE DEF ahead
  <2> SUFFICES ASSUME NEW a \in picked, NEW b \in picked,
                      Cardinality(ahead(a)) = Cardinality(ahead(b))
               PROVE  a = b
    OBVIOUS
  <2>1. a \in Supported(types) /\ b \in Supported(types) /\ Cardinality(ahead(a)) \in Nat
        /\ Cardinality(ahead(b)) \in Nat
    BY <1>4, <1>7
  <2>2. ~(place[a] < place[b]) /\ ~(place[b] < place[a])
    BY <1>5, <2>1
  <2>3. place[a] \in Nat /\ place[b] \in Nat
    BY <1>1, <2>1
  <2>4. place[a] = place[b]
    BY <2>2, <2>3
  <2> QED BY <1>2, <2>1, <2>4
<1> HIDE DEF ahead
<1>9. f \in [picked -> 0..3] /\ \A a, b \in picked : f[a] = f[b] => a = b
  BY <1>7, <1>8
<1> HIDE DEF f
<1>10. f \in Injection(picked, 0..3)
  BY <1>9 DEF Injection, IsInjective
<1>11. IsFiniteSet(0..3) /\ Cardinality(0..3) = 4
  <2>1. 0 \in Int /\ 3 \in Int
    OBVIOUS
  <2>2. IsFiniteSet(0..3) /\ Cardinality(0..3) = IF 0 > 3 THEN 0 ELSE 3 - 0 + 1
    BY <2>1, FS_Interval
  <2> QED BY <2>2
<1>12. Cardinality(picked) <= 4
  BY <1>10, <1>11, FS_Injection
<1> QED BY <1>12 DEF picked, MAX_MIMES_PER_SELECTION
=============================================================================

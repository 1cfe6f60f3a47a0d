-------------------------- MODULE ClipHistoryProofs --------------------------
(***************************************************************************)
(* What eviction, push and removal do to a list, with positions counted     *)
(* from the newest element: s[Len(s) - k] is the element k places before    *)
(* the newest.  Counted that way an eviction moves nothing.                 *)
(***************************************************************************)
EXTENDS ClipHistory, SequenceTheorems, TLAPS

\* Keeping the newest elements keeps them at their distance from the end.
LEMMA KeepNewestProperties ==
  ASSUME NEW T, NEW s \in Seq(T)
  PROVE  /\ KeepNewest(s) \in Seq(T)
         /\ Len(KeepNewest(s)) = IF Len(s) > MaxHistory THEN MaxHistory ELSE Len(s)
         /\ \A k \in 0..(Len(KeepNewest(s)) - 1) :
              KeepNewest(s)[Len(KeepNewest(s)) - k] = s[Len(s) - k]
<1>1. CASE Len(s) > MaxHistory
  BY <1>1, MaxHistoryAssumption DEF KeepNewest
<1>2. CASE Len(s) <= MaxHistory
  BY <1>2, MaxHistoryAssumption DEF KeepNewest
<1> QED BY <1>1, <1>2, MaxHistoryAssumption

\* A pushed element is the newest; the others move one place further back.
LEMMA PushProperties ==
  ASSUME NEW T, NEW s \in Seq(T), NEW x \in T
  PROVE  /\ Push(s, x) \in Seq(T)
         /\ Len(Push(s, x)) = IF Len(s) >= MaxHistory THEN MaxHistory ELSE Len(s) + 1
         /\ Push(s, x)[Len(Push(s, x))] = x
         /\ \A k \in 1..(Len(Push(s, x)) - 1) :
              Push(s, x)[Len(Push(s, x)) - k] = s[Len(s) - k + 1]
         /\ \A i \in 1..(Len(Push(s, x)) - 1) :
              /\ i + (Len(s) + 1 - Len(Push(s, x))) \in 1..Len(s)
              /\ Push(s, x)[i] = s[i + (Len(s) + 1 - Len(Push(s, x)))]
<1> DEFINE a == Append(s, x)
<1>1. /\ a \in Seq(T) /\ Len(a) = Len(s) + 1 /\ a[Len(s) + 1] = x
      /\ \A i \in 1..Len(s) : a[i] = s[i]
  OBVIOUS
<1>2. /\ KeepNewest(a) \in Seq(T)
      /\ Len(KeepNewest(a)) = IF Len(a) > MaxHistory THEN MaxHistory ELSE Len(a)
      /\ \A k \in 0..(Len(KeepNewest(a)) - 1) :
           KeepNewest(a)[Len(KeepNewest(a)) - k] = a[Len(a) - k]
  BY <1>1, KeepNewestProperties
<1>3. Push(s, x) = KeepNewest(a)
  BY DEF Push
<1> HIDE DEF a
<1> DEFINE u == KeepNewest(a)
<1>4. /\ Len(s) \in Nat /\ MaxHistory \in Nat \ {0}
      /\ u \in Seq(T) /\ Len(u) = IF Len(s) >= MaxHistory THEN MaxHistory ELSE Len(s) + 1
  BY <1>1, <1>2, MaxHistoryAssumption
<1>5. \A k \in 0..(Len(u) - 1) : u[Len(u) - k] = a[Len(s) + 1 - k]
  BY <1>1, <1>2
<1> HIDE DEF u
<1>6. u[Len(u)] = x
  <2>1. 0 \in 0..(Len(u) - 1) /\ Len(u) - 0 = Len(u) /\ Len(s) + 1 - 0 = Len(s) + 1
    BY <1>4
  <2> QED BY <1>1, <1>5, <2>1
<1>7. ASSUME NEW k \in 1..(Len(u) - 1) PROVE u[Len(u) - k] = s[Len(s) - k + 1]
  <2>1. k \in 0..(Len(u) - 1) /\ Len(s) + 1 - k \in 1..Len(s)
        /\ Len(s) + 1 - k = Len(s) - k + 1
    BY <1>4
  <2> QED BY <1>1, <1>5, <2>1
<1>8. ASSUME NEW i \in 1..(Len(u) - 1)
      PROVE  /\ i + (Len(s) + 1 - Len(u)) \in 1..Len(s)
             /\ u[i] = s[i + (Len(s) + 1 - Len(u))]
  <2>1. /\ Len(u) - i \in 1..(Len(u) - 1) /\ Len(u) - (Len(u) - i) = i
        /\ Len(s) - (Len(u) - i) + 1 = i + (Len(s) + 1 - Len(u))
        /\ i + (Len(s) + 1 - Len(u)) \in 1..Len(s)
    BY <1>4
  <2>2. \A k \in 1..(Len(u) - 1) : u[Len(u) - k] = s[Len(s) - k + 1]
    BY <1>7
  <2> QED BY <2>1, <2>2
<1>9. Push(s, x) = u
  BY <1>3 DEF u
<1> QED BY <1>4, <1>6, <1>7, <1>8, <1>9

\* Evicting before a push makes no difference to what the push leaves.
LEMMA KeepNewestPush ==
  ASSUME NEW T, NEW s \in Seq(T), NEW x \in T
  PROVE  Push(KeepNewest(s), x) = KeepNewest(Append(s, x))
<1> DEFINE o == KeepNewest(s)
           l == Push(o, x)
           r == Push(s, x)
<1>1. /\ o \in Seq(T) /\ Len(o) = IF Len(s) > MaxHistory THEN MaxHistory ELSE Len(s)
      /\ \A k \in 0..(Len(o) - 1) : o[Len(o) - k] = s[Len(s) - k]
  BY KeepNewestProperties
<1>o. o \in Seq(T)
  BY <1>1
<1> HIDE DEF o
<1>2. /\ l \in Seq(T)
      /\ Len(l) = IF Len(o) >= MaxHistory THEN MaxHistory ELSE Len(o) + 1
      /\ l[Len(l)] = x
      /\ \A k \in 1..(Len(l) - 1) : l[Len(l) - k] = o[Len(o) - k + 1]
  BY <1>o, PushProperties
<1>3. /\ r \in Seq(T)
      /\ Len(r) = IF Len(s) >= MaxHistory THEN MaxHistory ELSE Len(s) + 1
      /\ r[Len(r)] = x
      /\ \A k \in 1..(Len(r) - 1) : r[Len(r) - k] = s[Len(s) - k + 1]
  BY PushProperties
<1> HIDE DEF l, r
<1>4. /\ Len(l) = Len(r) /\ Len(r) \in Nat \ {0} /\ Len(o) \in Nat /\ Len(s) \in Nat
      /\ Len(r) - 1 <= Len(o)
  BY <1>1, <1>2, <1>3, MaxHistoryAssumption
<1>5. ASSUME NEW i \in 1..Len(r) PROVE l[i] = r[i]
  <2>1. CASE i = Len(r)
    BY <1>2, <1>3, <1>4, <2>1
  <2>2. CASE i < Len(r)
    <3> DEFINE k == Len(r) - i
    <3>1. /\ k \in 1..(Len(r) - 1) /\ i = Len(r) - k
          /\ k - 1 \in 0..(Len(o) - 1)
          /\ Len(o) - k + 1 = Len(o) - (k - 1) /\ Len(s) - k + 1 = Len(s) - (k - 1)
      BY <1>4, <2>2
    <3> HIDE DEF k
    <3>2. l[i] = o[Len(o) - (k - 1)] /\ r[i] = s[Len(s) - (k - 1)]
      BY <1>2, <1>3, <1>4, <3>1
    <3> QED BY <1>1, <3>1, <3>2
  <2> QED BY <1>4, <2>1, <2>2
<1>6. l = r
  BY <1>2, <1>3, <1>4, <1>5, SeqEqual
<1> QED BY <1>6 DEF Push, l, r, o

\* An id that is held has a place, and its element is what Lookup returns.
LEMMA PlaceProperties ==
  ASSUME NEW s, NEW id, Holds(s, id)
  PROVE  /\ Place(s, id) \in 1..Len(s)
         /\ s[Place(s, id)].id = id
         /\ Lookup(s, id) = s[Place(s, id)]
  BY DEF Holds, Place, Lookup

\* Removal takes one element out; older ones move one place forward.
LEMMA WithoutProperties ==
  ASSUME NEW T, NEW s \in Seq(T), NEW id, Holds(s, id)
  PROVE  /\ Without(s, id) \in Seq(T)
         /\ Len(Without(s, id)) = Len(s) - 1
         /\ \A k \in 0..(Len(s) - 2) :
              Without(s, id)[Len(s) - 1 - k] =
                IF k < Len(s) - Place(s, id) THEN s[Len(s) - k] ELSE s[Len(s) - 1 - k]
         /\ \A j \in 1..(Len(s) - 1) :
              Without(s, id)[j] = IF j < Place(s, id) THEN s[j] ELSE s[j + 1]
<1> DEFINE p == Place(s, id)
           front == SubSeq(s, 1, p - 1)
           back == SubSeq(s, p + 1, Len(s))
<1>1. p \in 1..Len(s) /\ Len(s) \in Nat
  BY PlaceProperties
<1>2. /\ front \in Seq(T) /\ Len(front) = p - 1
      /\ \A i \in 1..(p - 1) : front[i] = s[i]
  BY <1>1
<1>3. /\ back \in Seq(T) /\ Len(back) = Len(s) - p
      /\ \A i \in 1..(Len(s) - p) : back[i] = s[p + i]
  BY <1>1
<1>4. Without(s, id) = front \o back
  BY DEF Without, RemoveAt
<1> HIDE DEF front, back, p
<1>5. /\ front \o back \in Seq(T)
      /\ Len(front \o back) = Len(front) + Len(back)
      /\ \A j \in 1..(Len(front) + Len(back)) :
           (front \o back)[j] =
             IF j <= Len(front) THEN front[j] ELSE back[j - Len(front)]
  BY <1>2, <1>3, ConcatProperties
<1> DEFINE w == front \o back
<1>6. w \in Seq(T) /\ Len(w) = Len(s) - 1
  BY <1>1, <1>2, <1>3, <1>5
<1> HIDE DEF w
<1>7. ASSUME NEW j \in 1..(Len(s) - 1)
      PROVE  w[j] = IF j < p THEN s[j] ELSE s[j + 1]
  <2>1. w[j] = IF j <= p - 1 THEN front[j] ELSE back[j - (p - 1)]
    BY <1>1, <1>2, <1>3, <1>5 DEF w
  <2>2. CASE j < p
    BY <1>1, <1>2, <2>1, <2>2
  <2>3. CASE j >= p
    <3>1. j - (p - 1) \in 1..(Len(s) - p) /\ p + (j - (p - 1)) = j + 1
          /\ ~(j <= p - 1) /\ ~(j < p)
      BY <1>1, <2>3
    <3>2. w[j] = back[j - (p - 1)]
      BY <2>1, <3>1
    <3> QED BY <1>3, <3>1, <3>2
  <2> QED BY <1>1, <2>2, <2>3
<1>8. ASSUME NEW k \in 0..(Len(s) - 2)
      PROVE  w[Len(s) - 1 - k] =
               IF k < Len(s) - p THEN s[Len(s) - k] ELSE s[Len(s) - 1 - k]
  <2>1. /\ Len(s) - 1 - k \in 1..(Len(s) - 1) /\ Len(s) - 1 - k + 1 = Len(s) - k
        /\ Len(s) - 1 - k < p <=> ~(k < Len(s) - p)
    BY <1>1
  <2> QED BY <1>7, <2>1
<1> QED BY <1>4, <1>6, <1>7, <1>8 DEF p, w
==============================================================================

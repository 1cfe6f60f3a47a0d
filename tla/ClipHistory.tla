----------------------------- MODULE ClipHistory -----------------------------
(***************************************************************************)
(* The two bounded lists of the daemon.  `ClipState::entries` and the       *)
(* snapshot shared with the socket tasks are both lists of records with an  *)
(* `id` field, oldest first, cut to the newest MaxHistory elements.         *)
(***************************************************************************)
EXTENDS Naturals, Sequences, SequencesExt

CONSTANT MaxHistory     \* config.rs: MAX_HISTORY

ASSUME MaxHistoryAssumption == MaxHistory \in Nat \ {0}

\* Mutated form of KeepNewest: the loop stops one element late.
KeepNewestLate(s) ==
  IF Len(s) > MaxHistory + 1 THEN SubSeq(s, Len(s) - MaxHistory, Len(s)) ELSE s

\* The eviction loop `while len > MAX_HISTORY { drop the oldest }`.
KeepNewest(s) ==
  IF Len(s) > MaxHistory THEN SubSeq(s, Len(s) - MaxHistory + 1, Len(s)) ELSE s

\* Append one element, then evict.
Push(s, x) == KeepNewest(Append(s, x))

\* ClipState::get is Some.
Holds(s, id) == \E i \in 1..Len(s) : s[i].id = id

\* The place of the element with this id.
Place(s, id) == CHOOSE i \in 1..Len(s) : s[i].id = id

\* ClipState::get.
Lookup(s, id) == s[Place(s, id)]

\* Mutated forms of Without: the entry stays; the newer ones go as well.
WithoutNothing(s, id) == s
WithoutNewer(s, id) == IF Holds(s, id) THEN SubSeq(s, 1, Place(s, id) - 1) ELSE s

\* ClipState::remove: ids are unique, so `retain` drops one element.
Without(s, id) == IF Holds(s, id) THEN RemoveAt(s, Place(s, id)) ELSE s

\* The consecutive-duplicate guard of ClipState::add_grouped.
RepeatsLast(s, content) == s # << >> /\ Last(s).content = content
==============================================================================

----------------------------- MODULE MCCopyTrip -----------------------------
(***************************************************************************)
(* Small instances of CopyTrip.  A client advertises any set of the types   *)
(* below, in preference order or the reverse.  There are two payloads that  *)
(* differ in their first line, one of them longer than MAX_CONTENT_BYTES,   *)
(* and what is left of that one.                                            *)
(***************************************************************************)
EXTENDS CopyTrip

MCPayloads == {"a", "b", "b cut"}
MCFirstLine == [p \in MCPayloads |-> IF p = "a" THEN "line a" ELSE "line b"]
MCSize == [p \in MCPayloads |-> IF p = "b" THEN 3 ELSE 2]
MCBounded == [p \in MCPayloads |-> IF p = "b" THEN "b cut" ELSE p]

OffersOf(types) ==
  UNION {LET order == SelectSeq(types, LAMBDA m : m \in S) IN {order, Reverse(order)} :
           S \in (SUBSET ToSet(types)) \ {{}}}

Usual ==
  OffersOf(<<"text/plain;charset=utf-8", "text/plain", "text/html", "TEXT", "text/csv",
             "image/png">>)
    \cup OffersOf(<<"image/png", "image/jpeg", "text/html">>)
=============================================================================

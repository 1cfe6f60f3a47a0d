----------------------------- MODULE MCClipLoop -----------------------------
(***************************************************************************)
(* Small instances of ClipLoop.  The contents are the cases the loop tells  *)
(* apart:                                                                   *)
(*   plain   text under text/plain only; its re-offer gains the aliases     *)
(*   full    the same text under four text types, what plain reads back as  *)
(*   twin    another text whose first line is the same, likewise            *)
(*   mixed   text with an image; its re-offer reads back as full            *)
(* That they preview and read back so is checked against ClipContent.       *)
(***************************************************************************)
EXTENDS ClipLoop

CONSTANTS plain, full, twin, mixed

PreviewOf(c) == IF c = mixed THEN "line + image" ELSE "line"
ReadBack(c) == IF c \in {plain, mixed} THEN {full} ELSE {c}

MCPreview == [c \in Contents |-> PreviewOf(c)]
MCEchoOf == [c \in Contents |-> ReadBack(c)]

-----------------------------------------------------------------------------
Payload == {"one", "two", "png"}
FirstLineOf == [p \in Payload |-> "line"]
SizeOf == [p \in Payload |-> 8]
Uncut == [p \in Payload |-> p]

C == INSTANCE ClipContent
       WITH Payloads <- Payload, FirstLine <- FirstLineOf, Size <- SizeOf, Bounded <- Uncut

FourTypes == {"text/plain;charset=utf-8", "text/plain", "TEXT", "STRING"}

Blobs(c) ==
  CASE c = plain -> [m \in {"text/plain"} |-> "one"]
    [] c = full -> [m \in FourTypes |-> "one"]
    [] c = twin -> [m \in FourTypes |-> "two"]
    [] c = mixed -> [m \in {"text/plain", "image/png"} |->
                       IF m = "image/png" THEN "png" ELSE "one"]

ASSUME ContentsAreThose ==
  \A c \in {plain, full, twin, mixed} : \A stored \in C!from_blobs(Blobs(c)) :
    /\ C!Echoes(stored) = UNION {C!from_blobs(Blobs(d)) : d \in ReadBack(c)}
    /\ \A d \in {plain, full, twin, mixed} : \A other \in C!from_blobs(Blobs(d)) :
         C!preview(stored) = C!preview(other) <=> PreviewOf(c) = PreviewOf(d)
=============================================================================

------------------------------- MODULE CopyTrip -------------------------------
(***************************************************************************)
(* The life of one copy: another client offers it, the daemon requests and  *)
(* reads some of its types, stores an entry, restores it, and reads its own *)
(* offer back; the other client may also copy the very same thing again.    *)
(***************************************************************************)
EXTENDS ClipContent

CONSTANT Offers     \* the lists of MIME types the client advertises

ASSUME OfferAssumption == Offers \subseteq Seq(STRING)

VARIABLES
  stage,
  offered,      \* the offer's MIME types, in the order advertised
  payload,      \* what the other client would write for each
  stored,       \* the entry's content
  source,       \* SourceData::contents of our own source
  echoed        \* the content read back, or read from the second copy

vars == <<stage, offered, payload, stored, source, echoed>>

None == [blobs |-> << >>, offered_mimes |-> << >>]

Init ==
  /\ stage = "offered"
  /\ offered \in Offers /\ payload \in [ToSet(offered) -> Payloads]
  /\ stored = None /\ source = << >> /\ echoed = None

\* request_mime for each picked type, then the reads: a type whose transfer
\* fails or is empty is left out.
Store ==
  /\ stage = "offered"
  /\ \E read \in (SUBSET pick_mimes(ToSet(offered), offered)) \ {{}} :
       stored' \in from_blobs([m \in read |-> Bounded[payload[m]]])
  /\ stage' = "stored"
  /\ UNCHANGED <<offered, payload, source, echoed>>

Restore ==
  /\ stage = "stored"
  /\ source' \in Sources(stored.blobs)
  /\ stage' = "restored"
  /\ UNCHANGED <<offered, payload, stored, echoed>>

\* The compositor announces our own offer and its payloads are read back.
ReadEcho ==
  /\ stage = "restored"
  /\ echoed' \in from_blobs(ReadBack(source))
  /\ stage' = "echoed"
  /\ UNCHANGED <<offered, payload, stored, source>>

\* The other client copies the same thing again, and the same reads succeed.
CopyAgain ==
  /\ stage = "stored"
  /\ echoed' \in from_blobs(stored.blobs)
  /\ stage' = "again"
  /\ UNCHANGED <<offered, payload, stored, source>>

Done == stage \in {"echoed", "again"} /\ UNCHANGED vars

Next == Store \/ Restore \/ ReadEcho \/ CopyAgain \/ Done

Spec == Init /\ [][Next]_vars

-----------------------------------------------------------------------------
(* Properties.                                                              *)

PlainTypes == {"text/plain;charset=utf-8", "text/plain"}

\* The row shows the plain text, which is also what its echo is recognised by:
\* if the client offers some and delivers what it is asked for, it was asked
\* for it, however many other types it offers and in whatever order.
PlainTextPreviewed ==
  /\ stage = "stored" /\ DOMAIN stored.blobs = pick_mimes(ToSet(offered), offered)
  /\ ToSet(offered) \cap PlainTypes # {}
  => PrimaryText(stored.blobs) \in PlainTypes

\* TESTING: pasting a restored entry is byte-exact: a type that was stored is
\* served with the bytes the other client gave for it, up to MAX_CONTENT_BYTES
\* of them: a longer payload is cut when it is read, and served as it was cut.
PasteIsExact ==
  stage \in {"restored", "echoed"} =>
    \A m \in DOMAIN stored.blobs : content_for(source, m) = {Bounded[payload[m]]}

\* is_echo recognises the echo of an entry of text alone that has a plain
\* type, and of any entry without text: it reads back with the same preview.
EchoRecognised ==
  stage = "echoed" =>
    LET blobs == stored.blobs
    IN  \/ ImageMimes(blobs) = {} /\ DOMAIN blobs \cap PlainTypes # {}
        \/ ~has_text(blobs)
        => preview(echoed) = preview(stored)

\* The row a UI shows tells what restoring it pastes: it says text exactly when
\* every text type can be pasted, its primary type pastes the line it shows,
\* and only a row that is not "text" can paste an image.
RowTellsPaste ==
  stage = "restored" =>
    LET row == summary(stored)
        pasted == content_for(source, row.primary_mime)
    IN  /\ row.has_text <=> TEXT_ALIASES \subseteq DOMAIN source
        /\ Cardinality(pasted) = 1
        /\ row.has_text => {FirstLine[p] : p \in pasted} = {row.preview.line}
        /\ row.kind = "text" <=> ImageMimes(source) = {}
        /\ row.kind = "image" => DOMAIN source = {row.primary_mime}

\* TESTING: copying the same thing twice in a row adds nothing, whatever order
\* the keys come in (unless two types are not listed, which nothing sorts).
SameCopyIgnored ==
  stage = "again" /\ Cardinality(DOMAIN stored.blobs \cap ToSet(UnlistedText)) < 2 =>
    echoed = stored
==============================================================================

----------------------------- MODULE ClipContent -----------------------------
(***************************************************************************)
(* What one copy is made of: which MIME types are requested, what the       *)
(* payloads read become, how an entry is previewed, what a restore offers.  *)
(* The modules mime, clipboard/history (ClipboardContent) and the part of   *)
(* clipboard/state that builds the restored source.                         *)
(*                                                                          *)
(* MIME types are strings; a payload is a member of Payloads, of which only *)
(* the first line, the size and the bounded read matter.  The order of a    *)
(* HashMap's keys is random: what depends on it is a set of results.        *)
(***************************************************************************)
EXTENDS Naturals, Sequences, FiniteSets, SequencesExt, FiniteSetsExt

CONSTANTS
  Payloads,     \* non-empty byte strings
  FirstLine,    \* FirstLine[p]: the first line of p as text
  Size,         \* Size[p]: its length in bytes
  Bounded       \* Bounded[p]: p cut at MAX_CONTENT_BYTES

ASSUME PayloadAssumption ==
  /\ DOMAIN FirstLine = Payloads /\ DOMAIN Size = Payloads
  /\ Bounded \in [Payloads -> Payloads]
  /\ \A p \in Payloads : Bounded[Bounded[p]] = Bounded[p]

PREFERRED_TEXT_MIMES ==
  <<"text/plain;charset=utf-8", "text/plain", "text/markdown", "text/html",
    "text/uri-list", "TEXT", "STRING", "UTF8_STRING">>

SUPPORTED_BINARY_MIMES == <<"image/png", "image/jpeg", "image/webp", "image/gif">>

TEXT_ALIASES ==
  {"text/plain", "text/plain;charset=utf-8", "TEXT", "STRING", "UTF8_STRING"}

MAX_MIMES_PER_SELECTION == 4

\* Representatives of the other text/* types, in string order.
UnlistedText == <<"text/csv", "text/rtf">>

is_text_mime(m) == m \in ToSet(PREFERRED_TEXT_MIMES) \cup ToSet(UnlistedText)

-----------------------------------------------------------------------------
(* pick_mimes.                                                              *)

\* Where a sequence has this element first.
Index(s, m) == Min({i \in DOMAIN s : s[i] = m})

\* Preferred text in its order, other text as listed, supported binary.
Priority(listed, m) ==
  CASE m \in ToSet(PREFERRED_TEXT_MIMES) -> Index(PREFERRED_TEXT_MIMES, m)
    [] m \notin ToSet(PREFERRED_TEXT_MIMES) /\ is_text_mime(m) ->
         Len(PREFERRED_TEXT_MIMES) + Index(listed, m)
    [] OTHER -> Len(PREFERRED_TEXT_MIMES) + Len(listed) + Index(SUPPORTED_BINARY_MIMES, m)

Supported(types) == {m \in types : is_text_mime(m) \/ m \in ToSet(SUPPORTED_BINARY_MIMES)}

\* Mutated form of pick_mimes: the types are taken in the order listed.
PickAsListed(types, listed) ==
  LET place == [m \in Supported(types) |-> Index(listed, m)]
      Ahead(m) == {k \in Supported(types) : place[k] < place[m]}
  IN  {m \in Supported(types) : Cardinality(Ahead(m)) < MAX_MIMES_PER_SELECTION}

\* Which of an offer's types, advertised in the order they are listed, are left
\* by the truncation: those with few enough others ahead.  They are requested
\* by priority, and nothing that is read depends on that.
pick_mimes(types, listed) ==
  LET place == [m \in Supported(types) |-> Priority(listed, m)]
      Ahead(m) == {k \in Supported(types) : place[k] < place[m]}
  IN  {m \in Supported(types) : Cardinality(Ahead(m)) < MAX_MIMES_PER_SELECTION}

-----------------------------------------------------------------------------
(* ClipboardContent.  `blobs` maps MIME types to payloads.  Two contents    *)
(* are equal when their blobs are and text.offered_mimes lists the text     *)
(* types in the same order: every other field is a function of the blobs.   *)

TextMimes(blobs) == {m \in DOMAIN blobs : is_text_mime(m)}
ImageMimes(blobs) == DOMAIN blobs \ TextMimes(blobs)

\* Mutated form of OfferOrders: the keys are not sorted.
UnsortedOrders(blobs) == SetToSeqs(TextMimes(blobs))

\* The sort key of offered_mimes: the same for all types that are not listed.
Rank(m) ==
  IF m \in ToSet(PREFERRED_TEXT_MIMES) THEN Index(PREFERRED_TEXT_MIMES, m)
  ELSE Len(PREFERRED_TEXT_MIMES) + 1

\* offered_mimes: the keys sorted by rank, those of one rank in any order.
OfferOrders(blobs) ==
  {order \in SetToSeqs(TextMimes(blobs)) :
     \A i, j \in DOMAIN order : i < j => Rank(order[i]) <= Rank(order[j])}

from_blobs(blobs) ==
  IF DOMAIN blobs = {} THEN {}
  ELSE {[blobs |-> blobs, offered_mimes |-> order] : order \in OfferOrders(blobs)}

has_text(blobs) == TextMimes(blobs) # {}

\* The first member of a sequence that is in the set.
FirstIn(s, S) == s[Min({i \in DOMAIN s : s[i] \in S})]

\* The preferred text type present, else the first in string order.
PrimaryText(blobs) == FirstIn(PREFERRED_TEXT_MIMES \o UnlistedText, DOMAIN blobs)

\* The line of text and the images' types and sizes; an empty line counts as
\* no text.
preview(content) ==
  LET blobs == content.blobs
  IN  [line   |-> IF has_text(blobs) THEN FirstLine[blobs[PrimaryText(blobs)]] ELSE "",
       images |-> {<<m, Size[blobs[m]]>> : m \in ImageMimes(blobs)}]

\* SUPPORTED_BINARY_MIMES in string order, which is how images are kept.
SortedImages == <<"image/gif", "image/jpeg", "image/png", "image/webp">>

primary_mime(blobs) ==
  IF has_text(blobs) THEN PrimaryText(blobs)
  ELSE FirstIn(SortedImages, DOMAIN blobs)

\* The variant: several images are Mixed even without text.
Kind(blobs) ==
  CASE ImageMimes(blobs) = {} -> "text"
    [] ~has_text(blobs) /\ Cardinality(DOMAIN blobs) = 1 -> "image"
    [] OTHER -> "mixed"

\* Mutated form of summary: only Text counts as text.
SummaryByKind(content) ==
  [kind |-> Kind(content.blobs), primary_mime |-> primary_mime(content.blobs),
   preview |-> preview(content), has_text |-> Kind(content.blobs) = "text"]

\* EntrySummary::from, the row of List and EntryAdded.
summary(content) ==
  [kind |-> Kind(content.blobs), primary_mime |-> primary_mime(content.blobs),
   preview |-> preview(content), has_text |-> has_text(content.blobs)]

-----------------------------------------------------------------------------
(* restore_entry and SourceData.                                            *)

\* Mutated form of AliasPayloads: the plain types are not looked up first.
AnyPayload(blobs) == {blobs[m] : m \in DOMAIN blobs}

\* What the missing aliases may serve: with no plain type stored, the value
\* of any key.
AliasPayloads(blobs) ==
  CASE "text/plain;charset=utf-8" \in DOMAIN blobs -> {blobs["text/plain;charset=utf-8"]}
    [] "text/plain;charset=utf-8" \notin DOMAIN blobs /\ "text/plain" \in DOMAIN blobs ->
         {blobs["text/plain"]}
    [] OTHER -> {blobs[m] : m \in DOMAIN blobs}

\* Mutated form of WithAliases: insert instead of entry().or_insert_with().
WithAliasesOver(blobs, p) ==
  [m \in DOMAIN blobs \cup TEXT_ALIASES |-> IF m \in TEXT_ALIASES THEN p ELSE blobs[m]]

WithAliases(blobs, p) ==
  [m \in DOMAIN blobs \cup TEXT_ALIASES |-> IF m \in DOMAIN blobs THEN blobs[m] ELSE p]

\* The contents a restore can publish.
Sources(blobs) ==
  IF has_text(blobs) THEN {WithAliases(blobs, p) : p \in AliasPayloads(blobs)} ELSE {blobs}

\* The payload served for a MIME type: any of the values for a text type
\* that is not offered, nothing for another.
content_for(source, m) ==
  IF m \in DOMAIN source THEN {source[m]}
  ELSE IF is_text_mime(m) THEN {source[k] : k \in DOMAIN source} ELSE {}

\* The payloads read from an offer when every transfer succeeds.
ReadAll(types, listed, payload) ==
  [m \in pick_mimes(types, listed) |-> Bounded[payload[m]]]

\* An order for our own offer's keys: pick_mimes is indifferent to it, with an
\* alias for every slot or no text at all.
KeyOrder == PREFERRED_TEXT_MIMES \o UnlistedText \o SUPPORTED_BINARY_MIMES

\* The payloads read back from our own offer.
ReadBack(source) == ReadAll(DOMAIN source, KeyOrder, source)

\* The contents read back from our own offer of this content.
Echoes(content) == UNION {from_blobs(ReadBack(source)) : source \in Sources(content.blobs)}
==============================================================================

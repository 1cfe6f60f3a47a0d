SPECIFICATION Spec
CONSTANTS
  Payloads <- MCPayloads
  FirstLine <- MCFirstLine
  Size <- MCSize
  Bounded <- MCBounded
  Offers <- Usual
INVARIANTS PlainTextPreviewed PasteIsExact EchoRecognised SameCopyIgnored RowTellsPaste

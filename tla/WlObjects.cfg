SPECIFICATION Spec
CONSTANTS
  text = text
  other = other
  Ids = {1, 2}
  Types = {text, other}
  Readable = {text}
  MaxOffers = 4
  MaxRestores = 2
INVARIANTS TypeOK NoOfferLeak CacheKept ReadsOfOneOffer SelectedSourceOwned
PROPERTY NoSelectionGap

SPECIFICATION Spec
CONSTANTS
  Lower <- MCLower
  Upper <- MCUpper
  Digit <- MCDigit
  Uuids <- MCUuids
  MaxName = 5
  MaxLabel = 3
  MaxId = 3
  Starts <- MCStarts
  Pieces <- MCPieces
  MaxPieces <- MCMaxPieces
  Ids <- MCIds
  Masked = "Resource"
  Descriptor <- MCDescriptor
  Stored <- MCStored
  Incoming <- MCIncoming
  Wanted <- MCWanted
  Parameters <- MCParameters
  UpperOf <- MCUpperOf
  SnakeOf <- MCSnakeOf
  RawKeywords = {"type"}
  SuffixKeywords = {"self"}
INVARIANTS
  NameRoundTrips
  PatternsRoundTrip
  ScopeIsParent
  TextRoundTrips
  UpdateFollowsMask
  BehaviorsHold
  GeneratedCodeFits
  CalendarKeepsOrder

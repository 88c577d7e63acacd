\* circuits; the witnesses of the parser among them
CONSTANTS
  kBits = 4
  Poly = 3
  kKarat = 2
  kByte = 2
  Fields <- MCFields
  Routes <- MCRoutes
  Adders <- MCAdders
SPECIFICATION MCSpec
INVARIANT EntryIsThePair
CHECK_DEADLOCK FALSE

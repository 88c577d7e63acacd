\* every call of a gadget; every message of up to three blocks; every command
\* of a small set and every assignment of the wires; documents with the
\* witness of the honest prover, and byte strings with every other witness
CONSTANTS
  kBits = 4
  Poly = 3
  kKarat = 2
  kByte = 2
  Fields <- MCFields
  Routes <- MCRoutes
  Adders <- MCAdders
SPECIFICATION MCSpec
INVARIANTS LogicIsExact RoutingIsShift EncodingsAgree MacBinds
  ShaProvesPreimage ParserIsExact AcceptedIsRelation CommandIsExact
CHECK_DEADLOCK FALSE

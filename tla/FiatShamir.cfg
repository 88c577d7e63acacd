\* draws cut in every way, writes between them, one clone; tags, lengths and
\* data bytes overlap
CONSTANTS
  NoPrf = NoPrf
  Ids = {a, b}
  Root = a
  Byte = {0, 1, 2}
  Lens = {0, 1, 3}
  EltSize = 1
  ZeroChunk = 2
  OutputSize = 2
  MaxBlocks = 2
  MaxLog = 5
  MaxOut = 6
SPECIFICATION Spec
INVARIANTS StreamPosition Unambiguous
PROPERTIES ChallengesBindTranscript
CHECK_DEADLOCK FALSE

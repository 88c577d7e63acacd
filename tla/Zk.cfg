\* the argument, honest or with one element changed on the way; every draw of
\* distinct numbers; proofs of two circuits, honest, over other inputs than were
\* committed, or changed on the way
CONSTANTS
  P = 11
  block_enc = 11
  rateinv = 1
  nreq = 2
  Statements <- MCStatements
  Seeds = {0, 2}
  Noise <- MCNoise
  Vectors <- MCVectors
  Openings <- MCOpenings
SPECIFICATION MCSpec
INVARIANTS AcceptedIffLinear ChoiceIsUniform
  HonestIsAccepted ConstraintsAreVerifier ClaimIsCubeSum
CHECK_DEADLOCK FALSE

CONSTANTS
  Sizes = {1, 2, 3, 4, 5}
  LeafDigest = {leaf0, leaf1}
  Zero = zero
  MaxReq = 3
  Arrivals <- Changed
SPECIFICATION Spec
INVARIANTS Completeness Binding ProofDetermined ProofBounded
CHECK_DEADLOCK FALSE

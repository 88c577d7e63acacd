\* an identifier of 24 bytes or more
CONSTANTS
  None = None
  Logw <- MCLogw
  MaxBindings = 2
  Witnesses <- MCWitnesses
  BlockW <- MCBlockW
  ProverCalls <- MCProverCalls
  VerifierCalls <- MCVerifierCalls
  Arrivals <- MCArrivals
SPECIFICATION MCSpec
INVARIANT EveryNameCanBeProved
CHECK_DEADLOCK FALSE

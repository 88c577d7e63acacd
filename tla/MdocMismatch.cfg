\* a reader that asks for more attributes than the circuit has
CONSTANTS
  None = None
  Logw <- MCLogw
  MaxBindings = 2
  Witnesses <- MCWitnesses
  BlockW <- MCBlockW
  ProverCalls <- MCProverCalls
  VerifierCalls <- MCVerifierCalls
  Arrivals <- MCArrivals
SPECIFICATION MCSpec
INVARIANT MismatchIsReported
CHECK_DEADLOCK FALSE

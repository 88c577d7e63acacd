\* an honest session and every single deviation of the wallet, of the reader
\* and of the bytes, and proofs of another holder; the documents, decoded, and the circuit that hashes them
CONSTANTS
  None = None
  Logw <- MCLogw
  MaxBindings = 2
  Witnesses <- MCWitnesses
  BlockW <- MCBlockW
  ProverCalls <- MCProverCalls
  VerifierCalls <- MCVerifierCalls
  Arrivals <- MCArrivals
SPECIFICATION MCSpec
INVARIANTS
  HonestSession AcceptanceMeansTruth DrawnInOrder
  DecoderIsExact OpenedIsSigned
CHECK_DEADLOCK FALSE

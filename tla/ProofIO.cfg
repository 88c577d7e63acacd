\* runs of up to MaxRunLen - 1 cells, empty runs, every one-byte change, cut and
\* extension, and buffers that repeat one byte
CONSTANTS
  Byte = 3
  EltBytes = 2
  SubBytes = 1
  Modulus = 8
  SubSize = 3
  DigestBytes = 1
  NonceBytes = 1
  SizeBytes = 2
  MaxRunLen = 4
  MaxNumDigests = 9
  Logw <- MCLogw
  Block = 2
  R = 1
  NReq = 2
  NRow = 2
  PathLen = 2
  Proofs <- MCProofs
  Arrivals <- MCArrivals
SPECIFICATION FairSpec
INVARIANTS RoundTrip AcceptedIsWellFormed
PROPERTIES Terminates
CHECK_DEADLOCK FALSE

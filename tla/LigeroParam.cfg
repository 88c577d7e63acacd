\* both constructors, every dimension up to 128
CONSTANTS
  MaxSize = 128
  SizeMax = 200
  SubfieldSize = 100
  EltBytes = 2
  SubfieldBytes = 1
  DigestBytes = 3
  NonceBytes = 2
  Args <- MCArgs
  Given <- MCGiven
  Garbage = {0, 1, 100}
SPECIFICATION Spec
INVARIANTS
  TypeOK FailedSearchPanics WellFormed BestIsMinimal
CHECK_DEADLOCK FALSE

\* calls of the algebra kernels, and forms of up to four terms on four input
\* wires from the compiler to one coefficient
CONSTANTS
  PrimeFields <- MCPrimeFields
  Residues <- MCResidues
  Strings <- MCStrings
  Polys <- MCPolys
  kSizes = {1, 2, 4, 8, 16, 32}
  Extensions <- MCExtensions
  CosetExtensions <- MCCosetExtensions
SPECIFICATION MCSpec
INVARIANTS FormsAreFunctions
  FieldsAreFields TransformsAreEvaluation ExtensionIsEvaluation
CHECK_DEADLOCK FALSE

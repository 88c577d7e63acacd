\* every short program over three inputs, and circuits in a file
CONSTANTS
  P = 3
  Width = 8
  Corners = 16
  Byte = 4
  KBytesPerSizeT = 2
  EltBytes = 1
  KIdSize = 1
  KMaxLayers = 2
  KMaxBindings = 2
  SizeMax = 64
  FieldId = 1
  FieldIds = {1, 2}
  Circuits <- CircuitsDef
  Starts <- StartsDef
  Coefs = {2}
  MaxInputs = 2
SPECIFICATION MCSpec
INVARIANTS SimplifierIsSound CircuitIsTheProgram OrderIndependent FileIsTheCircuit
ACTION_CONSTRAINT InputsFirst
CHECK_DEADLOCK FALSE

\* A client that only pushes back the last emitted token.
CONSTANTS
  Lines <- MCLines
SPECIFICATION Spec
INVARIANT TypeOK
INVARIANT PushbackRestores

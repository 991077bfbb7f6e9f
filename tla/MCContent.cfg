\* Every content shape under every client sequence: the type invariant.
CONSTANTS
  Kinds <- MCKinds
  Touch <- MCTouch
  Values <- MCValues
  FlagValues <- MCFlagValues
SPECIFICATION Spec
INVARIANT TypeOK

\* Is the map Named() returns a snapshot, detached from Flags?
CONSTANTS
  Kinds <- MCKinds
  Touch <- MCTouch
  Values <- MCValues
  FlagValues <- MCFlagValues
SPECIFICATION Spec
INVARIANT NamedIsSnapshot

\* Do Named() and NamedGet answer for every content a client builds?
CONSTANTS
  Kinds <- MCKinds
  Touch <- MCTouch
  Values <- MCValues
  FlagValues <- MCFlagValues
SPECIFICATION Spec
INVARIANT NamedNeverPanics

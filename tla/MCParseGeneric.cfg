\* Lines with a well-formed command name outside the 15 known ones.
CONSTANTS
  Lines <- MCLines
SPECIFICATION Spec
INVARIANT GenericCommandLinesFollowGrammar

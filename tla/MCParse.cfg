\* Every line with a known (or malformed) command name.
CONSTANTS
  Lines <- MCLines
SPECIFICATION Spec
INVARIANT TypeOK
INVARIANT KnownCommandLinesFollowGrammar
INVARIANT DescriptionRoundTrip
INVARIANT StatusCodeFromDigits
INVARIANT FailedParseKeepsValidPrefix

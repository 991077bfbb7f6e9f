\* The iterator against the filtered traversal it promises.
CONSTANTS
  Actions <- MCActions
  Undefined = "Undefined"
  TermLists <- MCTermLists
  ExtraCalls = 1
SPECIFICATION Spec
INVARIANT TypeOK
INVARIANT CurrentAgrees
PROPERTY TraversalRefined

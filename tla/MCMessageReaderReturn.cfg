\* A parser that returns the parameter it holds after a failed read.
CONSTANTS
  Lines <- MCLines
SPECIFICATION MRSpec
INVARIANT ReturnUndoesRead

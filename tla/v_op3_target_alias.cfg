\* x.bit_or(x, y) and the XOR/SUB forms release x before reading it.
CONSTANTS
  B = 2
  S = 2
  T = 2
  GapLimit <- MCGapLimit2
  Strats = {"BIT"}
  Vecs = {a, b}
  InitSizes = {7}
  Args <- MCPos
  OptModes = {"none"}
  MaxCalls = 4
  IdLists <- MCIdLists
SPECIFICATION SpecOp3Target
VIEW StateView
CHECK_DEADLOCK FALSE
PROPERTY Op3Exact

\* An OR with a FULL last block frees the target sub-array, then stores into it.
CONSTANTS
  B = 2
  S = 2
  T = 2
  GapLimit <- MCGapLimit2
  Strats = {"BIT"}
  Vecs = {a, b}
  InitSizes = {7}
  Args <- MCPos
  OptModes = {"none"}
  MaxCalls = 4
  IdLists <- MCIdLists
SPECIFICATION SpecOrOnly
VIEW StateView
CHECK_DEADLOCK FALSE
INVARIANT WellFormed

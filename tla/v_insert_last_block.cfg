CONSTANTS
  B = 2
  S = 2
  T = 1
  GapLimit <- MCGapLimit2
  Strats = {"BIT", "GAP"}
  InitSizes = {3}
  Sizes <- MCSizes
  Args <- MCPos
  ShiftArgs = {0, 1, 2}
SPECIFICATION SpecShift
INVARIANT NoBitAtIdMax

CONSTANTS
  B = 2
  S = 1
  T = 3
  GapLimit <- MCGapLimit2
  Strats = {"BIT", "GAP"}
  InitSizes = {5}
  Sizes <- MCSizes
  Args <- MCPos
  ShiftArgs = {0}
SPECIFICATION SpecShift
PROPERTY EraseShiftsLeft

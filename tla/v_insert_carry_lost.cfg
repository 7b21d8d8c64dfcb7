CONSTANTS
  B = 2
  S = 2
  T = 2
  GapLimit <- MCGapLimit2
  Strats = {"BIT", "GAP"}
  InitSizes = {7}
  Sizes <- MCSizes
  Args <- MCPos
  ShiftArgs = {3}
SPECIFICATION SpecShift
PROPERTY InsertShiftsRight

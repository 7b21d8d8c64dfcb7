\* The facade against AbsBitVector: two sub-arrays of two 2-bit blocks.
CONSTANTS
  B = 2
  S = 2
  T = 2
  GapLimit <- MCGapLimit2
  Strats = {"BIT", "GAP"}
  InitSizes = {7}
  Sizes <- MCSizes
  Args <- MCPos
  ShiftArgs = {}
SPECIFICATION SpecBits
INVARIANT TypeOK NoBitAtIdMax GapFits TailClear
PROPERTY Refines

\* insert / erase within one sub-array (T = 1), positions outside the
\* last block; the iterators and set(ids) on the same vector.
CONSTANTS
  B = 2
  S = 3
  T = 1
  GapLimit <- MCGapLimit2
  Strats = {"BIT", "GAP"}
  InitSizes = {4}
  Sizes = {5}
  Args <- MCPos
  ShiftArgs <- MCShiftPos
  RsBorder0 = 0
  RsBorder1 = 1
  RsHalfSpan = 0
  BufCap = 2
  IterArgs <- MCIterArgs
  IdLists <- MCIdLists
SPECIFICATION SpecShiftIter
INVARIANT TypeOKInsert NoBitAtIdMax GapFits
PROPERTY InsertShiftsRight EraseShiftsLeft ResultsExact ImportExact InserterGrows

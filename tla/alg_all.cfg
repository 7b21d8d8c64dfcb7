\* The whole algebra between three vectors: two sub-arrays of two 2-bit
\* blocks, GAP levels of 1 and 3 runs, both block strategies.
CONSTANTS
  B = 2
  S = 2
  T = 2
  GapLimit <- MCGapLimit2
  Strats = {"BIT", "GAP"}
  Vecs = {a, b, c}
  InitSizes = {3}
  Args <- MCArgs3
  OptModes = {"none", "compress"}
  MaxCalls = 4
  IdLists <- MCIdLists
SPECIFICATION SpecAlgebra
INVARIANT TypeOK WellFormed GapFits TailClear CompareExact
PROPERTY Op2Exact Op3Exact MergeExact KeepClearExact
VIEW StateView
SYMMETRY VecSymmetry
CHECK_DEADLOCK FALSE

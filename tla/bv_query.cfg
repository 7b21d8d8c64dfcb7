CONSTANTS
  B = 2
  S = 2
  T = 2
  GapLimit <- MCGapLimit2
  Strats = {"BIT", "GAP"}
  InitSizes = {3}
  Sizes <- MCSizes
  Args <- MCWriteArgs
  ShiftArgs = {}
  RsBorder0 = 0
  RsBorder1 = 1
  RsHalfSpan = 0
  WordBits = 1
  WaveWords = 2
  Ranks <- MCRanks
SPECIFICATION SpecEnum
INVARIANT TypeOKEnum SearchAtRest CountAtRest RankSelectAtRest BlockCountToExact12 CursorMatchesBlock CountedRank
PROPERTY ExtractAtRest SyncSizeAtRest EnumRefines
VIEW EnumView

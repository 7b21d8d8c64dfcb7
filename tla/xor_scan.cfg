CONSTANTS
  WordBits = 2
  WaveWords = 3
  Waves = 2
  GainMin = 5
  BitBlocks <- MCBitBlocks
  GapBlocks <- MCGapBlocks
  Matrices <- MCMatrices
  RefMax = 3
  Ranges <- MCRanges
SPECIFICATION Spec
INVARIANT TypeOKXor XorChangeExact ValidateSound EqOnIdentical SearchResultSound GapSearchSound FindRow

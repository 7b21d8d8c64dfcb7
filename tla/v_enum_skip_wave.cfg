\* skip over an eight-bit block read in waves of four one-bit words, two
\* strides of two words each (set_bitscan_wave_size 4 against 64 bits).
CONSTANTS
  B = 8
  S = 1
  T = 1
  GapLimit <- MCGapLimit2
  Strats = {"BIT"}
  InitSizes = {7}
  Sizes = {7}
  Args <- MCWaveArgs
  ShiftArgs = {}
  RsBorder0 = 2
  RsBorder1 = 5
  RsHalfSpan = 1
  WordBits = 1
  WaveWords = 4
  Ranks = {1}
SPECIFICATION SpecEnum
PROPERTY EnumRefines

SPECIFICATION InstructionSpec
CONSTANTS
  Bytes = {0, 1, 15, 16, 127, 128, 129, 240, 255}
  Words = {0, 1, 15, 128, 255, 32767, 32768, 43981, 65535}
  Counts = {0, 1, 2, 7, 8, 9, 15, 16, 17, 18, 31}
  Decimals = {0, 1, 5, 9, 10, 19, 45, 50, 54, 55, 89, 90, 91, 94, 95, 98, 99}
  VideoStart = 8
  VideoEnd = 16
  EmsBase = 24
  EmsEnd = 32
  Top = 40
  SegmentBytes = 4
  CellValues = {0, 1}
INVARIANTS
  ArithmeticAgrees
  DecodeAgrees
  MemoryAgrees
  StringsAgree

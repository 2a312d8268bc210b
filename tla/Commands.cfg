\* Step does not divide Word, as 50 does not divide 2^16.  Any transfer to the
\* ADC may fail; its conversions have both values of the lowest bit.
SPECIFICATION CommandsSpec
CONSTANTS
  Step = 3
  Top = 9
  Word = 16
  InPorts = {devA, devB}
  Chars = {"plus", "minus"}
  Longest = 2
  WriteMay = {TRUE, FALSE}
  ReadMay = {TRUE, FALSE}
  Words = {0, 1, 2, 3}
INVARIANTS RangeByNesting OwnCommands  NoStaleError
PROPERTIES ZeroIsError CallReturns

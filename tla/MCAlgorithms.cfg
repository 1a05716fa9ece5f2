CONSTANTS
  MaxId = 4
  MaxLength = 4
SPECIFICATION AlgorithmsSpec
INVARIANTS
  PicksTheNumberedLines
  GetsWhatWasPut
  ValuesReadBack
  NamesAreShellNames

CONSTANTS
  MaxId = 4
  MaxLength = 4
SPECIFICATION AlgorithmsSpec
INVARIANTS
  ShellCompatible

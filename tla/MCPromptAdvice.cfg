CONSTANTS
  Ids = {1, 2, 3, 4}
  ValidIds = {1, 2, 3}
  Keys = {k1, k2}
  NoKey = NoKey
  TornKey = TornKey
  Platform = "linux"
  Clients = {c1, c2}
  Nobody = Nobody
  MaxRequests = 3
  SelectionInputs <- MCSelections
SYMMETRY MCSymmetry
SPECIFICATION PromptSpec
PROPERTIES
  InitAdviceHelps

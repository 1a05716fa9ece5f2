CONSTANTS
  Ids = {1, 2}
  ValidIds = {1, 2}
  Keys = {k1}
  NoKey = NoKey
  TornKey = TornKey
  Platform = "macos"
  Clients = {c1, c2}
  Nobody = Nobody
  MaxRequests = 2
  SelectionInputs <- MCReviewSelections
SYMMETRY MCReviewSymmetry
SPECIFICATION ReviewSpec
INVARIANTS
  ApprovesNumberedSubset

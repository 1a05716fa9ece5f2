CONSTANTS
  Ids = {1, 2}
  ValidIds = {1, 2}
  Keys = {k1, k2}
  NoKey = NoKey
  TornKey = TornKey
  Platform = "linux"
  Clients = {c1}
  Nobody = Nobody
  MaxRequests = 1
  SelectionInputs <- AllOnly
SYMMETRY FleetSymmetry
SPECIFICATION FleetSpec
INVARIANTS
  OneKeyUnlessRaced
  StoredGrantsReadable
  FleetInv

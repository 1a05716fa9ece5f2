CONSTANTS
  Ids = {1, 2, 3, 4}
  ValidIds = {1, 2, 3}
  Keys = {k1, k2}
  NoKey = NoKey
  TornKey = TornKey
  Platform = "macos"
  Clients = {c1, c2}
  Nobody = Nobody
  MaxRequests = 2
  SelectionInputs <- MCSelections
SYMMETRY MCSymmetry
SPECIFICATION PromptSpec
INVARIANTS
  PromptTypeOK
  IInv
  GrantsReadable
  PendingStored
  OneKey
  ApprovalStillPending
  NeverBroken
PROPERTIES
  RequestsOnlyShrink
  GrantsArePrompted
  RefusalsChangeNothing
  KeyIsConfirmed
  ImplementsGrants

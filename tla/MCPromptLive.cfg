CONSTANTS
  Ids = {1, 2}
  ValidIds = {1}
  Keys = {k1}
  NoKey = NoKey
  TornKey = TornKey
  Platform = "linux"
  Clients = {c1, c2}
  Nobody = Nobody
  MaxRequests = 1
  SelectionInputs <- MCFewSelections
SPECIFICATION PromptFairSpec
INVARIANTS
  IInv
  PanicsOnTornKeyOnly
PROPERTIES
  KeyIsConfirmed
  LockIsReleased
  EveryoneIsAnswered
  ImplementsDaemon

CONSTANTS
  Clis = {p1, p2}
  Daemons = {d1, d2}
  NoFile = NoFile
  Stale = Stale
  NoDaemon = NoDaemon
  Transports = {"socket", "pipe"}
  Loads = {"alone", "together", "slow"}
SPECIFICATION StartupFairSpec
INVARIANTS
  StartupTypeOK
  OneDaemon
  AtMostOnce
  StartupInv
PROPERTIES
  StartsCleanly
  EveryCommandEnds

CONSTANTS
  Clis = {p1, p2}
  Daemons = {d1, d2}
  NoFile = NoFile
  Stale = Stale
  NoDaemon = NoDaemon
  Transports = {"socket"}
  Loads = {"together"}
SPECIFICATION StartupSpec
INVARIANTS
  OneSharedSession

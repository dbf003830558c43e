CONSTANTS
  b1 = b1
  b2 = b2
  Path = {1, 2, 3, 4}
  Bytes <- MCBytes
  Size <- MCSize
  Tracked = {1, 2, 3}
  Untracked = {}
  Artifacts = {4}
  Manifest = 1
  Database = 2
  Units <- MCUnits
  Commands <- MCCommands
  Initial <- MCInitial
  MaxFiles = 4
  MaxBytes = 7
  MaxWrites = 3
  SitesIn <- MCSitesIn
  Calls <- MCCalls
  MaxTus = 1
  Kid = {1, 2}
  Parent <- MCParent
  Exits = {"ok", "leak", "reject", "report", "stray", "forged", "fail"}
  Drain = 1
  MaxProcesses = 2
  Requests <- MCRequests
  PayloadBytes = 3
  Total = 2
  InspectWall = 1
  Forking = {"run"}
SPECIFICATION Spec
INVARIANTS CoherentSnapshot NoKnownSurvivor IndexHonest DominatingGuardBounds ResultValidates RefutedIsWarranted
PROPERTY ReplayReturns
CHECK_DEADLOCK FALSE

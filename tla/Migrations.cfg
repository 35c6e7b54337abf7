CONSTANTS
  Processes = {p1, p2}
  NoOne = NoOne
  auth = auth
  order = order
  Order <- MCOrder
  Latest <- MCLatest
  Irreversible = {auth}
  MaxLaunches = 3
  MaxFaults = 1
SPECIFICATION FairSpec
INVARIANTS
  TrackerIsTrue
  ScriptsMeetTheirSchema
  ServingIsMigrated
PROPERTIES
  CommandsSucceed
CHECK_DEADLOCK FALSE

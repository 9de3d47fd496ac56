CONSTANTS
  server = server
  cli = cli
  Procs = {server, cli}
  Releases = {2, 4}
  Floor = 2
  Repeatable = {3}
  MaxWrites = 2
  MaxEvents = 6
SPECIFICATION UpgradeFairSpec
INVARIANTS SchemaIsKnown RollbackPoint
PROPERTIES RestartsSettle

SPECIFICATION Spec
CONSTANTS
  u1 = u1
  u2 = u2
  plain = plain
  ibc = ibc
  User = {u1}
  Authority = gov
  Nil = nil
  Checksum = {plain, ibc}
  IBCCode = {ibc}
  MigrateVersion <- MCVersions
  Salt = {s1}
  Label = {l1}
  AccessConfigs = {}
  Messages = {"StoreCode", "InstantiateContract", "InstantiateContract2", "MigrateContract", "ExecuteContract", "StoreAndMigrateContract", "StoreAndInstantiateContract"}
  Propagate = {"instantiate"}
  MaxCallDepth = 1
  MaxCodeID = 2
  MaxContracts = 1
  MaxHistory = 3
  MaxPosition = 2
INVARIANTS TypeOK HistoryConsistent IndexesExact PortMatchesCode CodeAvailable NextClassicAddressFree AddressTellsOrigin
PROPERTY SubMessagesNeedAdmin

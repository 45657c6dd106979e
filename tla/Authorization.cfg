SPECIFICATION Spec
CONSTANTS
  u1 = u1
  u2 = u2
  plain = plain
  ibc = ibc
  User = {u1, u2}
  Authority = gov
  Nil = nil
  Checksum = {plain}
  IBCCode = {}
  MigrateVersion <- MCNoVersion
  Salt = {}
  Label = {l1, l2}
  AccessConfigs <- MCOnlyU1
  Messages = {"StoreCode", "InstantiateContract", "MigrateContract", "ExecuteContract", "UpdateAdmin", "UpdateContractLabel", "UpdateInstantiateConfig"}
  Propagate = {"instantiate", "migrate"}
  MaxCallDepth = 1
  MaxCodeID = 1
  MaxContracts = 1
  MaxHistory = 2
  MaxPosition = 3
INVARIANTS UnsignedUnchanged EscalationNeedsAuthority

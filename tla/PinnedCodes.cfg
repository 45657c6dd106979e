SPECIFICATION Spec
CONSTANTS
  u1 = u1
  u2 = u2
  plain = plain
  ibc = ibc
  User = {u1}
  Authority = gov
  Nil = nil
  Checksum = {plain}
  IBCCode = {}
  MigrateVersion <- MCNoVersion
  Salt = {}
  Label = {l1}
  AccessConfigs = {}
  Messages = {"StoreCode", "PinCodes", "UnpinCodes"}
  Propagate = {"instantiate"}
  MaxCallDepth = 1
  MaxCodeID = 2
  MaxContracts = 1
  MaxHistory = 1
  MaxPosition = 1
INVARIANT PinnedMeansCached

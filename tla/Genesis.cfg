SPECIFICATION GenesisSpec
CONSTANTS
  u1 = u1
  u2 = u2
  plain = plain
  ibc = ibc
  User = {u1}
  Authority = gov
  Nil = nil
  Checksum = {plain}
  IBCCode = {}
  MigrateVersion <- MCNoVersion
  Salt = {}
  Label = {l1}
  AccessConfigs <- MCOnlyU1
  Messages = {"StoreCode", "InstantiateContract", "MigrateContract", "SudoContract", "UpdateParams", "AddCodeUploadParamsAddresses", "RemoveCodeUploadParamsAddresses", "PinCodes", "UnpinCodes", "SetGaslessContracts", "UnsetGasless"}
  Propagate = {"instantiate"}
  MaxCallDepth = 1
  MaxCodeID = 1
  MaxContracts = 1
  MaxHistory = 2
  MaxPosition = 1
INVARIANTS GovernedByAuthority ImportSucceeds
PROPERTY GenesisKeepsRegistry

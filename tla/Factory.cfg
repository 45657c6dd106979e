SPECIFICATION Spec
CONSTANTS
  Accounts = {user, contract}
  Contracts = {contract}
  Subdenoms = {sub}
  Native = orai
  None = None
  Module = Module
  Pool = Pool
  Capabilities = {"enable_burn_from", "enable_force_transfer", "enable_metadata"}
  CreationFee = 1
  Wealth = 1
  MaxSupply = 2
  MaxGenesis = 1
INVARIANTS RegistryAgrees ModuleEmpty GenesisRoundTrip
PROPERTIES AdminHandedOver SupplyByAdmin BalancesProtected NothingForcedOnModules

SPECIFICATION Spec
CONSTANTS
  Nil = nil
  GasLimits = {2}
  Costs = {1, 4}
  Gasless = {FALSE, TRUE}
  TxGas = 6
  MaxCallDepth = 2
  MaxMessages = 2
  MaxCalls = 5
INVARIANT WithinLimits

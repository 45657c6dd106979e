SPECIFICATION FairSpec
CONSTANTS
  Nil = nil
  GasLimits = {2, 3}
  Costs = {1, 2}
  Gasless = {FALSE}
  TxGas = 6
  MaxCallDepth = 2
  MaxMessages = 2
  MaxCalls = 10
INVARIANTS Atomic EventsMatch RepliesExact FailuresHandled FullyCharged WithinLimits
PROPERTIES NestedTransactions Termination

SPECIFICATION Spec
CONSTANTS
  Encoder <- AllEncoders
  Sizer <- AllSizers
  Decoder <- AllDecoders
  Samples <- MCSamples
  Full <- MCFull
  Accounts <- MCAccounts
  LegacyConfigs <- MCLegacyConfigs
INVARIANTS RoundTrip PrefixesRefused AcceptedIsStable PartsMerge MigrationKeepsAccess
\* a message is read once
CHECK_DEADLOCK FALSE

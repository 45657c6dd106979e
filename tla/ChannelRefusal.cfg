SPECIFICATION Spec
CONSTANTS
  Chain = {a, b}
  Version = {v1}
  NoVersion = none
  Ordering = {"ORDERED", "UNORDERED"}
  None = nil
  MaxChannelSequence = 1
  MaxChannels = 1
  MaxPackets = 1
  Opener = {a}
  Sender = {a}
  Refuser = {b}
INVARIANT ContractDecides

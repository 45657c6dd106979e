SPECIFICATION Spec
CONSTANTS
  Chain = {a, b}
  Version = {v1, v2}
  NoVersion = none
  Ordering = {"ORDERED", "UNORDERED"}
  None = nil
  MaxChannelSequence = 1
  MaxChannels = 2
  MaxPackets = 2
  Opener = {a}
  Sender = {a}
  Refuser = {}
SYMMETRY VersionSymmetry
CONSTRAINT VersionsOrPackets
INVARIANTS HandshakeAgrees EffectMatchesAck SenderToldOnce

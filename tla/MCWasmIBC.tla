------------------------------ MODULE MCWasmIBC ------------------------------
(* A small instance of WasmIBC for TLC. *)
EXTENDS WasmIBC, TLC

\* no step tells one version from another
VersionSymmetry == Permutations(Version)

VersionsSeen ==
  UNION {{chain[c].channels[id].first, chain[c].channels[id].version} :
           <<c, id>> \in {<<c, id>> \in Chain \X Channels : id \in DOMAIN chain[c].channels}}

PacketsSent == UNION {chain[c].sent : c \in Chain}

\* bound: ends with different versions, or a second packet, but not both
VersionsOrPackets == Cardinality(VersionsSeen) > 1 => Cardinality(PacketsSent) <= 1
=============================================================================

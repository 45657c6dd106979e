---------------------------- MODULE MCWasmKeeper ----------------------------
(* Small instances of WasmKeeper and WasmGenesis for TLC. *)
EXTENDS WasmGenesis

CONSTANTS u1, u2, plain, ibc

\* configs that messages carry: everybody, and one address
MCEverybody    == {AllowEverybody}
MCOnlyU1       == {[permission |-> "AnyOfAddresses", addresses |-> {u1}]}

\* no code declares a migrate version, or the plain one does
MCNoVersion    == [c \in Checksum |-> 0]
MCVersions     == [c \in Checksum |-> IF c = plain THEN 1 ELSE 0]

=============================================================================

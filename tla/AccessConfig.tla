---------------------------- MODULE AccessConfig ----------------------------
(***************************************************************************)
(* Access configs of x/wasm: who may upload code, or instantiate it.       *)
(***************************************************************************)

AccessTypes == {"Nobody", "AnyOfAddresses", "Everybody"}

AllowNobody    == [permission |-> "Nobody", addresses |-> {}]
AllowEverybody == [permission |-> "Everybody", addresses |-> {}]

IsConfig(c) ==
  /\ c = [permission |-> c.permission, addresses |-> c.addresses]
  /\ c.permission \in AccessTypes

(* AccessConfig.ValidateBasic, for addresses that are well formed.         *)
ValidConfig(config) ==
  config.permission = "AnyOfAddresses" => config.addresses # {}

(* AccessType.With: the config of an access type for one address.          *)
With(type, addr) ==
  [permission |-> type,
   addresses  |-> IF type = "AnyOfAddresses" THEN {addr} ELSE {}]

(* AccessConfig.Allowed *)
Allowed(config, actor) ==
  \/ config.permission = "Everybody"
  \/ config.permission = "AnyOfAddresses" /\ actor \in config.addresses

(* AccessType.IsSubset *)
TypeIsSubset(type, super) ==
  \/ super = "Everybody"
  \/ type = "Nobody"
  \/ super = "AnyOfAddresses" /\ type = "AnyOfAddresses"

(* AccessConfig.IsSubset *)
IsSubset(config, super) ==
  IF super.permission = "AnyOfAddresses"
  THEN \/ config.permission = "Nobody"
       \/ /\ config.permission = "AnyOfAddresses"
          /\ config.addresses \subseteq super.addresses
  ELSE TypeIsSubset(config.permission, super.permission)
=============================================================================

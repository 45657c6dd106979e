----------------------------- MODULE WireFormat -----------------------------
(***************************************************************************)
(* Every message of the chain on its way through the codec.  A message is  *)
(* marshalled; its bytes are read as they are, cut short, joined with      *)
(* those of another message of its type or mixed with fields a newer peer  *)
(* may know; or they are records of an old store, which an upgrade         *)
(* migrates before they are read.                                          *)
(***************************************************************************)
EXTENDS Protobuf, FiniteSetsExt, TLC, TxWire, QueryWire, ProposalWire, StateWire, FactoryWire, LegacyWire

(* Messages of other modules (coins, pages, metadata, packed Any), as one  *)
(* opaque field.                                                           *)
External_Marshal   == <<<<10, "Content", Bytes>>>>
External_Size      == <<<<"Content", Bytes>>>>
External_Unmarshal == <<<<1, "Content", Bytes>>>>

AllEncoders ==
  TxWireEncoders @@ QueryWireEncoders @@ ProposalWireEncoders @@ StateWireEncoders
  @@ FactoryWireEncoders @@ LegacyWireEncoders @@ [External |-> External_Marshal]

AllSizers ==
  TxWireSizers @@ QueryWireSizers @@ ProposalWireSizers @@ StateWireSizers
  @@ FactoryWireSizers @@ LegacyWireSizers @@ [External |-> External_Size]

AllDecoders ==
  TxWireDecoders @@ QueryWireDecoders @@ ProposalWireDecoders @@ StateWireDecoders
  @@ FactoryWireDecoders @@ LegacyWireDecoders @@ [External |-> External_Unmarshal]

CONSTANTS
  Samples,  \* message type -> the messages that are tried
  Full,     \* message type -> the one of them with all its fields set
  Accounts,       \* addresses
  LegacyConfigs   \* access configurations in records of an old store

(* The length up to which messages are considered, about 2 MB: with two   *)
(* of them joined, all that can be read from the bytes can be written in   *)
(* lengths that are exact here.                                            *)
MaxMessage == 2000000

ASSUME SamplesAssumption ==
  \A T \in Types :
    /\ Full[T] \in Samples[T]
    /\ \A m \in Samples[T] : Is(T, m) /\ Size(T, m) <= MaxMessage

VARIABLES
  type,    \* the type the bytes are read as
  msg,     \* the message that was marshalled first
  second,  \* <<>>, or the message whose bytes were joined to it
  wire,    \* the bytes
  stage,   \* "new", "sent", "cut", "joined", "extended", "altered",
           \* "migrated", "panicked"
  result   \* <<>>, or what Unmarshal made of the bytes

vars == <<type, msg, second, wire, stage, result>>

-----------------------------------------------------------------------------
(* Records of an old store that passed its validation. *)
Permissions == {<<1>>, <<2>>, <<3>>, <<4>>}

ASSUME LegacyAssumption ==
  /\ Accounts \subseteq Seq(0..255)
  /\ \A c \in LegacyConfigs : Two!Is("V3_AccessConfig", c) /\ c.Permission \in Permissions

LegacySamples(T) ==
  CASE T = "V3_CodeInfo" ->
         {[CodeHash |-> <<9>>, Creator |-> a, InstantiateConfig |-> c] :
            a \in Accounts, c \in LegacyConfigs}
    [] T \in {"V2_Params", "V3_Params"} ->
         {[CodeUploadAccess |-> c, InstantiateDefaultPermission |-> p] :
            c \in LegacyConfigs, p \in Permissions}
    [] OTHER -> {}

-----------------------------------------------------------------------------
(* The migration of the store from version 3 to version 4. *)

(* Mutant: the single address is left behind. *)
updateAccessConfigKind(old) ==
  [Permission |-> IF old.Permission = <<2>> THEN <<4>> ELSE old.Permission,
   Addresses |-> old.Addresses]

updateAccessConfig(old) ==
  IF old.Permission = <<2>>
  THEN [Permission |-> <<4>>, Addresses |-> <<old.Address>>]
  ELSE [Permission |-> old.Permission, Addresses |-> old.Addresses]

MigratedCodeInfo(old) ==
  [CodeHash |-> old.CodeHash, Creator |-> old.Creator,
   InstantiateConfig |-> updateAccessConfig(old.InstantiateConfig)]

MigratedParams(old) ==
  [CodeUploadAccess |-> updateAccessConfig(old.CodeUploadAccess),
   InstantiateDefaultPermission |->
     IF old.InstantiateDefaultPermission = <<2>> THEN <<4>> ELSE old.InstantiateDefaultPermission]

(* The tables of the records that are migrated are those of the code, and  *)
(* the records that are written are not too long.                          *)
ASSUME MigrationAssumption ==
  /\ {"V3_CodeInfo", "CodeInfo", "V2_Params", "V3_Params", "Params", "V2_AccessConfig",
      "V3_AccessConfig", "AccessConfig"} \subseteq Types
  /\ Encoder["V3_CodeInfo"] = V3_CodeInfo_Marshal /\ Encoder["CodeInfo"] = CodeInfo_Marshal
  /\ Encoder["V2_Params"] = V2_Params_Marshal /\ Encoder["V3_Params"] = V3_Params_Marshal
  /\ Encoder["Params"] = Params_Marshal
  /\ Encoder["V2_AccessConfig"] = V2_AccessConfig_Marshal
  /\ Encoder["V3_AccessConfig"] = V3_AccessConfig_Marshal
  /\ Encoder["AccessConfig"] = AccessConfig_Marshal
  /\ \A m \in LegacySamples("V3_CodeInfo") : Size("CodeInfo", MigratedCodeInfo(m)) <= MaxMessage
  /\ \A m \in LegacySamples("V3_Params") : Size("Params", MigratedParams(m)) <= MaxMessage

CodeInfoTypes == {"V3_CodeInfo", "CodeInfo"}
ParamsTypes   == {"V2_Params", "V3_Params", "Params"}

-----------------------------------------------------------------------------
Init ==
  /\ type \in Types
  /\ msg \in Samples[type]
  /\ second = <<>> /\ wire = <<>> /\ stage = "new" /\ result = <<>>

Send ==
  /\ stage = "new"
  /\ LET r == Marshal(type, msg)
     IN  IF r.ok THEN stage' = "sent" /\ wire' = r.bytes
         ELSE stage' = "panicked" /\ UNCHANGED wire
  /\ UNCHANGED <<type, msg, second, result>>

Cut ==
  /\ stage = "sent" /\ result = <<>>
  /\ Len(wire) <= 60 \/ msg = Full[type]
  /\ \E n \in 0..(Len(wire) - 1) : wire' = SubSeq(wire, 1, n)
  /\ stage' = "cut"
  /\ UNCHANGED <<type, msg, second, result>>

Join ==
  /\ stage = "sent" /\ result = <<>>
  /\ \E m \in {msg, Full[type]} :
       /\ wire' = wire \o Marshal(type, m).bytes
       /\ second' = <<m>>
  /\ stage' = "joined"
  /\ UNCHANGED <<type, msg, result>>

Extend ==
  /\ stage = "sent" /\ result = <<>>
  /\ \E u \in Top!UnknownFields : wire' \in {u \o wire, wire \o u}
  /\ stage' = "extended"
  /\ UNCHANGED <<type, msg, second, result>>

(* One byte is another. *)
Alter ==
  /\ stage = "sent" /\ result = <<>>
  /\ Len(wire) <= 60 \/ msg = Full[type]
  /\ \E n \in DOMAIN wire, b \in {0, 3, 127, 128, 255} : wire' = [wire EXCEPT ![n] = b]
  /\ stage' = "altered"
  /\ UNCHANGED <<type, msg, second, result>>

(* Migrate3to4 for one record, or once more for one it has migrated. *)
Migrate ==
  /\ stage \in {"sent", "migrated"} /\ result = <<>>
  /\ LET write(T, m) == type' = T /\ wire' = Marshal(T, m).bytes
     IN  \/ /\ type \in CodeInfoTypes
            /\ msg \in LegacySamples("V3_CodeInfo")
            /\ write("CodeInfo", MigratedCodeInfo(Decoded("V3_CodeInfo", wire).msg))
         \/ /\ type \in ParamsTypes
            /\ msg \in LegacySamples("V3_Params")
            /\ write("Params", MigratedParams(Decoded("V3_Params", wire).msg))
  /\ stage' = "migrated"
  /\ UNCHANGED <<msg, second, result>>

Receive ==
  /\ stage \notin {"new", "panicked"} /\ result = <<>>
  /\ result' = Decoded(type, wire)
  /\ UNCHANGED <<type, msg, second, wire, stage>>

Next == Send \/ Cut \/ Join \/ Extend \/ Alter \/ Migrate \/ Receive

Spec == Init /\ [][Next]_vars

-----------------------------------------------------------------------------
(* What is read is what was written, in exactly the bytes Size announced:  *)
(* Marshal fills a buffer of that size from its end and returns the first  *)
(* bytes, so any difference is a panic or garbage.  Fields of messages     *)
(* that are not known here (a newer peer's) change nothing.                *)
RoundTrip ==
  /\ stage # "panicked"
  /\ stage = "sent" => Size(type, msg) = Len(wire)
  /\ stage \in {"sent", "extended"} /\ result # <<>> => result = [ok |-> TRUE, msg |-> msg]

(* Bytes that end inside of a field are refused, whatever the lengths in   *)
(* them say; bytes that end after one are the message without the rest.    *)
PrefixesRefused ==
  stage = "cut" /\ result # <<>> =>
    (result.ok <=> Len(wire) \in Top!Boundaries(type, msg))

(* What a node accepts, however it was written, it can store and read      *)
(* again unchanged, so that nodes agree on it.                             *)
AcceptedIsStable ==
  result # <<>> /\ result.ok =>
    LET again == Marshal(type, result.msg)
    IN  again.ok /\ Decoded(type, again.bytes) = result

(* A message that arrives in two parts is the first overlaid by the        *)
(* second: lists are continued, embedded messages merged, and nothing of   *)
(* the first part is lost to a default of the second.                      *)
PartsMerge ==
  stage = "joined" /\ result # <<>> =>
    result = [ok |-> TRUE, msg |-> Top!Merge(type, msg, second[1])]

LegacyAllows(c, a) ==
  \/ c.Permission = <<2>> /\ c.Address = a
  \/ c.Permission = <<3>>
  \/ c.Permission = <<4>> /\ a \in Range(c.Addresses)

Allows(c, a) ==
  \/ c.Permission = <<3>>
  \/ c.Permission = <<4>> /\ a \in Range(c.Addresses)

(* After the upgrade of the store, also when it is run again, exactly the  *)
(* same addresses may upload and instantiate as before: the old address    *)
(* field is not known to the new type, which would skip it.                *)
MigrationKeepsAccess ==
  stage = "migrated" /\ result # <<>> =>
    /\ result.ok
    /\ \A a \in Accounts :
         IF type = "CodeInfo"
         THEN Allows(result.msg.InstantiateConfig, a) <=> LegacyAllows(msg.InstantiateConfig, a)
         ELSE Allows(result.msg.CodeUploadAccess, a) <=> LegacyAllows(msg.CodeUploadAccess, a)
    /\ type = "CodeInfo" => result.msg.CodeHash = msg.CodeHash /\ result.msg.Creator = msg.Creator
    /\ type = "Params" => result.msg.InstantiateDefaultPermission # <<2>>
=============================================================================

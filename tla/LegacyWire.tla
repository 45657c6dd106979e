---------------------------- MODULE LegacyWire ----------------------------
(*****************************************************************************)
(* The types of the store before its migrations, in versions 2 and 3         *)
(* (legacy_types.go).  For each message: what MarshalToSizedBuffer writes    *)
(* (tag, field, kind), what Size counts (field, kind), what Unmarshal        *)
(* reads (field number, field, kind).                                        *)
(*****************************************************************************)
EXTENDS WireKinds

V2_AccessTypeParam_Marshal == <<<<8, "Value", Enum>>>>
V2_AccessTypeParam_Size == <<<<"Value", Enum>>>>
V2_AccessTypeParam_Unmarshal == <<<<1, "Value", Enum>>>>

V2_AccessConfig_Marshal == <<
  <<8, "Permission", Enum>>, <<18, "Address", Bytes>>, <<26, "Addresses", Strings>>>>
V2_AccessConfig_Size == <<<<"Permission", Enum>>, <<"Address", Bytes>>, <<"Addresses", Strings>>>>
V2_AccessConfig_Unmarshal == <<
  <<1, "Permission", Enum>>, <<2, "Address", Bytes>>, <<3, "Addresses", Strings>>>>

V2_Params_Marshal == <<
  <<10, "CodeUploadAccess", Val("V2_AccessConfig")>>, <<16, "InstantiateDefaultPermission", Enum>>>>
V2_Params_Size == <<
  <<"CodeUploadAccess", Val("V2_AccessConfig")>>, <<"InstantiateDefaultPermission", Enum>>>>
V2_Params_Unmarshal == <<
  <<1, "CodeUploadAccess", Val("V2_AccessConfig")>>, <<2, "InstantiateDefaultPermission", Enum>>>>

V2_CodeInfo_Marshal == <<
  <<10, "CodeHash", Bytes>>, <<18, "Creator", Bytes>>,
  <<42, "InstantiateConfig", Val("V2_AccessConfig")>>>>
V2_CodeInfo_Size == <<
  <<"CodeHash", Bytes>>, <<"Creator", Bytes>>, <<"InstantiateConfig", Val("V2_AccessConfig")>>>>
V2_CodeInfo_Unmarshal == <<
  <<1, "CodeHash", Bytes>>, <<2, "Creator", Bytes>>,
  <<5, "InstantiateConfig", Val("V2_AccessConfig")>>>>

V3_AccessTypeParam_Marshal == <<<<8, "Value", Enum>>>>
V3_AccessTypeParam_Size == <<<<"Value", Enum>>>>
V3_AccessTypeParam_Unmarshal == <<<<1, "Value", Enum>>>>

V3_AccessConfig_Marshal == <<
  <<8, "Permission", Enum>>, <<18, "Address", Bytes>>, <<26, "Addresses", Strings>>>>
V3_AccessConfig_Size == <<<<"Permission", Enum>>, <<"Address", Bytes>>, <<"Addresses", Strings>>>>
V3_AccessConfig_Unmarshal == <<
  <<1, "Permission", Enum>>, <<2, "Address", Bytes>>, <<3, "Addresses", Strings>>>>

V3_Params_Marshal == <<
  <<10, "CodeUploadAccess", Val("V3_AccessConfig")>>, <<16, "InstantiateDefaultPermission", Enum>>>>
V3_Params_Size == <<
  <<"CodeUploadAccess", Val("V3_AccessConfig")>>, <<"InstantiateDefaultPermission", Enum>>>>
V3_Params_Unmarshal == <<
  <<1, "CodeUploadAccess", Val("V3_AccessConfig")>>, <<2, "InstantiateDefaultPermission", Enum>>>>

V3_CodeInfo_Marshal == <<
  <<10, "CodeHash", Bytes>>, <<18, "Creator", Bytes>>,
  <<42, "InstantiateConfig", Val("V3_AccessConfig")>>>>
V3_CodeInfo_Size == <<
  <<"CodeHash", Bytes>>, <<"Creator", Bytes>>, <<"InstantiateConfig", Val("V3_AccessConfig")>>>>
V3_CodeInfo_Unmarshal == <<
  <<1, "CodeHash", Bytes>>, <<2, "Creator", Bytes>>,
  <<5, "InstantiateConfig", Val("V3_AccessConfig")>>>>

LegacyWireEncoders == [
  V2_AccessTypeParam |-> V2_AccessTypeParam_Marshal, V2_AccessConfig |-> V2_AccessConfig_Marshal,
  V2_Params |-> V2_Params_Marshal, V2_CodeInfo |-> V2_CodeInfo_Marshal,
  V3_AccessTypeParam |-> V3_AccessTypeParam_Marshal, V3_AccessConfig |-> V3_AccessConfig_Marshal,
  V3_Params |-> V3_Params_Marshal, V3_CodeInfo |-> V3_CodeInfo_Marshal]

LegacyWireSizers == [
  V2_AccessTypeParam |-> V2_AccessTypeParam_Size, V2_AccessConfig |-> V2_AccessConfig_Size,
  V2_Params |-> V2_Params_Size, V2_CodeInfo |-> V2_CodeInfo_Size,
  V3_AccessTypeParam |-> V3_AccessTypeParam_Size, V3_AccessConfig |-> V3_AccessConfig_Size,
  V3_Params |-> V3_Params_Size, V3_CodeInfo |-> V3_CodeInfo_Size]

LegacyWireDecoders == [
  V2_AccessTypeParam |-> V2_AccessTypeParam_Unmarshal,
  V2_AccessConfig |-> V2_AccessConfig_Unmarshal, V2_Params |-> V2_Params_Unmarshal,
  V2_CodeInfo |-> V2_CodeInfo_Unmarshal, V3_AccessTypeParam |-> V3_AccessTypeParam_Unmarshal,
  V3_AccessConfig |-> V3_AccessConfig_Unmarshal, V3_Params |-> V3_Params_Unmarshal,
  V3_CodeInfo |-> V3_CodeInfo_Unmarshal]
=============================================================================

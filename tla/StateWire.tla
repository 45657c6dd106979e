---------------------------- MODULE StateWire ----------------------------
(*****************************************************************************)
(* What is stored: records, genesis, grants and the messages about IBC       *)
(* packets (types.pb.go, genesis.pb.go, authz.pb.go, ibc.pb.go).  For each   *)
(* message: what MarshalToSizedBuffer writes (tag, field, kind), what Size   *)
(* counts (field, kind), what Unmarshal reads (field number, field, kind).   *)
(*****************************************************************************)
EXTENDS WireKinds

StoreCodeAuthorization_Marshal == <<<<10, "Grants", Many("CodeGrant")>>>>
StoreCodeAuthorization_Size == <<<<"Grants", Many("CodeGrant")>>>>
StoreCodeAuthorization_Unmarshal == <<<<1, "Grants", Many("CodeGrant")>>>>

ContractExecutionAuthorization_Marshal == <<<<10, "Grants", Many("ContractGrant")>>>>
ContractExecutionAuthorization_Size == <<<<"Grants", Many("ContractGrant")>>>>
ContractExecutionAuthorization_Unmarshal == <<<<1, "Grants", Many("ContractGrant")>>>>

ContractMigrationAuthorization_Marshal == <<<<10, "Grants", Many("ContractGrant")>>>>
ContractMigrationAuthorization_Size == <<<<"Grants", Many("ContractGrant")>>>>
ContractMigrationAuthorization_Unmarshal == <<<<1, "Grants", Many("ContractGrant")>>>>

CodeGrant_Marshal == <<
  <<10, "CodeHash", Bytes>>, <<18, "InstantiatePermission", Ptr("AccessConfig")>>>>
CodeGrant_Size == <<<<"CodeHash", Bytes>>, <<"InstantiatePermission", Ptr("AccessConfig")>>>>
CodeGrant_Unmarshal == <<
  <<1, "CodeHash", Bytes>>, <<2, "InstantiatePermission", Ptr("AccessConfig")>>>>

ContractGrant_Marshal == <<
  <<10, "Contract", Bytes>>, <<18, "Limit", Ptr("External")>>, <<26, "Filter", Ptr("External")>>>>
ContractGrant_Size == <<
  <<"Contract", Bytes>>, <<"Limit", Ptr("External")>>, <<"Filter", Ptr("External")>>>>
ContractGrant_Unmarshal == <<
  <<1, "Contract", Bytes>>, <<2, "Limit", Ptr("External")>>, <<3, "Filter", Ptr("External")>>>>

MaxCallsLimit_Marshal == <<<<8, "Remaining", Uint>>>>
MaxCallsLimit_Size == <<<<"Remaining", Uint>>>>
MaxCallsLimit_Unmarshal == <<<<1, "Remaining", Uint>>>>

MaxFundsLimit_Marshal == <<<<10, "Amounts", Many("External")>>>>
MaxFundsLimit_Size == <<<<"Amounts", Many("External")>>>>
MaxFundsLimit_Unmarshal == <<<<1, "Amounts", Many("External")>>>>

CombinedLimit_Marshal == <<<<8, "CallsRemaining", Uint>>, <<18, "Amounts", Many("External")>>>>
CombinedLimit_Size == <<<<"CallsRemaining", Uint>>, <<"Amounts", Many("External")>>>>
CombinedLimit_Unmarshal == <<<<1, "CallsRemaining", Uint>>, <<2, "Amounts", Many("External")>>>>

AllowAllMessagesFilter_Marshal == <<>>
AllowAllMessagesFilter_Size == <<>>
AllowAllMessagesFilter_Unmarshal == <<>>

AcceptedMessageKeysFilter_Marshal == <<<<10, "Keys", Strings>>>>
AcceptedMessageKeysFilter_Size == <<<<"Keys", Strings>>>>
AcceptedMessageKeysFilter_Unmarshal == <<<<1, "Keys", Strings>>>>

AcceptedMessagesFilter_Marshal == <<<<10, "Messages", Strings>>>>
AcceptedMessagesFilter_Size == <<<<"Messages", Strings>>>>
AcceptedMessagesFilter_Unmarshal == <<<<1, "Messages", Strings>>>>

GenesisState_Marshal == <<
  <<10, "Params", Val("Params")>>, <<18, "Codes", Many("Code")>>,
  <<26, "Contracts", Many("Contract")>>, <<34, "Sequences", Many("Sequence")>>>>
GenesisState_Size == <<
  <<"Params", Val("Params")>>, <<"Codes", Many("Code")>>, <<"Contracts", Many("Contract")>>,
  <<"Sequences", Many("Sequence")>>>>
GenesisState_Unmarshal == <<
  <<1, "Params", Val("Params")>>, <<2, "Codes", Many("Code")>>,
  <<3, "Contracts", Many("Contract")>>, <<4, "Sequences", Many("Sequence")>>>>

Code_Marshal == <<
  <<8, "CodeID", Uint>>, <<18, "CodeInfo", Val("CodeInfo")>>, <<26, "CodeBytes", Bytes>>,
  <<32, "Pinned", Bool>>>>
Code_Size == <<
  <<"CodeID", Uint>>, <<"CodeInfo", Val("CodeInfo")>>, <<"CodeBytes", Bytes>>, <<"Pinned", Bool>>>>
Code_Unmarshal == <<
  <<1, "CodeID", Uint>>, <<2, "CodeInfo", Val("CodeInfo")>>, <<3, "CodeBytes", Bytes>>,
  <<4, "Pinned", Bool>>>>

Contract_Marshal == <<
  <<10, "ContractAddress", Bytes>>, <<18, "ContractInfo", Val("ContractInfo")>>,
  <<26, "ContractState", Many("Model")>>,
  <<34, "ContractCodeHistory", Many("ContractCodeHistoryEntry")>>>>
Contract_Size == <<
  <<"ContractAddress", Bytes>>, <<"ContractInfo", Val("ContractInfo")>>,
  <<"ContractState", Many("Model")>>, <<"ContractCodeHistory", Many("ContractCodeHistoryEntry")>>>>
Contract_Unmarshal == <<
  <<1, "ContractAddress", Bytes>>, <<2, "ContractInfo", Val("ContractInfo")>>,
  <<3, "ContractState", Many("Model")>>,
  <<4, "ContractCodeHistory", Many("ContractCodeHistoryEntry")>>>>

Sequence_Marshal == <<<<10, "IDKey", Bytes>>, <<16, "Value", Uint>>>>
Sequence_Size == <<<<"IDKey", Bytes>>, <<"Value", Uint>>>>
Sequence_Unmarshal == <<<<1, "IDKey", Bytes>>, <<2, "Value", Uint>>>>

MsgIBCSend_Marshal == <<
  <<18, "Channel", Bytes>>, <<32, "TimeoutHeight", Uint>>, <<40, "TimeoutTimestamp", Uint>>,
  <<50, "Data", Bytes>>>>
MsgIBCSend_Size == <<
  <<"Channel", Bytes>>, <<"TimeoutHeight", Uint>>, <<"TimeoutTimestamp", Uint>>, <<"Data", Bytes>>>>
MsgIBCSend_Unmarshal == <<
  <<2, "Channel", Bytes>>, <<4, "TimeoutHeight", Uint>>, <<5, "TimeoutTimestamp", Uint>>,
  <<6, "Data", Bytes>>>>

MsgIBCSendResponse_Marshal == <<<<8, "Sequence", Uint>>>>
MsgIBCSendResponse_Size == <<<<"Sequence", Uint>>>>
MsgIBCSendResponse_Unmarshal == <<<<1, "Sequence", Uint>>>>

MsgIBCWriteAcknowledgementResponse_Marshal == <<>>
MsgIBCWriteAcknowledgementResponse_Size == <<>>
MsgIBCWriteAcknowledgementResponse_Unmarshal == <<>>

MsgIBCCloseChannel_Marshal == <<<<18, "Channel", Bytes>>>>
MsgIBCCloseChannel_Size == <<<<"Channel", Bytes>>>>
MsgIBCCloseChannel_Unmarshal == <<<<2, "Channel", Bytes>>>>

AccessTypeParam_Marshal == <<<<8, "Value", Enum>>>>
AccessTypeParam_Size == <<<<"Value", Enum>>>>
AccessTypeParam_Unmarshal == <<<<1, "Value", Enum>>>>

AccessConfig_Marshal == <<<<8, "Permission", Enum>>, <<26, "Addresses", Strings>>>>
AccessConfig_Size == <<<<"Permission", Enum>>, <<"Addresses", Strings>>>>
AccessConfig_Unmarshal == <<<<1, "Permission", Enum>>, <<3, "Addresses", Strings>>>>

Params_Marshal == <<
  <<10, "CodeUploadAccess", Val("AccessConfig")>>, <<16, "InstantiateDefaultPermission", Enum>>>>
Params_Size == <<
  <<"CodeUploadAccess", Val("AccessConfig")>>, <<"InstantiateDefaultPermission", Enum>>>>
Params_Unmarshal == <<
  <<1, "CodeUploadAccess", Val("AccessConfig")>>, <<2, "InstantiateDefaultPermission", Enum>>>>

CodeInfo_Marshal == <<
  <<10, "CodeHash", Bytes>>, <<18, "Creator", Bytes>>,
  <<42, "InstantiateConfig", Val("AccessConfig")>>>>
CodeInfo_Size == <<
  <<"CodeHash", Bytes>>, <<"Creator", Bytes>>, <<"InstantiateConfig", Val("AccessConfig")>>>>
CodeInfo_Unmarshal == <<
  <<1, "CodeHash", Bytes>>, <<2, "Creator", Bytes>>,
  <<5, "InstantiateConfig", Val("AccessConfig")>>>>

ContractInfo_Marshal == <<
  <<8, "CodeID", Uint>>, <<18, "Creator", Bytes>>, <<26, "Admin", Bytes>>, <<34, "Label", Bytes>>,
  <<42, "Created", Ptr("AbsoluteTxPosition")>>, <<50, "IBCPortID", Bytes>>,
  <<58, "Extension", Ptr("External")>>>>
ContractInfo_Size == <<
  <<"CodeID", Uint>>, <<"Creator", Bytes>>, <<"Admin", Bytes>>, <<"Label", Bytes>>,
  <<"Created", Ptr("AbsoluteTxPosition")>>, <<"IBCPortID", Bytes>>,
  <<"Extension", Ptr("External")>>>>
ContractInfo_Unmarshal == <<
  <<1, "CodeID", Uint>>, <<2, "Creator", Bytes>>, <<3, "Admin", Bytes>>, <<4, "Label", Bytes>>,
  <<5, "Created", Ptr("AbsoluteTxPosition")>>, <<6, "IBCPortID", Bytes>>,
  <<7, "Extension", Ptr("External")>>>>

ContractCodeHistoryEntry_Marshal == <<
  <<8, "Operation", Enum>>, <<16, "CodeID", Uint>>, <<26, "Updated", Ptr("AbsoluteTxPosition")>>,
  <<34, "Msg", Bytes>>>>
ContractCodeHistoryEntry_Size == <<
  <<"Operation", Enum>>, <<"CodeID", Uint>>, <<"Updated", Ptr("AbsoluteTxPosition")>>,
  <<"Msg", Bytes>>>>
ContractCodeHistoryEntry_Unmarshal == <<
  <<1, "Operation", Enum>>, <<2, "CodeID", Uint>>, <<3, "Updated", Ptr("AbsoluteTxPosition")>>,
  <<4, "Msg", Bytes>>>>

AbsoluteTxPosition_Marshal == <<<<8, "BlockHeight", Uint>>, <<16, "TxIndex", Uint>>>>
AbsoluteTxPosition_Size == <<<<"BlockHeight", Uint>>, <<"TxIndex", Uint>>>>
AbsoluteTxPosition_Unmarshal == <<<<1, "BlockHeight", Uint>>, <<2, "TxIndex", Uint>>>>

Model_Marshal == <<<<10, "Key", Bytes>>, <<18, "Value", Bytes>>>>
Model_Size == <<<<"Key", Bytes>>, <<"Value", Bytes>>>>
Model_Unmarshal == <<<<1, "Key", Bytes>>, <<2, "Value", Bytes>>>>

StateWireEncoders == [
  StoreCodeAuthorization |-> StoreCodeAuthorization_Marshal,
  ContractExecutionAuthorization |-> ContractExecutionAuthorization_Marshal,
  ContractMigrationAuthorization |-> ContractMigrationAuthorization_Marshal,
  CodeGrant |-> CodeGrant_Marshal, ContractGrant |-> ContractGrant_Marshal,
  MaxCallsLimit |-> MaxCallsLimit_Marshal, MaxFundsLimit |-> MaxFundsLimit_Marshal,
  CombinedLimit |-> CombinedLimit_Marshal,
  AllowAllMessagesFilter |-> AllowAllMessagesFilter_Marshal,
  AcceptedMessageKeysFilter |-> AcceptedMessageKeysFilter_Marshal,
  AcceptedMessagesFilter |-> AcceptedMessagesFilter_Marshal, GenesisState |-> GenesisState_Marshal,
  Code |-> Code_Marshal, Contract |-> Contract_Marshal, Sequence |-> Sequence_Marshal,
  MsgIBCSend |-> MsgIBCSend_Marshal, MsgIBCSendResponse |-> MsgIBCSendResponse_Marshal,
  MsgIBCWriteAcknowledgementResponse |-> MsgIBCWriteAcknowledgementResponse_Marshal,
  MsgIBCCloseChannel |-> MsgIBCCloseChannel_Marshal, AccessTypeParam |-> AccessTypeParam_Marshal,
  AccessConfig |-> AccessConfig_Marshal, Params |-> Params_Marshal, CodeInfo |-> CodeInfo_Marshal,
  ContractInfo |-> ContractInfo_Marshal,
  ContractCodeHistoryEntry |-> ContractCodeHistoryEntry_Marshal,
  AbsoluteTxPosition |-> AbsoluteTxPosition_Marshal, Model |-> Model_Marshal]

StateWireSizers == [
  StoreCodeAuthorization |-> StoreCodeAuthorization_Size,
  ContractExecutionAuthorization |-> ContractExecutionAuthorization_Size,
  ContractMigrationAuthorization |-> ContractMigrationAuthorization_Size,
  CodeGrant |-> CodeGrant_Size, ContractGrant |-> ContractGrant_Size,
  MaxCallsLimit |-> MaxCallsLimit_Size, MaxFundsLimit |-> MaxFundsLimit_Size,
  CombinedLimit |-> CombinedLimit_Size, AllowAllMessagesFilter |-> AllowAllMessagesFilter_Size,
  AcceptedMessageKeysFilter |-> AcceptedMessageKeysFilter_Size,
  AcceptedMessagesFilter |-> AcceptedMessagesFilter_Size, GenesisState |-> GenesisState_Size,
  Code |-> Code_Size, Contract |-> Contract_Size, Sequence |-> Sequence_Size,
  MsgIBCSend |-> MsgIBCSend_Size, MsgIBCSendResponse |-> MsgIBCSendResponse_Size,
  MsgIBCWriteAcknowledgementResponse |-> MsgIBCWriteAcknowledgementResponse_Size,
  MsgIBCCloseChannel |-> MsgIBCCloseChannel_Size, AccessTypeParam |-> AccessTypeParam_Size,
  AccessConfig |-> AccessConfig_Size, Params |-> Params_Size, CodeInfo |-> CodeInfo_Size,
  ContractInfo |-> ContractInfo_Size, ContractCodeHistoryEntry |-> ContractCodeHistoryEntry_Size,
  AbsoluteTxPosition |-> AbsoluteTxPosition_Size, Model |-> Model_Size]

StateWireDecoders == [
  StoreCodeAuthorization |-> StoreCodeAuthorization_Unmarshal,
  ContractExecutionAuthorization |-> ContractExecutionAuthorization_Unmarshal,
  ContractMigrationAuthorization |-> ContractMigrationAuthorization_Unmarshal,
  CodeGrant |-> CodeGrant_Unmarshal, ContractGrant |-> ContractGrant_Unmarshal,
  MaxCallsLimit |-> MaxCallsLimit_Unmarshal, MaxFundsLimit |-> MaxFundsLimit_Unmarshal,
  CombinedLimit |-> CombinedLimit_Unmarshal,
  AllowAllMessagesFilter |-> AllowAllMessagesFilter_Unmarshal,
  AcceptedMessageKeysFilter |-> AcceptedMessageKeysFilter_Unmarshal,
  AcceptedMessagesFilter |-> AcceptedMessagesFilter_Unmarshal,
  GenesisState |-> GenesisState_Unmarshal, Code |-> Code_Unmarshal, Contract |-> Contract_Unmarshal,
  Sequence |-> Sequence_Unmarshal, MsgIBCSend |-> MsgIBCSend_Unmarshal,
  MsgIBCSendResponse |-> MsgIBCSendResponse_Unmarshal,
  MsgIBCWriteAcknowledgementResponse |-> MsgIBCWriteAcknowledgementResponse_Unmarshal,
  MsgIBCCloseChannel |-> MsgIBCCloseChannel_Unmarshal,
  AccessTypeParam |-> AccessTypeParam_Unmarshal, AccessConfig |-> AccessConfig_Unmarshal,
  Params |-> Params_Unmarshal, CodeInfo |-> CodeInfo_Unmarshal,
  ContractInfo |-> ContractInfo_Unmarshal,
  ContractCodeHistoryEntry |-> ContractCodeHistoryEntry_Unmarshal,
  AbsoluteTxPosition |-> AbsoluteTxPosition_Unmarshal, Model |-> Model_Unmarshal]
=============================================================================

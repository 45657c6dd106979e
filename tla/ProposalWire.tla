---------------------------- MODULE ProposalWire ----------------------------
(*****************************************************************************)
(* The legacy proposals, which stay in the store of the gov module           *)
(* (proposal_legacy.pb.go).  For each message: what MarshalToSizedBuffer     *)
(* writes (tag, field, kind), what Size counts (field, kind), what           *)
(* Unmarshal reads (field number, field, kind).                              *)
(*****************************************************************************)
EXTENDS WireKinds

StoreCodeProposal_Marshal == <<
  <<10, "Title", Bytes>>, <<18, "Description", Bytes>>, <<26, "RunAs", Bytes>>,
  <<34, "WASMByteCode", Bytes>>, <<58, "InstantiatePermission", Ptr("AccessConfig")>>,
  <<64, "UnpinCode", Bool>>, <<74, "Source", Bytes>>, <<82, "Builder", Bytes>>,
  <<90, "CodeHash", Bytes>>>>
StoreCodeProposal_Size == <<
  <<"Title", Bytes>>, <<"Description", Bytes>>, <<"RunAs", Bytes>>, <<"WASMByteCode", Bytes>>,
  <<"InstantiatePermission", Ptr("AccessConfig")>>, <<"UnpinCode", Bool>>, <<"Source", Bytes>>,
  <<"Builder", Bytes>>, <<"CodeHash", Bytes>>>>
StoreCodeProposal_Unmarshal == <<
  <<1, "Title", Bytes>>, <<2, "Description", Bytes>>, <<3, "RunAs", Bytes>>,
  <<4, "WASMByteCode", Bytes>>, <<7, "InstantiatePermission", Ptr("AccessConfig")>>,
  <<8, "UnpinCode", Bool>>, <<9, "Source", Bytes>>, <<10, "Builder", Bytes>>,
  <<11, "CodeHash", Bytes>>>>

InstantiateContractProposal_Marshal == <<
  <<10, "Title", Bytes>>, <<18, "Description", Bytes>>, <<26, "RunAs", Bytes>>,
  <<34, "Admin", Bytes>>, <<40, "CodeID", Uint>>, <<50, "Label", Bytes>>, <<58, "Msg", Bytes>>,
  <<66, "Funds", Many("External")>>>>
InstantiateContractProposal_Size == <<
  <<"Title", Bytes>>, <<"Description", Bytes>>, <<"RunAs", Bytes>>, <<"Admin", Bytes>>,
  <<"CodeID", Uint>>, <<"Label", Bytes>>, <<"Msg", Bytes>>, <<"Funds", Many("External")>>>>
InstantiateContractProposal_Unmarshal == <<
  <<1, "Title", Bytes>>, <<2, "Description", Bytes>>, <<3, "RunAs", Bytes>>, <<4, "Admin", Bytes>>,
  <<5, "CodeID", Uint>>, <<6, "Label", Bytes>>, <<7, "Msg", Bytes>>,
  <<8, "Funds", Many("External")>>>>

InstantiateContract2Proposal_Marshal == <<
  <<10, "Title", Bytes>>, <<18, "Description", Bytes>>, <<26, "RunAs", Bytes>>,
  <<34, "Admin", Bytes>>, <<40, "CodeID", Uint>>, <<50, "Label", Bytes>>, <<58, "Msg", Bytes>>,
  <<66, "Funds", Many("External")>>, <<74, "Salt", Bytes>>, <<80, "FixMsg", Bool>>>>
InstantiateContract2Proposal_Size == <<
  <<"Title", Bytes>>, <<"Description", Bytes>>, <<"RunAs", Bytes>>, <<"Admin", Bytes>>,
  <<"CodeID", Uint>>, <<"Label", Bytes>>, <<"Msg", Bytes>>, <<"Funds", Many("External")>>,
  <<"Salt", Bytes>>, <<"FixMsg", Bool>>>>
InstantiateContract2Proposal_Unmarshal == <<
  <<1, "Title", Bytes>>, <<2, "Description", Bytes>>, <<3, "RunAs", Bytes>>, <<4, "Admin", Bytes>>,
  <<5, "CodeID", Uint>>, <<6, "Label", Bytes>>, <<7, "Msg", Bytes>>,
  <<8, "Funds", Many("External")>>, <<9, "Salt", Bytes>>, <<10, "FixMsg", Bool>>>>

MigrateContractProposal_Marshal == <<
  <<10, "Title", Bytes>>, <<18, "Description", Bytes>>, <<34, "Contract", Bytes>>,
  <<40, "CodeID", Uint>>, <<50, "Msg", Bytes>>>>
MigrateContractProposal_Size == <<
  <<"Title", Bytes>>, <<"Description", Bytes>>, <<"Contract", Bytes>>, <<"CodeID", Uint>>,
  <<"Msg", Bytes>>>>
MigrateContractProposal_Unmarshal == <<
  <<1, "Title", Bytes>>, <<2, "Description", Bytes>>, <<4, "Contract", Bytes>>,
  <<5, "CodeID", Uint>>, <<6, "Msg", Bytes>>>>

SudoContractProposal_Marshal == <<
  <<10, "Title", Bytes>>, <<18, "Description", Bytes>>, <<26, "Contract", Bytes>>,
  <<34, "Msg", Bytes>>>>
SudoContractProposal_Size == <<
  <<"Title", Bytes>>, <<"Description", Bytes>>, <<"Contract", Bytes>>, <<"Msg", Bytes>>>>
SudoContractProposal_Unmarshal == <<
  <<1, "Title", Bytes>>, <<2, "Description", Bytes>>, <<3, "Contract", Bytes>>,
  <<4, "Msg", Bytes>>>>

ExecuteContractProposal_Marshal == <<
  <<10, "Title", Bytes>>, <<18, "Description", Bytes>>, <<26, "RunAs", Bytes>>,
  <<34, "Contract", Bytes>>, <<42, "Msg", Bytes>>, <<50, "Funds", Many("External")>>>>
ExecuteContractProposal_Size == <<
  <<"Title", Bytes>>, <<"Description", Bytes>>, <<"RunAs", Bytes>>, <<"Contract", Bytes>>,
  <<"Msg", Bytes>>, <<"Funds", Many("External")>>>>
ExecuteContractProposal_Unmarshal == <<
  <<1, "Title", Bytes>>, <<2, "Description", Bytes>>, <<3, "RunAs", Bytes>>,
  <<4, "Contract", Bytes>>, <<5, "Msg", Bytes>>, <<6, "Funds", Many("External")>>>>

UpdateAdminProposal_Marshal == <<
  <<10, "Title", Bytes>>, <<18, "Description", Bytes>>, <<26, "NewAdmin", Bytes>>,
  <<34, "Contract", Bytes>>>>
UpdateAdminProposal_Size == <<
  <<"Title", Bytes>>, <<"Description", Bytes>>, <<"NewAdmin", Bytes>>, <<"Contract", Bytes>>>>
UpdateAdminProposal_Unmarshal == <<
  <<1, "Title", Bytes>>, <<2, "Description", Bytes>>, <<3, "NewAdmin", Bytes>>,
  <<4, "Contract", Bytes>>>>

ClearAdminProposal_Marshal == <<
  <<10, "Title", Bytes>>, <<18, "Description", Bytes>>, <<26, "Contract", Bytes>>>>
ClearAdminProposal_Size == <<<<"Title", Bytes>>, <<"Description", Bytes>>, <<"Contract", Bytes>>>>
ClearAdminProposal_Unmarshal == <<
  <<1, "Title", Bytes>>, <<2, "Description", Bytes>>, <<3, "Contract", Bytes>>>>

PinCodesProposal_Marshal == <<
  <<10, "Title", Bytes>>, <<18, "Description", Bytes>>, <<26, "CodeIDs", Packed>>>>
PinCodesProposal_Size == <<<<"Title", Bytes>>, <<"Description", Bytes>>, <<"CodeIDs", Packed>>>>
PinCodesProposal_Unmarshal == <<
  <<1, "Title", Bytes>>, <<2, "Description", Bytes>>, <<3, "CodeIDs", Packed>>>>

UnpinCodesProposal_Marshal == <<
  <<10, "Title", Bytes>>, <<18, "Description", Bytes>>, <<26, "CodeIDs", Packed>>>>
UnpinCodesProposal_Size == <<<<"Title", Bytes>>, <<"Description", Bytes>>, <<"CodeIDs", Packed>>>>
UnpinCodesProposal_Unmarshal == <<
  <<1, "Title", Bytes>>, <<2, "Description", Bytes>>, <<3, "CodeIDs", Packed>>>>

SetGasLessContractsProposal_Marshal == <<
  <<10, "Title", Bytes>>, <<18, "Description", Bytes>>, <<26, "ContractAddresses", Strings>>>>
SetGasLessContractsProposal_Size == <<
  <<"Title", Bytes>>, <<"Description", Bytes>>, <<"ContractAddresses", Strings>>>>
SetGasLessContractsProposal_Unmarshal == <<
  <<1, "Title", Bytes>>, <<2, "Description", Bytes>>, <<3, "ContractAddresses", Strings>>>>

UnsetGasLessContractsProposal_Marshal == <<
  <<10, "Title", Bytes>>, <<18, "Description", Bytes>>, <<26, "ContractAddresses", Strings>>>>
UnsetGasLessContractsProposal_Size == <<
  <<"Title", Bytes>>, <<"Description", Bytes>>, <<"ContractAddresses", Strings>>>>
UnsetGasLessContractsProposal_Unmarshal == <<
  <<1, "Title", Bytes>>, <<2, "Description", Bytes>>, <<3, "ContractAddresses", Strings>>>>

AccessConfigUpdate_Marshal == <<
  <<8, "CodeID", Uint>>, <<18, "InstantiatePermission", Val("AccessConfig")>>>>
AccessConfigUpdate_Size == <<<<"CodeID", Uint>>, <<"InstantiatePermission", Val("AccessConfig")>>>>
AccessConfigUpdate_Unmarshal == <<
  <<1, "CodeID", Uint>>, <<2, "InstantiatePermission", Val("AccessConfig")>>>>

UpdateInstantiateConfigProposal_Marshal == <<
  <<10, "Title", Bytes>>, <<18, "Description", Bytes>>,
  <<26, "AccessConfigUpdates", Many("AccessConfigUpdate")>>>>
UpdateInstantiateConfigProposal_Size == <<
  <<"Title", Bytes>>, <<"Description", Bytes>>,
  <<"AccessConfigUpdates", Many("AccessConfigUpdate")>>>>
UpdateInstantiateConfigProposal_Unmarshal == <<
  <<1, "Title", Bytes>>, <<2, "Description", Bytes>>,
  <<3, "AccessConfigUpdates", Many("AccessConfigUpdate")>>>>

StoreAndInstantiateContractProposal_Marshal == <<
  <<10, "Title", Bytes>>, <<18, "Description", Bytes>>, <<26, "RunAs", Bytes>>,
  <<34, "WASMByteCode", Bytes>>, <<42, "InstantiatePermission", Ptr("AccessConfig")>>,
  <<48, "UnpinCode", Bool>>, <<58, "Admin", Bytes>>, <<66, "Label", Bytes>>, <<74, "Msg", Bytes>>,
  <<82, "Funds", Many("External")>>, <<90, "Source", Bytes>>, <<98, "Builder", Bytes>>,
  <<106, "CodeHash", Bytes>>>>
StoreAndInstantiateContractProposal_Size == <<
  <<"Title", Bytes>>, <<"Description", Bytes>>, <<"RunAs", Bytes>>, <<"WASMByteCode", Bytes>>,
  <<"InstantiatePermission", Ptr("AccessConfig")>>, <<"UnpinCode", Bool>>, <<"Admin", Bytes>>,
  <<"Label", Bytes>>, <<"Msg", Bytes>>, <<"Funds", Many("External")>>, <<"Source", Bytes>>,
  <<"Builder", Bytes>>, <<"CodeHash", Bytes>>>>
StoreAndInstantiateContractProposal_Unmarshal == <<
  <<1, "Title", Bytes>>, <<2, "Description", Bytes>>, <<3, "RunAs", Bytes>>,
  <<4, "WASMByteCode", Bytes>>, <<5, "InstantiatePermission", Ptr("AccessConfig")>>,
  <<6, "UnpinCode", Bool>>, <<7, "Admin", Bytes>>, <<8, "Label", Bytes>>, <<9, "Msg", Bytes>>,
  <<10, "Funds", Many("External")>>, <<11, "Source", Bytes>>, <<12, "Builder", Bytes>>,
  <<13, "CodeHash", Bytes>>>>

ProposalWireEncoders == [
  StoreCodeProposal |-> StoreCodeProposal_Marshal,
  InstantiateContractProposal |-> InstantiateContractProposal_Marshal,
  InstantiateContract2Proposal |-> InstantiateContract2Proposal_Marshal,
  MigrateContractProposal |-> MigrateContractProposal_Marshal,
  SudoContractProposal |-> SudoContractProposal_Marshal,
  ExecuteContractProposal |-> ExecuteContractProposal_Marshal,
  UpdateAdminProposal |-> UpdateAdminProposal_Marshal,
  ClearAdminProposal |-> ClearAdminProposal_Marshal, PinCodesProposal |-> PinCodesProposal_Marshal,
  UnpinCodesProposal |-> UnpinCodesProposal_Marshal,
  SetGasLessContractsProposal |-> SetGasLessContractsProposal_Marshal,
  UnsetGasLessContractsProposal |-> UnsetGasLessContractsProposal_Marshal,
  AccessConfigUpdate |-> AccessConfigUpdate_Marshal,
  UpdateInstantiateConfigProposal |-> UpdateInstantiateConfigProposal_Marshal,
  StoreAndInstantiateContractProposal |-> StoreAndInstantiateContractProposal_Marshal]

ProposalWireSizers == [
  StoreCodeProposal |-> StoreCodeProposal_Size,
  InstantiateContractProposal |-> InstantiateContractProposal_Size,
  InstantiateContract2Proposal |-> InstantiateContract2Proposal_Size,
  MigrateContractProposal |-> MigrateContractProposal_Size,
  SudoContractProposal |-> SudoContractProposal_Size,
  ExecuteContractProposal |-> ExecuteContractProposal_Size,
  UpdateAdminProposal |-> UpdateAdminProposal_Size, ClearAdminProposal |-> ClearAdminProposal_Size,
  PinCodesProposal |-> PinCodesProposal_Size, UnpinCodesProposal |-> UnpinCodesProposal_Size,
  SetGasLessContractsProposal |-> SetGasLessContractsProposal_Size,
  UnsetGasLessContractsProposal |-> UnsetGasLessContractsProposal_Size,
  AccessConfigUpdate |-> AccessConfigUpdate_Size,
  UpdateInstantiateConfigProposal |-> UpdateInstantiateConfigProposal_Size,
  StoreAndInstantiateContractProposal |-> StoreAndInstantiateContractProposal_Size]

ProposalWireDecoders == [
  StoreCodeProposal |-> StoreCodeProposal_Unmarshal,
  InstantiateContractProposal |-> InstantiateContractProposal_Unmarshal,
  InstantiateContract2Proposal |-> InstantiateContract2Proposal_Unmarshal,
  MigrateContractProposal |-> MigrateContractProposal_Unmarshal,
  SudoContractProposal |-> SudoContractProposal_Unmarshal,
  ExecuteContractProposal |-> ExecuteContractProposal_Unmarshal,
  UpdateAdminProposal |-> UpdateAdminProposal_Unmarshal,
  ClearAdminProposal |-> ClearAdminProposal_Unmarshal,
  PinCodesProposal |-> PinCodesProposal_Unmarshal,
  UnpinCodesProposal |-> UnpinCodesProposal_Unmarshal,
  SetGasLessContractsProposal |-> SetGasLessContractsProposal_Unmarshal,
  UnsetGasLessContractsProposal |-> UnsetGasLessContractsProposal_Unmarshal,
  AccessConfigUpdate |-> AccessConfigUpdate_Unmarshal,
  UpdateInstantiateConfigProposal |-> UpdateInstantiateConfigProposal_Unmarshal,
  StoreAndInstantiateContractProposal |-> StoreAndInstantiateContractProposal_Unmarshal]
=============================================================================

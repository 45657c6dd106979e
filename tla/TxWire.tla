---------------------------- MODULE TxWire ----------------------------
(*****************************************************************************)
(* The messages of the wasm msg server (tx.pb.go).  For each message: what   *)
(* MarshalToSizedBuffer writes (tag, field, kind), what Size counts          *)
(* (field, kind), what Unmarshal reads (field number, field, kind).          *)
(*****************************************************************************)
EXTENDS WireKinds

MsgStoreCode_Marshal == <<
  <<10, "Sender", Bytes>>, <<18, "WASMByteCode", Bytes>>,
  <<42, "InstantiatePermission", Ptr("AccessConfig")>>>>
MsgStoreCode_Size == <<
  <<"Sender", Bytes>>, <<"WASMByteCode", Bytes>>, <<"InstantiatePermission", Ptr("AccessConfig")>>>>
MsgStoreCode_Unmarshal == <<
  <<1, "Sender", Bytes>>, <<2, "WASMByteCode", Bytes>>,
  <<5, "InstantiatePermission", Ptr("AccessConfig")>>>>

MsgStoreCodeResponse_Marshal == <<<<8, "CodeID", Uint>>, <<18, "Checksum", Bytes>>>>
MsgStoreCodeResponse_Size == <<<<"CodeID", Uint>>, <<"Checksum", Bytes>>>>
MsgStoreCodeResponse_Unmarshal == <<<<1, "CodeID", Uint>>, <<2, "Checksum", Bytes>>>>

MsgInstantiateContract_Marshal == <<
  <<10, "Sender", Bytes>>, <<18, "Admin", Bytes>>, <<24, "CodeID", Uint>>, <<34, "Label", Bytes>>,
  <<42, "Msg", Bytes>>, <<50, "Funds", Many("External")>>>>
MsgInstantiateContract_Size == <<
  <<"Sender", Bytes>>, <<"Admin", Bytes>>, <<"CodeID", Uint>>, <<"Label", Bytes>>, <<"Msg", Bytes>>,
  <<"Funds", Many("External")>>>>
MsgInstantiateContract_Unmarshal == <<
  <<1, "Sender", Bytes>>, <<2, "Admin", Bytes>>, <<3, "CodeID", Uint>>, <<4, "Label", Bytes>>,
  <<5, "Msg", Bytes>>, <<6, "Funds", Many("External")>>>>

MsgInstantiateContractResponse_Marshal == <<<<10, "Address", Bytes>>, <<18, "Data", Bytes>>>>
MsgInstantiateContractResponse_Size == <<<<"Address", Bytes>>, <<"Data", Bytes>>>>
MsgInstantiateContractResponse_Unmarshal == <<<<1, "Address", Bytes>>, <<2, "Data", Bytes>>>>

MsgInstantiateContract2_Marshal == <<
  <<10, "Sender", Bytes>>, <<18, "Admin", Bytes>>, <<24, "CodeID", Uint>>, <<34, "Label", Bytes>>,
  <<42, "Msg", Bytes>>, <<50, "Funds", Many("External")>>, <<58, "Salt", Bytes>>,
  <<64, "FixMsg", Bool>>>>
MsgInstantiateContract2_Size == <<
  <<"Sender", Bytes>>, <<"Admin", Bytes>>, <<"CodeID", Uint>>, <<"Label", Bytes>>, <<"Msg", Bytes>>,
  <<"Funds", Many("External")>>, <<"Salt", Bytes>>, <<"FixMsg", Bool>>>>
MsgInstantiateContract2_Unmarshal == <<
  <<1, "Sender", Bytes>>, <<2, "Admin", Bytes>>, <<3, "CodeID", Uint>>, <<4, "Label", Bytes>>,
  <<5, "Msg", Bytes>>, <<6, "Funds", Many("External")>>, <<7, "Salt", Bytes>>,
  <<8, "FixMsg", Bool>>>>

MsgInstantiateContract2Response_Marshal == <<<<10, "Address", Bytes>>, <<18, "Data", Bytes>>>>
MsgInstantiateContract2Response_Size == <<<<"Address", Bytes>>, <<"Data", Bytes>>>>
MsgInstantiateContract2Response_Unmarshal == <<<<1, "Address", Bytes>>, <<2, "Data", Bytes>>>>

MsgExecuteContract_Marshal == <<
  <<10, "Sender", Bytes>>, <<18, "Contract", Bytes>>, <<26, "Msg", Bytes>>,
  <<42, "Funds", Many("External")>>>>
MsgExecuteContract_Size == <<
  <<"Sender", Bytes>>, <<"Contract", Bytes>>, <<"Msg", Bytes>>, <<"Funds", Many("External")>>>>
MsgExecuteContract_Unmarshal == <<
  <<1, "Sender", Bytes>>, <<2, "Contract", Bytes>>, <<3, "Msg", Bytes>>,
  <<5, "Funds", Many("External")>>>>

MsgExecuteContractResponse_Marshal == <<<<10, "Data", Bytes>>>>
MsgExecuteContractResponse_Size == <<<<"Data", Bytes>>>>
MsgExecuteContractResponse_Unmarshal == <<<<1, "Data", Bytes>>>>

MsgMigrateContract_Marshal == <<
  <<10, "Sender", Bytes>>, <<18, "Contract", Bytes>>, <<24, "CodeID", Uint>>, <<34, "Msg", Bytes>>>>
MsgMigrateContract_Size == <<
  <<"Sender", Bytes>>, <<"Contract", Bytes>>, <<"CodeID", Uint>>, <<"Msg", Bytes>>>>
MsgMigrateContract_Unmarshal == <<
  <<1, "Sender", Bytes>>, <<2, "Contract", Bytes>>, <<3, "CodeID", Uint>>, <<4, "Msg", Bytes>>>>

MsgMigrateContractResponse_Marshal == <<<<10, "Data", Bytes>>>>
MsgMigrateContractResponse_Size == <<<<"Data", Bytes>>>>
MsgMigrateContractResponse_Unmarshal == <<<<1, "Data", Bytes>>>>

MsgUpdateAdmin_Marshal == <<
  <<10, "Sender", Bytes>>, <<18, "NewAdmin", Bytes>>, <<26, "Contract", Bytes>>>>
MsgUpdateAdmin_Size == <<<<"Sender", Bytes>>, <<"NewAdmin", Bytes>>, <<"Contract", Bytes>>>>
MsgUpdateAdmin_Unmarshal == <<
  <<1, "Sender", Bytes>>, <<2, "NewAdmin", Bytes>>, <<3, "Contract", Bytes>>>>

MsgUpdateAdminResponse_Marshal == <<>>
MsgUpdateAdminResponse_Size == <<>>
MsgUpdateAdminResponse_Unmarshal == <<>>

MsgClearAdmin_Marshal == <<<<10, "Sender", Bytes>>, <<26, "Contract", Bytes>>>>
MsgClearAdmin_Size == <<<<"Sender", Bytes>>, <<"Contract", Bytes>>>>
MsgClearAdmin_Unmarshal == <<<<1, "Sender", Bytes>>, <<3, "Contract", Bytes>>>>

MsgClearAdminResponse_Marshal == <<>>
MsgClearAdminResponse_Size == <<>>
MsgClearAdminResponse_Unmarshal == <<>>

MsgUpdateInstantiateConfig_Marshal == <<
  <<10, "Sender", Bytes>>, <<16, "CodeID", Uint>>,
  <<26, "NewInstantiatePermission", Ptr("AccessConfig")>>>>
MsgUpdateInstantiateConfig_Size == <<
  <<"Sender", Bytes>>, <<"CodeID", Uint>>, <<"NewInstantiatePermission", Ptr("AccessConfig")>>>>
MsgUpdateInstantiateConfig_Unmarshal == <<
  <<1, "Sender", Bytes>>, <<2, "CodeID", Uint>>,
  <<3, "NewInstantiatePermission", Ptr("AccessConfig")>>>>

MsgUpdateInstantiateConfigResponse_Marshal == <<>>
MsgUpdateInstantiateConfigResponse_Size == <<>>
MsgUpdateInstantiateConfigResponse_Unmarshal == <<>>

MsgUpdateParams_Marshal == <<<<10, "Authority", Bytes>>, <<18, "Params", Val("Params")>>>>
MsgUpdateParams_Size == <<<<"Authority", Bytes>>, <<"Params", Val("Params")>>>>
MsgUpdateParams_Unmarshal == <<<<1, "Authority", Bytes>>, <<2, "Params", Val("Params")>>>>

MsgUpdateParamsResponse_Marshal == <<>>
MsgUpdateParamsResponse_Size == <<>>
MsgUpdateParamsResponse_Unmarshal == <<>>

MsgSudoContract_Marshal == <<
  <<10, "Authority", Bytes>>, <<18, "Contract", Bytes>>, <<26, "Msg", Bytes>>>>
MsgSudoContract_Size == <<<<"Authority", Bytes>>, <<"Contract", Bytes>>, <<"Msg", Bytes>>>>
MsgSudoContract_Unmarshal == <<
  <<1, "Authority", Bytes>>, <<2, "Contract", Bytes>>, <<3, "Msg", Bytes>>>>

MsgSudoContractResponse_Marshal == <<<<10, "Data", Bytes>>>>
MsgSudoContractResponse_Size == <<<<"Data", Bytes>>>>
MsgSudoContractResponse_Unmarshal == <<<<1, "Data", Bytes>>>>

MsgPinCodes_Marshal == <<<<10, "Authority", Bytes>>, <<18, "CodeIDs", Packed>>>>
MsgPinCodes_Size == <<<<"Authority", Bytes>>, <<"CodeIDs", Packed>>>>
MsgPinCodes_Unmarshal == <<<<1, "Authority", Bytes>>, <<2, "CodeIDs", Packed>>>>

MsgPinCodesResponse_Marshal == <<>>
MsgPinCodesResponse_Size == <<>>
MsgPinCodesResponse_Unmarshal == <<>>

MsgUnpinCodes_Marshal == <<<<10, "Authority", Bytes>>, <<18, "CodeIDs", Packed>>>>
MsgUnpinCodes_Size == <<<<"Authority", Bytes>>, <<"CodeIDs", Packed>>>>
MsgUnpinCodes_Unmarshal == <<<<1, "Authority", Bytes>>, <<2, "CodeIDs", Packed>>>>

MsgUnpinCodesResponse_Marshal == <<>>
MsgUnpinCodesResponse_Size == <<>>
MsgUnpinCodesResponse_Unmarshal == <<>>

MsgStoreAndInstantiateContract_Marshal == <<
  <<10, "Authority", Bytes>>, <<26, "WASMByteCode", Bytes>>,
  <<34, "InstantiatePermission", Ptr("AccessConfig")>>, <<40, "UnpinCode", Bool>>,
  <<50, "Admin", Bytes>>, <<58, "Label", Bytes>>, <<66, "Msg", Bytes>>,
  <<74, "Funds", Many("External")>>, <<82, "Source", Bytes>>, <<90, "Builder", Bytes>>,
  <<98, "CodeHash", Bytes>>>>
MsgStoreAndInstantiateContract_Size == <<
  <<"Authority", Bytes>>, <<"WASMByteCode", Bytes>>,
  <<"InstantiatePermission", Ptr("AccessConfig")>>, <<"UnpinCode", Bool>>, <<"Admin", Bytes>>,
  <<"Label", Bytes>>, <<"Msg", Bytes>>, <<"Funds", Many("External")>>, <<"Source", Bytes>>,
  <<"Builder", Bytes>>, <<"CodeHash", Bytes>>>>
MsgStoreAndInstantiateContract_Unmarshal == <<
  <<1, "Authority", Bytes>>, <<3, "WASMByteCode", Bytes>>,
  <<4, "InstantiatePermission", Ptr("AccessConfig")>>, <<5, "UnpinCode", Bool>>,
  <<6, "Admin", Bytes>>, <<7, "Label", Bytes>>, <<8, "Msg", Bytes>>,
  <<9, "Funds", Many("External")>>, <<10, "Source", Bytes>>, <<11, "Builder", Bytes>>,
  <<12, "CodeHash", Bytes>>>>

MsgStoreAndInstantiateContractResponse_Marshal == <<
  <<10, "Address", Bytes>>, <<18, "Data", Bytes>>>>
MsgStoreAndInstantiateContractResponse_Size == <<<<"Address", Bytes>>, <<"Data", Bytes>>>>
MsgStoreAndInstantiateContractResponse_Unmarshal == <<
  <<1, "Address", Bytes>>, <<2, "Data", Bytes>>>>

MsgAddCodeUploadParamsAddresses_Marshal == <<
  <<10, "Authority", Bytes>>, <<18, "Addresses", Strings>>>>
MsgAddCodeUploadParamsAddresses_Size == <<<<"Authority", Bytes>>, <<"Addresses", Strings>>>>
MsgAddCodeUploadParamsAddresses_Unmarshal == <<
  <<1, "Authority", Bytes>>, <<2, "Addresses", Strings>>>>

MsgAddCodeUploadParamsAddressesResponse_Marshal == <<>>
MsgAddCodeUploadParamsAddressesResponse_Size == <<>>
MsgAddCodeUploadParamsAddressesResponse_Unmarshal == <<>>

MsgRemoveCodeUploadParamsAddresses_Marshal == <<
  <<10, "Authority", Bytes>>, <<18, "Addresses", Strings>>>>
MsgRemoveCodeUploadParamsAddresses_Size == <<<<"Authority", Bytes>>, <<"Addresses", Strings>>>>
MsgRemoveCodeUploadParamsAddresses_Unmarshal == <<
  <<1, "Authority", Bytes>>, <<2, "Addresses", Strings>>>>

MsgRemoveCodeUploadParamsAddressesResponse_Marshal == <<>>
MsgRemoveCodeUploadParamsAddressesResponse_Size == <<>>
MsgRemoveCodeUploadParamsAddressesResponse_Unmarshal == <<>>

MsgStoreAndMigrateContract_Marshal == <<
  <<10, "Authority", Bytes>>, <<18, "WASMByteCode", Bytes>>,
  <<26, "InstantiatePermission", Ptr("AccessConfig")>>, <<34, "Contract", Bytes>>,
  <<42, "Msg", Bytes>>>>
MsgStoreAndMigrateContract_Size == <<
  <<"Authority", Bytes>>, <<"WASMByteCode", Bytes>>,
  <<"InstantiatePermission", Ptr("AccessConfig")>>, <<"Contract", Bytes>>, <<"Msg", Bytes>>>>
MsgStoreAndMigrateContract_Unmarshal == <<
  <<1, "Authority", Bytes>>, <<2, "WASMByteCode", Bytes>>,
  <<3, "InstantiatePermission", Ptr("AccessConfig")>>, <<4, "Contract", Bytes>>,
  <<5, "Msg", Bytes>>>>

MsgStoreAndMigrateContractResponse_Marshal == <<
  <<8, "CodeID", Uint>>, <<18, "Checksum", Bytes>>, <<26, "Data", Bytes>>>>
MsgStoreAndMigrateContractResponse_Size == <<
  <<"CodeID", Uint>>, <<"Checksum", Bytes>>, <<"Data", Bytes>>>>
MsgStoreAndMigrateContractResponse_Unmarshal == <<
  <<1, "CodeID", Uint>>, <<2, "Checksum", Bytes>>, <<3, "Data", Bytes>>>>

MsgUpdateContractLabel_Marshal == <<
  <<10, "Sender", Bytes>>, <<18, "NewLabel", Bytes>>, <<26, "Contract", Bytes>>>>
MsgUpdateContractLabel_Size == <<<<"Sender", Bytes>>, <<"NewLabel", Bytes>>, <<"Contract", Bytes>>>>
MsgUpdateContractLabel_Unmarshal == <<
  <<1, "Sender", Bytes>>, <<2, "NewLabel", Bytes>>, <<3, "Contract", Bytes>>>>

MsgUpdateContractLabelResponse_Marshal == <<>>
MsgUpdateContractLabelResponse_Size == <<>>
MsgUpdateContractLabelResponse_Unmarshal == <<>>

MsgSetGaslessContracts_Marshal == <<<<10, "Authority", Bytes>>, <<18, "Contracts", Strings>>>>
MsgSetGaslessContracts_Size == <<<<"Authority", Bytes>>, <<"Contracts", Strings>>>>
MsgSetGaslessContracts_Unmarshal == <<<<1, "Authority", Bytes>>, <<2, "Contracts", Strings>>>>

MsgSetGaslessContractsResponse_Marshal == <<>>
MsgSetGaslessContractsResponse_Size == <<>>
MsgSetGaslessContractsResponse_Unmarshal == <<>>

TxWireEncoders == [
  MsgStoreCode |-> MsgStoreCode_Marshal, MsgStoreCodeResponse |-> MsgStoreCodeResponse_Marshal,
  MsgInstantiateContract |-> MsgInstantiateContract_Marshal,
  MsgInstantiateContractResponse |-> MsgInstantiateContractResponse_Marshal,
  MsgInstantiateContract2 |-> MsgInstantiateContract2_Marshal,
  MsgInstantiateContract2Response |-> MsgInstantiateContract2Response_Marshal,
  MsgExecuteContract |-> MsgExecuteContract_Marshal,
  MsgExecuteContractResponse |-> MsgExecuteContractResponse_Marshal,
  MsgMigrateContract |-> MsgMigrateContract_Marshal,
  MsgMigrateContractResponse |-> MsgMigrateContractResponse_Marshal,
  MsgUpdateAdmin |-> MsgUpdateAdmin_Marshal,
  MsgUpdateAdminResponse |-> MsgUpdateAdminResponse_Marshal,
  MsgClearAdmin |-> MsgClearAdmin_Marshal, MsgClearAdminResponse |-> MsgClearAdminResponse_Marshal,
  MsgUpdateInstantiateConfig |-> MsgUpdateInstantiateConfig_Marshal,
  MsgUpdateInstantiateConfigResponse |-> MsgUpdateInstantiateConfigResponse_Marshal,
  MsgUpdateParams |-> MsgUpdateParams_Marshal,
  MsgUpdateParamsResponse |-> MsgUpdateParamsResponse_Marshal,
  MsgSudoContract |-> MsgSudoContract_Marshal,
  MsgSudoContractResponse |-> MsgSudoContractResponse_Marshal, MsgPinCodes |-> MsgPinCodes_Marshal,
  MsgPinCodesResponse |-> MsgPinCodesResponse_Marshal, MsgUnpinCodes |-> MsgUnpinCodes_Marshal,
  MsgUnpinCodesResponse |-> MsgUnpinCodesResponse_Marshal,
  MsgStoreAndInstantiateContract |-> MsgStoreAndInstantiateContract_Marshal,
  MsgStoreAndInstantiateContractResponse |-> MsgStoreAndInstantiateContractResponse_Marshal,
  MsgAddCodeUploadParamsAddresses |-> MsgAddCodeUploadParamsAddresses_Marshal,
  MsgAddCodeUploadParamsAddressesResponse |-> MsgAddCodeUploadParamsAddressesResponse_Marshal,
  MsgRemoveCodeUploadParamsAddresses |-> MsgRemoveCodeUploadParamsAddresses_Marshal,
  MsgRemoveCodeUploadParamsAddressesResponse |-> MsgRemoveCodeUploadParamsAddressesResponse_Marshal,
  MsgStoreAndMigrateContract |-> MsgStoreAndMigrateContract_Marshal,
  MsgStoreAndMigrateContractResponse |-> MsgStoreAndMigrateContractResponse_Marshal,
  MsgUpdateContractLabel |-> MsgUpdateContractLabel_Marshal,
  MsgUpdateContractLabelResponse |-> MsgUpdateContractLabelResponse_Marshal,
  MsgSetGaslessContracts |-> MsgSetGaslessContracts_Marshal,
  MsgSetGaslessContractsResponse |-> MsgSetGaslessContractsResponse_Marshal]

TxWireSizers == [
  MsgStoreCode |-> MsgStoreCode_Size, MsgStoreCodeResponse |-> MsgStoreCodeResponse_Size,
  MsgInstantiateContract |-> MsgInstantiateContract_Size,
  MsgInstantiateContractResponse |-> MsgInstantiateContractResponse_Size,
  MsgInstantiateContract2 |-> MsgInstantiateContract2_Size,
  MsgInstantiateContract2Response |-> MsgInstantiateContract2Response_Size,
  MsgExecuteContract |-> MsgExecuteContract_Size,
  MsgExecuteContractResponse |-> MsgExecuteContractResponse_Size,
  MsgMigrateContract |-> MsgMigrateContract_Size,
  MsgMigrateContractResponse |-> MsgMigrateContractResponse_Size,
  MsgUpdateAdmin |-> MsgUpdateAdmin_Size, MsgUpdateAdminResponse |-> MsgUpdateAdminResponse_Size,
  MsgClearAdmin |-> MsgClearAdmin_Size, MsgClearAdminResponse |-> MsgClearAdminResponse_Size,
  MsgUpdateInstantiateConfig |-> MsgUpdateInstantiateConfig_Size,
  MsgUpdateInstantiateConfigResponse |-> MsgUpdateInstantiateConfigResponse_Size,
  MsgUpdateParams |-> MsgUpdateParams_Size,
  MsgUpdateParamsResponse |-> MsgUpdateParamsResponse_Size,
  MsgSudoContract |-> MsgSudoContract_Size,
  MsgSudoContractResponse |-> MsgSudoContractResponse_Size, MsgPinCodes |-> MsgPinCodes_Size,
  MsgPinCodesResponse |-> MsgPinCodesResponse_Size, MsgUnpinCodes |-> MsgUnpinCodes_Size,
  MsgUnpinCodesResponse |-> MsgUnpinCodesResponse_Size,
  MsgStoreAndInstantiateContract |-> MsgStoreAndInstantiateContract_Size,
  MsgStoreAndInstantiateContractResponse |-> MsgStoreAndInstantiateContractResponse_Size,
  MsgAddCodeUploadParamsAddresses |-> MsgAddCodeUploadParamsAddresses_Size,
  MsgAddCodeUploadParamsAddressesResponse |-> MsgAddCodeUploadParamsAddressesResponse_Size,
  MsgRemoveCodeUploadParamsAddresses |-> MsgRemoveCodeUploadParamsAddresses_Size,
  MsgRemoveCodeUploadParamsAddressesResponse |-> MsgRemoveCodeUploadParamsAddressesResponse_Size,
  MsgStoreAndMigrateContract |-> MsgStoreAndMigrateContract_Size,
  MsgStoreAndMigrateContractResponse |-> MsgStoreAndMigrateContractResponse_Size,
  MsgUpdateContractLabel |-> MsgUpdateContractLabel_Size,
  MsgUpdateContractLabelResponse |-> MsgUpdateContractLabelResponse_Size,
  MsgSetGaslessContracts |-> MsgSetGaslessContracts_Size,
  MsgSetGaslessContractsResponse |-> MsgSetGaslessContractsResponse_Size]

TxWireDecoders == [
  MsgStoreCode |-> MsgStoreCode_Unmarshal, MsgStoreCodeResponse |-> MsgStoreCodeResponse_Unmarshal,
  MsgInstantiateContract |-> MsgInstantiateContract_Unmarshal,
  MsgInstantiateContractResponse |-> MsgInstantiateContractResponse_Unmarshal,
  MsgInstantiateContract2 |-> MsgInstantiateContract2_Unmarshal,
  MsgInstantiateContract2Response |-> MsgInstantiateContract2Response_Unmarshal,
  MsgExecuteContract |-> MsgExecuteContract_Unmarshal,
  MsgExecuteContractResponse |-> MsgExecuteContractResponse_Unmarshal,
  MsgMigrateContract |-> MsgMigrateContract_Unmarshal,
  MsgMigrateContractResponse |-> MsgMigrateContractResponse_Unmarshal,
  MsgUpdateAdmin |-> MsgUpdateAdmin_Unmarshal,
  MsgUpdateAdminResponse |-> MsgUpdateAdminResponse_Unmarshal,
  MsgClearAdmin |-> MsgClearAdmin_Unmarshal,
  MsgClearAdminResponse |-> MsgClearAdminResponse_Unmarshal,
  MsgUpdateInstantiateConfig |-> MsgUpdateInstantiateConfig_Unmarshal,
  MsgUpdateInstantiateConfigResponse |-> MsgUpdateInstantiateConfigResponse_Unmarshal,
  MsgUpdateParams |-> MsgUpdateParams_Unmarshal,
  MsgUpdateParamsResponse |-> MsgUpdateParamsResponse_Unmarshal,
  MsgSudoContract |-> MsgSudoContract_Unmarshal,
  MsgSudoContractResponse |-> MsgSudoContractResponse_Unmarshal,
  MsgPinCodes |-> MsgPinCodes_Unmarshal, MsgPinCodesResponse |-> MsgPinCodesResponse_Unmarshal,
  MsgUnpinCodes |-> MsgUnpinCodes_Unmarshal,
  MsgUnpinCodesResponse |-> MsgUnpinCodesResponse_Unmarshal,
  MsgStoreAndInstantiateContract |-> MsgStoreAndInstantiateContract_Unmarshal,
  MsgStoreAndInstantiateContractResponse |-> MsgStoreAndInstantiateContractResponse_Unmarshal,
  MsgAddCodeUploadParamsAddresses |-> MsgAddCodeUploadParamsAddresses_Unmarshal,
  MsgAddCodeUploadParamsAddressesResponse |-> MsgAddCodeUploadParamsAddressesResponse_Unmarshal,
  MsgRemoveCodeUploadParamsAddresses |-> MsgRemoveCodeUploadParamsAddresses_Unmarshal,
  MsgRemoveCodeUploadParamsAddressesResponse |-> MsgRemoveCodeUploadParamsAddressesResponse_Unmarshal,
  MsgStoreAndMigrateContract |-> MsgStoreAndMigrateContract_Unmarshal,
  MsgStoreAndMigrateContractResponse |-> MsgStoreAndMigrateContractResponse_Unmarshal,
  MsgUpdateContractLabel |-> MsgUpdateContractLabel_Unmarshal,
  MsgUpdateContractLabelResponse |-> MsgUpdateContractLabelResponse_Unmarshal,
  MsgSetGaslessContracts |-> MsgSetGaslessContracts_Unmarshal,
  MsgSetGaslessContractsResponse |-> MsgSetGaslessContractsResponse_Unmarshal]
=============================================================================

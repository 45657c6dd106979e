---------------------------- MODULE FactoryWire ----------------------------
(*****************************************************************************)
(* The messages of the token factory.  For each message: what                *)
(* MarshalToSizedBuffer writes (tag, field, kind), what Size counts          *)
(* (field, kind), what Unmarshal reads (field number, field, kind).          *)
(*****************************************************************************)
EXTENDS WireKinds

Factory_DenomAuthorityMetadata_Marshal == <<<<10, "Admin", Bytes>>>>
Factory_DenomAuthorityMetadata_Size == <<<<"Admin", Bytes>>>>
Factory_DenomAuthorityMetadata_Unmarshal == <<<<1, "Admin", Bytes>>>>

Factory_GenesisState_Marshal == <<
  <<10, "Params", Val("Factory_Params")>>, <<18, "FactoryDenoms", Many("Factory_GenesisDenom")>>>>
Factory_GenesisState_Size == <<
  <<"Params", Val("Factory_Params")>>, <<"FactoryDenoms", Many("Factory_GenesisDenom")>>>>
Factory_GenesisState_Unmarshal == <<
  <<1, "Params", Val("Factory_Params")>>, <<2, "FactoryDenoms", Many("Factory_GenesisDenom")>>>>

Factory_GenesisDenom_Marshal == <<
  <<10, "Denom", Bytes>>, <<18, "AuthorityMetadata", Val("Factory_DenomAuthorityMetadata")>>>>
Factory_GenesisDenom_Size == <<
  <<"Denom", Bytes>>, <<"AuthorityMetadata", Val("Factory_DenomAuthorityMetadata")>>>>
Factory_GenesisDenom_Unmarshal == <<
  <<1, "Denom", Bytes>>, <<2, "AuthorityMetadata", Val("Factory_DenomAuthorityMetadata")>>>>

Factory_Params_Marshal == <<
  <<10, "DenomCreationFee", Many("External")>>, <<16, "DenomCreationGasConsume", Uint>>>>
Factory_Params_Size == <<
  <<"DenomCreationFee", Many("External")>>, <<"DenomCreationGasConsume", Uint>>>>
Factory_Params_Unmarshal == <<
  <<1, "DenomCreationFee", Many("External")>>, <<2, "DenomCreationGasConsume", Uint>>>>

Factory_QueryParamsRequest_Marshal == <<>>
Factory_QueryParamsRequest_Size == <<>>
Factory_QueryParamsRequest_Unmarshal == <<>>

Factory_QueryParamsResponse_Marshal == <<<<10, "Params", Val("Factory_Params")>>>>
Factory_QueryParamsResponse_Size == <<<<"Params", Val("Factory_Params")>>>>
Factory_QueryParamsResponse_Unmarshal == <<<<1, "Params", Val("Factory_Params")>>>>

Factory_QueryDenomAuthorityMetadataRequest_Marshal == <<<<10, "Denom", Bytes>>>>
Factory_QueryDenomAuthorityMetadataRequest_Size == <<<<"Denom", Bytes>>>>
Factory_QueryDenomAuthorityMetadataRequest_Unmarshal == <<<<1, "Denom", Bytes>>>>

Factory_QueryDenomAuthorityMetadataResponse_Marshal == <<
  <<10, "AuthorityMetadata", Val("Factory_DenomAuthorityMetadata")>>>>
Factory_QueryDenomAuthorityMetadataResponse_Size == <<
  <<"AuthorityMetadata", Val("Factory_DenomAuthorityMetadata")>>>>
Factory_QueryDenomAuthorityMetadataResponse_Unmarshal == <<
  <<1, "AuthorityMetadata", Val("Factory_DenomAuthorityMetadata")>>>>

Factory_QueryDenomsFromCreatorRequest_Marshal == <<<<10, "Creator", Bytes>>>>
Factory_QueryDenomsFromCreatorRequest_Size == <<<<"Creator", Bytes>>>>
Factory_QueryDenomsFromCreatorRequest_Unmarshal == <<<<1, "Creator", Bytes>>>>

Factory_QueryDenomsFromCreatorResponse_Marshal == <<<<10, "Denoms", Strings>>>>
Factory_QueryDenomsFromCreatorResponse_Size == <<<<"Denoms", Strings>>>>
Factory_QueryDenomsFromCreatorResponse_Unmarshal == <<<<1, "Denoms", Strings>>>>

Factory_MsgCreateDenom_Marshal == <<<<10, "Sender", Bytes>>, <<18, "Subdenom", Bytes>>>>
Factory_MsgCreateDenom_Size == <<<<"Sender", Bytes>>, <<"Subdenom", Bytes>>>>
Factory_MsgCreateDenom_Unmarshal == <<<<1, "Sender", Bytes>>, <<2, "Subdenom", Bytes>>>>

Factory_MsgCreateDenomResponse_Marshal == <<<<10, "NewTokenDenom", Bytes>>>>
Factory_MsgCreateDenomResponse_Size == <<<<"NewTokenDenom", Bytes>>>>
Factory_MsgCreateDenomResponse_Unmarshal == <<<<1, "NewTokenDenom", Bytes>>>>

Factory_MsgMint_Marshal == <<
  <<10, "Sender", Bytes>>, <<18, "Amount", Val("External")>>, <<26, "MintToAddress", Bytes>>>>
Factory_MsgMint_Size == <<
  <<"Sender", Bytes>>, <<"Amount", Val("External")>>, <<"MintToAddress", Bytes>>>>
Factory_MsgMint_Unmarshal == <<
  <<1, "Sender", Bytes>>, <<2, "Amount", Val("External")>>, <<3, "MintToAddress", Bytes>>>>

Factory_MsgMintResponse_Marshal == <<>>
Factory_MsgMintResponse_Size == <<>>
Factory_MsgMintResponse_Unmarshal == <<>>

Factory_MsgBurn_Marshal == <<
  <<10, "Sender", Bytes>>, <<18, "Amount", Val("External")>>, <<26, "BurnFromAddress", Bytes>>>>
Factory_MsgBurn_Size == <<
  <<"Sender", Bytes>>, <<"Amount", Val("External")>>, <<"BurnFromAddress", Bytes>>>>
Factory_MsgBurn_Unmarshal == <<
  <<1, "Sender", Bytes>>, <<2, "Amount", Val("External")>>, <<3, "BurnFromAddress", Bytes>>>>

Factory_MsgBurnResponse_Marshal == <<>>
Factory_MsgBurnResponse_Size == <<>>
Factory_MsgBurnResponse_Unmarshal == <<>>

Factory_MsgChangeAdmin_Marshal == <<
  <<10, "Sender", Bytes>>, <<18, "Denom", Bytes>>, <<26, "NewAdmin", Bytes>>>>
Factory_MsgChangeAdmin_Size == <<<<"Sender", Bytes>>, <<"Denom", Bytes>>, <<"NewAdmin", Bytes>>>>
Factory_MsgChangeAdmin_Unmarshal == <<
  <<1, "Sender", Bytes>>, <<2, "Denom", Bytes>>, <<3, "NewAdmin", Bytes>>>>

Factory_MsgChangeAdminResponse_Marshal == <<>>
Factory_MsgChangeAdminResponse_Size == <<>>
Factory_MsgChangeAdminResponse_Unmarshal == <<>>

Factory_MsgSetDenomMetadata_Marshal == <<
  <<10, "Sender", Bytes>>, <<18, "Metadata", Val("External")>>>>
Factory_MsgSetDenomMetadata_Size == <<<<"Sender", Bytes>>, <<"Metadata", Val("External")>>>>
Factory_MsgSetDenomMetadata_Unmarshal == <<
  <<1, "Sender", Bytes>>, <<2, "Metadata", Val("External")>>>>

Factory_MsgSetDenomMetadataResponse_Marshal == <<>>
Factory_MsgSetDenomMetadataResponse_Size == <<>>
Factory_MsgSetDenomMetadataResponse_Unmarshal == <<>>

Factory_MsgForceTransfer_Marshal == <<
  <<10, "Sender", Bytes>>, <<18, "Amount", Val("External")>>, <<26, "TransferFromAddress", Bytes>>,
  <<34, "TransferToAddress", Bytes>>>>
Factory_MsgForceTransfer_Size == <<
  <<"Sender", Bytes>>, <<"Amount", Val("External")>>, <<"TransferFromAddress", Bytes>>,
  <<"TransferToAddress", Bytes>>>>
Factory_MsgForceTransfer_Unmarshal == <<
  <<1, "Sender", Bytes>>, <<2, "Amount", Val("External")>>, <<3, "TransferFromAddress", Bytes>>,
  <<4, "TransferToAddress", Bytes>>>>

Factory_MsgForceTransferResponse_Marshal == <<>>
Factory_MsgForceTransferResponse_Size == <<>>
Factory_MsgForceTransferResponse_Unmarshal == <<>>

FactoryWireEncoders == [
  Factory_DenomAuthorityMetadata |-> Factory_DenomAuthorityMetadata_Marshal,
  Factory_GenesisState |-> Factory_GenesisState_Marshal,
  Factory_GenesisDenom |-> Factory_GenesisDenom_Marshal, Factory_Params |-> Factory_Params_Marshal,
  Factory_QueryParamsRequest |-> Factory_QueryParamsRequest_Marshal,
  Factory_QueryParamsResponse |-> Factory_QueryParamsResponse_Marshal,
  Factory_QueryDenomAuthorityMetadataRequest |-> Factory_QueryDenomAuthorityMetadataRequest_Marshal,
  Factory_QueryDenomAuthorityMetadataResponse |-> Factory_QueryDenomAuthorityMetadataResponse_Marshal,
  Factory_QueryDenomsFromCreatorRequest |-> Factory_QueryDenomsFromCreatorRequest_Marshal,
  Factory_QueryDenomsFromCreatorResponse |-> Factory_QueryDenomsFromCreatorResponse_Marshal,
  Factory_MsgCreateDenom |-> Factory_MsgCreateDenom_Marshal,
  Factory_MsgCreateDenomResponse |-> Factory_MsgCreateDenomResponse_Marshal,
  Factory_MsgMint |-> Factory_MsgMint_Marshal,
  Factory_MsgMintResponse |-> Factory_MsgMintResponse_Marshal,
  Factory_MsgBurn |-> Factory_MsgBurn_Marshal,
  Factory_MsgBurnResponse |-> Factory_MsgBurnResponse_Marshal,
  Factory_MsgChangeAdmin |-> Factory_MsgChangeAdmin_Marshal,
  Factory_MsgChangeAdminResponse |-> Factory_MsgChangeAdminResponse_Marshal,
  Factory_MsgSetDenomMetadata |-> Factory_MsgSetDenomMetadata_Marshal,
  Factory_MsgSetDenomMetadataResponse |-> Factory_MsgSetDenomMetadataResponse_Marshal,
  Factory_MsgForceTransfer |-> Factory_MsgForceTransfer_Marshal,
  Factory_MsgForceTransferResponse |-> Factory_MsgForceTransferResponse_Marshal]

FactoryWireSizers == [
  Factory_DenomAuthorityMetadata |-> Factory_DenomAuthorityMetadata_Size,
  Factory_GenesisState |-> Factory_GenesisState_Size,
  Factory_GenesisDenom |-> Factory_GenesisDenom_Size, Factory_Params |-> Factory_Params_Size,
  Factory_QueryParamsRequest |-> Factory_QueryParamsRequest_Size,
  Factory_QueryParamsResponse |-> Factory_QueryParamsResponse_Size,
  Factory_QueryDenomAuthorityMetadataRequest |-> Factory_QueryDenomAuthorityMetadataRequest_Size,
  Factory_QueryDenomAuthorityMetadataResponse |-> Factory_QueryDenomAuthorityMetadataResponse_Size,
  Factory_QueryDenomsFromCreatorRequest |-> Factory_QueryDenomsFromCreatorRequest_Size,
  Factory_QueryDenomsFromCreatorResponse |-> Factory_QueryDenomsFromCreatorResponse_Size,
  Factory_MsgCreateDenom |-> Factory_MsgCreateDenom_Size,
  Factory_MsgCreateDenomResponse |-> Factory_MsgCreateDenomResponse_Size,
  Factory_MsgMint |-> Factory_MsgMint_Size,
  Factory_MsgMintResponse |-> Factory_MsgMintResponse_Size,
  Factory_MsgBurn |-> Factory_MsgBurn_Size,
  Factory_MsgBurnResponse |-> Factory_MsgBurnResponse_Size,
  Factory_MsgChangeAdmin |-> Factory_MsgChangeAdmin_Size,
  Factory_MsgChangeAdminResponse |-> Factory_MsgChangeAdminResponse_Size,
  Factory_MsgSetDenomMetadata |-> Factory_MsgSetDenomMetadata_Size,
  Factory_MsgSetDenomMetadataResponse |-> Factory_MsgSetDenomMetadataResponse_Size,
  Factory_MsgForceTransfer |-> Factory_MsgForceTransfer_Size,
  Factory_MsgForceTransferResponse |-> Factory_MsgForceTransferResponse_Size]

FactoryWireDecoders == [
  Factory_DenomAuthorityMetadata |-> Factory_DenomAuthorityMetadata_Unmarshal,
  Factory_GenesisState |-> Factory_GenesisState_Unmarshal,
  Factory_GenesisDenom |-> Factory_GenesisDenom_Unmarshal,
  Factory_Params |-> Factory_Params_Unmarshal,
  Factory_QueryParamsRequest |-> Factory_QueryParamsRequest_Unmarshal,
  Factory_QueryParamsResponse |-> Factory_QueryParamsResponse_Unmarshal,
  Factory_QueryDenomAuthorityMetadataRequest |-> Factory_QueryDenomAuthorityMetadataRequest_Unmarshal,
  Factory_QueryDenomAuthorityMetadataResponse |-> Factory_QueryDenomAuthorityMetadataResponse_Unmarshal,
  Factory_QueryDenomsFromCreatorRequest |-> Factory_QueryDenomsFromCreatorRequest_Unmarshal,
  Factory_QueryDenomsFromCreatorResponse |-> Factory_QueryDenomsFromCreatorResponse_Unmarshal,
  Factory_MsgCreateDenom |-> Factory_MsgCreateDenom_Unmarshal,
  Factory_MsgCreateDenomResponse |-> Factory_MsgCreateDenomResponse_Unmarshal,
  Factory_MsgMint |-> Factory_MsgMint_Unmarshal,
  Factory_MsgMintResponse |-> Factory_MsgMintResponse_Unmarshal,
  Factory_MsgBurn |-> Factory_MsgBurn_Unmarshal,
  Factory_MsgBurnResponse |-> Factory_MsgBurnResponse_Unmarshal,
  Factory_MsgChangeAdmin |-> Factory_MsgChangeAdmin_Unmarshal,
  Factory_MsgChangeAdminResponse |-> Factory_MsgChangeAdminResponse_Unmarshal,
  Factory_MsgSetDenomMetadata |-> Factory_MsgSetDenomMetadata_Unmarshal,
  Factory_MsgSetDenomMetadataResponse |-> Factory_MsgSetDenomMetadataResponse_Unmarshal,
  Factory_MsgForceTransfer |-> Factory_MsgForceTransfer_Unmarshal,
  Factory_MsgForceTransferResponse |-> Factory_MsgForceTransferResponse_Unmarshal]
=============================================================================

---------------------------- MODULE QueryWire ----------------------------
(*****************************************************************************)
(* The requests and responses of the wasm query server (query.pb.go).  For   *)
(* each message: what MarshalToSizedBuffer writes (tag, field, kind), what   *)
(* Size counts (field, kind), what Unmarshal reads (field number, field,     *)
(* kind).                                                                    *)
(*****************************************************************************)
EXTENDS WireKinds

QueryContractInfoRequest_Marshal == <<<<10, "Address", Bytes>>>>
QueryContractInfoRequest_Size == <<<<"Address", Bytes>>>>
QueryContractInfoRequest_Unmarshal == <<<<1, "Address", Bytes>>>>

QueryContractInfoResponse_Marshal == <<
  <<10, "Address", Bytes>>, <<18, "ContractInfo", Val("ContractInfo")>>>>
QueryContractInfoResponse_Size == <<<<"Address", Bytes>>, <<"ContractInfo", Val("ContractInfo")>>>>
QueryContractInfoResponse_Unmarshal == <<
  <<1, "Address", Bytes>>, <<2, "ContractInfo", Val("ContractInfo")>>>>

QueryContractHistoryRequest_Marshal == <<
  <<10, "Address", Bytes>>, <<18, "Pagination", Ptr("External")>>>>
QueryContractHistoryRequest_Size == <<<<"Address", Bytes>>, <<"Pagination", Ptr("External")>>>>
QueryContractHistoryRequest_Unmarshal == <<
  <<1, "Address", Bytes>>, <<2, "Pagination", Ptr("External")>>>>

QueryContractHistoryResponse_Marshal == <<
  <<10, "Entries", Many("ContractCodeHistoryEntry")>>, <<18, "Pagination", Ptr("External")>>>>
QueryContractHistoryResponse_Size == <<
  <<"Entries", Many("ContractCodeHistoryEntry")>>, <<"Pagination", Ptr("External")>>>>
QueryContractHistoryResponse_Unmarshal == <<
  <<1, "Entries", Many("ContractCodeHistoryEntry")>>, <<2, "Pagination", Ptr("External")>>>>

QueryContractsByCodeRequest_Marshal == <<
  <<8, "CodeId", Uint>>, <<18, "Pagination", Ptr("External")>>>>
QueryContractsByCodeRequest_Size == <<<<"CodeId", Uint>>, <<"Pagination", Ptr("External")>>>>
QueryContractsByCodeRequest_Unmarshal == <<
  <<1, "CodeId", Uint>>, <<2, "Pagination", Ptr("External")>>>>

QueryContractsByCodeResponse_Marshal == <<
  <<10, "Contracts", Strings>>, <<18, "Pagination", Ptr("External")>>>>
QueryContractsByCodeResponse_Size == <<<<"Contracts", Strings>>, <<"Pagination", Ptr("External")>>>>
QueryContractsByCodeResponse_Unmarshal == <<
  <<1, "Contracts", Strings>>, <<2, "Pagination", Ptr("External")>>>>

QueryAllContractStateRequest_Marshal == <<
  <<10, "Address", Bytes>>, <<18, "Pagination", Ptr("External")>>>>
QueryAllContractStateRequest_Size == <<<<"Address", Bytes>>, <<"Pagination", Ptr("External")>>>>
QueryAllContractStateRequest_Unmarshal == <<
  <<1, "Address", Bytes>>, <<2, "Pagination", Ptr("External")>>>>

QueryAllContractStateResponse_Marshal == <<
  <<10, "Models", Many("Model")>>, <<18, "Pagination", Ptr("External")>>>>
QueryAllContractStateResponse_Size == <<
  <<"Models", Many("Model")>>, <<"Pagination", Ptr("External")>>>>
QueryAllContractStateResponse_Unmarshal == <<
  <<1, "Models", Many("Model")>>, <<2, "Pagination", Ptr("External")>>>>

QueryRawContractStateRequest_Marshal == <<<<10, "Address", Bytes>>, <<18, "QueryData", Bytes>>>>
QueryRawContractStateRequest_Size == <<<<"Address", Bytes>>, <<"QueryData", Bytes>>>>
QueryRawContractStateRequest_Unmarshal == <<<<1, "Address", Bytes>>, <<2, "QueryData", Bytes>>>>

QueryRawContractStateResponse_Marshal == <<<<10, "Data", Bytes>>>>
QueryRawContractStateResponse_Size == <<<<"Data", Bytes>>>>
QueryRawContractStateResponse_Unmarshal == <<<<1, "Data", Bytes>>>>

QuerySmartContractStateRequest_Marshal == <<<<10, "Address", Bytes>>, <<18, "QueryData", Bytes>>>>
QuerySmartContractStateRequest_Size == <<<<"Address", Bytes>>, <<"QueryData", Bytes>>>>
QuerySmartContractStateRequest_Unmarshal == <<<<1, "Address", Bytes>>, <<2, "QueryData", Bytes>>>>

QuerySmartContractStateResponse_Marshal == <<<<10, "Data", Bytes>>>>
QuerySmartContractStateResponse_Size == <<<<"Data", Bytes>>>>
QuerySmartContractStateResponse_Unmarshal == <<<<1, "Data", Bytes>>>>

QueryCodeRequest_Marshal == <<<<8, "CodeId", Uint>>>>
QueryCodeRequest_Size == <<<<"CodeId", Uint>>>>
QueryCodeRequest_Unmarshal == <<<<1, "CodeId", Uint>>>>

QueryCodeInfoRequest_Marshal == <<<<8, "CodeId", Uint>>>>
QueryCodeInfoRequest_Size == <<<<"CodeId", Uint>>>>
QueryCodeInfoRequest_Unmarshal == <<<<1, "CodeId", Uint>>>>

QueryCodeInfoResponse_Marshal == <<
  <<8, "CodeID", Uint>>, <<18, "Creator", Bytes>>, <<26, "Checksum", Bytes>>,
  <<34, "InstantiatePermission", Val("AccessConfig")>>>>
QueryCodeInfoResponse_Size == <<
  <<"CodeID", Uint>>, <<"Creator", Bytes>>, <<"Checksum", Bytes>>,
  <<"InstantiatePermission", Val("AccessConfig")>>>>
QueryCodeInfoResponse_Unmarshal == <<
  <<1, "CodeID", Uint>>, <<2, "Creator", Bytes>>, <<3, "Checksum", Bytes>>,
  <<4, "InstantiatePermission", Val("AccessConfig")>>>>

CodeInfoResponse_Marshal == <<
  <<8, "CodeID", Uint>>, <<18, "Creator", Bytes>>, <<26, "DataHash", Bytes>>,
  <<50, "InstantiatePermission", Val("AccessConfig")>>>>
CodeInfoResponse_Size == <<
  <<"CodeID", Uint>>, <<"Creator", Bytes>>, <<"DataHash", Bytes>>,
  <<"InstantiatePermission", Val("AccessConfig")>>>>
CodeInfoResponse_Unmarshal == <<
  <<1, "CodeID", Uint>>, <<2, "Creator", Bytes>>, <<3, "DataHash", Bytes>>,
  <<6, "InstantiatePermission", Val("AccessConfig")>>>>

QueryCodeResponse_Marshal == <<
  <<10, "CodeInfoResponse", Ptr("CodeInfoResponse")>>, <<18, "Data", Bytes>>>>
QueryCodeResponse_Size == <<<<"CodeInfoResponse", Ptr("CodeInfoResponse")>>, <<"Data", Bytes>>>>
QueryCodeResponse_Unmarshal == <<
  <<1, "CodeInfoResponse", Ptr("CodeInfoResponse")>>, <<2, "Data", Bytes>>>>

QueryCodesRequest_Marshal == <<<<10, "Pagination", Ptr("External")>>>>
QueryCodesRequest_Size == <<<<"Pagination", Ptr("External")>>>>
QueryCodesRequest_Unmarshal == <<<<1, "Pagination", Ptr("External")>>>>

QueryCodesResponse_Marshal == <<
  <<10, "CodeInfos", Many("CodeInfoResponse")>>, <<18, "Pagination", Ptr("External")>>>>
QueryCodesResponse_Size == <<
  <<"CodeInfos", Many("CodeInfoResponse")>>, <<"Pagination", Ptr("External")>>>>
QueryCodesResponse_Unmarshal == <<
  <<1, "CodeInfos", Many("CodeInfoResponse")>>, <<2, "Pagination", Ptr("External")>>>>

QueryPinnedCodesRequest_Marshal == <<<<18, "Pagination", Ptr("External")>>>>
QueryPinnedCodesRequest_Size == <<<<"Pagination", Ptr("External")>>>>
QueryPinnedCodesRequest_Unmarshal == <<<<2, "Pagination", Ptr("External")>>>>

QueryPinnedCodesResponse_Marshal == <<
  <<10, "CodeIDs", Packed>>, <<18, "Pagination", Ptr("External")>>>>
QueryPinnedCodesResponse_Size == <<<<"CodeIDs", Packed>>, <<"Pagination", Ptr("External")>>>>
QueryPinnedCodesResponse_Unmarshal == <<
  <<1, "CodeIDs", Packed>>, <<2, "Pagination", Ptr("External")>>>>

QueryGaslessContractsRequest_Marshal == <<<<18, "Pagination", Ptr("External")>>>>
QueryGaslessContractsRequest_Size == <<<<"Pagination", Ptr("External")>>>>
QueryGaslessContractsRequest_Unmarshal == <<<<2, "Pagination", Ptr("External")>>>>

QueryGaslessContractsResponse_Marshal == <<
  <<10, "ContractAddresses", Strings>>, <<18, "Pagination", Ptr("External")>>>>
QueryGaslessContractsResponse_Size == <<
  <<"ContractAddresses", Strings>>, <<"Pagination", Ptr("External")>>>>
QueryGaslessContractsResponse_Unmarshal == <<
  <<1, "ContractAddresses", Strings>>, <<2, "Pagination", Ptr("External")>>>>

QueryParamsRequest_Marshal == <<>>
QueryParamsRequest_Size == <<>>
QueryParamsRequest_Unmarshal == <<>>

QueryParamsResponse_Marshal == <<<<10, "Params", Val("Params")>>>>
QueryParamsResponse_Size == <<<<"Params", Val("Params")>>>>
QueryParamsResponse_Unmarshal == <<<<1, "Params", Val("Params")>>>>

QueryContractsByCreatorRequest_Marshal == <<
  <<10, "CreatorAddress", Bytes>>, <<18, "Pagination", Ptr("External")>>>>
QueryContractsByCreatorRequest_Size == <<
  <<"CreatorAddress", Bytes>>, <<"Pagination", Ptr("External")>>>>
QueryContractsByCreatorRequest_Unmarshal == <<
  <<1, "CreatorAddress", Bytes>>, <<2, "Pagination", Ptr("External")>>>>

QueryContractsByCreatorResponse_Marshal == <<
  <<10, "ContractAddresses", Strings>>, <<18, "Pagination", Ptr("External")>>>>
QueryContractsByCreatorResponse_Size == <<
  <<"ContractAddresses", Strings>>, <<"Pagination", Ptr("External")>>>>
QueryContractsByCreatorResponse_Unmarshal == <<
  <<1, "ContractAddresses", Strings>>, <<2, "Pagination", Ptr("External")>>>>

QueryBuildAddressRequest_Marshal == <<
  <<10, "CodeHash", Bytes>>, <<18, "CreatorAddress", Bytes>>, <<26, "Salt", Bytes>>,
  <<34, "InitArgs", Bytes>>>>
QueryBuildAddressRequest_Size == <<
  <<"CodeHash", Bytes>>, <<"CreatorAddress", Bytes>>, <<"Salt", Bytes>>, <<"InitArgs", Bytes>>>>
QueryBuildAddressRequest_Unmarshal == <<
  <<1, "CodeHash", Bytes>>, <<2, "CreatorAddress", Bytes>>, <<3, "Salt", Bytes>>,
  <<4, "InitArgs", Bytes>>>>

QueryBuildAddressResponse_Marshal == <<<<10, "Address", Bytes>>>>
QueryBuildAddressResponse_Size == <<<<"Address", Bytes>>>>
QueryBuildAddressResponse_Unmarshal == <<<<1, "Address", Bytes>>>>

QueryWireEncoders == [
  QueryContractInfoRequest |-> QueryContractInfoRequest_Marshal,
  QueryContractInfoResponse |-> QueryContractInfoResponse_Marshal,
  QueryContractHistoryRequest |-> QueryContractHistoryRequest_Marshal,
  QueryContractHistoryResponse |-> QueryContractHistoryResponse_Marshal,
  QueryContractsByCodeRequest |-> QueryContractsByCodeRequest_Marshal,
  QueryContractsByCodeResponse |-> QueryContractsByCodeResponse_Marshal,
  QueryAllContractStateRequest |-> QueryAllContractStateRequest_Marshal,
  QueryAllContractStateResponse |-> QueryAllContractStateResponse_Marshal,
  QueryRawContractStateRequest |-> QueryRawContractStateRequest_Marshal,
  QueryRawContractStateResponse |-> QueryRawContractStateResponse_Marshal,
  QuerySmartContractStateRequest |-> QuerySmartContractStateRequest_Marshal,
  QuerySmartContractStateResponse |-> QuerySmartContractStateResponse_Marshal,
  QueryCodeRequest |-> QueryCodeRequest_Marshal,
  QueryCodeInfoRequest |-> QueryCodeInfoRequest_Marshal,
  QueryCodeInfoResponse |-> QueryCodeInfoResponse_Marshal,
  CodeInfoResponse |-> CodeInfoResponse_Marshal, QueryCodeResponse |-> QueryCodeResponse_Marshal,
  QueryCodesRequest |-> QueryCodesRequest_Marshal,
  QueryCodesResponse |-> QueryCodesResponse_Marshal,
  QueryPinnedCodesRequest |-> QueryPinnedCodesRequest_Marshal,
  QueryPinnedCodesResponse |-> QueryPinnedCodesResponse_Marshal,
  QueryGaslessContractsRequest |-> QueryGaslessContractsRequest_Marshal,
  QueryGaslessContractsResponse |-> QueryGaslessContractsResponse_Marshal,
  QueryParamsRequest |-> QueryParamsRequest_Marshal,
  QueryParamsResponse |-> QueryParamsResponse_Marshal,
  QueryContractsByCreatorRequest |-> QueryContractsByCreatorRequest_Marshal,
  QueryContractsByCreatorResponse |-> QueryContractsByCreatorResponse_Marshal,
  QueryBuildAddressRequest |-> QueryBuildAddressRequest_Marshal,
  QueryBuildAddressResponse |-> QueryBuildAddressResponse_Marshal]

QueryWireSizers == [
  QueryContractInfoRequest |-> QueryContractInfoRequest_Size,
  QueryContractInfoResponse |-> QueryContractInfoResponse_Size,
  QueryContractHistoryRequest |-> QueryContractHistoryRequest_Size,
  QueryContractHistoryResponse |-> QueryContractHistoryResponse_Size,
  QueryContractsByCodeRequest |-> QueryContractsByCodeRequest_Size,
  QueryContractsByCodeResponse |-> QueryContractsByCodeResponse_Size,
  QueryAllContractStateRequest |-> QueryAllContractStateRequest_Size,
  QueryAllContractStateResponse |-> QueryAllContractStateResponse_Size,
  QueryRawContractStateRequest |-> QueryRawContractStateRequest_Size,
  QueryRawContractStateResponse |-> QueryRawContractStateResponse_Size,
  QuerySmartContractStateRequest |-> QuerySmartContractStateRequest_Size,
  QuerySmartContractStateResponse |-> QuerySmartContractStateResponse_Size,
  QueryCodeRequest |-> QueryCodeRequest_Size, QueryCodeInfoRequest |-> QueryCodeInfoRequest_Size,
  QueryCodeInfoResponse |-> QueryCodeInfoResponse_Size, CodeInfoResponse |-> CodeInfoResponse_Size,
  QueryCodeResponse |-> QueryCodeResponse_Size, QueryCodesRequest |-> QueryCodesRequest_Size,
  QueryCodesResponse |-> QueryCodesResponse_Size,
  QueryPinnedCodesRequest |-> QueryPinnedCodesRequest_Size,
  QueryPinnedCodesResponse |-> QueryPinnedCodesResponse_Size,
  QueryGaslessContractsRequest |-> QueryGaslessContractsRequest_Size,
  QueryGaslessContractsResponse |-> QueryGaslessContractsResponse_Size,
  QueryParamsRequest |-> QueryParamsRequest_Size, QueryParamsResponse |-> QueryParamsResponse_Size,
  QueryContractsByCreatorRequest |-> QueryContractsByCreatorRequest_Size,
  QueryContractsByCreatorResponse |-> QueryContractsByCreatorResponse_Size,
  QueryBuildAddressRequest |-> QueryBuildAddressRequest_Size,
  QueryBuildAddressResponse |-> QueryBuildAddressResponse_Size]

QueryWireDecoders == [
  QueryContractInfoRequest |-> QueryContractInfoRequest_Unmarshal,
  QueryContractInfoResponse |-> QueryContractInfoResponse_Unmarshal,
  QueryContractHistoryRequest |-> QueryContractHistoryRequest_Unmarshal,
  QueryContractHistoryResponse |-> QueryContractHistoryResponse_Unmarshal,
  QueryContractsByCodeRequest |-> QueryContractsByCodeRequest_Unmarshal,
  QueryContractsByCodeResponse |-> QueryContractsByCodeResponse_Unmarshal,
  QueryAllContractStateRequest |-> QueryAllContractStateRequest_Unmarshal,
  QueryAllContractStateResponse |-> QueryAllContractStateResponse_Unmarshal,
  QueryRawContractStateRequest |-> QueryRawContractStateRequest_Unmarshal,
  QueryRawContractStateResponse |-> QueryRawContractStateResponse_Unmarshal,
  QuerySmartContractStateRequest |-> QuerySmartContractStateRequest_Unmarshal,
  QuerySmartContractStateResponse |-> QuerySmartContractStateResponse_Unmarshal,
  QueryCodeRequest |-> QueryCodeRequest_Unmarshal,
  QueryCodeInfoRequest |-> QueryCodeInfoRequest_Unmarshal,
  QueryCodeInfoResponse |-> QueryCodeInfoResponse_Unmarshal,
  CodeInfoResponse |-> CodeInfoResponse_Unmarshal,
  QueryCodeResponse |-> QueryCodeResponse_Unmarshal,
  QueryCodesRequest |-> QueryCodesRequest_Unmarshal,
  QueryCodesResponse |-> QueryCodesResponse_Unmarshal,
  QueryPinnedCodesRequest |-> QueryPinnedCodesRequest_Unmarshal,
  QueryPinnedCodesResponse |-> QueryPinnedCodesResponse_Unmarshal,
  QueryGaslessContractsRequest |-> QueryGaslessContractsRequest_Unmarshal,
  QueryGaslessContractsResponse |-> QueryGaslessContractsResponse_Unmarshal,
  QueryParamsRequest |-> QueryParamsRequest_Unmarshal,
  QueryParamsResponse |-> QueryParamsResponse_Unmarshal,
  QueryContractsByCreatorRequest |-> QueryContractsByCreatorRequest_Unmarshal,
  QueryContractsByCreatorResponse |-> QueryContractsByCreatorResponse_Unmarshal,
  QueryBuildAddressRequest |-> QueryBuildAddressRequest_Unmarshal,
  QueryBuildAddressResponse |-> QueryBuildAddressResponse_Unmarshal]
=============================================================================

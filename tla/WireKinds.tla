----------------------------- MODULE WireKinds -----------------------------
(***************************************************************************)
(* The kinds of message fields the generated protobuf code distinguishes,  *)
(* as <<kind, type of the embedded message>>.                              *)
(***************************************************************************)

Bytes   == <<"bytes", "">>    \* string, []byte and their named types
Strings == <<"strings", "">>  \* []string, [][]byte
Uint    == <<"uint", "">>     \* uint64
Enum    == <<"enum", "">>     \* a named int32
Bool    == <<"bool", "">>
Packed  == <<"packed", "">>   \* []uint64
Ptr(T)  == <<"ptr", T>>       \* *T
Val(T)  == <<"val", T>>       \* T
Many(T) == <<"many", T>>      \* []T
=============================================================================

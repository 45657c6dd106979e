------------------------------ MODULE Protobuf ------------------------------
(***************************************************************************)
(* The codec of all messages.  A message without embedded messages is      *)
(* coded by Flat; each further level embeds the messages of the one below. *)
(***************************************************************************)
EXTENDS Integers, Sequences, WireKinds

CONSTANTS
  Encoder,  \* message type -> <<tag, field, kind>> in the order of the bytes
  Sizer,    \* message type -> <<field, kind>>
  Decoder   \* message type -> <<field number, field, kind>>

(* No message is embedded. *)
NoIs(T, m) == FALSE
NoDefault(T) == <<>>
NoSize(T, m) == 0
NoBytes(T, m) == <<>>
NoUnmarshal(T, data, m) == [ok |-> FALSE]
NoMerge(T, a, b) == a

Flat == INSTANCE CodecProofs WITH
  InnerIs <- NoIs, InnerDefault <- NoDefault, InnerSize <- NoSize,
  InnerEncoded <- NoBytes, InnerUnmarshal <- NoUnmarshal, InnerMerge <- NoMerge

One == INSTANCE CodecProofs WITH
  InnerIs <- Flat!Is, InnerDefault <- Flat!Default, InnerSize <- Flat!Size,
  InnerEncoded <- Flat!Encoded, InnerUnmarshal <- Flat!Unmarshal, InnerMerge <- Flat!Merge

Two == INSTANCE CodecProofs WITH
  InnerIs <- One!Is, InnerDefault <- One!Default, InnerSize <- One!Size,
  InnerEncoded <- One!Encoded, InnerUnmarshal <- One!Unmarshal, InnerMerge <- One!Merge

Top == INSTANCE CodecProofs WITH
  InnerIs <- Two!Is, InnerDefault <- Two!Default, InnerSize <- Two!Size,
  InnerEncoded <- Two!Encoded, InnerUnmarshal <- Two!Unmarshal, InnerMerge <- Two!Merge

Types == DOMAIN Encoder

(* The types of each level: those with tables that agree and embedded      *)
(* messages of the level below.                                            *)
FlatTypes == {T \in Types : Flat!Coded(T, {})}
OneTypes  == {T \in Types : One!Coded(T, FlatTypes)}
TwoTypes  == {T \in Types : Two!Coded(T, OneTypes)}

(* The generator writes the three functions of a message from one          *)
(* description, and no message is nested more deeply.                      *)
ASSUME TablesAgree == \A T \in Types : Top!Coded(T, TwoTypes)

Is(T, m) == Top!Is(T, m)
Default(T) == Top!Default(T)
Size(T, m) == Top!Size(T, m)
Marshal(T, m) == Top!Marshal(T, m)
Decoded(T, data) == Top!Decoded(T, data)
=============================================================================

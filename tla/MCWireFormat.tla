---------------------------- MODULE MCWireFormat ----------------------------
EXTENDS WireFormat

(* The messages that are tried: the zero message, each field set alone, and *)
(* all fields together.                                                    *)

MaxUint64 == [i \in 1..10 |-> IF i = 10 THEN 1 ELSE 127]
MaxInt32  == <<127, 127, 127, 127, 7>>
MinusOne  == <<127, 127, 127, 127, 15>>   \* as an int32
LongBytes == [i \in 1..128 |-> 7]   \* its length takes two bytes

RECURSIVE FullOf(_)

Values(kind) ==
  CASE kind[1] = "bytes"   -> {<<200, 8>>, LongBytes}
    [] kind[1] = "strings" -> {<<<<>>, <<7>>>>}
    [] kind[1] = "uint"    -> {<<1, 1>>, MaxUint64}
    [] kind[1] = "enum"    -> {<<2>>, MaxInt32, MinusOne}
    [] kind[1] = "bool"    -> {TRUE}
    [] kind[1] = "packed"  -> {<<<<>>, <<0, 5>>, MaxUint64>>}
    [] kind[1] = "ptr"     -> {<<Default(kind[2])>>, <<FullOf(kind[2])>>}
    [] kind[1] = "val"     -> {FullOf(kind[2])}
    [] kind[1] = "many"    -> {<<Default(kind[2]), FullOf(kind[2])>>}

KindOf(T, f) == (CHOOSE row \in Range(Encoder[T]) : row[2] = f)[3]

FullOf(T) ==
  [f \in DOMAIN Default(T) |->
     LET kind == KindOf(T, f)
     IN  CASE kind[1] = "bytes" -> <<200, 8>>
           [] kind[1] = "uint"  -> <<1, 1>>
           [] kind[1] = "enum"  -> <<2>>
           [] kind[1] = "ptr"   -> <<FullOf(kind[2])>>
           [] OTHER             -> CHOOSE v \in Values(kind) : TRUE]

MCAccounts == {<<1>>, <<2>>}

(* What the validation of the old store admits: an address with the second *)
(* permission, a list without repetitions with the fourth.                 *)
MCLegacyConfigs ==
  {[Permission |-> p, Address |-> <<>>, Addresses |-> <<>>] : p \in {<<1>>, <<3>>}}
  \union {[Permission |-> <<2>>, Address |-> a, Addresses |-> <<>>] : a \in MCAccounts}
  \union {[Permission |-> <<4>>, Address |-> <<>>, Addresses |-> l] :
            l \in {<<<<2>>>>, <<<<1>>, <<2>>>>}}

MCFull == [T \in Types |-> FullOf(T)]

MCSamples ==
  [T \in Types |->
     {Default(T), FullOf(T)} \union LegacySamples(T)
     \union UNION {{[Default(T) EXCEPT ![f] = v] : v \in Values(KindOf(T, f))} :
                     f \in DOMAIN Default(T)}]
=============================================================================

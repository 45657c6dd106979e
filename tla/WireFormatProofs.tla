-------------------------- MODULE WireFormatProofs --------------------------
(***************************************************************************)
(* The codec of all messages, level by level, and with it the properties   *)
(* of WireFormat for any messages of any types with tables that agree.     *)
(***************************************************************************)
EXTENDS WireFormat, SequenceTheorems, TLAPS

-----------------------------------------------------------------------------
(* The laws of the codec, for messages of each level.                      *)

(* Messages that embed none.                                               *)
LEMMA FlatLaws ==
  ASSUME NEW T \in FlatTypes
  PROVE  /\ Flat!DefaultLaw(T) /\ Flat!SizeLaw(T) /\ Flat!MergeLaw(T)
         /\ Flat!UnmarshalLaw(T) /\ Flat!AcceptedLaw(T)
<1>1. Flat!InnerLaws({})
  BY DEF Flat!InnerLaws
<1>2. Flat!Coded(T, {})
  BY DEF FlatTypes
<1> QED BY <1>1, <1>2, Flat!CodecLaws

(* The laws of Flat are what One asks of the messages it embeds.         *)
LEMMA OneInner == One!InnerLaws(FlatTypes)
<1> SUFFICES ASSUME NEW T \in FlatTypes
             PROVE  /\ One!InnerDefaultLaw(T) /\ One!InnerSizeLaw(T) /\ One!InnerMergeLaw(T)
                    /\ One!InnerReadLaw(T) /\ One!InnerTypeLaw(T)
  BY DEF One!InnerLaws
<1>1. One!InnerDefaultLaw(T)
  BY FlatLaws DEF Flat!DefaultLaw, One!InnerDefaultLaw
<1>2. One!InnerSizeLaw(T)
  BY FlatLaws DEF Flat!SizeLaw, One!InnerSizeLaw, Flat!Byte, One!Byte
<1>3. One!InnerMergeLaw(T)
  BY FlatLaws DEF Flat!MergeLaw, One!InnerMergeLaw
<1>4. One!InnerReadLaw(T)
  BY FlatLaws DEF Flat!UnmarshalLaw, One!InnerReadLaw, Flat!MaxLength, One!MaxLength
<1>5. One!InnerTypeLaw(T)
  BY FlatLaws DEF Flat!AcceptedLaw, One!InnerTypeLaw, Flat!Byte, One!Byte
<1> QED BY <1>1, <1>2, <1>3, <1>4, <1>5

(* Messages that embed those of Flat.                                    *)
LEMMA OneLaws ==
  ASSUME NEW T \in OneTypes
  PROVE  /\ One!DefaultLaw(T) /\ One!SizeLaw(T) /\ One!MergeLaw(T)
         /\ One!UnmarshalLaw(T) /\ One!AcceptedLaw(T)
<1>1. One!Coded(T, FlatTypes)
  BY DEF OneTypes
<1> QED BY <1>1, OneInner, One!CodecLaws

(* The laws of One are what Two asks of the messages it embeds.          *)
LEMMA TwoInner == Two!InnerLaws(OneTypes)
<1> SUFFICES ASSUME NEW T \in OneTypes
             PROVE  /\ Two!InnerDefaultLaw(T) /\ Two!InnerSizeLaw(T) /\ Two!InnerMergeLaw(T)
                    /\ Two!InnerReadLaw(T) /\ Two!InnerTypeLaw(T)
  BY DEF Two!InnerLaws
<1>1. Two!InnerDefaultLaw(T)
  BY OneLaws DEF One!DefaultLaw, Two!InnerDefaultLaw
<1>2. Two!InnerSizeLaw(T)
  BY OneLaws DEF One!SizeLaw, Two!InnerSizeLaw, One!Byte, Two!Byte
<1>3. Two!InnerMergeLaw(T)
  BY OneLaws DEF One!MergeLaw, Two!InnerMergeLaw
<1>4. Two!InnerReadLaw(T)
  BY OneLaws DEF One!UnmarshalLaw, Two!InnerReadLaw, One!MaxLength, Two!MaxLength
<1>5. Two!InnerTypeLaw(T)
  BY OneLaws DEF One!AcceptedLaw, Two!InnerTypeLaw, One!Byte, Two!Byte
<1> QED BY <1>1, <1>2, <1>3, <1>4, <1>5

(* Messages that embed those of One.                                     *)
LEMMA TwoLaws ==
  ASSUME NEW T \in TwoTypes
  PROVE  /\ Two!DefaultLaw(T) /\ Two!SizeLaw(T) /\ Two!MergeLaw(T)
         /\ Two!UnmarshalLaw(T) /\ Two!AcceptedLaw(T)
<1>1. Two!Coded(T, OneTypes)
  BY DEF TwoTypes
<1> QED BY <1>1, TwoInner, Two!CodecLaws

(* The laws of Two are what Top asks of the messages it embeds.          *)
LEMMA TopInner == Top!InnerLaws(TwoTypes)
<1> SUFFICES ASSUME NEW T \in TwoTypes
             PROVE  /\ Top!InnerDefaultLaw(T) /\ Top!InnerSizeLaw(T) /\ Top!InnerMergeLaw(T)
                    /\ Top!InnerReadLaw(T) /\ Top!InnerTypeLaw(T)
  BY DEF Top!InnerLaws
<1>1. Top!InnerDefaultLaw(T)
  BY TwoLaws DEF Two!DefaultLaw, Top!InnerDefaultLaw
<1>2. Top!InnerSizeLaw(T)
  BY TwoLaws DEF Two!SizeLaw, Top!InnerSizeLaw, Two!Byte, Top!Byte
<1>3. Top!InnerMergeLaw(T)
  BY TwoLaws DEF Two!MergeLaw, Top!InnerMergeLaw
<1>4. Top!InnerReadLaw(T)
  BY TwoLaws DEF Two!UnmarshalLaw, Top!InnerReadLaw, Two!MaxLength, Top!MaxLength
<1>5. Top!InnerTypeLaw(T)
  BY TwoLaws DEF Two!AcceptedLaw, Top!InnerTypeLaw, Two!Byte, Top!Byte
<1> QED BY <1>1, <1>2, <1>3, <1>4, <1>5

(* All messages.                                                           *)
LEMMA TopLaws ==
  ASSUME NEW T \in Types
  PROVE  /\ Top!DefaultLaw(T) /\ Top!SizeLaw(T) /\ Top!MergeLaw(T)
         /\ Top!UnmarshalLaw(T) /\ Top!AcceptedLaw(T) /\ Top!WellFormed(T, TwoTypes)
<1>1. Top!Coded(T, TwoTypes)
  BY TablesAgree
<1> QED BY <1>1, TopInner, Top!CodecLaws DEF Top!Coded

-----------------------------------------------------------------------------
(* Marshal and Unmarshal of a message.                                     *)

(* Marshal fills its buffer exactly.                                       *)
LEMMA Marshals ==
  ASSUME NEW T \in Types, NEW m, Is(T, m)
  PROVE  /\ Marshal(T, m) = [ok |-> TRUE, bytes |-> Top!Encoded(T, m)]
         /\ Top!Encoded(T, m) \in Seq(0..255) /\ Size(T, m) = Len(Top!Encoded(T, m))
<1>1. Top!Is(T, m) /\ Top!WellFormed(T, TwoTypes) /\ Top!SizeLaw(T)
  BY TopLaws DEF Is
<1>2. Marshal(T, m) = [ok |-> TRUE, bytes |-> Top!Encoded(T, m)]
  BY <1>1, TopInner, Top!MarshalFacts DEF Marshal
<1> QED BY <1>1, <1>2 DEF Top!SizeLaw, Top!Byte, Size

(* What Marshal wrote, Unmarshal reads.                                    *)
LEMMA Unmarshals ==
  ASSUME NEW T \in Types, NEW m, Is(T, m), Len(Top!Encoded(T, m)) < Top!MaxLength
  PROVE  Decoded(T, Top!Encoded(T, m)) = [ok |-> TRUE, msg |-> m]
<1>1. Top!Is(T, m) /\ Top!DefaultLaw(T) /\ Top!UnmarshalLaw(T)
  BY TopLaws DEF Is
<1>2. Top!Is(T, Top!Default(T)) /\ Top!Merge(T, Top!Default(T), m) = m
  BY <1>1 DEF Top!DefaultLaw
<1>3. Top!Unmarshal(T, Top!Encoded(T, m), Top!Default(T))
        = [ok |-> TRUE, msg |-> Top!Merge(T, Top!Default(T), m)]
  BY <1>1, <1>2 DEF Top!UnmarshalLaw
<1> QED BY <1>2, <1>3 DEF Decoded, Top!Decoded

(* What Unmarshal accepts of any bytes is a message, not too long.         *)
LEMMA Accepts ==
  ASSUME NEW T \in Types, NEW data \in Seq(0..255)
  PROVE  \/ Decoded(T, data) = [ok |-> FALSE]
         \/ \E m : /\ Decoded(T, data) = [ok |-> TRUE, msg |-> m] /\ Is(T, m)
                   /\ Size(T, m) \in Nat /\ Size(T, m) <= 100 + 64 * Len(data)
<1>1. Top!DefaultLaw(T) /\ Top!AcceptedLaw(T) /\ Top!SizeLaw(T)
  BY TopLaws
<1>2. PICK o : o = Top!Default(T)
  OBVIOUS
<1>3. Top!Is(T, o) /\ Top!Size(T, o) <= 100
  BY <1>1, <1>2 DEF Top!DefaultLaw
<1>4. \A m : Top!Is(T, m) => Top!Size(T, m) \in Nat
  <2>1. TAKE m
  <2>2. HAVE Top!Is(T, m)
  <2>3. Top!Encoded(T, m) \in Seq(0..255) /\ Top!Size(T, m) = Len(Top!Encoded(T, m))
    BY <1>1, <2>2 DEF Top!SizeLaw, Top!Byte
  <2> QED BY <2>3
<1>5. data \in Seq(Top!Byte) /\ Len(data) \in Nat
  BY DEF Top!Byte
<1>6. CASE Top!Unmarshal(T, data, o) = [ok |-> FALSE]
  BY <1>2, <1>6 DEF Decoded, Top!Decoded
<1>7. CASE Top!Unmarshal(T, data, o) # [ok |-> FALSE]
  <2>1. PICK m : /\ Top!Unmarshal(T, data, o) = [ok |-> TRUE, msg |-> m] /\ Top!Is(T, m)
                 /\ Top!Size(T, m) <= Top!Size(T, o) + 64 * Len(data)
    BY <1>1, <1>3, <1>5, <1>7 DEF Top!AcceptedLaw
  <2>2. PICK a, b, d : a = Top!Size(T, m) /\ b = Top!Size(T, o) /\ d = Len(data)
    OBVIOUS
  <2>3. a \in Nat /\ b \in Nat /\ d \in Nat /\ a <= b + 64 * d /\ b <= 100
    BY <1>3, <1>4, <1>5, <2>1, <2>2
  <2>4. a <= 100 + 64 * d
    BY <2>3
  <2> QED BY <1>2, <2>1, <2>2, <2>3, <2>4 DEF Decoded, Top!Decoded, Is, Size
<1> QED BY <1>6, <1>7

(* The length of all bytes that are read.                                  *)
Short == 4000000

(* What Unmarshal accepts can be written and read again.                   *)
LEMMA Stable ==
  ASSUME NEW T \in Types, NEW data \in Seq(0..255), Len(data) <= Short,
         NEW r, r = Decoded(T, data), r.ok
  PROVE  /\ Marshal(T, r.msg).ok /\ Decoded(T, Marshal(T, r.msg).bytes) = r
<1>1. PICK m : /\ r = [ok |-> TRUE, msg |-> m] /\ Is(T, m)
               /\ Size(T, m) \in Nat /\ Size(T, m) <= 100 + 64 * Len(data)
  BY Accepts
<1>2. PICK a, d : a = Size(T, m) /\ d = Len(data)
  OBVIOUS
<1>3. a \in Nat /\ d \in Nat /\ a <= 100 + 64 * d /\ d <= Short
  BY <1>1, <1>2
<1>4. a < Top!MaxLength
  BY <1>3, SMT DEF Short, Top!MaxLength
<1>5. Marshal(T, m) = [ok |-> TRUE, bytes |-> Top!Encoded(T, m)] /\ a = Len(Top!Encoded(T, m))
  BY <1>1, <1>2, Marshals
<1>6. Decoded(T, Top!Encoded(T, m)) = [ok |-> TRUE, msg |-> m]
  BY <1>1, <1>4, <1>5, Unmarshals
<1> QED BY <1>1, <1>5, <1>6

-----------------------------------------------------------------------------
(* What is known of the bytes at each stage.                               *)

(* The bytes of the message.                                               *)
IsSent == msg \in Samples[type] /\ wire = Top!Encoded(type, msg)

(* Some of them, from the first.                                           *)
IsPrefix ==
  /\ msg \in Samples[type]
  /\ \E n \in 0..(Len(Top!Encoded(type, msg)) - 1) : wire = SubSeq(Top!Encoded(type, msg), 1, n)

(* Those of a second message after them.                                   *)
IsJoined ==
  /\ msg \in Samples[type] /\ second = <<second[1]>> /\ second[1] \in {msg, Full[type]}
  /\ wire = Top!Encoded(type, msg) \o Top!Encoded(type, second[1])

(* An unknown field before or after them.                                  *)
IsExtended ==
  /\ msg \in Samples[type]
  /\ \E u \in Top!UnknownFields :
       wire \in {u \o Top!Encoded(type, msg), Top!Encoded(type, msg) \o u}

(* The bytes of the migrated record.                                       *)
IsMigrated ==
  \/ /\ type = "CodeInfo" /\ msg \in LegacySamples("V3_CodeInfo")
     /\ wire = Top!Encoded("CodeInfo", MigratedCodeInfo(msg))
  \/ /\ type = "Params" /\ msg \in LegacySamples("V3_Params")
     /\ wire = Top!Encoded("Params", MigratedParams(msg))

(* Marshalling never panics.                                               *)
Stages == {"new", "sent", "cut", "joined", "extended", "altered", "migrated"}

(* The bytes are not too many.                                             *)
IsShort == wire \in Seq(0..255) /\ Len(wire) <= Short

(* The bytes are those of the stage, and the result is what Unmarshal      *)
(* makes of them.                                                          *)
WireInv ==
  /\ type \in Types /\ stage \in Stages
  /\ IsShort
  /\ result = <<>> \/ result = Decoded(type, wire)
  /\ stage = "new" => msg \in Samples[type] /\ result = <<>>
  /\ stage = "sent" => IsSent
  /\ stage = "cut" => IsPrefix
  /\ stage = "joined" => IsJoined
  /\ stage = "extended" => IsExtended
  /\ stage = "migrated" => IsMigrated

(* What is known of the messages that are sent.                            *)
LEMMA SampleFacts ==
  ASSUME NEW T \in Types, NEW m \in Samples[T]
  PROVE  /\ Is(T, m) /\ Top!Encoded(T, m) \in Seq(0..255) /\ Len(Top!Encoded(T, m)) \in Nat
         /\ Len(Top!Encoded(T, m)) <= MaxMessage /\ Full[T] \in Samples[T]
         /\ Marshal(T, m) = [ok |-> TRUE, bytes |-> Top!Encoded(T, m)]
         /\ Size(T, m) = Len(Top!Encoded(T, m))
<1>1. Is(T, m) /\ Size(T, m) <= MaxMessage /\ Full[T] \in Samples[T]
  BY SamplesAssumption
<1>2. /\ Marshal(T, m) = [ok |-> TRUE, bytes |-> Top!Encoded(T, m)]
      /\ Top!Encoded(T, m) \in Seq(0..255) /\ Size(T, m) = Len(Top!Encoded(T, m))
  BY <1>1, Marshals
<1> QED BY <1>1, <1>2

(* It holds at the start.                                                  *)
LEMMA WireInit == Init => WireInv
<1> SUFFICES ASSUME Init PROVE WireInv
  OBVIOUS
<1>1. <<>> \in Seq(0..255) /\ Len(<<>>) <= Short
  BY SMT DEF Short
<1> QED BY <1>1 DEF Init, WireInv, Stages, IsShort, Short

(* Marshalling never panics, and writes the bytes of the message.          *)
LEMMA SendStep == WireInv /\ Send => WireInv'
<1> SUFFICES ASSUME WireInv, Send PROVE WireInv'
  OBVIOUS
<1>1. type \in Types /\ msg \in Samples[type] /\ result = <<>>
  BY DEF WireInv, Send
<1>2. PICK b : b = Top!Encoded(type, msg)
  OBVIOUS
<1>3. /\ b \in Seq(0..255) /\ Len(b) <= MaxMessage
      /\ Marshal(type, msg) = [ok |-> TRUE, bytes |-> b]
  BY <1>1, <1>2, SampleFacts
<1>4. Len(b) <= Short
  BY <1>3, SMT DEF Short, MaxMessage
<1>5. stage' = "sent" /\ wire' = b /\ UNCHANGED <<type, msg, second, result>>
  BY <1>3 DEF Send
<1> QED BY <1>1, <1>2, <1>3, <1>4, <1>5 DEF WireInv, Stages, IsShort, IsSent

(* Some of the bytes at the end are lost.                                  *)
LEMMA CutStep == WireInv /\ Cut => WireInv'
<1> SUFFICES ASSUME WireInv, Cut PROVE WireInv'
  OBVIOUS
<1>1. /\ type \in Types /\ msg \in Samples[type] /\ result = <<>>
      /\ IsShort /\ wire = Top!Encoded(type, msg)
  BY DEF WireInv, Cut, IsSent
<1>2. PICK n \in 0..(Len(wire) - 1) : wire' = SubSeq(wire, 1, n)
  BY DEF Cut
<1>3. wire' \in Seq(0..255) /\ Len(wire') <= Short
  <2>1. PICK w, l : w = wire /\ l = Len(w)
    OBVIOUS
  <2>2. w \in Seq(0..255) /\ l \in Nat /\ l <= Short /\ n \in Nat /\ n <= l
    BY <1>1, <1>2, <2>1 DEF IsShort
  <2>3. SubSeq(w, 1, n) \in Seq(0..255) /\ Len(SubSeq(w, 1, n)) = n
    <3>1. 1 \in Int /\ n \in Int
      BY <2>2
    <3>2. ASSUME NEW i \in 1..n PROVE w[i] \in 0..255
      <4>1. l \in Nat /\ n \in Nat /\ n <= l
        BY <2>2
      <4>2. i \in 1..l
        BY <4>1
      <4>3. i \in 1..Len(w)
        BY <2>1, <4>2
      <4>4. w \in Seq(0..255)
        BY <2>2
      <4> QED BY <4>3, <4>4, Top!Elem, Zenon
    <3>3. /\ SubSeq(w, 1, n) \in Seq(0..255)
          /\ Len(SubSeq(w, 1, n)) = IF 1 <= n THEN n - 1 + 1 ELSE 0
      BY <3>1, <3>2, SubSeqProperties
    <3> QED BY <2>2, <3>3
  <2>4. n <= Short
    BY <2>2, SMT DEF Short
  <2> QED BY <1>2, <2>1, <2>3, <2>4
<1>4. stage' = "cut" /\ UNCHANGED <<type, msg, second, result>>
  BY DEF Cut
<1>5. IsPrefix'
  BY <1>1, <1>2, <1>4 DEF IsPrefix
<1> QED BY <1>1, <1>3, <1>4, <1>5 DEF WireInv, Stages, IsShort

(* The bytes of a second message follow.                                   *)
LEMMA JoinStep == WireInv /\ Join => WireInv'
<1> SUFFICES ASSUME WireInv, Join PROVE WireInv'
  OBVIOUS
<1>1. type \in Types /\ msg \in Samples[type] /\ result = <<>> /\ wire = Top!Encoded(type, msg)
  BY DEF WireInv, Join, IsSent
<1>2. PICK m \in {msg, Full[type]} : wire' = wire \o Marshal(type, m).bytes /\ second' = <<m>>
  BY DEF Join
<1>3. m \in Samples[type]
  BY <1>1, <1>2, SampleFacts
<1>4. PICK a, b : a = Top!Encoded(type, msg) /\ b = Top!Encoded(type, m)
  OBVIOUS
<1>5. /\ a \in Seq(0..255) /\ Len(a) <= MaxMessage /\ b \in Seq(0..255) /\ Len(b) <= MaxMessage
      /\ Marshal(type, m).bytes = b
  BY <1>1, <1>3, <1>4, SampleFacts
<1>6. wire' = a \o b
  BY <1>1, <1>2, <1>4, <1>5
<1>7. wire' \in Seq(0..255) /\ Len(wire') <= Short
  BY <1>5, <1>6, SMT DEF Short, MaxMessage
<1>8. stage' = "joined" /\ UNCHANGED <<type, msg, result>>
  BY DEF Join
<1>9. IsJoined'
  <2>1. second' = <<m>> /\ second'[1] = m
    BY <1>2
  <2> QED BY <1>1, <1>2, <1>4, <1>6, <1>8, <2>1 DEF IsJoined
<1> QED BY <1>1, <1>7, <1>8, <1>9 DEF WireInv, Stages, IsShort

(* Unknown fields are short.                                               *)
LEMMA UnknownShort ==
  ASSUME NEW u \in Top!UnknownFields PROVE u \in Seq(0..255) /\ Len(u) <= 11
<1>1. PICK a, b, c, d, e : /\ a = <<128, 1, 200, 1>> /\ b = <<129, 1, 255, 8, 0, 0, 0, 0, 0, 0>>
                           /\ c = <<130, 1, 2, 8, 1>> /\ e = <<133, 1, 8, 8, 255, 0>>
                           /\ d = <<131, 1, 10, 1, 9, 131, 1, 132, 1, 132, 1>>
  OBVIOUS
<1>2. u = a \/ u = b \/ u = c \/ u = d \/ u = e
  BY <1>1 DEF Top!UnknownFields
<1>3. a \in Seq(0..255) /\ Len(a) <= 11
  BY ONLY <1>1
<1>4. b \in Seq(0..255) /\ Len(b) <= 11
  BY ONLY <1>1
<1>5. c \in Seq(0..255) /\ Len(c) <= 11
  BY ONLY <1>1
<1>6. d \in Seq(0..255) /\ Len(d) <= 11
  BY ONLY <1>1
<1>7. e \in Seq(0..255) /\ Len(e) <= 11
  BY ONLY <1>1
<1> QED BY ONLY <1>2, <1>3, <1>4, <1>5, <1>6, <1>7

(* A field that is not known comes first or last.                          *)
LEMMA ExtendStep == WireInv /\ Extend => WireInv'
<1> SUFFICES ASSUME WireInv, Extend PROVE WireInv'
  OBVIOUS
<1>1. type \in Types /\ msg \in Samples[type] /\ result = <<>> /\ wire = Top!Encoded(type, msg)
  BY DEF WireInv, Extend, IsSent
<1>2. PICK u \in Top!UnknownFields : wire' \in {u \o wire, wire \o u}
  BY DEF Extend
<1>3. wire \in Seq(0..255) /\ Len(wire) <= MaxMessage /\ u \in Seq(0..255) /\ Len(u) <= 11
  BY <1>1, SampleFacts, UnknownShort
<1>4. wire' \in Seq(0..255) /\ Len(wire') <= Short
  <2>1. PICK w, l, d : w = wire /\ l = Len(wire) /\ d = Len(u)
    OBVIOUS
  <2>2. l \in Nat /\ d \in Nat /\ l <= MaxMessage /\ d <= 11
    BY <1>3, <2>1
  <2>3. l + d <= Short /\ d + l <= Short
    BY <2>2, SMT DEF Short, MaxMessage
  <2>4. /\ u \o w \in Seq(0..255) /\ w \o u \in Seq(0..255)
        /\ Len(u \o w) = d + l /\ Len(w \o u) = l + d
    BY <1>3, <2>1
  <2> QED BY <1>2, <2>1, <2>3, <2>4
<1>5. stage' = "extended" /\ UNCHANGED <<type, msg, second, result>>
  BY DEF Extend
<1>6. IsExtended'
  BY <1>1, <1>2, <1>5 DEF IsExtended
<1> QED BY <1>1, <1>4, <1>5, <1>6 DEF WireInv, Stages, IsShort

(* One byte is another: nothing is known of such bytes but their length.   *)
LEMMA AlterStep == WireInv /\ Alter => WireInv'
<1> SUFFICES ASSUME WireInv, Alter PROVE WireInv'
  OBVIOUS
<1>1. type \in Types /\ result = <<>> /\ IsShort
  BY DEF WireInv, Alter
<1>2. PICK n \in DOMAIN wire, b \in {0, 3, 127, 128, 255} : wire' = [wire EXCEPT ![n] = b]
  BY DEF Alter
<1>3. wire' \in Seq(0..255) /\ Len(wire') <= Short
  BY <1>1, <1>2, SMT DEF IsShort, Short
<1>4. stage' = "altered" /\ UNCHANGED <<type, msg, second, result>>
  BY DEF Alter
<1> QED BY <1>1, <1>3, <1>4 DEF WireInv, Stages, IsShort

(* Unmarshalling leaves the bytes as they are.                             *)
LEMMA ReceiveStep == WireInv /\ Receive => WireInv'
<1> SUFFICES ASSUME WireInv, Receive PROVE WireInv'
  OBVIOUS
<1>1. result' = Decoded(type, wire) /\ UNCHANGED <<type, msg, second, wire, stage>> /\ stage # "new"
  BY DEF Receive
<1> QED BY <1>1 DEF WireInv, IsShort, IsSent, IsPrefix, IsJoined, IsExtended, IsMigrated

(* Nothing happens.                                                        *)
LEMMA StutterStep == WireInv /\ UNCHANGED vars => WireInv'
  BY DEF WireInv, vars, IsShort, IsSent, IsPrefix, IsJoined, IsExtended, IsMigrated

-----------------------------------------------------------------------------
(* The properties follow from what is known of the bytes.                  *)

(* All lengths that are read are exact.                                    *)
LEMMA ShortIs == \A l \in Nat : l <= Short => l < Top!MaxLength
  BY SMT DEF Short, Top!MaxLength

(* All lengths that are sent are exact.                                    *)
LEMMA MessageIs == \A l \in Nat : l <= MaxMessage => l < Top!MaxLength
  BY SMT DEF MaxMessage, Top!MaxLength

(* A message that was sent, or extended, is read back.                     *)
LEMMA RoundTripHolds == WireInv => RoundTrip
<1> SUFFICES ASSUME WireInv PROVE RoundTrip
  OBVIOUS
<1>1. type \in Types /\ stage \in Stages /\ (result = <<>> \/ result = Decoded(type, wire))
  BY DEF WireInv
<1>2. stage # "panicked"
  BY <1>1 DEF Stages
<1>3. ASSUME stage = "sent"
      PROVE  /\ Size(type, msg) = Len(wire)
             /\ result # <<>> => result = [ok |-> TRUE, msg |-> msg]
  <2>1. msg \in Samples[type] /\ wire = Top!Encoded(type, msg)
    BY <1>3 DEF WireInv, IsSent
  <2>2. /\ Is(type, msg) /\ Size(type, msg) = Len(wire)
        /\ Len(Top!Encoded(type, msg)) < Top!MaxLength
    BY <1>1, <2>1, SampleFacts, MessageIs
  <2>3. Decoded(type, wire) = [ok |-> TRUE, msg |-> msg]
    BY <1>1, <2>1, <2>2, Unmarshals
  <2> QED BY <1>1, <2>2, <2>3
<1>4. ASSUME stage = "extended", result # <<>>
      PROVE  result = [ok |-> TRUE, msg |-> msg]
  <2>1. msg \in Samples[type]
    BY <1>4 DEF WireInv, IsExtended
  <2>2. PICK u \in Top!UnknownFields :
          wire \in {u \o Top!Encoded(type, msg), Top!Encoded(type, msg) \o u}
    BY <1>4 DEF WireInv, IsExtended
  <2>3. Is(type, msg) /\ Len(Top!Encoded(type, msg)) < Top!MaxLength
    BY <1>1, <2>1, SampleFacts, MessageIs
  <2>4. Top!Is(type, msg) /\ Top!WellFormed(type, TwoTypes)
    BY <1>1, <2>3, TopLaws DEF Is
  <2>5. wire = u \o Top!Encoded(type, msg) \/ wire = Top!Encoded(type, msg) \o u
    BY <2>2
  <2>6. Top!Unmarshal(type, wire, Top!Default(type)) = [ok |-> TRUE, msg |-> msg]
    BY <2>3, <2>4, <2>5, TopInner, Top!ExtendLaw
  <2> QED BY <1>1, <1>4, <2>6 DEF Decoded, Top!Decoded
<1> QED BY <1>2, <1>3, <1>4 DEF RoundTrip

(* Two messages are read as one.                                           *)
LEMMA PartsMergeHolds == WireInv => PartsMerge
<1> SUFFICES ASSUME WireInv, stage = "joined", result # <<>>
             PROVE  result = [ok |-> TRUE, msg |-> Top!Merge(type, msg, second[1])]
  BY DEF PartsMerge
<1>1. type \in Types /\ result = Decoded(type, wire) /\ IsJoined /\ IsShort
  BY DEF WireInv
<1>2. PICK m : m = second[1]
  OBVIOUS
<1>3. /\ msg \in Samples[type] /\ m \in Samples[type]
      /\ wire = Top!Encoded(type, msg) \o Top!Encoded(type, m)
  BY <1>1, <1>2, SampleFacts DEF IsJoined
<1>4. Top!Is(type, msg) /\ Top!Is(type, m) /\ Top!WellFormed(type, TwoTypes)
  BY <1>1, <1>3, SampleFacts, TopLaws DEF Is
<1>5. Len(wire) < Top!MaxLength
  <2>1. Len(wire) \in Nat /\ Len(wire) <= Short
    BY <1>1 DEF IsShort
  <2> QED BY <2>1, ShortIs
<1>6. Top!Unmarshal(type, wire, Top!Default(type)) = [ok |-> TRUE, msg |-> Top!Merge(type, msg, m)]
  BY <1>3, <1>4, <1>5, TopInner, Top!JoinLaw
<1> QED BY <1>1, <1>2, <1>6 DEF Decoded, Top!Decoded

(* Bytes that were cut are accepted only between fields.                   *)
LEMMA PrefixesHold == WireInv => PrefixesRefused
<1> SUFFICES ASSUME WireInv, stage = "cut", result # <<>>
             PROVE  result.ok <=> Len(wire) \in Top!Boundaries(type, msg)
  BY DEF PrefixesRefused
<1>1. type \in Types /\ result = Decoded(type, wire) /\ IsPrefix /\ IsShort
  BY DEF WireInv
<1>2. PICK b, l : b = Top!Encoded(type, msg) /\ l = Len(b)
  OBVIOUS
<1>3. PICK n \in 0..(l - 1) : wire = SubSeq(b, 1, n)
  BY <1>1, <1>2 DEF IsPrefix
<1>4. PICK o : o = Top!Default(type)
  OBVIOUS
<1>5. /\ Top!Is(type, msg) /\ Top!Is(type, o) /\ Top!WellFormed(type, TwoTypes)
      /\ b \in Seq(0..255) /\ l \in Nat /\ l < Top!MaxLength /\ wire \in Seq(Top!Byte)
  <2>1. msg \in Samples[type]
    BY <1>1 DEF IsPrefix
  <2>2. wire \in Seq(0..255) /\ Top!Byte = 0..255
    BY <1>1 DEF IsShort, Top!Byte
  <2> QED BY <1>1, <1>2, <1>4, <2>1, <2>2, SampleFacts, TopLaws, MessageIs DEF Is, Top!DefaultLaw
<1>6. Len(wire) = n /\ \A k \in 1..n : wire[k] = b[k]
  <2>1. n \in Nat /\ l \in Nat /\ n <= l
    BY <1>3, <1>5
  <2>2. 1 \in Int /\ n \in Int
    BY <2>1
  <2>3. ASSUME NEW k \in 1..n PROVE b[k] \in 0..255
    <3>1. k \in 1..l
      BY <2>1
    <3>2. k \in 1..Len(b)
      BY <1>2, <3>1
    <3> QED BY <1>5, <3>2, Top!Elem, Zenon
  <2>4. /\ Len(SubSeq(b, 1, n)) = IF 1 <= n THEN n - 1 + 1 ELSE 0
        /\ \A k \in 1..(n - 1 + 1) : SubSeq(b, 1, n)[k] = b[1 + k - 1]
    BY <2>2, <2>3, SubSeqProperties
  <2>5. n - 1 + 1 = n /\ \A k \in 1..n : 1 + k - 1 = k
    BY <2>1
  <2>6. Len(SubSeq(b, 1, n)) = n
    BY <2>1, <2>4
  <2>7. \A k \in 1..n : SubSeq(b, 1, n)[k] = b[k]
    BY <2>4, <2>5
  <2> QED BY <1>3, <2>6, <2>7
<1>7. Top!IsCut(TwoTypes, type, msg, o, wire) /\ Len(wire) <= Len(b)
  <2>1. n <= l
    BY <1>3, <1>5
  <2>2. Top!Agrees(wire, 1, b)
    BY <1>2, <1>5, <1>6, <2>1 DEF Top!Agrees
  <2> QED BY <1>2, <1>5, <1>6, <2>1, <2>2, TopInner DEF Top!IsCut
<1>8. /\ Len(wire) \in Top!Boundaries(type, msg) =>
           \E z : Top!Unmarshal(type, wire, o) = [ok |-> TRUE, msg |-> z]
      /\ Len(wire) \notin Top!Boundaries(type, msg) =>
           Top!Unmarshal(type, wire, o) = [ok |-> FALSE]
  BY <1>2, <1>7, Top!CutLaw DEF Top!Failed
<1>9. result = Top!Unmarshal(type, wire, o)
  BY <1>1, <1>4 DEF Decoded, Top!Decoded
<1> QED BY <1>8, <1>9

(* What is accepted can be stored.                                         *)
LEMMA StableHolds == WireInv => AcceptedIsStable
<1> SUFFICES ASSUME WireInv, result # <<>>, result.ok
             PROVE  /\ Marshal(type, result.msg).ok
                    /\ Decoded(type, Marshal(type, result.msg).bytes) = result
  BY DEF AcceptedIsStable
<1>1. type \in Types /\ result = Decoded(type, wire) /\ wire \in Seq(0..255) /\ Len(wire) <= Short
  BY DEF WireInv, IsShort
<1> QED BY <1>1, Stable

-----------------------------------------------------------------------------
(* The migration.  A record of the new store has the bytes of one of the   *)
(* old store without the old address, which is why a second migration      *)
(* finds what the first one wrote.                                         *)

(* The old configuration that has the bytes of a new one.                  *)
LegacyConfig(c) == [Permission |-> c.Permission, Address |-> <<>>, Addresses |-> c.Addresses]

(* Access configurations as records.                                       *)
LEMMA RecordsOf ==
  /\ \A c : c = [x \in {"Permission", "Addresses"} |-> c[x]] <=>
            c = [Permission |-> c.Permission, Addresses |-> c.Addresses]
  /\ \A c : c = [x \in {"Permission", "Address", "Addresses"} |-> c[x]] <=>
            c = [Permission |-> c.Permission, Address |-> c.Address, Addresses |-> c.Addresses]
  OBVIOUS

(* The types of the records are known.                                     *)
LEMMA AllTypes ==
  /\ "V3_CodeInfo" \in Types /\ "CodeInfo" \in Types
  /\ "V2_Params" \in Types /\ "V3_Params" \in Types /\ "Params" \in Types
  BY MigrationAssumption

(* The fields of a CodeInfo.                                               *)
LEMMA CodeInfoTop ==
  ASSUME NEW T, NEW A, \/ T = "V3_CodeInfo" /\ A = "V3_AccessConfig"
                       \/ T = "CodeInfo" /\ A = "AccessConfig"
  PROVE  Top!HasRows3(TwoTypes, T, 10, "CodeHash", Bytes, 18, "Creator", Bytes,
                      42, "InstantiateConfig", Val(A))
<1>1. T \in Types
  BY AllTypes
<1>2. Top!WellFormed(T, TwoTypes) /\ Top!InnerLaws(TwoTypes)
  BY <1>1, TopLaws, TopInner
<1>3. Encoder[T] = <<<<10, "CodeHash", Bytes>>, <<18, "Creator", Bytes>>,
                     <<42, "InstantiateConfig", Val(A)>>>>
  BY MigrationAssumption DEF V3_CodeInfo_Marshal, CodeInfo_Marshal
<1> QED BY <1>2, <1>3 DEF Top!HasRows3

(* The fields of the parameters.                                           *)
LEMMA ParamsTop ==
  ASSUME NEW T, NEW A, \/ T = "V2_Params" /\ A = "V2_AccessConfig"
                       \/ T = "V3_Params" /\ A = "V3_AccessConfig"
                       \/ T = "Params" /\ A = "AccessConfig"
  PROVE  Top!HasRows2(TwoTypes, T, 10, "CodeUploadAccess", Val(A),
                      16, "InstantiateDefaultPermission", Enum)
<1>1. T \in Types
  BY AllTypes
<1>2. Top!WellFormed(T, TwoTypes) /\ Top!InnerLaws(TwoTypes)
  BY <1>1, TopLaws, TopInner
<1>3. Encoder[T] = <<<<10, "CodeUploadAccess", Val(A)>>,
                     <<16, "InstantiateDefaultPermission", Enum>>>>
  BY MigrationAssumption DEF V2_Params_Marshal, V3_Params_Marshal, Params_Marshal
<1> QED BY <1>2, <1>3 DEF Top!HasRows2

(* The fields of an access configuration.                                  *)
LEMMA ConfigTwo ==
  ASSUME NEW A \in {"V2_AccessConfig", "V3_AccessConfig", "AccessConfig"}
  PROVE  /\ Two!WellFormed(A, OneTypes)
         /\ A = "AccessConfig" =>
              Two!HasRows2(OneTypes, A, 8, "Permission", Enum, 26, "Addresses", Strings)
         /\ A # "AccessConfig" =>
              Two!HasRows3(OneTypes, A, 8, "Permission", Enum, 18, "Address", Bytes,
                           26, "Addresses", Strings)
<1>1. PICK T : \/ T = "V2_Params" /\ A = "V2_AccessConfig"
               \/ T = "V3_Params" /\ A = "V3_AccessConfig"
               \/ T = "Params" /\ A = "AccessConfig"
  OBVIOUS
<1>2. Top!HasRows2(TwoTypes, T, 10, "CodeUploadAccess", Val(A),
                   16, "InstantiateDefaultPermission", Enum)
  BY <1>1, ParamsTop
<1>3. Top!IsKind(Val(A), TwoTypes)
  BY <1>2, Top!Rows2
<1>4. A \in TwoTypes
  BY <1>3 DEF Top!IsKind, Top!Numbers, Val
<1>5. Two!WellFormed(A, OneTypes) /\ Two!InnerLaws(OneTypes)
  BY <1>4, TwoInner DEF TwoTypes, Two!Coded
<1>6. A = "AccessConfig" => Encoder[A] = <<<<8, "Permission", Enum>>, <<26, "Addresses", Strings>>>>
  BY MigrationAssumption DEF AccessConfig_Marshal
<1>7. A # "AccessConfig" =>
        Encoder[A] = <<<<8, "Permission", Enum>>, <<18, "Address", Bytes>>,
                       <<26, "Addresses", Strings>>>>
  BY MigrationAssumption DEF V2_AccessConfig_Marshal, V3_AccessConfig_Marshal
<1> QED BY <1>5, <1>6, <1>7 DEF Two!HasRows2, Two!HasRows3

(* The permissions are values of an enum.                                  *)
LEMMA PermissionIs ==
  ASSUME NEW p \in Permissions
  PROVE  /\ Two!IsValue(Enum, p) /\ Top!IsValue(Enum, p)
<1>1. PICK n \in {1, 2, 3, 4} : p = <<n>>
  BY DEF Permissions
<1>2. p \in Seq(0..127) /\ Len(p) = 1 /\ p[1] # 0 /\ Len(p) <= 5 /\ Len(p) # 5
  BY <1>1
<1>3. Two!IsInt32(p) /\ Top!IsInt32(p)
  BY <1>2 DEF Two!IsInt32, Top!IsInt32, Two!Septet, Top!Septet
<1> QED BY <1>3 DEF Two!IsValue, Top!IsValue, Enum

(* Values of the kinds that the records have.                              *)
LEMMA ByteStrings ==
  /\ \A v : v \in Seq(0..255) <=> Two!IsValue(Bytes, v)
  /\ \A v : v \in Seq(0..255) <=> Top!IsValue(Bytes, v)
  /\ \A v : v \in Seq(Seq(0..255)) <=> Two!IsValue(Strings, v)
  /\ \A v : Two!Is("AccessConfig", v) <=> Top!IsValue(Val("AccessConfig"), v)
  /\ \A v : Two!Is("V3_AccessConfig", v) <=> Top!IsValue(Val("V3_AccessConfig"), v)
  /\ \A v : Two!Is("V2_AccessConfig", v) <=> Top!IsValue(Val("V2_AccessConfig"), v)
  BY DEF Two!IsValue, Top!IsValue, Two!Byte, Top!Byte, Bytes, Strings, Val

(* What an access configuration is, now and in the old store.              *)
IsNewConfig(c) ==
  /\ c = [Permission |-> c.Permission, Addresses |-> c.Addresses]
  /\ Two!IsValue(Enum, c.Permission) /\ Two!IsValue(Strings, c.Addresses)

IsOldConfig(c) ==
  /\ c = [Permission |-> c.Permission, Address |-> c.Address, Addresses |-> c.Addresses]
  /\ Two!IsValue(Enum, c.Permission) /\ Two!IsValue(Bytes, c.Address)
  /\ Two!IsValue(Strings, c.Addresses)

(* Access configurations, old and new, are such records.                   *)
LEMMA ConfigIs ==
  /\ \A c : Two!Is("AccessConfig", c) <=> IsNewConfig(c)
  /\ \A c : Two!Is("V3_AccessConfig", c) <=> IsOldConfig(c)
  /\ \A c : Two!Is("V2_AccessConfig", c) <=> IsOldConfig(c)
<1>1. ASSUME NEW c PROVE Two!Is("AccessConfig", c) <=> IsNewConfig(c)
  <2>1. Two!HasRows2(OneTypes, "AccessConfig", 8, "Permission", Enum, 26, "Addresses", Strings)
    BY ConfigTwo
  <2>2. Two!Is("AccessConfig", c) <=>
          /\ c = [x \in {"Permission", "Addresses"} |-> c[x]]
          /\ Two!IsValue(Enum, c["Permission"]) /\ Two!IsValue(Strings, c["Addresses"])
    BY <2>1, Two!Rows2
  <2> QED BY <2>2, RecordsOf DEF IsNewConfig
<1>2. ASSUME NEW A \in {"V2_AccessConfig", "V3_AccessConfig"}, NEW c
      PROVE  Two!Is(A, c) <=> IsOldConfig(c)
  <2>1. Two!HasRows3(OneTypes, A, 8, "Permission", Enum, 18, "Address", Bytes,
                     26, "Addresses", Strings)
    BY ConfigTwo
  <2>2. Two!Is(A, c) <=>
          /\ c = [x \in {"Permission", "Address", "Addresses"} |-> c[x]]
          /\ Two!IsValue(Enum, c["Permission"]) /\ Two!IsValue(Bytes, c["Address"])
          /\ Two!IsValue(Strings, c["Addresses"])
    BY <2>1, Two!Rows3
  <2> QED BY <2>2, RecordsOf DEF IsOldConfig
<1> QED BY <1>1, <1>2

(* A new configuration has the bytes of an old one without address, and    *)
(* migrating that one gives the new one again.                             *)
LEMMA ConfigBytes ==
  ASSUME NEW c, IsNewConfig(c)
  PROVE  /\ IsOldConfig(LegacyConfig(c))
         /\ Two!Encoded("V3_AccessConfig", LegacyConfig(c)) = Two!Encoded("AccessConfig", c)
         /\ c.Permission # <<2>> => updateAccessConfig(LegacyConfig(c)) = c
<1>1. PICK o : o = LegacyConfig(c)
  OBVIOUS
<1>2. /\ o = [Permission |-> c.Permission, Address |-> <<>>, Addresses |-> c.Addresses]
      /\ o.Permission = c.Permission /\ o.Address = <<>> /\ o.Addresses = c.Addresses
  BY <1>1 DEF LegacyConfig
<1>3. <<>> \in Seq(0..255)
  OBVIOUS
<1>4. Two!IsValue(Bytes, <<>>)
  BY <1>3, ByteStrings
<1>5. IsOldConfig(o)
  BY <1>2, <1>4 DEF IsNewConfig, IsOldConfig
<1>6. PICK a, b : /\ a = Two!Joined(Two!Pieces(8, Enum, c.Permission))
                  /\ b = Two!Joined(Two!Pieces(26, Strings, c.Addresses))
  OBVIOUS
<1>7. Two!Encoded("AccessConfig", c) = a \o b /\ a \in Seq(Two!Byte)
  <2>1. Two!HasRows2(OneTypes, "AccessConfig", 8, "Permission", Enum, 26, "Addresses", Strings)
    BY ConfigTwo
  <2>2. Two!Is("AccessConfig", c)
    BY ConfigIs
  <2>3. /\ Two!Encoded("AccessConfig", c) = Two!RowBytes(8, "Permission", Enum, c)
                                             \o Two!RowBytes(26, "Addresses", Strings, c)
        /\ Two!RowBytes(8, "Permission", Enum, c) \in Seq(Two!Byte)
    <3>1. Two!Splits2("AccessConfig", c, 8, "Permission", Enum, 26, "Addresses", Strings)
      BY <2>1, <2>2, Two!Rows2
    <3> QED BY <3>1 DEF Two!Splits2
  <2> QED BY <1>6, <2>3 DEF Two!RowBytes
<1>8. Two!Encoded("V3_AccessConfig", o) = (a \o <<>>) \o b
  <2>1. Two!HasRows3(OneTypes, "V3_AccessConfig", 8, "Permission", Enum, 18, "Address", Bytes,
                     26, "Addresses", Strings)
    BY ConfigTwo
  <2>2. Two!Is("V3_AccessConfig", o)
    BY <1>5, ConfigIs
  <2>3. Two!Encoded("V3_AccessConfig", o) =
          (Two!RowBytes(8, "Permission", Enum, o) \o Two!RowBytes(18, "Address", Bytes, o))
          \o Two!RowBytes(26, "Addresses", Strings, o)
    <3>1. Two!Splits3("V3_AccessConfig", o, 8, "Permission", Enum, 18, "Address", Bytes,
                      26, "Addresses", Strings)
      BY <2>1, <2>2, Two!Rows3
    <3> QED BY <3>1 DEF Two!Splits3
  <2>4. Bytes[1] = "bytes"
    BY DEF Bytes
  <2>5. Two!Joined(Two!Pieces(18, Bytes, <<>>)) = <<>>
    BY <2>4, Two!NoPieces
  <2> QED BY <1>2, <1>6, <2>3, <2>5 DEF Two!RowBytes
<1>9. a \o <<>> = a
  BY <1>7
<1>10. c.Permission # <<2>> => updateAccessConfig(o) = c
  BY <1>2 DEF updateAccessConfig, IsNewConfig
<1> QED BY <1>1, <1>5, <1>7, <1>8, <1>9, <1>10

(* Code infos and parameters as records.                                   *)
LEMMA TopRecordsOf ==
  /\ \A c : c = [x \in {"CodeHash", "Creator", "InstantiateConfig"} |-> c[x]] <=>
            c = [CodeHash |-> c.CodeHash, Creator |-> c.Creator,
                 InstantiateConfig |-> c.InstantiateConfig]
  /\ \A c : c = [x \in {"CodeUploadAccess", "InstantiateDefaultPermission"} |-> c[x]] <=>
            c = [CodeUploadAccess |-> c.CodeUploadAccess,
                 InstantiateDefaultPermission |-> c.InstantiateDefaultPermission]
  OBVIOUS

(* What a code info is, with a configuration of type A.                    *)
IsCodeInfo(A, m) ==
  /\ m = [CodeHash |-> m.CodeHash, Creator |-> m.Creator, InstantiateConfig |-> m.InstantiateConfig]
  /\ Top!IsValue(Bytes, m.CodeHash) /\ Top!IsValue(Bytes, m.Creator)
  /\ Two!Is(A, m.InstantiateConfig)

(* What parameters are, with a configuration of type A.                    *)
IsParams(A, m) ==
  /\ m = [CodeUploadAccess |-> m.CodeUploadAccess,
          InstantiateDefaultPermission |-> m.InstantiateDefaultPermission]
  /\ Two!Is(A, m.CodeUploadAccess) /\ Top!IsValue(Enum, m.InstantiateDefaultPermission)

(* Code infos and parameters, old and new, are such records.               *)
LEMMA RecordIs ==
  /\ \A m : Is("V3_CodeInfo", m) <=> IsCodeInfo("V3_AccessConfig", m)
  /\ \A m : Is("CodeInfo", m) <=> IsCodeInfo("AccessConfig", m)
  /\ \A m : Is("V2_Params", m) <=> IsParams("V2_AccessConfig", m)
  /\ \A m : Is("V3_Params", m) <=> IsParams("V3_AccessConfig", m)
  /\ \A m : Is("Params", m) <=> IsParams("AccessConfig", m)
<1>1. ASSUME NEW m, NEW T, NEW A, \/ T = "V3_CodeInfo" /\ A = "V3_AccessConfig"
                                  \/ T = "CodeInfo" /\ A = "AccessConfig"
      PROVE  Is(T, m) <=> IsCodeInfo(A, m)
  <2>1. Top!HasRows3(TwoTypes, T, 10, "CodeHash", Bytes, 18, "Creator", Bytes,
                      42, "InstantiateConfig", Val(A))
    BY <1>1, CodeInfoTop
  <2>2. Top!Is(T, m) <=>
          /\ m = [x \in {"CodeHash", "Creator", "InstantiateConfig"} |-> m[x]]
          /\ Top!IsValue(Bytes, m["CodeHash"]) /\ Top!IsValue(Bytes, m["Creator"])
          /\ Top!IsValue(Val(A), m["InstantiateConfig"])
    BY <2>1, Top!Rows3
  <2>3. \A v : Two!Is(A, v) <=> Top!IsValue(Val(A), v)
    BY <1>1, ByteStrings
  <2> QED BY <2>2, <2>3, TopRecordsOf DEF IsCodeInfo, Is
<1>2. ASSUME NEW m, NEW T, NEW A, \/ T = "V2_Params" /\ A = "V2_AccessConfig"
                                  \/ T = "V3_Params" /\ A = "V3_AccessConfig"
                                  \/ T = "Params" /\ A = "AccessConfig"
      PROVE  Is(T, m) <=> IsParams(A, m)
  <2>1. Top!HasRows2(TwoTypes, T, 10, "CodeUploadAccess", Val(A),
                      16, "InstantiateDefaultPermission", Enum)
    BY <1>2, ParamsTop
  <2>2. Top!Is(T, m) <=>
          /\ m = [x \in {"CodeUploadAccess", "InstantiateDefaultPermission"} |-> m[x]]
          /\ Top!IsValue(Val(A), m["CodeUploadAccess"])
          /\ Top!IsValue(Enum, m["InstantiateDefaultPermission"])
    BY <2>1, Top!Rows2
  <2>3. \A v : Two!Is(A, v) <=> Top!IsValue(Val(A), v)
    BY <1>2, ByteStrings
  <2> QED BY <2>2, <2>3, TopRecordsOf DEF IsParams, Is
<1> QED BY <1>1, <1>2

(* Embedded messages with the same bytes make fields with the same bytes.  *)
LEMMA EmbeddedBytes ==
  ASSUME NEW A, NEW B, NEW tag, NEW a, NEW b, Two!Encoded(A, a) = Two!Encoded(B, b)
  PROVE  Top!Joined(Top!Pieces(tag, Val(A), a)) = Top!Joined(Top!Pieces(tag, Val(B), b))
<1>1. PICK k, l : k = Val(A) /\ l = Val(B)
  OBVIOUS
<1>2. k[1] = "val" /\ l[1] = "val" /\ k[2] = A /\ l[2] = B
  BY <1>1 DEF Val
<1>3. Two!Encoded(k[2], a) = Two!Encoded(l[2], b)
  BY <1>2
<1>4. Top!Pieces(tag, k, a) = Top!Pieces(tag, l, b)
  BY <1>2, <1>3, Top!SamePieces
<1> QED BY <1>1, <1>4

(* Code infos, old and new, with the same bytes.                           *)
LEMMA CodeInfoBytes ==
  ASSUME NEW m, Is("CodeInfo", m), NEW o, Is("V3_CodeInfo", o),
         o.CodeHash = m.CodeHash, o.Creator = m.Creator,
         Two!Encoded("V3_AccessConfig", o.InstantiateConfig)
           = Two!Encoded("AccessConfig", m.InstantiateConfig)
  PROVE  Top!Encoded("V3_CodeInfo", o) = Top!Encoded("CodeInfo", m)
<1>1. Top!HasRows3(TwoTypes, "CodeInfo", 10, "CodeHash", Bytes, 18, "Creator", Bytes,
                   42, "InstantiateConfig", Val("AccessConfig"))
  BY CodeInfoTop
<1>2. Top!HasRows3(TwoTypes, "V3_CodeInfo", 10, "CodeHash", Bytes, 18, "Creator", Bytes,
                   42, "InstantiateConfig", Val("V3_AccessConfig"))
  BY CodeInfoTop
<1>3. Top!Is("CodeInfo", m) /\ Top!Is("V3_CodeInfo", o)
  BY DEF Is
<1>4. Top!Splits3("CodeInfo", m, 10, "CodeHash", Bytes, 18, "Creator", Bytes,
                  42, "InstantiateConfig", Val("AccessConfig"))
  BY <1>1, <1>3, Top!Rows3
<1>5. Top!Splits3("V3_CodeInfo", o, 10, "CodeHash", Bytes, 18, "Creator", Bytes,
                  42, "InstantiateConfig", Val("V3_AccessConfig"))
  BY <1>2, <1>3, Top!Rows3
<1>6. Top!RowBytes(42, "InstantiateConfig", Val("V3_AccessConfig"), o)
        = Top!RowBytes(42, "InstantiateConfig", Val("AccessConfig"), m)
  BY EmbeddedBytes DEF Top!RowBytes
<1>7. /\ Top!RowBytes(10, "CodeHash", Bytes, o) = Top!RowBytes(10, "CodeHash", Bytes, m)
      /\ Top!RowBytes(18, "Creator", Bytes, o) = Top!RowBytes(18, "Creator", Bytes, m)
  BY DEF Top!RowBytes
<1> QED BY <1>4, <1>5, <1>6, <1>7 DEF Top!Splits3

(* Parameters, old and new, with the same bytes.                           *)
LEMMA ParamsBytes ==
  ASSUME NEW T \in {"V2_Params", "Params"}, NEW m, Is(T, m), NEW o, Is("V3_Params", o),
         o.InstantiateDefaultPermission = m.InstantiateDefaultPermission,
         NEW A, \/ T = "V2_Params" /\ A = "V2_AccessConfig"
                \/ T = "Params" /\ A = "AccessConfig",
         Two!Encoded("V3_AccessConfig", o.CodeUploadAccess) = Two!Encoded(A, m.CodeUploadAccess)
  PROVE  Top!Encoded("V3_Params", o) = Top!Encoded(T, m)
<1>1. Top!HasRows2(TwoTypes, T, 10, "CodeUploadAccess", Val(A),
                   16, "InstantiateDefaultPermission", Enum)
  BY ParamsTop
<1>2. Top!HasRows2(TwoTypes, "V3_Params", 10, "CodeUploadAccess", Val("V3_AccessConfig"),
                   16, "InstantiateDefaultPermission", Enum)
  BY ParamsTop
<1>3. Top!Is(T, m) /\ Top!Is("V3_Params", o)
  BY DEF Is
<1>4. Top!Splits2(T, m, 10, "CodeUploadAccess", Val(A), 16, "InstantiateDefaultPermission", Enum)
  BY <1>1, <1>3, Top!Rows2
<1>5. Top!Splits2("V3_Params", o, 10, "CodeUploadAccess", Val("V3_AccessConfig"),
                  16, "InstantiateDefaultPermission", Enum)
  BY <1>2, <1>3, Top!Rows2
<1>6. Top!RowBytes(10, "CodeUploadAccess", Val("V3_AccessConfig"), o)
        = Top!RowBytes(10, "CodeUploadAccess", Val(A), m)
  BY EmbeddedBytes DEF Top!RowBytes
<1>7. Top!RowBytes(16, "InstantiateDefaultPermission", Enum, o)
        = Top!RowBytes(16, "InstantiateDefaultPermission", Enum, m)
  BY DEF Top!RowBytes
<1> QED BY <1>4, <1>5, <1>6, <1>7 DEF Top!Splits2

(* updateAccessConfig admits the same addresses as before.                 *)
LEMMA LegacyConfigFacts ==
  ASSUME NEW c \in LegacyConfigs
  PROVE  /\ IsOldConfig(c) /\ IsNewConfig(updateAccessConfig(c))
         /\ updateAccessConfig(c).Permission # <<2>>
         /\ \A a : Allows(updateAccessConfig(c), a) <=> LegacyAllows(c, a)
<1>1. IsOldConfig(c) /\ c.Permission \in Permissions
  BY LegacyAssumption, ConfigIs
<1>2. PICK p, s, l : p = c.Permission /\ s = c.Address /\ l = c.Addresses
  OBVIOUS
<1>3. /\ c = [Permission |-> p, Address |-> s, Addresses |-> l]
      /\ p \in Permissions /\ s \in Seq(0..255) /\ l \in Seq(Seq(0..255))
  BY <1>1, <1>2, ByteStrings DEF IsOldConfig
<1>4. c.Permission = p /\ c.Address = s /\ c.Addresses = l
  BY <1>2
<1>5. <<s>> \in Seq(Seq(0..255))
  BY <1>3
<1>6. <<4>> \in Permissions /\ <<4>> # <<2>> /\ <<4>> # <<3>> /\ <<2>> # <<3>>
  BY DEF Permissions
<1>7. CASE p = <<2>>
  <2>1. updateAccessConfig(c) = [Permission |-> <<4>>, Addresses |-> <<s>>]
    BY <1>4, <1>7 DEF updateAccessConfig
  <2>2. IsNewConfig(updateAccessConfig(c))
    <3>1. Two!IsValue(Enum, <<4>>) /\ Two!IsValue(Strings, <<s>>)
      BY <1>5, <1>6, PermissionIs, ByteStrings
    <3>2. PICK l4, ls : l4 = <<4>> /\ ls = <<s>>
      OBVIOUS
    <3> QED BY <2>1, <3>1, <3>2 DEF IsNewConfig
  <2>3. \A a : a \in Range(<<s>>) <=> a = s
    BY DEF Range
  <2>4. \A a : Allows(updateAccessConfig(c), a) <=> LegacyAllows(c, a)
    BY <1>4, <1>6, <1>7, <2>1, <2>3 DEF Allows, LegacyAllows
  <2> QED BY <1>1, <1>6, <2>1, <2>2, <2>4
<1>8. CASE p # <<2>>
  <2>1. updateAccessConfig(c) = [Permission |-> p, Addresses |-> l]
    BY <1>4, <1>8 DEF updateAccessConfig
  <2>2. IsNewConfig(updateAccessConfig(c))
    BY <1>3, <2>1, PermissionIs, ByteStrings DEF IsNewConfig
  <2>3. \A a : Allows(updateAccessConfig(c), a) <=> LegacyAllows(c, a)
    BY <1>4, <1>8, <2>1 DEF Allows, LegacyAllows
  <2> QED BY <1>1, <1>8, <2>1, <2>2, <2>3
<1> QED BY <1>7, <1>8

(* A migrated code info, and the old one that has the same bytes.          *)
LEMMA CodeInfoMigrates ==
  ASSUME NEW m \in LegacySamples("V3_CodeInfo")
  PROVE  /\ Is("V3_CodeInfo", m) /\ ~Is("CodeInfo", m) /\ Is("CodeInfo", MigratedCodeInfo(m))
         /\ m.InstantiateConfig \in LegacyConfigs
         /\ \E o : /\ Is("V3_CodeInfo", o) /\ MigratedCodeInfo(o) = MigratedCodeInfo(m)
                   /\ Top!Encoded("V3_CodeInfo", o) = Top!Encoded("CodeInfo", MigratedCodeInfo(m))
<1>1. PICK a \in Accounts, c \in LegacyConfigs :
        m = [CodeHash |-> <<9>>, Creator |-> a, InstantiateConfig |-> c]
  BY DEF LegacySamples
<1>2. m.CodeHash = <<9>> /\ m.Creator = a /\ m.InstantiateConfig = c
  BY <1>1
<1>3. Top!IsValue(Bytes, <<9>>) /\ Top!IsValue(Bytes, a)
  <2>1. <<9>> \in Seq(0..255)
    OBVIOUS
  <2>2. a \in Seq(0..255)
    BY LegacyAssumption
  <2> QED BY <2>1, <2>2, ByteStrings
<1>4. /\ IsOldConfig(c) /\ IsNewConfig(updateAccessConfig(c))
      /\ updateAccessConfig(c).Permission # <<2>>
  BY LegacyConfigFacts
<1>5. Is("V3_CodeInfo", m)
  BY <1>1, <1>2, <1>3, <1>4, ConfigIs, RecordIs DEF IsCodeInfo
<1>6. PICK d : d = updateAccessConfig(c)
  OBVIOUS
<1>7. PICK n : n = MigratedCodeInfo(m)
  OBVIOUS
<1>8. /\ n = [CodeHash |-> <<9>>, Creator |-> a, InstantiateConfig |-> d]
      /\ n.CodeHash = <<9>> /\ n.Creator = a /\ n.InstantiateConfig = d
  BY <1>2, <1>6, <1>7 DEF MigratedCodeInfo
<1>9. Is("CodeInfo", n)
  BY <1>3, <1>4, <1>6, <1>8, ConfigIs, RecordIs DEF IsCodeInfo
<1>10. ~Is("CodeInfo", m)
  <2>1. ~IsNewConfig(c)
    <3>1. "Address" \in DOMAIN c
      BY <1>4 DEF IsOldConfig
    <3>2. IsNewConfig(c) => "Address" \notin DOMAIN c
      BY DEF IsNewConfig
    <3> QED BY <3>1, <3>2
  <2> QED BY <1>2, <2>1, ConfigIs, RecordIs DEF IsCodeInfo
<1>11. PICK o : o = [CodeHash |-> <<9>>, Creator |-> a, InstantiateConfig |-> LegacyConfig(d)]
  OBVIOUS
<1>12. o.CodeHash = <<9>> /\ o.Creator = a /\ o.InstantiateConfig = LegacyConfig(d)
  BY <1>11
<1>13. /\ IsOldConfig(LegacyConfig(d)) /\ updateAccessConfig(LegacyConfig(d)) = d
       /\ Two!Encoded("V3_AccessConfig", LegacyConfig(d)) = Two!Encoded("AccessConfig", d)
  BY <1>4, <1>6, ConfigBytes
<1>14. Is("V3_CodeInfo", o)
  BY <1>3, <1>11, <1>12, <1>13, ConfigIs, RecordIs DEF IsCodeInfo
<1>15. MigratedCodeInfo(o) = n
  BY <1>8, <1>12, <1>13 DEF MigratedCodeInfo
<1>16. Top!Encoded("V3_CodeInfo", o) = Top!Encoded("CodeInfo", n)
  BY <1>8, <1>9, <1>12, <1>13, <1>14, CodeInfoBytes
<1> QED BY <1>2, <1>5, <1>7, <1>9, <1>10, <1>14, <1>15, <1>16

(* Migrated parameters, and the old ones that have the same bytes.         *)
LEMMA ParamsMigrate ==
  ASSUME NEW m \in LegacySamples("V3_Params")
  PROVE  /\ Is("V2_Params", m) /\ Is("V3_Params", m) /\ ~Is("Params", m)
         /\ Is("Params", MigratedParams(m)) /\ m.CodeUploadAccess \in LegacyConfigs
         /\ MigratedParams(m).InstantiateDefaultPermission # <<2>>
         /\ Top!Encoded("V3_Params", m) = Top!Encoded("V2_Params", m)
         /\ \E o : /\ Is("V3_Params", o) /\ MigratedParams(o) = MigratedParams(m)
                   /\ Top!Encoded("V3_Params", o) = Top!Encoded("Params", MigratedParams(m))
<1>1. PICK c \in LegacyConfigs, p \in Permissions :
        m = [CodeUploadAccess |-> c, InstantiateDefaultPermission |-> p]
  BY DEF LegacySamples, Permissions
<1>2. m.CodeUploadAccess = c /\ m.InstantiateDefaultPermission = p
  BY <1>1
<1>3. /\ IsOldConfig(c) /\ IsNewConfig(updateAccessConfig(c))
      /\ updateAccessConfig(c).Permission # <<2>>
  BY LegacyConfigFacts
<1>4. Is("V3_Params", m) /\ Is("V2_Params", m)
  BY <1>1, <1>2, <1>3, PermissionIs, ConfigIs, RecordIs DEF IsParams
<1>5. Top!Encoded("V3_Params", m) = Top!Encoded("V2_Params", m)
  <2>1. Two!Encoded("V3_AccessConfig", c) = Two!Encoded("V2_AccessConfig", c)
    <3>1. Encoder["V3_AccessConfig"] = Encoder["V2_AccessConfig"]
      BY MigrationAssumption DEF V2_AccessConfig_Marshal, V3_AccessConfig_Marshal
    <3> QED BY <3>1 DEF Two!Encoded, Two!EncodedFields
  <2> QED BY <1>2, <1>4, <2>1, ParamsBytes
<1>6. PICK d, q : d = updateAccessConfig(c) /\ q = IF p = <<2>> THEN <<4>> ELSE p
  OBVIOUS
<1>7. q \in Permissions /\ q # <<2>>
  <2>1. <<4>> # <<2>> /\ <<4>> \in Permissions
    BY DEF Permissions
  <2> QED BY <1>6, <2>1
<1>8. PICK n : n = MigratedParams(m)
  OBVIOUS
<1>9. /\ n = [CodeUploadAccess |-> d, InstantiateDefaultPermission |-> q]
      /\ n.CodeUploadAccess = d /\ n.InstantiateDefaultPermission = q
  BY <1>2, <1>6, <1>8 DEF MigratedParams
<1>10. Is("Params", n)
  BY <1>3, <1>6, <1>7, <1>9, PermissionIs, ConfigIs, RecordIs DEF IsParams
<1>11. ~Is("Params", m)
  <2>1. ~IsNewConfig(c)
    <3>1. "Address" \in DOMAIN c
      BY <1>3 DEF IsOldConfig
    <3>2. IsNewConfig(c) => "Address" \notin DOMAIN c
      BY DEF IsNewConfig
    <3> QED BY <3>1, <3>2
  <2> QED BY <1>2, <2>1, ConfigIs, RecordIs DEF IsParams
<1>12. PICK o : o = [CodeUploadAccess |-> LegacyConfig(d), InstantiateDefaultPermission |-> q]
  OBVIOUS
<1>13. o.CodeUploadAccess = LegacyConfig(d) /\ o.InstantiateDefaultPermission = q
  BY <1>12
<1>14. /\ IsOldConfig(LegacyConfig(d)) /\ updateAccessConfig(LegacyConfig(d)) = d
       /\ Two!Encoded("V3_AccessConfig", LegacyConfig(d)) = Two!Encoded("AccessConfig", d)
  BY <1>3, <1>6, ConfigBytes
<1>15. Is("V3_Params", o)
  BY <1>7, <1>12, <1>13, <1>14, PermissionIs, ConfigIs, RecordIs DEF IsParams
<1>16. MigratedParams(o) = n
  BY <1>7, <1>9, <1>13, <1>14 DEF MigratedParams
<1>17. Top!Encoded("V3_Params", o) = Top!Encoded("Params", n)
  BY <1>9, <1>10, <1>13, <1>14, <1>15, ParamsBytes
<1> QED BY <1>2, <1>4, <1>5, <1>7, <1>8, <1>9, <1>10, <1>11, <1>15, <1>16, <1>17

(* What the migration wrote is short and can be read by the new type.      *)
LEMMA MigratedFacts ==
  ASSUME NEW T \in {"CodeInfo", "Params"}, NEW n, Is(T, n), Size(T, n) <= MaxMessage
  PROVE  /\ Marshal(T, n) = [ok |-> TRUE, bytes |-> Top!Encoded(T, n)]
         /\ Top!Encoded(T, n) \in Seq(0..255) /\ Len(Top!Encoded(T, n)) <= Short
         /\ Len(Top!Encoded(T, n)) < Top!MaxLength
         /\ Decoded(T, Top!Encoded(T, n)) = [ok |-> TRUE, msg |-> n]
<1>1. T \in Types
  BY AllTypes
<1>2. /\ Marshal(T, n) = [ok |-> TRUE, bytes |-> Top!Encoded(T, n)]
      /\ Top!Encoded(T, n) \in Seq(0..255) /\ Size(T, n) = Len(Top!Encoded(T, n))
  BY <1>1, Marshals
<1>3. PICK l : l = Len(Top!Encoded(T, n))
  OBVIOUS
<1>4. l \in Nat /\ l <= MaxMessage
  BY <1>2, <1>3
<1>5. l <= Short /\ l < Top!MaxLength
  BY <1>4, SMT DEF Short, MaxMessage, Top!MaxLength
<1>6. Decoded(T, Top!Encoded(T, n)) = [ok |-> TRUE, msg |-> n]
  BY <1>1, <1>3, <1>5, Unmarshals
<1> QED BY <1>2, <1>3, <1>5, <1>6

(* The migration reads an old code info.                                   *)
LEMMA CodeInfoRead ==
  ASSUME NEW o, Is("V3_CodeInfo", o), Len(Top!Encoded("V3_CodeInfo", o)) < Top!MaxLength
  PROVE  Decoded("V3_CodeInfo", Top!Encoded("V3_CodeInfo", o)).msg = o
<1>1. Decoded("V3_CodeInfo", Top!Encoded("V3_CodeInfo", o)) = [ok |-> TRUE, msg |-> o]
  BY AllTypes, Unmarshals
<1> QED BY <1>1

(* The migration reads old parameters.                                     *)
LEMMA ParamsRead ==
  ASSUME NEW o, Is("V3_Params", o), Len(Top!Encoded("V3_Params", o)) < Top!MaxLength
  PROVE  Decoded("V3_Params", Top!Encoded("V3_Params", o)).msg = o
<1>1. Decoded("V3_Params", Top!Encoded("V3_Params", o)) = [ok |-> TRUE, msg |-> o]
  BY AllTypes, Unmarshals
<1> QED BY <1>1

(* One record is migrated, or once more.                                   *)
LEMMA MigrateStep == WireInv /\ Migrate => WireInv'
<1> SUFFICES ASSUME WireInv, Migrate PROVE WireInv'
  OBVIOUS
<1>1. /\ type \in Types /\ stage \in {"sent", "migrated"} /\ result = <<>>
      /\ stage' = "migrated" /\ UNCHANGED <<msg, second, result>>
  BY DEF WireInv, Migrate
<1>2. stage = "sent" => /\ Is(type, msg) /\ wire = Top!Encoded(type, msg)
                        /\ Len(Top!Encoded(type, msg)) < Top!MaxLength
  <2>1. HAVE stage = "sent"
  <2>2. msg \in Samples[type] /\ wire = Top!Encoded(type, msg)
    BY <2>1 DEF WireInv, IsSent
  <2> QED BY <1>1, <2>2, SampleFacts, MessageIs
<1>3. stage = "migrated" => IsMigrated
  BY DEF WireInv
<1>4. CASE /\ type \in CodeInfoTypes /\ msg \in LegacySamples("V3_CodeInfo")
           /\ type' = "CodeInfo"
           /\ wire' = Marshal("CodeInfo", MigratedCodeInfo(Decoded("V3_CodeInfo", wire).msg)).bytes
  <2>1. PICK n : n = MigratedCodeInfo(msg)
    OBVIOUS
  <2>2. PICK b : b = Top!Encoded("CodeInfo", n)
    OBVIOUS
  <2>3. Is("CodeInfo", n) /\ Size("CodeInfo", n) <= MaxMessage
    BY <1>4, <2>1, CodeInfoMigrates, MigrationAssumption
  <2>4. /\ Marshal("CodeInfo", n) = [ok |-> TRUE, bytes |-> b]
        /\ b \in Seq(0..255) /\ Len(b) <= Short /\ Len(b) < Top!MaxLength
    BY <2>2, <2>3, MigratedFacts
  <2>5. MigratedCodeInfo(Decoded("V3_CodeInfo", wire).msg) = n
    <3>1. CASE stage = "sent"
      <4>1. type = "V3_CodeInfo"
        BY <1>2, <1>4, <3>1, CodeInfoMigrates DEF CodeInfoTypes
      <4> QED BY <1>2, <2>1, <3>1, <4>1, CodeInfoRead
    <3>2. CASE stage = "migrated"
      <4>1. "Params" \notin CodeInfoTypes
        BY DEF CodeInfoTypes
      <4>2. wire = b
        BY <1>3, <1>4, <2>1, <2>2, <3>2, <4>1 DEF IsMigrated
      <4>3. PICK o : /\ Is("V3_CodeInfo", o) /\ MigratedCodeInfo(o) = n
                     /\ Top!Encoded("V3_CodeInfo", o) = b
        BY <1>4, <2>1, <2>2, CodeInfoMigrates
      <4> QED BY <2>4, <4>2, <4>3, CodeInfoRead
    <3> QED BY <1>1, <3>1, <3>2
  <2>6. wire' = b
    BY <1>4, <2>4, <2>5
  <2>7. IsMigrated'
    BY <1>1, <1>4, <2>1, <2>2, <2>6 DEF IsMigrated
  <2> QED BY <1>1, <1>4, <2>4, <2>6, <2>7, AllTypes DEF WireInv, Stages, IsShort
<1>5. CASE /\ type \in ParamsTypes /\ msg \in LegacySamples("V3_Params")
           /\ type' = "Params"
           /\ wire' = Marshal("Params", MigratedParams(Decoded("V3_Params", wire).msg)).bytes
  <2>1. PICK n : n = MigratedParams(msg)
    OBVIOUS
  <2>2. PICK b : b = Top!Encoded("Params", n)
    OBVIOUS
  <2>3. Is("Params", n) /\ Size("Params", n) <= MaxMessage
    BY <1>5, <2>1, ParamsMigrate, MigrationAssumption
  <2>4. /\ Marshal("Params", n) = [ok |-> TRUE, bytes |-> b]
        /\ b \in Seq(0..255) /\ Len(b) <= Short /\ Len(b) < Top!MaxLength
    BY <2>2, <2>3, MigratedFacts
  <2>5. MigratedParams(Decoded("V3_Params", wire).msg) = n
    <3>1. CASE stage = "sent"
      <4>1. type \in {"V2_Params", "V3_Params"}
        BY <1>2, <1>5, <3>1, ParamsMigrate DEF ParamsTypes
      <4>2. Top!Encoded("V3_Params", msg) = Top!Encoded("V2_Params", msg) /\ Is("V3_Params", msg)
        BY <1>5, ParamsMigrate
      <4>3. /\ wire = Top!Encoded("V3_Params", msg)
            /\ Len(Top!Encoded("V3_Params", msg)) < Top!MaxLength
        BY <1>2, <3>1, <4>1, <4>2
      <4> QED BY <2>1, <4>2, <4>3, ParamsRead
    <3>2. CASE stage = "migrated"
      <4>1. "CodeInfo" \notin ParamsTypes
        BY DEF ParamsTypes
      <4>2. wire = b
        BY <1>3, <1>5, <2>1, <2>2, <3>2, <4>1 DEF IsMigrated
      <4>3. PICK o : /\ Is("V3_Params", o) /\ MigratedParams(o) = n
                     /\ Top!Encoded("V3_Params", o) = b
        BY <1>5, <2>1, <2>2, ParamsMigrate
      <4> QED BY <2>4, <4>2, <4>3, ParamsRead
    <3> QED BY <1>1, <3>1, <3>2
  <2>6. wire' = b
    BY <1>5, <2>4, <2>5
  <2>7. IsMigrated'
    BY <1>1, <1>5, <2>1, <2>2, <2>6 DEF IsMigrated
  <2> QED BY <1>1, <1>5, <2>4, <2>6, <2>7, AllTypes DEF WireInv, Stages, IsShort
<1> QED BY <1>4, <1>5 DEF Migrate

(* A migrated record gives the same access as before.                      *)
LEMMA MigrationHolds == WireInv => MigrationKeepsAccess
<1> SUFFICES ASSUME WireInv, stage = "migrated", result # <<>>
             PROVE  MigrationKeepsAccess
  BY DEF MigrationKeepsAccess
<1>1. result = Decoded(type, wire) /\ IsMigrated
  BY DEF WireInv
<1>2. CASE /\ type = "CodeInfo" /\ msg \in LegacySamples("V3_CodeInfo")
           /\ wire = Top!Encoded("CodeInfo", MigratedCodeInfo(msg))
  <2>1. PICK n : n = MigratedCodeInfo(msg)
    OBVIOUS
  <2>2. Is("CodeInfo", n) /\ Size("CodeInfo", n) <= MaxMessage
    BY <1>2, <2>1, CodeInfoMigrates, MigrationAssumption
  <2>3. Decoded("CodeInfo", Top!Encoded("CodeInfo", n)) = [ok |-> TRUE, msg |-> n]
    BY <2>2, MigratedFacts
  <2>4. result.ok /\ result.msg = n
    BY <1>1, <1>2, <2>1, <2>3
  <2>5. /\ n.CodeHash = msg.CodeHash /\ n.Creator = msg.Creator
        /\ n.InstantiateConfig = updateAccessConfig(msg.InstantiateConfig)
    BY <2>1 DEF MigratedCodeInfo
  <2>6. \A a : Allows(n.InstantiateConfig, a) <=> LegacyAllows(msg.InstantiateConfig, a)
    BY <1>2, <2>5, CodeInfoMigrates, LegacyConfigFacts
  <2> QED BY <1>2, <2>4, <2>5, <2>6 DEF MigrationKeepsAccess
<1>3. CASE /\ type = "Params" /\ msg \in LegacySamples("V3_Params")
           /\ wire = Top!Encoded("Params", MigratedParams(msg))
  <2>1. PICK n : n = MigratedParams(msg)
    OBVIOUS
  <2>2. /\ Is("Params", n) /\ Size("Params", n) <= MaxMessage
        /\ n.InstantiateDefaultPermission # <<2>>
    BY <1>3, <2>1, ParamsMigrate, MigrationAssumption
  <2>3. Decoded("Params", Top!Encoded("Params", n)) = [ok |-> TRUE, msg |-> n]
    BY <2>2, MigratedFacts
  <2>4. result.ok /\ result.msg = n
    BY <1>1, <1>3, <2>1, <2>3
  <2>5. n.CodeUploadAccess = updateAccessConfig(msg.CodeUploadAccess)
    BY <2>1 DEF MigratedParams
  <2>6. \A a : Allows(n.CodeUploadAccess, a) <=> LegacyAllows(msg.CodeUploadAccess, a)
    BY <1>3, <2>5, ParamsMigrate, LegacyConfigFacts
  <2>7. type # "CodeInfo"
    BY <1>3
  <2> QED BY <1>3, <2>2, <2>4, <2>6, <2>7 DEF MigrationKeepsAccess
<1> QED BY <1>1, <1>2, <1>3 DEF IsMigrated

-----------------------------------------------------------------------------
(* The theorems.                                                           *)

(* The invariant holds in every state, whatever messages are sent and      *)
(* whatever happens to their bytes.                                        *)
THEOREM WireInvariance == Spec => []WireInv
<1>1. WireInv /\ [Next]_vars => WireInv'
  BY SendStep, CutStep, JoinStep, ExtendStep, AlterStep, MigrateStep, ReceiveStep, StutterStep
     DEF Next
<1> QED BY <1>1, WireInit, PTL DEF Spec

(* Every message is read back as it was written, in as many bytes as Size  *)
(* announced, also with fields that its reader does not know.              *)
THEOREM RoundTripCorrect == Spec => []RoundTrip
  BY WireInvariance, RoundTripHolds, PTL

(* Bytes that end inside of a field are refused, bytes that end after one  *)
(* accepted, for every message and every cut.                              *)
THEOREM PrefixesCorrect == Spec => []PrefixesRefused
  BY WireInvariance, PrefixesHold, PTL

(* Whatever bytes are accepted, the message that was read can be written   *)
(* and is read again unchanged.                                            *)
THEOREM AcceptedCorrect == Spec => []AcceptedIsStable
  BY WireInvariance, StableHolds, PTL

(* Two messages of a type in a row are read as the first overlaid by the   *)
(* second.                                                                 *)
THEOREM PartsCorrect == Spec => []PartsMerge
  BY WireInvariance, PartsMergeHolds, PTL

(* The migration of the store leaves every address the access it had,      *)
(* however often it is run.                                                *)
THEOREM MigrationCorrect == Spec => []MigrationKeepsAccess
  BY WireInvariance, MigrationHolds, PTL
=============================================================================

-------------------------------- MODULE Codec --------------------------------
(***************************************************************************)
(* The codec that the generated *.pb.go files implement: Size,             *)
(* MarshalToSizedBuffer and Unmarshal of every message, driven by a table  *)
(* of fields for each of the three.  A message is a function from the Go   *)
(* names of its fields.  An integer is the sequence of its groups of seven *)
(* bits, lowest first, without zeros at the end; a string, like any byte   *)
(* string, is the sequence of its bytes; a pointer is <<>> or <<m>>.       *)
(*                                                                         *)
(* The functions of a message call those of the messages it embeds.  Here  *)
(* these are parameters, the operators Inner...; Protobuf ties the knot.   *)
(* The loops of the code are functions of the number of rounds.            *)
(***************************************************************************)
EXTENDS Integers, Sequences, FiniteSetsExt, WireKinds

CONSTANTS
  Encoder,  \* message type -> <<tag, field, kind>> in the order of the bytes
  Sizer,    \* message type -> <<field, kind>>
  Decoder,  \* message type -> <<field number, field, kind>>
  InnerIs(_, _), InnerDefault(_), InnerSize(_, _), InnerEncoded(_, _),
  InnerUnmarshal(_, _, _), InnerMerge(_, _, _)

Types == DOMAIN Encoder

Fields(T) == {Encoder[T][n][2] : n \in DOMAIN Encoder[T]}

KindOf(T, f) == Encoder[T][CHOOSE n \in DOMAIN Encoder[T] : Encoder[T][n][2] = f][3]

Numbers   == {"uint", "enum", "bool"}
Embedding == {"ptr", "val", "many"}
Repeated  == {"many", "strings"}

-----------------------------------------------------------------------------
(* Integers. *)

(* Lengths are exact below this bound, 256 MB. *)
MaxLength == 268435456

Group(groups, i) == IF i <= Len(groups) THEN groups[i] ELSE 0

Trimmed(groups) ==
  SubSeq(groups, 1, Max({0} \union {i \in DOMAIN groups : groups[i] # 0}))

(* The groups of a length. *)
Groups(n) ==
  Trimmed(<<n % 128, (n \div 128) % 128, (n \div 16384) % 128, (n \div 2097152) % 128,
            (n \div MaxLength) % 128>>)

(* Mutant: zero takes no byte. *)
sovOfZeroEmpty(groups) == Len(groups)

sov(groups) == IF groups = <<>> THEN 1 ELSE Len(groups)

encodeVarint(groups) ==
  IF groups = <<>> THEN <<0>>
  ELSE [i \in 1..Len(groups) |-> IF i < Len(groups) THEN groups[i] + 128 ELSE groups[i]]

(* Mutant: only a value of more than five bytes is cut. *)
Int32CutLate(groups) ==
  Trimmed([i \in 1..Min({5, Len(groups)}) |->
             IF i = 5 /\ Len(groups) > 5 THEN groups[i] % 16 ELSE groups[i]])

(* What shifting the groups into an int32 leaves of them. *)
Int32(groups) ==
  Trimmed([i \in 1..Min({5, Len(groups)}) |-> IF i = 5 THEN groups[i] % 16 ELSE groups[i]])

(* uint64 of an int32: a negative one is ten bytes long. *)
Uint64(groups) ==
  IF Group(groups, 5) < 8 THEN groups
  ELSE [i \in 1..10 |-> CASE i < 5 -> groups[i] [] i = 5 -> groups[i] + 112
                          [] i \in 6..9 -> 127 [] i = 10 -> 1]

(* Reading a varint at position i: at most ten bytes, of the tenth one bit. *)
readVarint(data, i) ==
  LET ends == {j \in i..Min({i + 9, Len(data)}) : data[j] < 128}
      last == Min(ends)
  IN  IF ends = {} THEN [ok |-> FALSE]
      ELSE [ok |-> TRUE, next |-> last + 1,
            groups |-> Trimmed([k \in 1..(last - i + 1) |->
                                  IF k = 10 THEN data[i + 9] % 2 ELSE data[i + k - 1] % 128])]

(* A length as an int: negative with bit 63; what does not fit a buffer is *)
(* cut to MaxLength.                                                       *)
Length(groups) ==
  CASE Len(groups) = 10 -> -1
    [] Len(groups) \in 5..9 -> MaxLength
    [] OTHER -> Group(groups, 1) + 128 * Group(groups, 2) + 16384 * Group(groups, 3)
                + 2097152 * Group(groups, 4)

(* fieldNum := int32(wire >> 3) *)
FieldNum(groups) ==
  IF Group(groups, 5) >= 64 THEN -1
  ELSE Group(groups, 1) \div 8 + 16 * Group(groups, 2) + 2048 * Group(groups, 3)
       + 262144 * Group(groups, 4) + 33554432 * Group(groups, 5)

WireType(groups) == Group(groups, 1) % 8

-----------------------------------------------------------------------------
(* The values of a field: what its Go type can hold. *)

Byte   == 0..255
Septet == 0..127

IsUint64(v) ==
  /\ v \in Seq(Septet) /\ Len(v) <= 10
  /\ v # <<>> => v[Len(v)] # 0
  /\ Len(v) = 10 => v[10] = 1

IsInt32(v) ==
  /\ v \in Seq(Septet) /\ Len(v) <= 5
  /\ v # <<>> => v[Len(v)] # 0
  /\ Len(v) = 5 => v[5] < 16

IsList(v) == v \in Seq({v[i] : i \in DOMAIN v})

IsValue(kind, v) ==
  CASE kind[1] = "bytes"   -> v \in Seq(Byte)
    [] kind[1] = "strings" -> v \in Seq(Seq(Byte))
    [] kind[1] = "uint"    -> IsUint64(v)
    [] kind[1] = "enum"    -> IsInt32(v)
    [] kind[1] = "bool"    -> v \in BOOLEAN
    [] kind[1] = "packed"  -> v \in Seq(Seq(Septet)) /\ \A i \in 1..Len(v) : IsUint64(v[i])
    [] kind[1] = "val"     -> InnerIs(kind[2], v)
    [] kind[1] = "ptr"     -> v = <<>> \/ (v = <<v[1]>> /\ InnerIs(kind[2], v[1]))
    [] kind[1] = "many"    -> IsList(v) /\ \A i \in DOMAIN v : InnerIs(kind[2], v[i])

Is(T, m) ==
  /\ m = [f \in Fields(T) |-> m[f]]
  /\ \A f \in Fields(T) : IsValue(KindOf(T, f), m[f])

(* The zero value of a field, and of a message. *)
Zero(kind) ==
  CASE kind[1] = "bool" -> FALSE
    [] kind[1] = "val"  -> InnerDefault(kind[2])
    [] OTHER            -> <<>>

Default(T) == [f \in Fields(T) |-> Zero(KindOf(T, f))]

-----------------------------------------------------------------------------
(* Size and MarshalToSizedBuffer. *)

Sums(sizes) ==
  LET upTo[n \in Nat] == IF n = 0 THEN 0 ELSE upTo[n - 1] + sizes[n]
  IN  upTo

Total(sizes) == Sums(sizes)[Len(sizes)]

Prefixes(parts) ==
  LET upTo[n \in Nat] == IF n = 0 THEN <<>> ELSE upTo[n - 1] \o parts[n]
  IN  upTo

Joined(parts) == Prefixes(parts)[Len(parts)]

(* The occurrences of a field: each element of a slice, otherwise one,     *)
(* that is left out for a zero value.                                      *)
Elements(kind, v) ==
  CASE kind[1] \in Repeated \union {"ptr"} -> v
    [] kind[1] = "val"                    -> <<v>>
    [] kind[1] = "bool"                   -> IF v THEN <<v>> ELSE <<>>
    [] OTHER                              -> IF v = <<>> THEN <<>> ELSE <<v>>

NumberOf(kind, e) ==
  CASE kind[1] = "uint" -> e
    [] kind[1] = "enum" -> Uint64(e)
    [] kind[1] = "bool" -> <<1>>

(* The elements of a packed field. *)
PackedSizes(e) == [i \in 1..Len(e) |-> sov(e[i])]
PackedParts(e) == [i \in 1..Len(e) |-> encodeVarint(e[i])]

ContentSize(kind, e) ==
  CASE kind[1] \in {"bytes", "strings"} -> Len(e)
    [] kind[1] = "packed"               -> Total(PackedSizes(e))
    [] kind[1] \in Embedding            -> InnerSize(kind[2], e)

PieceSize(kind, e) ==
  LET l == ContentSize(kind, e)
  IN  IF kind[1] \in Numbers THEN 1 + sov(NumberOf(kind, e)) ELSE 1 + l + sov(Groups(l))

SizeOf(kind, v) ==
  LET es == Elements(kind, v)
  IN  Total([j \in 1..Len(es) |-> PieceSize(kind, es[j])])

Size(T, m) ==
  Total([n \in 1..Len(Sizer[T]) |-> SizeOf(Sizer[T][n][2], m[Sizer[T][n][1]])])

Content(kind, e) ==
  CASE kind[1] \in {"bytes", "strings"} -> e
    [] kind[1] = "packed"               -> Joined(PackedParts(e))
    [] kind[1] \in Embedding            -> InnerEncoded(kind[2], e)

(* One occurrence of a field: its tag and its value. *)
Piece(tag, kind, e) ==
  LET bytes == Content(kind, e)
  IN  IF kind[1] \in Numbers THEN <<tag>> \o encodeVarint(NumberOf(kind, e))
      ELSE <<tag>> \o (encodeVarint(Groups(Len(bytes))) \o bytes)

Pieces(tag, kind, v) ==
  LET es == Elements(kind, v)
  IN  [j \in 1..Len(es) |-> Piece(tag, kind, es[j])]

EncodedFields(T, m) ==
  [n \in 1..Len(Encoder[T]) |->
     Joined(Pieces(Encoder[T][n][1], Encoder[T][n][3], m[Encoder[T][n][2]]))]

(* The bytes that MarshalToSizedBuffer writes, from the end of its buffer. *)
Encoded(T, m) == Joined(EncodedFields(T, m))

(* Marshal makes a buffer of Size bytes, which MarshalToSizedBuffer fills  *)
(* from its end, and returns the first n of them, n the number written.    *)
(* A buffer that is too small is a panic.                                  *)
Marshal(T, m) ==
  LET bytes == Encoded(T, m)
      room  == Size(T, m) - Len(bytes)
  IN  IF room < 0 THEN [ok |-> FALSE]
      ELSE [ok |-> TRUE,
            bytes |-> SubSeq([i \in 1..room |-> 0] \o bytes, 1, Len(bytes))]

-----------------------------------------------------------------------------
(* Unmarshal. *)

Failed == [ok |-> FALSE]

(* A loop over the data has ended, on an error or past the position to. *)
Ended(s, to) == ~(s.ok /\ s.next <= to)

(* Numbers of rounds that are tried: a loop that has ended stays as it is, *)
(* and it ends with the data at the latest.                                *)
LastRound(data) == Len(data) + 1
Rounds(data) == {k \in {5, 15, 50} : k < LastRound(data)} \union {LastRound(data)}

(* What a loop has when it has ended. *)
AtEnd(data, rounds, to) == rounds[CHOOSE k \in Rounds(data) : Ended(rounds[k], to)]

(* Mutant: the end of the data ends the field. *)
readDelimitedClipped(data, i) ==
  LET r   == readVarint(data, i)
      len == Length(r.groups)
  IN  IF ~r.ok \/ len < 0 THEN Failed
      ELSE [ok |-> TRUE, from |-> r.next, to |-> Min({r.next + len - 1, Len(data)})]

(* The bounds of a length-delimited field whose length is read at i. *)
Delimited(data, r, len) ==
  IF ~r.ok \/ len < 0 \/ r.next + len - 1 > Len(data) THEN Failed
  ELSE [ok |-> TRUE, from |-> r.next, to |-> r.next + len - 1]

readLength(data, r) == Delimited(data, r, Length(r.groups))

readDelimited(data, i) == readLength(data, readVarint(data, i))

(* One round of skipTypes: the varint or the length of a field, then the   *)
(* field with its tag; depth counts the groups it is in.                   *)
SkipState(next, depth) == [next |-> next, depth |-> depth, done |-> depth = 0]

skipVarint(s, value) ==
  IF value.ok THEN SkipState(value.next, s.depth) ELSE SkipState(0, 0)

skipDelimited(s, value) ==
  IF value.ok /\ Length(value.groups) >= 0
  THEN SkipState(value.next + Length(value.groups), s.depth) ELSE SkipState(0, 0)

skipTyped(data, s, type, next) ==
  CASE type = 0 -> skipVarint(s, readVarint(data, next))
    [] type = 1 -> SkipState(next + 8, s.depth)
    [] type = 2 -> skipDelimited(s, readVarint(data, next))
    [] type = 3 -> SkipState(next, s.depth + 1)
    [] type = 4 -> IF s.depth = 0 THEN SkipState(0, 0) ELSE SkipState(next, s.depth - 1)
    [] type = 5 -> SkipState(next + 4, s.depth)
    [] type \in 6..7 -> SkipState(0, 0)

skipTagged(data, s, wire) ==
  IF s.next > Len(data) THEN SkipState(0, 0)
  ELSE IF ~wire.ok THEN SkipState(0, 0)
  ELSE skipTyped(data, s, WireType(wire.groups), wire.next)

skipOne(data, s) == skipTagged(data, s, readVarint(data, s.next))

skipping(data, i) ==
  LET rounds[k \in 0..LastRound(data)] ==
        IF k = 0 THEN [next |-> i, depth |-> 0, done |-> FALSE]
        ELSE LET s == rounds[k - 1] IN IF s.done THEN s ELSE skipOne(data, s)
  IN  rounds

(* skipTypes: the position after the field that starts at i, 0 for an error. *)
SkippedTo(data, rounds) == rounds[CHOOSE k \in Rounds(data) : rounds[k].done].next

skip(data, i) == SkippedTo(data, skipping(data, i))

(* The elements of a packed field.  The loop looks at the end of the       *)
(* field, each element only at the end of the data.                        *)
addElement(s, r) ==
  IF r.ok THEN [ok |-> TRUE, next |-> r.next, values |-> Append(s.values, r.groups)]
  ELSE Failed

readElement(data, s) == addElement(s, readVarint(data, s.next))

readingPacked(data, from, to) ==
  LET rounds[k \in 0..LastRound(data)] ==
        IF k = 0 THEN [ok |-> TRUE, next |-> from, values |-> <<>>]
        ELSE LET s == rounds[k - 1] IN IF s.ok /\ s.next <= to THEN readElement(data, s) ELSE s
  IN  rounds

readPacked(data, from, to) == AtEnd(data, readingPacked(data, from, to), to)

(* Mutant: an embedded message is always read into a new one. *)
ReadIntoNew(kind, old) == InnerDefault(kind[2])

(* The message that an embedded message is read into. *)
ReadInto(kind, old) ==
  CASE kind[1] = "val"                -> old
    [] kind[1] = "ptr" /\ old # <<>>   -> old[1]
    [] kind[1] = "ptr" /\ old = <<>>   -> InnerDefault(kind[2])
    [] kind[1] = "many"               -> InnerDefault(kind[2])

(* What a field is after one more occurrence. *)
Placed(kind, old, e) ==
  CASE kind[1] \in Repeated -> Append(old, e)
    [] kind[1] = "packed"   -> old \o e
    [] kind[1] = "ptr"      -> <<e>>
    [] OTHER                -> e

(* The case of a field, by its wire type and kind: the new value and the   *)
(* position after it.                                                      *)
FieldAt(v, next) == [ok |-> TRUE, value |-> v, next |-> next]

readNumber(kind, old, number) ==
  IF ~number.ok THEN Failed
  ELSE FieldAt(CASE kind[1] = "uint"   -> number.groups
                  [] kind[1] = "enum"   -> Int32(number.groups)
                  [] kind[1] = "bool"   -> number.groups # <<>>
                  [] kind[1] = "packed" -> Append(old, number.groups), number.next)

addPacked(kind, old, packed) ==
  IF ~packed.ok THEN Failed ELSE FieldAt(Placed(kind, old, packed.values), packed.next)

readList(kind, old, data, part) ==
  IF ~part.ok THEN Failed ELSE addPacked(kind, old, readPacked(data, part.from, part.to))

readBytes(kind, old, data, part) ==
  IF part.ok THEN FieldAt(Placed(kind, old, SubSeq(data, part.from, part.to)), part.to + 1)
  ELSE Failed

readMessage(kind, old, data, part) ==
  LET bytes == SubSeq(data, part.from, part.to)
      inner == InnerUnmarshal(kind[2], bytes, ReadInto(kind, old))
  IN  IF ~part.ok THEN Failed
      ELSE IF ~inner.ok THEN Failed
      ELSE FieldAt(Placed(kind, old, inner.msg), part.to + 1)

readField(kind, old, type, data, i) ==
  CASE type = 0 /\ kind[1] \in Numbers \union {"packed"} ->
         readNumber(kind, old, readVarint(data, i))
    [] type = 2 /\ kind[1] = "packed" -> readList(kind, old, data, readDelimited(data, i))
    [] type = 2 /\ kind[1] \in {"bytes", "strings"} ->
         readBytes(kind, old, data, readDelimited(data, i))
    [] type = 2 /\ kind[1] \in Embedding ->
         readMessage(kind, old, data, readDelimited(data, i))
    [] OTHER -> Failed   \* wrong wireType

(* One round of the loop of Unmarshal: a field of the message, or one that *)
(* is not known.                                                           *)
At(next, m) == [ok |-> TRUE, next |-> next, msg |-> m]

setField(s, name, field) ==
  IF field.ok THEN At(field.next, [s.msg EXCEPT ![name] = field.value]) ELSE Failed

readKnown(data, s, wire, row) ==
  setField(s, row[2],
           readField(row[3], s.msg[row[2]], WireType(wire.groups), data, wire.next))

readUnknown(data, s, next) ==
  IF next > 0 /\ next <= Len(data) + 1 THEN At(next, s.msg) ELSE Failed

Rows(T, num) == {n \in DOMAIN Decoder[T] : Decoder[T][n][1] = num}

readTagged(T, data, s, wire, num) ==
  IF ~wire.ok THEN Failed
  ELSE IF WireType(wire.groups) = 4 \/ num <= 0 THEN Failed
  ELSE IF Rows(T, num) # {}
  THEN readKnown(data, s, wire, Decoder[T][CHOOSE n \in Rows(T, num) : TRUE])
  ELSE readUnknown(data, s, skip(data, s.next))

readTag(T, data, s, wire) == readTagged(T, data, s, wire, FieldNum(wire.groups))

readNext(T, data, s) == readTag(T, data, s, readVarint(data, s.next))

reading(T, data, m) ==
  LET rounds[k \in 0..LastRound(data)] ==
        IF k = 0 THEN [ok |-> TRUE, next |-> 1, msg |-> m]
        ELSE LET s == rounds[k - 1] IN IF s.ok /\ s.next <= Len(data) THEN readNext(T, data, s) ELSE s
  IN  rounds

Result(data, s) ==
  IF ~s.ok THEN Failed
  ELSE IF s.next = Len(data) + 1 THEN [ok |-> TRUE, msg |-> s.msg] ELSE Failed

Unmarshal(T, data, m) == Result(data, AtEnd(data, reading(T, data, m), Len(data)))

Decoded(T, data) == Unmarshal(T, data, Default(T))

-----------------------------------------------------------------------------
(* What a message is when another one of its type is read into it: lists   *)
(* are continued, embedded messages merged, and a value that is left out   *)
(* changes nothing.                                                        *)

MergedField(kind, a, b) ==
  CASE kind[1] \in Repeated \union {"packed"} -> a \o b
    [] kind[1] = "val"  -> InnerMerge(kind[2], a, b)
    [] kind[1] = "ptr"  -> IF a = <<>> THEN b ELSE IF b = <<>> THEN a
                           ELSE <<InnerMerge(kind[2], a[1], b[1])>>
    [] kind[1] = "bool" -> a \/ b
    [] OTHER            -> IF b = <<>> THEN a ELSE b

Merge(T, a, b) == [f \in Fields(T) |-> MergedField(KindOf(T, f), a[f], b[f])]
-----------------------------------------------------------------------------
(* The positions at which an occurrence of a field ends.                   *)

Occurrences(T, m, n) == Len(Elements(Encoder[T][n][3], m[Encoder[T][n][2]]))

EndOf(T, m, n, j) ==
  Len(Prefixes(EncodedFields(T, m))[n - 1])
  + Len(Prefixes(Pieces(Encoder[T][n][1], Encoder[T][n][3], m[Encoder[T][n][2]]))[j])

Boundaries(T, m) ==
  {0} \union UNION {{EndOf(T, m, n, j) : j \in 0..Occurrences(T, m, n)} :
                     n \in 1..Len(Encoder[T])}
-----------------------------------------------------------------------------
(* The three tables of a message agree and embed only types of a set K:    *)
(* fields and their numbers differ, a tag is one byte, made of the number  *)
(* and the wire type that Unmarshal expects.                               *)

Tags == 8..127

(* Fields with a number that no tag of one byte has, of each wire type. *)
UnknownFields ==
  {<<128, 1, 200, 1>>, <<129, 1, 255, 8, 0, 0, 0, 0, 0, 0>>, <<130, 1, 2, 8, 1>>,
   <<131, 1, 10, 1, 9, 131, 1, 132, 1, 132, 1>>, <<133, 1, 8, 8, 255, 0>>}

WireTypeOf(kind) == IF kind[1] \in Numbers THEN 0 ELSE 2

IsKind(kind, K) ==
  \/ kind[1] \in Numbers \union {"bytes", "strings", "packed"}
  \/ kind[1] \in Embedding /\ kind[2] \in K

WellFormed(T, K) ==
  LET rows == 1..Len(Encoder[T])
  IN  /\ Len(Encoder[T]) \in Nat /\ Encoder[T] = [n \in rows |-> Encoder[T][n]]
      /\ Sizer[T] = [n \in rows |-> <<Encoder[T][n][2], Encoder[T][n][3]>>]
      /\ Decoder[T] = [n \in rows |-> <<Encoder[T][n][1] \div 8, Encoder[T][n][2], Encoder[T][n][3]>>]
      /\ \A n \in rows : /\ IsKind(Encoder[T][n][3], K)
                         /\ Encoder[T][n][1] \in Tags
                         /\ Encoder[T][n][1] % 8 = WireTypeOf(Encoder[T][n][3])
      /\ \A n, p \in rows : n # p => /\ Encoder[T][n][1] \div 8 # Encoder[T][p][1] \div 8
                                     /\ Encoder[T][n][2] # Encoder[T][p][2]

(* A message with nothing set is short. *)
Small(T) == Size(T, Default(T)) <= 100

Coded(T, K) == WellFormed(T, K) /\ Small(T)
=============================================================================

---------------------------- MODULE CodecProofs ----------------------------
(***************************************************************************)
(* What the codec does to every message of a type with tables that agree,  *)
(* given that the same holds of the messages it embeds: what is written is *)
(* read back, in as many bytes as Size says; bytes that are cut are        *)
(* refused inside of a field; a second message is merged into the first;   *)
(* fields that are not known are skipped; whatever is accepted is a        *)
(* message.  The loops of the code are recursive functions; what they do   *)
(* is shown by induction on the number of rounds, with sets of numbers in  *)
(* the place of predicates.                                                *)
(***************************************************************************)
EXTENDS Codec, SequenceTheorems, WellFoundedInduction, TLAPS

-----------------------------------------------------------------------------
(* Induction, and the largest of finitely many numbers.                    *)

(* A set of naturals that is not empty has a least element.                *)
LEMMA Least ==
  ASSUME NEW S, S \subseteq Nat, S # {}
  PROVE  \E x \in S : \A y \in S : x <= y
<1> DEFINE R == {ss \in Nat \X Nat : ss[1] < ss[2]}
<1>1. IsWellFoundedOn(R, Nat)
  BY NatLessThanWellFounded DEF OpToRel
<1>2. PICK x \in S : \A y \in S : <<y, x>> \notin R
  BY <1>1, WFMin
<1>3. \A y \in S : ~(y < x)
  BY <1>2
<1> QED BY <1>3

(* Induction, for a set of naturals.                                       *)
LEMMA Induction ==
  ASSUME NEW S, 0 \in S, \A n \in Nat : n \in S => n + 1 \in S
  PROVE  \A n \in Nat : n \in S
<1>1. SUFFICES ASSUME Nat \ S # {} PROVE FALSE
  OBVIOUS
<1>2. PICK x \in Nat \ S : \A y \in Nat \ S : x <= y
  BY <1>1, Least
<1>3. x - 1 \in Nat /\ x - 1 \notin Nat \ S
  BY <1>2
<1> QED BY <1>2, <1>3

(* A set of numbers with an upper bound has a largest one.                 *)
LEMMA MaxFacts ==
  ASSUME NEW n \in Nat, NEW S, S \subseteq 0..n, S # {}
  PROVE  Max(S) \in S /\ \A y \in S : y <= Max(S)
<1>1. \E x \in S : \A y \in S : x >= y
  <2> DEFINE D == {d \in 0..n : n - d \in S}
  <2>1. D \subseteq Nat /\ D # {}
    <3>1. PICK s \in S : TRUE
      OBVIOUS
    <3>2. n - s \in 0..n /\ n - (n - s) = s
      BY <3>1
    <3> QED BY <3>1, <3>2
  <2>2. PICK d \in D : \A e \in D : d <= e
    BY <2>1, Least
  <2>3. ASSUME NEW y \in S PROVE n - d >= y
    <3>1. n - y \in 0..n /\ n - (n - y) = y
      OBVIOUS
    <3>2. d <= n - y
      BY <2>2, <3>1
    <3> QED BY <2>2, <3>2
  <2> QED BY <2>2, <2>3
<1>2. Max(S) \in S /\ \A y \in S : Max(S) >= y
  BY <1>1 DEF Max
<1> QED BY <1>2

(* The least number of a set of naturals.                                  *)
LEMMA MinFacts ==
  ASSUME NEW S, S \subseteq Nat, S # {}
  PROVE  Min(S) \in S /\ \A y \in S : Min(S) <= y
<1>1. \E x \in S : \A y \in S : x <= y
  BY Least
<1> QED BY <1>1 DEF Min

(* The smaller of two numbers.                                             *)
LEMMA MinOfTwo ==
  ASSUME NEW a \in Int, NEW b \in Int
  PROVE  Min({a, b}) = IF a <= b THEN a ELSE b
<1>1. \E x \in {a, b} : \A y \in {a, b} : x <= y
  OBVIOUS
<1>2. Min({a, b}) \in {a, b} /\ \A y \in {a, b} : Min({a, b}) <= y
  BY <1>1 DEF Min
<1> QED BY <1>2

-----------------------------------------------------------------------------
(* Groups of seven bits.                                                   *)

(* A function on 1..n is a sequence of its values.                         *)
LEMMA MakeSeq ==
  ASSUME NEW S, NEW n \in Nat, NEW f, f = [i \in 1..n |-> f[i]], \A i \in 1..n : f[i] \in S
  PROVE  f \in Seq(S) /\ Len(f) = n
OBVIOUS

(* The elements of a sequence.                                             *)
LEMMA Elem ==
  ASSUME NEW S, NEW f \in Seq(S)
  PROVE  Len(f) \in Nat /\ \A i \in 1..Len(f) : f[i] \in S
OBVIOUS

(* What is a byte.                                                         *)
LEMMA InByte ==
  ASSUME NEW x \in Nat, x < 256
  PROVE  x \in Byte
BY DEF Byte

(* What is a group of seven bits.                                          *)
LEMMA InSeptet ==
  ASSUME NEW x \in Nat, x < 128
  PROVE  x \in Septet
BY DEF Septet

(* Sequences of bits and bytes are sequences of numbers.                   *)
LEMMA SeptetFacts ==
  ASSUME NEW g \in Seq(Septet)
  PROVE  /\ Len(g) \in Nat /\ \A i \in 1..Len(g) : g[i] \in Nat /\ g[i] < 128
         /\ g \in Seq(Nat)
<1>1. \A x \in Septet : x \in Nat /\ x < 128
  BY DEF Septet
<1>2. Septet \subseteq Nat
  BY <1>1
<1>3. g \in Seq(Nat)
  BY <1>2, SeqMonotonic
<1> QED BY <1>1, <1>3, Elem

(* The elements of a byte string.                                          *)
LEMMA ByteFacts ==
  ASSUME NEW g \in Seq(Byte)
  PROVE  /\ Len(g) \in Nat /\ \A i \in 1..Len(g) : g[i] \in Nat /\ g[i] < 256
         /\ g \in Seq(Nat)
<1>1. \A x \in Byte : x \in Nat /\ x < 256
  BY DEF Byte
<1>2. Byte \subseteq Nat
  BY <1>1
<1>3. g \in Seq(Nat)
  BY <1>2, SeqMonotonic
<1> QED BY <1>1, <1>3, Elem

(* Zeros at the end of a number are dropped, and nothing else.             *)
LEMMA TrimmedFacts ==
  ASSUME NEW g \in Seq(Nat)
  PROVE  /\ Trimmed(g) \in Seq(Nat) /\ Len(Trimmed(g)) <= Len(g)
         /\ \A i \in 1..Len(Trimmed(g)) : Trimmed(g)[i] = g[i]
         /\ Trimmed(g) # <<>> => Trimmed(g)[Len(Trimmed(g))] # 0
         /\ \A i \in 1..Len(g) : i > Len(Trimmed(g)) => g[i] = 0
<1> DEFINE S == {0} \union {i \in DOMAIN g : g[i] # 0}
<1>1. Len(g) \in Nat /\ DOMAIN g = 1..Len(g)
  OBVIOUS
<1>2. S \subseteq 0..Len(g) /\ S # {}
  BY <1>1
<1>3. PICK e : e = Max(S)
  OBVIOUS
<1>4. e \in S /\ \A y \in S : y <= e
  BY <1>1, <1>2, <1>3, MaxFacts
<1>5. e \in 0..Len(g)
  BY <1>2, <1>4
<1>6. Trimmed(g) = SubSeq(g, 1, e)
  BY <1>3 DEF Trimmed
<1>7. /\ SubSeq(g, 1, e) \in Seq(Nat) /\ Len(SubSeq(g, 1, e)) = e
      /\ \A i \in 1..e : SubSeq(g, 1, e)[i] = g[i]
  BY <1>1, <1>5
<1> QED BY <1>1, <1>4, <1>5, <1>6, <1>7

(* Trimmed only drops zeros, from the end.                                 *)
LEMMA TrimmedTo ==
  ASSUME NEW g \in Seq(Nat), NEW n, n = Len(g), NEW t, t = Trimmed(g), NEW l, l = Len(t)
  PROVE  /\ t \in Seq(Nat) /\ n \in Nat /\ l \in Nat /\ l <= n
         /\ \A k \in 1..l : t[k] = g[k]
         /\ t # <<>> => t[l] # 0
<1>1. /\ t \in Seq(Nat) /\ Len(t) <= Len(g) /\ \A k \in 1..Len(t) : t[k] = g[k]
      /\ t # <<>> => t[Len(t)] # 0
  BY TrimmedFacts
<1>2. Len(t) \in Nat /\ Len(g) \in Nat
  BY <1>1
<1> QED BY <1>1, <1>2

(* Trimmed changes no group.                                               *)
LEMMA TrimmedGroup ==
  ASSUME NEW g \in Seq(Nat), NEW i \in Nat \ {0}
  PROVE  Group(Trimmed(g), i) = Group(g, i)
<1>1. Len(Trimmed(g)) \in Nat /\ Len(g) \in Nat /\ Trimmed(g) \in Seq(Nat)
  BY TrimmedFacts
<1>2. CASE i <= Len(Trimmed(g))
  BY <1>1, <1>2, TrimmedFacts DEF Group
<1>3. CASE i > Len(Trimmed(g))
  BY <1>1, <1>3, TrimmedFacts DEF Group
<1> QED BY <1>1, <1>2, <1>3

(* Trimmed keeps what has no zero at its end.                              *)
LEMMA TrimmedSame ==
  ASSUME NEW g \in Seq(Nat), g # <<>> => g[Len(g)] # 0
  PROVE  Trimmed(g) = g
<1>1. /\ Len(Trimmed(g)) \in Nat /\ Len(g) \in Nat /\ Trimmed(g) \in Seq(Nat)
      /\ Len(Trimmed(g)) <= Len(g)
  BY TrimmedFacts
<1>2. Len(Trimmed(g)) = Len(g)
  <2>1. CASE g = <<>>
    BY <1>1, <2>1
  <2>2. CASE g # <<>>
    <3>1. Len(g) \in 1..Len(g)
      BY <1>1, <2>2
    <3> QED BY <1>1, <2>2, <3>1, TrimmedFacts, SMTT(30)
  <2> QED BY <2>1, <2>2
<1>3. \A i \in 1..Len(g) : Trimmed(g)[i] = g[i]
  BY <1>2, TrimmedFacts
<1> QED BY <1>1, <1>2, <1>3, SeqEqual

-----------------------------------------------------------------------------
(* Bytes.                                                                  *)

(* The bytes stand in the data at position i.                              *)
Holds(data, i, bytes) ==
  /\ i + Len(bytes) - 1 <= Len(data)
  /\ \A k \in 1..Len(bytes) : data[i + k - 1] = bytes[k]

(* A varint is as long as sov says, one byte to ten.                       *)
LEMMA EncodeFacts ==
  ASSUME NEW g, IsUint64(g)
  PROVE  /\ encodeVarint(g) \in Seq(Byte)
         /\ Len(encodeVarint(g)) = sov(g) /\ sov(g) \in 1..10
         /\ encodeVarint(g)[sov(g)] < 128
         /\ \A k \in 1..(sov(g) - 1) : encodeVarint(g)[k] >= 128
<1>1. g \in Seq(Septet) /\ Len(g) \in Nat /\ Len(g) <= 10
  BY DEF IsUint64
<1>2. CASE g = <<>>
  BY <1>2 DEF encodeVarint, sov, Byte
<1>3. CASE g # <<>>
  <2>1. \A k \in 1..Len(g) : g[k] \in Nat /\ g[k] < 128
    BY <1>1, SeptetFacts
  <2>2. encodeVarint(g) = [i \in 1..Len(g) |-> IF i < Len(g) THEN g[i] + 128 ELSE g[i]]
    BY <1>3 DEF encodeVarint
  <2>3. ASSUME NEW i \in 1..Len(g) PROVE (IF i < Len(g) THEN g[i] + 128 ELSE g[i]) \in Byte
    <3>1. g[i] \in Nat /\ g[i] < 128
      BY <2>1
    <3>2. PICK x \in Nat : x = g[i] /\ x < 128
      BY <3>1
    <3>3. x < 256 /\ x + 128 \in Nat /\ x + 128 < 256
      BY <3>2
    <3>4. x \in Byte /\ x + 128 \in Byte
      BY <3>3, InByte
    <3> QED BY <3>2, <3>4
  <2>4. Len(g) >= 1
    BY <1>1, <1>3
  <2>5. PICK e : e = encodeVarint(g)
    OBVIOUS
  <2>6. \A i \in 1..Len(g) : e[i] = (IF i < Len(g) THEN g[i] + 128 ELSE g[i]) /\ e[i] \in Byte
    BY <2>2, <2>3, <2>5
  <2>7. e \in Seq(Byte) /\ Len(e) = Len(g)
    BY <1>1, <2>2, <2>5, <2>6, MakeSeq
  <2>8. Len(g) \in 1..Len(g) /\ \A k \in 1..(Len(g) - 1) : k \in 1..Len(g) /\ k < Len(g)
    BY <1>1, <2>4
  <2>9. e[Len(g)] < 128 /\ \A k \in 1..(Len(g) - 1) : e[k] >= 128
    <3>1. e[Len(g)] = g[Len(g)] /\ g[Len(g)] < 128
      BY <1>1, <2>1, <2>6, <2>8
    <3>2. ASSUME NEW k \in 1..(Len(g) - 1) PROVE e[k] >= 128
      <4>1. e[k] = g[k] + 128 /\ g[k] \in Nat
        BY <2>1, <2>6, <2>8
      <4> QED BY <4>1
    <3> QED BY <3>1, <3>2
  <2>10. sov(g) = Len(g)
    BY <1>3 DEF sov
  <2>11. sov(g) \in 1..10
    <3>1. PICK n : n = Len(g)
      OBVIOUS
    <3>2. n \in Nat /\ n <= 10 /\ n >= 1 /\ sov(g) = n
      BY <1>1, <2>4, <2>10, <3>1
    <3> QED BY <3>2
  <2>12. /\ encodeVarint(g) \in Seq(Byte) /\ Len(encodeVarint(g)) = sov(g)
         /\ encodeVarint(g)[sov(g)] < 128
         /\ \A k \in 1..(sov(g) - 1) : encodeVarint(g)[k] >= 128
    BY <2>5, <2>7, <2>9, <2>10
  <2> QED BY <2>11, <2>12
<1> QED BY <1>2, <1>3

(* Where a varint ends.                                                    *)
VarintEnds(data, i) == {j \in i..Min({i + 9, Len(data)}) : data[j] < 128}

VarintAt(data, i, last) ==
  [k \in 1..(last - i + 1) |-> IF k = 10 THEN data[i + 9] % 2 ELSE data[i + k - 1] % 128]

(* readVarint, in terms of the end of the number.                          *)
LEMMA ReadVarintDef ==
  ASSUME NEW data, NEW i
  PROVE  readVarint(data, i) =
           IF VarintEnds(data, i) = {} THEN [ok |-> FALSE]
           ELSE [ok |-> TRUE, next |-> Min(VarintEnds(data, i)) + 1,
                 groups |-> Trimmed(VarintAt(data, i, Min(VarintEnds(data, i))))]
BY DEF readVarint, VarintEnds, VarintAt

(* What is read at any position is a number of 64 bits.                    *)
LEMMA VarintFacts ==
  ASSUME NEW data \in Seq(Byte), NEW i \in Nat \ {0}, readVarint(data, i).ok
  PROVE  /\ readVarint(data, i) = [ok |-> TRUE, next |-> readVarint(data, i).next,
                                   groups |-> readVarint(data, i).groups]
         /\ readVarint(data, i).next \in (i + 1)..(Len(data) + 1)
         /\ IsUint64(readVarint(data, i).groups)
<1>1. VarintEnds(data, i) # {}
  BY ReadVarintDef
<1>2. PICK last : last = Min(VarintEnds(data, i))
  OBVIOUS
<1>3. Len(data) \in Nat /\ Min({i + 9, Len(data)}) = IF i + 9 <= Len(data) THEN i + 9 ELSE Len(data)
  BY MinOfTwo
<1>4. VarintEnds(data, i) \subseteq Nat
  BY <1>3 DEF VarintEnds
<1>5. last \in VarintEnds(data, i)
  BY <1>1, <1>2, <1>4, MinFacts
<1>6. last \in i..(i + 9) /\ last <= Len(data) /\ data[last] < 128
  BY <1>3, <1>5 DEF VarintEnds
<1>7. \A j \in 1..Len(data) : data[j] \in Nat
  BY ByteFacts
<1>8. PICK v : v = VarintAt(data, i, last)
  OBVIOUS
<1>9. v \in Seq(Septet) /\ Len(v) = last - i + 1 /\ (Len(v) = 10 => v[10] \in 0..1)
  <2>1. \A k \in 1..(last - i + 1) :
          i + k - 1 \in 1..Len(data) /\ (k = 10 => i + 9 \in 1..Len(data))
    BY <1>3, <1>6
  <2>2. ASSUME NEW k \in 1..(last - i + 1)
        PROVE  (IF k = 10 THEN data[i + 9] % 2 ELSE data[i + k - 1] % 128) \in Septet
    <3>1. CASE k = 10
      <4>1. PICK x \in Nat : x = data[i + 9]
        BY <1>7, <2>1, <3>1
      <4>2. x % 2 \in 0..1
        OBVIOUS
      <4> QED BY <3>1, <4>1, <4>2 DEF Septet
    <3>2. CASE k # 10
      <4>1. PICK x \in Nat : x = data[i + k - 1]
        BY <1>7, <2>1
      <4>2. x % 128 \in 0..127
        OBVIOUS
      <4> QED BY <3>2, <4>1, <4>2 DEF Septet
    <3> QED BY <3>1, <3>2
  <2>3. last - i + 1 \in Nat
    BY <1>6
  <2>4. v \in Seq(Septet) /\ Len(v) = last - i + 1
    BY <1>8, <2>2, <2>3, MakeSeq, SMTT(30) DEF VarintAt
  <2>5. ASSUME Len(v) = 10 PROVE v[10] \in 0..1
    <3>1. 10 \in 1..(last - i + 1) /\ v[10] = data[i + 9] % 2 /\ data[i + 9] \in Nat
      <4>1. last - i + 1 = 10 /\ 10 \in 1..(last - i + 1)
        <5>1. PICK n : n = Len(v)
          OBVIOUS
        <5>2. n = 10 /\ n = last - i + 1
          BY <2>4, <2>5, <5>1
        <5> QED BY <5>2
      <4>2. v[10] = data[i + 9] % 2
        BY <1>8, <4>1 DEF VarintAt
      <4>3. data[i + 9] \in Nat
        BY <1>7, <2>1, <4>1
      <4> QED BY <4>1, <4>2, <4>3
    <3> QED BY <3>1
  <2> QED BY <2>4, <2>5
<1>10. v \in Seq(Nat)
  BY <1>9, SeptetFacts
<1>11. PICK t : t = Trimmed(v)
  OBVIOUS
<1>12. /\ t \in Seq(Nat) /\ Len(t) <= Len(v) /\ \A k \in 1..Len(t) : t[k] = v[k]
       /\ t # <<>> => t[Len(t)] # 0
  BY <1>10, <1>11, TrimmedFacts
<1>13. IsUint64(t)
  <2>1. Len(t) \in Nat /\ Len(v) \in Nat /\ Len(v) <= 10
    BY <1>6, <1>9, <1>12
  <2>2. \A k \in 1..Len(t) : t[k] \in Septet
    BY <1>9, <1>12, <2>1, Elem
  <2>3. t \in Seq(Septet)
    <3>1. t = [k \in 1..Len(t) |-> t[k]]
      BY <1>12
    <3> QED BY <2>1, <2>2, <3>1, MakeSeq
  <2>4. ASSUME Len(t) = 10 PROVE t[10] = 1
    <3>1. Len(v) = 10 /\ t[10] = v[10] /\ t[10] # 0 /\ v[10] \in 0..1
      BY <1>9, <1>12, <2>1, <2>4, SMTT(30)
    <3> QED BY <3>1
  <2> QED BY <1>12, <2>1, <2>3, <2>4 DEF IsUint64
<1>14. readVarint(data, i) = [ok |-> TRUE, next |-> last + 1, groups |-> t]
  BY <1>1, <1>2, <1>8, <1>11, ReadVarintDef
<1> QED BY <1>3, <1>6, <1>13, <1>14

(* A varint is read as it was written, wherever it stands.                 *)
LEMMA VarintRead ==
  ASSUME NEW data \in Seq(Byte), NEW i \in Nat \ {0}, NEW g, IsUint64(g),
         Holds(data, i, encodeVarint(g))
  PROVE  readVarint(data, i) = [ok |-> TRUE, next |-> i + sov(g), groups |-> g]
<1>1. PICK e, n : e = encodeVarint(g) /\ n = sov(g)
  OBVIOUS
<1>2. /\ e \in Seq(Byte) /\ Len(e) = n /\ n \in 1..10 /\ e[n] < 128
      /\ \A k \in 1..(n - 1) : e[k] >= 128
  BY <1>1, EncodeFacts
<1>3. i + n - 1 <= Len(data) /\ \A k \in 1..n : data[i + k - 1] = e[k]
  BY <1>1, <1>2 DEF Holds
<1>4. Len(data) \in Nat /\ Min({i + 9, Len(data)}) = IF i + 9 <= Len(data) THEN i + 9 ELSE Len(data)
  BY MinOfTwo
<1>5. i + n - 1 \in VarintEnds(data, i)
  BY <1>2, <1>3, <1>4 DEF VarintEnds
<1>6. \A j \in VarintEnds(data, i) : j >= i + n - 1
  <2> SUFFICES ASSUME NEW j \in VarintEnds(data, i), j < i + n - 1 PROVE FALSE
    BY <1>2, <1>4 DEF VarintEnds
  <2>1. j \in Nat /\ j >= i /\ data[j] < 128
    BY <1>4 DEF VarintEnds
  <2>2. j - i + 1 \in 1..(n - 1) /\ i + (j - i + 1) - 1 = j
    BY <1>2, <2>1
  <2>3. PICK d : d = j - i + 1
    OBVIOUS
  <2>4. d \in 1..(n - 1) /\ d \in 1..n /\ i + d - 1 = j
    BY <1>2, <2>2, <2>3
  <2>5. data[j] = e[d] /\ e[d] >= 128
    BY <1>2, <1>3, <2>2, <2>4
  <2>6. e[d] \in Nat
    BY <1>2, <2>4, ByteFacts
  <2> QED BY <2>1, <2>5, <2>6
<1>7. Min(VarintEnds(data, i)) = i + n - 1
  <2>1. VarintEnds(data, i) \subseteq Nat
    BY <1>4 DEF VarintEnds
  <2> QED BY <1>2, <1>5, <1>6, <2>1, MinFacts
<1>8. PICK v : v = VarintAt(data, i, i + n - 1)
  OBVIOUS
<1>9. v = [k \in 1..n |-> IF k = 10 THEN data[i + 9] % 2 ELSE data[i + k - 1] % 128]
  BY <1>2, <1>8 DEF VarintAt
<1>10. Trimmed(v) = g
  <2>1. CASE g = <<>>
    <3>1. n = 1 /\ e = <<0>>
      BY <1>1, <2>1 DEF encodeVarint, sov
    <3>2. data[i] = 0
      BY <1>3, <3>1
    <3>3. v = <<0>>
      BY <1>9, <3>1, <3>2
    <3>4. v \in Seq(Nat) /\ Len(v) = 1 /\ v[1] = 0
      BY <3>3
    <3>5. Trimmed(v) = <<>>
      <4>1. PICK t : t = Trimmed(v)
        OBVIOUS
      <4>2. /\ t \in Seq(Nat) /\ Len(t) <= 1 /\ \A k \in 1..Len(t) : t[k] = v[k]
            /\ t # <<>> => t[Len(t)] # 0
        BY <3>4, <4>1, TrimmedFacts
      <4>3. Len(t) = 0
        BY <3>4, <4>2
      <4> QED BY <4>1, <4>2, <4>3
    <3> QED BY <2>1, <3>5
  <2>2. CASE g # <<>>
    <3>1. g \in Seq(Septet) /\ Len(g) = n /\ g[n] # 0 /\ (n = 10 => g[10] = 1)
      BY <1>1, <2>2 DEF IsUint64, sov
    <3>2. \A k \in 1..n : e[k] = IF k < n THEN g[k] + 128 ELSE g[k]
      BY <1>1, <2>2, <3>1 DEF encodeVarint
    <3>3. \A k \in 1..n : g[k] \in Nat /\ g[k] < 128
      BY <3>1, SeptetFacts
    <3>4. ASSUME NEW k \in 1..n
          PROVE  (IF k = 10 THEN data[i + 9] % 2 ELSE data[i + k - 1] % 128) = g[k]
      <4>1. data[i + k - 1] = e[k] /\ e[k] = (IF k < n THEN g[k] + 128 ELSE g[k]) 
            /\ g[k] \in Nat /\ g[k] < 128
        BY <1>3, <3>2, <3>3
      <4>2. CASE k = 10
        <5>1. n = 10 /\ data[i + 9] = 1 /\ g[k] = 1
          BY <1>2, <3>1, <4>1, <4>2
        <5> QED BY <4>2, <5>1
      <4>3. CASE k # 10
        <5>1. PICK x, y : x = g[k] /\ y = data[i + k - 1]
          OBVIOUS
        <5>2. x \in Nat /\ x < 128 /\ (y = x + 128 \/ y = x)
          BY <4>1, <5>1
        <5>3. y % 128 = x
          BY <5>2
        <5> QED BY <4>3, <5>1, <5>3
      <4> QED BY <4>2, <4>3
    <3>5. v = [k \in 1..n |-> g[k]]
      BY <1>9, <3>4
    <3>6. v = g
      BY <3>1, <3>5
    <3>7. g \in Seq(Nat)
      BY <3>1, SeptetFacts
    <3> QED BY <3>1, <3>6, <3>7, TrimmedSame
  <2> QED BY <2>1, <2>2
<1> QED BY <1>1, <1>2, <1>5, <1>7, <1>8, <1>10, ReadVarintDef

(* Bytes that end inside of a varint are refused.                          *)
LEMMA VarintCut ==
  ASSUME NEW data \in Seq(Byte), NEW i \in Nat \ {0}, NEW g, IsUint64(g),
         Len(data) < i + sov(g) - 1,
         \A k \in 1..sov(g) : i + k - 1 <= Len(data) => data[i + k - 1] = encodeVarint(g)[k]
  PROVE  ~readVarint(data, i).ok
<1>1. PICK e, n : e = encodeVarint(g) /\ n = sov(g)
  OBVIOUS
<1>2. e \in Seq(Byte) /\ Len(e) = n /\ n \in 1..10 /\ \A k \in 1..(n - 1) : e[k] >= 128
  BY <1>1, EncodeFacts
<1>3. Len(data) \in Nat /\ Min({i + 9, Len(data)}) = IF i + 9 <= Len(data) THEN i + 9 ELSE Len(data)
  BY MinOfTwo
<1>4. ASSUME NEW j \in VarintEnds(data, i) PROVE FALSE
  <2>1. j \in Nat /\ j >= i /\ j <= Len(data) /\ data[j] < 128
    BY <1>3 DEF VarintEnds
  <2>2. j - i + 1 \in 1..(n - 1) /\ i + (j - i + 1) - 1 = j
    BY <1>1, <1>2, <1>3, <2>1
  <2>3. PICK d : d = j - i + 1
    OBVIOUS
  <2>4. d \in 1..(n - 1) /\ d \in 1..n /\ i + d - 1 = j
    BY <1>2, <2>2, <2>3
  <2>5. data[j] = e[d] /\ e[d] >= 128
    BY <1>1, <1>2, <2>1, <2>2, <2>4
  <2>6. e[d] \in Nat
    BY <1>2, <2>4, ByteFacts
  <2> QED BY <2>1, <2>5, <2>6
<1>5. VarintEnds(data, i) = {}
  BY <1>4
<1> QED BY <1>5, ReadVarintDef

-----------------------------------------------------------------------------
(* Lengths and int32.                                                      *)

(* A remainder that is a group.                                            *)
LEMMA ModSeptet ==
  ASSUME NEW x \in Nat
  PROVE  x % 128 \in Septet
BY DEF Septet

(* A length is the sum of its groups.                                      *)
LEMMA DivModSum ==
  ASSUME NEW n \in Nat, n < 268435456
  PROVE  /\ (n % 128) + 128 * ((n \div 128) % 128) + 16384 * ((n \div 16384) % 128)
            + 2097152 * ((n \div 2097152) % 128) = n
         /\ (n \div 268435456) % 128 = 0
BY SMTT(60)

(* What Length makes of five groups.                                       *)
LEMMA FiveGroups ==
  ASSUME NEW g \in Seq(Septet), Len(g) = 5
  PROVE  /\ IsUint64(Trimmed(g))
         /\ g[5] = 0 =>
              Length(Trimmed(g)) = g[1] + 128 * g[2] + 16384 * g[3] + 2097152 * g[4]
<1>1. g \in Seq(Nat)
  BY SeptetFacts
<1>2. PICK t : t = Trimmed(g)
  OBVIOUS
<1>3. PICK l : l = Len(t)
  OBVIOUS
<1>4. PICK j : j = Len(g)
  OBVIOUS
<1>5. /\ t \in Seq(Nat) /\ j \in Nat /\ l \in Nat /\ l <= j
      /\ \A k \in 1..l : t[k] = g[k]
      /\ t # <<>> => t[l] # 0
  <2>1. /\ Trimmed(g) \in Seq(Nat) /\ Len(Trimmed(g)) <= Len(g)
        /\ \A i \in 1..Len(Trimmed(g)) : Trimmed(g)[i] = g[i]
        /\ Trimmed(g) # <<>> => Trimmed(g)[Len(Trimmed(g))] # 0
    BY <1>1, TrimmedFacts
  <2>2. Len(Trimmed(g)) \in Nat /\ Len(g) \in Nat
    BY <1>1, <2>1
  <2>3. l = Len(Trimmed(g))
    BY <1>2, <1>3
  <2> QED BY <1>2, <1>4, <2>1, <2>2, <2>3
<1>6. j = 5 /\ l <= 5
  BY <1>4, <1>5
<1>7. IsUint64(t)
  <2>1. \A k \in 1..l : k \in 1..Len(g)
    BY <1>5, <1>6
  <2>2. \A k \in 1..l : t[k] \in Septet
    BY <1>5, <2>1, Elem
  <2>3. t = [k \in 1..l |-> t[k]]
    BY <1>3, <1>5
  <2>4. t \in Seq(Septet)
    BY <1>5, <2>2, <2>3, MakeSeq
  <2>5. l <= 10 /\ l # 10
    BY <1>5, <1>6
  <2> QED BY <1>3, <1>5, <2>4, <2>5 DEF IsUint64
<1>8. Group(t, 1) = g[1] /\ Group(t, 2) = g[2] /\ Group(t, 3) = g[3] /\ Group(t, 4) = g[4]
  <2>1. Group(g, 1) = g[1] /\ Group(g, 2) = g[2] /\ Group(g, 3) = g[3] /\ Group(g, 4) = g[4]
    BY <1>4, <1>6 DEF Group
  <2> QED BY <1>1, <1>2, <2>1, TrimmedGroup
<1>9. ASSUME g[5] = 0 PROVE Length(t) = g[1] + 128 * g[2] + 16384 * g[3] + 2097152 * g[4]
  <2>1. l # 5
    <3> SUFFICES ASSUME l = 5 PROVE FALSE
      OBVIOUS
    <3>1. 5 \in 1..l
      OBVIOUS
    <3>2. t[5] = g[5]
      BY <1>5, <3>1
    <3>3. t # <<>>
      BY <1>3, SMTT(30)
    <3> QED BY <1>5, <1>9, <3>2, <3>3
  <2>2. ~(l = 10) /\ l \notin 5..9
    BY <1>5, <1>6, <2>1
  <2> QED BY <1>3, <1>8, <2>2 DEF Length
<1> QED BY <1>2, <1>7, <1>9

(* The groups of a length are a number, and the length is read from them.  *)
LEMMA GroupsFacts ==
  ASSUME NEW n \in Nat
  PROVE  IsUint64(Groups(n)) /\ (n < MaxLength => Length(Groups(n)) = n)
<1>1. PICK a, b, c, d, e : /\ a = n % 128 /\ b = (n \div 128) % 128
                           /\ c = (n \div 16384) % 128 /\ d = (n \div 2097152) % 128
                           /\ e = (n \div 268435456) % 128
  BY SMT
<1>2. a \in Septet /\ b \in Septet /\ c \in Septet /\ d \in Septet /\ e \in Septet
  <2>1. PICK p, q, r, s : /\ p = n \div 128 /\ q = n \div 16384
                          /\ r = n \div 2097152 /\ s = n \div 268435456
    BY SMT
  <2>2. p \in Nat /\ q \in Nat /\ r \in Nat /\ s \in Nat
    BY <2>1, SMT
  <2>3. a = n % 128 /\ b = p % 128 /\ c = q % 128 /\ d = r % 128 /\ e = s % 128
    BY <1>1, <2>1, SMT
  <2> QED BY <2>2, <2>3, ModSeptet
<1>3. PICK g : g = <<a, b, c, d, e>>
  OBVIOUS
<1>4. /\ g \in Seq(Septet) /\ Len(g) = 5
      /\ g[1] = a /\ g[2] = b /\ g[3] = c /\ g[4] = d /\ g[5] = e
  BY <1>2, <1>3
<1>5. Groups(n) = Trimmed(g)
  BY <1>1, <1>3, SMT DEF Groups, MaxLength
<1>6. /\ IsUint64(Trimmed(g))
      /\ e = 0 => Length(Trimmed(g)) = a + 128 * b + 16384 * c + 2097152 * d
  BY <1>4, FiveGroups
<1>7. ASSUME n < MaxLength PROVE a + 128 * b + 16384 * c + 2097152 * d = n /\ e = 0
  BY <1>1, <1>7, DivModSum, SMT DEF MaxLength
<1> QED BY <1>5, <1>6, <1>7

(* The fifth group of an int32.                                            *)
LEMMA CutGroup ==
  ASSUME NEW x \in Nat, x < 128
  PROVE  /\ x % 16 \in Nat /\ x % 16 < 16 /\ x % 16 < 128
         /\ x < 16 => x % 16 = x /\ (x + 112) % 16 = x
OBVIOUS

(* What an int32 is cut from.                                              *)
Low(g, n) == [i \in 1..n |-> IF i = 5 THEN g[i] % 16 ELSE g[i]]

(* Int32, without the minimum.                                             *)
LEMMA Int32Def ==
  ASSUME NEW g, NEW l \in Nat, l = Len(g), NEW n, n = (IF 5 <= l THEN 5 ELSE l)
  PROVE  Int32(g) = Trimmed(Low(g, n))
<1>1. Min({5, Len(g)}) = n
  BY MinOfTwo
<1> QED BY <1>1 DEF Int32, Low

(* What is read as an int32 is one.                                        *)
LEMMA Int32Facts ==
  ASSUME NEW g, IsUint64(g)
  PROVE  IsInt32(Int32(g))
<1>1. PICK l : l = Len(g)
  OBVIOUS
<1>2. g \in Seq(Septet) /\ l \in Nat /\ \A i \in 1..l : g[i] \in Nat /\ g[i] < 128
  BY <1>1, SeptetFacts DEF IsUint64
<1>3. PICK n : n = IF 5 <= l THEN 5 ELSE l
  OBVIOUS
<1>4. n \in Nat /\ n <= 5 /\ n <= l
  BY <1>2, <1>3
<1>5. PICK v : v = Low(g, n)
  OBVIOUS
<1>6. ASSUME NEW i \in 1..n PROVE v[i] \in Septet /\ (i = 5 => v[i] < 16)
  <2>1. PICK x : x = g[i] /\ x \in Nat /\ x < 128
    BY <1>2, <1>4
  <2>2. v[i] = IF i = 5 THEN x % 16 ELSE x
    BY <1>5, <2>1 DEF Low
  <2>3. x % 16 \in Nat /\ x % 16 < 16 /\ x % 16 < 128
    BY <2>1, CutGroup
  <2> QED BY <2>1, <2>2, <2>3, InSeptet
<1>7. v \in Seq(Septet) /\ Len(v) = n
  <2>1. v = [i \in 1..n |-> v[i]]
    BY <1>5 DEF Low
  <2> QED BY <1>4, <1>6, <2>1, MakeSeq
<1>8. PICK t : t = Trimmed(v)
  OBVIOUS
<1>9. PICK k : k = Len(t)
  OBVIOUS
<1>10. /\ t \in Seq(Nat) /\ k \in Nat /\ k <= n /\ \A i \in 1..k : t[i] = v[i]
       /\ t # <<>> => t[k] # 0
  <2>1. v \in Seq(Nat)
    BY <1>7, SeptetFacts
  <2>2. PICK j : j = Len(v)
    OBVIOUS
  <2>3. /\ t \in Seq(Nat) /\ k \in Nat /\ k <= j /\ \A i \in 1..k : t[i] = v[i]
        /\ t # <<>> => t[k] # 0
    BY <1>8, <1>9, <2>1, <2>2, TrimmedTo
  <2>4. j = n
    BY <1>7, <2>2
  <2> QED BY <2>3, <2>4
<1>11. t \in Seq(Septet)
  <2>1. \A i \in 1..k : i \in 1..n /\ t[i] \in Septet
    BY <1>4, <1>6, <1>10
  <2>2. t = [i \in 1..k |-> t[i]]
    BY <1>9, <1>10
  <2> QED BY <1>10, <2>1, <2>2, MakeSeq
<1>12. k <= 5 /\ (k = 5 => t[5] < 16)
  BY <1>4, <1>6, <1>10
<1>13. Int32(g) = t
  BY <1>1, <1>2, <1>3, <1>5, <1>8, Int32Def
<1> QED BY <1>9, <1>10, <1>11, <1>12, <1>13 DEF IsInt32

(* An int32 survives its way through a uint64.                             *)
LEMMA Int32Read ==
  ASSUME NEW g, IsInt32(g)
  PROVE  IsUint64(Uint64(g)) /\ Int32(Uint64(g)) = g /\ (g # <<>> => Uint64(g) # <<>>)
<1>1. PICK l : l = Len(g)
  OBVIOUS
<1>2. /\ g \in Seq(Septet) /\ g \in Seq(Nat) /\ l \in Nat /\ l <= 5 /\ (g # <<>> => g[l] # 0)
      /\ \A i \in 1..l : g[i] \in Nat /\ g[i] < 128
      /\ l = 5 => g[5] < 16
  BY <1>1, SeptetFacts DEF IsInt32
<1>3. g = [i \in 1..l |-> g[i]]
  BY <1>1, <1>2
<1>4. CASE Group(g, 5) < 8
  <2>1. Uint64(g) = g
    BY <1>4 DEF Uint64
  <2>2. l # 10 /\ l <= 10
    BY <1>2
  <2>3. IsUint64(g)
    BY <1>1, <1>2, <2>2 DEF IsUint64
  <2>4. PICK n : n = IF 5 <= l THEN 5 ELSE l
    OBVIOUS
  <2>5. n = l
    BY <1>2, <2>4
  <2>6. ASSUME NEW i \in 1..l PROVE (IF i = 5 THEN g[i] % 16 ELSE g[i]) = g[i]
    <3>1. PICK x : x = g[i] /\ x \in Nat /\ x < 128 /\ (i = 5 => x < 16)
      BY <1>2
    <3> QED BY <3>1, CutGroup
  <2>7. Low(g, n) = g
    BY <1>3, <2>5, <2>6 DEF Low
  <2>8. Trimmed(g) = g
    BY <1>1, <1>2, TrimmedSame
  <2>9. Int32(g) = g
    BY <1>1, <1>2, <2>4, <2>7, <2>8, Int32Def
  <2> QED BY <2>1, <2>3, <2>9
<1>5. CASE ~(Group(g, 5) < 8)
  <2>1. l = 5
    BY <1>1, <1>2, <1>5, SMTT(30) DEF Group
  <2>2. g[5] \in Nat /\ g[5] < 16 /\ \A i \in 1..5 : g[i] \in Nat /\ g[i] < 128
    BY <1>2, <2>1
  <2>3. PICK u : u = Uint64(g)
    OBVIOUS
  <2>4. u = [i \in 1..10 |-> CASE i < 5 -> g[i] [] i = 5 -> g[i] + 112
                               [] i \in 6..9 -> 127 [] i = 10 -> 1]
    BY <1>5, <2>3 DEF Uint64
  <2>5. /\ \A i \in 1..4 : u[i] = g[i]
        /\ u[5] = g[5] + 112 /\ \A i \in 6..9 : u[i] = 127
        /\ u[10] = 1
    BY <2>4
  <2>6. ASSUME NEW i \in 1..10 PROVE u[i] \in Nat /\ u[i] < 128
    <3>1. i \in 1..4 \/ i = 5 \/ i \in 6..9 \/ i = 10
      OBVIOUS
    <3> QED BY <2>2, <2>5, <3>1
  <2>7. u \in Seq(Septet) /\ Len(u) = 10
    <3>1. u = [i \in 1..10 |-> u[i]]
      BY <2>4
    <3> QED BY <2>6, <3>1, InSeptet, MakeSeq
  <2>8. IsUint64(u) /\ u # <<>>
    <3>1. u # <<>>
      BY <2>7
    <3>2. u[Len(u)] # 0 /\ Len(u) <= 10 /\ u[10] = 1
      BY <2>5, <2>7
    <3> QED BY <2>7, <3>1, <3>2 DEF IsUint64
  <2>9. ASSUME NEW i \in 1..5 PROVE (IF i = 5 THEN u[i] % 16 ELSE u[i]) = g[i]
    <3>1. CASE i = 5
      <4>1. PICK x : x = g[5] /\ x \in Nat /\ x < 16 /\ x < 128
        BY <2>2
      <4>2. (x + 112) % 16 = x
        BY <4>1, CutGroup
      <4> QED BY <2>5, <3>1, <4>1, <4>2
    <3>2. CASE i # 5
      BY <2>5, <3>2
    <3> QED BY <3>1, <3>2
  <2>10. Low(u, 5) = g
    BY <1>3, <2>1, <2>9 DEF Low
  <2>11. Trimmed(g) = g
    BY <1>1, <1>2, TrimmedSame
  <2>12. Int32(u) = Trimmed(Low(u, 5))
    BY <2>7, Int32Def, SMTT(30)
  <2> QED BY <2>3, <2>8, <2>10, <2>11, <2>12
<1> QED BY <1>4, <1>5

-----------------------------------------------------------------------------
(* The loops, as functions of the number of rounds.                        *)

(* The loops of the codec: a sum, a concatenation, and the three that read. *)
Start(loop) ==
  CASE loop[1] = "sum"  -> 0
    [] loop[1] = "join" -> <<>>
    [] loop[1] = "skip" -> [next |-> loop[3], depth |-> 0, done |-> FALSE]
    [] loop[1] = "list" -> [ok |-> TRUE, next |-> loop[3], values |-> <<>>]
    [] loop[1] = "read" -> [ok |-> TRUE, next |-> 1, msg |-> loop[4]]

Round(loop, s, n) ==
  CASE loop[1] = "sum"  -> s + loop[2][n]
    [] loop[1] = "join" -> s \o loop[2][n]
    [] loop[1] = "skip" -> IF s.done THEN s ELSE skipOne(loop[2], s)
    [] loop[1] = "list" -> IF s.ok /\ s.next <= loop[4] THEN readElement(loop[2], s) ELSE s
    [] loop[1] = "read" -> IF s.ok /\ s.next <= Len(loop[2]) THEN readNext(loop[3], loop[2], s)
                           ELSE s

IsRun(f, loop, D) == f = [n \in D |-> IF n = 0 THEN Start(loop) ELSE Round(loop, f[n - 1], n)]

(* Any number of rounds can be made.                                       *)
LEMMA RunUpTo ==
  ASSUME NEW loop
  PROVE  \A n \in Nat : \E f : IsRun(f, loop, 0..n)
<1> DEFINE N == {n \in Nat : \E f : IsRun(f, loop, 0..n)}
<1>1. 0 \in N
  <2> DEFINE f == [n \in 0..0 |-> Start(loop)]
  <2>1. IsRun(f, loop, 0..0)
    BY DEF IsRun
  <2> QED BY <2>1
<1>2. ASSUME NEW n \in Nat, n \in N PROVE n + 1 \in N
  <2>1. PICK f : IsRun(f, loop, 0..n)
    BY <1>2
  <2> DEFINE g == [k \in 0..(n + 1) |-> IF k <= n THEN f[k] ELSE Round(loop, f[n], n + 1)]
  <2>2. \A k \in 0..n : k \in 0..(n + 1) /\ g[k] = f[k]
    OBVIOUS
  <2>3. \A k \in 0..n : f[k] = IF k = 0 THEN Start(loop) ELSE Round(loop, f[k - 1], k)
    BY <2>1 DEF IsRun
  <2>4. ASSUME NEW k \in 0..(n + 1)
        PROVE  g[k] = IF k = 0 THEN Start(loop) ELSE Round(loop, g[k - 1], k)
    <3>1. CASE k <= n
      <4>1. k \in 0..n /\ (k # 0 => k - 1 \in 0..n)
        BY <3>1
      <4> QED BY <2>2, <2>3, <4>1
    <3>2. CASE ~(k <= n)
      <4>1. k = n + 1 /\ k # 0 /\ k - 1 = n /\ n \in 0..n
        BY <3>2
      <4>2. g[k] = Round(loop, f[n], n + 1) /\ g[n] = f[n]
        BY <2>2, <3>2, <4>1
      <4> QED BY <4>1, <4>2
    <3> QED BY <3>1, <3>2
  <2>5. IsRun(g, loop, 0..(n + 1))
    <3> HIDE DEF g
    <3>1. g = [k \in 0..(n + 1) |-> g[k]]
      BY DEF g
    <3> QED BY <2>4, <3>1 DEF IsRun
  <2> QED BY <2>5
<1> HIDE DEF N
<1>3. \A n \in Nat : n \in N
  BY <1>1, <1>2, Induction
<1> QED BY <1>3 DEF N

(* Two runs of a loop agree as far as both go.                             *)
LEMMA RunsAgree ==
  ASSUME NEW loop, NEW n \in Nat, NEW p \in Nat, n <= p,
         NEW f, IsRun(f, loop, 0..n), NEW g, IsRun(g, loop, 0..p)
  PROVE  \A k \in 0..n : f[k] = g[k]
<1> DEFINE N == {k \in Nat : k <= n => f[k] = g[k]}
<1>1. /\ \A k \in 0..n : f[k] = IF k = 0 THEN Start(loop) ELSE Round(loop, f[k - 1], k)
      /\ \A k \in 0..n : g[k] = IF k = 0 THEN Start(loop) ELSE Round(loop, g[k - 1], k)
  BY DEF IsRun
<1>2. 0 \in N
  BY <1>1
<1>3. ASSUME NEW k \in Nat, k \in N PROVE k + 1 \in N
  <2>1. ASSUME k + 1 <= n PROVE f[k + 1] = g[k + 1]
    <3>1. k + 1 \in 0..n /\ k + 1 # 0 /\ (k + 1) - 1 = k /\ f[k] = g[k]
      BY <1>3, <2>1
    <3> QED BY <1>1, <3>1
  <2> QED BY <2>1
<1> HIDE DEF N
<1>4. \A k \in Nat : k \in N
  BY <1>2, <1>3, Induction
<1> QED BY <1>4 DEF N

(* A loop that goes on for ever.                                           *)
LEMMA RunExists ==
  ASSUME NEW loop
  PROVE  \E f : IsRun(f, loop, Nat)
<1> DEFINE F(n) == CHOOSE f : IsRun(f, loop, 0..n)
           h == [n \in Nat |-> F(n)[n]]
<1>1. \A n \in Nat : IsRun(F(n), loop, 0..n)
  BY RunUpTo
<1> HIDE DEF F
<1>2. ASSUME NEW n \in Nat PROVE h[n] = IF n = 0 THEN Start(loop) ELSE Round(loop, h[n - 1], n)
  <2>1. \A k \in 0..n : F(n)[k] = IF k = 0 THEN Start(loop) ELSE Round(loop, F(n)[k - 1], k)
    BY <1>1 DEF IsRun
  <2>2. n \in 0..n
    OBVIOUS
  <2>3. CASE n = 0
    BY <2>1, <2>2, <2>3
  <2>4. CASE n # 0
    <3>1. n - 1 \in Nat /\ n - 1 <= n /\ n - 1 \in 0..(n - 1)
      BY <2>4
    <3>2. F(n - 1)[n - 1] = F(n)[n - 1]
      BY <1>1, <3>1, RunsAgree
    <3>3. h[n] = F(n)[n] /\ h[n - 1] = F(n - 1)[n - 1]
      BY <3>1
    <3> QED BY <2>1, <2>2, <2>4, <3>2, <3>3
  <2> QED BY <2>3, <2>4
<1>3. h = [n \in Nat |-> h[n]]
  OBVIOUS
<1> HIDE DEF h
<1>4. IsRun(h, loop, Nat)
  BY <1>2, <1>3 DEF IsRun
<1> QED BY <1>4

(* The sums of the first numbers of a sequence.                            *)
LEMMA SumsRec ==
  ASSUME NEW sizes
  PROVE  /\ Sums(sizes)[0] = 0
         /\ \A n \in Nat \ {0} : Sums(sizes)[n] = Sums(sizes)[n - 1] + sizes[n]
<1> DEFINE loop == <<"sum", sizes>>
<1>1. PICK f : IsRun(f, loop, Nat)
  BY RunExists
<1>2. Start(loop) = 0 /\ \A s, n : Round(loop, s, n) = s + sizes[n]
  BY DEF Start, Round
<1>3. f = [n \in Nat |-> IF n = 0 THEN 0 ELSE f[n - 1] + sizes[n]]
  BY <1>1, <1>2 DEF IsRun
<1>4. PICK g : g = Sums(sizes)
  OBVIOUS
<1>5. g = [n \in Nat |-> IF n = 0 THEN 0 ELSE g[n - 1] + sizes[n]]
  BY <1>3, <1>4 DEF Sums
<1>6. \A n \in Nat : g[n] = IF n = 0 THEN 0 ELSE g[n - 1] + sizes[n]
  BY <1>5
<1> QED BY <1>4, <1>6

(* The first parts of a concatenation.                                     *)
LEMMA PrefixesRec ==
  ASSUME NEW parts
  PROVE  /\ Prefixes(parts)[0] = <<>>
         /\ \A n \in Nat \ {0} : Prefixes(parts)[n] = Prefixes(parts)[n - 1] \o parts[n]
<1> DEFINE loop == <<"join", parts>>
<1>1. PICK f : IsRun(f, loop, Nat)
  BY RunExists
<1>2. Start(loop) = <<>> /\ \A s, n : Round(loop, s, n) = s \o parts[n]
  BY DEF Start, Round
<1>3. f = [n \in Nat |-> IF n = 0 THEN <<>> ELSE f[n - 1] \o parts[n]]
  BY <1>1, <1>2 DEF IsRun
<1>4. PICK g : g = Prefixes(parts)
  OBVIOUS
<1>5. g = [n \in Nat |-> IF n = 0 THEN <<>> ELSE g[n - 1] \o parts[n]]
  BY <1>3, <1>4 DEF Prefixes
<1>6. \A n \in Nat : g[n] = IF n = 0 THEN <<>> ELSE g[n - 1] \o parts[n]
  BY <1>5
<1> QED BY <1>4, <1>6

(* The rounds of the loops that read.                                      *)
LEMMA SkippingRec ==
  ASSUME NEW data, LastRound(data) \in Nat, NEW i
  PROVE  /\ skipping(data, i)[0] = [next |-> i, depth |-> 0, done |-> FALSE]
         /\ \A k \in 1..LastRound(data) :
              skipping(data, i)[k] = IF skipping(data, i)[k - 1].done THEN skipping(data, i)[k - 1]
                                     ELSE skipOne(data, skipping(data, i)[k - 1])
<1> DEFINE loop == <<"skip", data, i>>
           D == 0..LastRound(data)
<1>1. PICK f : IsRun(f, loop, D)
  BY RunUpTo
<1>2. /\ Start(loop) = [next |-> i, depth |-> 0, done |-> FALSE]
      /\ \A s, n : Round(loop, s, n) = IF s.done THEN s ELSE skipOne(data, s)
  BY DEF Start, Round
<1>3. f = [k \in D |-> IF k = 0 THEN [next |-> i, depth |-> 0, done |-> FALSE]
                       ELSE IF f[k - 1].done THEN f[k - 1] ELSE skipOne(data, f[k - 1])]
  BY <1>1, <1>2 DEF IsRun
<1>4. PICK g : g = skipping(data, i)
  OBVIOUS
<1>5. g = [k \in D |-> IF k = 0 THEN [next |-> i, depth |-> 0, done |-> FALSE]
                       ELSE IF g[k - 1].done THEN g[k - 1] ELSE skipOne(data, g[k - 1])]
  BY <1>3, <1>4 DEF skipping
<1>6. 0 \in D /\ \A k \in 1..LastRound(data) : k \in D /\ k # 0
  OBVIOUS
<1> HIDE DEF D
<1> QED BY <1>4, <1>5, <1>6

(* After its end a loop stays as it is; before, each round is readElement  *)
(* or readNext.                                                            *)
Ends(g, to, N) == \A k \in 1..N : Ended(g[k - 1], to) => g[k] = g[k - 1]
Unpacks(g, data, to, N) ==
  \A k \in 1..N : ~Ended(g[k - 1], to) => g[k] = readElement(data, g[k - 1])
Goes(g, T, data, to, N) ==
  \A k \in 1..N : ~Ended(g[k - 1], to) => g[k] = readNext(T, data, g[k - 1])

(* The rounds of the loop over the elements of a packed field.             *)
LEMMA ReadingPackedRec ==
  ASSUME NEW data, LastRound(data) \in Nat, NEW from, NEW to,
         NEW g, g = readingPacked(data, from, to)
  PROVE  /\ g[0] = [ok |-> TRUE, next |-> from, values |-> <<>>]
         /\ Ends(g, to, LastRound(data))
         /\ Unpacks(g, data, to, LastRound(data))
<1> DEFINE loop == <<"list", data, from, to>>
           D == 0..LastRound(data)
<1>1. PICK f : IsRun(f, loop, D)
  BY RunUpTo
<1>2. /\ Start(loop) = [ok |-> TRUE, next |-> from, values |-> <<>>]
      /\ \A s, n : Round(loop, s, n) = IF s.ok /\ s.next <= to THEN readElement(data, s) ELSE s
  BY DEF Start, Round
<1>3. f = [k \in D |-> IF k = 0 THEN [ok |-> TRUE, next |-> from, values |-> <<>>]
                       ELSE IF f[k - 1].ok /\ f[k - 1].next <= to THEN readElement(data, f[k - 1])
                       ELSE f[k - 1]]
  BY <1>1, <1>2 DEF IsRun
<1>4. g = [k \in D |-> IF k = 0 THEN [ok |-> TRUE, next |-> from, values |-> <<>>]
                       ELSE IF g[k - 1].ok /\ g[k - 1].next <= to THEN readElement(data, g[k - 1])
                       ELSE g[k - 1]]
  BY <1>3 DEF readingPacked
<1>5. 0 \in D /\ \A k \in 1..LastRound(data) : k \in D /\ k # 0
  OBVIOUS
<1> HIDE DEF D
<1>6. \A k \in 1..LastRound(data) :
        g[k] = IF g[k - 1].ok /\ g[k - 1].next <= to THEN readElement(data, g[k - 1])
               ELSE g[k - 1]
  BY <1>4, <1>5
<1>7. g[0] = [ok |-> TRUE, next |-> from, values |-> <<>>]
  BY <1>4, <1>5
<1> QED BY <1>6, <1>7 DEF Ended, Ends, Unpacks

(* The rounds of the loop of Unmarshal.                                    *)
LEMMA ReadingRec ==
  ASSUME NEW T, NEW data, LastRound(data) \in Nat, NEW m, NEW to, to = Len(data),
         NEW g, g = reading(T, data, m)
  PROVE  /\ g[0] = [ok |-> TRUE, next |-> 1, msg |-> m]
         /\ Ends(g, to, LastRound(data))
         /\ Goes(g, T, data, to, LastRound(data))
<1> DEFINE loop == <<"read", data, T, m>>
           D == 0..LastRound(data)
<1>1. PICK f : IsRun(f, loop, D)
  BY RunUpTo
<1>2. /\ Start(loop) = [ok |-> TRUE, next |-> 1, msg |-> m]
      /\ \A s, n : Round(loop, s, n) = IF s.ok /\ s.next <= Len(data) THEN readNext(T, data, s)
                                       ELSE s
  BY DEF Start, Round
<1>3. f = [k \in D |-> IF k = 0 THEN [ok |-> TRUE, next |-> 1, msg |-> m]
                       ELSE IF f[k - 1].ok /\ f[k - 1].next <= Len(data)
                            THEN readNext(T, data, f[k - 1]) ELSE f[k - 1]]
  BY <1>1, <1>2 DEF IsRun
<1>4. g = [k \in D |-> IF k = 0 THEN [ok |-> TRUE, next |-> 1, msg |-> m]
                       ELSE IF g[k - 1].ok /\ g[k - 1].next <= Len(data)
                            THEN readNext(T, data, g[k - 1]) ELSE g[k - 1]]
  BY <1>3 DEF reading
<1>5. 0 \in D /\ \A k \in 1..LastRound(data) : k \in D /\ k # 0
  OBVIOUS
<1> HIDE DEF D
<1>6. \A k \in 1..LastRound(data) :
        g[k] = IF g[k - 1].ok /\ g[k - 1].next <= to THEN readNext(T, data, g[k - 1])
               ELSE g[k - 1]
  BY <1>4, <1>5
<1>7. g[0] = [ok |-> TRUE, next |-> 1, msg |-> m]
  BY <1>4, <1>5
<1> QED BY <1>6, <1>7 DEF Ended, Ends, Goes

-----------------------------------------------------------------------------
(* Bytes in a row.                                                         *)

(* The data, as far as they go, are the bytes from position i on.          *)
Agrees(data, i, bytes) ==
  \A k \in 1..Len(bytes) : i + k - 1 <= Len(data) => data[i + k - 1] = bytes[k]

(* Data that agree and are long enough hold all of the bytes.              *)
LEMMA AgreesHolds ==
  ASSUME NEW data \in Seq(Byte), NEW bytes \in Seq(Byte), NEW i \in Nat \ {0},
         Agrees(data, i, bytes), NEW l, l = Len(bytes), i + l - 1 <= Len(data)
  PROVE  Holds(data, i, bytes)
<1>1. l \in Nat /\ Len(data) \in Nat
  OBVIOUS
<1>2. \A k \in 1..l : i + k - 1 <= Len(data)
  BY <1>1
<1> QED BY <1>1, <1>2 DEF Agrees, Holds

(* The two parts of a concatenation.                                       *)
LEMMA ConcatFacts ==
  ASSUME NEW S, NEW a \in Seq(S), NEW b \in Seq(S)
  PROVE  /\ a \o b \in Seq(S) /\ Len(a \o b) = Len(a) + Len(b)
         /\ Len(a) \in Nat /\ Len(b) \in Nat
         /\ \A k \in 1..Len(a) : (a \o b)[k] = a[k]
         /\ \A k \in 1..Len(b) : (a \o b)[Len(a) + k] = b[k]
<1>1. a \o b \in Seq(S) /\ Len(a \o b) = Len(a) + Len(b) /\ Len(a) \in Nat /\ Len(b) \in Nat
  BY ConcatProperties
<1>2. \A k \in 1..(Len(a) + Len(b)) : (a \o b)[k] = IF k <= Len(a) THEN a[k] ELSE b[k - Len(a)]
  BY ConcatProperties
<1>3. PICK n, p : n = Len(a) /\ p = Len(b)
  OBVIOUS
<1>4. n \in Nat /\ p \in Nat
  BY <1>1, <1>3
<1>5. \A k \in 1..n : k \in 1..(n + p) /\ k <= n
  BY <1>4
<1>6. \A k \in 1..p : n + k \in 1..(n + p) /\ ~(n + k <= n) /\ (n + k) - n = k
  BY <1>4
<1> QED BY <1>1, <1>2, <1>3, <1>5, <1>6

(* Data that agree with two strings agree with each.                       *)
LEMMA AgreesConcat ==
  ASSUME NEW data \in Seq(Byte), NEW a \in Seq(Byte), NEW b \in Seq(Byte), NEW i \in Nat \ {0},
         Agrees(data, i, a \o b), NEW l, l = Len(a)
  PROVE  Agrees(data, i, a) /\ Agrees(data, i + l, b)
<1>1. PICK c, n, p : c = a \o b /\ n = Len(b) /\ p = Len(data)
  OBVIOUS
<1>2. /\ Len(c) = l + n /\ l \in Nat /\ n \in Nat /\ p \in Nat
      /\ \A k \in 1..l : c[k] = a[k]
      /\ \A k \in 1..n : c[l + k] = b[k]
  BY <1>1, ConcatFacts
<1>3. \A k \in 1..(l + n) : i + k - 1 <= p => data[i + k - 1] = c[k]
  BY <1>1, <1>2 DEF Agrees
<1>4. ASSUME NEW k \in 1..l, i + k - 1 <= p PROVE data[i + k - 1] = a[k]
  <2>1. k \in 1..(l + n)
    BY <1>2
  <2> QED BY <1>2, <1>3, <1>4, <2>1
<1>5. ASSUME NEW k \in 1..n, (i + l) + k - 1 <= p PROVE data[(i + l) + k - 1] = b[k]
  <2>1. l + k \in 1..(l + n) /\ i + (l + k) - 1 = (i + l) + k - 1
    BY <1>2
  <2> QED BY <1>2, <1>3, <1>5, <2>1
<1> QED BY <1>1, <1>4, <1>5 DEF Agrees

(* The parts of a message.                                                 *)
IsParts(parts, N) ==
  N \in Nat /\ Len(parts) = N /\ \A n \in 1..N : parts[n] \in Seq(Byte)

(* A prefix is a byte string.                                              *)
LEMMA PrefixBytes ==
  ASSUME NEW parts, NEW N, IsParts(parts, N), NEW n \in 0..N
  PROVE  Prefixes(parts)[n] \in Seq(Byte)
<1> DEFINE S == {k \in Nat : k <= N => Prefixes(parts)[k] \in Seq(Byte)}
<1>1. 0 \in S
  BY PrefixesRec, EmptySeq
<1>2. ASSUME NEW k \in Nat, k \in S PROVE k + 1 \in S
  <2>1. ASSUME k + 1 <= N PROVE Prefixes(parts)[k + 1] \in Seq(Byte)
    <3>1. N \in Nat /\ k + 1 \in 1..N /\ k + 1 \in Nat \ {0} /\ (k + 1) - 1 = k /\ k <= N
      BY <2>1 DEF IsParts
    <3>2. Prefixes(parts)[k + 1] = Prefixes(parts)[k] \o parts[k + 1]
      BY <3>1, PrefixesRec
    <3>3. Prefixes(parts)[k] \in Seq(Byte) /\ parts[k + 1] \in Seq(Byte)
      BY <1>2, <3>1 DEF IsParts
    <3> QED BY <3>2, <3>3, ConcatFacts
  <2> QED BY <2>1
<1> HIDE DEF S
<1>3. \A k \in Nat : k \in S
  BY <1>1, <1>2, Induction
<1>4. n \in Nat /\ n <= N
  BY DEF IsParts
<1> QED BY <1>3, <1>4 DEF S

(* Part n follows the first n - 1.                                         *)
LEMMA PartFollows ==
  ASSUME NEW parts, NEW N, IsParts(parts, N), NEW n \in 1..N
  PROVE  /\ Prefixes(parts)[n] = Prefixes(parts)[n - 1] \o parts[n]
         /\ Prefixes(parts)[n] \in Seq(Byte) /\ Prefixes(parts)[n - 1] \in Seq(Byte)
         /\ parts[n] \in Seq(Byte)
         /\ Len(Prefixes(parts)[n]) = Len(Prefixes(parts)[n - 1]) + Len(parts[n])
<1>1. N \in Nat /\ n \in Nat \ {0} /\ n \in 0..N /\ n - 1 \in 0..N
  BY DEF IsParts
<1>2. Prefixes(parts)[n] = Prefixes(parts)[n - 1] \o parts[n]
  BY <1>1, PrefixesRec
<1>3. Prefixes(parts)[n] \in Seq(Byte) /\ Prefixes(parts)[n - 1] \in Seq(Byte)
  BY <1>1, PrefixBytes
<1>4. parts[n] \in Seq(Byte)
  BY DEF IsParts
<1> QED BY <1>2, <1>3, <1>4, ConcatFacts

(* The first parts are the beginning of them all.                          *)
LEMMA AgreesPrefix ==
  ASSUME NEW data \in Seq(Byte), NEW i \in Nat \ {0}, NEW parts, NEW N, IsParts(parts, N),
         Agrees(data, i, Joined(parts)), NEW n \in 0..N
  PROVE  Agrees(data, i, Prefixes(parts)[n])
<1> DEFINE S == {d \in Nat : d <= N => Agrees(data, i, Prefixes(parts)[N - d])}
<1>1. N \in Nat
  BY DEF IsParts
<1>2. 0 \in S
  <2>1. Joined(parts) = Prefixes(parts)[N]
    BY DEF Joined, IsParts
  <2>2. N - 0 = N
    BY <1>1
  <2> QED BY <2>1, <2>2
<1>3. ASSUME NEW d \in Nat, d \in S PROVE d + 1 \in S
  <2>1. ASSUME d + 1 <= N PROVE Agrees(data, i, Prefixes(parts)[N - (d + 1)])
    <3>1. PICK k : k = N - d
      OBVIOUS
    <3>2. k \in 1..N /\ N - (d + 1) = k - 1 /\ d <= N
      BY <1>1, <2>1, <3>1
    <3>3. Agrees(data, i, Prefixes(parts)[k])
      BY <1>3, <3>1, <3>2
    <3>4. PICK a, b : a = Prefixes(parts)[k - 1] /\ b = parts[k]
      OBVIOUS
    <3>5. Prefixes(parts)[k] = a \o b /\ a \in Seq(Byte) /\ b \in Seq(Byte)
      BY <3>2, <3>4, PartFollows
    <3>6. Agrees(data, i, a)
      BY <3>3, <3>5, AgreesConcat, SMTT(30)
    <3> QED BY <3>2, <3>4, <3>6
  <2> QED BY <2>1
<1> HIDE DEF S
<1>4. \A d \in Nat : d \in S
  BY <1>2, <1>3, Induction
<1>5. N - n \in Nat /\ N - n <= N /\ N - (N - n) = n
  BY <1>1
<1> QED BY <1>4, <1>5 DEF S

(* Data that agree with all parts agree with each.                         *)
LEMMA AgreesPart ==
  ASSUME NEW data \in Seq(Byte), NEW i \in Nat \ {0}, NEW parts, NEW N, IsParts(parts, N),
         Agrees(data, i, Joined(parts)), NEW n \in 1..N,
         NEW l, l = Len(Prefixes(parts)[n - 1])
  PROVE  Agrees(data, i + l, parts[n])
<1>1. n \in 0..N
  BY DEF IsParts
<1>2. Agrees(data, i, Prefixes(parts)[n])
  BY <1>1, AgreesPrefix
<1>3. PICK a, b : a = Prefixes(parts)[n - 1] /\ b = parts[n]
  OBVIOUS
<1>4. Prefixes(parts)[n] = a \o b /\ a \in Seq(Byte) /\ b \in Seq(Byte)
  BY <1>3, PartFollows
<1>5. Agrees(data, i, a \o b) /\ l = Len(a)
  BY <1>2, <1>3, <1>4
<1>6. Agrees(data, i + l, b)
  BY <1>4, <1>5, AgreesConcat
<1> QED BY <1>3, <1>6

(* The parts are as long as their lengths together.                        *)
LEMMA LengthsAdd ==
  ASSUME NEW parts, NEW N, IsParts(parts, N), NEW sizes,
         \A n \in 1..N : sizes[n] = Len(parts[n]), NEW n \in 0..N
  PROVE  Len(Prefixes(parts)[n]) = Sums(sizes)[n]
<1> DEFINE S == {k \in Nat : k <= N => Len(Prefixes(parts)[k]) = Sums(sizes)[k]}
<1>1. N \in Nat
  BY DEF IsParts
<1>2. 0 \in S
  BY PrefixesRec, SumsRec, EmptySeq
<1>3. ASSUME NEW k \in Nat, k \in S PROVE k + 1 \in S
  <2>1. ASSUME k + 1 <= N PROVE Len(Prefixes(parts)[k + 1]) = Sums(sizes)[k + 1]
    <3>1. k + 1 \in 1..N /\ k + 1 \in Nat \ {0} /\ (k + 1) - 1 = k /\ k <= N
      BY <1>1, <2>1
    <3>2. Len(Prefixes(parts)[k + 1]) = Len(Prefixes(parts)[k]) + Len(parts[k + 1])
      BY <3>1, PartFollows
    <3>3. Sums(sizes)[k + 1] = Sums(sizes)[k] + sizes[k + 1]
      BY <3>1, SumsRec
    <3>4. sizes[k + 1] = Len(parts[k + 1]) /\ Len(Prefixes(parts)[k]) = Sums(sizes)[k]
      BY <1>3, <3>1
    <3> QED BY <3>2, <3>3, <3>4
  <2> QED BY <2>1
<1> HIDE DEF S
<1>4. \A k \in Nat : k \in S
  BY <1>2, <1>3, Induction
<1>5. n \in Nat /\ n <= N
  BY <1>1
<1> QED BY <1>4, <1>5 DEF S

(* Where the parts start is in order.                                      *)
LEMMA PrefixGrows ==
  ASSUME NEW parts, NEW N, IsParts(parts, N), NEW n \in 0..N
  PROVE  /\ Len(Prefixes(parts)[n]) \in Nat /\ Len(Joined(parts)) \in Nat
         /\ Len(Prefixes(parts)[n]) <= Len(Joined(parts))
         /\ Joined(parts) \in Seq(Byte) /\ Joined(parts) = Prefixes(parts)[N]
<1> DEFINE S == {d \in Nat : d <= N => Len(Prefixes(parts)[N - d]) <= Len(Prefixes(parts)[N])}
<1>1. N \in Nat /\ N \in 0..N
  BY DEF IsParts
<1>2. \A k \in 0..N : Prefixes(parts)[k] \in Seq(Byte) /\ Len(Prefixes(parts)[k]) \in Nat
  BY PrefixBytes, Elem
<1>3. 0 \in S
  <2>1. N - 0 = N
    BY <1>1
  <2> QED BY <1>1, <1>2, <2>1
<1>4. ASSUME NEW d \in Nat, d \in S PROVE d + 1 \in S
  <2>1. ASSUME d + 1 <= N PROVE Len(Prefixes(parts)[N - (d + 1)]) <= Len(Prefixes(parts)[N])
    <3>1. PICK k : k = N - d
      OBVIOUS
    <3>2. k \in 1..N /\ N - (d + 1) = k - 1 /\ d <= N /\ k \in 0..N /\ k - 1 \in 0..N
      BY <1>1, <2>1, <3>1
    <3>3. PICK a, b, c, l : /\ a = Len(Prefixes(parts)[k - 1]) /\ b = Len(Prefixes(parts)[k])
                            /\ c = Len(parts[k]) /\ l = Len(Prefixes(parts)[N])
      OBVIOUS
    <3>4. b = a + c
      BY <3>2, <3>3, PartFollows
    <3>5. parts[k] \in Seq(Byte)
      BY <3>2, PartFollows
    <3>6. a \in Nat /\ b \in Nat /\ c \in Nat /\ l \in Nat
      BY <1>1, <1>2, <3>2, <3>3, <3>5, Elem
    <3>7. b <= l
      BY <1>4, <3>1, <3>2, <3>3
    <3>8. a <= l
      BY <3>4, <3>6, <3>7
    <3> QED BY <3>2, <3>3, <3>8
  <2> QED BY <2>1
<1> HIDE DEF S
<1>5. \A d \in Nat : d \in S
  BY <1>3, <1>4, Induction
<1>6. N - n \in Nat /\ N - n <= N /\ N - (N - n) = n
  BY <1>1
<1>7. Len(Prefixes(parts)[n]) <= Len(Prefixes(parts)[N])
  BY <1>5, <1>6 DEF S
<1>8. Joined(parts) = Prefixes(parts)[N]
  BY DEF Joined, IsParts
<1> QED BY <1>1, <1>2, <1>7, <1>8

-----------------------------------------------------------------------------
(* What is asked of the messages that are embedded.                        *)

InnerDefaultLaw(T) ==
  /\ InnerIs(T, InnerDefault(T)) /\ InnerSize(T, InnerDefault(T)) <= 100
  /\ \A m : InnerIs(T, m) => InnerMerge(T, InnerDefault(T), m) = m

InnerSizeLaw(T) ==
  \A m : InnerIs(T, m) =>
    InnerEncoded(T, m) \in Seq(Byte) /\ InnerSize(T, m) = Len(InnerEncoded(T, m))

InnerMergeLaw(T) ==
  \A o, m : InnerIs(T, o) /\ InnerIs(T, m) => InnerIs(T, InnerMerge(T, o, m))

InnerReadLaw(T) ==
  \A o, m : InnerIs(T, o) /\ InnerIs(T, m) /\ Len(InnerEncoded(T, m)) < MaxLength =>
    InnerUnmarshal(T, InnerEncoded(T, m), o) = [ok |-> TRUE, msg |-> InnerMerge(T, o, m)]

InnerTypeLaw(T) ==
  \A o, data : InnerIs(T, o) /\ data \in Seq(Byte) =>
    \/ InnerUnmarshal(T, data, o) = [ok |-> FALSE]
    \/ \E m : /\ InnerUnmarshal(T, data, o) = [ok |-> TRUE, msg |-> m] /\ InnerIs(T, m)
              /\ InnerSize(T, m) <= InnerSize(T, o) + 64 * Len(data)

InnerLaws(K) ==
  \A T \in K : /\ InnerDefaultLaw(T) /\ InnerSizeLaw(T) /\ InnerMergeLaw(T)
               /\ InnerReadLaw(T) /\ InnerTypeLaw(T)

-----------------------------------------------------------------------------
(* The occurrences of a field.                                             *)

Kinds == {"bytes", "strings", "uint", "enum", "bool", "packed", "ptr", "val", "many"}

IsNumbers(v) == v \in Seq(Seq(Septet)) /\ \A i \in 1..Len(v) : IsUint64(v[i])

IsElement(kind, e) ==
  /\ kind[1] \in {"bytes", "strings"} => e \in Seq(Byte)
  /\ kind[1] \in {"bytes", "packed"} => e # <<>>
  /\ kind[1] = "uint" => IsUint64(e) /\ e # <<>>
  /\ kind[1] = "enum" => IsInt32(e) /\ e # <<>>
  /\ kind[1] = "bool" => e = TRUE
  /\ kind[1] = "packed" => IsNumbers(e)
  /\ kind[1] \in Embedding => InnerIs(kind[2], e)

(* The kinds that a table may have.                                        *)
LEMMA KindFacts ==
  ASSUME NEW kind, NEW K, IsKind(kind, K)
  PROVE  kind[1] \in Kinds /\ (kind[1] \in Embedding => kind[2] \in K)
BY DEF IsKind, Kinds, Numbers, Embedding

(* A list, of anything.                                                    *)
LEMMA ListFacts ==
  ASSUME NEW v, IsList(v), NEW l, l = Len(v)
  PROVE  l \in Nat /\ DOMAIN v = 1..l /\ v = [i \in 1..l |-> v[i]]
<1>1. v \in Seq({v[i] : i \in DOMAIN v})
  BY DEF IsList
<1>2. PICK S : S = {v[i] : i \in DOMAIN v}
  OBVIOUS
<1>3. v \in Seq(S)
  BY <1>1, <1>2
<1> QED BY <1>3

(* A function on 1..l is a list.                                           *)
LEMMA MakeList ==
  ASSUME NEW l \in Nat, NEW v, v = [i \in 1..l |-> v[i]]
  PROVE  IsList(v) /\ Len(v) = l
<1>1. PICK S : S = {v[i] : i \in DOMAIN v}
  OBVIOUS
<1>2. \A i \in 1..l : v[i] \in S
  BY <1>1
<1>3. v \in Seq(S) /\ Len(v) = l
  BY <1>2, MakeSeq
<1> QED BY <1>1, <1>3 DEF IsList

(* A sequence is a list.                                                   *)
LEMMA SeqIsList ==
  ASSUME NEW S, NEW v \in Seq(S)
  PROVE  IsList(v)
<1>1. PICK l : l = Len(v)
  OBVIOUS
<1>2. l \in Nat /\ v = [i \in 1..l |-> v[i]]
  BY <1>1
<1> QED BY <1>2, MakeList

(* Values, kind by kind.                                                   *)
LEMMA ValueFacts ==
  ASSUME NEW kind, kind[1] \in Kinds, NEW v
  PROVE  IsValue(kind, v) <=>
           /\ kind[1] = "bytes"   => v \in Seq(Byte)
           /\ kind[1] = "strings" => v \in Seq(Seq(Byte))
           /\ kind[1] = "uint"    => IsUint64(v)
           /\ kind[1] = "enum"    => IsInt32(v)
           /\ kind[1] = "bool"    => v \in BOOLEAN
           /\ kind[1] = "packed"  => IsNumbers(v)
           /\ kind[1] = "val"     => InnerIs(kind[2], v)
           /\ kind[1] = "ptr"     => v = <<>> \/ (v = <<v[1]>> /\ InnerIs(kind[2], v[1]))
           /\ kind[1] = "many"    => IsList(v) /\ \A i \in DOMAIN v : InnerIs(kind[2], v[i])
BY DEF IsValue, IsNumbers, Kinds

(* The occurrences of a field are a list; only slices have several.        *)
LEMMA ElementsFacts ==
  ASSUME NEW kind, kind[1] \in Kinds, NEW v, IsValue(kind, v),
         NEW es, es = Elements(kind, v), NEW l, l = Len(es)
  PROVE  /\ l \in Nat /\ es = [j \in 1..l |-> es[j]]
         /\ \A j \in 1..l : IsElement(kind, es[j])
         /\ kind[1] \in Repeated => es = v
         /\ kind[1] \notin Repeated => l <= 1
<1> USE DEF Repeated, Embedding
<1>1. CASE kind[1] = "bytes"
  <2>1. v \in Seq(Byte) /\ es = IF v = <<>> THEN <<>> ELSE <<v>>
    BY <1>1, ValueFacts DEF Elements
  <2> QED BY <1>1, <2>1 DEF IsElement
<1>2. CASE kind[1] = "strings"
  <2>1. v \in Seq(Seq(Byte)) /\ es = v
    BY <1>2, ValueFacts DEF Elements
  <2>2. l \in Nat /\ es = [j \in 1..l |-> es[j]]
    BY <2>1
  <2>3. \A j \in 1..l : es[j] \in Seq(Byte)
    BY <2>1, Elem
  <2> QED BY <1>2, <2>1, <2>2, <2>3 DEF IsElement
<1>3. CASE kind[1] = "uint"
  <2>1. IsUint64(v) /\ es = IF v = <<>> THEN <<>> ELSE <<v>>
    BY <1>3, ValueFacts DEF Elements
  <2> QED BY <1>3, <2>1 DEF IsElement
<1>4. CASE kind[1] = "enum"
  <2>1. IsInt32(v) /\ es = IF v = <<>> THEN <<>> ELSE <<v>>
    BY <1>4, ValueFacts DEF Elements
  <2> QED BY <1>4, <2>1 DEF IsElement
<1>5. CASE kind[1] = "bool"
  <2>1. v \in BOOLEAN /\ es = IF v THEN <<v>> ELSE <<>>
    BY <1>5, ValueFacts DEF Elements
  <2> QED BY <1>5, <2>1 DEF IsElement
<1>6. CASE kind[1] = "packed"
  <2>1. IsNumbers(v) /\ es = IF v = <<>> THEN <<>> ELSE <<v>>
    BY <1>6, ValueFacts DEF Elements
  <2> QED BY <1>6, <2>1 DEF IsElement
<1>7. CASE kind[1] = "val"
  <2>1. InnerIs(kind[2], v) /\ es = <<v>>
    BY <1>7, ValueFacts DEF Elements
  <2> QED BY <1>7, <2>1 DEF IsElement
<1>8. CASE kind[1] = "ptr"
  <2>1. es = v /\ (v = <<>> \/ (v = <<v[1]>> /\ InnerIs(kind[2], v[1])))
    BY <1>8, ValueFacts DEF Elements
  <2>2. CASE v = <<>>
    <3>1. l = 0 /\ es = [j \in 1..l |-> es[j]]
      BY <2>1, <2>2
    <3> QED BY <1>8, <3>1
  <2>3. CASE v = <<v[1]>> /\ InnerIs(kind[2], v[1])
    <3>1. PICK x : x = v[1]
      OBVIOUS
    <3>2. es = <<x>> /\ InnerIs(kind[2], x)
      BY <2>1, <2>3, <3>1
    <3> QED BY <1>8, <3>2 DEF IsElement
  <2> QED BY <2>1, <2>2, <2>3
<1>9. CASE kind[1] = "many"
  <2>1. es = v /\ IsList(v) /\ \A i \in DOMAIN v : InnerIs(kind[2], v[i])
    BY <1>9, ValueFacts DEF Elements
  <2>2. l \in Nat /\ DOMAIN v = 1..l /\ v = [i \in 1..l |-> v[i]]
    BY <2>1, ListFacts
  <2> QED BY <1>9, <2>1, <2>2 DEF IsElement
<1> QED BY <1>1, <1>2, <1>3, <1>4, <1>5, <1>6, <1>7, <1>8, <1>9 DEF Kinds

-----------------------------------------------------------------------------
(* The bytes of one occurrence of a field.                                 *)

(* The numbers of a packed field, one after the other.                     *)
LEMMA PackedFacts ==
  ASSUME NEW e, IsNumbers(e), NEW parts, parts = PackedParts(e)
  PROVE  /\ Len(e) \in Nat /\ IsParts(parts, Len(e))
         /\ Joined(parts) \in Seq(Byte)
         /\ Total(PackedSizes(e)) = Len(Joined(parts))
<1>1. PICK l : l = Len(e)
  OBVIOUS
<1>2. l \in Nat /\ \A i \in 1..l : IsUint64(e[i])
  BY <1>1 DEF IsNumbers
<1>3. \A i \in 1..l : parts[i] \in Seq(Byte) /\ Len(parts[i]) = sov(e[i])
  BY <1>1, <1>2, EncodeFacts DEF PackedParts
<1>4. parts = [i \in 1..l |-> parts[i]]
  BY <1>1 DEF PackedParts
<1>5. Len(parts) = l
  BY <1>2, <1>4, MakeList
<1>6. IsParts(parts, l)
  BY <1>2, <1>3, <1>5 DEF IsParts
<1>7. PICK sizes : sizes = PackedSizes(e)
  OBVIOUS
<1>8. Len(sizes) = l
  <2>1. sizes = [i \in 1..l |-> sizes[i]]
    BY <1>1, <1>7 DEF PackedSizes
  <2> QED BY <1>2, <2>1, MakeList
<1>9. l \in 0..l /\ \A n \in 1..l : sizes[n] = Len(parts[n])
  <2>1. ASSUME NEW n \in 1..l PROVE sizes[n] = Len(parts[n])
    <3>1. sizes[n] = sov(e[n])
      BY <1>1, <1>7 DEF PackedSizes
    <3> QED BY <1>3, <3>1
  <2> QED BY <1>2, <2>1
<1>10. Len(Prefixes(parts)[l]) = Sums(sizes)[l]
  <2>1. \A n \in 0..l : Len(Prefixes(parts)[n]) = Sums(sizes)[n]
    BY <1>6, <1>9, LengthsAdd
  <2> QED BY <1>9, <2>1
<1>11. Joined(parts) = Prefixes(parts)[l] /\ Joined(parts) \in Seq(Byte)
  BY <1>6, <1>9, PrefixGrows
<1> QED BY <1>1, <1>2, <1>6, <1>7, <1>8, <1>10, <1>11 DEF Total

(* A value of a length-delimited field, and its size.                      *)
LEMMA ContentFacts ==
  ASSUME NEW K, InnerLaws(K), NEW kind, IsKind(kind, K), kind[1] \notin Numbers,
         NEW e, IsElement(kind, e)
  PROVE  /\ Content(kind, e) \in Seq(Byte)
         /\ ContentSize(kind, e) = Len(Content(kind, e)) /\ Len(Content(kind, e)) \in Nat
<1>1. CASE kind[1] \in {"bytes", "strings"}
  <2>1. e \in Seq(Byte) /\ Content(kind, e) = e /\ ContentSize(kind, e) = Len(e)
    BY <1>1 DEF IsElement, Content, ContentSize, Embedding
  <2> QED BY <2>1, Elem
<1>2. CASE kind[1] = "packed"
  <2>1. IsNumbers(e)
    BY <1>2 DEF IsElement
  <2>2. /\ Content(kind, e) = Joined(PackedParts(e))
        /\ ContentSize(kind, e) = Total(PackedSizes(e))
    <3>1. Content(kind, e) = Joined(PackedParts(e))
      BY <1>2 DEF Content, Embedding
    <3>2. ContentSize(kind, e) = Total(PackedSizes(e))
      BY <1>2 DEF ContentSize, Embedding
    <3> QED BY <3>1, <3>2
  <2>3. Content(kind, e) \in Seq(Byte) /\ ContentSize(kind, e) = Len(Content(kind, e))
    BY <2>1, <2>2, PackedFacts
  <2> QED BY <2>3, Elem
<1>3. CASE kind[1] \in Embedding
  <2>1. kind[2] \in K /\ InnerIs(kind[2], e)
    BY <1>3, KindFacts DEF IsElement
  <2>2. /\ InnerEncoded(kind[2], e) \in Seq(Byte)
        /\ InnerSize(kind[2], e) = Len(InnerEncoded(kind[2], e))
    BY <2>1 DEF InnerLaws, InnerSizeLaw
  <2>3. Content(kind, e) = InnerEncoded(kind[2], e) /\ ContentSize(kind, e) = InnerSize(kind[2], e)
    BY <1>3 DEF Content, ContentSize, Embedding
  <2> QED BY <2>2, <2>3, Elem
<1>4. kind[1] \in {"bytes", "strings", "packed"} \union Embedding
  BY KindFacts DEF Kinds, Embedding, Numbers
<1> QED BY <1>1, <1>2, <1>3, <1>4

(* A number as it is written.                                              *)
LEMMA NumberFacts ==
  ASSUME NEW kind, kind[1] \in Numbers, NEW e, IsElement(kind, e)
  PROVE  IsUint64(NumberOf(kind, e))
<1>1. CASE kind[1] = "uint"
  BY <1>1 DEF IsElement, NumberOf
<1>2. CASE kind[1] = "enum"
  BY <1>2, Int32Read DEF IsElement, NumberOf
<1>3. CASE kind[1] = "bool"
  <2>1. <<1>> \in Seq(Septet)
    <3>1. 1 \in Septet
      BY InSeptet
    <3> QED BY <3>1
  <2>2. NumberOf(kind, e) = <<1>>
    BY <1>3 DEF NumberOf
  <2> QED BY <2>1, <2>2 DEF IsUint64
<1> QED BY <1>1, <1>2, <1>3 DEF Numbers

(* A tag is a varint of one byte.                                          *)
LEMMA TagFacts ==
  ASSUME NEW tag \in Tags
  PROVE  /\ IsUint64(<<tag>>) /\ encodeVarint(<<tag>>) = <<tag>> /\ sov(<<tag>>) = 1
         /\ <<tag>> \in Seq(Byte) /\ Len(<<tag>>) = 1
         /\ FieldNum(<<tag>>) = tag \div 8 /\ WireType(<<tag>>) = tag % 8
         /\ tag \div 8 \in Nat /\ tag \div 8 > 0
<1>1. tag \in Septet /\ tag \in Byte /\ tag # 0
  BY InSeptet, InByte DEF Tags
<1>2. PICK g : g = <<tag>>
  OBVIOUS
<1>3. g \in Seq(Septet) /\ Len(g) = 1 /\ g[1] = tag /\ g # <<>> /\ g \in Seq(Byte)
  BY <1>1, <1>2
<1>4. IsUint64(g)
  BY <1>1, <1>3 DEF IsUint64
<1>5. encodeVarint(g) = [i \in 1..1 |-> tag]
  BY <1>3 DEF encodeVarint
<1>6. encodeVarint(g) = <<tag>>
  BY <1>5
<1>7. sov(g) = 1
  BY <1>3 DEF sov
<1>8. Group(g, 1) = tag /\ Group(g, 2) = 0 /\ Group(g, 3) = 0 /\ Group(g, 4) = 0 /\ Group(g, 5) = 0
  BY <1>3 DEF Group
<1>9. FieldNum(g) = tag \div 8 /\ WireType(g) = tag % 8
  BY <1>8 DEF FieldNum, WireType, Tags
<1>10. tag \div 8 \in Nat /\ tag \div 8 > 0
  BY DEF Tags
<1> QED BY <1>2, <1>3, <1>4, <1>6, <1>7, <1>9, <1>10

(* An occurrence of a field takes what Size announces, two bytes at least. *)
LEMMA PieceFacts ==
  ASSUME NEW K, InnerLaws(K), NEW kind, IsKind(kind, K), NEW tag \in Tags,
         NEW e, IsElement(kind, e)
  PROVE  /\ Piece(tag, kind, e) \in Seq(Byte)
         /\ PieceSize(kind, e) = Len(Piece(tag, kind, e)) /\ Len(Piece(tag, kind, e)) \in Nat
         /\ Len(Piece(tag, kind, e)) >= 2
<1>1. <<tag>> \in Seq(Byte) /\ Len(<<tag>>) = 1
  BY TagFacts
<1>2. CASE kind[1] \in Numbers
  <2>1. PICK g : g = NumberOf(kind, e)
    OBVIOUS
  <2>2. IsUint64(g)
    BY <1>2, <2>1, NumberFacts
  <2>3. encodeVarint(g) \in Seq(Byte) /\ Len(encodeVarint(g)) = sov(g) /\ sov(g) \in 1..10
    BY <2>2, EncodeFacts
  <2>4. Piece(tag, kind, e) = <<tag>> \o encodeVarint(g) /\ PieceSize(kind, e) = 1 + sov(g)
    BY <1>2, <2>1 DEF Piece, PieceSize
  <2>5. /\ <<tag>> \o encodeVarint(g) \in Seq(Byte)
        /\ Len(<<tag>> \o encodeVarint(g)) = Len(<<tag>>) + Len(encodeVarint(g))
    BY <1>1, <2>3, ConcatFacts
  <2> QED BY <1>1, <2>3, <2>4, <2>5
<1>3. CASE kind[1] \notin Numbers
  <2>1. PICK b, l : b = Content(kind, e) /\ l = Len(b)
    OBVIOUS
  <2>2. b \in Seq(Byte) /\ ContentSize(kind, e) = l /\ l \in Nat
    BY <1>3, <2>1, ContentFacts
  <2>3. PICK h, k : h = encodeVarint(Groups(l)) /\ k = sov(Groups(l))
    OBVIOUS
  <2>4. IsUint64(Groups(l))
    BY <2>2, GroupsFacts
  <2>5. h \in Seq(Byte) /\ Len(h) = k /\ k \in 1..10
    BY <2>3, <2>4, EncodeFacts
  <2>6. Piece(tag, kind, e) = <<tag>> \o (h \o b) /\ PieceSize(kind, e) = 1 + l + k
    BY <1>3, <2>1, <2>2, <2>3 DEF Piece, PieceSize
  <2>7. h \o b \in Seq(Byte) /\ Len(h \o b) = k + l
    BY <2>1, <2>2, <2>5, ConcatFacts
  <2>8. <<tag>> \o (h \o b) \in Seq(Byte) /\ Len(<<tag>> \o (h \o b)) = 1 + (k + l)
    BY <1>1, <2>7, ConcatFacts
  <2> QED BY <2>2, <2>5, <2>6, <2>8
<1> QED BY <1>2, <1>3

-----------------------------------------------------------------------------
(* The rows of a table, and the bytes of a message.                        *)

(* The row of a field in the three tables.                                 *)
LEMMA RowFacts ==
  ASSUME NEW T, NEW K, WellFormed(T, K), NEW l, l = Len(Encoder[T]), NEW n \in 1..l,
         NEW tag, tag = Encoder[T][n][1], NEW f, f = Encoder[T][n][2],
         NEW kind, kind = Encoder[T][n][3]
  PROVE  /\ f \in Fields(T) /\ KindOf(T, f) = kind
         /\ IsKind(kind, K) /\ tag \in Tags /\ tag % 8 = WireTypeOf(kind)
         /\ Sizer[T][n] = <<f, kind>> /\ Decoder[T][n] = <<tag \div 8, f, kind>>
         /\ {p \in DOMAIN Decoder[T] : Decoder[T][p][1] = tag \div 8} = {n}
<1>1. /\ l \in Nat /\ Encoder[T] = [p \in 1..l |-> Encoder[T][p]]
      /\ Sizer[T] = [p \in 1..l |-> <<Encoder[T][p][2], Encoder[T][p][3]>>]
      /\ Decoder[T] = [p \in 1..l |->
                         <<Encoder[T][p][1] \div 8, Encoder[T][p][2], Encoder[T][p][3]>>]
  BY DEF WellFormed
<1>2. /\ IsKind(kind, K) /\ tag \in Tags /\ tag % 8 = WireTypeOf(kind)
  BY DEF WellFormed
<1>3. \A p \in 1..l : n # p => Encoder[T][p][1] \div 8 # tag \div 8 /\ Encoder[T][p][2] # f
  BY DEF WellFormed
<1>4. DOMAIN Encoder[T] = 1..l /\ DOMAIN Decoder[T] = 1..l
  BY <1>1
<1>5. f \in Fields(T)
  BY <1>4 DEF Fields
<1>6. KindOf(T, f) = kind
  <2>1. PICK p : p = CHOOSE q \in DOMAIN Encoder[T] : Encoder[T][q][2] = f
    OBVIOUS
  <2>2. p \in 1..l /\ Encoder[T][p][2] = f
    BY <1>4, <2>1
  <2>3. p = n
    BY <1>3, <2>2
  <2> QED BY <2>1, <2>3 DEF KindOf
<1>7. Sizer[T][n] = <<f, kind>> /\ Decoder[T][n] = <<tag \div 8, f, kind>>
  BY <1>1
<1>8. \A p \in 1..l : Decoder[T][p][1] = Encoder[T][p][1] \div 8
  <2>1. SUFFICES ASSUME NEW p \in 1..l PROVE Decoder[T][p][1] = Encoder[T][p][1] \div 8
    OBVIOUS
  <2>2. Decoder[T][p] = <<Encoder[T][p][1] \div 8, Encoder[T][p][2], Encoder[T][p][3]>>
    BY <1>1
  <2> QED BY ONLY <2>2
<1>9. {p \in DOMAIN Decoder[T] : Decoder[T][p][1] = tag \div 8} = {n}
  BY <1>3, <1>4, <1>8
<1> QED BY <1>2, <1>5, <1>6, <1>7, <1>9

(* Every field has a row.                                                  *)
LEMMA FieldRow ==
  ASSUME NEW T, NEW K, WellFormed(T, K), NEW l, l = Len(Encoder[T]), NEW f \in Fields(T)
  PROVE  /\ l \in Nat /\ Len(Sizer[T]) = l
         /\ \E n \in 1..l : f = Encoder[T][n][2] /\ KindOf(T, f) = Encoder[T][n][3]
<1>1. /\ l \in Nat /\ Encoder[T] = [p \in 1..l |-> Encoder[T][p]]
      /\ Sizer[T] = [p \in 1..l |-> <<Encoder[T][p][2], Encoder[T][p][3]>>]
  BY DEF WellFormed
<1>2. DOMAIN Encoder[T] = 1..l
  BY <1>1
<1>3. PICK n \in 1..l : f = Encoder[T][n][2]
  BY <1>2 DEF Fields
<1>4. KindOf(T, f) = Encoder[T][n][3]
  BY <1>3, RowFacts
<1>5. Len(Sizer[T]) = l
  <2>1. Sizer[T] = [p \in 1..l |-> Sizer[T][p]]
    BY <1>1
  <2> QED BY <1>1, <2>1, MakeList
<1> QED BY <1>1, <1>3, <1>4, <1>5

(* The sizes of the tables.                                                *)
LEMMA TableFacts ==
  ASSUME NEW T, NEW K, WellFormed(T, K), NEW l, l = Len(Encoder[T])
  PROVE  l \in Nat /\ Len(Sizer[T]) = l
<1>1. /\ l \in Nat
      /\ Sizer[T] = [p \in 1..l |-> <<Encoder[T][p][2], Encoder[T][p][3]>>]
  BY DEF WellFormed
<1>2. Sizer[T] = [p \in 1..l |-> Sizer[T][p]]
  BY <1>1
<1> QED BY <1>1, <1>2, MakeList

(* A field of a message is a value of its kind.                            *)
LEMMA IsField ==
  ASSUME NEW T, NEW K, WellFormed(T, K), NEW m, Is(T, m), NEW n \in 1..Len(Encoder[T])
  PROVE  /\ IsValue(Encoder[T][n][3], m[Encoder[T][n][2]])
         /\ IsKind(Encoder[T][n][3], K) /\ Encoder[T][n][3][1] \in Kinds
<1>1. PICK f, kind : f = Encoder[T][n][2] /\ kind = Encoder[T][n][3]
  OBVIOUS
<1>2. f \in Fields(T) /\ KindOf(T, f) = kind /\ IsKind(kind, K)
  BY <1>1, RowFacts
<1>3. IsValue(kind, m[f])
  BY <1>2 DEF Is
<1> QED BY <1>1, <1>2, <1>3, KindFacts

(* The pieces of a field.                                                  *)
LEMMA PiecesFacts ==
  ASSUME NEW K, InnerLaws(K), NEW kind, IsKind(kind, K), NEW tag \in Tags,
         NEW v, IsValue(kind, v), NEW l, l = Len(Elements(kind, v))
  PROVE  /\ IsParts(Pieces(tag, kind, v), l)
         /\ Joined(Pieces(tag, kind, v)) \in Seq(Byte)
         /\ SizeOf(kind, v) = Len(Joined(Pieces(tag, kind, v)))
         /\ \A j \in 1..l : /\ Pieces(tag, kind, v)[j] = Piece(tag, kind, Elements(kind, v)[j])
                            /\ IsElement(kind, Elements(kind, v)[j])
<1>1. kind[1] \in Kinds
  BY KindFacts
<1>2. PICK es : es = Elements(kind, v)
  OBVIOUS
<1>3. l \in Nat /\ \A j \in 1..l : IsElement(kind, es[j])
  BY <1>1, <1>2, ElementsFacts
<1>4. PICK parts : parts = Pieces(tag, kind, v)
  OBVIOUS
<1>5. parts = [j \in 1..l |-> Piece(tag, kind, es[j])]
  BY <1>2, <1>4 DEF Pieces
<1>6. \A j \in 1..l : parts[j] = Piece(tag, kind, es[j])
  BY <1>5
<1>7. \A j \in 1..l : /\ Piece(tag, kind, es[j]) \in Seq(Byte)
                      /\ PieceSize(kind, es[j]) = Len(Piece(tag, kind, es[j]))
  BY <1>3, PieceFacts
<1>8. Len(parts) = l
  <2>1. parts = [j \in 1..l |-> parts[j]]
    BY <1>5
  <2> QED BY <1>3, <2>1, MakeList
<1>9. IsParts(parts, l)
  BY <1>3, <1>6, <1>7, <1>8 DEF IsParts
<1>10. PICK sizes : sizes = [j \in 1..l |-> PieceSize(kind, es[j])]
  OBVIOUS
<1>11. Len(sizes) = l
  <2>1. sizes = [j \in 1..l |-> sizes[j]]
    BY <1>10
  <2> QED BY <1>3, <2>1, MakeList
<1>12. \A n \in 1..l : sizes[n] = Len(parts[n])
  <2>1. ASSUME NEW n \in 1..l PROVE sizes[n] = Len(parts[n])
    <3>1. sizes[n] = PieceSize(kind, es[n])
      BY <1>10
    <3> QED BY <1>6, <1>7, <3>1
  <2> QED BY <2>1
<1>13. \A n \in 0..l : Len(Prefixes(parts)[n]) = Sums(sizes)[n]
  BY <1>9, <1>12, LengthsAdd
<1>14. l \in 0..l
  BY <1>3
<1>15. Joined(parts) = Prefixes(parts)[l] /\ Joined(parts) \in Seq(Byte)
  BY <1>9, <1>14, PrefixGrows
<1>16. SizeOf(kind, v) = Sums(sizes)[l]
  BY <1>2, <1>10, <1>11 DEF SizeOf, Total
<1> QED BY <1>2, <1>3, <1>4, <1>6, <1>9, <1>13, <1>14, <1>15, <1>16

(* The fields of a message, and the size that Size announces.              *)
LEMMA EncodedFacts ==
  ASSUME NEW K, InnerLaws(K), NEW T, WellFormed(T, K), NEW m, Is(T, m),
         NEW l, l = Len(Encoder[T])
  PROVE  /\ IsParts(EncodedFields(T, m), l)
         /\ Encoded(T, m) \in Seq(Byte) /\ Encoded(T, m) = Prefixes(EncodedFields(T, m))[l]
         /\ Size(T, m) = Len(Encoded(T, m))
         /\ \A n \in 1..l : EncodedFields(T, m)[n]
              = Joined(Pieces(Encoder[T][n][1], Encoder[T][n][3], m[Encoder[T][n][2]]))
<1>1. l \in Nat /\ Len(Sizer[T]) = l
  BY TableFacts
<1>2. PICK parts : parts = EncodedFields(T, m)
  OBVIOUS
<1>3. parts = [n \in 1..l |->
                Joined(Pieces(Encoder[T][n][1], Encoder[T][n][3], m[Encoder[T][n][2]]))]
  BY <1>2 DEF EncodedFields
<1>4. PICK sizes : sizes = [n \in 1..l |-> SizeOf(Sizer[T][n][2], m[Sizer[T][n][1]])]
  OBVIOUS
<1>5. ASSUME NEW n \in 1..l
      PROVE  /\ parts[n] = Joined(Pieces(Encoder[T][n][1], Encoder[T][n][3], m[Encoder[T][n][2]]))
             /\ parts[n] \in Seq(Byte) /\ sizes[n] = Len(parts[n])
  <2>1. PICK tag, f, kind :
          tag = Encoder[T][n][1] /\ f = Encoder[T][n][2] /\ kind = Encoder[T][n][3]
    OBVIOUS
  <2>2. tag \in Tags /\ IsKind(kind, K) /\ Sizer[T][n] = <<f, kind>>
    BY <2>1, RowFacts
  <2>3. IsValue(kind, m[f])
    BY <2>1, IsField
  <2>4. /\ Joined(Pieces(tag, kind, m[f])) \in Seq(Byte)
        /\ SizeOf(kind, m[f]) = Len(Joined(Pieces(tag, kind, m[f])))
    <3>1. PICK v, k : v = m[f] /\ k = Len(Elements(kind, v))
      OBVIOUS
    <3>2. /\ Joined(Pieces(tag, kind, v)) \in Seq(Byte)
          /\ SizeOf(kind, v) = Len(Joined(Pieces(tag, kind, v)))
      BY <2>2, <2>3, <3>1, PiecesFacts
    <3> QED BY <3>1, <3>2
  <2>5. parts[n] = Joined(Pieces(tag, kind, m[f]))
    BY <1>3, <2>1
  <2>6. sizes[n] = SizeOf(kind, m[f])
    BY <1>4, <2>2
  <2> QED BY <2>1, <2>4, <2>5, <2>6
<1>6. Len(parts) = l
  <2>1. parts = [n \in 1..l |-> parts[n]]
    BY <1>3
  <2> QED BY <1>1, <2>1, MakeList
<1>7. IsParts(parts, l)
  BY <1>1, <1>5, <1>6 DEF IsParts
<1>8. Len(sizes) = l
  <2>1. sizes = [n \in 1..l |-> sizes[n]]
    BY <1>4
  <2> QED BY <1>1, <2>1, MakeList
<1>9. \A n \in 1..l : sizes[n] = Len(parts[n])
  BY <1>5
<1>10. \A n \in 0..l : Len(Prefixes(parts)[n]) = Sums(sizes)[n]
  BY <1>7, <1>9, LengthsAdd
<1>11. l \in 0..l
  BY <1>1
<1>12. Joined(parts) = Prefixes(parts)[l] /\ Joined(parts) \in Seq(Byte)
  BY <1>7, <1>11, PrefixGrows
<1>13. Size(T, m) = Sums(sizes)[l]
  BY <1>1, <1>4, <1>8 DEF Size, Total
<1> QED BY <1>2, <1>5, <1>7, <1>10, <1>11, <1>12, <1>13 DEF Encoded

(* What Marshal returns is what MarshalToSizedBuffer writes: the buffer is *)
(* neither too small nor too large.                                        *)
LEMMA MarshalFacts ==
  ASSUME NEW K, InnerLaws(K), NEW T, WellFormed(T, K), NEW m, Is(T, m)
  PROVE  Marshal(T, m) = [ok |-> TRUE, bytes |-> Encoded(T, m)]
<1>1. PICK b, l : b = Encoded(T, m) /\ l = Len(b)
  OBVIOUS
<1>2. b \in Seq(Byte) /\ Size(T, m) = l
  BY <1>1, EncodedFacts
<1>3. l \in Nat
  BY <1>1, <1>2
<1>4. l - l = 0 /\ ~(0 < 0)
  BY <1>3
<1>5. PICK z : z = [i \in 1..0 |-> 0]
  OBVIOUS
<1>6. z = <<>> /\ z \o b = b
  BY <1>2, <1>5
<1>7. SubSeq(b, 1, l) = b
  BY <1>1, <1>2
<1>8. Marshal(T, m) = IF l - l < 0 THEN [ok |-> FALSE]
                      ELSE [ok |-> TRUE, bytes |-> SubSeq([i \in 1..(l - l) |-> 0] \o b, 1, l)]
  BY <1>1, <1>2 DEF Marshal
<1> QED BY <1>1, <1>4, <1>5, <1>6, <1>7, <1>8, ZenonT(60)

-----------------------------------------------------------------------------
(* Messages that are merged.                                               *)

(* An embedded message that is left out, or there.                         *)
LEMMA PtrFacts ==
  ASSUME NEW kind, kind[1] = "ptr", NEW v
  PROVE  IsValue(kind, v) <=> v = <<>> \/ \E x : v = <<x>> /\ InnerIs(kind[2], x)
<1>1. IsValue(kind, v) <=> v = <<>> \/ (v = <<v[1]>> /\ InnerIs(kind[2], v[1]))
  BY ValueFacts DEF Kinds
<1>2. ASSUME NEW x, v = <<x>> PROVE v[1] = x
  BY <1>2
<1> QED BY <1>1, <1>2

(* Two lists, one after the other.                                         *)
LEMMA ListConcat ==
  ASSUME NEW a, IsList(a), NEW b, IsList(b), NEW k, k = Len(a), NEW l, l = Len(b)
  PROVE  /\ IsList(a \o b) /\ Len(a \o b) = k + l /\ k \in Nat /\ l \in Nat
         /\ \A i \in 1..k : (a \o b)[i] = a[i]
         /\ \A i \in 1..l : (a \o b)[k + i] = b[i]
<1>1. k \in Nat /\ l \in Nat /\ a = [i \in 1..k |-> a[i]] /\ b = [i \in 1..l |-> b[i]]
  BY ListFacts
<1>2. PICK S : S = {a[i] : i \in 1..k} \union {b[i] : i \in 1..l}
  OBVIOUS
<1>3. (\A i \in 1..k : a[i] \in S) /\ (\A i \in 1..l : b[i] \in S)
  BY <1>2
<1>4. a \in Seq(S) /\ b \in Seq(S)
  BY <1>1, <1>3, MakeSeq
<1>5. a \o b \in Seq(S)
  BY <1>4, ConcatFacts
<1>6. IsList(a \o b)
  BY <1>5, SeqIsList
<1> QED BY <1>1, <1>4, <1>6, ConcatFacts

(* A list of embedded messages.                                            *)
LEMMA ManyFacts ==
  ASSUME NEW kind, kind[1] = "many", NEW v, NEW l, l = Len(v)
  PROVE  IsValue(kind, v) <=> IsList(v) /\ \A i \in 1..l : InnerIs(kind[2], v[i])
<1>1. IsValue(kind, v) <=> IsList(v) /\ \A i \in DOMAIN v : InnerIs(kind[2], v[i])
  BY ValueFacts DEF Kinds
<1>2. ASSUME IsList(v) PROVE DOMAIN v = 1..l
  BY <1>2, ListFacts
<1> QED BY <1>1, <1>2

(* A slice of messages can be continued by another.                        *)
LEMMA ManyConcat ==
  ASSUME NEW kind, kind[1] = "many", NEW a, IsValue(kind, a), NEW b, IsValue(kind, b)
  PROVE  IsValue(kind, a \o b)
<1>1. PICK k, l : k = Len(a) /\ l = Len(b)
  OBVIOUS
<1>2. /\ IsList(a) /\ \A i \in 1..k : InnerIs(kind[2], a[i])
      /\ IsList(b) /\ \A i \in 1..l : InnerIs(kind[2], b[i])
  BY <1>1, ManyFacts
<1>3. /\ IsList(a \o b) /\ Len(a \o b) = k + l /\ k \in Nat /\ l \in Nat
      /\ \A i \in 1..k : (a \o b)[i] = a[i]
      /\ \A i \in 1..l : (a \o b)[k + i] = b[i]
  BY <1>1, <1>2, ListConcat
<1>4. ASSUME NEW i \in 1..(k + l) PROVE InnerIs(kind[2], (a \o b)[i])
  <2>1. CASE i <= k
    <3>1. i \in 1..k
      BY <1>3, <2>1
    <3>2. (a \o b)[i] = a[i]
      BY <1>3, <3>1
    <3> QED BY <1>2, <3>1, <3>2
  <2>2. CASE i > k
    <3>1. PICK j : j = i - k
      OBVIOUS
    <3>2. j \in 1..l /\ i = k + j
      BY <1>3, <2>2, <3>1
    <3>3. (a \o b)[i] = b[j]
      BY <1>3, <3>2
    <3> QED BY <1>2, <3>2, <3>3
  <2> QED BY <1>3, <2>1, <2>2
<1>5. PICK n : n = Len(a \o b)
  OBVIOUS
<1>6. \A i \in 1..n : InnerIs(kind[2], (a \o b)[i])
  BY <1>3, <1>4, <1>5
<1> QED BY <1>3, <1>5, <1>6, ManyFacts

(* Two lists of numbers.                                                   *)
LEMMA NumbersConcat ==
  ASSUME NEW a, IsNumbers(a), NEW b, IsNumbers(b)
  PROVE  IsNumbers(a \o b)
<1>1. PICK S : S = Seq(Septet)
  OBVIOUS
<1>2. PICK k, l : k = Len(a) /\ l = Len(b)
  OBVIOUS
<1>3. /\ a \in Seq(S) /\ b \in Seq(S)
      /\ (\A i \in 1..k : IsUint64(a[i])) /\ (\A i \in 1..l : IsUint64(b[i]))
  BY <1>1, <1>2 DEF IsNumbers
<1>4. /\ a \o b \in Seq(S) /\ Len(a \o b) = k + l /\ k \in Nat /\ l \in Nat
      /\ \A i \in 1..k : (a \o b)[i] = a[i]
      /\ \A i \in 1..l : (a \o b)[k + i] = b[i]
  BY <1>2, <1>3, ConcatFacts
<1>5. ASSUME NEW i \in 1..(k + l) PROVE IsUint64((a \o b)[i])
  <2>1. CASE i <= k
    <3>1. i \in 1..k
      BY <1>4, <2>1
    <3> QED BY <1>3, <1>4, <3>1
  <2>2. CASE i > k
    <3>1. PICK j : j = i - k
      OBVIOUS
    <3>2. j \in 1..l /\ i = k + j
      BY <1>4, <2>2, <3>1
    <3> QED BY <1>3, <1>4, <3>2
  <2> QED BY <1>4, <2>1, <2>2
<1> QED BY <1>1, <1>4, <1>5 DEF IsNumbers

(* The merge of two values is a value.                                     *)
LEMMA MergedIsValue ==
  ASSUME NEW K, InnerLaws(K), NEW kind, IsKind(kind, K),
         NEW a, IsValue(kind, a), NEW b, IsValue(kind, b)
  PROVE  IsValue(kind, MergedField(kind, a, b))
<1>1. kind[1] \in Kinds
  BY KindFacts
<1>2. CASE kind[1] = "strings"
  <2>1. MergedField(kind, a, b) = a \o b
    BY <1>2 DEF MergedField, Repeated
  <2>2. PICK S : S = Seq(Byte)
    OBVIOUS
  <2>3. a \in Seq(S) /\ b \in Seq(S)
    BY <1>1, <1>2, <2>2, ValueFacts
  <2>4. a \o b \in Seq(S)
    BY <2>3, ConcatFacts
  <2> QED BY <1>1, <1>2, <2>1, <2>2, <2>4, ValueFacts
<1>3. CASE kind[1] = "many"
  <2>1. MergedField(kind, a, b) = a \o b
    BY <1>3 DEF MergedField, Repeated
  <2> QED BY <1>3, <2>1, ManyConcat
<1>4. CASE kind[1] = "packed"
  <2>1. MergedField(kind, a, b) = a \o b
    BY <1>4 DEF MergedField, Repeated
  <2>2. IsNumbers(a) /\ IsNumbers(b)
    BY <1>1, <1>4, ValueFacts
  <2>3. IsNumbers(a \o b)
    BY <2>2, NumbersConcat
  <2> QED BY <1>1, <1>4, <2>1, <2>3, ValueFacts
<1>5. CASE kind[1] = "val"
  <2>1. MergedField(kind, a, b) = InnerMerge(kind[2], a, b)
    BY <1>5 DEF MergedField, Repeated
  <2>2. kind[2] \in K /\ InnerIs(kind[2], a) /\ InnerIs(kind[2], b)
    BY <1>1, <1>5, ValueFacts, KindFacts DEF Embedding
  <2>3. InnerIs(kind[2], InnerMerge(kind[2], a, b))
    BY <2>2 DEF InnerLaws, InnerMergeLaw
  <2> QED BY <1>1, <1>5, <2>1, <2>3, ValueFacts
<1>6. CASE kind[1] = "ptr"
  <2>1. MergedField(kind, a, b) = IF a = <<>> THEN b ELSE IF b = <<>> THEN a
                                  ELSE <<InnerMerge(kind[2], a[1], b[1])>>
    BY <1>6 DEF MergedField, Repeated
  <2>2. CASE a = <<>> \/ b = <<>>
    BY <2>1, <2>2
  <2>3. CASE a # <<>> /\ b # <<>>
    <3>1. PICK x, y : a = <<x>> /\ b = <<y>> /\ InnerIs(kind[2], x) /\ InnerIs(kind[2], y)
      BY <1>6, <2>3, PtrFacts
    <3>2. kind[2] \in K
      BY <1>6, KindFacts DEF Embedding
    <3>3. InnerIs(kind[2], InnerMerge(kind[2], x, y))
      BY <3>1, <3>2 DEF InnerLaws, InnerMergeLaw
    <3>4. a[1] = x /\ b[1] = y
      BY <3>1
    <3>5. MergedField(kind, a, b) = <<InnerMerge(kind[2], x, y)>>
      BY <2>1, <2>3, <3>4
    <3> QED BY <1>6, <3>3, <3>5, PtrFacts
  <2> QED BY <2>2, <2>3
<1>7. CASE kind[1] = "bool"
  <2>1. MergedField(kind, a, b) = (a \/ b)
    BY <1>7 DEF MergedField, Repeated
  <2>2. (a \/ b) \in BOOLEAN
    OBVIOUS
  <2> QED BY <1>1, <1>7, <2>1, <2>2, ValueFacts
<1>8. CASE kind[1] \in {"bytes", "uint", "enum"}
  <2>1. MergedField(kind, a, b) = IF b = <<>> THEN a ELSE b
    BY <1>8 DEF MergedField, Repeated
  <2> QED BY <2>1
<1> QED BY <1>1, <1>2, <1>3, <1>4, <1>5, <1>6, <1>7, <1>8 DEF Kinds

(* The zero value of a field is one, and nothing of what is read into it   *)
(* is lost.                                                                *)
LEMMA ZeroIsValue ==
  ASSUME NEW K, InnerLaws(K), NEW kind, IsKind(kind, K)
  PROVE  IsValue(kind, Zero(kind))
<1>1. kind[1] \in Kinds
  BY KindFacts
<1>2. CASE kind[1] = "val"
  <2>1. Zero(kind) = InnerDefault(kind[2])
    BY <1>2 DEF Zero
  <2>2. kind[2] \in K
    BY <1>2, KindFacts DEF Embedding
  <2>3. InnerIs(kind[2], InnerDefault(kind[2]))
    BY <2>2 DEF InnerLaws, InnerDefaultLaw
  <2> QED BY <1>1, <1>2, <2>1, <2>3, ValueFacts
<1>3. CASE kind[1] = "bool"
  <2>1. Zero(kind) = FALSE
    BY <1>3 DEF Zero
  <2> QED BY <1>1, <1>3, <2>1, ValueFacts
<1>4. CASE kind[1] \notin {"val", "bool"}
  <2>1. Zero(kind) = <<>>
    BY <1>4 DEF Zero
  <2>2. <<>> \in Seq(Byte) /\ <<>> \in Seq(Seq(Byte)) /\ DOMAIN <<>> = {}
    OBVIOUS
  <2>3. IsUint64(<<>>) /\ IsInt32(<<>>) /\ IsNumbers(<<>>)
    BY DEF IsUint64, IsInt32, IsNumbers
  <2>4. IsList(<<>>)
    BY <2>2, SeqIsList
  <2> QED BY <1>1, <1>4, <2>1, <2>2, <2>3, <2>4, ValueFacts
<1> QED BY <1>2, <1>3, <1>4

(* What is read into a zero value is what was written.                     *)
LEMMA ZeroMerged ==
  ASSUME NEW K, InnerLaws(K), NEW kind, IsKind(kind, K), NEW b, IsValue(kind, b)
  PROVE  MergedField(kind, Zero(kind), b) = b
<1>1. kind[1] \in Kinds
  BY KindFacts
<1>2. CASE kind[1] \in {"strings", "packed", "many"}
  <2>1. Zero(kind) = <<>> /\ MergedField(kind, <<>>, b) = <<>> \o b
    BY <1>2 DEF Zero, MergedField, Repeated
  <2>2. IsList(b)
    <3>1. CASE kind[1] \in {"strings", "packed"}
      BY <1>1, <3>1, ValueFacts, SeqIsList DEF IsNumbers
    <3>2. CASE kind[1] = "many"
      BY <1>1, <3>2, ValueFacts
    <3> QED BY <1>2, <3>1, <3>2
  <2>3. <<>> \o b = b
    BY <2>2 DEF IsList
  <2> QED BY <2>1, <2>3
<1>3. CASE kind[1] = "val"
  <2>1. Zero(kind) = InnerDefault(kind[2])
    BY <1>3 DEF Zero
  <2>2. \A a : MergedField(kind, a, b) = InnerMerge(kind[2], a, b)
    BY <1>3 DEF MergedField, Repeated
  <2>3. kind[2] \in K /\ InnerIs(kind[2], b)
    BY <1>1, <1>3, ValueFacts, KindFacts DEF Embedding
  <2>4. InnerMerge(kind[2], InnerDefault(kind[2]), b) = b
    BY <2>3 DEF InnerLaws, InnerDefaultLaw
  <2> QED BY <2>1, <2>2, <2>4
<1>4. CASE kind[1] = "ptr"
  BY <1>4 DEF Zero, MergedField, Repeated
<1>5. CASE kind[1] = "bool"
  <2>1. Zero(kind) = FALSE /\ MergedField(kind, FALSE, b) = (FALSE \/ b) /\ b \in BOOLEAN
    BY <1>1, <1>5, ValueFacts DEF Zero, MergedField, Repeated
  <2> QED BY <2>1
<1>6. CASE kind[1] \in {"bytes", "uint", "enum"}
  BY <1>6 DEF Zero, MergedField, Repeated
<1> QED BY <1>1, <1>2, <1>3, <1>4, <1>5, <1>6 DEF Kinds

(* The laws of default and merge, for a message.                           *)
LEMMA FieldKind ==
  ASSUME NEW T, NEW K, WellFormed(T, K), NEW f \in Fields(T)
  PROVE  IsKind(KindOf(T, f), K)
<1>1. PICK n \in 1..Len(Encoder[T]) : f = Encoder[T][n][2] /\ KindOf(T, f) = Encoder[T][n][3]
  BY FieldRow
<1> QED BY <1>1, RowFacts

(* A merged message is a message; merging into the default is a copy.      *)
LEMMA MergeFacts ==
  ASSUME NEW K, InnerLaws(K), NEW T, WellFormed(T, K), NEW o, Is(T, o), NEW m, Is(T, m)
  PROVE  Is(T, Merge(T, o, m)) /\ Merge(T, Default(T), m) = m
<1>1. ASSUME NEW f \in Fields(T)
      PROVE  /\ IsValue(KindOf(T, f), MergedField(KindOf(T, f), o[f], m[f]))
             /\ MergedField(KindOf(T, f), Zero(KindOf(T, f)), m[f]) = m[f]
  <2>1. PICK kind, a, b : kind = KindOf(T, f) /\ a = o[f] /\ b = m[f]
    OBVIOUS
  <2>2. IsKind(kind, K) /\ IsValue(kind, a) /\ IsValue(kind, b)
    BY <2>1, FieldKind DEF Is
  <2>3. IsValue(kind, MergedField(kind, a, b)) /\ MergedField(kind, Zero(kind), b) = b
    BY <2>2, MergedIsValue, ZeroMerged
  <2> QED BY <2>1, <2>3
<1>2. Is(T, Merge(T, o, m))
  BY <1>1 DEF Is, Merge
<1>3. Merge(T, Default(T), m) = [f \in Fields(T) |-> m[f]]
  BY <1>1 DEF Merge, Default
<1>4. m = [f \in Fields(T) |-> m[f]]
  BY DEF Is
<1> QED BY <1>2, <1>3, <1>4

(* The default of a type is a message of it.                               *)
LEMMA DefaultFacts ==
  ASSUME NEW K, InnerLaws(K), NEW T, WellFormed(T, K)
  PROVE  Is(T, Default(T))
<1>1. ASSUME NEW f \in Fields(T) PROVE IsValue(KindOf(T, f), Zero(KindOf(T, f)))
  <2>1. PICK kind : kind = KindOf(T, f)
    OBVIOUS
  <2>2. IsKind(kind, K)
    BY <2>1, FieldKind
  <2>3. IsValue(kind, Zero(kind))
    BY <2>2, ZeroIsValue
  <2> QED BY <2>1, <2>3
<1> QED BY <1>1 DEF Is, Default

-----------------------------------------------------------------------------
(* A field after some of the occurrences of a value.                       *)

(* A field after one more occurrence.                                      *)
After(kind, old, e) ==
  CASE kind[1] \in Repeated -> Append(old, e)
    [] kind[1] = "packed"   -> old \o e
    [] kind[1] = "val"      -> InnerMerge(kind[2], old, e)
    [] kind[1] = "ptr"      -> <<IF old = <<>> THEN e ELSE InnerMerge(kind[2], old[1], e)>>
    [] OTHER                -> e

Continued(a, v, j) == IF j = 0 THEN a ELSE a \o SubSeq(v, 1, j)

Filled(kind, old, v, j) ==
  IF kind[1] \in Repeated THEN Continued(old, v, j)
  ELSE IF j = 0 THEN old ELSE MergedField(kind, old, v)

(* The first elements of a list, after another list.                       *)
LEMMA FirstElements ==
  ASSUME NEW S, NEW a \in Seq(S), NEW v \in Seq(S), NEW l, l = Len(v)
  PROVE  /\ \A j \in 1..l : /\ Continued(a, v, j) = Append(Continued(a, v, j - 1), v[j])
                            /\ Continued(a, v, j) \in Seq(S)
         /\ l \in Nat /\ Continued(a, v, l) = a \o v
<1>1. l \in Nat
  BY Elem
<1>2. ASSUME NEW j \in 1..l
      PROVE  /\ Continued(a, v, j) = Append(Continued(a, v, j - 1), v[j])
             /\ Continued(a, v, j) \in Seq(S)
  <2>1. j \in Nat /\ v[j] \in S
    BY <1>1, Elem
  <2>2. PICK b, x : b = SubSeq(v, 1, j - 1) /\ x = v[j]
    OBVIOUS
  <2>3. b \in Seq(S) /\ Len(b) = j - 1
    BY <1>1, <2>1, <2>2
  <2>4. SubSeq(v, 1, j) = Append(b, x)
    BY <1>1, <2>1, <2>2
  <2>5. a \o Append(b, x) = Append(a \o b, x) /\ Append(b, x) \in Seq(S)
    BY <2>1, <2>2, <2>3
  <2>6. Continued(a, v, j) = Append(a \o b, x)
    <3>1. j # 0
      BY <2>1
    <3>2. Continued(a, v, j) = a \o SubSeq(v, 1, j)
      BY <3>1 DEF Continued
    <3> QED BY <2>4, <2>5, <3>2
  <2>7. a \o Append(b, x) \in Seq(S)
    BY <2>5, ConcatFacts
  <2>8. CASE j = 1
    <3>1. b = <<>>
      BY <2>3, <2>8
    <3>2. a \o b = a
      BY <3>1
    <3>3. Continued(a, v, j - 1) = a
      BY <2>8 DEF Continued
    <3> QED BY <2>2, <2>5, <2>6, <2>7, <3>2, <3>3
  <2>9. CASE j # 1
    <3>1. Continued(a, v, j - 1) = a \o b
      BY <2>1, <2>2, <2>9 DEF Continued
    <3> QED BY <2>2, <2>5, <2>6, <2>7, <3>1
  <2> QED BY <2>8, <2>9
<1>3. Continued(a, v, l) = a \o v
  <2>1. CASE l = 0
    <3>1. v = <<>>
      <4>1. Len(v) = 0
        BY <2>1
      <4> QED BY <4>1
    <3>2. a \o v = a
      BY <3>1
    <3> QED BY <2>1, <3>2 DEF Continued
  <2>2. CASE l # 0
    <3>1. SubSeq(v, 1, l) = v
      BY <1>1
    <3> QED BY <2>2, <3>1 DEF Continued
  <2> QED BY <2>1, <2>2
<1> QED BY <1>1, <1>2, <1>3

(* The values of a repeated field are lists over the elements of both.     *)
LEMMA RepeatedLists ==
  ASSUME NEW kind, kind[1] \in Repeated, NEW a, IsValue(kind, a), NEW v, IsValue(kind, v)
  PROVE  \E S : /\ a \in Seq(S) /\ v \in Seq(S)
                /\ \A w \in Seq(S) : IsValue(kind, w)
<1>1. kind[1] \in Kinds
  BY DEF Repeated, Kinds
<1>2. CASE kind[1] = "strings"
  <2>1. PICK S : S = Seq(Byte)
    OBVIOUS
  <2>2. \A w : IsValue(kind, w) <=> w \in Seq(S)
    BY <1>1, <1>2, <2>1, ValueFacts
  <2> QED BY <2>2
<1>3. CASE kind[1] = "many"
  <2>1. PICK k, l : k = Len(a) /\ l = Len(v)
    OBVIOUS
  <2>2. /\ IsList(a) /\ \A i \in 1..k : InnerIs(kind[2], a[i])
        /\ IsList(v) /\ \A i \in 1..l : InnerIs(kind[2], v[i])
    BY <1>3, <2>1, ManyFacts
  <2>3. k \in Nat /\ l \in Nat /\ a = [i \in 1..k |-> a[i]] /\ v = [i \in 1..l |-> v[i]]
    BY <2>1, <2>2, ListFacts
  <2>4. PICK S : S = {a[i] : i \in 1..k} \union {v[i] : i \in 1..l}
    OBVIOUS
  <2>5. (\A i \in 1..k : a[i] \in S) /\ (\A i \in 1..l : v[i] \in S)
    BY <2>4
  <2>6. a \in Seq(S) /\ v \in Seq(S)
    BY <2>3, <2>5, MakeSeq
  <2>7. \A x \in S : InnerIs(kind[2], x)
    BY <2>2, <2>4
  <2>8. ASSUME NEW w \in Seq(S) PROVE IsValue(kind, w)
    <3>1. PICK n : n = Len(w)
      OBVIOUS
    <3>2. \A i \in 1..n : w[i] \in S
      BY <3>1, Elem
    <3>3. IsList(w) /\ \A i \in 1..n : InnerIs(kind[2], w[i])
      BY <2>7, <3>2, SeqIsList
    <3> QED BY <1>3, <3>1, <3>3, ManyFacts
  <2> QED BY <2>6, <2>8
<1> QED BY <1>2, <1>3 DEF Repeated

(* One more occurrence of a repeated field.                                *)
LEMMA FillRepeated ==
  ASSUME NEW kind, kind[1] \in Repeated, NEW old, IsValue(kind, old), NEW v, IsValue(kind, v),
         NEW l, l = Len(v)
  PROVE  /\ \A j \in 1..l : /\ IsValue(kind, Filled(kind, old, v, j))
                            /\ After(kind, Filled(kind, old, v, j - 1), v[j])
                                 = Filled(kind, old, v, j)
         /\ l \in Nat /\ Filled(kind, old, v, l) = MergedField(kind, old, v)
<1>1. PICK S : old \in Seq(S) /\ v \in Seq(S) /\ \A w \in Seq(S) : IsValue(kind, w)
  BY RepeatedLists
<1>2. /\ \A j \in 1..l : /\ Continued(old, v, j) = Append(Continued(old, v, j - 1), v[j])
                         /\ Continued(old, v, j) \in Seq(S)
      /\ l \in Nat /\ Continued(old, v, l) = old \o v
  BY <1>1, FirstElements
<1>3. \A j : Filled(kind, old, v, j) = Continued(old, v, j)
  BY DEF Filled
<1>4. \A a, x : After(kind, a, x) = Append(a, x)
  BY DEF After, Repeated
<1>5. MergedField(kind, old, v) = old \o v
  BY DEF MergedField, Repeated
<1>6. \A j \in 1..l : IsValue(kind, Filled(kind, old, v, j))
  BY <1>1, <1>2, <1>3
<1>7. \A j \in 1..l : After(kind, Filled(kind, old, v, j - 1), v[j]) = Filled(kind, old, v, j)
  BY <1>2, <1>3, <1>4
<1> QED BY <1>2, <1>3, <1>5, <1>6, <1>7

(* The only occurrence of any other field, and none.                       *)
LEMMA FillSingle ==
  ASSUME NEW K, InnerLaws(K), NEW kind, IsKind(kind, K), kind[1] \notin Repeated,
         NEW old, IsValue(kind, old), NEW v, IsValue(kind, v),
         NEW es, es = Elements(kind, v), NEW l, l = Len(es)
  PROVE  /\ l = 1 => After(kind, old, es[1]) = MergedField(kind, old, v)
         /\ l = 0 => old = MergedField(kind, old, v)
<1>1. kind[1] \in Kinds
  BY KindFacts
<1>2. CASE kind[1] = "packed"
  <2>1. MergedField(kind, old, v) = old \o v /\ \A e : After(kind, old, e) = old \o e
    BY <1>2 DEF MergedField, After, Repeated
  <2>2. es = IF v = <<>> THEN <<>> ELSE <<v>>
    BY <1>2 DEF Elements, Repeated
  <2>3. old \o <<>> = old
    BY <1>1, <1>2, ValueFacts DEF IsNumbers
  <2>4. CASE v = <<>>
    <3>1. l = 0
      BY <2>2, <2>4
    <3> QED BY <2>1, <2>3, <2>4, <3>1
  <2>5. CASE v # <<>>
    <3>1. l = 1 /\ es[1] = v
      BY <2>2, <2>5
    <3> QED BY <2>1, <3>1, SMTT(30)
  <2> QED BY <2>4, <2>5
<1>3. CASE kind[1] = "val"
  <2>1. MergedField(kind, old, v) = InnerMerge(kind[2], old, v)
    BY <1>3 DEF MergedField, Repeated
  <2>2. es = <<v>> /\ \A e : After(kind, old, e) = InnerMerge(kind[2], old, e)
    BY <1>3 DEF Elements, After, Repeated
  <2> QED BY <2>1, <2>2
<1>4. CASE kind[1] = "ptr"
  <2>1. MergedField(kind, old, v) = IF old = <<>> THEN v ELSE IF v = <<>> THEN old
                                    ELSE <<InnerMerge(kind[2], old[1], v[1])>>
    BY <1>4 DEF MergedField, Repeated
  <2>2. es = v
    BY <1>4 DEF Elements
  <2>3. \A e : After(kind, old, e) = <<IF old = <<>> THEN e ELSE InnerMerge(kind[2], old[1], e)>>
    BY <1>4 DEF After, Repeated
  <2>4. CASE v = <<>>
    BY <2>1, <2>2, <2>4
  <2>5. CASE v # <<>>
    <3>1. PICK x : v = <<x>>
      BY <1>4, <2>5, PtrFacts
    <3>2. l = 1 /\ es[1] = x /\ v[1] = x
      BY <2>2, <3>1
    <3> QED BY <2>1, <2>3, <2>5, <3>1, <3>2
  <2> QED BY <2>4, <2>5
<1>5. CASE kind[1] = "bool"
  <2>1. MergedField(kind, old, v) = (old \/ v) /\ \A e : After(kind, old, e) = e
    BY <1>5 DEF MergedField, After, Repeated
  <2>2. es = (IF v THEN <<v>> ELSE <<>>) /\ old \in BOOLEAN /\ v \in BOOLEAN
    BY <1>1, <1>5, ValueFacts DEF Elements, Repeated
  <2>3. CASE v = TRUE
    <3>1. es = <<TRUE>>
      BY <2>2, <2>3
    <3>2. l = 1 /\ es[1] = TRUE
      BY <3>1
    <3>3. (old \/ TRUE) = TRUE
      OBVIOUS
    <3>4. MergedField(kind, old, v) = TRUE
      BY <2>1, <2>3, <3>3
    <3>5. After(kind, old, es[1]) = es[1]
      BY <2>1
    <3>6. After(kind, old, es[1]) = MergedField(kind, old, v)
      BY <3>2, <3>4, <3>5, Zenon
    <3>7. l # 0
      BY <3>2
    <3> QED BY <3>6, <3>7
  <2>4. CASE v = FALSE
    <3>1. es = <<>>
      BY <2>2, <2>4
    <3>2. l = 0
      BY <3>1
    <3> QED BY <2>1, <2>2, <2>4, <3>2
  <2> QED BY <2>2, <2>3, <2>4
<1>6. CASE kind[1] \in {"bytes", "uint", "enum"}
  <2>1. MergedField(kind, old, v) = (IF v = <<>> THEN old ELSE v) /\ \A e : After(kind, old, e) = e
    BY <1>6 DEF MergedField, After, Repeated
  <2>2. es = IF v = <<>> THEN <<>> ELSE <<v>>
    BY <1>6 DEF Elements, Repeated
  <2> QED BY <2>1, <2>2
<1> QED BY <1>1, <1>2, <1>3, <1>4, <1>5, <1>6 DEF Kinds, Repeated

(* A field is filled occurrence by occurrence until it is merged.          *)
LEMMA FillFacts ==
  ASSUME NEW K, InnerLaws(K), NEW kind, IsKind(kind, K),
         NEW old, IsValue(kind, old), NEW v, IsValue(kind, v),
         NEW es, es = Elements(kind, v), NEW l, l = Len(es)
  PROVE  /\ l \in Nat
         /\ \A j \in 1..l : /\ IsValue(kind, Filled(kind, old, v, j))
                            /\ After(kind, Filled(kind, old, v, j - 1), es[j])
                                 = Filled(kind, old, v, j)
         /\ Filled(kind, old, v, 0) = old
         /\ Filled(kind, old, v, l) = MergedField(kind, old, v)
<1>1. kind[1] \in Kinds
  BY KindFacts
<1>2. l \in Nat /\ (kind[1] \in Repeated => es = v) /\ (kind[1] \notin Repeated => l <= 1)
  BY <1>1, ElementsFacts
<1>3. Filled(kind, old, v, 0) = old
  BY DEF Filled, Continued
<1>4. CASE kind[1] \in Repeated
  BY <1>2, <1>3, <1>4, FillRepeated
<1>5. CASE kind[1] \notin Repeated
  <2>1. /\ l = 1 => After(kind, old, es[1]) = MergedField(kind, old, v)
        /\ l = 0 => old = MergedField(kind, old, v)
    BY <1>5, FillSingle
  <2>2. IsValue(kind, MergedField(kind, old, v))
    BY MergedIsValue
  <2>3. Filled(kind, old, v, 1) = MergedField(kind, old, v)
    BY <1>5 DEF Filled
  <2>4. l = 0 \/ l = 1
    BY <1>2, <1>5
  <2>5. CASE l = 0
    BY <1>2, <1>3, <2>1, <2>5
  <2>6. CASE l = 1
    <3>1. \A j \in 1..l : j = 1 /\ j - 1 = 0
      BY <2>6
    <3> QED BY <1>2, <1>3, <2>1, <2>2, <2>3, <2>6, <3>1
  <2> QED BY <2>4, <2>5, <2>6
<1> QED BY <1>4, <1>5

-----------------------------------------------------------------------------
(* Loops that end.                                                         *)

(* A loop that has ended stays as it is.                                   *)
Stays(g, E, N) ==
  E \subseteq 0..N /\ \A k \in 1..N : k - 1 \in E => k \in E /\ g[k] = g[k - 1]

(* A loop that has ended stays as it is, so any two ends agree.            *)
LEMMA SameEnd ==
  ASSUME NEW N \in Nat, NEW g, NEW E, Stays(g, E, N), NEW a \in E, NEW b \in E
  PROVE  g[a] = g[b] /\ N \in E
<1>1. E \subseteq 0..N /\ \A k \in 1..N : k - 1 \in E => k \in E /\ g[k] = g[k - 1]
  BY DEF Stays
<1>2. ASSUME NEW c \in E PROVE N \in E /\ g[c] = g[N]
  <2> DEFINE S == {d \in Nat : c + d <= N => c + d \in E /\ g[c + d] = g[c]}
  <2>1. c \in 0..N /\ c + 0 = c
    BY <1>1
  <2>2. 0 \in S
    BY <2>1
  <2>3. ASSUME NEW d \in Nat, d \in S PROVE d + 1 \in S
    <3>1. ASSUME c + (d + 1) <= N PROVE c + (d + 1) \in E /\ g[c + (d + 1)] = g[c]
      <4>1. PICK k : k = c + (d + 1)
        OBVIOUS
      <4>2. k \in 1..N /\ k - 1 = c + d /\ c + d <= N
        BY <2>1, <3>1, <4>1
      <4>3. k - 1 \in E /\ g[k - 1] = g[c]
        BY <2>3, <4>2
      <4>4. k \in E /\ g[k] = g[k - 1]
        BY <1>1, <4>2, <4>3
      <4> QED BY <4>1, <4>3, <4>4
    <3> QED BY <3>1
  <2> HIDE DEF S
  <2>4. \A d \in Nat : d \in S
    BY <2>2, <2>3, Induction
  <2>5. N - c \in Nat /\ c + (N - c) = N
    BY <2>1
  <2>6. N - c \in S
    BY <2>4, <2>5
  <2> QED BY <2>5, <2>6 DEF S
<1> QED BY <1>2

(* The numbers of rounds that are tried.                                   *)
LEMMA RoundsFacts ==
  ASSUME NEW data, Len(data) \in Nat
  PROVE  /\ LastRound(data) = Len(data) + 1 /\ LastRound(data) \in Nat
         /\ Rounds(data) \subseteq 0..LastRound(data) /\ LastRound(data) \in Rounds(data)
<1>1. PICK n : n = LastRound(data)
  OBVIOUS
<1>2. n = Len(data) + 1 /\ n \in Nat
  BY <1>1 DEF LastRound
<1>3. Rounds(data) = {k \in {5, 15, 50} : k < n} \union {n}
  BY <1>1 DEF Rounds
<1>4. \A k \in Rounds(data) : k \in 0..n
  BY <1>2, <1>3
<1> QED BY <1>1, <1>2, <1>3, <1>4

(* The loop of a field that is packed, from any of its ends.               *)
LEMMA PackedEnd ==
  ASSUME NEW data, Len(data) \in Nat, NEW from, NEW to,
         NEW g, g = readingPacked(data, from, to), NEW a \in 0..LastRound(data), Ended(g[a], to)
  PROVE  readPacked(data, from, to) = g[a]
<1>1. PICK N : N = LastRound(data)
  OBVIOUS
<1>2. N \in Nat /\ Rounds(data) \subseteq 0..N /\ N \in Rounds(data)
  BY <1>1, RoundsFacts
<1>3. \A k \in 1..N : Ended(g[k - 1], to) => g[k] = g[k - 1]
  <2>1. LastRound(data) \in Nat
    BY <1>1, <1>2
  <2>2. Ends(g, to, LastRound(data))
    BY <2>1, ReadingPackedRec
  <2> QED BY <1>1, <2>2 DEF Ends
<1> DEFINE E == {k \in 0..N : Ended(g[k], to)}
<1>4. \A k \in 1..N : k - 1 \in E => k \in E /\ g[k] = g[k - 1]
  BY <1>2, <1>3
<1>5. a \in E
  BY <1>1
<1>6. Stays(g, E, N) /\ \A k \in E : k \in 0..N /\ Ended(g[k], to)
  BY <1>4 DEF Stays
<1>7. \A k \in Rounds(data) : Ended(g[k], to) => k \in E
  BY <1>2
<1> HIDE DEF E
<1>8. \A b \in E : g[a] = g[b] /\ N \in E
  BY <1>2, <1>5, <1>6, SameEnd
<1>9. PICK c : c = CHOOSE k \in Rounds(data) : Ended(g[k], to)
  OBVIOUS
<1>10. Ended(g[N], to)
  BY <1>5, <1>6, <1>8
<1>11. c \in Rounds(data) /\ Ended(g[c], to)
  BY <1>2, <1>9, <1>10
<1>12. g[a] = g[c]
  BY <1>7, <1>8, <1>11
<1> QED BY <1>9, <1>12 DEF readPacked, AtEnd

(* The loop of Unmarshal, from any of its ends.                            *)
LEMMA ReadingEnd ==
  ASSUME NEW T, NEW data, Len(data) \in Nat, NEW m,
         NEW g, g = reading(T, data, m), NEW a \in 0..LastRound(data), Ended(g[a], Len(data))
  PROVE  Unmarshal(T, data, m) = IF ~g[a].ok THEN Failed
                                 ELSE IF g[a].next = Len(data) + 1
                                 THEN [ok |-> TRUE, msg |-> g[a].msg] ELSE Failed
<1>1. PICK N, to : N = LastRound(data) /\ to = Len(data)
  OBVIOUS
<1>2. N \in Nat /\ Rounds(data) \subseteq 0..N /\ N \in Rounds(data)
  BY <1>1, RoundsFacts
<1>3. \A k \in 1..N : Ended(g[k - 1], to) => g[k] = g[k - 1]
  <2>1. LastRound(data) \in Nat
    BY <1>1, <1>2
  <2>2. Ends(g, to, LastRound(data))
    BY <1>1, <2>1, ReadingRec
  <2> QED BY <1>1, <2>2 DEF Ends
<1> DEFINE E == {k \in 0..N : Ended(g[k], to)}
<1>4. \A k \in 1..N : k - 1 \in E => k \in E /\ g[k] = g[k - 1]
  BY <1>2, <1>3
<1>5. a \in E
  BY <1>1
<1>6. Stays(g, E, N) /\ \A k \in E : k \in 0..N /\ Ended(g[k], to)
  BY <1>4 DEF Stays
<1>7. \A k \in Rounds(data) : Ended(g[k], to) => k \in E
  BY <1>2
<1> HIDE DEF E
<1>8. \A b \in E : g[a] = g[b] /\ N \in E
  BY <1>2, <1>5, <1>6, SameEnd
<1>9. PICK c : c = CHOOSE k \in Rounds(data) : Ended(g[k], to)
  OBVIOUS
<1>10. Ended(g[N], to)
  BY <1>5, <1>6, <1>8
<1>11. c \in Rounds(data) /\ Ended(g[c], to)
  BY <1>2, <1>9, <1>10
<1>12. g[a] = g[c]
  BY <1>7, <1>8, <1>11
<1>13. PICK s : s = g[c]
  OBVIOUS
<1>14. Unmarshal(T, data, m) = IF ~s.ok THEN Failed
                               ELSE IF s.next = Len(data) + 1
                               THEN [ok |-> TRUE, msg |-> s.msg] ELSE Failed
  BY <1>1, <1>9, <1>13 DEF Unmarshal, Result, AtEnd
<1> QED BY <1>12, <1>13, <1>14

(* The loop of skipTypes, from any of its ends.                            *)
LEMMA SkippingEnd ==
  ASSUME NEW data, Len(data) \in Nat, NEW i,
         NEW g, g = skipping(data, i), NEW a \in 0..LastRound(data), g[a].done
  PROVE  skip(data, i) = g[a].next
<1>1. PICK N : N = LastRound(data)
  OBVIOUS
<1>2. N \in Nat /\ Rounds(data) \subseteq 0..N /\ N \in Rounds(data)
  BY <1>1, RoundsFacts
<1>3. \A k \in 1..N : g[k] = IF g[k - 1].done THEN g[k - 1] ELSE skipOne(data, g[k - 1])
  BY <1>1, <1>2, SkippingRec
<1> DEFINE E == {k \in 0..N : g[k].done}
<1>4. \A k \in 1..N : k - 1 \in E => k \in E /\ g[k] = g[k - 1]
  BY <1>2, <1>3
<1>5. a \in E
  BY <1>1
<1>6. Stays(g, E, N) /\ \A k \in E : k \in 0..N /\ g[k].done
  BY <1>4 DEF Stays
<1>7. \A k \in Rounds(data) : g[k].done => k \in E
  BY <1>2
<1> HIDE DEF E
<1>8. \A b \in E : g[a] = g[b] /\ N \in E
  BY <1>2, <1>5, <1>6, SameEnd
<1>9. PICK c : c = CHOOSE k \in Rounds(data) : g[k].done
  OBVIOUS
<1>10. g[N].done
  BY <1>5, <1>6, <1>8
<1>11. c \in Rounds(data) /\ g[c].done
  BY <1>2, <1>9, <1>10
<1>12. g[a] = g[c]
  BY <1>7, <1>8, <1>11
<1> QED BY <1>9, <1>12 DEF skip, SkippedTo

-----------------------------------------------------------------------------
(* Reading one occurrence of a field.                                      *)

(* Bytes that are there are what SubSeq returns.                           *)
LEMMA HeldBytes ==
  ASSUME NEW data \in Seq(Byte), NEW bytes \in Seq(Byte), NEW i \in Nat \ {0},
         Holds(data, i, bytes), NEW l \in Nat, l = Len(bytes), NEW t \in Int, t = i + l - 1
  PROVE  SubSeq(data, i, t) = bytes /\ t <= Len(data)
<1>1. PICK n : n = Len(data)
  OBVIOUS
<1>2. l \in Nat /\ n \in Nat
  BY <1>1, Elem
<1>3. t <= n /\ \A k \in 1..l : data[i + k - 1] = bytes[k]
  BY <1>1 DEF Holds
<1>4. PICK s : s = SubSeq(data, i, t)
  OBVIOUS
<1>5. s = [k \in 1..l |-> data[i + k - 1]]
  BY <1>1, <1>2, <1>3, <1>4
<1>6. bytes = [k \in 1..l |-> bytes[k]]
  OBVIOUS
<1>7. s = bytes
  BY <1>3, <1>5, <1>6
<1> QED BY <1>1, <1>2, <1>3, <1>4, <1>7

(* Data that hold two strings in a row hold each.                          *)
LEMMA HoldsConcat ==
  ASSUME NEW data \in Seq(Byte), NEW a \in Seq(Byte), NEW b \in Seq(Byte), NEW i \in Nat \ {0},
         Holds(data, i, a \o b)
  PROVE  Holds(data, i, a) /\ Holds(data, i + Len(a), b)
<1>1. PICK n, p, l : n = Len(data) /\ p = Len(b) /\ l = Len(a)
  OBVIOUS
<1>2. l \in Nat /\ n \in Nat /\ p \in Nat /\ a \o b \in Seq(Byte) /\ Len(a \o b) = l + p
  BY <1>1, Elem, ConcatFacts
<1>3. Agrees(data, i, a \o b) /\ i + (l + p) - 1 <= n
  BY <1>1, <1>2 DEF Holds, Agrees
<1>4. Agrees(data, i, a) /\ Agrees(data, i + l, b)
  BY <1>1, <1>3, AgreesConcat
<1>5. i + l - 1 <= n /\ (i + l) + p - 1 <= n /\ i + l \in Nat \ {0}
  BY <1>2, <1>3
<1> QED BY <1>1, <1>2, <1>4, <1>5, AgreesHolds

(* A length and as many bytes.                                             *)
LEMMA DelimitedRead ==
  ASSUME NEW data \in Seq(Byte), NEW bytes \in Seq(Byte), NEW i \in Nat \ {0},
         NEW l, l = Len(bytes), l < MaxLength, NEW k, k = sov(Groups(l)),
         Holds(data, i, encodeVarint(Groups(l)) \o bytes)
  PROVE  \E from \in Nat \ {0}, to \in Int :
           /\ readDelimited(data, i) = [ok |-> TRUE, from |-> from, to |-> to]
           /\ SubSeq(data, from, to) = bytes /\ Holds(data, from, bytes)
           /\ from = i + k /\ to = from + l - 1
<1>1. PICK n, g, h : n = Len(data) /\ g = Groups(l) /\ h = encodeVarint(g)
  OBVIOUS
<1>2. l \in Nat /\ n \in Nat
  BY <1>1, Elem
<1>3. IsUint64(g) /\ Length(g) = l
  BY <1>1, <1>2, GroupsFacts
<1>4. h \in Seq(Byte) /\ Len(h) = k /\ k \in 1..10
  BY <1>1, <1>3, EncodeFacts
<1>5. Holds(data, i, h) /\ Holds(data, i + k, bytes)
  BY <1>1, <1>4, HoldsConcat
<1>6. readVarint(data, i) = [ok |-> TRUE, next |-> i + k, groups |-> g]
  BY <1>1, <1>3, <1>5, VarintRead
<1>7. PICK j : j = i + k
  OBVIOUS
<1>8. j \in Nat \ {0} /\ Holds(data, j, bytes)
  BY <1>4, <1>5, <1>7
<1>9. PICK t : t = j + l - 1
  OBVIOUS
<1>10. SubSeq(data, j, t) = bytes /\ t <= n /\ t \in Int /\ ~(l < 0) /\ ~(t > n)
  <2>1. t \in Int /\ ~(l < 0)
    BY <1>2, <1>8, <1>9
  <2>2. SubSeq(data, j, t) = bytes /\ t <= Len(data)
    BY <1>2, <1>8, <1>9, <2>1, HeldBytes
  <2> QED BY <1>1, <1>2, <2>1, <2>2
<1>11. PICK r : r = readVarint(data, i)
  OBVIOUS
<1>12. r.ok /\ r.next = j /\ Length(r.groups) = l
  BY <1>3, <1>6, <1>7, <1>11
<1>13. readDelimited(data, i) = [ok |-> TRUE, from |-> j, to |-> t]
  BY <1>1, <1>9, <1>10, <1>11, <1>12 DEF readDelimited, readLength, Delimited
<1> QED BY <1>7, <1>8, <1>9, <1>10, <1>13

(* Parts that are not empty.                                               *)
LEMMA PrefixLong ==
  ASSUME NEW parts, NEW N, IsParts(parts, N), \A n \in 1..N : parts[n] # <<>>, NEW n \in 0..N
  PROVE  n <= Len(Prefixes(parts)[n])
<1>1. N \in Nat
  BY DEF IsParts
<1> DEFINE S == {k \in Nat : k <= N => k <= Len(Prefixes(parts)[k])}
<1>2. 0 \in S
  <2>1. Prefixes(parts)[0] = <<>>
    BY PrefixesRec
  <2>2. Len(Prefixes(parts)[0]) = 0
    BY <2>1
  <2> QED BY <2>2
<1>3. ASSUME NEW k \in Nat, k \in S PROVE k + 1 \in S
  <2>1. ASSUME k + 1 <= N PROVE k + 1 <= Len(Prefixes(parts)[k + 1])
    <3>1. PICK a, b, c : /\ a = Len(Prefixes(parts)[k]) /\ b = Len(Prefixes(parts)[k + 1])
                         /\ c = Len(parts[k + 1])
      OBVIOUS
    <3>2. k + 1 \in 1..N /\ (k + 1) - 1 = k /\ k <= N
      BY <1>1, <2>1
    <3>3. /\ parts[k + 1] \in Seq(Byte) /\ Prefixes(parts)[k] \in Seq(Byte)
          /\ b = a + c
      BY <3>1, <3>2, PartFollows
    <3>4. parts[k + 1] # <<>>
      BY <3>2
    <3>5. a \in Nat /\ c \in Nat /\ c # 0
      BY <3>1, <3>3, <3>4
    <3>6. k <= a
      BY <1>3, <3>1, <3>2
    <3>7. k + 1 <= b
      BY <3>3, <3>5, <3>6
    <3> QED BY <3>1, <3>7
  <2> QED BY <2>1
<1> HIDE DEF S
<1>4. \A k \in Nat : k \in S
  BY <1>2, <1>3, Induction
<1> QED BY <1>1, <1>4 DEF S

(* The numbers of a packed field.                                          *)
LEMMA PackedRead ==
  ASSUME NEW data \in Seq(Byte), NEW from \in Nat \ {0}, NEW e, IsNumbers(e),
         NEW bytes, bytes = Joined(PackedParts(e)), Holds(data, from, bytes),
         NEW l, l = Len(bytes)
  PROVE  \E to \in Int : /\ to = from + l - 1
                         /\ readPacked(data, from, to)
                              = [ok |-> TRUE, next |-> to + 1, values |-> e]
<1>1. PICK to : to = from + l - 1
  OBVIOUS
<1>2. PICK parts, n, d : parts = PackedParts(e) /\ n = Len(e) /\ d = Len(data)
  OBVIOUS
<1>3. n \in Nat /\ IsParts(parts, n) /\ bytes \in Seq(Byte) /\ d \in Nat
  BY <1>2, PackedFacts, Elem
<1>4. \A k \in 1..n : IsUint64(e[k]) /\ parts[k] = encodeVarint(e[k])
  BY <1>2 DEF IsNumbers, PackedParts
<1>5. \A k \in 1..n : parts[k] # <<>>
  <2>1. ASSUME NEW k \in 1..n PROVE parts[k] # <<>>
    <3>1. Len(encodeVarint(e[k])) = sov(e[k]) /\ sov(e[k]) \in 1..10
      BY <1>4, EncodeFacts
    <3>2. Len(parts[k]) # 0
      BY <1>4, <3>1
    <3> QED BY <3>2
  <2> QED BY <2>1
<1>6. /\ l \in Nat /\ to <= d /\ Agrees(data, from, bytes)
      /\ \A k \in 0..n : /\ Len(Prefixes(parts)[k]) \in Nat /\ Len(Prefixes(parts)[k]) <= l
                         /\ k <= Len(Prefixes(parts)[k])
  <2>1. l \in Nat
    BY <1>3, Elem
  <2>2. l \in Nat /\ to <= d
    <3>1. to \in Int
      BY <1>1, <2>1
    <3> QED BY <1>1, <1>2, <1>3, <2>1, <3>1, HeldBytes
  <2>3. Agrees(data, from, bytes)
    BY DEF Holds, Agrees
  <2>4. \A k \in 0..n : Len(Prefixes(parts)[k]) \in Nat /\ Len(Prefixes(parts)[k]) <= l
    BY <1>2, <1>3, PrefixGrows
  <2>5. \A k \in 0..n : k <= Len(Prefixes(parts)[k])
    BY <1>3, <1>5, PrefixLong
  <2> QED BY <2>2, <2>3, <2>4, <2>5
<1>7. PICK S : S = Seq(Septet)
  OBVIOUS
<1>8. /\ \A k \in 1..n : Continued(<<>>, e, k) = Append(Continued(<<>>, e, k - 1), e[k])
      /\ Continued(<<>>, e, n) = e
  <2>1. e \in Seq(S) /\ <<>> \in Seq(S)
    BY <1>7 DEF IsNumbers
  <2>2. <<>> \o e = e
    BY <2>1
  <2>3. PICK z : z = <<>>
    OBVIOUS
  <2>4. z \in Seq(S) /\ e \in Seq(S)
    BY <2>1, <2>3
  <2>5. /\ \A k \in 1..n : /\ Continued(z, e, k) = Append(Continued(z, e, k - 1), e[k])
                           /\ Continued(z, e, k) \in Seq(S)
        /\ n \in Nat /\ Continued(z, e, n) = z \o e
    BY <1>2, <2>4, FirstElements
  <2> QED BY <2>2, <2>3, <2>5
<1>9. PICK g : g = readingPacked(data, from, to)
  OBVIOUS
<1>10. LastRound(data) = d + 1
  BY <1>2, <1>3, RoundsFacts
<1>11. /\ g[0] = [ok |-> TRUE, next |-> from, values |-> <<>>]
       /\ \A k \in 1..(d + 1) : ~Ended(g[k - 1], to) => g[k] = readElement(data, g[k - 1])
  <2>1. LastRound(data) \in Nat
    BY <1>3, <1>10
  <2>2. /\ g[0] = [ok |-> TRUE, next |-> from, values |-> <<>>]
        /\ Ends(g, to, LastRound(data)) /\ Unpacks(g, data, to, LastRound(data))
    BY <1>9, <2>1, ReadingPackedRec
  <2> QED BY <1>10, <2>2 DEF Unpacks
<1> DEFINE State(k) == [ok |-> TRUE, next |-> from + Len(Prefixes(parts)[k]),
                        values |-> Continued(<<>>, e, k)]
           R == {k \in Nat : k <= n => g[k] = State(k)}
<1>12. 0 \in R
  <2>1. Prefixes(parts)[0] = <<>> /\ Continued(<<>>, e, 0) = <<>>
    BY PrefixesRec DEF Continued
  <2>2. from + Len(<<>>) = from
    OBVIOUS
  <2> QED BY <1>11, <2>1, <2>2
<1>13. ASSUME NEW k \in Nat, k \in R, k + 1 <= n PROVE g[k + 1] = State(k + 1)
  <2>1. k + 1 \in 1..n /\ k \in 0..n /\ k + 1 \in 0..n /\ (k + 1) - 1 = k /\ k <= n
    BY <1>3, <1>13
  <2>2. PICK p, q, r, i : /\ p = Len(Prefixes(parts)[k]) /\ q = Len(Prefixes(parts)[k + 1])
                          /\ r = Len(parts[k + 1]) /\ i = from + p
    OBVIOUS
  <2>3. p \in Nat /\ q \in Nat /\ q <= l /\ k <= p /\ k + 1 <= q
    BY <1>6, <2>1, <2>2
  <2>4. q = p + r /\ parts[k + 1] \in Seq(Byte)
    BY <1>3, <2>1, <2>2, PartFollows
  <2>5. r = sov(e[k + 1]) /\ r \in 1..10 /\ IsUint64(e[k + 1])
    BY <1>4, <2>1, <2>2, EncodeFacts
  <2>6. i \in Nat \ {0} /\ i <= to /\ i + r - 1 <= d /\ k + 1 \in 1..(d + 1)
    <3>1. l \in Nat /\ d \in Nat /\ to <= d /\ to = from + l - 1 /\ r >= 1 /\ r \in Nat
      BY <1>1, <1>3, <1>6, <2>5, SMTT(90)
    <3>2. i = from + p /\ q = p + r
      BY <2>2, <2>4
    <3>3. p + r <= l /\ i \in Nat \ {0}
      BY <2>3, <3>2
    <3>4. i <= to /\ i + r - 1 <= d
      BY <2>3, <3>1, <3>2, <3>3
    <3>5. k + 1 <= d + 1
      BY <1>3, <2>3, <3>1
    <3> QED BY <1>3, <3>3, <3>4, <3>5
  <2>7. Agrees(data, i, parts[k + 1])
    BY <1>2, <1>3, <1>6, <2>1, <2>2, AgreesPart
  <2>8. Holds(data, i, encodeVarint(e[k + 1]))
    BY <1>2, <1>4, <2>1, <2>2, <2>4, <2>6, <2>7, AgreesHolds
  <2>9. readVarint(data, i) = [ok |-> TRUE, next |-> i + r, groups |-> e[k + 1]]
    BY <2>5, <2>6, <2>8, VarintRead
  <2>10. g[k] = [ok |-> TRUE, next |-> i, values |-> Continued(<<>>, e, k)]
    BY <1>13, <2>1, <2>2
  <2>11. g[k + 1] = readElement(data, g[k])
    BY <1>11, <2>1, <2>6, <2>10 DEF Ended
  <2>12. readElement(data, g[k]) = [ok |-> TRUE, next |-> i + r,
                                    values |-> Append(Continued(<<>>, e, k), e[k + 1])]
    <3>1. PICK c, x, v, s : /\ c = Continued(<<>>, e, k) /\ x = e[k + 1]
                            /\ v = readVarint(data, i) /\ s = g[k]
      OBVIOUS
    <3>2. s.next = i /\ s.values = c /\ v.ok /\ v.next = i + r /\ v.groups = x
      BY <2>9, <2>10, <3>1
    <3>3. readElement(data, s) = [ok |-> TRUE, next |-> i + r, values |-> Append(c, x)]
      BY <3>1, <3>2 DEF readElement, addElement
    <3> QED BY <3>1, <3>3
  <2>13. Append(Continued(<<>>, e, k), e[k + 1]) = Continued(<<>>, e, k + 1)
    BY <1>8, <2>1
  <2>14. i + r = from + q
    <3>1. r \in Nat
      BY ONLY <2>5
    <3>2. p \in Nat
      BY ONLY <2>3
    <3>3. from \in Nat
      OBVIOUS
    <3>4. i = from + p /\ q = p + r
      BY <2>2, <2>4
    <3> QED BY ONLY <3>1, <3>2, <3>3, <3>4
  <2> QED BY <2>2, <2>11, <2>12, <2>13, <2>14
<1>14. \A k \in Nat : k \in R => k + 1 \in R
  BY <1>3, <1>13
<1> HIDE DEF R
<1>15. n \in R
  BY <1>3, <1>12, <1>14, Induction
<1>16. g[n] = State(n)
  BY <1>3, <1>15 DEF R
<1>17. g[n] = [ok |-> TRUE, next |-> to + 1, values |-> e]
  <2>1. bytes = Prefixes(parts)[n]
    BY <1>2, <1>3, PrefixGrows
  <2>2. from + Len(Prefixes(parts)[n]) = to + 1
    BY <1>1, <1>6, <2>1
  <2> QED BY <1>8, <1>16, <2>2
<1>18. n \in 0..LastRound(data) /\ Ended(g[n], to)
  <2>1. n <= l /\ n <= d + 1
    <3>1. n \in 0..n
      BY <1>3
    <3>2. /\ n <= Len(Prefixes(parts)[n]) /\ Len(Prefixes(parts)[n]) <= l
          /\ Len(Prefixes(parts)[n]) \in Nat
      BY <1>6, <3>1
    <3> QED BY <1>1, <1>3, <1>6, <3>2
  <2>2. to \in Int /\ ~(to + 1 <= to)
    BY <1>1, <1>6
  <2> QED BY <1>3, <1>10, <1>17, <2>1, <2>2 DEF Ended
<1>19. readPacked(data, from, to) = [ok |-> TRUE, next |-> to + 1, values |-> e]
  BY <1>2, <1>3, <1>9, <1>17, <1>18, PackedEnd
<1>20. to \in Int
  BY <1>1, <1>6
<1> QED BY <1>1, <1>19, <1>20

(* Any other wire type is refused.                                         *)
LEMMA WrongWireType ==
  ASSUME NEW kind, kind[1] \in Kinds, NEW old, NEW data, NEW i, NEW type,
         readField(kind, old, type, data, i) # Failed
  PROVE  \/ type = 0 /\ kind[1] \in Numbers \union {"packed"}
         \/ type = 2 /\ kind[1] \notin Numbers
<1>1. CASE /\ ~(type = 0 /\ kind[1] \in Numbers \union {"packed"})
           /\ ~(type = 2 /\ kind[1] = "packed")
           /\ ~(type = 2 /\ kind[1] \in {"bytes", "strings"})
           /\ ~(type = 2 /\ kind[1] \in Embedding)
  <2>1. readField(kind, old, type, data, i) = Failed
    BY <1>1 DEF readField
  <2> QED BY <2>1
<1> QED BY <1>1 DEF Numbers, Embedding

(* A field is read back from what was written.                             *)
LEMMA NumberRead ==
  ASSUME NEW data \in Seq(Byte), NEW i \in Nat \ {0}, NEW kind, kind[1] \in Numbers, NEW old,
         NEW e, IsElement(kind, e), NEW g, g = NumberOf(kind, e), Holds(data, i, encodeVarint(g))
  PROVE  readField(kind, old, 0, data, i)
           = [ok |-> TRUE, value |-> After(kind, old, e), next |-> i + sov(g)]
<1>1. PICK number : number = readVarint(data, i)
  OBVIOUS
<1>2. IsUint64(g)
  BY NumberFacts
<1>3. number = [ok |-> TRUE, next |-> i + sov(g), groups |-> g]
  BY <1>1, <1>2, VarintRead
<1>4. After(kind, old, e) = e
  BY DEF After, Numbers, Repeated
<1>5. CASE kind[1] = "uint"
  <2>1. g = e
    BY <1>5 DEF NumberOf
  <2>2. readField(kind, old, 0, data, i)
          = IF number.ok THEN [ok |-> TRUE, value |-> number.groups, next |-> number.next]
            ELSE Failed
    BY <1>1, <1>5 DEF readField, readNumber, FieldAt, Numbers, Embedding
  <2> QED BY <1>3, <1>4, <2>1, <2>2
<1>6. CASE kind[1] = "enum"
  <2>1. g = Uint64(e) /\ Int32(g) = e
    BY <1>6, Int32Read DEF NumberOf, IsElement
  <2>2. readField(kind, old, 0, data, i)
          = IF number.ok THEN [ok |-> TRUE, value |-> Int32(number.groups), next |-> number.next]
            ELSE Failed
    BY <1>1, <1>6 DEF readField, readNumber, FieldAt, Numbers, Embedding
  <2> QED BY <1>3, <1>4, <2>1, <2>2
<1>7. CASE kind[1] = "bool"
  <2>1. g = <<1>> /\ e = TRUE
    BY <1>7 DEF NumberOf, IsElement
  <2>2. (g # <<>>) = TRUE
    BY <2>1
  <2>3. readField(kind, old, 0, data, i)
          = IF number.ok THEN [ok |-> TRUE, value |-> number.groups # <<>>, next |-> number.next]
            ELSE Failed
    BY <1>1, <1>7 DEF readField, readNumber, FieldAt, Numbers, Embedding
  <2>4. readField(kind, old, 0, data, i) = [ok |-> TRUE, value |-> g # <<>>, next |-> i + sov(g)]
    BY <1>3, <2>3
  <2> QED BY <1>4, <2>1, <2>2, <2>4
<1> QED BY <1>5, <1>6, <1>7 DEF Numbers

(* A length-delimited field is read back.                                  *)
LEMMA BytesRead ==
  ASSUME NEW K, InnerLaws(K), NEW data \in Seq(Byte), NEW i \in Nat \ {0},
         NEW kind, IsKind(kind, K), kind[1] \notin Numbers,
         NEW old, IsValue(kind, old), NEW e, IsElement(kind, e),
         NEW bytes, bytes = Content(kind, e), NEW l \in Nat, l = Len(bytes), l < MaxLength,
         NEW k, k = sov(Groups(l)), Holds(data, i, encodeVarint(Groups(l)) \o bytes)
  PROVE  readField(kind, old, 2, data, i)
           = [ok |-> TRUE, value |-> After(kind, old, e), next |-> i + k + l]
<1>1. kind[1] \in Kinds /\ bytes \in Seq(Byte)
  BY KindFacts, ContentFacts
<1>2. PICK from \in Nat \ {0}, to \in Int :
        /\ readDelimited(data, i) = [ok |-> TRUE, from |-> from, to |-> to]
        /\ SubSeq(data, from, to) = bytes /\ Holds(data, from, bytes)
        /\ from = i + k /\ to = from + l - 1
  BY <1>1, DelimitedRead
<1>3. PICK part : part = readDelimited(data, i)
  OBVIOUS
<1>4. part = [ok |-> TRUE, from |-> from, to |-> to] /\ k \in 1..10
  <2>1. k \in 1..10
    BY GroupsFacts, EncodeFacts
  <2> QED BY <1>2, <1>3, <2>1
<1>5. part.ok /\ part.from = from /\ part.to = to /\ SubSeq(data, part.from, part.to) = bytes
  BY <1>2, <1>4
<1>6. to + 1 = i + k + l /\ to = from + l - 1
  BY <1>2, <1>4
<1>7. CASE kind[1] \in {"bytes", "strings"}
  <2>1. bytes = e
    BY <1>7 DEF Content, Embedding
  <2>2. Placed(kind, old, e) = After(kind, old, e)
    BY <1>7 DEF Placed, After, Repeated
  <2>3. readField(kind, old, 2, data, i)
          = IF part.ok THEN [ok |-> TRUE, value |-> Placed(kind, old, bytes), next |-> part.to + 1]
            ELSE Failed
    BY <1>3, <1>5, <1>7 DEF readField, readBytes, FieldAt, Numbers, Embedding
  <2> QED BY <1>5, <1>6, <2>1, <2>2, <2>3
<1>8. CASE kind[1] = "packed"
  <2>1. bytes = Joined(PackedParts(e)) /\ IsNumbers(e)
    BY <1>8 DEF Content, Embedding, IsElement
  <2>2. PICK packed : packed = readPacked(data, from, to)
    OBVIOUS
  <2>3. packed = [ok |-> TRUE, next |-> to + 1, values |-> e]
    <3>1. readPacked(data, from, to) = [ok |-> TRUE, next |-> to + 1, values |-> e]
      <4>1. PICK b : b = Joined(PackedParts(e))
        OBVIOUS
      <4>2. \E t \in Int : /\ t = from + Len(b) - 1
                           /\ readPacked(data, from, t)
                                = [ok |-> TRUE, next |-> t + 1, values |-> e]
        <5>1. Holds(data, from, b)
          BY <1>2, <2>1, <4>1
        <5> QED BY <2>1, <4>1, <5>1, PackedRead
      <4>3. Len(b) = l
        BY <2>1, <4>1
      <4>4. PICK t \in Int : /\ t = from + Len(b) - 1
                           /\ readPacked(data, from, t)
                                = [ok |-> TRUE, next |-> t + 1, values |-> e]
        BY <4>2
      <4>5. t = to
        BY <1>6, <4>3, <4>4
      <4> QED BY <4>4, <4>5
    <3> QED BY <2>2, <3>1
  <2>4. Placed(kind, old, e) = After(kind, old, e)
    BY <1>8 DEF Placed, After, Repeated
  <2>5. readField(kind, old, 2, data, i)
          = IF part.ok /\ packed.ok
            THEN [ok |-> TRUE, value |-> Placed(kind, old, packed.values), next |-> packed.next]
            ELSE Failed
    BY <1>3, <1>5, <1>8, <2>2 DEF readField, readList, addPacked, FieldAt, Numbers, Embedding
  <2> QED BY <1>5, <1>6, <2>3, <2>4, <2>5
<1>9. CASE kind[1] \in Embedding
  <2>1. PICK type, o : type = kind[2] /\ o = ReadInto(kind, old)
    OBVIOUS
  <2>2. type \in K /\ InnerIs(type, e) /\ bytes = InnerEncoded(type, e)
    BY <1>9, <2>1, KindFacts DEF IsElement, Content, Embedding
  <2>3. InnerIs(type, o) /\ Placed(kind, old, InnerMerge(type, o, e)) = After(kind, old, e)
    <3>1. /\ InnerIs(type, InnerDefault(type)) /\ InnerMerge(type, InnerDefault(type), e) = e
      BY <2>2 DEF InnerLaws, InnerDefaultLaw
    <3>2. CASE kind[1] = "val"
      <4>1. o = old /\ InnerIs(type, old)
        BY <1>1, <2>1, <3>2, ValueFacts DEF ReadInto
      <4> QED BY <2>1, <3>2, <4>1 DEF Placed, After, Repeated
    <3>3. CASE kind[1] = "many"
      <4>1. o = InnerDefault(type)
        BY <2>1, <3>3 DEF ReadInto
      <4> QED BY <3>1, <3>3, <4>1 DEF Placed, After, Repeated
    <3>4. CASE kind[1] = "ptr" /\ old = <<>>
      <4>1. o = InnerDefault(type)
        BY <2>1, <3>4 DEF ReadInto
      <4> QED BY <3>1, <3>4, <4>1 DEF Placed, After, Repeated
    <3>5. CASE kind[1] = "ptr" /\ old # <<>>
      <4>1. o = old[1]
        BY <2>1, <3>5 DEF ReadInto
      <4>2. InnerIs(type, old[1])
        BY <1>1, <2>1, <3>5, ValueFacts
      <4> QED BY <2>1, <3>5, <4>1, <4>2 DEF Placed, After, Repeated
    <3> QED BY <1>9, <3>2, <3>3, <3>4, <3>5 DEF Embedding
  <2>4. PICK inner : inner = InnerUnmarshal(type, bytes, o)
    OBVIOUS
  <2>5. inner = [ok |-> TRUE, msg |-> InnerMerge(type, o, e)]
    <3>1. Len(InnerEncoded(type, e)) < MaxLength
      BY <2>2
    <3> QED BY <2>2, <2>3, <2>4, <3>1 DEF InnerLaws, InnerReadLaw
  <2>6. readField(kind, old, 2, data, i)
          = IF part.ok /\ inner.ok
            THEN [ok |-> TRUE, value |-> Placed(kind, old, inner.msg), next |-> part.to + 1]
            ELSE Failed
    BY <1>3, <1>5, <1>9, <2>1, <2>4 DEF readField, readMessage, FieldAt, Numbers, Embedding
  <2> QED BY <1>5, <1>6, <2>3, <2>5, <2>6
<1> QED BY <1>1, <1>7, <1>8, <1>9 DEF Kinds, Numbers, Embedding

-----------------------------------------------------------------------------
(* One round of Unmarshal.                                                 *)

Put(m, f, v) == [m EXCEPT ![f] = v]

(* The tag of a field leads to its case.                                   *)
LEMMA TagRead ==
  ASSUME NEW T, NEW K, WellFormed(T, K), NEW n \in 1..Len(Encoder[T]),
         NEW tag, tag = Encoder[T][n][1], NEW f, f = Encoder[T][n][2],
         NEW kind, kind = Encoder[T][n][3],
         NEW data \in Seq(Byte), NEW i \in Nat \ {0}, Agrees(data, i, <<tag>>), i <= Len(data),
         NEW o, NEW r, r = readField(kind, o[f], WireTypeOf(kind), data, i + 1),
         NEW read, read = readNext(T, data, At(i, o))
  PROVE  read = IF r.ok THEN At(r.next, Put(o, f, r.value)) ELSE Failed
<1>1. /\ tag \in Tags /\ tag % 8 = WireTypeOf(kind)
      /\ Decoder[T][n] = <<tag \div 8, f, kind>>
      /\ {p \in DOMAIN Decoder[T] : Decoder[T][p][1] = tag \div 8} = {n}
  BY RowFacts
<1>2. PICK g : g = <<tag>>
  OBVIOUS
<1>3. /\ IsUint64(g) /\ encodeVarint(g) = g /\ sov(g) = 1 /\ g \in Seq(Byte) /\ Len(g) = 1
      /\ FieldNum(g) = tag \div 8 /\ WireType(g) = tag % 8
  BY <1>1, <1>2, TagFacts
<1>4. Holds(data, i, encodeVarint(g))
  <2>1. i + 1 - 1 <= Len(data)
    OBVIOUS
  <2> QED BY <1>2, <1>3, <2>1, AgreesHolds
<1>5. readVarint(data, i) = [ok |-> TRUE, next |-> i + 1, groups |-> g]
  BY <1>3, <1>4, VarintRead
<1>6. tag \div 8 > 0 /\ tag \div 8 \in Nat
  BY <1>1, TagFacts
<1>7. WireTypeOf(kind) # 4
  BY DEF WireTypeOf
<1>8. PICK s, wire, row : s = At(i, o) /\ wire = readVarint(data, s.next) /\ row = Decoder[T][n]
  OBVIOUS
<1>9. s.next = i /\ s.msg = o
  BY <1>8 DEF At
<1>10. wire.ok /\ wire.next = i + 1 /\ wire.groups = g
  BY <1>5, <1>8, <1>9
<1>11. row[2] = f /\ row[3] = kind
  BY <1>1, <1>8
<1>12. PICK num : num = FieldNum(wire.groups)
  OBVIOUS
<1>13. {p \in DOMAIN Decoder[T] : Decoder[T][p][1] = num} = {n}
  BY <1>1, <1>3, <1>10, <1>12
<1>14. (CHOOSE p \in {n} : TRUE) = n
  OBVIOUS
<1>15. ~(WireType(wire.groups) = 4 \/ num <= 0)
  BY <1>1, <1>3, <1>6, <1>7, <1>10, <1>12
<1>16. r = readField(row[3], s.msg[row[2]], WireType(wire.groups), data, wire.next)
  BY <1>1, <1>3, <1>9, <1>10, <1>11
<1>17. PICK rows, p, next :
         /\ rows = {q \in DOMAIN Decoder[T] : Decoder[T][q][1] = num}
         /\ p = Decoder[T][CHOOSE q \in rows : TRUE] /\ next = skip(data, s.next)
  OBVIOUS
<1>18. rows # {} /\ p = row
  BY <1>8, <1>13, <1>14, <1>17
<1>19. PICK field : field = readField(p[3], s.msg[p[2]], WireType(wire.groups), data, wire.next)
  OBVIOUS
<1>20. readNext(T, data, s) =
         IF ~wire.ok THEN Failed
         ELSE IF WireType(wire.groups) = 4 \/ num <= 0 THEN Failed
         ELSE IF rows # {}
         THEN IF field.ok THEN At(field.next, Put(s.msg, p[2], field.value)) ELSE Failed
         ELSE IF next > 0 /\ next <= Len(data) + 1 THEN At(next, s.msg) ELSE Failed
  BY <1>8, <1>12, <1>17, <1>19
  DEF readNext, readTag, readTagged, readKnown, readUnknown, setField, Rows, At, Put
<1>21. field = r
  BY <1>16, <1>18, <1>19
<1> QED BY <1>8, <1>9, <1>10, <1>11, <1>15, <1>18, <1>20, <1>21

(* What follows the tag.                                                   *)
Rest(kind, e) ==
  IF kind[1] \in Numbers THEN encodeVarint(NumberOf(kind, e))
  ELSE encodeVarint(Groups(Len(Content(kind, e)))) \o Content(kind, e)

(* What follows the tag of a field is a byte string.                       *)
LEMMA RestFacts ==
  ASSUME NEW K, InnerLaws(K), NEW kind, IsKind(kind, K), NEW e, IsElement(kind, e)
  PROVE  /\ Rest(kind, e) \in Seq(Byte) /\ Len(Rest(kind, e)) \in Nat
         /\ \A tag : Piece(tag, kind, e) = <<tag>> \o Rest(kind, e)
<1>1. CASE kind[1] \in Numbers
  <2>1. Rest(kind, e) = encodeVarint(NumberOf(kind, e)) /\ IsUint64(NumberOf(kind, e))
    BY <1>1, NumberFacts DEF Rest
  <2>2. Rest(kind, e) \in Seq(Byte)
    BY <2>1, EncodeFacts
  <2> QED BY <1>1, <2>1, <2>2, Elem DEF Piece
<1>2. CASE kind[1] \notin Numbers
  <2>1. PICK b, h : b = Content(kind, e) /\ h = encodeVarint(Groups(Len(b)))
    OBVIOUS
  <2>2. b \in Seq(Byte) /\ Len(b) \in Nat
    BY <1>2, <2>1, ContentFacts
  <2>3. h \in Seq(Byte)
    BY <2>1, <2>2, GroupsFacts, EncodeFacts
  <2>4. h \o b \in Seq(Byte)
    BY <2>2, <2>3, ConcatFacts
  <2>5. Rest(kind, e) = h \o b
    BY <1>2, <2>1 DEF Rest
  <2>6. \A tag : Piece(tag, kind, e) = <<tag>> \o (h \o b)
    BY <1>2, <2>1 DEF Piece
  <2> QED BY <2>4, <2>5, <2>6, Elem
<1> QED BY <1>1, <1>2

(* What follows the tag is read back.                                      *)
LEMMA RestRead ==
  ASSUME NEW K, InnerLaws(K), NEW kind, IsKind(kind, K), NEW e, IsElement(kind, e),
         NEW old, IsValue(kind, old), NEW data \in Seq(Byte), NEW j \in Nat \ {0},
         Holds(data, j, Rest(kind, e)), Len(Rest(kind, e)) < MaxLength
  PROVE  readField(kind, old, WireTypeOf(kind), data, j)
           = [ok |-> TRUE, value |-> After(kind, old, e), next |-> j + Len(Rest(kind, e))]
<1>1. CASE kind[1] \in Numbers
  <2>1. PICK g : g = NumberOf(kind, e)
    OBVIOUS
  <2>2. Rest(kind, e) = encodeVarint(g) /\ WireTypeOf(kind) = 0
    BY <1>1, <2>1 DEF Rest, WireTypeOf
  <2>3. IsUint64(g)
    BY <1>1, <2>1, NumberFacts
  <2>4. Len(encodeVarint(g)) = sov(g)
    BY <2>3, EncodeFacts
  <2>5. readField(kind, old, 0, data, j)
          = [ok |-> TRUE, value |-> After(kind, old, e), next |-> j + sov(g)]
    BY <1>1, <2>1, <2>2, NumberRead
  <2> QED BY <2>2, <2>4, <2>5
<1>2. CASE kind[1] \notin Numbers
  <2>1. PICK b, l, h, k : /\ b = Content(kind, e) /\ l = Len(b)
                          /\ h = encodeVarint(Groups(l)) /\ k = sov(Groups(l))
    OBVIOUS
  <2>2. b \in Seq(Byte) /\ l \in Nat
    BY <1>2, <2>1, ContentFacts
  <2>3. Rest(kind, e) = h \o b /\ WireTypeOf(kind) = 2
    BY <1>2, <2>1 DEF Rest, WireTypeOf
  <2>4. h \in Seq(Byte) /\ Len(h) = k /\ k \in 1..10
    BY <2>1, <2>2, GroupsFacts, EncodeFacts
  <2>5. Len(h \o b) = k + l
    <3>1. Len(h \o b) = Len(h) + Len(b)
      BY <2>2, <2>4, ConcatFacts
    <3> QED BY <2>1, <2>4, <3>1
  <2>6. l < MaxLength
    BY <2>2, <2>3, <2>4, <2>5, SMT DEF MaxLength
  <2>7. readField(kind, old, 2, data, j)
          = [ok |-> TRUE, value |-> After(kind, old, e), next |-> j + k + l]
    BY <1>2, <2>1, <2>2, <2>3, <2>6, BytesRead
  <2>8. j + k + l = j + Len(Rest(kind, e))
    BY <2>2, <2>3, <2>4, <2>5
  <2> QED BY <2>3, <2>7, <2>8
<1> QED BY <1>1, <1>2

(* The row of a field, in the table of a message.                          *)
IsRow(K, T, n, tag, f, kind) ==
  /\ InnerLaws(K) /\ WellFormed(T, K) /\ n \in 1..Len(Encoder[T])
  /\ tag = Encoder[T][n][1] /\ f = Encoder[T][n][2] /\ kind = Encoder[T][n][3]

(* A whole occurrence of a field.                                          *)
LEMMA PieceRead ==
  ASSUME NEW K, NEW T, NEW n, NEW tag, NEW f, NEW kind, IsRow(K, T, n, tag, f, kind),
         NEW e, IsElement(kind, e),
         NEW o, NEW old, old = o[f], IsValue(kind, old),
         NEW data \in Seq(Byte), NEW i \in Nat \ {0},
         NEW piece, piece = Piece(tag, kind, e), Holds(data, i, piece), Len(piece) < MaxLength
  PROVE  readNext(T, data, At(i, o)) = At(i + Len(piece), Put(o, f, After(kind, old, e)))
<1>1. /\ InnerLaws(K) /\ WellFormed(T, K) /\ n \in 1..Len(Encoder[T])
      /\ tag = Encoder[T][n][1] /\ f = Encoder[T][n][2] /\ kind = Encoder[T][n][3]
  BY DEF IsRow
<1> USE <1>1
<1>2. tag \in Tags /\ IsKind(kind, K)
  BY RowFacts
<1>3. PICK a, b, l : a = <<tag>> /\ b = Rest(kind, e) /\ l = Len(b)
  OBVIOUS
<1>4. a \in Seq(Byte) /\ Len(a) = 1
  BY <1>2, <1>3, TagFacts
<1>5. b \in Seq(Byte) /\ l \in Nat /\ piece = a \o b
  BY <1>2, <1>3, RestFacts
<1>6. Len(piece) = 1 + l
  <2>1. Len(a \o b) = Len(a) + Len(b)
    BY <1>4, <1>5, ConcatFacts
  <2> QED BY <1>3, <1>4, <1>5, <2>1
<1>7. Holds(data, i, a) /\ Holds(data, i + 1, b)
  BY <1>4, <1>5, HoldsConcat
<1>8. Agrees(data, i, <<tag>>) /\ i <= Len(data)
  <2>1. i + 1 - 1 <= Len(data)
    BY <1>4, <1>7 DEF Holds
  <2> QED BY <1>3, <1>7, <2>1 DEF Holds, Agrees
<1>9. PICK r, read, j : /\ r = readField(kind, o[f], WireTypeOf(kind), data, i + 1)
                        /\ read = readNext(T, data, At(i, o)) /\ j = i + 1
  OBVIOUS
<1>10. read = IF r.ok THEN At(r.next, Put(o, f, r.value)) ELSE Failed
  BY <1>8, <1>9, TagRead
<1>11. j \in Nat \ {0} /\ Holds(data, j, Rest(kind, e))
  BY <1>3, <1>7, <1>9
<1>12. Len(Rest(kind, e)) < MaxLength
  <2>1. l = Len(Rest(kind, e)) /\ l \in Nat /\ Len(piece) = 1 + l
    BY <1>3, <1>5, <1>6
  <2>2. Len(piece) < MaxLength
    OBVIOUS
  <2> QED BY ONLY <2>1, <2>2, SMT DEF MaxLength
<1>13. IsValue(kind, old)
  BY <1>9
<1>14. readField(kind, old, WireTypeOf(kind), data, j)
           = [ok |-> TRUE, value |-> After(kind, old, e), next |-> j + Len(Rest(kind, e))]
  BY <1>2, <1>11, <1>12, <1>13, RestRead
<1>15. r = [ok |-> TRUE, value |-> After(kind, old, e), next |-> j + l]
  BY <1>3, <1>9, <1>14
<1>16. j + l = i + Len(piece)
  <2>1. j = i + 1 /\ l \in Nat /\ Len(piece) = 1 + l
    BY <1>5, <1>6, <1>9
  <2> HIDE <1>1
  <2> QED BY <2>1
<1> HIDE <1>1
<1>17. r.ok = TRUE /\ r.value = After(kind, old, e) /\ r.next = i + Len(piece)
  BY <1>15, <1>16
<1> QED BY <1>9, <1>10, <1>17

(* An occurrence of a field that is cut off is refused.                    *)
LEMMA DelimitedCut ==
  ASSUME NEW data \in Seq(Byte), NEW bytes \in Seq(Byte), NEW j \in Nat \ {0},
         NEW l \in Nat, l = Len(bytes), l < MaxLength,
         NEW whole, whole = encodeVarint(Groups(l)) \o bytes, Agrees(data, j, whole),
         Len(data) < j + Len(whole) - 1
  PROVE  readDelimited(data, j) = Failed
<1>1. PICK n, g, h, k : n = Len(data) /\ g = Groups(l) /\ h = encodeVarint(g) /\ k = sov(g)
  OBVIOUS
<1>2. n \in Nat
  BY <1>1, Elem
<1>3. IsUint64(g) /\ Length(g) = l
  BY <1>1, GroupsFacts
<1>4. h \in Seq(Byte) /\ Len(h) = k /\ k \in 1..10
  BY <1>1, <1>3, EncodeFacts
<1>5. Agrees(data, j, h)
  BY <1>1, <1>4, AgreesConcat
<1>6. n < j + (k + l) - 1
  <2>1. Len(h \o bytes) = Len(h) + Len(bytes)
    BY <1>4, ConcatFacts
  <2> QED BY <1>1, <1>4, <2>1
<1>7. PICK r : r = readVarint(data, j)
  OBVIOUS
<1>8. CASE n < j + k - 1
  <2>1. \A p \in 1..k : j + p - 1 <= Len(data) => data[j + p - 1] = h[p]
    BY <1>4, <1>5 DEF Agrees
  <2>2. ~r.ok
    <3>1. Len(data) < j + sov(g) - 1
      BY <1>1, <1>8
    <3>2. \A p \in 1..sov(g) : j + p - 1 <= Len(data) => data[j + p - 1] = encodeVarint(g)[p]
      BY <1>1, <2>1
    <3> QED BY <1>3, <1>7, <3>1, <3>2, VarintCut
  <2> QED BY <1>7, <2>2 DEF readDelimited, readLength, Delimited
<1>9. CASE ~(n < j + k - 1)
  <2>1. j + k - 1 <= Len(data)
    BY <1>1, <1>2, <1>4, <1>9
  <2>2. Holds(data, j, h)
    BY <1>4, <1>5, <2>1, AgreesHolds
  <2>3. r = [ok |-> TRUE, next |-> j + sov(g), groups |-> g]
    BY <1>1, <1>3, <1>7, <2>2, VarintRead
  <2>4. PICK p : p = j + k
    OBVIOUS
  <2>5. r.ok /\ r.next = p /\ Length(r.groups) = l
    BY <1>1, <1>3, <2>3, <2>4
  <2>6. p + l - 1 > n
    BY <1>2, <1>4, <1>6, <2>4
  <2> QED BY <1>1, <1>7, <2>5, <2>6 DEF readDelimited, readLength, Delimited
<1> QED BY <1>8, <1>9

(* What follows the tag is refused when it is cut.                         *)
LEMMA RestCut ==
  ASSUME NEW K, InnerLaws(K), NEW kind, IsKind(kind, K), NEW e, IsElement(kind, e),
         NEW old, NEW data \in Seq(Byte), NEW j \in Nat \ {0},
         NEW rest, rest = Rest(kind, e), Agrees(data, j, rest),
         Len(data) < j + Len(rest) - 1, Len(rest) < MaxLength
  PROVE  ~readField(kind, old, WireTypeOf(kind), data, j).ok
<1>1. CASE kind[1] \in Numbers
  <2>1. PICK g : g = NumberOf(kind, e)
    OBVIOUS
  <2>2. rest = encodeVarint(g) /\ WireTypeOf(kind) = 0
    BY <1>1, <2>1 DEF Rest, WireTypeOf
  <2>3. IsUint64(g)
    BY <1>1, <2>1, NumberFacts
  <2>4. Len(encodeVarint(g)) = sov(g)
    BY <2>3, EncodeFacts
  <2>5. Len(data) < j + sov(g) - 1
    BY <2>2, <2>4
  <2>6. \A p \in 1..sov(g) : j + p - 1 <= Len(data) => data[j + p - 1] = encodeVarint(g)[p]
    BY <2>2, <2>4 DEF Agrees
  <2>7. ~readVarint(data, j).ok
    BY <2>3, <2>5, <2>6, VarintCut
  <2>8. readField(kind, old, 0, data, j) = Failed
    BY <1>1, <2>7 DEF readField, readNumber, FieldAt, Numbers, Embedding
  <2> QED BY <2>2, <2>8 DEF Failed
<1>2. CASE kind[1] \notin Numbers
  <2>1. PICK b, l : b = Content(kind, e) /\ l = Len(b)
    OBVIOUS
  <2>2. b \in Seq(Byte) /\ l \in Nat
    BY <1>2, <2>1, ContentFacts
  <2>3. rest = encodeVarint(Groups(l)) \o b /\ WireTypeOf(kind) = 2
    BY <1>2, <2>1 DEF Rest, WireTypeOf
  <2>4. l < MaxLength
    <3>1. PICK h : h = encodeVarint(Groups(l))
      OBVIOUS
    <3>2. h \in Seq(Byte)
      BY <2>2, <3>1, GroupsFacts, EncodeFacts
    <3>3. Len(rest) = Len(h) + l /\ Len(h) \in Nat
      BY <2>1, <2>2, <2>3, <3>1, <3>2, ConcatFacts
    <3> QED BY <2>2, <3>3, SMT DEF MaxLength
  <2>5. readDelimited(data, j) = Failed
    BY <2>1, <2>2, <2>3, <2>4, DelimitedCut
  <2>6. PICK part : part = readDelimited(data, j)
    OBVIOUS
  <2>7. ~part.ok
    BY <2>5, <2>6 DEF Failed
  <2>8. kind[1] \in {"bytes", "strings", "packed"} \union Embedding
    BY <1>2, KindFacts DEF Kinds, Embedding, Numbers
  <2>9. readField(kind, old, 2, data, j) = Failed
    BY <2>6, <2>7, <2>8 DEF readField, readList, readBytes, readMessage, Numbers, Embedding
  <2> QED BY <2>3, <2>9 DEF Failed
<1> QED BY <1>1, <1>2

(* A field that is cut ends the loop with an error.                        *)
LEMMA PieceCut ==
  ASSUME NEW K, NEW T, NEW n, NEW tag, NEW f, NEW kind, IsRow(K, T, n, tag, f, kind),
         NEW e, IsElement(kind, e),
         NEW o, NEW data \in Seq(Byte), NEW i \in Nat \ {0},
         NEW piece, piece = Piece(tag, kind, e), Agrees(data, i, piece), Len(piece) < MaxLength,
         i <= Len(data), Len(data) < i + Len(piece) - 1
  PROVE  readNext(T, data, At(i, o)) = Failed
<1>1. /\ InnerLaws(K) /\ WellFormed(T, K) /\ n \in 1..Len(Encoder[T])
      /\ tag = Encoder[T][n][1] /\ f = Encoder[T][n][2] /\ kind = Encoder[T][n][3]
  BY DEF IsRow
<1> USE <1>1
<1>2. tag \in Tags /\ IsKind(kind, K)
  BY RowFacts
<1>3. PICK a, b, l : a = <<tag>> /\ b = Rest(kind, e) /\ l = Len(b)
  OBVIOUS
<1>4. a \in Seq(Byte) /\ Len(a) = 1
  BY <1>2, <1>3, TagFacts
<1>5. b \in Seq(Byte) /\ l \in Nat /\ piece = a \o b
  BY <1>2, <1>3, RestFacts
<1>6. Len(piece) = 1 + l
  <2>1. Len(a \o b) = Len(a) + Len(b)
    BY <1>4, <1>5, ConcatFacts
  <2> QED BY <1>3, <1>4, <1>5, <2>1
<1>7. Agrees(data, i, a) /\ Agrees(data, i + 1, b)
  <2>1. PICK k : k = Len(a)
    OBVIOUS
  <2>2. Agrees(data, i, a \o b) /\ b \in Seq(Byte)
    BY <1>5
  <2>3. Agrees(data, i, a) /\ Agrees(data, i + k, b)
    BY <1>4, <2>2, <2>1, AgreesConcat
  <2> QED BY <1>4, <2>1, <2>3
<1>8. PICK r, read, old, j : /\ r = readField(kind, o[f], WireTypeOf(kind), data, i + 1)
                             /\ read = readNext(T, data, At(i, o))
                             /\ old = o[f] /\ j = i + 1
  OBVIOUS
<1>9. read = IF r.ok THEN At(r.next, Put(o, f, r.value)) ELSE Failed
  BY <1>3, <1>7, <1>8, TagRead
<1>10. PICK d : d = Len(data)
  OBVIOUS
<1>11. j \in Nat \ {0} /\ Agrees(data, j, b) /\ d < j + l - 1
  <2>1. d \in Nat /\ d < i + (1 + l) - 1
    BY <1>6, <1>10, Elem
  <2> QED BY <1>5, <1>7, <1>8, <2>1
<1>12. l < MaxLength
  BY <1>5, <1>6, SMT DEF MaxLength
<1>13. ~readField(kind, old, WireTypeOf(kind), data, j).ok
  BY <1>2, <1>3, <1>10, <1>11, <1>12, RestCut
<1> QED BY <1>8, <1>9, <1>13

-----------------------------------------------------------------------------
(* The loop of Unmarshal.                                                  *)

(* After some rounds it is at position i and has made o of the message m.  *)
Reached(T, data, m, i, o) ==
  \E k \in 0..LastRound(data) : k <= i - 1 /\ reading(T, data, m)[k] = At(i, o)

(* The loop starts at the first byte, with the message it is given.        *)
LEMMA ReachedStart ==
  ASSUME NEW T, NEW data \in Seq(Byte), NEW m
  PROVE  Reached(T, data, m, 1, m)
<1>1. LastRound(data) \in Nat
  BY Elem, RoundsFacts
<1>2. PICK g, to : g = reading(T, data, m) /\ to = Len(data)
  OBVIOUS
<1>3. /\ g[0] = [ok |-> TRUE, next |-> 1, msg |-> m]
      /\ Ends(g, to, LastRound(data)) /\ Goes(g, T, data, to, LastRound(data))
  BY <1>1, <1>2, ReadingRec
<1>4. 0 \in 0..LastRound(data) /\ 0 <= 1 - 1
  BY <1>1
<1> QED BY <1>2, <1>3, <1>4 DEF Reached, At

(* A round takes the loop on.                                              *)
LEMMA ReachedNext ==
  ASSUME NEW T, NEW data \in Seq(Byte), NEW m, NEW i \in Nat \ {0}, NEW o,
         Reached(T, data, m, i, o), i <= Len(data), NEW j \in Nat, j > i, NEW p,
         readNext(T, data, At(i, o)) = At(j, p)
  PROVE  Reached(T, data, m, j, p)
<1>1. PICK N, to : N = LastRound(data) /\ to = Len(data)
  OBVIOUS
<1>2. to \in Nat /\ N = to + 1 /\ N \in Nat
  BY <1>1, Elem, RoundsFacts
<1>3. PICK g : g = reading(T, data, m)
  OBVIOUS
<1>4. PICK k \in 0..N : k <= i - 1 /\ g[k] = At(i, o)
  BY <1>1, <1>3 DEF Reached
<1>5. k + 1 \in 1..N /\ (k + 1) - 1 = k /\ k + 1 <= j - 1 /\ k + 1 \in 0..N
  BY <1>1, <1>2, <1>4
<1>6. ~Ended(g[k], to)
  BY <1>1, <1>4 DEF Ended, At
<1>7. \A q \in 1..N : ~Ended(g[q - 1], to) => g[q] = readNext(T, data, g[q - 1])
  <2>1. LastRound(data) \in Nat
    BY <1>1, <1>2
  <2>2. Goes(g, T, data, to, LastRound(data))
    BY <1>1, <1>3, <2>1, ReadingRec
  <2> QED BY <1>1, <2>2 DEF Goes
<1>8. g[k + 1] = At(j, p)
  BY <1>4, <1>5, <1>6, <1>7
<1> QED BY <1>1, <1>3, <1>5, <1>8 DEF Reached

(* A round that fails ends Unmarshal.                                      *)
LEMMA ReachedFail ==
  ASSUME NEW T, NEW data \in Seq(Byte), NEW m, NEW i \in Nat \ {0}, NEW o,
         Reached(T, data, m, i, o), i <= Len(data), readNext(T, data, At(i, o)) = Failed
  PROVE  Unmarshal(T, data, m) = Failed
<1>1. PICK N, to : N = LastRound(data) /\ to = Len(data)
  OBVIOUS
<1>2. to \in Nat /\ N = to + 1 /\ N \in Nat
  BY <1>1, Elem, RoundsFacts
<1>3. PICK g : g = reading(T, data, m)
  OBVIOUS
<1>4. PICK k \in 0..N : k <= i - 1 /\ g[k] = At(i, o)
  BY <1>1, <1>3 DEF Reached
<1>5. k + 1 \in 1..N /\ (k + 1) - 1 = k /\ k + 1 \in 0..N
  BY <1>1, <1>2, <1>4
<1>6. ~Ended(g[k], to)
  BY <1>1, <1>4 DEF Ended, At
<1>7. \A q \in 1..N : ~Ended(g[q - 1], to) => g[q] = readNext(T, data, g[q - 1])
  <2>1. LastRound(data) \in Nat
    BY <1>1, <1>2
  <2>2. Goes(g, T, data, to, LastRound(data))
    BY <1>1, <1>3, <2>1, ReadingRec
  <2> QED BY <1>1, <2>2 DEF Goes
<1>8. g[k + 1] = Failed
  BY <1>4, <1>5, <1>6, <1>7
<1>9. ~g[k + 1].ok /\ Ended(g[k + 1], Len(data))
  BY <1>8 DEF Failed, Ended
<1> QED BY <1>1, <1>2, <1>3, <1>5, <1>9, ReadingEnd

(* A loop that is past the data ends Unmarshal, with its message.          *)
LEMMA ReachedEnd ==
  ASSUME NEW T, NEW data \in Seq(Byte), NEW m, NEW i \in Nat, i = Len(data) + 1, NEW o,
         Reached(T, data, m, i, o)
  PROVE  Unmarshal(T, data, m) = [ok |-> TRUE, msg |-> o]
<1>1. PICK N, to : N = LastRound(data) /\ to = Len(data)
  OBVIOUS
<1>2. to \in Nat /\ N = to + 1 /\ N \in Nat
  BY <1>1, Elem, RoundsFacts
<1>3. PICK g : g = reading(T, data, m)
  OBVIOUS
<1>4. PICK k \in 0..N : k <= i - 1 /\ g[k] = At(i, o)
  BY <1>1, <1>3 DEF Reached
<1>5. g[k].ok /\ g[k].next = i /\ g[k].msg = o
  BY <1>4 DEF At
<1>6. Ended(g[k], Len(data))
  BY <1>1, <1>2, <1>5 DEF Ended
<1> QED BY <1>1, <1>2, <1>3, <1>5, <1>6, ReadingEnd

(* Setting a field, and setting it again.                                  *)
LEMMA PutFacts ==
  ASSUME NEW o, NEW D, o = [g \in D |-> o[g]], NEW f \in D
  PROVE  /\ Put(o, f, o[f]) = o
         /\ \A a : Put(o, f, a)[f] = a /\ \A b : Put(Put(o, f, a), f, b) = Put(o, f, b)
BY DEF Put

(* One more occurrence of a field.                                         *)
LEMMA NextPiece ==
  ASSUME NEW K, NEW T, NEW n, NEW tag, NEW f, NEW kind, IsRow(K, T, n, tag, f, kind),
         NEW e, IsElement(kind, e),
         NEW o, IsValue(kind, o[f]), NEW data \in Seq(Byte), NEW m,
         NEW i \in Nat \ {0}, Reached(T, data, m, i, o),
         NEW piece, piece = Piece(tag, kind, e), Agrees(data, i, piece),
         NEW c \in Nat, c = Len(piece), c < MaxLength, i + c - 1 <= Len(data)
  PROVE  Reached(T, data, m, i + c, Put(o, f, After(kind, o[f], e)))
<1>1. /\ InnerLaws(K) /\ WellFormed(T, K) /\ n \in 1..Len(Encoder[T])
      /\ tag = Encoder[T][n][1] /\ f = Encoder[T][n][2] /\ kind = Encoder[T][n][3]
  BY DEF IsRow
<1> USE <1>1
<1>2. tag \in Tags /\ IsKind(kind, K)
  BY RowFacts
<1>3. piece \in Seq(Byte) /\ c >= 2
  BY <1>2, PieceFacts
<1>4. Holds(data, i, piece)
  BY <1>3, AgreesHolds
<1>5. readNext(T, data, At(i, o)) = At(i + Len(piece), Put(o, f, After(kind, o[f], e)))
  <2>1. PICK old : old = o[f]
    OBVIOUS
  <2>2. Len(piece) < MaxLength /\ IsValue(kind, old)
    BY <2>1
  <2>3. readNext(T, data, At(i, o)) = At(i + Len(piece), Put(o, f, After(kind, old, e)))
    BY <1>4, <2>1, <2>2, PieceRead
  <2> QED BY <2>1, <2>3
<1>6. PICK j, p : j = i + c /\ p = Put(o, f, After(kind, o[f], e))
  OBVIOUS
<1>7. readNext(T, data, At(i, o)) = At(j, p)
  BY <1>5, <1>6
<1>8. Len(data) \in Nat
  BY Elem
<1>9. j \in Nat /\ j > i /\ i <= Len(data)
  BY <1>3, <1>6, <1>8
<1>10. Reached(T, data, m, j, p)
  BY <1>7, <1>9, ReachedNext
<1> QED BY <1>6, <1>10

(* Occurrences of one field, as many as the data go.                       *)
LEMMA PiecesRead ==
  ASSUME NEW K, NEW T, NEW n, NEW tag, NEW f, NEW kind, IsRow(K, T, n, tag, f, kind),
         NEW v, IsValue(kind, v),
         NEW o, o = [g \in Fields(T) |-> o[g]], NEW a, a = o[f], IsValue(kind, a),
         NEW data \in Seq(Byte), NEW i \in Nat \ {0}, NEW m, Reached(T, data, m, i, o),
         NEW parts, parts = Pieces(tag, kind, v), Agrees(data, i, Joined(parts)),
         Len(Joined(parts)) < MaxLength,
         NEW l, l = Len(Elements(kind, v))
  PROVE  \A j \in 0..l : i + Len(Prefixes(parts)[j]) - 1 <= Len(data) =>
           Reached(T, data, m, i + Len(Prefixes(parts)[j]), Put(o, f, Filled(kind, a, v, j)))
<1>1. /\ InnerLaws(K) /\ WellFormed(T, K) /\ n \in 1..Len(Encoder[T])
      /\ tag = Encoder[T][n][1] /\ f = Encoder[T][n][2] /\ kind = Encoder[T][n][3]
  BY DEF IsRow
<1> DEFINE P(k) ==
             Reached(T, data, m, i + Len(Prefixes(parts)[k]), Put(o, f, Filled(kind, a, v, k)))
           S == {k \in Nat : k <= l /\ i + Len(Prefixes(parts)[k]) - 1 <= Len(data) => P(k)}
<1>2. tag \in Tags /\ IsKind(kind, K) /\ f \in Fields(T)
  <2>1. PICK rows : rows = Len(Encoder[T])
    OBVIOUS
  <2>2. n \in 1..rows
    BY <1>1, <2>1
  <2> QED BY ONLY <1>1, <2>1, <2>2, RowFacts
<1>3. PICK es : es = Elements(kind, v)
  OBVIOUS
<1>4. /\ l \in Nat /\ Filled(kind, a, v, 0) = a
      /\ \A k \in 1..l : /\ IsValue(kind, Filled(kind, a, v, k))
                         /\ After(kind, Filled(kind, a, v, k - 1), es[k]) = Filled(kind, a, v, k)
  <2>1. InnerLaws(K) /\ IsKind(kind, K) /\ IsValue(kind, a) /\ IsValue(kind, v)
    BY <1>1, <1>2
  <2>2. l = Len(es)
    BY <1>3
  <2> QED BY ONLY <1>3, <2>1, <2>2, FillFacts
<1>5. /\ IsParts(parts, l)
      /\ \A k \in 1..l : parts[k] = Piece(tag, kind, es[k]) /\ IsElement(kind, es[k])
  BY <1>1, <1>2, <1>3, PiecesFacts
<1>6. Len(data) \in Nat
  BY Elem
<1>7. 0 \in S
  <2>1. Prefixes(parts)[0] = <<>> /\ Len(<<>>) = 0
    BY PrefixesRec, EmptySeq
  <2>2. Len(Prefixes(parts)[0]) = 0 /\ i + 0 = i
    BY <2>1
  <2>3. Put(o, f, Filled(kind, a, v, 0)) = o
    BY <1>2, <1>4, PutFacts
  <2> QED BY <2>2, <2>3
<1>8. ASSUME NEW k \in Nat, k \in S PROVE k + 1 \in S
  <2>1. ASSUME k + 1 <= l, i + Len(Prefixes(parts)[k + 1]) - 1 <= Len(data) PROVE P(k + 1)
    <3>1. PICK q : q = k + 1
      OBVIOUS
    <3>2. q \in 1..l /\ q - 1 = k /\ k <= l /\ k \in 0..l /\ q \in 0..l
      BY <1>4, <2>1, <3>1
    <3>3. PICK x, c, y, d, all :
            /\ x = Len(Prefixes(parts)[k]) /\ c = Len(parts[q]) /\ y = Len(Prefixes(parts)[q])
            /\ d = Len(data) /\ all = Len(Joined(parts))
      OBVIOUS
    <3>4. y = x + c
      BY <1>5, <3>2, <3>3, PartFollows
    <3>5. PICK e, p : e = es[q] /\ p = parts[q]
      OBVIOUS
    <3>6. p = Piece(tag, kind, e) /\ IsElement(kind, e)
      BY <1>5, <3>2, <3>5
    <3>7. p \in Seq(Byte) /\ c = Len(p) /\ c \in Nat /\ c >= 2
      BY <1>1, <1>2, <3>3, <3>5, <3>6, PieceFacts
    <3>8. x \in Nat /\ y \in Nat /\ all \in Nat /\ y <= all
      BY <1>5, <3>2, <3>3, PrefixGrows
    <3>9. i + y - 1 <= d /\ d \in Nat
      BY <1>6, <2>1, <3>1, <3>3
    <3>10. all < MaxLength
      BY <3>3
    <3>11. c < MaxLength
      BY <3>4, <3>7, <3>8, <3>10, SMT DEF MaxLength
    <3>12. PICK b, s, w : b = Filled(kind, a, v, k) /\ s = i + x /\ w = Put(o, f, b)
      OBVIOUS
    <3>13. s \in Nat \ {0} /\ s - 1 <= d /\ s + c - 1 <= d /\ s + c = i + y
      <4>1. s = i + x /\ x \in Nat /\ c \in Nat /\ c >= 2 /\ d \in Nat
        BY <3>7, <3>8, <3>9, <3>12
      <4>2. i + (x + c) - 1 <= d
        BY <3>4, <3>9
      <4>3. s \in Nat \ {0}
        BY <4>1
      <4>4. s - 1 <= d
        BY <4>1, <4>2
      <4>5. s + c - 1 <= d
        BY <4>1, <4>2
      <4>6. s + c = i + y
        BY <4>1, <3>4
      <4> QED BY <4>3, <4>4, <4>5, <4>6
    <3>14. P(k)
      BY <1>8, <3>2, <3>3, <3>12, <3>13
    <3>15. Reached(T, data, m, s, w)
      BY <3>3, <3>12, <3>14
    <3>16. Agrees(data, s, p)
      BY <1>5, <3>2, <3>3, <3>5, <3>12, AgreesPart
    <3>17. s + c - 1 <= Len(data)
      BY <3>3, <3>13
    <3>18. IsValue(kind, b)
      <4>1. CASE k = 0
        BY <1>4, <3>12, <4>1
      <4>2. CASE k # 0
        <5>1. k \in 1..l
          BY <3>2, <4>2
        <5> QED BY <1>4, <3>12, <5>1
      <4> QED BY <4>1, <4>2
    <3>19. w[f] = b /\ \A z : Put(w, f, z) = Put(o, f, z)
      BY <1>2, <3>12, PutFacts
    <3>20. IsValue(kind, w[f])
      BY <3>18, <3>19
    <3>21. Reached(T, data, m, s + c, Put(w, f, After(kind, w[f], e)))
      BY <3>6, <3>7, <3>11, <3>13, <3>15, <3>16, <3>17, <3>20, NextPiece
    <3>22. After(kind, w[f], e) = Filled(kind, a, v, q)
      BY <1>4, <3>2, <3>5, <3>12, <3>19
    <3>23. Reached(T, data, m, i + y, Put(o, f, Filled(kind, a, v, q)))
      BY <3>13, <3>19, <3>21, <3>22
    <3> QED BY <3>1, <3>3, <3>23
  <2> QED BY <2>1
<1> HIDE DEF S
<1>9. \A k \in Nat : k \in S
  BY <1>7, <1>8, Induction
<1>10. \A j \in 0..l : j \in Nat /\ j <= l
  BY <1>4
<1> QED BY <1>9, <1>10 DEF S

(* All occurrences of one field.                                           *)
LEMMA FieldRead ==
  ASSUME NEW K, NEW T, NEW n, NEW tag, NEW f, NEW kind, IsRow(K, T, n, tag, f, kind),
         NEW v, IsValue(kind, v),
         NEW o, o = [g \in Fields(T) |-> o[g]], NEW a, a = o[f], IsValue(kind, a),
         NEW data \in Seq(Byte), NEW i \in Nat \ {0}, NEW m, Reached(T, data, m, i, o),
         NEW bytes, bytes = Joined(Pieces(tag, kind, v)), Agrees(data, i, bytes),
         NEW c \in Nat, c = Len(bytes), c < MaxLength, i + c - 1 <= Len(data)
  PROVE  Reached(T, data, m, i + c, Put(o, f, MergedField(kind, a, v)))
<1>1. tag \in Tags /\ IsKind(kind, K) /\ InnerLaws(K)
  BY RowFacts, SMTT(30) DEF IsRow
<1>2. PICK parts, l : parts = Pieces(tag, kind, v) /\ l = Len(Elements(kind, v))
  OBVIOUS
<1>3. l \in Nat /\ Filled(kind, a, v, l) = MergedField(kind, a, v)
  BY <1>1, <1>2, FillFacts
<1>4. IsParts(parts, l)
  BY <1>1, <1>2, PiecesFacts
<1>5. l \in 0..l /\ bytes = Joined(parts)
  BY <1>2, <1>3
<1>6. Prefixes(parts)[l] = bytes
  BY <1>4, <1>5, PrefixGrows
<1>7. Agrees(data, i, Joined(parts)) /\ Len(Joined(parts)) < MaxLength
  BY <1>5
<1>8. \A j \in 0..l : i + Len(Prefixes(parts)[j]) - 1 <= Len(data) =>
        Reached(T, data, m, i + Len(Prefixes(parts)[j]), Put(o, f, Filled(kind, a, v, j)))
  BY <1>2, <1>7, PiecesRead
<1>9. Len(Prefixes(parts)[l]) = c
  BY <1>6
<1>10. Reached(T, data, m, i + Len(Prefixes(parts)[l]), Put(o, f, Filled(kind, a, v, l)))
  BY <1>5, <1>8, <1>9
<1> QED BY <1>3, <1>9, <1>10

(* A message whose first fields are merged with those of another.          *)
Overlaid(T, o, m, n) ==
  [f \in Fields(T) |-> IF f \in {Encoder[T][p][2] : p \in 1..n}
                       THEN MergedField(KindOf(T, f), o[f], m[f]) ELSE o[f]]

(* Row by row.                                                             *)
Overlays(T, o, m, l) ==
  \A n \in 1..l : \A f, kind : f = Encoder[T][n][2] /\ kind = Encoder[T][n][3] =>
    /\ Overlaid(T, o, m, n - 1)[f] = o[f]
    /\ Put(Overlaid(T, o, m, n - 1), f, MergedField(kind, o[f], m[f])) = Overlaid(T, o, m, n)

(* All fields overlaid are the merged message.                             *)
LEMMA OverlaidFacts ==
  ASSUME NEW K, NEW T, WellFormed(T, K), NEW o, o = [f \in Fields(T) |-> o[f]], NEW m,
         NEW l, l = Len(Encoder[T])
  PROVE  /\ Overlaid(T, o, m, 0) = o /\ Overlaid(T, o, m, l) = Merge(T, o, m)
         /\ Overlays(T, o, m, l)
<1>1. l \in Nat
  BY TableFacts
<1>2. Overlaid(T, o, m, 0) = o
  <2>1. \A f : f \notin {Encoder[T][p][2] : p \in 1..0}
    OBVIOUS
  <2> QED BY <2>1 DEF Overlaid
<1>3. Overlaid(T, o, m, l) = Merge(T, o, m)
  <2>1. \A f \in Fields(T) : f \in {Encoder[T][p][2] : p \in 1..l}
    BY FieldRow
  <2> QED BY <2>1 DEF Overlaid, Merge
<1>4. ASSUME NEW n \in 1..l, NEW f, NEW kind, f = Encoder[T][n][2], kind = Encoder[T][n][3]
      PROVE  /\ Overlaid(T, o, m, n - 1)[f] = o[f]
             /\ Put(Overlaid(T, o, m, n - 1), f, MergedField(kind, o[f], m[f]))
                  = Overlaid(T, o, m, n)
  <2>1. f \in Fields(T) /\ KindOf(T, f) = kind
    BY <1>4, RowFacts
  <2>2. PICK A, B : A = {Encoder[T][p][2] : p \in 1..(n - 1)} /\ B = {Encoder[T][p][2] : p \in 1..n}
    OBVIOUS
  <2>3. \A p \in 1..n : p = n \/ p \in 1..(n - 1)
    OBVIOUS
  <2>4. n \in 1..n /\ \A p \in 1..(n - 1) : p \in 1..n /\ p \in 1..l /\ p # n
    BY <1>1
  <2>5. \A p \in 1..l : n # p => Encoder[T][p][2] # f
    BY <1>4 DEF WellFormed
  <2>6. f \notin A
    BY <2>2, <2>4, <2>5
  <2>7. \A g : g \in B <=> g \in A \/ g = f
    BY <1>4, <2>2, <2>3, <2>4
  <2>8. PICK F : F = Fields(T)
    OBVIOUS
  <2>9. /\ Overlaid(T, o, m, n - 1)
             = [g \in F |-> IF g \in A THEN MergedField(KindOf(T, g), o[g], m[g]) ELSE o[g]]
        /\ Overlaid(T, o, m, n)
             = [g \in F |-> IF g \in B THEN MergedField(KindOf(T, g), o[g], m[g]) ELSE o[g]]
    BY <2>2, <2>8 DEF Overlaid
  <2> QED BY <2>1, <2>6, <2>7, <2>8, <2>9 DEF Put
<1>5. Overlays(T, o, m, l)
  BY <1>4 DEF Overlays
<1> QED BY <1>2, <1>3, <1>5

(* The fields of a message, as many as the data go.                        *)
LEMMA RowsRead ==
  ASSUME NEW K, InnerLaws(K), NEW T, WellFormed(T, K), NEW m, Is(T, m), NEW o, Is(T, o),
         NEW data \in Seq(Byte), NEW i \in Nat \ {0}, NEW first, Reached(T, data, first, i, o),
         NEW parts, parts = EncodedFields(T, m), Agrees(data, i, Joined(parts)),
         Len(Joined(parts)) < MaxLength, NEW l, l = Len(Encoder[T])
  PROVE  \A n \in 0..l : i + Len(Prefixes(parts)[n]) - 1 <= Len(data) =>
           Reached(T, data, first, i + Len(Prefixes(parts)[n]), Overlaid(T, o, m, n))
<1> DEFINE P(n) == Reached(T, data, first, i + Len(Prefixes(parts)[n]), Overlaid(T, o, m, n))
           S == {n \in Nat : n <= l /\ i + Len(Prefixes(parts)[n]) - 1 <= Len(data) => P(n)}
<1>1. o = [f \in Fields(T) |-> o[f]]
  BY DEF Is
<1>2. l \in Nat
  BY TableFacts
<1>3. Overlaid(T, o, m, 0) = o /\ Overlays(T, o, m, l)
  BY <1>1, OverlaidFacts
<1>4. /\ IsParts(parts, l)
      /\ \A n \in 1..l : parts[n]
           = Joined(Pieces(Encoder[T][n][1], Encoder[T][n][3], m[Encoder[T][n][2]]))
  BY EncodedFacts
<1>5. Len(data) \in Nat
  BY Elem
<1>6. 0 \in S
  <2>1. Prefixes(parts)[0] = <<>> /\ Len(<<>>) = 0
    BY PrefixesRec, EmptySeq
  <2>2. Len(Prefixes(parts)[0]) = 0 /\ i + 0 = i
    BY <2>1
  <2> QED BY <1>3, <2>2
<1>7. ASSUME NEW k \in Nat, k \in S PROVE k + 1 \in S
  <2>1. ASSUME k + 1 <= l, i + Len(Prefixes(parts)[k + 1]) - 1 <= Len(data) PROVE P(k + 1)
    <3>1. PICK q : q = k + 1
      OBVIOUS
    <3>2. q \in 1..l /\ q - 1 = k /\ k <= l /\ k \in 0..l /\ q \in 0..l
      BY <1>2, <2>1, <3>1
    <3>3. PICK x, c, y, d, all :
            /\ x = Len(Prefixes(parts)[k]) /\ c = Len(parts[q]) /\ y = Len(Prefixes(parts)[q])
            /\ d = Len(data) /\ all = Len(Joined(parts))
      OBVIOUS
    <3>4. y = x + c /\ parts[q] \in Seq(Byte)
      BY <1>4, <3>2, <3>3, PartFollows
    <3>5. PICK tag, f, kind, p : /\ tag = Encoder[T][q][1] /\ f = Encoder[T][q][2]
                                 /\ kind = Encoder[T][q][3] /\ p = parts[q]
      OBVIOUS
    <3>6. IsRow(K, T, q, tag, f, kind)
      BY <3>2, <3>5 DEF IsRow
    <3>7. PICK v, a : v = m[f] /\ a = o[f]
      OBVIOUS
    <3>8. f \in Fields(T) /\ KindOf(T, f) = kind
      BY <3>2, <3>5, RowFacts
    <3>9. IsValue(kind, v) /\ IsValue(kind, a)
      BY <3>7, <3>8 DEF Is
    <3>10. p = Joined(Pieces(tag, kind, v))
      BY <1>4, <3>2, <3>5, <3>7
    <3>11. x \in Nat /\ y \in Nat /\ all \in Nat /\ y <= all /\ c \in Nat
      <4>1. x \in Nat /\ y \in Nat /\ all \in Nat /\ y <= all
        BY <1>4, <3>2, <3>3, PrefixGrows
      <4> QED BY <3>3, <3>4, <4>1, Elem
    <3>12. i + y - 1 <= d /\ d \in Nat
      BY <1>5, <2>1, <3>1, <3>3
    <3>13. all < MaxLength
      BY <3>3
    <3>14. c < MaxLength
      BY <3>4, <3>11, <3>13, SMT DEF MaxLength
    <3>15. PICK s, w : s = i + x /\ w = Overlaid(T, o, m, k)
      OBVIOUS
    <3>16. s \in Nat \ {0} /\ s - 1 <= d /\ s + c - 1 <= d /\ s + c = i + y
      <4>1. s = i + x /\ x \in Nat /\ c \in Nat /\ d \in Nat
        BY <3>11, <3>12, <3>15
      <4>2. i + (x + c) - 1 <= d
        BY <3>4, <3>12
      <4>3. s \in Nat \ {0}
        BY <4>1
      <4>4. s - 1 <= d
        BY <4>1, <4>2
      <4>5. s + c - 1 <= d
        BY <4>1, <4>2
      <4>6. s + c = i + y
        BY <4>1, <3>4
      <4> QED BY <4>3, <4>4, <4>5, <4>6
    <3>17. P(k)
      BY <1>7, <3>2, <3>3, <3>15, <3>16
    <3>18. Reached(T, data, first, s, w)
      BY <3>3, <3>15, <3>17
    <3>19. Agrees(data, s, p)
      BY <1>4, <3>2, <3>3, <3>5, <3>15, AgreesPart
    <3>20. s + c - 1 <= Len(data) /\ c = Len(p)
      BY <3>3, <3>5, <3>16
    <3>21. w = [g \in Fields(T) |-> w[g]]
      BY <3>15 DEF Overlaid
    <3>22. a = w[f] /\ Put(w, f, MergedField(kind, a, v)) = Overlaid(T, o, m, q)
      BY <1>3, <3>2, <3>5, <3>7, <3>15 DEF Overlays
    <3>23. Reached(T, data, first, s + c, Put(w, f, MergedField(kind, a, v)))
      BY <3>6, <3>9, <3>10, <3>11, <3>14, <3>16, <3>18, <3>19, <3>20, <3>21, <3>22, FieldRead
    <3>24. Reached(T, data, first, i + y, Overlaid(T, o, m, q))
      BY <3>16, <3>22, <3>23
    <3> QED BY <3>1, <3>3, <3>24
  <2> QED BY <2>1
<1> HIDE DEF S
<1>8. \A k \in Nat : k \in S
  BY <1>6, <1>7, Induction
<1>9. \A n \in 0..l : n \in Nat /\ n <= l
  BY <1>2
<1> QED BY <1>8, <1>9 DEF S

(* A whole message, read into another one of its type.                     *)
LEMMA MessageRead ==
  ASSUME NEW K, InnerLaws(K), NEW T, WellFormed(T, K), NEW m, Is(T, m), NEW o, Is(T, o),
         NEW data \in Seq(Byte), NEW i \in Nat \ {0}, NEW first, Reached(T, data, first, i, o),
         NEW bytes, bytes = Encoded(T, m), Agrees(data, i, bytes),
         NEW c \in Nat, c = Len(bytes), c < MaxLength, i + c - 1 <= Len(data)
  PROVE  Reached(T, data, first, i + c, Merge(T, o, m))
<1>1. PICK parts, l : parts = EncodedFields(T, m) /\ l = Len(Encoder[T])
  OBVIOUS
<1>2. bytes = Joined(parts)
  BY <1>1 DEF Encoded
<1>3. IsParts(parts, l) /\ bytes = Prefixes(parts)[l]
  BY <1>1, EncodedFacts
<1>4. l \in Nat /\ l \in 0..l
  BY <1>1, TableFacts
<1>5. Agrees(data, i, Joined(parts)) /\ Len(Joined(parts)) < MaxLength
  BY <1>2
<1>6. \A n \in 0..l : i + Len(Prefixes(parts)[n]) - 1 <= Len(data) =>
        Reached(T, data, first, i + Len(Prefixes(parts)[n]), Overlaid(T, o, m, n))
  BY <1>1, <1>5, RowsRead
<1>7. Len(Prefixes(parts)[l]) = c
  BY <1>3
<1>8. Reached(T, data, first, i + Len(Prefixes(parts)[l]), Overlaid(T, o, m, l))
  BY <1>4, <1>6, <1>7
<1>9. Overlaid(T, o, m, l) = Merge(T, o, m)
  BY <1>1, OverlaidFacts DEF Is
<1> QED BY <1>7, <1>8, <1>9

(* What Unmarshal makes of the bytes of a message.                         *)
LEMMA ReadLaw ==
  ASSUME NEW K, InnerLaws(K), NEW T, WellFormed(T, K), NEW m, Is(T, m), NEW o, Is(T, o),
         NEW data, data = Encoded(T, m), Len(data) < MaxLength
  PROVE  Unmarshal(T, data, o) = [ok |-> TRUE, msg |-> Merge(T, o, m)]
<1>1. data \in Seq(Byte)
  BY EncodedFacts
<1>2. PICK c : c = Len(data)
  OBVIOUS
<1>3. c \in Nat /\ c < MaxLength /\ 1 + c - 1 <= Len(data) /\ 1 \in Nat \ {0}
  BY <1>1, <1>2, Elem
<1>4. Agrees(data, 1, data)
  <2>1. \A k \in 1..c : 1 + k - 1 = k
    BY <1>3
  <2> QED BY <1>2, <2>1 DEF Agrees
<1>5. Reached(T, data, o, 1, o)
  BY <1>1, ReachedStart
<1>6. PICK i : i = 1 + c
  OBVIOUS
<1>7. Reached(T, data, o, i, Merge(T, o, m))
  BY <1>1, <1>2, <1>3, <1>4, <1>5, <1>6, MessageRead
<1>8. i \in Nat /\ i = Len(data) + 1
  BY <1>2, <1>3, <1>6
<1> QED BY <1>1, <1>7, <1>8, ReachedEnd

-----------------------------------------------------------------------------
(* Any bytes: what is accepted is a message.                               *)

(* A length that is read is a number, or refused as a negative one.        *)
LEMMA LengthFacts ==
  ASSUME NEW g, IsUint64(g)
  PROVE  Length(g) \in Int
<1>1. g \in Seq(Nat) /\ Len(g) \in Nat /\ Len(g) <= 10
  BY SeptetFacts DEF IsUint64
<1>2. ASSUME NEW i \in 1..4 PROVE Group(g, i) \in Nat
  <2>1. CASE i <= Len(g)
    <3>1. i \in 1..Len(g)
      BY <1>1, <2>1
    <3> QED BY <1>1, <2>1, <3>1, Elem DEF Group
  <2>2. CASE ~(i <= Len(g))
    BY <2>2 DEF Group
  <2> QED BY <2>1, <2>2
<1>3. PICK a, b, c, d : a = Group(g, 1) /\ b = Group(g, 2) /\ c = Group(g, 3) /\ d = Group(g, 4)
  OBVIOUS
<1>4. a \in Nat /\ b \in Nat /\ c \in Nat /\ d \in Nat
  BY <1>2, <1>3
<1>5. CASE Len(g) = 10
  BY <1>5 DEF Length
<1>6. CASE Len(g) \in 5..9
  BY <1>6, SMT DEF Length, MaxLength
<1>7. CASE Len(g) # 10 /\ Len(g) \notin 5..9
  <2>1. Length(g) = a + 128 * b + 16384 * c + 2097152 * d
    BY <1>3, <1>7 DEF Length
  <2> QED BY <1>4, <2>1
<1> QED BY <1>5, <1>6, <1>7

(* The bounds of a length-delimited field are inside of the data.          *)
LEMMA DelimitedFacts ==
  ASSUME NEW data \in Seq(Byte), NEW i \in Nat \ {0}, readDelimited(data, i).ok
  PROVE  \E from \in Nat \ {0}, to \in Int, l \in Nat :
           /\ readDelimited(data, i) = [ok |-> TRUE, from |-> from, to |-> to]
           /\ from > i /\ to = from + l - 1 /\ to <= Len(data)
           /\ SubSeq(data, from, to) \in Seq(Byte) /\ Len(SubSeq(data, from, to)) = l
<1>1. PICK r, d : r = readVarint(data, i) /\ d = Len(data)
  OBVIOUS
<1>2. PICK l : l = Length(r.groups)
  OBVIOUS
<1>3. readDelimited(data, i) = IF ~r.ok \/ l < 0 \/ r.next + l - 1 > d THEN Failed
                               ELSE [ok |-> TRUE, from |-> r.next, to |-> r.next + l - 1]
  BY <1>1, <1>2 DEF readDelimited, readLength, Delimited
<1>4. r.ok /\ ~(l < 0) /\ ~(r.next + l - 1 > d)
  BY <1>3 DEF Failed
<1>5. PICK from, to : from = r.next /\ to = r.next + l - 1
  OBVIOUS
<1>6. r.next \in (i + 1)..(Len(data) + 1) /\ IsUint64(r.groups)
  BY <1>1, <1>4, VarintFacts
<1>7. l \in Int /\ d \in Nat
  BY <1>1, <1>2, <1>6, LengthFacts, Elem
<1>8. from \in Nat \ {0} /\ from > i /\ l \in Nat /\ to \in Int /\ to = from + l - 1 /\ to <= d
  BY <1>1, <1>4, <1>5, <1>6, <1>7
<1>9. SubSeq(data, from, to) \in Seq(Byte) /\ Len(SubSeq(data, from, to)) = l
  <2>1. from \in 1..(d + 1) /\ to \in (from - 1)..d
    BY <1>7, <1>8
  <2>2. /\ SubSeq(data, from, to) \in Seq(Byte)
        /\ Len(SubSeq(data, from, to)) = IF from <= to THEN to - from + 1 ELSE 0
    BY <1>1, <2>1, SubSeqProperties
  <2> QED BY <1>8, <2>2
<1>10. readDelimited(data, i) = [ok |-> TRUE, from |-> from, to |-> to]
  BY <1>3, <1>4, <1>5
<1> QED BY <1>1, <1>8, <1>9, <1>10

(* The loop of a packed field: numbers, each of at least one byte.         *)
PackedUpTo(from, n, w) == IsNumbers(w) /\ n >= from /\ Len(w) <= n - from
Unpacked(n, w) == [ok |-> TRUE, next |-> n, values |-> w]

(* The empty list of numbers.                                              *)
LEMMA NumbersEmpty == IsNumbers(<<>>) /\ Len(<<>>) = 0
BY EmptySeq DEF IsNumbers

(* The list of one number.                                                 *)
LEMMA NumbersOne ==
  ASSUME NEW g, IsUint64(g)
  PROVE  IsNumbers(<<g>>) /\ Len(<<g>>) = 1
<1>1. g \in Seq(Septet)
  BY DEF IsUint64
<1>2. <<g>> \in Seq(Seq(Septet)) /\ Len(<<g>>) = 1 /\ <<g>>[1] = g
  BY <1>1
<1>3. \A i \in 1..1 : i = 1
  OBVIOUS
<1> QED BY <1>2, <1>3 DEF IsNumbers

(* One number more.                                                        *)
LEMMA NumbersAppend ==
  ASSUME NEW w, IsNumbers(w), NEW g, IsUint64(g)
  PROVE  Append(w, g) = w \o <<g>> /\ IsNumbers(Append(w, g)) /\ Len(Append(w, g)) = Len(w) + 1
<1>1. w \in Seq(Seq(Septet)) /\ g \in Seq(Septet)
  BY DEF IsNumbers, IsUint64
<1>2. Append(w, g) = w \o <<g>>
  BY <1>1, AppendIsConcat
<1>3. Len(Append(w, g)) = Len(w) + 1
  BY <1>1
<1>4. IsNumbers(w \o <<g>>)
  BY NumbersOne, NumbersConcat
<1> QED BY <1>2, <1>3, <1>4

(* One element of a packed field is read or refused.                       *)
LEMMA ElementStep ==
  ASSUME NEW data \in Seq(Byte), NEW from \in Nat \ {0}, NEW n \in Nat, NEW w,
         PackedUpTo(from, n, w)
  PROVE  \/ readElement(data, Unpacked(n, w)) = Failed
         \/ \E p \in Nat : \E x : /\ readElement(data, Unpacked(n, w)) = Unpacked(p, x)
                                  /\ p > n /\ PackedUpTo(from, p, x)
<1>1. PICK r, s : s = Unpacked(n, w) /\ r = readVarint(data, s.next)
  OBVIOUS
<1>2. s.next = n /\ s.values = w
  BY <1>1 DEF Unpacked
<1>3. readElement(data, s) = IF r.ok THEN Unpacked(r.next, Append(w, r.groups)) ELSE Failed
  BY <1>1, <1>2 DEF readElement, addElement, Unpacked
<1>4. IsNumbers(w) /\ n >= from /\ Len(w) <= n - from
  BY DEF PackedUpTo
<1>5. CASE r.ok
  <2>1. n \in Nat \ {0}
    BY <1>4
  <2>2. PICK p, g : p = r.next /\ g = r.groups
    OBVIOUS
  <2>3. r.next \in (n + 1)..(Len(data) + 1) /\ IsUint64(r.groups)
    BY <1>1, <1>2, <1>5, <2>1, VarintFacts
  <2>4. p \in Nat /\ p > n /\ IsUint64(g)
    BY <2>2, <2>3, Elem
  <2>5. PICK x : x = Append(w, g)
    OBVIOUS
  <2>6. IsNumbers(x) /\ Len(x) = Len(w) + 1
    BY <1>4, <2>4, <2>5, NumbersAppend
  <2>7. Len(w) \in Nat
    BY <1>4, Elem DEF IsNumbers
  <2>8. p >= from /\ Len(x) <= p - from
    BY <1>4, <2>4, <2>6, <2>7
  <2>9. readElement(data, s) = Unpacked(p, x)
    BY <1>3, <1>5, <2>2, <2>5
  <2> QED BY <1>1, <2>4, <2>6, <2>8, <2>9 DEF PackedUpTo
<1> QED BY <1>1, <1>3, <1>5

(* The loop over a packed field reads at most one number per byte.         *)
LEMMA PackedLoop ==
  ASSUME NEW data \in Seq(Byte), NEW from \in Nat \ {0}, NEW to \in Int, to <= Len(data)
  PROVE  \/ readPacked(data, from, to) = Failed
         \/ \E n \in Nat : \E w : /\ readPacked(data, from, to) = Unpacked(n, w)
                                  /\ PackedUpTo(from, n, w)
<1>1. PICK N, g : N = LastRound(data) /\ g = readingPacked(data, from, to)
  OBVIOUS
<1>2. N \in Nat /\ N = Len(data) + 1 /\ Len(data) \in Nat
  BY <1>1, RoundsFacts, Elem
<1>3. g[0] = Unpacked(from, <<>>) /\ Ends(g, to, N) /\ Unpacks(g, data, to, N)
  <2>1. LastRound(data) \in Nat
    BY <1>1, <1>2
  <2>2. /\ g[0] = [ok |-> TRUE, next |-> from, values |-> <<>>]
        /\ Ends(g, to, LastRound(data)) /\ Unpacks(g, data, to, LastRound(data))
    BY <1>1, <2>1, ReadingPackedRec
  <2> QED BY <1>1, <2>2 DEF Unpacked
<1>4. Ends(g, to, N)
  BY <1>3
<1>5. \A k \in 1..N : ~Ended(g[k - 1], to) => g[k] = readElement(data, g[k - 1])
  BY <1>3 DEF Unpacks
<1> DEFINE P(k) == \/ g[k] = Failed
                   \/ \E n \in Nat : \E w : /\ g[k] = Unpacked(n, w) /\ PackedUpTo(from, n, w)
                                            /\ (n > to \/ n >= from + k)
           S == {k \in Nat : k <= N => P(k)}
<1>6. 0 \in S
  <2>1. PackedUpTo(from, from, <<>>)
    BY NumbersEmpty DEF PackedUpTo
  <2> QED BY <1>3, <2>1
<1>7. ASSUME NEW k \in Nat, k \in S PROVE k + 1 \in S
  <2>1. ASSUME k + 1 <= N PROVE P(k + 1)
    <3>1. k + 1 \in 1..N /\ (k + 1) - 1 = k /\ P(k)
      BY <1>2, <1>7, <2>1
    <3>2. CASE Ended(g[k], to)
      <4>1. g[k + 1] = g[k]
        BY <1>4, <3>1, <3>2 DEF Ends
      <4>2. CASE g[k] = Failed
        BY <4>1, <4>2
      <4>3. CASE g[k] # Failed
        <5>1. PICK n \in Nat : \E w : g[k] = Unpacked(n, w) /\ PackedUpTo(from, n, w)
          BY <3>1, <4>3
        <5>2. PICK w : g[k] = Unpacked(n, w) /\ PackedUpTo(from, n, w)
          BY <5>1
        <5>3. n > to
          BY <3>2, <5>2 DEF Ended, Unpacked
        <5> QED BY <4>1, <5>2, <5>3
      <4> QED BY <4>2, <4>3
    <3>3. CASE ~Ended(g[k], to)
      <4>1. g[k + 1] = readElement(data, g[k])
        BY <1>5, <3>1, <3>3
      <4>2. g[k] # Failed
        BY <3>3 DEF Ended, Failed
      <4>3. PICK n \in Nat :
             \E w : g[k] = Unpacked(n, w) /\ PackedUpTo(from, n, w) /\ (n > to \/ n >= from + k)
        BY <3>1, <4>2
      <4>4. PICK w : g[k] = Unpacked(n, w) /\ PackedUpTo(from, n, w) /\ (n > to \/ n >= from + k)
        BY <4>3
      <4>5. n <= to
        BY <3>3, <4>4 DEF Ended, Unpacked
      <4>6. n >= from + k
        BY <4>4, <4>5
      <4>7. \/ g[k + 1] = Failed
            \/ \E p \in Nat : \E x : g[k + 1] = Unpacked(p, x) /\ p > n /\ PackedUpTo(from, p, x)
        BY <4>1, <4>4, ElementStep
      <4>8. \A p \in Nat : p > n => p >= from + (k + 1)
        BY <4>6
      <4> QED BY <4>7, <4>8
    <3> QED BY <3>2, <3>3
  <2> QED BY <2>1
<1> HIDE DEF S
<1>8. \A k \in Nat : k \in S
  BY <1>6, <1>7, Induction
<1>9. P(N)
  BY <1>2, <1>8 DEF S
<1>10. Ended(g[N], to)
  <2>1. CASE g[N] = Failed
    BY <2>1 DEF Ended, Failed
  <2>2. CASE g[N] # Failed
    <3>1. PICK n \in Nat : \E w : g[N] = Unpacked(n, w) /\ (n > to \/ n >= from + N)
      BY <1>9, <2>2
    <3>2. PICK w : g[N] = Unpacked(n, w) /\ (n > to \/ n >= from + N)
      BY <3>1
    <3>3. n > to
      BY <1>2, <3>2
    <3> QED BY <3>2, <3>3 DEF Ended, Unpacked
  <2> QED BY <2>1, <2>2
<1>11. N \in 0..LastRound(data)
  BY <1>1, <1>2
<1>12. readPacked(data, from, to) = g[N]
  <2>1. Len(data) \in Nat /\ g = readingPacked(data, from, to)
    BY <1>1, <1>2
  <2> HIDE DEF P
  <2> QED BY <1>10, <1>11, <2>1, PackedEnd
<1> QED BY <1>9, <1>12

(* A round of skipTypes ends the loop, on an error with position 0, or     *)
(* goes on inside of the data.                                             *)
SkipsTo(n, p, d) == p \in Nat /\ d \in Nat /\ (p > n \/ (p = 0 /\ d = 0))

(* Skipping ends outside of all groups.                                    *)
LEMMA SkipDone ==
  ASSUME NEW n, NEW d, d = 0
  PROVE  SkipState(n, d).done
BY DEF SkipState

(* Skipping goes on inside of a group.                                     *)
LEMMA SkipGoesOn ==
  ASSUME NEW n, NEW d, d # 0
  PROVE  ~SkipState(n, d).done
BY DEF SkipState

(* One round of skipTypes, with its parts named.                           *)
SkipRound(data, n, d, wire, value, type, l) ==
  IF n > Len(data) THEN SkipState(0, 0)
  ELSE IF ~wire.ok THEN SkipState(0, 0)
  ELSE CASE type = 0 -> IF value.ok THEN SkipState(value.next, d) ELSE SkipState(0, 0)
         [] type = 1 -> SkipState(wire.next + 8, d)
         [] type = 2 -> IF value.ok /\ l >= 0 THEN SkipState(value.next + l, d)
                        ELSE SkipState(0, 0)
         [] type = 3 -> SkipState(wire.next, d + 1)
         [] type = 4 -> IF d = 0 THEN SkipState(0, 0) ELSE SkipState(wire.next, d - 1)
         [] type = 5 -> SkipState(wire.next + 4, d)
         [] type \in 6..7 -> SkipState(0, 0)

(* One round of skipTypes, with its values named.                          *)
LEMMA SkipOneDef ==
  ASSUME NEW data, NEW s, NEW n, NEW d, s.next = n, s.depth = d,
         NEW wire, wire = readVarint(data, n), NEW value, value = readVarint(data, wire.next),
         NEW type, type = WireType(wire.groups), NEW l, l = Length(value.groups)
  PROVE  skipOne(data, s) = SkipRound(data, n, d, wire, value, type, l)
BY DEF skipOne, skipTagged, skipTyped, skipVarint, skipDelimited, SkipState, SkipRound

(* One round of skipTypes moves forward or fails.                          *)
LEMMA SkipStep ==
  ASSUME NEW data \in Seq(Byte), NEW s, NEW n \in Nat \ {0}, NEW d \in Nat,
         s.next = n, s.depth = d
  PROVE  \E p, e : /\ skipOne(data, s) = SkipState(p, e) /\ SkipsTo(n, p, e)
                   /\ n > Len(data) => p = 0 /\ e = 0
<1>1. PICK wire : wire = readVarint(data, n)
  OBVIOUS
<1>2. PICK value, type : value = readVarint(data, wire.next) /\ type = WireType(wire.groups)
  OBVIOUS
<1>3. PICK l : l = Length(value.groups)
  OBVIOUS
<1>4. skipOne(data, s) =
        IF n > Len(data) THEN SkipState(0, 0)
        ELSE IF ~wire.ok THEN SkipState(0, 0)
        ELSE CASE type = 0 -> IF value.ok THEN SkipState(value.next, d) ELSE SkipState(0, 0)
               [] type = 1 -> SkipState(wire.next + 8, d)
               [] type = 2 -> IF value.ok /\ l >= 0 THEN SkipState(value.next + l, d)
                              ELSE SkipState(0, 0)
               [] type = 3 -> SkipState(wire.next, d + 1)
               [] type = 4 -> IF d = 0 THEN SkipState(0, 0) ELSE SkipState(wire.next, d - 1)
               [] type = 5 -> SkipState(wire.next + 4, d)
               [] type \in 6..7 -> SkipState(0, 0)
  <2>1. skipOne(data, s) = SkipRound(data, n, d, wire, value, type, l)
    BY <1>1, <1>2, <1>3, SkipOneDef
  <2> QED BY <2>1 DEF SkipRound
<1>5. SkipsTo(n, 0, 0)
  BY DEF SkipsTo
<1>6. CASE n > Len(data) \/ ~wire.ok
  BY <1>4, <1>5, <1>6
<1>7. CASE ~(n > Len(data)) /\ wire.ok
  <2>1. PICK w : w = wire.next
    OBVIOUS
  <2>2. wire.next \in (n + 1)..(Len(data) + 1) /\ IsUint64(wire.groups)
    BY <1>1, <1>7, VarintFacts
  <2>3. w \in Nat \ {0} /\ w > n /\ Len(data) \in Nat
    BY <2>1, <2>2, Elem
  <2>4. type \in 0..7
    <3>1. wire.groups \in Seq(Nat)
      BY <2>2, SeptetFacts DEF IsUint64
    <3>2. PICK x : x = Group(wire.groups, 1)
      OBVIOUS
    <3>3. x \in Nat
      BY <3>1, <3>2, Elem DEF Group
    <3>4. type = x % 8
      BY <1>2, <3>2 DEF WireType
    <3> QED BY <3>3, <3>4
  <2>5. ASSUME value.ok PROVE value.next \in Nat /\ value.next > n /\ l \in Int
    <3>1. value.next \in (w + 1)..(Len(data) + 1) /\ IsUint64(value.groups)
      BY <1>2, <2>1, <2>3, <2>5, VarintFacts
    <3>2. l \in Int
      BY <1>3, <3>1, LengthFacts
    <3> QED BY <2>3, <3>1, <3>2
  <2>6. CASE type = 0
    <3>1. CASE value.ok
      <4>1. skipOne(data, s) = SkipState(value.next, d)
        BY <1>4, <1>7, <2>6, <3>1
      <4>2. SkipsTo(n, value.next, d)
        BY <2>5, <3>1 DEF SkipsTo
      <4> QED BY <1>7, <4>1, <4>2
    <3>2. CASE ~value.ok
      BY <1>4, <1>5, <1>7, <2>6, <3>2
    <3> QED BY <3>1, <3>2
  <2>7. CASE type = 1
    <3>1. skipOne(data, s) = SkipState(w + 8, d)
      BY <1>4, <1>7, <2>1, <2>7
    <3>2. SkipsTo(n, w + 8, d)
      BY <2>3 DEF SkipsTo
    <3> QED BY <1>7, <3>1, <3>2
  <2>8. CASE type = 2
    <3>1. CASE value.ok /\ l >= 0
      <4>1. skipOne(data, s) = SkipState(value.next + l, d)
        BY <1>4, <1>7, <2>8, <3>1
      <4>2. SkipsTo(n, value.next + l, d)
        BY <2>5, <3>1 DEF SkipsTo
      <4> QED BY <1>7, <4>1, <4>2
    <3>2. CASE ~(value.ok /\ l >= 0)
      BY <1>4, <1>5, <1>7, <2>8, <3>2
    <3> QED BY <3>1, <3>2
  <2>9. CASE type = 3
    <3>1. skipOne(data, s) = SkipState(w, d + 1)
      BY <1>4, <1>7, <2>1, <2>9
    <3>2. SkipsTo(n, w, d + 1)
      BY <2>3 DEF SkipsTo
    <3> QED BY <1>7, <3>1, <3>2
  <2>10. CASE type = 4
    <3>1. CASE d = 0
      BY <1>4, <1>5, <1>7, <2>10, <3>1
    <3>2. CASE d # 0
      <4>1. skipOne(data, s) = SkipState(w, d - 1)
        BY <1>4, <1>7, <2>1, <2>10, <3>2
      <4>2. SkipsTo(n, w, d - 1)
        BY <2>3, <3>2 DEF SkipsTo
      <4> QED BY <1>7, <4>1, <4>2
    <3> QED BY <3>1, <3>2
  <2>11. CASE type = 5
    <3>1. skipOne(data, s) = SkipState(w + 4, d)
      BY <1>4, <1>7, <2>1, <2>11
    <3>2. SkipsTo(n, w + 4, d)
      BY <2>3 DEF SkipsTo
    <3> QED BY <1>7, <3>1, <3>2
  <2>12. CASE type \in 6..7
    <3>1. skipOne(data, s) = SkipState(0, 0)
      BY <1>4, <1>7, <2>12
    <3> QED BY <1>5, <1>7, <3>1
  <2> QED BY <2>4, <2>6, <2>7, <2>8, <2>9, <2>10, <2>11, <2>12
<1> QED BY <1>6, <1>7

(* skipTypes ends: it returns a later position, or 0 for an error.         *)
LEMMA SkipFacts ==
  ASSUME NEW data \in Seq(Byte), NEW i \in Nat \ {0}
  PROVE  skip(data, i) \in Nat /\ (skip(data, i) = 0 \/ skip(data, i) > i)
<1>1. PICK N, g : N = LastRound(data) /\ g = skipping(data, i)
  OBVIOUS
<1>2. N \in Nat /\ N = Len(data) + 1 /\ Len(data) \in Nat
  BY <1>1, RoundsFacts, Elem
<1>3. /\ g[0] = [next |-> i, depth |-> 0, done |-> FALSE]
      /\ \A k \in 1..N : g[k] = IF g[k - 1].done THEN g[k - 1] ELSE skipOne(data, g[k - 1])
  BY <1>1, <1>2, SkippingRec
<1> DEFINE P(k) == \E n, d : /\ g[k] = SkipState(n, d) /\ SkipsTo(i, n, d)
                             /\ d = 0 \/ (n >= i + k /\ k <= Len(data))
           S == {k \in Nat : k + 1 <= N => P(k + 1)}
<1>4. 0 \in S
  <2>1. ASSUME 0 + 1 <= N PROVE P(0 + 1)
    <3>1. 1 \in 1..N /\ 1 - 1 = 0 /\ 0 + 1 = 1
      BY <1>2, <2>1
    <3>2. g[1] = skipOne(data, g[0]) /\ g[0].next = i /\ g[0].depth = 0
      BY <1>3, <3>1
    <3>3. PICK n, d : /\ g[1] = SkipState(n, d) /\ SkipsTo(i, n, d)
                      /\ i > Len(data) => n = 0 /\ d = 0
      BY <3>2, SkipStep
    <3>4. d = 0 \/ (n >= i + 1 /\ 1 <= Len(data))
      BY <1>2, <3>3 DEF SkipsTo
    <3> QED BY <3>1, <3>3, <3>4
  <2> QED BY <2>1
<1>5. ASSUME NEW k \in Nat, k \in S PROVE k + 1 \in S
  <2>1. ASSUME (k + 1) + 1 <= N PROVE P((k + 1) + 1)
    <3>1. PICK q, p : q = k + 1 /\ p = (k + 1) + 1
      OBVIOUS
    <3>2. p \in 1..N /\ p - 1 = q /\ P(q) /\ q \in Nat /\ q >= 1 /\ p = q + 1
      BY <1>2, <1>5, <2>1, <3>1
    <3>3. PICK n, d : /\ g[q] = SkipState(n, d) /\ SkipsTo(i, n, d)
                      /\ d = 0 \/ (n >= i + q /\ q <= Len(data))
      BY <3>2
    <3>4. CASE d = 0
      <4>1. g[q].done
        <5>1. SkipState(n, d).done
          BY <3>4, SkipDone
        <5> QED BY <3>3, <5>1
      <4>2. g[p] = g[q]
        BY <1>3, <3>2, <4>1
      <4> QED BY <3>1, <3>3, <3>4, <4>2
    <3>5. CASE d # 0
      <4>1. ~g[q].done /\ g[q].next = n /\ g[q].depth = d
        <5>1. g[q] = SkipState(n, d)
          BY <3>3
        <5>2. g[q].next = n /\ g[q].depth = d
          BY <5>1 DEF SkipState
        <5>3. ~SkipState(n, d).done
          BY <3>5, SkipGoesOn
        <5>4. ~g[q].done
          BY <5>1, <5>3
        <5> QED BY <5>2, <5>4
      <4>2. g[p] = skipOne(data, g[q])
        BY <1>3, <3>2, <4>1
      <4>3. n \in Nat \ {0} /\ d \in Nat /\ n > i
        BY <3>3, <3>5 DEF SkipsTo
      <4>4. PICK s : s = g[q]
        OBVIOUS
      <4>5. s.next = n /\ s.depth = d
        BY <4>1, <4>4
      <4>6. PICK y, e : /\ g[p] = SkipState(y, e) /\ SkipsTo(n, y, e)
                        /\ n > Len(data) => y = 0 /\ e = 0
        <5>1. \E y, e : /\ skipOne(data, s) = SkipState(y, e) /\ SkipsTo(n, y, e)
                        /\ n > Len(data) => y = 0 /\ e = 0
          BY <4>3, <4>5, SkipStep
        <5> QED BY <4>2, <4>4, <5>1
      <4>7. SkipsTo(i, y, e)
        BY <4>3, <4>6 DEF SkipsTo
      <4>8. e = 0 \/ (y >= i + p /\ p <= Len(data))
        <5>1. ASSUME e # 0 PROVE y >= i + p /\ p <= Len(data)
          <6>1. y \in Nat /\ y > n /\ n <= Len(data) /\ n >= i + q
            BY <1>2, <3>3, <3>5, <4>3, <4>6, <5>1 DEF SkipsTo
          <6> QED BY <1>2, <3>2, <4>3, <6>1
        <5> QED BY <5>1
      <4> QED BY <3>1, <4>6, <4>7, <4>8
    <3> QED BY <3>4, <3>5
  <2> QED BY <2>1
<1> HIDE DEF S
<1>6. \A k \in Nat : k \in S
  BY <1>4, <1>5, Induction
<1>7. P(N)
  <2>1. Len(data) \in S /\ Len(data) + 1 = N
    BY <1>2, <1>6
  <2> QED BY <1>2, <2>1 DEF S
<1>8. PICK n, d : g[N] = SkipState(n, d) /\ SkipsTo(i, n, d) /\ (d = 0 \/ N <= Len(data))
  BY <1>7
<1>9. d = 0
  BY <1>2, <1>8
<1>10. g[N].done /\ g[N].next = n
  <2>1. SkipState(n, d).done
    BY <1>9, SkipDone
  <2>2. SkipState(n, d).next = n
    BY DEF SkipState
  <2> QED BY <1>8, <2>1, <2>2
<1>11. N \in 0..LastRound(data) /\ Len(data) \in Nat /\ g = skipping(data, i)
  BY <1>1, <1>2
<1>12. skip(data, i) = n
  <2> HIDE DEF P
  <2> QED BY <1>10, <1>11, SkippingEnd
<1> QED BY <1>8, <1>9, <1>12 DEF SkipsTo

-----------------------------------------------------------------------------
(* What is accepted takes few bytes more than were read.                   *)

AreSizes(a, N) == N \in Nat /\ \A n \in 1..N : a[n] \in Nat

(* Sums of sizes are natural numbers.                                      *)
LEMMA SumsNat ==
  ASSUME NEW a, NEW N, AreSizes(a, N)
  PROVE  \A n \in 0..N : Sums(a)[n] \in Nat
<1> DEFINE S == {k \in Nat : k <= N => Sums(a)[k] \in Nat}
<1>1. N \in Nat
  BY DEF AreSizes
<1>2. 0 \in S
  BY SumsRec
<1>3. ASSUME NEW k \in Nat, k \in S PROVE k + 1 \in S
  <2>1. ASSUME k + 1 <= N PROVE Sums(a)[k + 1] \in Nat
    <3>1. k + 1 \in 1..N /\ k + 1 \in Nat \ {0} /\ (k + 1) - 1 = k /\ k <= N
      BY <1>1, <2>1
    <3>2. Sums(a)[k + 1] = Sums(a)[k] + a[k + 1]
      BY <3>1, SumsRec
    <3>3. Sums(a)[k] \in Nat /\ a[k + 1] \in Nat
      BY <1>3, <3>1 DEF AreSizes
    <3> QED BY <3>2, <3>3
  <2> QED BY <2>1
<1> HIDE DEF S
<1>4. \A k \in Nat : k \in S
  BY <1>2, <1>3, Induction
<1>5. \A n \in 0..N : n \in Nat /\ n <= N
  BY <1>1
<1> QED BY <1>4, <1>5 DEF S

(* Sizes of which only number p is another, by x at most.                  *)
OneMore(a, b, N, p, x) ==
  /\ AreSizes(a, N) /\ AreSizes(b, N)
  /\ \A n \in 1..N : n # p => b[n] = a[n]
  /\ p \in 1..N /\ x \in Nat /\ b[p] <= a[p] + x

(* If one size grows by x, so does the sum, at most.                       *)
LEMMA OneSum ==
  ASSUME NEW a, NEW b, NEW N, NEW p, NEW x, OneMore(a, b, N, p, x)
  PROVE  Sums(b)[N] <= Sums(a)[N] + x
<1> DEFINE S == {k \in Nat : k <= N => /\ Sums(b)[k] <= Sums(a)[k] + x
                                       /\ k < p => Sums(b)[k] = Sums(a)[k]}
<1>1. N \in Nat /\ p \in 1..N /\ x \in Nat /\ p \in Nat
  BY DEF OneMore, AreSizes
<1>2. 0 \in S
  BY <1>1, SumsRec
<1>3. ASSUME NEW k \in Nat, k \in S PROVE k + 1 \in S
  <2>1. ASSUME k + 1 <= N
        PROVE  /\ Sums(b)[k + 1] <= Sums(a)[k + 1] + x
               /\ k + 1 < p => Sums(b)[k + 1] = Sums(a)[k + 1]
    <3>1. k + 1 \in 1..N /\ k + 1 \in Nat \ {0} /\ (k + 1) - 1 = k /\ k <= N /\ k \in 0..N
      BY <1>1, <2>1
    <3>2. Sums(a)[k + 1] = Sums(a)[k] + a[k + 1] /\ Sums(b)[k + 1] = Sums(b)[k] + b[k + 1]
      BY <3>1, SumsRec
    <3>3. PICK u, v, y, z : u = Sums(a)[k] /\ v = Sums(b)[k] /\ y = a[k + 1] /\ z = b[k + 1]
      OBVIOUS
    <3>4. u \in Nat /\ v \in Nat
      BY <3>1, <3>3, SumsNat DEF OneMore
    <3>5. y \in Nat /\ z \in Nat
      BY <3>1, <3>3 DEF OneMore, AreSizes
    <3>6. v <= u + x /\ (k < p => v = u)
      BY <1>3, <3>1, <3>3
    <3>7. (k + 1 # p => z = y) /\ (k + 1 = p => z <= y + x)
      BY <3>1, <3>3 DEF OneMore
    <3>8. v + z <= (u + y) + x /\ (k + 1 < p => v + z = u + y)
      BY <1>1, <3>4, <3>5, <3>6, <3>7
    <3> QED BY <3>2, <3>3, <3>8
  <2> QED BY <2>1
<1> HIDE DEF S
<1>4. \A k \in Nat : k \in S
  BY <1>2, <1>3, Induction
<1> QED BY <1>1, <1>4 DEF S

(* Sizes that go on with others, each at most x.                           *)
LEMMA SumGoesOn ==
  ASSUME NEW a, NEW b, NEW N \in Nat, NEW M \in Nat, NEW x \in Nat,
         \A n \in 1..N : a[n] \in Nat /\ b[n] = a[n],
         \A n \in 1..M : b[N + n] \in Nat /\ b[N + n] <= x
  PROVE  Sums(b)[N] = Sums(a)[N] /\ Sums(b)[N + M] <= Sums(a)[N] + x * M
<1> DEFINE S == {k \in Nat : k <= N => Sums(b)[k] = Sums(a)[k]}
           R == {k \in Nat :
                   k <= M => Sums(b)[N + k] \in Nat /\ Sums(b)[N + k] <= Sums(a)[N] + x * k}
<1>1. 0 \in S
  BY SumsRec
<1>2. ASSUME NEW k \in Nat, k \in S PROVE k + 1 \in S
  <2>1. ASSUME k + 1 <= N PROVE Sums(b)[k + 1] = Sums(a)[k + 1]
    <3>1. k + 1 \in 1..N /\ k + 1 \in Nat \ {0} /\ (k + 1) - 1 = k /\ k <= N
      BY <2>1
    <3>2. Sums(a)[k + 1] = Sums(a)[k] + a[k + 1] /\ Sums(b)[k + 1] = Sums(b)[k] + b[k + 1]
      BY <3>1, SumsRec
    <3> QED BY <1>2, <3>1, <3>2
  <2> QED BY <2>1
<1>3. \A k \in Nat : k \in S
  <2> HIDE DEF S
  <2> QED BY <1>1, <1>2, Induction
<1>4. Sums(b)[N] = Sums(a)[N]
  BY <1>3
<1> HIDE DEF S
<1>5. Sums(a)[N] \in Nat
  <2>1. AreSizes(a, N) /\ N \in 0..N
    BY DEF AreSizes
  <2> QED BY <2>1, SumsNat
<1>6. 0 \in R
  <2>1. N + 0 = N /\ x * 0 = 0
    OBVIOUS
  <2> QED BY <1>4, <1>5, <2>1
<1>7. ASSUME NEW k \in Nat, k \in R PROVE k + 1 \in R
  <2>1. ASSUME k + 1 <= M
        PROVE  Sums(b)[N + (k + 1)] \in Nat /\ Sums(b)[N + (k + 1)] <= Sums(a)[N] + x * (k + 1)
    <3>1. PICK q : q = N + (k + 1)
      OBVIOUS
    <3>2. q \in Nat \ {0} /\ q - 1 = N + k /\ k <= M /\ k + 1 \in 1..M
      BY <2>1, <3>1
    <3>3. Sums(b)[q] = Sums(b)[N + k] + b[q]
      BY <3>2, SumsRec
    <3>4. b[q] \in Nat /\ b[q] <= x
      BY <3>1, <3>2
    <3>5. Sums(b)[N + k] \in Nat /\ Sums(b)[N + k] <= Sums(a)[N] + x * k
      BY <1>7, <3>2
    <3>6. PICK u, v, w, y : u = Sums(a)[N] /\ v = Sums(b)[N + k] /\ w = b[q] /\ y = x * k
      OBVIOUS
    <3>7. x * (k + 1) = y + x /\ y \in Nat
      BY <3>6, SMT
    <3>8. v + w \in Nat /\ v + w <= u + (y + x)
      BY <1>5, <3>4, <3>5, <3>6, <3>7
    <3> QED BY <3>1, <3>3, <3>6, <3>7, <3>8
  <2> QED BY <2>1
<1> HIDE DEF R
<1>8. \A k \in Nat : k \in R
  BY <1>6, <1>7, Induction
<1> QED BY <1>4, <1>8 DEF R

(* The size of one occurrence of a field, and of a field.                  *)
LEMMA PieceBounds ==
  ASSUME NEW K, InnerLaws(K), NEW kind, IsKind(kind, K), NEW e, IsElement(kind, e)
  PROVE  /\ PieceSize(kind, e) \in Nat
         /\ kind[1] \in Numbers => PieceSize(kind, e) <= 11
         /\ kind[1] \notin Numbers => /\ ContentSize(kind, e) \in Nat
                                      /\ PieceSize(kind, e) <= ContentSize(kind, e) + 11
                                      /\ ContentSize(kind, e) <= PieceSize(kind, e)
<1>1. CASE kind[1] \in Numbers
  <2>1. PICK c : c = sov(NumberOf(kind, e))
    OBVIOUS
  <2>2. c \in 1..10
    BY <1>1, <2>1, NumberFacts, EncodeFacts
  <2>3. PieceSize(kind, e) = 1 + c
    BY <1>1, <2>1 DEF PieceSize
  <2> QED BY <1>1, <2>2, <2>3
<1>2. CASE kind[1] \notin Numbers
  <2>1. PICK l : l = ContentSize(kind, e)
    OBVIOUS
  <2>2. l \in Nat
    BY <1>2, <2>1, ContentFacts
  <2>3. PICK c : c = sov(Groups(l))
    OBVIOUS
  <2>4. c \in 1..10
    BY <2>2, <2>3, GroupsFacts, EncodeFacts
  <2>5. PieceSize(kind, e) = 1 + l + c
    BY <1>2, <2>1, <2>3 DEF PieceSize
  <2>6. 1 + l + c \in Nat /\ 1 + l + c <= l + 11 /\ l <= 1 + l + c
    BY <2>2, <2>4
  <2> QED BY <1>2, <2>1, <2>2, <2>5, <2>6
<1> QED BY <1>1, <1>2

(* The size of a field is a natural number.                                *)
LEMMA SizeNat ==
  ASSUME NEW K, InnerLaws(K), NEW kind, IsKind(kind, K), NEW v, IsValue(kind, v)
  PROVE  SizeOf(kind, v) \in Nat
<1>1. 8 \in Tags
  BY DEF Tags
<1>2. PICK bytes : bytes = Joined(Pieces(8, kind, v))
  OBVIOUS
<1>3. bytes \in Seq(Byte) /\ SizeOf(kind, v) = Len(bytes)
  BY <1>1, <1>2, PiecesFacts
<1> QED BY <1>3, Elem

(* A field that occurs once at most.                                       *)
LEMMA SizeSingle ==
  ASSUME NEW kind, NEW v, NEW es, es = Elements(kind, v)
  PROVE  /\ es = <<>> => SizeOf(kind, v) = 0
         /\ \A e : es = <<e>> => SizeOf(kind, v) = 0 + PieceSize(kind, e)
<1>1. PICK sizes, l : l = Len(es) /\ sizes = [j \in 1..l |-> PieceSize(kind, es[j])]
  OBVIOUS
<1>2. SizeOf(kind, v) = Total(sizes)
  BY <1>1 DEF SizeOf
<1>3. ASSUME l \in Nat PROVE Len(sizes) = l
  <2>1. sizes = [j \in 1..l |-> sizes[j]]
    BY <1>1
  <2> QED BY <1>3, <2>1, MakeList
<1>4. CASE es = <<>>
  <2>1. l = 0 /\ l \in Nat
    BY <1>1, <1>4
  <2>2. Total(sizes) = Sums(sizes)[0]
    BY <1>3, <2>1 DEF Total
  <2>3. es # <<es[1]>>
    BY <1>4
  <2>4. \A e : es # <<e>>
    BY <1>4
  <2> QED BY <1>2, <2>2, <2>4, SumsRec
<1>5. ASSUME NEW e, es = <<e>> PROVE SizeOf(kind, v) = 0 + PieceSize(kind, e)
  <2>1. l = 1 /\ l \in Nat /\ es[1] = e
    BY <1>1, <1>5
  <2>2. Total(sizes) = Sums(sizes)[1]
    BY <1>3, <2>1 DEF Total
  <2>3. sizes[1] = PieceSize(kind, e)
    BY <1>1, <2>1
  <2>4. 1 \in Nat \ {0} /\ 1 - 1 = 0
    OBVIOUS
  <2>5. Sums(sizes)[1] = 0 + sizes[1]
    BY <2>4, SumsRec
  <2> QED BY <1>2, <2>2, <2>3, <2>5
<1> QED BY <1>4, <1>5

(* The size of a field that occurs once.                                   *)
LEMMA SizeOnce ==
  ASSUME NEW K, InnerLaws(K), NEW kind, IsKind(kind, K), NEW e, IsElement(kind, e), NEW v,
         Elements(kind, v) = <<e>>
  PROVE  SizeOf(kind, v) = PieceSize(kind, e)
<1>1. SizeOf(kind, v) = 0 + PieceSize(kind, e)
  BY SizeSingle
<1>2. PieceSize(kind, e) \in Nat
  BY PieceBounds
<1> QED BY <1>1, <1>2

(* Bytes and numbers.                                                      *)
LEMMA SizeOfBytes ==
  ASSUME NEW kind, kind[1] = "bytes", NEW v \in Seq(Byte), NEW K, InnerLaws(K), IsKind(kind, K)
  PROVE  SizeOf(kind, v) <= Len(v) + 11
<1>1. Len(v) \in Nat
  BY Elem
<1>2. CASE v = <<>>
  <2>1. Elements(kind, v) = <<>>
    BY <1>2 DEF Elements, Repeated
  <2>2. SizeOf(kind, v) = 0
    BY <2>1, SizeSingle
  <2> QED BY <1>1, <2>2
<1>3. CASE v # <<>>
  <2>1. Elements(kind, v) = <<v>>
    BY <1>3 DEF Elements, Repeated
  <2>2. IsElement(kind, v)
    BY <1>3 DEF IsElement, Embedding
  <2>3. SizeOf(kind, v) = PieceSize(kind, v)
    BY <2>1, <2>2, SizeOnce
  <2>4. ContentSize(kind, v) = Len(v)
    BY DEF ContentSize, Embedding
  <2>5. kind[1] \notin Numbers
    BY DEF Numbers
  <2>6. PieceSize(kind, v) <= ContentSize(kind, v) + 11
    BY <2>2, <2>5, PieceBounds
  <2> QED BY <2>3, <2>4, <2>6
<1> QED BY <1>2, <1>3

(* A number takes at most eleven bytes.                                    *)
LEMMA SizeOfNumber ==
  ASSUME NEW K, InnerLaws(K), NEW kind, IsKind(kind, K), kind[1] \in Numbers,
         NEW v, IsValue(kind, v)
  PROVE  SizeOf(kind, v) <= 11
<1>1. kind[1] \in Kinds /\ kind[1] \notin Repeated
  BY KindFacts DEF Numbers, Repeated
<1>2. PICK es, l : es = Elements(kind, v) /\ l = Len(es)
  OBVIOUS
<1>3. /\ l \in Nat /\ es = [j \in 1..l |-> es[j]] /\ \A j \in 1..l : IsElement(kind, es[j])
      /\ l <= 1
  BY <1>1, <1>2, ElementsFacts
<1>4. CASE l = 0
  <2>1. es = <<>>
    BY <1>3, <1>4
  <2>2. SizeOf(kind, v) = 0
    BY <1>2, <2>1, SizeSingle
  <2> QED BY <2>2
<1>5. CASE l = 1
  <2>1. PICK e : e = es[1]
    OBVIOUS
  <2>2. es = <<e>>
    BY <1>3, <1>5, <2>1
  <2>3. IsElement(kind, e)
    BY <1>3, <1>5, <2>1
  <2>4. SizeOf(kind, v) = PieceSize(kind, e)
    BY <1>2, <2>2, <2>3, SizeOnce
  <2>5. PieceSize(kind, e) <= 11
    BY <2>3, PieceBounds
  <2> QED BY <2>4, <2>5
<1> QED BY <1>3, <1>4, <1>5

(* One more element of a list.                                             *)
LEMMA SizeOfAppend ==
  ASSUME NEW K, InnerLaws(K), NEW kind, IsKind(kind, K), kind[1] \in Repeated,
         NEW old, IsValue(kind, old), NEW v, IsValue(kind, v), NEW e, IsElement(kind, e),
         NEW l, l = Len(old), Len(v) = l + 1, \A j \in 1..l : v[j] = old[j], v[l + 1] = e
  PROVE  SizeOf(kind, v) <= SizeOf(kind, old) + PieceSize(kind, e)
<1>1. kind[1] \in Kinds
  BY KindFacts
<1>2. Elements(kind, old) = old /\ Elements(kind, v) = v
  BY DEF Elements, Repeated
<1>3. l \in Nat /\ \A j \in 1..l : IsElement(kind, old[j])
  BY <1>1, <1>2, ElementsFacts
<1>4. PICK a, b, n : /\ n = l + 1 /\ a = [j \in 1..l |-> PieceSize(kind, old[j])]
                     /\ b = [j \in 1..n |-> PieceSize(kind, v[j])]
  OBVIOUS
<1>5. n \in Nat
  BY <1>3, <1>4
<1>6. Len(a) = l /\ Len(b) = n
  <2>1. a = [j \in 1..l |-> a[j]] /\ b = [j \in 1..n |-> b[j]]
    BY <1>4
  <2> QED BY <1>3, <1>5, <2>1, MakeList
<1>7. SizeOf(kind, old) = Sums(a)[l] /\ SizeOf(kind, v) = Sums(b)[n]
  BY <1>2, <1>4, <1>6 DEF SizeOf, Total
<1>8. PICK x : x = PieceSize(kind, e)
  OBVIOUS
<1>9. x \in Nat
  BY <1>8, PieceBounds
<1>10. \A j \in 1..l : a[j] \in Nat /\ b[j] = a[j]
  <2>1. ASSUME NEW j \in 1..l PROVE a[j] \in Nat /\ b[j] = a[j]
    <3>1. j \in 1..n
      BY <1>3, <1>4
    <3>2. a[j] = PieceSize(kind, old[j]) /\ b[j] = PieceSize(kind, v[j])
      BY <1>4, <3>1
    <3>3. PieceSize(kind, old[j]) \in Nat
      BY <1>3, PieceBounds
    <3> QED BY <3>2, <3>3
  <2> QED BY <2>1
<1>11. \A j \in 1..1 : b[l + j] \in Nat /\ b[l + j] <= x
  <2>1. n \in 1..n
    BY <1>3, <1>4
  <2>2. b[n] = x
    BY <1>4, <1>8, <2>1
  <2>3. \A j \in 1..1 : l + j = n
    BY <1>3, <1>4
  <2> QED BY <1>9, <2>2, <2>3
<1>12. Sums(b)[l + 1] <= Sums(a)[l] + x * 1
  BY <1>3, <1>9, <1>10, <1>11, SumGoesOn
<1>13. x * 1 = x
  BY <1>9
<1> QED BY <1>4, <1>7, <1>8, <1>12, <1>13

(* More numbers of a packed field.                                         *)
LEMMA PackedGrows ==
  ASSUME NEW a, IsNumbers(a), NEW b, IsNumbers(b)
  PROVE  /\ Total(PackedSizes(a)) \in Nat
         /\ Total(PackedSizes(a \o b)) <= Total(PackedSizes(a)) + 10 * Len(b)
<1>1. PICK k, l, c : k = Len(a) /\ l = Len(b) /\ c = a \o b
  OBVIOUS
<1>2. a \in Seq(Seq(Septet)) /\ b \in Seq(Seq(Septet))
  BY DEF IsNumbers
<1>3. /\ Len(c) = k + l /\ k \in Nat /\ l \in Nat
      /\ \A i \in 1..k : c[i] = a[i]
      /\ \A i \in 1..l : c[k + i] = b[i]
  BY <1>1, <1>2, ConcatFacts
<1>4. PICK n : n = k + l
  OBVIOUS
<1>5. n \in Nat /\ \A i \in 1..l : k + i \in 1..n
  BY <1>3, <1>4
<1>6. \A i \in 1..k : i \in 1..n
  BY <1>3, <1>4
<1>7. PICK x, y : x = PackedSizes(a) /\ y = PackedSizes(c)
  OBVIOUS
<1>8. x = [i \in 1..k |-> sov(a[i])] /\ y = [i \in 1..n |-> sov(c[i])]
  BY <1>1, <1>3, <1>4, <1>7 DEF PackedSizes
<1>9. Len(x) = k /\ Len(y) = n
  <2>1. x = [i \in 1..k |-> x[i]] /\ y = [i \in 1..n |-> y[i]]
    BY <1>8
  <2> QED BY <1>3, <1>5, <2>1, MakeList
<1>10. \A i \in 1..k : x[i] \in Nat /\ y[i] = x[i]
  <2>1. ASSUME NEW i \in 1..k PROVE x[i] \in Nat /\ y[i] = x[i]
    <3>1. x[i] = sov(a[i]) /\ y[i] = sov(c[i])
      BY <1>6, <1>8
    <3>2. sov(a[i]) \in 1..10
      BY <1>1, EncodeFacts DEF IsNumbers
    <3> QED BY <1>3, <3>1, <3>2
  <2> QED BY <2>1
<1>11. \A i \in 1..l : y[k + i] \in Nat /\ y[k + i] <= 10
  <2>1. ASSUME NEW i \in 1..l PROVE y[k + i] \in Nat /\ y[k + i] <= 10
    <3>1. y[k + i] = sov(c[k + i])
      BY <1>5, <1>8
    <3>2. sov(b[i]) \in 1..10
      BY <1>1, EncodeFacts DEF IsNumbers
    <3> QED BY <1>3, <3>1, <3>2
  <2> QED BY <2>1
<1>12. Sums(y)[k + l] <= Sums(x)[k] + 10 * l
  BY <1>3, <1>10, <1>11, SumGoesOn
<1>13. Sums(x)[k] \in Nat
  <2>1. AreSizes(x, k) /\ k \in 0..k
    BY <1>3, <1>10 DEF AreSizes
  <2> QED BY <2>1, SumsNat
<1> QED BY <1>1, <1>4, <1>7, <1>9, <1>12, <1>13 DEF Total

(* Numbers that are added to a packed field take ten bytes each, at most.  *)
LEMMA SizeOfPacked ==
  ASSUME NEW K, InnerLaws(K), NEW kind, IsKind(kind, K), kind[1] = "packed",
         NEW old, IsNumbers(old), NEW w, IsNumbers(w)
  PROVE  SizeOf(kind, old \o w) <= SizeOf(kind, old) + (10 * Len(w) + 11)
<1>1. PICK v, l, t, u, s : /\ v = old \o w /\ l = Len(w) /\ t = Total(PackedSizes(old))
                           /\ u = Total(PackedSizes(v)) /\ s = SizeOf(kind, old)
  OBVIOUS
<1>2. IsNumbers(v) /\ t \in Nat /\ u \in Nat /\ u <= t + 10 * l /\ l \in Nat
  <2>1. IsNumbers(v)
    BY <1>1, NumbersConcat
  <2>2. t \in Nat /\ u <= t + 10 * l
    BY <1>1, PackedGrows
  <2>3. u \in Nat
    BY <1>1, <2>1, PackedGrows
  <2>4. l \in Nat
    BY <1>1, Elem DEF IsNumbers
  <2> QED BY <2>1, <2>2, <2>3, <2>4
<1>3. kind[1] \notin Numbers /\ kind[1] \notin Repeated
  BY DEF Numbers, Repeated
<1>4. s \in Nat /\ t <= s
  <2>1. CASE old = <<>>
    <3>1. Elements(kind, old) = <<>>
      BY <2>1 DEF Elements, Repeated
    <3>2. s = 0
      BY <1>1, <3>1, SizeSingle
    <3>3. t = 0
      <4>1. PackedSizes(old) = <<>>
        BY <2>1 DEF PackedSizes
      <4> QED BY <1>1, <4>1, SumsRec DEF Total
    <3> QED BY <3>2, <3>3
  <2>2. CASE old # <<>>
    <3>1. Elements(kind, old) = <<old>>
      BY <2>2 DEF Elements, Repeated
    <3>2. IsElement(kind, old)
      BY <2>2 DEF IsElement, Embedding
    <3>3. s = PieceSize(kind, old)
      BY <1>1, <3>1, <3>2, SizeOnce
    <3>4. ContentSize(kind, old) = t
      BY <1>1 DEF ContentSize, Embedding
    <3> QED BY <1>3, <3>2, <3>3, <3>4, PieceBounds
  <2> QED BY <2>1, <2>2
<1>5. CASE v = <<>>
  <2>1. Elements(kind, v) = <<>>
    BY <1>5 DEF Elements, Repeated
  <2>2. SizeOf(kind, v) = 0
    BY <2>1, SizeSingle
  <2> QED BY <1>1, <1>2, <1>4, <2>2
<1>6. CASE v # <<>>
  <2>1. Elements(kind, v) = <<v>>
    BY <1>6 DEF Elements, Repeated
  <2>2. IsElement(kind, v)
    BY <1>2, <1>6 DEF IsElement, Embedding
  <2>3. SizeOf(kind, v) = PieceSize(kind, v)
    BY <2>1, <2>2, SizeOnce
  <2>4. ContentSize(kind, v) = u
    BY <1>1 DEF ContentSize, Embedding
  <2>5. PICK z : z = PieceSize(kind, v)
    OBVIOUS
  <2>6. z \in Nat /\ z <= u + 11
    BY <1>3, <2>2, <2>4, <2>5, PieceBounds
  <2>7. z <= s + (10 * l + 11)
    BY <1>2, <1>4, <2>6
  <2> QED BY <1>1, <2>3, <2>5, <2>7
<1> QED BY <1>5, <1>6

(* What the case of a field makes of any bytes: an error, or a value of    *)
(* its kind that takes few bytes more than the old one and those read.     *)
GrowsTo(kind, old, i, v, n) ==
  /\ n \in Nat /\ n > i /\ IsValue(kind, v)
  /\ SizeOf(kind, v) <= SizeOf(kind, old) + 64 * (n - i + 1)
Typed(kind, old, i, r) == r = Failed \/ \E v, n : r = FieldAt(v, n) /\ GrowsTo(kind, old, i, v, n)

(* A field that was read from l bytes and grew by no more than 64 each.    *)
LEMMA GrowsBy ==
  ASSUME NEW K, InnerLaws(K), NEW kind, IsKind(kind, K), NEW old, IsValue(kind, old),
         NEW i \in Nat, NEW n \in Nat, NEW l \in Nat, n > i + l, NEW v, IsValue(kind, v),
         SizeOf(kind, v) <= SizeOf(kind, old) + (64 * l + 111)
  PROVE  GrowsTo(kind, old, i, v, n)
<1>1. PICK s, t : s = SizeOf(kind, old) /\ t = SizeOf(kind, v)
  OBVIOUS
<1>2. s \in Nat /\ t \in Nat
  BY <1>1, SizeNat
<1>3. t <= s + (64 * l + 111)
  BY <1>1
<1>4. t <= s + 64 * (n - i + 1)
  BY <1>2, <1>3
<1> QED BY <1>1, <1>4 DEF GrowsTo

(* Reading a number: a value of its type, not too large.                   *)
LEMMA NumberTyped ==
  ASSUME NEW K, InnerLaws(K), NEW kind, IsKind(kind, K), kind[1] \in Numbers,
         NEW old, IsValue(kind, old), NEW data \in Seq(Byte), NEW i \in Nat \ {0}
  PROVE  Typed(kind, old, i, readField(kind, old, 0, data, i))
<1>1. PICK r, g, n : r = readVarint(data, i) /\ g = r.groups /\ n = r.next
  OBVIOUS
<1>2. PICK v : v = CASE kind[1] = "uint" -> g [] kind[1] = "enum" -> Int32(g)
                     [] kind[1] = "bool" -> g # <<>> [] kind[1] = "packed" -> Append(old, g)
  OBVIOUS
<1>3. readField(kind, old, 0, data, i) = IF ~r.ok THEN Failed ELSE FieldAt(v, n)
  BY <1>1, <1>2 DEF readField, readNumber, FieldAt, Numbers, Embedding
<1>4. CASE ~r.ok
  BY <1>3, <1>4 DEF Typed
<1>5. CASE r.ok
  <2>1. r.next \in (i + 1)..(Len(data) + 1) /\ IsUint64(g)
    BY <1>1, <1>5, VarintFacts
  <2>2. n \in Nat /\ n > i + 0 /\ 0 \in Nat /\ i \in Nat
    BY <1>1, <2>1, Elem
  <2>3. kind[1] \in Kinds
    BY KindFacts
  <2>4. IsValue(kind, v)
    <3>1. CASE kind[1] = "uint"
      <4>1. v = g
        BY <1>2, <3>1
      <4> QED BY <2>1, <3>1, <4>1 DEF IsValue
    <3>2. CASE kind[1] = "enum"
      <4>1. v = Int32(g)
        BY <1>2, <3>2
      <4> QED BY <2>1, <3>2, <4>1, Int32Facts DEF IsValue
    <3>3. CASE kind[1] = "bool"
      <4>1. v = (g # <<>>)
        BY <1>2, <3>3
      <4>2. v \in BOOLEAN
        BY <4>1
      <4> QED BY <3>3, <4>2 DEF IsValue
    <3> QED BY <3>1, <3>2, <3>3 DEF Numbers
  <2>5. PICK s, t : s = SizeOf(kind, old) /\ t = SizeOf(kind, v)
    OBVIOUS
  <2>6. s \in Nat /\ t \in Nat /\ t <= 11
    BY <2>4, <2>5, SizeNat, SizeOfNumber
  <2>7. t <= s + (64 * 0 + 111)
    BY <2>6
  <2>8. GrowsTo(kind, old, i, v, n)
    BY <2>2, <2>4, <2>5, <2>7, GrowsBy
  <2> QED BY <1>3, <1>5, <2>8 DEF Typed
<1> QED BY <1>4, <1>5

(* Numbers that are added to a packed field: not too large.                *)
LEMMA PackedTyped ==
  ASSUME NEW K, InnerLaws(K), NEW kind, IsKind(kind, K), kind[1] = "packed",
         NEW old, IsValue(kind, old), NEW w, IsNumbers(w),
         NEW i \in Nat, NEW n \in Nat, n > i + Len(w)
  PROVE  GrowsTo(kind, old, i, old \o w, n)
<1>1. kind[1] \in Kinds
  BY KindFacts
<1>2. IsNumbers(old)
  BY <1>1, ValueFacts
<1>3. IsValue(kind, old \o w)
  BY <1>1, <1>2, NumbersConcat, ValueFacts
<1>4. PICK v, l, s, t : v = old \o w /\ l = Len(w) /\ s = SizeOf(kind, old) /\ t = SizeOf(kind, v)
  OBVIOUS
<1>5. l \in Nat
  BY <1>4, Elem DEF IsNumbers
<1>6. s \in Nat /\ t \in Nat
  BY <1>3, <1>4, SizeNat
<1>7. t <= s + (10 * l + 11)
  BY <1>2, <1>4, SizeOfPacked
<1>8. t <= s + (64 * l + 111) /\ n > i + l
  BY <1>4, <1>5, <1>6, <1>7
<1> QED BY <1>3, <1>4, <1>5, <1>8, GrowsBy

(* Reading a packed field: a value of its type, not too large.             *)
LEMMA PackedFieldTyped ==
  ASSUME NEW K, InnerLaws(K), NEW kind, IsKind(kind, K), kind[1] = "packed",
         NEW old, IsValue(kind, old), NEW data \in Seq(Byte), NEW i \in Nat \ {0}
  PROVE  /\ Typed(kind, old, i, readField(kind, old, 0, data, i))
         /\ Typed(kind, old, i, readField(kind, old, 2, data, i))
<1>1. IsNumbers(old)
  BY KindFacts, ValueFacts
<1>2. Typed(kind, old, i, readField(kind, old, 0, data, i))
  <2>1. PICK r, g, n : r = readVarint(data, i) /\ g = r.groups /\ n = r.next
    OBVIOUS
  <2>2. readField(kind, old, 0, data, i) = IF ~r.ok THEN Failed ELSE FieldAt(Append(old, g), n)
    BY <2>1 DEF readField, readNumber, FieldAt, Numbers, Embedding
  <2>3. CASE ~r.ok
    BY <2>2, <2>3 DEF Typed
  <2>4. CASE r.ok
    <3>1. r.next \in (i + 1)..(Len(data) + 1) /\ IsUint64(g)
      BY <2>1, <2>4, VarintFacts
    <3>2. n \in Nat /\ n > i
      BY <2>1, <3>1, Elem
    <3>3. Append(old, g) = old \o <<g>> /\ IsNumbers(<<g>>) /\ Len(<<g>>) = 1
      BY <1>1, <3>1, NumbersAppend, NumbersOne
    <3>4. PICK s, t, v : s = SizeOf(kind, old) /\ t = SizeOf(kind, old \o <<g>>) /\ v = old \o <<g>>
      OBVIOUS
    <3>5. IsValue(kind, v)
      BY <1>1, <3>3, <3>4, NumbersConcat, KindFacts, ValueFacts
    <3>6. s \in Nat /\ t \in Nat
      BY <3>4, <3>5, SizeNat
    <3>7. t <= s + (10 * 1 + 11)
      BY <1>1, <3>3, <3>4, SizeOfPacked
    <3>8. t <= s + (64 * 0 + 111) /\ n > i + 0 /\ 0 \in Nat
      BY <3>2, <3>6, <3>7
    <3>9. GrowsTo(kind, old, i, v, n)
      BY <3>2, <3>4, <3>5, <3>8, GrowsBy
    <3> QED BY <2>2, <2>4, <3>3, <3>4, <3>9 DEF Typed
  <2> QED BY <2>3, <2>4
<1>3. Typed(kind, old, i, readField(kind, old, 2, data, i))
  <2>1. PICK part : part = readDelimited(data, i)
    OBVIOUS
  <2>2. PICK packed : packed = readPacked(data, part.from, part.to)
    OBVIOUS
  <2>3. readField(kind, old, 2, data, i) =
          IF ~part.ok THEN Failed ELSE IF ~packed.ok THEN Failed
          ELSE FieldAt(old \o packed.values, packed.next)
    BY <2>1, <2>2 DEF readField, readList, addPacked, FieldAt, Placed, Numbers, Embedding, Repeated
  <2>4. CASE ~part.ok \/ ~packed.ok
    BY <2>3, <2>4 DEF Typed
  <2>5. CASE part.ok /\ packed.ok
    <3>1. PICK from \in Nat \ {0}, to \in Int, l \in Nat :
            /\ part = [ok |-> TRUE, from |-> from, to |-> to]
            /\ from > i /\ to = from + l - 1 /\ to <= Len(data)
      BY <2>1, <2>5, DelimitedFacts
    <3>2. packed = readPacked(data, from, to)
      BY <2>2, <3>1
    <3>3. PICK n \in Nat : \E w : packed = Unpacked(n, w) /\ PackedUpTo(from, n, w)
      BY <2>5, <3>1, <3>2, PackedLoop DEF Failed
    <3>4. PICK w : packed = Unpacked(n, w) /\ PackedUpTo(from, n, w)
      BY <3>3
    <3>5. packed.values = w /\ packed.next = n
      BY <3>4 DEF Unpacked
    <3>6. IsNumbers(w) /\ n >= from /\ Len(w) <= n - from /\ Len(w) \in Nat
      BY <3>4, Elem DEF PackedUpTo, IsNumbers
    <3>7. n > i + Len(w) /\ i \in Nat
      BY <3>1, <3>6
    <3>8. GrowsTo(kind, old, i, old \o w, n)
      BY <3>6, <3>7, PackedTyped
    <3> QED BY <2>3, <2>5, <3>5, <3>8 DEF Typed
  <2> QED BY <2>4, <2>5
<1> QED BY <1>2, <1>3

(* Strings and byte strings.                                               *)
LEMMA BytesTyped ==
  ASSUME NEW K, InnerLaws(K), NEW kind, IsKind(kind, K), kind[1] \in {"bytes", "strings"},
         NEW old, IsValue(kind, old), NEW data \in Seq(Byte), NEW i \in Nat \ {0}
  PROVE  Typed(kind, old, i, readField(kind, old, 2, data, i))
<1>1. kind[1] \in Kinds /\ kind[1] \notin Numbers
  BY KindFacts DEF Numbers
<1>2. PICK part : part = readDelimited(data, i)
  OBVIOUS
<1>3. PICK bytes : bytes = SubSeq(data, part.from, part.to)
  OBVIOUS
<1>4. readField(kind, old, 2, data, i) =
        IF part.ok THEN FieldAt(Placed(kind, old, bytes), part.to + 1) ELSE Failed
  BY <1>2, <1>3 DEF readField, readBytes, FieldAt, Numbers, Embedding
<1>5. CASE ~part.ok
  BY <1>4, <1>5 DEF Typed
<1>6. CASE part.ok
  <2>1. PICK from \in Nat \ {0}, to \in Int, l \in Nat :
          /\ part = [ok |-> TRUE, from |-> from, to |-> to]
          /\ from > i /\ to = from + l - 1 /\ to <= Len(data)
          /\ SubSeq(data, from, to) \in Seq(Byte) /\ Len(SubSeq(data, from, to)) = l
    BY <1>2, <1>6, DelimitedFacts
  <2>2. bytes \in Seq(Byte) /\ Len(bytes) = l /\ part.to = to
    BY <1>3, <2>1
  <2>3. PICK n, v : n = to + 1 /\ v = Placed(kind, old, bytes)
    OBVIOUS
  <2>4. n \in Nat /\ n > i + l /\ i \in Nat
    BY <2>1, <2>3
  <2>5. IsValue(kind, v) /\ SizeOf(kind, v) <= SizeOf(kind, old) + (64 * l + 111)
    <3>1. PICK s, t : s = SizeOf(kind, old) /\ t = SizeOf(kind, v)
      OBVIOUS
    <3>2. CASE kind[1] = "bytes"
      <4>1. v = bytes
        BY <2>3, <3>2 DEF Placed, Repeated
      <4>2. IsValue(kind, v)
        BY <2>2, <3>2, <4>1 DEF IsValue
      <4>3. t <= l + 11
        BY <2>2, <3>1, <3>2, <4>1, SizeOfBytes
      <4>4. s \in Nat /\ t \in Nat
        BY <3>1, <4>2, SizeNat
      <4> QED BY <3>1, <4>2, <4>3, <4>4
    <3>3. CASE kind[1] = "strings"
      <4>1. v = Append(old, bytes) /\ kind[1] \in Repeated
        BY <2>3, <3>3 DEF Placed, Repeated
      <4>2. old \in Seq(Seq(Byte))
        BY <3>3 DEF IsValue
      <4>3. v \in Seq(Seq(Byte))
        BY <2>2, <4>1, <4>2
      <4>4. IsValue(kind, v)
        BY <3>3, <4>3 DEF IsValue
      <4>5. PICK k : k = Len(old)
        OBVIOUS
      <4>6. Len(v) = k + 1 /\ v[k + 1] = bytes /\ \A j \in 1..k : v[j] = old[j]
        BY <2>2, <4>1, <4>2, <4>5, AppendProperties
      <4>7. IsElement(kind, bytes)
        BY <2>2, <3>3 DEF IsElement, Embedding
      <4>8. t <= s + PieceSize(kind, bytes)
        BY <3>1, <4>1, <4>4, <4>5, <4>6, <4>7, SizeOfAppend
      <4>9. ContentSize(kind, bytes) = l
        BY <2>2, <3>3 DEF ContentSize, Embedding
      <4>10. PICK z : z = PieceSize(kind, bytes)
        OBVIOUS
      <4>11. z \in Nat /\ z <= l + 11
        BY <1>1, <4>7, <4>9, <4>10, PieceBounds
      <4>12. s \in Nat /\ t \in Nat
        BY <3>1, <4>4, SizeNat
      <4>13. t <= s + (64 * l + 111)
        BY <4>8, <4>10, <4>11, <4>12
      <4> QED BY <3>1, <4>4, <4>13
    <3> QED BY <3>2, <3>3
  <2>6. GrowsTo(kind, old, i, v, n)
    BY <2>4, <2>5, GrowsBy
  <2> QED BY <1>4, <1>6, <2>2, <2>3, <2>6 DEF Typed
<1> QED BY <1>5, <1>6

(* Embedded messages.                                                      *)
LEMMA IntoTyped ==
  ASSUME NEW K, InnerLaws(K), NEW kind, IsKind(kind, K), kind[1] \in Embedding,
         NEW old, IsValue(kind, old)
  PROVE  /\ InnerIs(kind[2], ReadInto(kind, old))
         /\ kind[1] = "val" => ReadInto(kind, old) = old
         /\ kind[1] = "ptr" /\ old # <<>> => old = <<ReadInto(kind, old)>>
         /\ kind[1] # "val" /\ (kind[1] = "ptr" => old = <<>>) =>
              ReadInto(kind, old) = InnerDefault(kind[2])
<1>1. kind[1] \in Kinds /\ kind[2] \in K
  BY KindFacts
<1>2. InnerIs(kind[2], InnerDefault(kind[2]))
  BY <1>1 DEF InnerLaws, InnerDefaultLaw
<1>3. CASE kind[1] = "val"
  BY <1>1, <1>3, ValueFacts DEF ReadInto
<1>4. CASE kind[1] = "many"
  BY <1>2, <1>4 DEF ReadInto
<1>5. CASE kind[1] = "ptr" /\ old = <<>>
  BY <1>2, <1>5 DEF ReadInto
<1>6. CASE kind[1] = "ptr" /\ old # <<>>
  <2>1. PICK x : old = <<x>> /\ InnerIs(kind[2], x)
    BY <1>6, PtrFacts
  <2>2. ReadInto(kind, old) = x
    BY <1>6, <2>1 DEF ReadInto
  <2> QED BY <1>6, <2>1, <2>2
<1> QED BY <1>3, <1>4, <1>5, <1>6 DEF Embedding

(* The size of an embedded message, with and without tag and length.       *)
LEMMA InnerSizes ==
  ASSUME NEW K, InnerLaws(K), NEW kind, IsKind(kind, K), kind[1] \in Embedding,
         NEW e, InnerIs(kind[2], e)
  PROVE  /\ IsElement(kind, e) /\ InnerSize(kind[2], e) \in Nat
         /\ PieceSize(kind, e) \in Nat
         /\ PieceSize(kind, e) <= InnerSize(kind[2], e) + 11
         /\ InnerSize(kind[2], e) <= PieceSize(kind, e)
<1>1. IsElement(kind, e)
  BY DEF IsElement, Embedding
<1>2. kind[1] \notin Numbers
  BY DEF Embedding, Numbers
<1>3. ContentSize(kind, e) = InnerSize(kind[2], e)
  BY DEF ContentSize, Embedding
<1> QED BY <1>1, <1>2, <1>3, PieceBounds

(* An embedded message in its place: not too large.                        *)
LEMMA PlacedTyped ==
  ASSUME NEW K, InnerLaws(K), NEW kind, IsKind(kind, K), kind[1] \in Embedding,
         NEW old, IsValue(kind, old), NEW e, InnerIs(kind[2], e), NEW l \in Nat,
         InnerSize(kind[2], e) <= InnerSize(kind[2], ReadInto(kind, old)) + 64 * l,
         NEW v, v = Placed(kind, old, e)
  PROVE  IsValue(kind, v) /\ SizeOf(kind, v) <= SizeOf(kind, old) + (64 * l + 111)
<1>1. kind[1] \in Kinds /\ kind[2] \in K
  BY KindFacts
<1>2. PICK into, a, b, p, s, t :
        /\ into = ReadInto(kind, old) /\ a = InnerSize(kind[2], into) /\ b = InnerSize(kind[2], e)
        /\ p = PieceSize(kind, e) /\ s = SizeOf(kind, old) /\ t = SizeOf(kind, v)
  OBVIOUS
<1>3. InnerIs(kind[2], into)
  BY <1>2, IntoTyped
<1>4. a \in Nat /\ b \in Nat /\ b <= a + 64 * l /\ p \in Nat /\ p <= b + 11
  BY <1>2, <1>3, InnerSizes
<1>5. IsElement(kind, e)
  BY InnerSizes
<1>6. s \in Nat
  BY <1>2, SizeNat
<1>7. InnerSize(kind[2], InnerDefault(kind[2])) <= 100
  BY <1>1 DEF InnerLaws, InnerDefaultLaw
<1>8. CASE kind[1] = "val"
  <2>1. v = e /\ into = old
    BY <1>2, <1>8, IntoTyped DEF Placed, Repeated
  <2>2. IsValue(kind, v)
    BY <1>1, <1>8, <2>1, ValueFacts
  <2>3. Elements(kind, v) = <<e>> /\ Elements(kind, old) = <<old>>
    BY <1>8, <2>1 DEF Elements, Repeated
  <2>4. t = p
    BY <1>2, <1>5, <2>3, SizeOnce
  <2>5. s = PieceSize(kind, old) /\ a <= s
    <3>1. IsElement(kind, old) /\ a <= PieceSize(kind, old)
      BY <1>2, <1>3, <2>1, InnerSizes
    <3> QED BY <1>2, <2>3, <3>1, SizeOnce
  <2>6. t <= s + (64 * l + 111)
    BY <1>4, <1>6, <2>4, <2>5
  <2> QED BY <1>2, <2>2, <2>6
<1>9. CASE kind[1] = "ptr"
  <2>1. v = <<e>>
    BY <1>9 DEF Placed, Repeated
  <2>2. IsValue(kind, v)
    BY <1>9, <2>1, PtrFacts
  <2>3. Elements(kind, v) = <<e>> /\ Elements(kind, old) = old
    BY <1>9, <2>1 DEF Elements, Repeated
  <2>4. t = p
    BY <1>2, <1>5, <2>3, SizeOnce
  <2>5. a <= s + 100
    <3>1. CASE old = <<>>
      <4>1. into = InnerDefault(kind[2])
        BY <1>2, <1>9, <3>1, IntoTyped
      <4> QED BY <1>2, <1>4, <1>6, <1>7, <4>1
    <3>2. CASE old # <<>>
      <4>1. old = <<into>>
        BY <1>2, <1>9, <3>2, IntoTyped
      <4>2. IsElement(kind, into) /\ a <= PieceSize(kind, into) /\ PieceSize(kind, into) \in Nat
        BY <1>2, <1>3, InnerSizes
      <4>3. Elements(kind, old) = <<into>>
        BY <2>3, <4>1
      <4>4. s = PieceSize(kind, into)
        BY <1>2, <4>2, <4>3, SizeOnce
      <4> QED BY <1>4, <4>2, <4>4
    <3> QED BY <3>1, <3>2
  <2>6. t <= s + (64 * l + 111)
    BY <1>4, <1>6, <2>4, <2>5
  <2> QED BY <1>2, <2>2, <2>6
<1>10. CASE kind[1] = "many"
  <2>1. v = Append(old, e) /\ kind[1] \in Repeated
    BY <1>10 DEF Placed, Repeated
  <2>2. PICK k : k = Len(old)
    OBVIOUS
  <2>3. IsList(old) /\ \A j \in 1..k : InnerIs(kind[2], old[j])
    BY <1>10, <2>2, ManyFacts
  <2>4. k \in Nat /\ old = [j \in 1..k |-> old[j]]
    BY <2>2, <2>3, ListFacts
  <2>5. IsList(v) /\ Len(v) = k + 1 /\ v[k + 1] = e /\ \A j \in 1..k : v[j] = old[j]
    <3>1. PICK S : S = {old[j] : j \in 1..k} \union {e}
      OBVIOUS
    <3>2. \A j \in 1..k : old[j] \in S
      BY <3>1
    <3>3. old \in Seq(S) /\ e \in S
      BY <2>4, <3>1, <3>2, MakeSeq
    <3>4. /\ v \in Seq(S) /\ Len(v) = k + 1 /\ v[k + 1] = e
          /\ \A j \in 1..k : v[j] = old[j]
      BY <2>1, <2>2, <3>3, AppendProperties
    <3> QED BY <3>4, SeqIsList
  <2>6. \A j \in 1..(k + 1) : InnerIs(kind[2], v[j])
    <3>1. \A j \in 1..(k + 1) : j = k + 1 \/ j \in 1..k
      BY <2>4
    <3> QED BY <2>3, <2>5, <3>1
  <2>7. IsValue(kind, v)
    BY <1>10, <2>5, <2>6, ManyFacts
  <2>8. t <= s + p
    BY <1>2, <1>5, <2>1, <2>2, <2>5, <2>7, SizeOfAppend
  <2>9. a <= 100
    <3>1. into = InnerDefault(kind[2])
      BY <1>2, <1>10, IntoTyped
    <3> QED BY <1>2, <1>7, <3>1
  <2>10. t \in Nat
    BY <1>2, <2>7, SizeNat
  <2>11. t <= s + (64 * l + 111)
    BY <1>4, <1>6, <2>8, <2>9, <2>10
  <2> QED BY <1>2, <2>7, <2>11
<1> QED BY <1>8, <1>9, <1>10 DEF Embedding

(* Reading an embedded message: a value of its type, not too large.        *)
LEMMA EmbeddedTyped ==
  ASSUME NEW K, InnerLaws(K), NEW kind, IsKind(kind, K), kind[1] \in Embedding,
         NEW old, IsValue(kind, old), NEW data \in Seq(Byte), NEW i \in Nat \ {0}
  PROVE  Typed(kind, old, i, readField(kind, old, 2, data, i))
<1>1. kind[2] \in K
  BY KindFacts
<1>2. PICK part : part = readDelimited(data, i)
  OBVIOUS
<1>3. PICK into, bytes : into = ReadInto(kind, old) /\ bytes = SubSeq(data, part.from, part.to)
  OBVIOUS
<1>4. PICK inner : inner = InnerUnmarshal(kind[2], bytes, into)
  OBVIOUS
<1>5. readField(kind, old, 2, data, i) =
        IF ~part.ok THEN Failed ELSE IF ~inner.ok THEN Failed
        ELSE FieldAt(Placed(kind, old, inner.msg), part.to + 1)
  BY <1>2, <1>3, <1>4 DEF readField, readMessage, FieldAt, Numbers, Embedding
<1>6. CASE ~part.ok \/ ~inner.ok
  BY <1>5, <1>6 DEF Typed
<1>7. CASE part.ok /\ inner.ok
  <2>1. PICK from \in Nat \ {0}, to \in Int, l \in Nat :
          /\ part = [ok |-> TRUE, from |-> from, to |-> to]
          /\ from > i /\ to = from + l - 1 /\ to <= Len(data)
          /\ SubSeq(data, from, to) \in Seq(Byte) /\ Len(SubSeq(data, from, to)) = l
    BY <1>2, <1>7, DelimitedFacts
  <2>2. bytes \in Seq(Byte) /\ Len(bytes) = l /\ part.to = to
    BY <1>3, <2>1
  <2>3. InnerIs(kind[2], into)
    BY <1>3, IntoTyped
  <2>4. \/ inner = [ok |-> FALSE]
        \/ \E m : /\ inner = [ok |-> TRUE, msg |-> m] /\ InnerIs(kind[2], m)
                  /\ InnerSize(kind[2], m) <= InnerSize(kind[2], into) + 64 * Len(bytes)
    BY <1>1, <1>4, <2>2, <2>3 DEF InnerLaws, InnerTypeLaw
  <2>5. PICK m : /\ inner = [ok |-> TRUE, msg |-> m] /\ InnerIs(kind[2], m)
                 /\ InnerSize(kind[2], m) <= InnerSize(kind[2], into) + 64 * l
    BY <1>7, <2>2, <2>4
  <2>6. PICK n, v : n = to + 1 /\ v = Placed(kind, old, m)
    OBVIOUS
  <2>7. n \in Nat /\ n > i + l /\ i \in Nat
    BY <2>1, <2>6
  <2>8. IsValue(kind, v) /\ SizeOf(kind, v) <= SizeOf(kind, old) + (64 * l + 111)
    BY <1>3, <2>5, <2>6, PlacedTyped
  <2>9. GrowsTo(kind, old, i, v, n)
    BY <2>7, <2>8, GrowsBy
  <2>10. inner.msg = m
    BY <2>5
  <2> QED BY <1>5, <1>7, <2>2, <2>6, <2>9, <2>10 DEF Typed
<1> QED BY <1>6, <1>7

(* Reading any field: a value of its type, not too large.                  *)
LEMMA FieldTyped ==
  ASSUME NEW K, InnerLaws(K), NEW kind, IsKind(kind, K), NEW old, IsValue(kind, old),
         NEW data \in Seq(Byte), NEW i \in Nat \ {0}, NEW type
  PROVE  Typed(kind, old, i, readField(kind, old, type, data, i))
<1>1. kind[1] \in Kinds
  BY KindFacts
<1>2. CASE readField(kind, old, type, data, i) = Failed
  BY <1>2 DEF Typed
<1>3. CASE readField(kind, old, type, data, i) # Failed
  <2>1. \/ type = 0 /\ kind[1] \in Numbers \union {"packed"}
        \/ type = 2 /\ kind[1] \notin Numbers
    BY <1>1, <1>3, WrongWireType
  <2>2. CASE kind[1] \in Numbers
    <3>1. type = 0
      BY <2>1, <2>2
    <3> QED BY <2>2, <3>1, NumberTyped
  <2>3. CASE kind[1] = "packed"
    <3>1. type = 0 \/ type = 2
      BY <2>1
    <3> QED BY <2>3, <3>1, PackedFieldTyped
  <2>4. CASE kind[1] \in {"bytes", "strings"}
    <3>1. type = 2
      BY <2>1, <2>4 DEF Numbers
    <3> QED BY <2>4, <3>1, BytesTyped
  <2>5. CASE kind[1] \in Embedding
    <3>1. type = 2
      BY <2>1, <2>5 DEF Numbers, Embedding
    <3> QED BY <2>5, <3>1, EmbeddedTyped
  <2> QED BY <1>1, <2>2, <2>3, <2>4, <2>5 DEF Kinds, Numbers, Embedding
<1> QED BY <1>2, <1>3

(* One field of a message is another.                                      *)
LEMMA PutTyped ==
  ASSUME NEW K, NEW T, NEW n, NEW tag, NEW f, NEW kind, IsRow(K, T, n, tag, f, kind),
         NEW m, Is(T, m), NEW v, IsValue(kind, v), NEW x \in Nat,
         SizeOf(kind, v) <= SizeOf(kind, m[f]) + x
  PROVE  /\ Is(T, Put(m, f, v)) /\ Size(T, m) \in Nat /\ Size(T, Put(m, f, v)) \in Nat
         /\ Size(T, Put(m, f, v)) <= Size(T, m) + x
<1>1. /\ InnerLaws(K) /\ WellFormed(T, K) /\ n \in 1..Len(Encoder[T])
      /\ tag = Encoder[T][n][1] /\ f = Encoder[T][n][2] /\ kind = Encoder[T][n][3]
  BY DEF IsRow
<1>2. PICK l, w : l = Len(Encoder[T]) /\ w = Put(m, f, v)
  OBVIOUS
<1>3. l \in Nat /\ Len(Sizer[T]) = l
  BY <1>1, <1>2, TableFacts
<1>4. f \in Fields(T) /\ KindOf(T, f) = kind /\ Sizer[T][n] = <<f, kind>>
  BY <1>1, <1>2, RowFacts
<1>5. m = [g \in Fields(T) |-> m[g]] /\ \A g \in Fields(T) : IsValue(KindOf(T, g), m[g])
  BY DEF Is
<1>6. w = [g \in Fields(T) |-> w[g]] /\ w[f] = v /\ \A g \in Fields(T) : g # f => w[g] = m[g]
  BY <1>2, <1>4, <1>5 DEF Put
<1>7. Is(T, w)
  <2>1. ASSUME NEW g \in Fields(T) PROVE IsValue(KindOf(T, g), w[g])
    <3>1. CASE g = f
      BY <1>4, <1>6, <3>1
    <3>2. CASE g # f
      BY <1>5, <1>6, <3>2
    <3> QED BY <3>1, <3>2
  <2> QED BY <1>6, <2>1 DEF Is
<1>8. PICK a, b : /\ a = [p \in 1..l |-> SizeOf(Sizer[T][p][2], m[Sizer[T][p][1]])]
                  /\ b = [p \in 1..l |-> SizeOf(Sizer[T][p][2], w[Sizer[T][p][1]])]
  OBVIOUS
<1>9. Len(a) = l /\ Len(b) = l
  <2>1. a = [p \in 1..l |-> a[p]] /\ b = [p \in 1..l |-> b[p]]
    BY <1>8
  <2> QED BY <1>3, <2>1, MakeList
<1>10. Size(T, m) = Sums(a)[l] /\ Size(T, w) = Sums(b)[l]
  BY <1>3, <1>8, <1>9 DEF Size, Total
<1>11. ASSUME NEW p \in 1..l
       PROVE  /\ a[p] \in Nat /\ b[p] \in Nat /\ (p # n => b[p] = a[p])
              /\ p = n => b[p] <= a[p] + x
  <2>1. PICK g, q : g = Encoder[T][p][2] /\ q = Encoder[T][p][3]
    OBVIOUS
  <2>2. g \in Fields(T) /\ KindOf(T, g) = q /\ IsKind(q, K) /\ Sizer[T][p] = <<g, q>>
    BY <1>1, <1>2, <2>1, RowFacts
  <2>3. a[p] = SizeOf(q, m[g]) /\ b[p] = SizeOf(q, w[g])
    BY <1>8, <2>2
  <2>4. IsValue(q, m[g]) /\ IsValue(q, w[g])
    BY <1>7, <2>2 DEF Is
  <2>5. SizeOf(q, m[g]) \in Nat /\ SizeOf(q, w[g]) \in Nat
    BY <1>1, <2>2, <2>4, SizeNat
  <2>6. p # n => g # f
    BY <1>1, <1>2, <2>1 DEF WellFormed
  <2>7. p = n => g = f /\ q = kind
    BY <1>1, <2>1
  <2> QED BY <1>6, <2>2, <2>3, <2>5, <2>6, <2>7
<1>12. AreSizes(a, l) /\ AreSizes(b, l)
  BY <1>3, <1>11 DEF AreSizes
<1>13. OneMore(a, b, l, n, x)
  BY <1>1, <1>2, <1>11, <1>12 DEF OneMore
<1>14. Sums(b)[l] <= Sums(a)[l] + x
  BY <1>13, OneSum
<1>15. Sums(a)[l] \in Nat /\ Sums(b)[l] \in Nat
  <2>1. l \in 0..l
    BY <1>3
  <2> QED BY <1>12, <2>1, SumsNat
<1> QED BY <1>2, <1>7, <1>10, <1>14, <1>15

(* One round of Unmarshal, on any bytes.                                   *)
Advances(T, m, i, p, j) ==
  j \in Nat /\ j > i /\ Is(T, p) /\ Size(T, p) \in Nat /\ Size(T, p) <= Size(T, m) + 64 * (j - i)

(* The size of a message is a natural number.                              *)
LEMMA SizeIsNat ==
  ASSUME NEW K, InnerLaws(K), NEW T, WellFormed(T, K), NEW m, Is(T, m)
  PROVE  Size(T, m) \in Nat
<1>1. Encoded(T, m) \in Seq(Byte) /\ Size(T, m) = Len(Encoded(T, m))
  BY EncodedFacts
<1> QED BY <1>1, Elem

(* One round of Unmarshal fails or keeps the message one of its type.      *)
LEMMA NextTyped ==
  ASSUME NEW K, InnerLaws(K), NEW T, WellFormed(T, K), NEW m, Is(T, m),
         NEW data \in Seq(Byte), NEW i \in Nat \ {0}
  PROVE  \/ readNext(T, data, At(i, m)) = Failed
         \/ \E j, p : readNext(T, data, At(i, m)) = At(j, p) /\ Advances(T, m, i, p, j)
<1>1. PICK s, wire : s = At(i, m) /\ wire = readVarint(data, s.next)
  OBVIOUS
<1>2. s.next = i /\ s.msg = m
  BY <1>1 DEF At
<1>3. PICK num, type : num = FieldNum(wire.groups) /\ type = WireType(wire.groups)
  OBVIOUS
<1>4. PICK rows : rows = {q \in DOMAIN Decoder[T] : Decoder[T][q][1] = num}
  OBVIOUS
<1>5. PICK n : n = CHOOSE q \in rows : TRUE
  OBVIOUS
<1>6. PICK row, next : row = Decoder[T][n] /\ next = skip(data, s.next)
  OBVIOUS
<1>7. PICK field : field = readField(row[3], s.msg[row[2]], type, data, wire.next)
  OBVIOUS
<1>8. readNext(T, data, s) =
        IF ~wire.ok THEN Failed
        ELSE IF type = 4 \/ num <= 0 THEN Failed
        ELSE IF rows # {}
        THEN IF field.ok THEN At(field.next, Put(s.msg, row[2], field.value)) ELSE Failed
        ELSE IF next > 0 /\ next <= Len(data) + 1 THEN At(next, s.msg) ELSE Failed
  BY <1>1, <1>3, <1>4, <1>5, <1>6, <1>7
  DEF readNext, readTag, readTagged, readKnown, readUnknown, setField, Rows, At, Put
<1>9. CASE readNext(T, data, s) = Failed
  BY <1>1, <1>9
<1>10. CASE readNext(T, data, s) # Failed /\ rows # {}
  <2>1. wire.ok /\ field.ok
    BY <1>8, <1>10
  <2>2. readNext(T, data, s) = At(field.next, Put(m, row[2], field.value))
    BY <1>2, <1>8, <1>10, <2>1
  <2>3. n \in DOMAIN Decoder[T]
    BY <1>4, <1>5, <1>10
  <2>4. PICK l : l = Len(Encoder[T])
    OBVIOUS
  <2>5. n \in 1..l
    <3>1. Decoder[T] = [q \in 1..l |->
                          <<Encoder[T][q][1] \div 8, Encoder[T][q][2], Encoder[T][q][3]>>]
      BY <2>4 DEF WellFormed
    <3> QED BY <2>3, <3>1
  <2>6. PICK tag, f, kind : /\ tag = Encoder[T][n][1] /\ f = Encoder[T][n][2]
                            /\ kind = Encoder[T][n][3]
    OBVIOUS
  <2>7. IsRow(K, T, n, tag, f, kind)
    BY <2>4, <2>5, <2>6 DEF IsRow
  <2>8. /\ f \in Fields(T) /\ KindOf(T, f) = kind /\ IsKind(kind, K)
        /\ Decoder[T][n] = <<tag \div 8, f, kind>>
    BY <2>4, <2>5, <2>6, RowFacts
  <2>9. row[2] = f /\ row[3] = kind
    BY <1>6, <2>8
  <2>10. PICK w, old : w = wire.next /\ old = m[f]
    OBVIOUS
  <2>11. field = readField(kind, old, type, data, w)
    BY <1>2, <1>7, <2>9, <2>10
  <2>12. wire.next \in (i + 1)..(Len(data) + 1)
    BY <1>1, <1>2, <2>1, VarintFacts
  <2>13. w \in Nat \ {0} /\ w > i
    BY <2>10, <2>12, Elem
  <2>14. IsValue(kind, old)
    BY <2>8, <2>10 DEF Is
  <2>15. Typed(kind, old, w, field)
    BY <2>8, <2>11, <2>13, <2>14, FieldTyped
  <2>16. PICK v, j : field = FieldAt(v, j) /\ GrowsTo(kind, old, w, v, j)
    BY <2>1, <2>15 DEF Typed, Failed
  <2>17. field.value = v /\ field.next = j
    BY <2>16 DEF FieldAt
  <2>18. /\ j \in Nat /\ j > w /\ IsValue(kind, v)
         /\ SizeOf(kind, v) <= SizeOf(kind, old) + 64 * (j - w + 1)
    BY <2>16 DEF GrowsTo
  <2>19. PICK x, a, b : x = 64 * (j - i) /\ a = SizeOf(kind, old) /\ b = SizeOf(kind, v)
    OBVIOUS
  <2>20. a \in Nat /\ b \in Nat /\ x \in Nat /\ j > i
    BY <2>8, <2>13, <2>14, <2>18, <2>19, SizeNat
  <2>21. b <= a + 64 * (j - w + 1)
    BY <2>18, <2>19
  <2>22. b <= a + x
    BY <2>13, <2>18, <2>19, <2>20, <2>21
  <2>23. SizeOf(kind, v) <= SizeOf(kind, m[f]) + x
    BY <2>10, <2>19, <2>22
  <2>24. /\ Is(T, Put(m, f, v)) /\ Size(T, Put(m, f, v)) \in Nat
         /\ Size(T, Put(m, f, v)) <= Size(T, m) + x
    BY <2>7, <2>18, <2>20, <2>23, PutTyped
  <2>25. Advances(T, m, i, Put(m, f, v), j)
    BY <2>18, <2>19, <2>20, <2>24 DEF Advances
  <2> QED BY <1>1, <2>2, <2>9, <2>17, <2>25
<1>11. CASE readNext(T, data, s) # Failed /\ rows = {}
  <2>1. readNext(T, data, s) = At(next, m) /\ next > 0
    BY <1>2, <1>8, <1>11
  <2>2. next \in Nat /\ next > i
    BY <1>2, <1>6, <2>1, SkipFacts
  <2>3. Size(T, m) \in Nat
    BY SizeIsNat
  <2>4. Size(T, m) <= Size(T, m) + 64 * (next - i)
    <3>1. PICK a : a = Size(T, m)
      OBVIOUS
    <3> QED BY <2>2, <2>3, <3>1
  <2>5. Advances(T, m, i, m, next)
    BY <2>2, <2>3, <2>4 DEF Advances
  <2> QED BY <1>1, <2>1, <2>5
<1> QED BY <1>9, <1>10, <1>11

(* The loop of Unmarshal ends, and what it accepts is a message.           *)
LEMMA TypeLaw ==
  ASSUME NEW K, InnerLaws(K), NEW T, WellFormed(T, K), NEW o, Is(T, o), NEW data \in Seq(Byte)
  PROVE  \/ Unmarshal(T, data, o) = Failed
         \/ \E m : /\ Unmarshal(T, data, o) = [ok |-> TRUE, msg |-> m] /\ Is(T, m)
                   /\ Size(T, m) <= Size(T, o) + 64 * Len(data)
<1>1. PICK N, to, g : N = LastRound(data) /\ to = Len(data) /\ g = reading(T, data, o)
  OBVIOUS
<1>2. N \in Nat /\ N = to + 1 /\ to \in Nat
  BY <1>1, RoundsFacts, Elem
<1>3. g[0] = At(1, o) /\ Ends(g, to, N) /\ Goes(g, T, data, to, N)
  <2>1. LastRound(data) \in Nat
    BY <1>1, <1>2
  <2>2. /\ g[0] = [ok |-> TRUE, next |-> 1, msg |-> o]
        /\ Ends(g, to, LastRound(data)) /\ Goes(g, T, data, to, LastRound(data))
    BY <1>1, <2>1, ReadingRec
  <2> QED BY <1>1, <2>2 DEF At
<1>4. PICK z : z = Size(T, o)
  OBVIOUS
<1>5. z \in Nat
  BY <1>4, SizeIsNat
<1> DEFINE P(k) == \/ g[k] = Failed
                   \/ \E i \in Nat \ {0} : \E m : /\ g[k] = At(i, m) /\ Is(T, m)
                                                  /\ Size(T, m) \in Nat /\ Size(T, m) <= z + 64 * (i - 1)
                                                  /\ (i > to \/ i > k)
           S == {k \in Nat : k <= N => P(k)}
<1>6. 0 \in S
  <2>1. 1 \in Nat \ {0} /\ Size(T, o) \in Nat /\ Size(T, o) <= z + 64 * (1 - 1) /\ 1 > 0
    BY <1>4, <1>5
  <2> QED BY <1>3, <2>1
<1>7. ASSUME NEW k \in Nat, k \in S PROVE k + 1 \in S
  <2>1. ASSUME k + 1 <= N PROVE P(k + 1)
    <3>1. k + 1 \in 1..N /\ (k + 1) - 1 = k /\ P(k)
      BY <1>2, <1>7, <2>1
    <3>2. CASE Ended(g[k], to)
      <4>1. g[k + 1] = g[k]
        BY <1>3, <3>1, <3>2 DEF Ends
      <4>2. CASE g[k] = Failed
        BY <4>1, <4>2
      <4>3. CASE g[k] # Failed
        <5>1. PICK i \in Nat \ {0} : \E m : g[k] = At(i, m) /\ Is(T, m)
                  /\ Size(T, m) \in Nat /\ Size(T, m) <= z + 64 * (i - 1)
          BY <3>1, <4>3
        <5>2. PICK m : g[k] = At(i, m) /\ Is(T, m)
                  /\ Size(T, m) \in Nat /\ Size(T, m) <= z + 64 * (i - 1)
          BY <5>1
        <5>3. i > to
          BY <1>2, <3>2, <5>2 DEF Ended, At
        <5> QED BY <4>1, <5>2, <5>3
      <4> QED BY <4>2, <4>3
    <3>3. CASE ~Ended(g[k], to)
      <4>1. g[k + 1] = readNext(T, data, g[k])
        BY <1>3, <3>1, <3>3 DEF Goes
      <4>2. g[k] # Failed
        BY <3>3 DEF Ended, Failed
      <4>3. PICK i \in Nat \ {0} : \E m : g[k] = At(i, m) /\ Is(T, m)
                /\ Size(T, m) \in Nat /\ Size(T, m) <= z + 64 * (i - 1) /\ (i > to \/ i > k)
        BY <3>1, <4>2
      <4>4. PICK m : g[k] = At(i, m) /\ Is(T, m)
                /\ Size(T, m) \in Nat /\ Size(T, m) <= z + 64 * (i - 1) /\ (i > to \/ i > k)
        BY <4>3
      <4>5. i <= to
        BY <3>3, <4>4 DEF Ended, At
      <4>6. i > k
        BY <1>2, <4>4, <4>5
      <4>7. \/ g[k + 1] = Failed
            \/ \E j, p : g[k + 1] = At(j, p) /\ Advances(T, m, i, p, j)
        BY <4>1, <4>4, NextTyped
      <4>8. CASE g[k + 1] = Failed
        BY <4>8
      <4>9. CASE g[k + 1] # Failed
        <5>1. PICK j, p : g[k + 1] = At(j, p) /\ Advances(T, m, i, p, j)
          BY <4>7, <4>9
        <5>2. PICK a, b : a = Size(T, m) /\ b = Size(T, p)
          OBVIOUS
        <5>3. /\ j \in Nat /\ j > i /\ Is(T, p) /\ b \in Nat /\ a \in Nat
              /\ b <= a + 64 * (j - i) /\ a <= z + 64 * (i - 1)
          BY <4>4, <5>1, <5>2 DEF Advances
        <5>4. b <= z + 64 * (j - 1) /\ j \in Nat \ {0} /\ j > k + 1
          BY <1>5, <4>6, <5>3
        <5> QED BY <5>1, <5>2, <5>3, <5>4
      <4> QED BY <4>8, <4>9
    <3> QED BY <3>2, <3>3
  <2> QED BY <2>1
<1> HIDE DEF S
<1>8. \A k \in Nat : k \in S
  BY <1>6, <1>7, Induction
<1>9. P(N)
  BY <1>2, <1>8 DEF S
<1>10. N \in 0..LastRound(data) /\ Len(data) \in Nat /\ g = reading(T, data, o)
  BY <1>1, <1>2
<1>11. CASE g[N] = Failed
  <2>1. ~g[N].ok /\ Ended(g[N], Len(data))
    BY <1>11 DEF Failed, Ended
  <2> HIDE DEF P
  <2>2. Unmarshal(T, data, o) = Failed
    BY <1>10, <2>1, ReadingEnd
  <2> QED BY <2>2
<1>12. CASE g[N] # Failed
  <2>1. PICK i \in Nat \ {0} : \E m : g[N] = At(i, m) /\ Is(T, m)
            /\ Size(T, m) \in Nat /\ Size(T, m) <= z + 64 * (i - 1) /\ (i > to \/ i > N)
    BY <1>9, <1>12
  <2>2. PICK m : g[N] = At(i, m) /\ Is(T, m)
            /\ Size(T, m) \in Nat /\ Size(T, m) <= z + 64 * (i - 1) /\ (i > to \/ i > N)
    BY <2>1
  <2>3. i > to
    BY <1>2, <2>2
  <2>4. g[N].ok /\ g[N].next = i /\ g[N].msg = m
    BY <2>2 DEF At
  <2>5. Ended(g[N], Len(data))
    BY <1>1, <1>2, <2>3, <2>4 DEF Ended
  <2> HIDE DEF P
  <2>6. Unmarshal(T, data, o) = IF i = Len(data) + 1 THEN [ok |-> TRUE, msg |-> m] ELSE Failed
    BY <1>10, <2>4, <2>5, ReadingEnd
  <2>7. CASE i = Len(data) + 1
    <3>1. i - 1 = Len(data)
      BY <1>10, <2>7
    <3> QED BY <1>4, <2>2, <2>6, <2>7, <3>1
  <2>8. CASE i # Len(data) + 1
    BY <2>6, <2>8
  <2> QED BY <2>7, <2>8
<1> QED BY <1>11, <1>12

-----------------------------------------------------------------------------
(* What holds of the messages that are embedded holds of those that embed  *)
(* them.                                                                   *)

DefaultLaw(T) ==
  /\ Is(T, Default(T)) /\ Size(T, Default(T)) <= 100
  /\ \A m : Is(T, m) => Merge(T, Default(T), m) = m

SizeLaw(T) ==
  \A m : Is(T, m) => Encoded(T, m) \in Seq(Byte) /\ Size(T, m) = Len(Encoded(T, m))

MergeLaw(T) ==
  \A o, m : Is(T, o) /\ Is(T, m) => Is(T, Merge(T, o, m))

UnmarshalLaw(T) ==
  \A o, m : Is(T, o) /\ Is(T, m) /\ Len(Encoded(T, m)) < MaxLength =>
    Unmarshal(T, Encoded(T, m), o) = [ok |-> TRUE, msg |-> Merge(T, o, m)]

AcceptedLaw(T) ==
  \A o, data : Is(T, o) /\ data \in Seq(Byte) =>
    \/ Unmarshal(T, data, o) = [ok |-> FALSE]
    \/ \E m : /\ Unmarshal(T, data, o) = [ok |-> TRUE, msg |-> m] /\ Is(T, m)
              /\ Size(T, m) <= Size(T, o) + 64 * Len(data)

(* If Size, MarshalToSizedBuffer and Unmarshal of the embedded messages    *)
(* agree with one another, so do those of a message with tables that       *)
(* agree: what is written is read back, what is accepted is a message.     *)
THEOREM CodecLaws ==
  ASSUME NEW K, InnerLaws(K), NEW T, Coded(T, K)
  PROVE  DefaultLaw(T) /\ SizeLaw(T) /\ MergeLaw(T) /\ UnmarshalLaw(T) /\ AcceptedLaw(T)
<1>1. WellFormed(T, K) /\ Size(T, Default(T)) <= 100
  BY DEF Coded, Small
<1>2. Is(T, Default(T))
  BY <1>1, DefaultFacts
<1>3. DefaultLaw(T)
  BY <1>1, <1>2, MergeFacts DEF DefaultLaw
<1>4. SizeLaw(T)
  BY <1>1, EncodedFacts DEF SizeLaw
<1>5. MergeLaw(T)
  BY <1>1, MergeFacts DEF MergeLaw
<1>6. UnmarshalLaw(T)
  BY <1>1, ReadLaw DEF UnmarshalLaw
<1>7. AcceptedLaw(T)
  BY <1>1, TypeLaw DEF AcceptedLaw, Failed
<1> QED BY <1>3, <1>4, <1>5, <1>6, <1>7

-----------------------------------------------------------------------------
(* A message that is cut short.                                            *)

(* The part that a position falls into.                                    *)
LEMMA PartOf ==
  ASSUME NEW parts, NEW N, IsParts(parts, N), NEW c \in Nat \ {0}
  PROVE  c <= Len(Joined(parts)) =>
           \E n \in 1..N : Len(Prefixes(parts)[n - 1]) < c /\ c <= Len(Prefixes(parts)[n])
<1>1. HAVE c <= Len(Joined(parts))
<1>2. N \in Nat /\ N \in 0..N
  BY DEF IsParts
<1>3. \A n \in 0..N : Len(Prefixes(parts)[n]) \in Nat /\ Joined(parts) = Prefixes(parts)[N]
  BY PrefixGrows
<1> DEFINE S == {n \in 0..N : c <= Len(Prefixes(parts)[n])}
<1>4. N \in S /\ S \subseteq Nat
  BY <1>1, <1>2, <1>3
<1>5. PICK n \in S : \A p \in S : n <= p
  <2> HIDE DEF S
  <2> QED BY <1>4, Least
<1>6. n \in 0..N /\ c <= Len(Prefixes(parts)[n])
  BY <1>5
<1>7. n # 0
  <2>1. Prefixes(parts)[0] = <<>> /\ Len(<<>>) = 0
    BY PrefixesRec, EmptySeq
  <2>2. Len(Prefixes(parts)[0]) = 0
    BY <2>1
  <2> QED BY <1>6, <2>2
<1>8. n \in 1..N /\ n - 1 \in 0..N /\ ~(n <= n - 1)
  BY <1>2, <1>6, <1>7
<1>9. n - 1 \notin S
  BY <1>5, <1>8
<1>10. ~(c <= Len(Prefixes(parts)[n - 1]))
  BY <1>8, <1>9
<1>11. Len(Prefixes(parts)[n - 1]) \in Nat
  BY <1>3, <1>8
<1>12. Len(Prefixes(parts)[n - 1]) < c
  BY <1>10, <1>11
<1> QED BY <1>6, <1>8, <1>12

(* The data are the beginning of the bytes of message m, read into o.      *)
IsCut(K, T, m, o, data) ==
  /\ InnerLaws(K) /\ WellFormed(T, K) /\ Is(T, m) /\ Is(T, o)
  /\ data \in Seq(Byte) /\ Agrees(data, 1, Encoded(T, m)) /\ Len(Encoded(T, m)) < MaxLength

(* The loop is at position i + 1, at a field f of the message w that it    *)
(* has read, and its pieces are next.                                      *)
IsAt(T, o, data, i, w, f, kind, pieces) ==
  /\ i \in Nat /\ Reached(T, data, o, i + 1, w)
  /\ w = [g \in Fields(T) |-> w[g]] /\ IsValue(kind, w[f])
  /\ Agrees(data, i + 1, Joined(pieces)) /\ Len(Joined(pieces)) < MaxLength

Comes(T, o, data, i, f, kind, pieces) ==
  i <= Len(data) => \E w : IsAt(T, o, data, i, w, f, kind, pieces)

(* The loop comes to each field that starts in the data.                   *)
LEMMA FieldReached ==
  ASSUME NEW K, NEW T, NEW m, NEW o, NEW data, IsCut(K, T, m, o, data),
         NEW n, NEW tag, NEW f, NEW kind, IsRow(K, T, n, tag, f, kind),
         NEW v, v = m[f], NEW pieces, pieces = Pieces(tag, kind, v),
         NEW fields, fields = EncodedFields(T, m), NEW x, x = Len(Prefixes(fields)[n - 1])
  PROVE  /\ x \in Nat /\ IsValue(kind, v)
         /\ Comes(T, o, data, x, f, kind, pieces)
<1>1. PICK parts, l : parts = EncodedFields(T, m) /\ l = Len(Encoder[T])
  OBVIOUS
<1>2. /\ InnerLaws(K) /\ WellFormed(T, K) /\ Is(T, m) /\ Is(T, o)
      /\ data \in Seq(Byte) /\ Agrees(data, 1, Joined(parts)) /\ Len(Joined(parts)) < MaxLength
  BY <1>1 DEF IsCut, Encoded
<1>3. /\ tag = Encoder[T][n][1] /\ f = Encoder[T][n][2] /\ kind = Encoder[T][n][3]
      /\ n \in 1..l
  BY <1>1 DEF IsRow
<1>4. IsParts(parts, l) /\ parts[n] = Joined(pieces)
  BY <1>1, <1>2, <1>3, EncodedFacts
<1>5. l \in Nat /\ n \in 1..l /\ n \in 0..l /\ n - 1 \in 0..l
  BY <1>1, <1>2, <1>3, TableFacts
<1>6. f \in Fields(T) /\ KindOf(T, f) = kind
  BY <1>1, <1>2, <1>3, RowFacts
<1>7. IsValue(kind, v) /\ IsValue(kind, o[f]) /\ o = [g \in Fields(T) |-> o[g]]
  BY <1>2, <1>6 DEF Is
<1>8. PICK c, y, all :
        c = Len(Joined(pieces)) /\ y = Len(Prefixes(parts)[n]) /\ all = Len(Joined(parts))
  OBVIOUS
<1>9. y = x + c /\ Joined(pieces) \in Seq(Byte)
  BY <1>1, <1>4, <1>5, <1>8, PartFollows
<1>10. x \in Nat /\ y \in Nat /\ all \in Nat /\ y <= all
  BY <1>1, <1>4, <1>5, <1>8, PrefixGrows
<1>11. c \in Nat
  BY <1>8, <1>9, Elem
<1>12. all < MaxLength
  BY <1>2, <1>8
<1>13. c < MaxLength
  BY <1>9, <1>10, <1>11, <1>12, SMT DEF MaxLength
<1>14. ASSUME x <= Len(data) PROVE \E w : IsAt(T, o, data, x, w, f, kind, pieces)
  <2>1. Reached(T, data, o, 1, o) /\ 1 \in Nat \ {0} /\ Len(data) \in Nat
    BY <1>2, ReachedStart, Elem
  <2>2. \A p \in 0..l : 1 + Len(Prefixes(parts)[p]) - 1 <= Len(data) =>
          Reached(T, data, o, 1 + Len(Prefixes(parts)[p]), Overlaid(T, o, m, p))
    BY <1>1, <1>2, <2>1, RowsRead
  <2>3. PICK w : w = Overlaid(T, o, m, n - 1)
    OBVIOUS
  <2>4. 1 + x - 1 <= Len(data) /\ 1 + x = x + 1
    BY <1>10, <1>14, <2>1
  <2>5. Reached(T, data, o, x + 1, w)
    BY <1>1, <1>5, <2>2, <2>3, <2>4
  <2>6. Overlays(T, o, m, l)
    BY <1>1, <1>2, <1>7, OverlaidFacts
  <2>7. w[f] = o[f]
    BY <1>3, <1>5, <2>3, <2>6 DEF Overlays
  <2>8. w = [g \in Fields(T) |-> w[g]]
    BY <2>3 DEF Overlaid
  <2>9. Agrees(data, 1 + x, parts[n])
    BY <1>1, <1>2, <1>4, <1>5, AgreesPart
  <2>10. Agrees(data, x + 1, Joined(pieces))
    BY <1>4, <2>4, <2>9
  <2>11. Len(Joined(pieces)) < MaxLength
    BY <1>8, <1>13
  <2> QED BY <1>7, <1>10, <2>5, <2>7, <2>8, <2>10, <2>11 DEF IsAt
<1> QED BY <1>1, <1>7, <1>8, <1>9, <1>10, <1>14 DEF Comes

Reaches(T, o, data, i, c) ==
  i + c <= Len(data) => \E z : Reached(T, data, o, i + c + 1, z)

(* From there it comes to each occurrence that starts in the data.         *)
LEMMA OccurrenceReached ==
  ASSUME NEW K, NEW T, NEW n, NEW tag, NEW f, NEW kind, IsRow(K, T, n, tag, f, kind),
         NEW v, IsValue(kind, v), NEW pieces, pieces = Pieces(tag, kind, v),
         NEW o, NEW data \in Seq(Byte), NEW x \in Nat, NEW w,
         IsAt(T, o, data, x, w, f, kind, pieces),
         NEW j \in 0..Len(Elements(kind, v)), NEW y, y = Len(Prefixes(pieces)[j])
  PROVE  y \in Nat /\ Reaches(T, o, data, x, y)
<1>1. /\ InnerLaws(K) /\ WellFormed(T, K) /\ n \in 1..Len(Encoder[T])
      /\ tag = Encoder[T][n][1] /\ f = Encoder[T][n][2] /\ kind = Encoder[T][n][3]
  BY DEF IsRow
<1>2. tag \in Tags /\ IsKind(kind, K)
  BY <1>1, RowFacts
<1>3. PICK l : l = Len(Elements(kind, v))
  OBVIOUS
<1>4. IsParts(pieces, l)
  BY <1>1, <1>2, <1>3, PiecesFacts
<1>5. y \in Nat /\ l \in Nat
  BY <1>3, <1>4, PrefixGrows DEF IsParts
<1>6. PICK u \in Nat : u = y
  BY <1>5
<1>7. PICK s \in Nat : s = x + u
  OBVIOUS
<1>8. ASSUME s <= Len(data) PROVE \E z : Reached(T, data, o, s + 1, z)
  <2>1. PICK a, i : a = w[f] /\ i = x + 1
    OBVIOUS
  <2>2. /\ Reached(T, data, o, i, w) /\ w = [g \in Fields(T) |-> w[g]] /\ IsValue(kind, a)
        /\ Agrees(data, i, Joined(pieces)) /\ Len(Joined(pieces)) < MaxLength
    BY <2>1 DEF IsAt
  <2>3. i \in Nat \ {0} /\ Len(data) \in Nat
    BY <2>1, Elem
  <2>4. \A q \in 0..l : i + Len(Prefixes(pieces)[q]) - 1 <= Len(data) =>
          Reached(T, data, o, i + Len(Prefixes(pieces)[q]), Put(w, f, Filled(kind, a, v, q)))
    BY <1>3, <2>1, <2>2, <2>3, PiecesRead
  <2>5. i + u - 1 = s /\ i + u = s + 1
    BY <1>7, <2>1
  <2> QED BY <1>3, <1>6, <1>8, <2>4, <2>5
<1> QED BY <1>5, <1>6, <1>7, <1>8 DEF Reaches

(* Unmarshal refuses data that end inside of an occurrence of a field, and *)
(* accepts data that end after one.                                        *)
LEMMA CutLaw ==
  ASSUME NEW K, NEW T, NEW m, NEW o, NEW data, IsCut(K, T, m, o, data),
         Len(data) <= Len(Encoded(T, m))
  PROVE  /\ Len(data) \in Boundaries(T, m) =>
              \E z : Unmarshal(T, data, o) = [ok |-> TRUE, msg |-> z]
         /\ Len(data) \notin Boundaries(T, m) => Unmarshal(T, data, o) = Failed
<1>1. PICK parts, l, d : parts = EncodedFields(T, m) /\ l = Len(Encoder[T]) /\ d = Len(data)
  OBVIOUS
<1>2. /\ InnerLaws(K) /\ WellFormed(T, K) /\ Is(T, m) /\ Is(T, o)
      /\ data \in Seq(Byte) /\ d <= Len(Joined(parts))
  BY <1>1 DEF IsCut, Encoded
<1>3. d \in Nat /\ l \in Nat
  BY <1>1, <1>2, TableFacts, Elem
<1>4. IsParts(parts, l)
  BY <1>1, <1>2, EncodedFacts
<1>5. ASSUME NEW z, Reached(T, data, o, d + 1, z)
      PROVE  Unmarshal(T, data, o) = [ok |-> TRUE, msg |-> z]
  BY <1>1, <1>2, <1>3, <1>5, ReachedEnd
<1>6. CASE d = 0
  <2>1. Reached(T, data, o, 1, o) /\ d + 1 = 1
    BY <1>2, <1>6, ReachedStart
  <2>2. d \in Boundaries(T, m)
    BY <1>6 DEF Boundaries
  <2> QED BY <1>1, <1>5, <2>1, <2>2
<1>7. CASE d \in Boundaries(T, m) /\ d # 0
  <2>1. PICK n \in 1..l : \E j \in 0..Occurrences(T, m, n) : d = EndOf(T, m, n, j)
    BY <1>1, <1>7 DEF Boundaries
  <2>2. PICK j \in 0..Occurrences(T, m, n) : d = EndOf(T, m, n, j)
    BY <2>1
  <2>3. PICK tag, f, kind, v, pieces :
          /\ tag = Encoder[T][n][1] /\ f = Encoder[T][n][2] /\ kind = Encoder[T][n][3]
          /\ v = m[f] /\ pieces = Pieces(tag, kind, v)
    OBVIOUS
  <2>4. IsRow(K, T, n, tag, f, kind)
    BY <1>1, <1>2, <2>1, <2>3 DEF IsRow
  <2>5. PICK x, y : x = Len(Prefixes(parts)[n - 1]) /\ y = Len(Prefixes(pieces)[j])
    OBVIOUS
  <2>6. d = x + y /\ j \in 0..Len(Elements(kind, v))
    BY <1>1, <2>2, <2>3, <2>5 DEF EndOf, Occurrences
  <2>7. /\ x \in Nat /\ IsValue(kind, v)
        /\ Comes(T, o, data, x, f, kind, pieces)
    BY <1>1, <2>3, <2>4, <2>5, FieldReached
  <2>8. y \in Nat
    <3>1. tag \in Tags /\ IsKind(kind, K)
      BY <1>1, <1>2, <2>3, RowFacts
    <3>2. IsParts(pieces, Len(Elements(kind, v)))
      BY <1>2, <2>3, <2>7, <3>1, PiecesFacts
    <3> QED BY <2>5, <2>6, <3>2, PrefixGrows
  <2>9. x <= d
    BY <1>3, <2>6, <2>7, <2>8
  <2>10. PICK w : IsAt(T, o, data, x, w, f, kind, pieces)
    BY <1>1, <2>7, <2>9 DEF Comes
  <2>11. Reaches(T, o, data, x, y)
    BY <1>2, <2>3, <2>4, <2>5, <2>6, <2>7, <2>10, OccurrenceReached, ZenonT(60)
  <2>12. x + y <= Len(data)
    BY <1>1, <1>3, <2>6
  <2>13. PICK z : Reached(T, data, o, d + 1, z)
    BY <2>6, <2>11, <2>12 DEF Reaches
  <2> QED BY <1>1, <1>5, <1>7, <2>13
<1>8. CASE d \notin Boundaries(T, m)
  <2>1. d # 0
    BY <1>8 DEF Boundaries
  <2>2. PICK n \in 1..l : Len(Prefixes(parts)[n - 1]) < d /\ d <= Len(Prefixes(parts)[n])
    BY <1>2, <1>3, <1>4, <2>1, PartOf
  <2>3. PICK tag, f, kind, v, pieces :
          /\ tag = Encoder[T][n][1] /\ f = Encoder[T][n][2] /\ kind = Encoder[T][n][3]
          /\ v = m[f] /\ pieces = Pieces(tag, kind, v)
    OBVIOUS
  <2>4. IsRow(K, T, n, tag, f, kind)
    BY <1>1, <1>2, <2>2, <2>3 DEF IsRow
  <2>5. PICK x, all : x = Len(Prefixes(parts)[n - 1]) /\ all = Len(Joined(pieces))
    OBVIOUS
  <2>6. x \in Nat /\ IsValue(kind, v) /\ Comes(T, o, data, x, f, kind, pieces)
    BY <1>1, <2>3, <2>4, <2>5, FieldReached
  <2>7. x < d /\ d <= x + all
    <3>1. parts[n] = Joined(pieces)
      BY <1>1, <1>2, <2>3, EncodedFacts
    <3>2. Len(Prefixes(parts)[n]) = x + all
      BY <1>4, <2>5, <3>1, PartFollows
    <3> QED BY <2>2, <2>5, <3>2
  <2>8. PICK w : IsAt(T, o, data, x, w, f, kind, pieces)
    BY <1>1, <1>3, <2>6, <2>7 DEF Comes
  <2>9. tag \in Tags /\ IsKind(kind, K)
    BY <1>1, <1>2, <2>3, RowFacts
  <2>10. PICK es, q : es = Elements(kind, v) /\ q = Len(es)
    OBVIOUS
  <2>11. /\ IsParts(pieces, q)
         /\ \A j \in 1..q : pieces[j] = Piece(tag, kind, es[j]) /\ IsElement(kind, es[j])
    <3>1. InnerLaws(K) /\ IsValue(kind, v) /\ pieces = Pieces(tag, kind, v)
      BY <1>2, <2>3, <2>6
    <3> QED BY ONLY <2>9, <2>10, <3>1, PiecesFacts
  <2>12. q \in Nat /\ all \in Nat
    BY <2>5, <2>11, PrefixGrows DEF IsParts
  <2>13. PICK c : c = d - x
    OBVIOUS
  <2>14. c \in Nat \ {0} /\ c <= all
    BY <1>3, <2>6, <2>7, <2>12, <2>13
  <2>15. PICK j \in 1..q : Len(Prefixes(pieces)[j - 1]) < c /\ c <= Len(Prefixes(pieces)[j])
    BY <2>5, <2>11, <2>14, PartOf
  <2>16. PICK y, t, u : /\ y = Len(Prefixes(pieces)[j - 1]) /\ t = Len(Prefixes(pieces)[j])
                        /\ u = Len(pieces[j])
    OBVIOUS
  <2>17. t = y + u /\ pieces[j] \in Seq(Byte)
    BY <2>11, <2>16, PartFollows
  <2>18. j \in 0..q /\ j - 1 \in 0..q
    BY <2>12
  <2>19. y \in Nat /\ t \in Nat /\ t <= all
    BY <2>5, <2>11, <2>16, <2>18, PrefixGrows
  <2>20. u \in Nat
    BY <2>16, <2>17, Elem
  <2>21. d # x + t
    <3>1. x + t = EndOf(T, m, n, j) /\ j \in 0..Occurrences(T, m, n)
      BY <1>1, <2>3, <2>5, <2>10, <2>16, <2>18 DEF EndOf, Occurrences
    <3>2. EndOf(T, m, n, j) \in Boundaries(T, m)
      BY <1>1, <3>1 DEF Boundaries
    <3> QED BY <1>8, <3>1, <3>2
  <2>22. y < c /\ c <= t
    BY <2>15, <2>16
  <2>23. x + y < d /\ d < x + t
    BY <1>3, <2>6, <2>13, <2>19, <2>21, <2>22
  <2>24. Reaches(T, o, data, x, y)
    BY <1>2, <2>3, <2>4, <2>6, <2>8, <2>10, <2>16, <2>18, OccurrenceReached, ZenonT(60)
  <2>25. PICK i : i = x + y + 1
    OBVIOUS
  <2>26. x + y <= d /\ i \in Nat \ {0} /\ i <= d /\ d < i + u - 1
    <3>1. x + y <= d
      BY <1>3, <2>6, <2>19, <2>23
    <3>2. i \in Nat \ {0} /\ i <= d
      BY <1>3, <2>6, <2>19, <2>23, <2>25
    <3>3. d < i + u - 1
      BY <1>3, <2>6, <2>17, <2>19, <2>20, <2>23, <2>25
    <3> QED BY <3>1, <3>2, <3>3
  <2>27. PICK z : Reached(T, data, o, i, z)
    BY <1>1, <2>24, <2>25, <2>26 DEF Reaches
  <2>28. PICK e, p : e = es[j] /\ p = pieces[j]
    OBVIOUS
  <2>29. p = Piece(tag, kind, e) /\ IsElement(kind, e) /\ Len(p) = u
    BY <2>11, <2>16, <2>28
  <2>30. Agrees(data, i, p)
    <3>1. PICK k : k = x + 1
      OBVIOUS
    <3>2. k \in Nat \ {0} /\ k + y = i
      BY <2>6, <2>19, <2>25, <3>1
    <3>3. Agrees(data, k, Joined(pieces))
      BY <2>8, <3>1 DEF IsAt
    <3>4. Agrees(data, k + y, pieces[j])
      BY <1>2, <2>11, <2>16, <3>2, <3>3, AgreesPart
    <3> QED BY <2>28, <3>2, <3>4
  <2>31. Len(p) < MaxLength
    <3>1. all < MaxLength
      BY <2>5, <2>8 DEF IsAt
    <3>2. u < MaxLength
      BY <2>17, <2>19, <2>20, <2>12, <3>1, SMT DEF MaxLength
    <3> QED BY <2>29, <3>2
  <2>32. i <= Len(data) /\ Len(data) < i + Len(p) - 1
    BY <1>1, <2>26, <2>29
  <2>33. readNext(T, data, At(i, z)) = Failed
    BY <1>2, <2>4, <2>26, <2>29, <2>30, <2>31, <2>32, PieceCut
  <2>34. Unmarshal(T, data, o) = Failed
    BY <1>2, <2>26, <2>27, <2>32, <2>33, ReachedFail
  <2> QED BY <1>1, <1>8, <2>34
<1> QED BY <1>1, <1>6, <1>7, <1>8

-----------------------------------------------------------------------------
(* Two messages, one after the other.                                      *)

(* Bytes and what follows them.                                            *)
LEMMA AgreesBoth ==
  ASSUME NEW a \in Seq(Byte), NEW b \in Seq(Byte), NEW l, l = Len(a)
  PROVE  /\ Agrees(a \o b, 1, a) /\ Agrees(a \o b, 1 + l, b)
<1>1. PICK c, n : c = a \o b /\ n = Len(b)
  OBVIOUS
<1>2. /\ l \in Nat /\ n \in Nat /\ \A k \in 1..l : c[k] = a[k]
      /\ \A k \in 1..n : c[l + k] = b[k]
  BY <1>1, ConcatFacts
<1>3. \A k \in 1..l : 1 + k - 1 = k
  BY <1>2
<1>4. \A k \in 1..n : (1 + l) + k - 1 = l + k
  BY <1>2
<1>5. Agrees(c, 1, a)
  BY <1>2, <1>3 DEF Agrees
<1>6. Agrees(c, 1 + l, b)
  BY <1>1, <1>2, <1>4 DEF Agrees
<1> QED BY <1>1, <1>5, <1>6

(* The second message is read into the first.                              *)
LEMMA JoinLaw ==
  ASSUME NEW K, InnerLaws(K), NEW T, WellFormed(T, K), NEW a, Is(T, a), NEW b, Is(T, b),
         NEW data, data = Encoded(T, a) \o Encoded(T, b), Len(data) < MaxLength
  PROVE  Unmarshal(T, data, Default(T)) = [ok |-> TRUE, msg |-> Merge(T, a, b)]
<1>1. PICK o, x, y : o = Default(T) /\ x = Encoded(T, a) /\ y = Encoded(T, b)
  OBVIOUS
<1>2. Is(T, o) /\ Merge(T, o, a) = a
  BY <1>1, DefaultFacts, MergeFacts
<1>3. x \in Seq(Byte) /\ y \in Seq(Byte)
  BY <1>1, EncodedFacts
<1>4. PICK c, d, l : c = Len(x) /\ d = Len(y) /\ l = Len(data)
  OBVIOUS
<1>5. data \in Seq(Byte) /\ l = c + d /\ c \in Nat /\ d \in Nat /\ data = x \o y
  BY <1>1, <1>3, <1>4, ConcatFacts
<1>6. l < MaxLength
  BY <1>4
<1>7. c < MaxLength /\ d < MaxLength
  BY <1>5, <1>6, SMT DEF MaxLength
<1>8. Agrees(data, 1, x) /\ Agrees(data, 1 + c, y)
  BY <1>3, <1>4, <1>5, AgreesBoth
<1>9. PICK i : i = 1 + c
  OBVIOUS
<1>10. i \in Nat \ {0} /\ 1 \in Nat \ {0} /\ 1 + c - 1 <= l /\ i + d - 1 <= l /\ i + d = l + 1
  BY <1>5, <1>9
<1>11. Reached(T, data, o, 1, o)
  BY <1>5, ReachedStart
<1>12. Reached(T, data, o, 1 + c, Merge(T, o, a))
  BY <1>1, <1>2, <1>4, <1>5, <1>7, <1>8, <1>10, <1>11, MessageRead
<1>13. Reached(T, data, o, i, a)
  BY <1>2, <1>9, <1>12
<1>14. Reached(T, data, o, i + d, Merge(T, a, b))
  BY <1>1, <1>4, <1>5, <1>7, <1>8, <1>9, <1>10, <1>13, MessageRead
<1>15. PICK j : j = i + d
  OBVIOUS
<1>16. j \in Nat /\ j = Len(data) + 1
  BY <1>4, <1>5, <1>10, <1>15
<1> QED BY <1>1, <1>5, <1>14, <1>15, <1>16, ReachedEnd

-----------------------------------------------------------------------------
(* Fields that the type does not have.                                     *)

SkipsBy(data, s, d, w, type, r, l) ==
  /\ type = 0 /\ r.ok => skipOne(data, s) = SkipState(r.next, d)
  /\ type = 1 => skipOne(data, s) = SkipState(w + 8, d)
  /\ type = 2 /\ r.ok /\ l >= 0 => skipOne(data, s) = SkipState(r.next + l, d)
  /\ type = 3 => skipOne(data, s) = SkipState(w, d + 1)
  /\ type = 4 /\ d # 0 => skipOne(data, s) = SkipState(w, d - 1)
  /\ type = 5 => skipOne(data, s) = SkipState(w + 4, d)

(* skipTypes after one field.                                              *)
LEMMA SkipsOne ==
  ASSUME NEW data \in Seq(Byte), NEW s, NEW n \in Nat \ {0}, NEW d \in Nat,
         s.next = n, s.depth = d, n <= Len(data),
         NEW wire, wire = readVarint(data, n), wire.ok, NEW w, w = wire.next,
         NEW type, type = WireType(wire.groups),
         NEW r, r = readVarint(data, w), NEW l, l = Length(r.groups)
  PROVE  SkipsBy(data, s, d, w, type, r, l)
<1>1. ~(n > Len(data))
  BY Elem
<1>2. skipOne(data, s) = SkipRound(data, n, d, wire, r, type, l)
  BY SkipOneDef
<1>3. skipOne(data, s) =
        CASE type = 0 -> IF r.ok THEN SkipState(r.next, d) ELSE SkipState(0, 0)
          [] type = 1 -> SkipState(w + 8, d)
          [] type = 2 -> IF r.ok /\ l >= 0 THEN SkipState(r.next + l, d) ELSE SkipState(0, 0)
          [] type = 3 -> SkipState(w, d + 1)
          [] type = 4 -> IF d = 0 THEN SkipState(0, 0) ELSE SkipState(w, d - 1)
          [] type = 5 -> SkipState(w + 4, d)
          [] type \in 6..7 -> SkipState(0, 0)
  BY <1>1, <1>2 DEF SkipRound
<1>4. type = 0 /\ r.ok => skipOne(data, s) = SkipState(r.next, d)
  BY <1>3
<1>5. type = 1 => skipOne(data, s) = SkipState(w + 8, d)
  BY <1>3
<1>6. type = 2 /\ r.ok /\ l >= 0 => skipOne(data, s) = SkipState(r.next + l, d)
  BY <1>3
<1>7. type = 3 => skipOne(data, s) = SkipState(w, d + 1)
  BY <1>3
<1>8. type = 4 /\ d # 0 => skipOne(data, s) = SkipState(w, d - 1)
  BY <1>3
<1>9. type = 5 => skipOne(data, s) = SkipState(w + 4, d)
  BY <1>3
<1> QED BY <1>4, <1>5, <1>6, <1>7, <1>8, <1>9 DEF SkipsBy

(* After k rounds skipTypes is at n, in d groups.                          *)
Skipped(data, i, k, n, d) ==
  k \in 1..LastRound(data) /\ skipping(data, i)[k] = SkipState(n, d)

(* The first round.                                                        *)
LEMMA SkippedFirst ==
  ASSUME NEW data \in Seq(Byte), NEW i, NEW n, NEW d,
         skipOne(data, [next |-> i, depth |-> 0, done |-> FALSE]) = SkipState(n, d)
  PROVE  Skipped(data, i, 1, n, d)
<1>1. PICK N : N = LastRound(data)
  OBVIOUS
<1>2. N \in Nat /\ N = Len(data) + 1 /\ Len(data) \in Nat
  BY <1>1, RoundsFacts, Elem
<1>3. 1 \in 1..N /\ 1 - 1 = 0
  BY <1>2
<1>4. PICK g : g = skipping(data, i)
  OBVIOUS
<1>5. /\ g[0] = [next |-> i, depth |-> 0, done |-> FALSE]
      /\ \A k \in 1..N : g[k] = IF g[k - 1].done THEN g[k - 1] ELSE skipOne(data, g[k - 1])
  BY <1>1, <1>2, <1>4, SkippingRec
<1>6. ~g[0].done
  BY <1>5
<1>7. g[1] = skipOne(data, g[0])
  BY <1>3, <1>5, <1>6
<1> QED BY <1>1, <1>3, <1>4, <1>5, <1>7 DEF Skipped

(* A round inside of a group.                                              *)
LEMMA SkippedNext ==
  ASSUME NEW data \in Seq(Byte), NEW i, NEW k \in Nat, NEW n, NEW d, d # 0,
         Skipped(data, i, k, n, d), k <= Len(data), NEW p, NEW e,
         skipOne(data, SkipState(n, d)) = SkipState(p, e)
  PROVE  Skipped(data, i, k + 1, p, e)
<1>1. PICK N, q : N = LastRound(data) /\ q = k + 1
  OBVIOUS
<1>2. N \in Nat /\ N = Len(data) + 1 /\ Len(data) \in Nat
  BY <1>1, RoundsFacts, Elem
<1>3. q \in 1..N /\ q - 1 = k
  BY <1>1, <1>2
<1>4. PICK g : g = skipping(data, i)
  OBVIOUS
<1>5. \A j \in 1..N : g[j] = IF g[j - 1].done THEN g[j - 1] ELSE skipOne(data, g[j - 1])
  BY <1>1, <1>2, <1>4, SkippingRec
<1>6. g[k] = SkipState(n, d) /\ ~SkipState(n, d).done
  BY <1>4, SkipGoesOn DEF Skipped
<1>7. g[q] = skipOne(data, g[k])
  BY <1>3, <1>5, <1>6
<1> QED BY <1>1, <1>3, <1>4, <1>6, <1>7 DEF Skipped

(* Outside of any group skipTypes returns.                                 *)
LEMMA SkippedEnd ==
  ASSUME NEW data \in Seq(Byte), NEW i, NEW k, NEW n, Skipped(data, i, k, n, 0)
  PROVE  skip(data, i) = n
<1>1. PICK g : g = skipping(data, i)
  OBVIOUS
<1>2. g[k] = SkipState(n, 0) /\ SkipState(n, 0).done /\ SkipState(n, 0).next = n
  BY <1>1, SkipDone DEF Skipped, SkipState
<1>3. Len(data) \in Nat /\ LastRound(data) \in Nat
  BY Elem, RoundsFacts
<1>4. k \in 0..LastRound(data)
  BY <1>3 DEF Skipped
<1>5. g[k].done /\ g[k].next = n
  BY <1>2
<1> QED BY <1>1, <1>3, <1>4, <1>5, SkippingEnd

(* A number that was read.                                                 *)
IsRead(r, next, groups) == r.ok /\ r.next = next /\ r.groups = groups

(* A field with number 16 at i, and another one at n.                      *)
UnknownAt(data, i, n) ==
  /\ \E t \in {0, 1, 2, 3, 5} : \E w : IsRead(readVarint(data, i), w, <<t, 1>>)
  /\ n = skip(data, i) /\ n <= Len(data) + 1

(* Unmarshal goes on after a field with number 16, which no message has.   *)
LEMMA UnknownRead ==
  ASSUME NEW K, NEW T, WellFormed(T, K), NEW data \in Seq(Byte), NEW i \in Nat \ {0}, NEW o,
         NEW n \in Nat \ {0}, UnknownAt(data, i, n)
  PROVE  readNext(T, data, At(i, o)) = At(n, o)
<1>1. /\ n = skip(data, i) /\ n <= Len(data) + 1
      /\ \E t \in {0, 1, 2, 3, 5} : \E w : IsRead(readVarint(data, i), w, <<t, 1>>)
  BY DEF UnknownAt
<1>2. PICK t \in {0, 1, 2, 3, 5} : \E w : IsRead(readVarint(data, i), w, <<t, 1>>)
  BY <1>1
<1>3. PICK g : g = <<t, 1>>
  OBVIOUS
<1>4. Group(g, 1) = t /\ Group(g, 2) = 1 /\ Group(g, 3) = 0 /\ Group(g, 4) = 0 /\ Group(g, 5) = 0
  BY <1>3 DEF Group
<1>5. t % 8 = t /\ t \div 8 = 0
  OBVIOUS
<1>6. WireType(g) = t /\ t # 4
  BY <1>4, <1>5 DEF WireType
<1>7. FieldNum(g) = 16
  BY <1>4, <1>5 DEF FieldNum
<1>8. {p \in DOMAIN Decoder[T] : Decoder[T][p][1] = 16} = {}
  <2>1. PICK rows : rows = 1..Len(Encoder[T])
    OBVIOUS
  <2>2. /\ Decoder[T] = [p \in rows |->
                           <<Encoder[T][p][1] \div 8, Encoder[T][p][2], Encoder[T][p][3]>>]
        /\ \A p \in rows : Encoder[T][p][1] \in Tags
    BY <2>1 DEF WellFormed
  <2>3. \A x \in Tags : x \div 8 # 16
    BY DEF Tags
  <2> QED BY <2>2, <2>3
<1>9. PICK s, wire, num, rows, next :
        /\ s = At(i, o) /\ wire = readVarint(data, s.next) /\ num = FieldNum(wire.groups)
        /\ rows = {p \in DOMAIN Decoder[T] : Decoder[T][p][1] = num} /\ next = skip(data, s.next)
  OBVIOUS
<1>10. s.next = i /\ s.msg = o
  BY <1>9 DEF At
<1>11. wire.ok /\ wire.groups = g /\ next = n
  BY <1>1, <1>2, <1>3, <1>9, <1>10 DEF IsRead
<1>12. ~(WireType(wire.groups) = 4 \/ num <= 0) /\ rows = {}
  BY <1>6, <1>7, <1>8, <1>9, <1>11
<1>13. n > 0
  OBVIOUS
<1>14. readNext(T, data, s) = IF next > 0 /\ next <= Len(data) + 1 THEN At(next, s.msg) ELSE Failed
  BY <1>9, <1>11, <1>12 DEF readNext, readTag, readTagged, readKnown, readUnknown, setField, Rows, At
<1> QED BY <1>1, <1>9, <1>10, <1>11, <1>13, <1>14

HasOne(data, n, b)    == n <= Len(data) /\ data[n] = b
HasTwo(data, n, a, b) == n + 1 <= Len(data) /\ data[n] = a + 128 /\ data[n + 1] = b

(* A number of one byte, and one of two.                                   *)
LEMMA OneByte ==
  ASSUME NEW data \in Seq(Byte), NEW n \in Nat \ {0}, NEW b \in 1..127, HasOne(data, n, b)
  PROVE  IsRead(readVarint(data, n), n + 1, <<b>>)
<1>1. n <= Len(data) /\ data[n] = b
  BY DEF HasOne
<1>2. PICK g : g = <<b>>
  OBVIOUS
<1>3. g \in Seq(Septet) /\ Len(g) = 1 /\ g[1] = b /\ g # <<>>
  BY <1>2 DEF Septet
<1>4. IsUint64(g) /\ sov(g) = 1
  BY <1>3 DEF IsUint64, sov
<1>5. encodeVarint(g) = [k \in 1..1 |-> IF k < 1 THEN g[k] + 128 ELSE g[k]]
  BY <1>3 DEF encodeVarint
<1>6. Len(encodeVarint(g)) = 1 /\ encodeVarint(g)[1] = b
  BY <1>3, <1>5
<1>7. Holds(data, n, encodeVarint(g))
  <2>1. n + 1 - 1 <= Len(data) /\ \A k \in 1..1 : k = 1 /\ n + k - 1 = n
    BY <1>1, Elem
  <2> QED BY <1>1, <1>6, <2>1 DEF Holds
<1>8. readVarint(data, n) = [ok |-> TRUE, next |-> n + sov(g), groups |-> g]
  BY <1>4, <1>7, VarintRead
<1> QED BY <1>2, <1>4, <1>8 DEF IsRead

(* A number of two bytes.                                                  *)
LEMMA TwoBytes ==
  ASSUME NEW data \in Seq(Byte), NEW n \in Nat \ {0}, NEW a \in 0..127, NEW b \in 1..127,
         HasTwo(data, n, a, b)
  PROVE  IsRead(readVarint(data, n), n + 2, <<a, b>>)
<1>1. n + 1 <= Len(data) /\ data[n] = a + 128 /\ data[n + 1] = b
  BY DEF HasTwo
<1>2. PICK g : g = <<a, b>>
  OBVIOUS
<1>3. g \in Seq(Septet) /\ Len(g) = 2 /\ g[1] = a /\ g[2] = b /\ g # <<>>
  BY <1>2 DEF Septet
<1>4. IsUint64(g) /\ sov(g) = 2
  BY <1>3 DEF IsUint64, sov
<1>5. encodeVarint(g) = [k \in 1..2 |-> IF k < 2 THEN g[k] + 128 ELSE g[k]]
  BY <1>3 DEF encodeVarint
<1>6. Len(encodeVarint(g)) = 2 /\ encodeVarint(g)[1] = a + 128 /\ encodeVarint(g)[2] = b
  BY <1>3, <1>5
<1>7. Holds(data, n, encodeVarint(g))
  <2>1. /\ n + 2 - 1 <= Len(data)
        /\ \A k \in 1..2 : (k = 1 /\ n + k - 1 = n) \/ (k = 2 /\ n + k - 1 = n + 1)
    BY <1>1, Elem
  <2> QED BY <1>1, <1>6, <2>1 DEF Holds
<1>8. readVarint(data, n) = [ok |-> TRUE, next |-> n + sov(g), groups |-> g]
  BY <1>4, <1>7, VarintRead
<1> QED BY <1>2, <1>4, <1>8 DEF IsRead

(* The wire type and the length in such numbers.                           *)
LEMMA ShortFacts ==
  /\ \A a \in 0..7 : \A b : WireType(<<a, b>>) = a
  /\ WireType(<<10>>) = 2 /\ Length(<<1>>) = 1 /\ Length(<<2>>) = 2
<1>1. \A a, b : Group(<<a, b>>, 1) = a
  BY DEF Group
<1>2. \A a \in 0..7 : a % 8 = a
  OBVIOUS
<1>3. \A b : /\ Group(<<b>>, 1) = b /\ Group(<<b>>, 2) = 0
             /\ Group(<<b>>, 3) = 0 /\ Group(<<b>>, 4) = 0
  BY DEF Group
<1>4. \A b : Len(<<b>>) = 1
  OBVIOUS
<1>5. \A b \in Nat : Length(<<b>>) = b
  <2>1. TAKE b \in Nat
  <2>2. PICK g : g = <<b>>
    OBVIOUS
  <2>3. Len(g) # 10 /\ Len(g) \notin 5..9
    BY <1>4, <2>2
  <2>4. Length(g) = Group(g, 1) + 128 * Group(g, 2) + 16384 * Group(g, 3) + 2097152 * Group(g, 4)
    BY <2>3 DEF Length
  <2> QED BY <1>3, <2>2, <2>4
<1> QED BY <1>1, <1>2, <1>3, <1>5 DEF WireType

(* Where skipTypes comes with the tag of an unknown field at n.            *)
LEMMA SkipTag ==
  ASSUME NEW data \in Seq(Byte), NEW s, NEW n \in Nat \ {0}, NEW d \in Nat,
         s.next = n, s.depth = d, n + 1 <= Len(data),
         NEW a \in 0..5, data[n] = a + 128, data[n + 1] = 1
  PROVE  /\ a = 0 /\ n + 3 <= Len(data) /\ data[n + 2] = 200 /\ data[n + 3] = 1 =>
              skipOne(data, s) = SkipState(n + 4, d)
         /\ a = 1 => skipOne(data, s) = SkipState(n + 10, d)
         /\ a = 2 /\ n + 2 <= Len(data) /\ data[n + 2] = 2 => skipOne(data, s) = SkipState(n + 5, d)
         /\ a = 3 => skipOne(data, s) = SkipState(n + 2, d + 1)
         /\ a = 4 /\ d # 0 => skipOne(data, s) = SkipState(n + 2, d - 1)
         /\ a = 5 => skipOne(data, s) = SkipState(n + 6, d)
<1>1. PICK wire, w : wire = readVarint(data, n) /\ w = n + 2
  OBVIOUS
<1>2. wire.ok /\ wire.next = w /\ wire.groups = <<a, 1>>
  <2>1. a \in 0..127 /\ 1 \in 1..127
    OBVIOUS
  <2>2. HasTwo(data, n, a, 1)
    BY DEF HasTwo
  <2>3. IsRead(readVarint(data, n), n + 2, <<a, 1>>)
    BY <2>1, <2>2, TwoBytes
  <2> QED BY <1>1, <2>3 DEF IsRead
<1>3. WireType(wire.groups) = a
  BY <1>2, ShortFacts
<1>4. PICK r, l : r = readVarint(data, w) /\ l = Length(r.groups)
  OBVIOUS
<1>5. n <= Len(data) /\ w \in Nat \ {0} /\ Len(data) \in Nat
  BY <1>1, Elem
<1>6. /\ a = 0 /\ r.ok => skipOne(data, s) = SkipState(r.next, d)
      /\ a = 1 => skipOne(data, s) = SkipState(w + 8, d)
      /\ a = 2 /\ r.ok /\ l >= 0 => skipOne(data, s) = SkipState(r.next + l, d)
      /\ a = 3 => skipOne(data, s) = SkipState(w, d + 1)
      /\ a = 4 /\ d # 0 => skipOne(data, s) = SkipState(w, d - 1)
      /\ a = 5 => skipOne(data, s) = SkipState(w + 4, d)
  <2>1. SkipsBy(data, s, d, w, a, r, l)
    BY <1>1, <1>2, <1>3, <1>4, <1>5, SkipsOne
  <2> QED BY <2>1 DEF SkipsBy
<1>7. ASSUME a = 0, n + 3 <= Len(data), data[n + 2] = 200, data[n + 3] = 1
      PROVE  skipOne(data, s) = SkipState(n + 4, d)
  <2>1. w + 1 = n + 3 /\ w + 2 = n + 4 /\ 200 = 72 + 128
    BY <1>1
  <2>2. data[w] = 200 /\ data[w + 1] = 1 /\ w + 1 <= Len(data) /\ 72 \in 0..127 /\ 1 \in 1..127
    BY <1>1, <1>7, <2>1
  <2>3. r.ok /\ r.next = w + 2
    <3>1. PICK x \in 0..127, y \in 1..127 : x = 72 /\ y = 1
      OBVIOUS
    <3>2. HasTwo(data, w, x, y)
      BY <2>2, <3>1 DEF HasTwo
    <3>3. IsRead(readVarint(data, w), w + 2, <<x, y>>)
      BY <1>5, <3>2, TwoBytes
    <3> QED BY <1>4, <3>3 DEF IsRead
  <2> QED BY <1>6, <1>7, <2>1, <2>3
<1>8. ASSUME a = 2, n + 2 <= Len(data), data[n + 2] = 2
      PROVE  skipOne(data, s) = SkipState(n + 5, d)
  <2>1. data[w] = 2 /\ w <= Len(data) /\ 2 \in 1..127
    BY <1>1, <1>8
  <2>2. r.ok /\ r.next = w + 1 /\ r.groups = <<2>>
    <3>1. PICK y \in 1..127 : y = 2
      OBVIOUS
    <3>2. HasOne(data, w, y)
      BY <2>1, <3>1 DEF HasOne
    <3>3. IsRead(readVarint(data, w), w + 1, <<y>>)
      BY <1>5, <3>2, OneByte
    <3> QED BY <1>4, <3>1, <3>3 DEF IsRead
  <2>3. l = 2
    BY <1>4, <2>2, ShortFacts
  <2>4. r.next + l = n + 5 /\ l >= 0
    BY <1>1, <2>2, <2>3
  <2> QED BY <1>6, <1>8, <2>2, <2>4
<1>9. w = n + 2 /\ w + 8 = n + 10 /\ w + 4 = n + 6
  BY <1>1
<1> QED BY <1>6, <1>7, <1>8, <1>9

(* The inner field of the group among the unknown fields.                  *)
LEMMA SkipInner ==
  ASSUME NEW data \in Seq(Byte), NEW s, NEW n \in Nat \ {0}, NEW d \in Nat,
         s.next = n, s.depth = d, n + 1 <= Len(data), data[n] = 10, data[n + 1] = 1
  PROVE  skipOne(data, s) = SkipState(n + 3, d)
<1>1. PICK wire, w : wire = readVarint(data, n) /\ w = n + 1
  OBVIOUS
<1>2. n <= Len(data) /\ w \in Nat \ {0} /\ Len(data) \in Nat /\ w <= Len(data)
  BY <1>1, Elem
<1>3. PICK x \in 1..127, y \in 1..127 : x = 10 /\ y = 1
  OBVIOUS
<1>4. wire.ok /\ wire.next = n + 1 /\ wire.groups = <<x>>
  <2>1. HasOne(data, n, x)
    BY <1>2, <1>3 DEF HasOne
  <2>2. IsRead(readVarint(data, n), n + 1, <<x>>)
    BY <2>1, OneByte
  <2> QED BY <1>1, <2>2 DEF IsRead
<1>5. PICK r, l : r = readVarint(data, w) /\ l = Length(r.groups)
  OBVIOUS
<1>6. data[w] = y
  BY <1>1, <1>3
<1>7. r.ok /\ r.next = w + 1 /\ r.groups = <<y>>
  <2>1. HasOne(data, w, y)
    BY <1>2, <1>6 DEF HasOne
  <2>2. IsRead(readVarint(data, w), w + 1, <<y>>)
    BY <1>2, <2>1, OneByte
  <2> QED BY <1>5, <2>2 DEF IsRead
<1>8. WireType(wire.groups) = 2 /\ l = 1
  BY <1>3, <1>4, <1>5, <1>7, ShortFacts
<1>9. PICK type : type = WireType(wire.groups)
  OBVIOUS
<1>10. SkipsBy(data, s, d, w, type, r, l)
  BY <1>1, <1>2, <1>4, <1>5, <1>9, SkipsOne
<1>11. l >= 0 /\ r.next + l = n + 3
  BY <1>1, <1>7, <1>8
<1> QED BY <1>7, <1>8, <1>9, <1>10, <1>11 DEF SkipsBy

(* The unknown fields are bytes.                                           *)
LEMMA UnknownBytes ==
  ASSUME NEW u \in UnknownFields
  PROVE  u \in Seq(Byte)
<1>1. CASE u = <<128, 1, 200, 1>>
  BY <1>1 DEF Byte
<1>2. CASE u = <<129, 1, 255, 8, 0, 0, 0, 0, 0, 0>>
  BY <1>2 DEF Byte
<1>3. CASE u = <<130, 1, 2, 8, 1>>
  BY <1>3 DEF Byte
<1>4. CASE u = <<131, 1, 10, 1, 9, 131, 1, 132, 1, 132, 1>>
  BY <1>4 DEF Byte
<1>5. CASE u = <<133, 1, 8, 8, 255, 0>>
  BY <1>5 DEF Byte
<1> QED BY <1>1, <1>2, <1>3, <1>4, <1>5 DEF UnknownFields

(* skipTypes passes over each of the unknown fields.                       *)
LEMMA UnknownSkipped ==
  ASSUME NEW data \in Seq(Byte), NEW i \in Nat \ {0}, NEW u \in UnknownFields, Holds(data, i, u)
  PROVE  /\ skip(data, i) = i + Len(u) /\ Len(u) \in 4..11 /\ u \in Seq(Byte)
         /\ \E t \in {0, 1, 2, 3, 5} : HasTwo(data, i, t, 1)
<1>1. i + Len(u) - 1 <= Len(data) /\ Len(data) \in Nat
  BY Elem DEF Holds
<1>2. \A k \in 1..Len(u) : data[i + k - 1] = u[k]
  BY DEF Holds
<1>3. PICK s : s = [next |-> i, depth |-> 0, done |-> FALSE]
  OBVIOUS
<1>4. s.next = i /\ s.depth = 0 /\ 0 \in Nat
  BY <1>3
<1>5. u \in Seq(Byte)
  BY UnknownBytes
<1>6. ASSUME NEW n, skipOne(data, s) = SkipState(n, 0)
      PROVE  skip(data, i) = n
  <2>1. Skipped(data, i, 1, n, 0)
    BY <1>3, <1>6, SkippedFirst
  <2> QED BY <2>1, SkippedEnd
<1>7. CASE u = <<128, 1, 200, 1>>
  <2>1. Len(u) = 4 /\ u[1] = 128 /\ u[2] = 1 /\ u[3] = 200 /\ u[4] = 1
    BY <1>7
  <2>2. i + 1 - 1 = i /\ i + 2 - 1 = i + 1 /\ i + 3 - 1 = i + 2 /\ i + 4 - 1 = i + 3
    OBVIOUS
  <2>3. data[i] = 128 /\ data[i + 1] = 1 /\ data[i + 2] = 200 /\ data[i + 3] = 1
    BY <1>2, <2>1, <2>2
  <2>4. i + 3 <= Len(data) /\ i + 1 <= Len(data)
    BY <1>1, <2>1
  <2>5. PICK a \in 0..5 : a = 0
    OBVIOUS
  <2>6. data[i] = a + 128
    BY <2>3, <2>5
  <2>7. skipOne(data, s) = SkipState(i + 4, 0)
    BY <1>4, <2>3, <2>4, <2>5, <2>6, SkipTag
  <2>8. HasTwo(data, i, 0, 1)
    BY <2>3, <2>4 DEF HasTwo
  <2> QED BY <1>5, <1>6, <2>1, <2>7, <2>8
<1>8. CASE u = <<129, 1, 255, 8, 0, 0, 0, 0, 0, 0>>
  <2>1. Len(u) = 10 /\ u[1] = 129 /\ u[2] = 1
    BY <1>8
  <2>2. i + 1 - 1 = i /\ i + 2 - 1 = i + 1
    OBVIOUS
  <2>3. data[i] = 129 /\ data[i + 1] = 1
    BY <1>2, <2>1, <2>2
  <2>4. i + 1 <= Len(data)
    BY <1>1, <2>1
  <2>5. PICK a \in 0..5 : a = 1
    OBVIOUS
  <2>6. data[i] = a + 128
    BY <2>3, <2>5
  <2>7. skipOne(data, s) = SkipState(i + 10, 0)
    BY <1>4, <2>3, <2>4, <2>5, <2>6, SkipTag
  <2>8. HasTwo(data, i, 1, 1)
    BY <2>3, <2>4 DEF HasTwo
  <2> QED BY <1>5, <1>6, <2>1, <2>7, <2>8
<1>9. CASE u = <<130, 1, 2, 8, 1>>
  <2>1. Len(u) = 5 /\ u[1] = 130 /\ u[2] = 1 /\ u[3] = 2
    BY <1>9
  <2>2. i + 1 - 1 = i /\ i + 2 - 1 = i + 1 /\ i + 3 - 1 = i + 2
    OBVIOUS
  <2>3. data[i] = 130 /\ data[i + 1] = 1 /\ data[i + 2] = 2
    BY <1>2, <2>1, <2>2
  <2>4. i + 2 <= Len(data) /\ i + 1 <= Len(data)
    BY <1>1, <2>1
  <2>5. PICK a \in 0..5 : a = 2
    OBVIOUS
  <2>6. data[i] = a + 128
    BY <2>3, <2>5
  <2>7. skipOne(data, s) = SkipState(i + 5, 0)
    BY <1>4, <2>3, <2>4, <2>5, <2>6, SkipTag
  <2>8. HasTwo(data, i, 2, 1)
    BY <2>3, <2>4 DEF HasTwo
  <2> QED BY <1>5, <1>6, <2>1, <2>7, <2>8
<1>10. CASE u = <<133, 1, 8, 8, 255, 0>>
  <2>1. Len(u) = 6 /\ u[1] = 133 /\ u[2] = 1
    BY <1>10
  <2>2. i + 1 - 1 = i /\ i + 2 - 1 = i + 1
    OBVIOUS
  <2>3. data[i] = 133 /\ data[i + 1] = 1
    BY <1>2, <2>1, <2>2
  <2>4. i + 1 <= Len(data)
    BY <1>1, <2>1
  <2>5. PICK a \in 0..5 : a = 5
    OBVIOUS
  <2>6. data[i] = a + 128
    BY <2>3, <2>5
  <2>7. skipOne(data, s) = SkipState(i + 6, 0)
    BY <1>4, <2>3, <2>4, <2>5, <2>6, SkipTag
  <2>8. HasTwo(data, i, 5, 1)
    BY <2>3, <2>4 DEF HasTwo
  <2> QED BY <1>5, <1>6, <2>1, <2>7, <2>8
<1>11. CASE u = <<131, 1, 10, 1, 9, 131, 1, 132, 1, 132, 1>>
  <2>1. /\ Len(u) = 11 /\ u[1] = 131 /\ u[2] = 1 /\ u[3] = 10 /\ u[4] = 1 /\ u[6] = 131 /\ u[7] = 1
        /\ u[8] = 132 /\ u[9] = 1 /\ u[10] = 132 /\ u[11] = 1
    BY <1>11
  <2>2. PICK j, k, l, m : j = i + 2 /\ k = i + 5 /\ l = i + 7 /\ m = i + 9
    OBVIOUS
  <2>3. /\ i + 1 - 1 = i /\ i + 2 - 1 = i + 1 /\ i + 3 - 1 = j /\ i + 4 - 1 = j + 1
        /\ i + 6 - 1 = k /\ i + 7 - 1 = k + 1 /\ i + 8 - 1 = l /\ i + 9 - 1 = l + 1
        /\ i + 10 - 1 = m /\ i + 11 - 1 = m + 1
    BY <2>2
  <2>4. /\ data[i] = 131 /\ data[i + 1] = 1 /\ data[j] = 10 /\ data[j + 1] = 1
        /\ data[k] = 131 /\ data[k + 1] = 1 /\ data[l] = 132 /\ data[l + 1] = 1
        /\ data[m] = 132 /\ data[m + 1] = 1
    <3>1. data[i] = 131 /\ data[i + 1] = 1
      BY <1>2, <2>1, <2>3
    <3>2. data[j] = 10 /\ data[j + 1] = 1
      <4>1. 3 \in 1..Len(u) /\ 4 \in 1..Len(u)
        BY <2>1
      <4>2. data[i + 3 - 1] = u[3] /\ data[i + 4 - 1] = u[4]
        BY <1>2, <4>1
      <4>3. i + 3 - 1 = j /\ i + 4 - 1 = j + 1
        BY <2>2
      <4> QED BY <2>1, <4>2, <4>3
    <3>3. data[k] = 131 /\ data[k + 1] = 1
      <4>1. 6 \in 1..Len(u) /\ 7 \in 1..Len(u)
        BY <2>1
      <4>2. data[i + 6 - 1] = u[6] /\ data[i + 7 - 1] = u[7]
        BY <1>2, <4>1
      <4>3. i + 6 - 1 = k /\ i + 7 - 1 = k + 1
        BY <2>2
      <4> QED BY <2>1, <4>2, <4>3
    <3>4. data[l] = 132 /\ data[l + 1] = 1
      <4>1. 8 \in 1..Len(u) /\ 9 \in 1..Len(u)
        BY <2>1
      <4>2. data[i + 8 - 1] = u[8] /\ data[i + 9 - 1] = u[9]
        BY <1>2, <4>1
      <4>3. i + 8 - 1 = l /\ i + 9 - 1 = l + 1
        BY <2>2
      <4> QED BY <2>1, <4>2, <4>3
    <3>5. data[m] = 132 /\ data[m + 1] = 1
      <4>1. 10 \in 1..Len(u) /\ 11 \in 1..Len(u)
        BY <2>1
      <4>2. data[i + 10 - 1] = u[10] /\ data[i + 11 - 1] = u[11]
        BY <1>2, <4>1
      <4>3. i + 10 - 1 = m /\ i + 11 - 1 = m + 1
        BY <2>2
      <4> QED BY <2>1, <4>2, <4>3
    <3> QED BY <3>1, <3>2, <3>3, <3>4, <3>5
  <2>5. /\ i + 1 <= Len(data) /\ j + 1 <= Len(data) /\ k + 1 <= Len(data) /\ l + 1 <= Len(data)
        /\ m + 1 <= Len(data) /\ 4 <= Len(data)
    BY <1>1, <2>1, <2>2
  <2>6. j \in Nat \ {0} /\ k \in Nat \ {0} /\ l \in Nat \ {0} /\ m \in Nat \ {0}
    BY <2>2
  <2>7. /\ i + 2 = j /\ j + 3 = k /\ k + 2 = l /\ l + 2 = m /\ m + 2 = i + 11
        /\ 0 + 1 = 1 /\ 1 + 1 = 2 /\ 2 - 1 = 1 /\ 1 - 1 = 0
    BY <2>2
  <2>8. PICK a \in 0..5, b \in 0..5 : a = 3 /\ b = 4
    OBVIOUS
  <2>9. data[i] = a + 128 /\ data[k] = a + 128 /\ data[l] = b + 128 /\ data[m] = b + 128
    BY <2>4, <2>8
  <2>10. \A n, d : SkipState(n, d).next = n /\ SkipState(n, d).depth = d
    BY DEF SkipState
  <2>11. PICK d1 \in Nat, d2 \in Nat : d1 = 1 /\ d2 = 2
    OBVIOUS
  <2>12. skipOne(data, s) = SkipState(j, d1)
    <3>1. PICK d0 \in Nat : d0 = 0
      OBVIOUS
    <3>2. skipOne(data, s) = SkipState(i + 2, d0 + 1)
      <4>1. s.next = i /\ s.depth = d0 /\ i + 1 <= Len(data)
        BY <1>4, <2>5, <3>1
      <4>2. data[i] = a + 128 /\ data[i + 1] = 1 /\ a = 3
        BY <2>4, <2>8, <2>9
      <4> QED BY <4>1, <4>2, SkipTag
    <3>3. d0 + 1 = d1
      BY <2>11, <3>1
    <3> QED BY <2>7, <3>2, <3>3
  <2>13. skipOne(data, SkipState(j, d1)) = SkipState(k, d1)
    BY <2>4, <2>5, <2>6, <2>7, <2>10, SkipInner, SMTT(30)
  <2>14. skipOne(data, SkipState(k, d1)) = SkipState(l, d2)
    BY <2>4, <2>5, <2>6, <2>7, <2>8, <2>9, <2>10, <2>11, SkipTag
  <2>15. skipOne(data, SkipState(l, d2)) = SkipState(m, d1)
    BY <2>4, <2>5, <2>6, <2>7, <2>8, <2>9, <2>10, <2>11, SkipTag
  <2>16. skipOne(data, SkipState(m, d1)) = SkipState(i + 11, 0)
    BY <2>4, <2>5, <2>6, <2>7, <2>8, <2>9, <2>10, <2>11, SkipTag
  <2>17. Skipped(data, i, 1, j, d1)
    BY <1>3, <2>12, SkippedFirst
  <2>18. d1 # 0 /\ d2 # 0 /\ 2 + 1 = 3 /\ 3 + 1 = 4 /\ 4 + 1 = 5 /\ 1 <= Len(data)
         /\ 2 <= Len(data) /\ 3 <= Len(data)
    BY <1>1, <2>5, <2>11
  <2>19. Skipped(data, i, 1 + 1, k, d1)
    BY <2>13, <2>17, <2>18, SkippedNext
  <2>20. Skipped(data, i, 2 + 1, l, d2)
    BY <2>7, <2>14, <2>18, <2>19, SkippedNext
  <2>21. Skipped(data, i, 3 + 1, m, d1)
    BY <2>15, <2>18, <2>20, SkippedNext
  <2>22. Skipped(data, i, 4 + 1, i + 11, 0)
    BY <2>5, <2>16, <2>18, <2>21, SkippedNext
  <2>23. skip(data, i) = i + 11
    BY <2>22, SkippedEnd
  <2>24. HasTwo(data, i, 3, 1)
    BY <2>4, <2>5 DEF HasTwo
  <2> QED BY <1>5, <2>1, <2>23, <2>24
<1> QED BY <1>7, <1>8, <1>9, <1>10, <1>11 DEF UnknownFields

(* One round of Unmarshal passes over an unknown field.                    *)
LEMMA UnknownNext ==
  ASSUME NEW K, NEW T, WellFormed(T, K), NEW data \in Seq(Byte), NEW first,
         NEW i \in Nat \ {0}, NEW o, Reached(T, data, first, i, o),
         NEW u \in UnknownFields, Holds(data, i, u)
  PROVE  Reached(T, data, first, i + Len(u), o)
<1>1. PICK c, n : c = Len(u) /\ n = i + c
  OBVIOUS
<1>2. skip(data, i) = n /\ c \in 4..11 /\ u \in Seq(Byte)
  BY <1>1, UnknownSkipped
<1>3. PICK t \in {0, 1, 2, 3, 5} : HasTwo(data, i, t, 1)
  BY UnknownSkipped
<1>4. PICK a \in 0..127, b \in 1..127 : a = t /\ b = 1
  OBVIOUS
<1>5. IsRead(readVarint(data, i), i + 2, <<a, b>>)
  BY <1>3, <1>4, TwoBytes
<1>6. PICK w : IsRead(readVarint(data, i), w, <<t, 1>>)
  BY <1>4, <1>5
<1>7. Len(data) \in Nat /\ i + c - 1 <= Len(data)
  BY <1>1, Elem DEF Holds
<1>8. n \in Nat \ {0} /\ n > i /\ i <= Len(data) /\ n <= Len(data) + 1
  BY <1>1, <1>2, <1>7
<1>9. readNext(T, data, At(i, o)) = At(n, o)
  <2>1. UnknownAt(data, i, n)
    BY <1>2, <1>6, <1>8 DEF UnknownAt
  <2> QED BY <1>8, <2>1, UnknownRead
<1> QED BY <1>1, <1>8, <1>9, ReachedNext

(* A message with an unknown field before or after it is the same message. *)
LEMMA ExtendLaw ==
  ASSUME NEW K, InnerLaws(K), NEW T, WellFormed(T, K), NEW m, Is(T, m),
         NEW u \in UnknownFields, Len(Encoded(T, m)) < MaxLength,
         NEW data, data = u \o Encoded(T, m) \/ data = Encoded(T, m) \o u
  PROVE  Unmarshal(T, data, Default(T)) = [ok |-> TRUE, msg |-> m]
<1>1. PICK o, x, c, d : o = Default(T) /\ x = Encoded(T, m) /\ c = Len(x) /\ d = Len(u)
  OBVIOUS
<1>2. Is(T, o) /\ Merge(T, o, m) = m
  BY <1>1, DefaultFacts, MergeFacts
<1>3. x \in Seq(Byte) /\ c \in Nat /\ c < MaxLength
  BY <1>1, EncodedFacts, Elem
<1>4. u \in Seq(Byte) /\ d \in Nat
  BY <1>1, UnknownBytes, Elem
<1>5. 1 \in Nat \ {0}
  OBVIOUS
<1>6. CASE data = u \o x
  <2>1. data \in Seq(Byte) /\ Len(data) = d + c
    BY <1>1, <1>3, <1>4, <1>6, ConcatFacts
  <2>2. Agrees(data, 1, u) /\ Agrees(data, 1 + d, x)
    BY <1>1, <1>3, <1>4, <1>6, AgreesBoth
  <2>3. PICK i : i = 1 + d
    OBVIOUS
  <2>4. i \in Nat \ {0} /\ 1 + d - 1 <= Len(data) /\ i + c - 1 <= Len(data) /\ i + c = Len(data) + 1
    BY <1>3, <1>4, <2>1, <2>3
  <2>5. Holds(data, 1, u)
    BY <1>1, <1>4, <1>5, <2>1, <2>2, <2>4, AgreesHolds
  <2>6. Reached(T, data, o, 1, o)
    BY <2>1, ReachedStart
  <2>7. Reached(T, data, o, i, o)
    BY <1>1, <1>5, <2>1, <2>3, <2>5, <2>6, UnknownNext
  <2>8. Reached(T, data, o, i + c, m)
    BY <1>1, <1>2, <1>3, <2>1, <2>2, <2>3, <2>4, <2>7, MessageRead
  <2>9. PICK j : j = i + c
    OBVIOUS
  <2>10. j \in Nat /\ j = Len(data) + 1
    BY <1>3, <2>4, <2>9
  <2> QED BY <1>1, <2>1, <2>8, <2>9, <2>10, ReachedEnd
<1>7. CASE data = x \o u
  <2>1. data \in Seq(Byte) /\ Len(data) = c + d
    BY <1>1, <1>3, <1>4, <1>7, ConcatFacts
  <2>2. Agrees(data, 1, x) /\ Agrees(data, 1 + c, u)
    BY <1>1, <1>3, <1>4, <1>7, AgreesBoth
  <2>3. PICK i : i = 1 + c
    OBVIOUS
  <2>4. i \in Nat \ {0} /\ 1 + c - 1 <= Len(data) /\ i + d - 1 <= Len(data) /\ i + d = Len(data) + 1
    BY <1>3, <1>4, <2>1, <2>3
  <2>5. Holds(data, i, u)
    BY <1>1, <1>4, <2>1, <2>2, <2>3, <2>4, AgreesHolds
  <2>6. Reached(T, data, o, 1, o)
    BY <2>1, ReachedStart
  <2>7. Reached(T, data, o, i, m)
    BY <1>1, <1>2, <1>3, <1>5, <2>1, <2>2, <2>3, <2>4, <2>6, MessageRead
  <2>8. Reached(T, data, o, i + d, m)
    BY <1>1, <2>1, <2>4, <2>5, <2>7, UnknownNext
  <2>9. PICK j : j = i + d
    OBVIOUS
  <2>10. j \in Nat /\ j = Len(data) + 1
    BY <1>4, <2>4, <2>9
  <2> QED BY <1>1, <2>1, <2>8, <2>9, <2>10, ReachedEnd, ZenonT(60)
<1> QED BY <1>1, <1>6, <1>7

-----------------------------------------------------------------------------
(* Messages of two and of three fields.                                    *)

(* The table has two rows.                                                 *)
HasRows2(K, T, t, f, k, u, g, l) ==
  InnerLaws(K) /\ WellFormed(T, K) /\ Encoder[T] = <<<<t, f, k>>, <<u, g, l>>>>

HasRows3(K, T, t, f, k, u, g, l, w, h, n) ==
  InnerLaws(K) /\ WellFormed(T, K) /\ Encoder[T] = <<<<t, f, k>>, <<u, g, l>>, <<w, h, n>>>>

(* One row of a table.                                                     *)
RowIs(K, T, t, f, k) ==
  /\ f \in Fields(T) /\ KindOf(T, f) = k /\ IsKind(k, K) /\ t \in Tags
  /\ \E n \in 1..Len(Encoder[T]) : Encoder[T][n] = <<t, f, k>>

(* The bytes of one field of a message.                                    *)
RowBytes(t, f, k, m) == Joined(Pieces(t, k, m[f]))

(* A message is the bytes of its fields.                                   *)
Splits2(T, m, t, f, k, u, g, l) ==
  /\ Encoded(T, m) = RowBytes(t, f, k, m) \o RowBytes(u, g, l, m)
  /\ RowBytes(t, f, k, m) \in Seq(Byte)

Splits3(T, m, t, f, k, u, g, l, w, h, n) ==
  Encoded(T, m) = (RowBytes(t, f, k, m) \o RowBytes(u, g, l, m)) \o RowBytes(w, h, n, m)

(* A row of a table and what is written for it.                            *)
LEMMA RowAt ==
  ASSUME NEW K, InnerLaws(K), NEW T, WellFormed(T, K), NEW n \in 1..Len(Encoder[T]),
         NEW t, NEW f, NEW k, Encoder[T][n] = <<t, f, k>>
  PROVE  /\ RowIs(K, T, t, f, k)
         /\ \A m : Is(T, m) => EncodedFields(T, m)[n] = Joined(Pieces(t, k, m[f]))
<1>1. Encoder[T][n][1] = t /\ Encoder[T][n][2] = f /\ Encoder[T][n][3] = k
  OBVIOUS
<1>2. f \in Fields(T) /\ KindOf(T, f) = k /\ IsKind(k, K) /\ t \in Tags
  BY <1>1, RowFacts
<1>3. ASSUME NEW m, Is(T, m)
      PROVE  EncodedFields(T, m)[n] = Joined(Pieces(t, k, m[f]))
  BY <1>1, <1>3, EncodedFacts
<1> QED BY <1>2, <1>3 DEF RowIs

(* Messages of two fields.                                                 *)
LEMMA Rows2 ==
  ASSUME NEW K, NEW T, NEW t, NEW f, NEW k, NEW u, NEW g, NEW l, HasRows2(K, T, t, f, k, u, g, l)
  PROVE  /\ t \in Tags /\ u \in Tags /\ IsKind(k, K) /\ IsKind(l, K)
         /\ \A m : Is(T, m) <=> /\ m = [x \in {f, g} |-> m[x]]
                                /\ IsValue(k, m[f]) /\ IsValue(l, m[g])
         /\ \A m : Is(T, m) => Splits2(T, m, t, f, k, u, g, l)
<1>1. InnerLaws(K) /\ WellFormed(T, K)
  BY DEF HasRows2
<1>2. PICK table : table = Encoder[T]
  OBVIOUS
<1>3. /\ table = <<<<t, f, k>>, <<u, g, l>>>> /\ Len(table) = 2 /\ DOMAIN table = 1..2
      /\ table[1] = <<t, f, k>> /\ table[2] = <<u, g, l>>
  BY <1>2 DEF HasRows2
<1>4. /\ table[1][1] = t /\ table[1][2] = f /\ table[1][3] = k
      /\ table[2][1] = u /\ table[2][2] = g /\ table[2][3] = l
  BY <1>3
<1>5. 1 \in 1..2 /\ 2 \in 1..2 /\ 1..2 = {1, 2}
  OBVIOUS
<1>6. /\ f \in Fields(T) /\ KindOf(T, f) = k /\ IsKind(k, K) /\ t \in Tags
      /\ g \in Fields(T) /\ KindOf(T, g) = l /\ IsKind(l, K) /\ u \in Tags
  <2>1. RowIs(K, T, t, f, k)
    <3>1. PICK q \in 1..Len(Encoder[T]) : q = 1
      BY <1>2, <1>3, <1>5
    <3>2. Encoder[T][q] = <<t, f, k>>
      BY <1>2, <1>3, <3>1
    <3> QED BY <1>1, <3>2, RowAt
  <2>2. RowIs(K, T, u, g, l)
    <3>1. PICK q \in 1..Len(Encoder[T]) : q = 2
      BY <1>2, <1>3, <1>5
    <3>2. Encoder[T][q] = <<u, g, l>>
      BY <1>2, <1>3, <3>1
    <3> QED BY <1>1, <3>2, RowAt
  <2> QED BY <2>1, <2>2 DEF RowIs
<1>7. Fields(T) = {f, g}
  BY <1>2, <1>3, <1>4, <1>5 DEF Fields
<1>8. ASSUME NEW m
      PROVE  Is(T, m) <=> m = [x \in {f, g} |-> m[x]] /\ IsValue(k, m[f]) /\ IsValue(l, m[g])
  BY <1>6, <1>7 DEF Is
<1>9. ASSUME NEW m, Is(T, m)
      PROVE  /\ Encoded(T, m) = RowBytes(t, f, k, m) \o RowBytes(u, g, l, m)
             /\ RowBytes(t, f, k, m) \in Seq(Byte)
  <2>1. PICK a, b : a = RowBytes(t, f, k, m) /\ b = RowBytes(u, g, l, m)
    OBVIOUS
  <2>2. PICK parts : parts = EncodedFields(T, m)
    OBVIOUS
  <2>3. /\ IsParts(parts, 2) /\ Encoded(T, m) = Prefixes(parts)[2]
        /\ parts[1] = a /\ parts[2] = b
    <3>1. IsParts(parts, 2) /\ Encoded(T, m) = Prefixes(parts)[2]
      <4>1. PICK q : q = Len(Encoder[T])
        OBVIOUS
      <4>2. q = 2
        BY <1>2, <1>3, <4>1
      <4>3. IsParts(parts, q) /\ Encoded(T, m) = Prefixes(parts)[q]
        BY <1>1, <1>9, <2>2, <4>1, EncodedFacts
      <4> QED BY <4>2, <4>3
    <3>2. parts[1] = a
      <4>1. PICK q \in 1..Len(Encoder[T]) : q = 1
        BY <1>2, <1>3, <1>5
      <4>2. Encoder[T][q] = <<t, f, k>>
        BY <1>2, <1>3, <4>1
      <4>3. EncodedFields(T, m)[q] = Joined(Pieces(t, k, m[f]))
        BY <1>1, <1>9, <4>2, RowAt
      <4> QED BY <2>1, <2>2, <4>1, <4>3 DEF RowBytes
    <3>3. parts[2] = b
      <4>1. PICK q \in 1..Len(Encoder[T]) : q = 2
        BY <1>2, <1>3, <1>5
      <4>2. Encoder[T][q] = <<u, g, l>>
        BY <1>2, <1>3, <4>1
      <4>3. EncodedFields(T, m)[q] = Joined(Pieces(u, l, m[g]))
        BY <1>1, <1>9, <4>2, RowAt
      <4> QED BY <2>1, <2>2, <4>1, <4>3 DEF RowBytes
    <3> QED BY <3>1, <3>2, <3>3
  <2>4. /\ Prefixes(parts)[1] = Prefixes(parts)[0] \o a
        /\ Prefixes(parts)[2] = Prefixes(parts)[1] \o b
        /\ a \in Seq(Byte)
    <3>1. 1 - 1 = 0 /\ 2 - 1 = 1
      OBVIOUS
    <3> QED BY <1>5, <2>3, <3>1, PartFollows, ZenonT(60)
  <2>5. Prefixes(parts)[0] = <<>>
    BY PrefixesRec
  <2>6. <<>> \o a = a
    BY <2>4
  <2> QED BY <2>1, <2>3, <2>4, <2>5, <2>6
<1> QED BY <1>6, <1>8, <1>9 DEF Splits2

(* Messages of three fields.                                               *)
LEMMA Rows3 ==
  ASSUME NEW K, NEW T, NEW t, NEW f, NEW k, NEW u, NEW g, NEW l, NEW w, NEW h, NEW n,
         HasRows3(K, T, t, f, k, u, g, l, w, h, n)
  PROVE  /\ t \in Tags /\ u \in Tags /\ w \in Tags /\ IsKind(k, K) /\ IsKind(l, K) /\ IsKind(n, K)
         /\ \A m : Is(T, m) <=> /\ m = [x \in {f, g, h} |-> m[x]]
                                /\ IsValue(k, m[f]) /\ IsValue(l, m[g]) /\ IsValue(n, m[h])
         /\ \A m : Is(T, m) => Splits3(T, m, t, f, k, u, g, l, w, h, n)
<1>1. InnerLaws(K) /\ WellFormed(T, K)
  BY DEF HasRows3
<1>2. PICK table : table = Encoder[T]
  OBVIOUS
<1>3. /\ table = <<<<t, f, k>>, <<u, g, l>>, <<w, h, n>>>> /\ Len(table) = 3 /\ DOMAIN table = 1..3
      /\ table[1] = <<t, f, k>> /\ table[2] = <<u, g, l>> /\ table[3] = <<w, h, n>>
  BY <1>2 DEF HasRows3
<1>4. /\ table[1][1] = t /\ table[1][2] = f /\ table[1][3] = k
      /\ table[2][1] = u /\ table[2][2] = g /\ table[2][3] = l
      /\ table[3][1] = w /\ table[3][2] = h /\ table[3][3] = n
  BY <1>3
<1>5. 1 \in 1..3 /\ 2 \in 1..3 /\ 3 \in 1..3 /\ 1..3 = {1, 2, 3}
  OBVIOUS
<1>6. /\ f \in Fields(T) /\ KindOf(T, f) = k /\ IsKind(k, K) /\ t \in Tags
      /\ g \in Fields(T) /\ KindOf(T, g) = l /\ IsKind(l, K) /\ u \in Tags
      /\ h \in Fields(T) /\ KindOf(T, h) = n /\ IsKind(n, K) /\ w \in Tags
  <2>1. RowIs(K, T, t, f, k)
    <3>1. PICK q \in 1..Len(Encoder[T]) : q = 1
      BY <1>2, <1>3, <1>5
    <3>2. Encoder[T][q] = <<t, f, k>>
      BY <1>2, <1>3, <3>1
    <3> QED BY <1>1, <3>2, RowAt
  <2>2. RowIs(K, T, u, g, l)
    <3>1. PICK q \in 1..Len(Encoder[T]) : q = 2
      BY <1>2, <1>3, <1>5
    <3>2. Encoder[T][q] = <<u, g, l>>
      BY <1>2, <1>3, <3>1
    <3> QED BY <1>1, <3>2, RowAt
  <2>3. RowIs(K, T, w, h, n)
    <3>1. PICK q \in 1..Len(Encoder[T]) : q = 3
      BY <1>2, <1>3, <1>5
    <3>2. Encoder[T][q] = <<w, h, n>>
      BY <1>2, <1>3, <3>1
    <3> QED BY <1>1, <3>2, RowAt
  <2> QED BY <2>1, <2>2, <2>3 DEF RowIs
<1>7. Fields(T) = {f, g, h}
  BY <1>2, <1>3, <1>4, <1>5 DEF Fields
<1>8. ASSUME NEW m
      PROVE  Is(T, m) <=> /\ m = [x \in {f, g, h} |-> m[x]]
                          /\ IsValue(k, m[f]) /\ IsValue(l, m[g]) /\ IsValue(n, m[h])
  BY <1>6, <1>7 DEF Is
<1>9. ASSUME NEW m, Is(T, m)
      PROVE  Encoded(T, m) = (RowBytes(t, f, k, m) \o RowBytes(u, g, l, m)) \o RowBytes(w, h, n, m)
  <2>1. PICK a, b, c : /\ a = RowBytes(t, f, k, m) /\ b = RowBytes(u, g, l, m)
                       /\ c = RowBytes(w, h, n, m)
    OBVIOUS
  <2>2. PICK parts : parts = EncodedFields(T, m)
    OBVIOUS
  <2>3. /\ IsParts(parts, 3) /\ Encoded(T, m) = Prefixes(parts)[3]
        /\ parts[1] = a /\ parts[2] = b /\ parts[3] = c
    <3>1. IsParts(parts, 3) /\ Encoded(T, m) = Prefixes(parts)[3]
      <4>1. PICK q : q = Len(Encoder[T])
        OBVIOUS
      <4>2. q = 3
        BY <1>2, <1>3, <4>1
      <4>3. IsParts(parts, q) /\ Encoded(T, m) = Prefixes(parts)[q]
        BY <1>1, <1>9, <2>2, <4>1, EncodedFacts
      <4> QED BY <4>2, <4>3
    <3>2. parts[1] = a
      <4>1. PICK q \in 1..Len(Encoder[T]) : q = 1
        BY <1>2, <1>3, <1>5
      <4>2. Encoder[T][q] = <<t, f, k>>
        BY <1>2, <1>3, <4>1
      <4>3. EncodedFields(T, m)[q] = Joined(Pieces(t, k, m[f]))
        BY <1>1, <1>9, <4>2, RowAt
      <4> QED BY <2>1, <2>2, <4>1, <4>3 DEF RowBytes
    <3>3. parts[2] = b
      <4>1. PICK q \in 1..Len(Encoder[T]) : q = 2
        BY <1>2, <1>3, <1>5
      <4>2. Encoder[T][q] = <<u, g, l>>
        BY <1>2, <1>3, <4>1
      <4>3. EncodedFields(T, m)[q] = Joined(Pieces(u, l, m[g]))
        BY <1>1, <1>9, <4>2, RowAt
      <4> QED BY <2>1, <2>2, <4>1, <4>3 DEF RowBytes
    <3>4. parts[3] = c
      <4>1. PICK q \in 1..Len(Encoder[T]) : q = 3
        BY <1>2, <1>3, <1>5
      <4>2. Encoder[T][q] = <<w, h, n>>
        BY <1>2, <1>3, <4>1
      <4>3. EncodedFields(T, m)[q] = Joined(Pieces(w, n, m[h]))
        BY <1>1, <1>9, <4>2, RowAt
      <4> QED BY <2>1, <2>2, <4>1, <4>3 DEF RowBytes
    <3> QED BY <3>1, <3>2, <3>3, <3>4
  <2>4. /\ Prefixes(parts)[1] = Prefixes(parts)[0] \o a
        /\ Prefixes(parts)[2] = Prefixes(parts)[1] \o b
        /\ Prefixes(parts)[3] = Prefixes(parts)[2] \o c /\ a \in Seq(Byte)
    <3>1. 1 - 1 = 0 /\ 2 - 1 = 1 /\ 3 - 1 = 2
      OBVIOUS
    <3> QED BY <1>5, <2>3, <3>1, PartFollows, ZenonT(60)
  <2>5. Prefixes(parts)[0] = <<>>
    BY PrefixesRec
  <2>6. <<>> \o a = a
    BY <2>4
  <2> QED BY <2>1, <2>3, <2>4, <2>5, <2>6
<1> QED BY <1>6, <1>8, <1>9 DEF Splits3

(* An empty string is left out.                                            *)
LEMMA NoPieces ==
  ASSUME NEW kind, kind[1] = "bytes", NEW tag
  PROVE  Joined(Pieces(tag, kind, <<>>)) = <<>>
<1>1. Elements(kind, <<>>) = <<>>
  BY DEF Elements, Repeated
<1>2. Pieces(tag, kind, <<>>) = <<>>
  BY <1>1 DEF Pieces
<1>3. Prefixes(<<>>)[0] = <<>> /\ Len(<<>>) = 0
  BY PrefixesRec
<1> QED BY <1>2, <1>3 DEF Joined

(* What is embedded counts only by its bytes.                              *)
LEMMA SamePieces ==
  ASSUME NEW k, NEW l, k[1] = "val", l[1] = "val", NEW a, NEW b, NEW tag,
         InnerEncoded(k[2], a) = InnerEncoded(l[2], b)
  PROVE  Pieces(tag, k, a) = Pieces(tag, l, b)
<1>1. Elements(k, a) = <<a>> /\ Elements(l, b) = <<b>>
  BY DEF Elements, Repeated
<1>2. Content(k, a) = Content(l, b)
  BY DEF Content, Embedding
<1>3. Piece(tag, k, a) = Piece(tag, l, b)
  BY <1>2 DEF Piece, Numbers
<1> QED BY <1>1, <1>3 DEF Pieces
=============================================================================

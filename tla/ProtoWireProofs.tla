--------------------------- MODULE ProtoWireProofs ---------------------------
(***************************************************************************)
(* Proofs about ProtoWire: whatever the bytes, Unmarshal and skipTx keep   *)
(* their indices inside their slices and come to an end, and what Marshal  *)
(* and the wallet write is read as it was meant, for every width of the    *)
(* integers.                                                               *)
(***************************************************************************)
EXTENDS ProtoWire, FiniteSums, SequenceTheorems

(***************************************************************************)
(* Arithmetic: powers of two, and int as the code uses it.                 *)
(***************************************************************************)
\* The recursive definition of Pow2 has a solution.
LEMMA Pow2Given == Pow2 = [n \in Nat |-> IF n = 0 THEN 1 ELSE 2 * Pow2[n - 1]]
<1>1. PICK S, F, z : S = Nat /\ F = [n \in Nat |-> [x \in Nat |-> 2 * x]] /\ z = 1
  OBVIOUS
<1>2. PICK f \in [Nat -> Nat] :
        \A n \in Nat : f[n] = IF n = 0 THEN z ELSE F[n][f[n - 1]]
  <2>1. z \in S /\ F \in [Nat -> [S -> S]]
    BY <1>1
  <2>2. \E f \in [Nat -> S] :
          \A n \in Nat : f[n] = IF n = 0 THEN z ELSE F[n][f[n - 1]]
    BY <2>1, RecursionExists
  <2> QED BY <1>1, <2>2
<1>3. ASSUME NEW n \in Nat PROVE f[n] = IF n = 0 THEN 1 ELSE 2 * f[n - 1]
  <2>1. CASE n = 0
    BY <1>1, <1>2, <2>1
  <2>2. CASE n # 0
    <3>1. PICK x \in Nat : x = f[n - 1]
      BY <2>2
    <3>2. F[n][x] = 2 * x
      BY <1>1
    <3>3. f[n] = F[n][f[n - 1]]
      BY <1>2, <2>2
    <3> QED BY <2>2, <3>1, <3>2, <3>3
  <2> QED BY <2>1, <2>2
<1>4. f = [n \in Nat |-> IF n = 0 THEN 1 ELSE 2 * f[n - 1]]
  BY <1>3
<1> QED BY <1>4 DEF Pow2

\* 1 << n is positive, and doubles with each n.
LEMMA Pow2Facts ==
  /\ Pow2[0] = 1
  /\ \A n \in Nat : Pow2[n] \in Nat \ {0} /\ Pow2[n + 1] = 2 * Pow2[n]
<1> DEFINE P == {n \in Nat : Pow2[n] \in Nat \ {0}}
<1>1. \A n \in Nat : Pow2[n] = IF n = 0 THEN 1 ELSE 2 * Pow2[n - 1]
  <2>1. \A f : f = [n \in Nat |-> IF n = 0 THEN 1 ELSE 2 * f[n - 1]]
               => \A n \in Nat : f[n] = IF n = 0 THEN 1 ELSE 2 * f[n - 1]
    OBVIOUS
  <2> QED BY Pow2Given, <2>1
<1>2. 0 \in P /\ \A n \in Nat : n \in P => n + 1 \in P
  <2> HIDE DEF Pow2
  <2>1. \A n \in Nat : n + 1 # 0 /\ (n + 1) - 1 = n
    OBVIOUS
  <2> QED BY <1>1, <2>1
<1>3. Nat \subseteq P
  <2> HIDE DEF P
  <2> QED BY <1>2, NatSetInduction
<1>4. \A n \in Nat : n + 1 # 0 /\ (n + 1) - 1 = n
  OBVIOUS
<1> QED BY <1>1, <1>3, <1>4

\* The largest int, plus one.
Half == Word \div 2

\* What the widths give: a byte has a value, int has two halves, and lengths of
\* slices and the constant 8 are below Half.
LEMMA Widths ==
  /\ Base \in Nat \ {0}
  /\ Half \in Nat /\ Half > 8 /\ Word = 2 * Half
  /\ Groups \in Nat
<1>1. Base \in Nat \ {0}
  BY Pow2Facts, WireAssumption DEF Base
<1>2. Half \in Nat /\ Half > 8 /\ Word = 2 * Half
  <2>1. Pow2[1] = 2 /\ Pow2[2] = 4 /\ Pow2[3] = 8 /\ Pow2[4] = 16
    <3>1. Pow2[0 + 1] = 2 /\ Pow2[1 + 1] = 2 * Pow2[1] /\ Pow2[2 + 1] = 2 * Pow2[2]
            /\ Pow2[3 + 1] = 2 * Pow2[3]
      BY Pow2Facts
    <3> QED BY <3>1
  <2> DEFINE P == {n \in Nat : Pow2[n + 4] >= 16}
  <2>2. 0 \in P /\ \A n \in Nat : n \in P => n + 1 \in P
    <3>1. ASSUME NEW n \in Nat, n \in P PROVE n + 1 \in P
      <4>1. Pow2[(n + 4) + 1] = 2 * Pow2[n + 4] /\ Pow2[n + 4] >= 16
              /\ Pow2[n + 4] \in Nat
        BY <3>1, Pow2Facts
      <4>2. (n + 4) + 1 = (n + 1) + 4
        OBVIOUS
      <4> QED BY <4>1, <4>2
    <3> QED BY <2>1, <3>1
  <2>3. Nat \subseteq P
    <3> HIDE DEF P
    <3> QED BY <2>2, NatSetInduction
  <2>4. Width - 5 \in Nat /\ Width - 1 \in Nat /\ (Width - 5) + 4 = Width - 1
          /\ (Width - 1) + 1 = Width
    BY WireAssumption
  <2>5. Pow2[Width - 1] >= 16 /\ Pow2[Width - 1] \in Nat
    <3>1. Pow2[(Width - 5) + 4] >= 16
      BY <2>3, <2>4
    <3> QED BY <2>4, <3>1, Pow2Facts
  <2>6. Word = 2 * Pow2[Width - 1]
    BY <2>4, Pow2Facts DEF Word
  <2> QED BY <2>5, <2>6 DEF Half
<1>3. Groups \in Nat
  BY WireAssumption DEF Groups
<1> QED BY <1>1, <1>2, <1>3

\* int(x) for a value of 64 bits.
LEMMA SignedRange ==
  ASSUME NEW x \in 0 .. Word - 1
  PROVE  Signed(x) \in -Half .. Half - 1
BY Widths DEF Signed, Half

\* A sum of two lengths is the sum, or negative when it is beyond int.
LEMMA AddFacts ==
  ASSUME NEW i \in 0 .. Half - 1, NEW n \in 0 .. Half - 1
  PROVE  /\ Add(i, n) \in Int
         /\ Add(i, n) >= 0 => Add(i, n) = i + n /\ i + n < Half
BY Widths DEF Add, Signed, Half

\* The index after n bytes, when it is accepted, is that and in the slice.
LEMMA PostIndexFacts ==
  ASSUME NEW c, Length(c) \in 0 .. Half - 1, NEW i \in 0 .. Length(c),
         NEW n \in -Half .. Half - 1
  PROVE  /\ PostIndex(c, i, n).err \in Errors
         /\ PostIndex(c, i, n).err = "nil" =>
              /\ PostIndex(c, i, n).at = i + n
              /\ PostIndex(c, i, n).at \in i .. Length(c)
<1>1. PICK l \in 0 .. Half - 1 : l = Length(c)
  OBVIOUS
<1>2. CASE n < 0
  BY <1>2 DEF PostIndex, Errors
<1>3. CASE n >= 0
  <2>1. n \in 0 .. Half - 1 /\ i \in 0 .. Half - 1
    BY <1>1, <1>3, Widths
  <2>2. PICK a : a = Add(i, n)
    OBVIOUS
  <2>3. a \in Int /\ (a >= 0 => a = i + n)
    BY <2>1, <2>2, AddFacts
  <2>4. CASE a < 0
    BY <2>2, <2>4 DEF PostIndex, Errors
  <2>5. CASE ~(a < 0) /\ a > l
    BY <1>1, <1>3, <2>2, <2>5 DEF PostIndex, Errors
  <2>6. CASE ~(a < 0) /\ ~(a > l)
    <3>1. PostIndex(c, i, n) = [err |-> "nil", at |-> a]
      BY <1>1, <1>3, <2>2, <2>6 DEF PostIndex
    <3>2. a \in i .. l /\ a = i + n
      BY <1>1, <1>3, <2>3, <2>6
    <3> QED BY <1>1, <3>1, <3>2 DEF Errors
  <2> QED BY <2>4, <2>5, <2>6
<1> QED BY <1>2, <1>3, Widths

(***************************************************************************)
(* Varints.                                                                *)
(***************************************************************************)
\* The n bytes at index i are numbers, and f adds them up, byte by byte.
Octets(c, i, n) == \A k \in 1 .. n : At(c, i + k - 1) \in Int
Adding(f, c, i, n) ==
  \A k \in 0 .. n :
    f[k] = IF k = 0 THEN 0
           ELSE f[k - 1] + (At(c, i + k - 1) % Base) * Pow2[GroupBits * (k - 1)]

\* What the bytes contribute is the last sum.
LEMMA BitsSolved ==
  ASSUME NEW c, NEW i \in Nat, NEW n \in Nat, Octets(c, i, n)
  PROVE  \E f : Adding(f, c, i, n) /\ Bits(c, i, n) = f[n]
<1> DEFINE term(k) == (At(c, i + k - 1) % Base) * Pow2[GroupBits * (k - 1)]
           step(f) == [k \in 0 .. n |-> IF k = 0 THEN 0 ELSE f[k - 1] + term(k)]
<1>1. ASSUME NEW k \in 1 .. n PROVE term(k) \in Int
  <2>1. PICK a \in Int : a = At(c, i + k - 1)
    BY DEF Octets
  <2>2. a % Base \in Int
    BY Widths
  <2>3. GroupBits * (k - 1) \in Nat
    BY WireAssumption
  <2>4. Pow2[GroupBits * (k - 1)] \in Int
    BY <2>3, Pow2Facts
  <2>5. \A x, y \in Int : x * y \in Int
    OBVIOUS
  <2> QED BY <2>1, <2>2, <2>4, <2>5
<1>2. \E f : f = step(f)
  <2>1. PICK S, F, z : /\ S = Int /\ z = 0
                       /\ F = [k \in Nat |-> [x \in Int |->
                                 IF k \in 1 .. n THEN x + term(k) ELSE x]]
    OBVIOUS
  <2>2. z \in S /\ F \in [Nat -> [S -> S]]
    <3> HIDE DEF term
    <3> QED BY <1>1, <2>1
  <2>3. PICK g \in [Nat -> S] : \A k \in Nat : g[k] = IF k = 0 THEN z ELSE F[k][g[k - 1]]
    BY ONLY <2>2, RecursionExists
  <2>4. PICK f : f = [k \in 0 .. n |-> g[k]]
    OBVIOUS
  <2>5. ASSUME NEW k \in 0 .. n
        PROVE  f[k] = IF k = 0 THEN 0 ELSE f[k - 1] + term(k)
    <3>1. CASE k = 0
      BY <2>1, <2>3, <2>4, <3>1
    <3>2. CASE k # 0
      <4>1. PICK x \in Int : x = g[k - 1] /\ x = f[k - 1]
        <5>1. k - 1 \in Nat /\ k - 1 \in 0 .. n
          BY <3>2
        <5>2. g \in [Nat -> Int]
          BY <2>1, <2>3
        <5> QED BY <2>4, <5>1, <5>2
      <4>2. F[k][x] = x + term(k)
        <5>1. k \in 1 .. n /\ k \in Nat
          BY <3>2
        <5> HIDE DEF term
        <5> QED BY <2>1, <5>1
      <4>3. f[k] = F[k][g[k - 1]]
        BY <2>3, <2>4, <3>2
      <4> HIDE DEF term
      <4> QED BY <3>2, <4>1, <4>2, <4>3
    <3> QED BY <3>1, <3>2
  <2>6. f = step(f)
    <3> HIDE DEF term
    <3> QED BY <2>4, <2>5
  <2> QED BY <2>6
<1>3. Bits(c, i, n) = (CHOOSE f : f = step(f))[n]
  BY DEF Bits
<1>4. PICK f : f = step(f) /\ Bits(c, i, n) = f[n]
  <2> HIDE DEF step
  <2> QED BY <1>2, <1>3
<1>5. \A k \in 0 .. n : f[k] = IF k = 0 THEN 0 ELSE f[k - 1] + term(k)
  <2> HIDE DEF term
  <2>1. \A h : h = step(f) =>
          \A k \in 0 .. n : h[k] = IF k = 0 THEN 0 ELSE f[k - 1] + term(k)
    OBVIOUS
  <2> QED BY <1>4, <2>1
<1>6. Adding(f, c, i, n)
  BY <1>5 DEF Adding
<1> HIDE DEF step
<1> QED BY <1>4, <1>6

\* It is a number.
LEMMA BitsType ==
  ASSUME NEW c, NEW i \in Nat, NEW n \in Nat, Octets(c, i, n)
  PROVE  Bits(c, i, n) \in Int
<1> DEFINE term(k) == (At(c, i + k - 1) % Base) * Pow2[GroupBits * (k - 1)]
<1>1. ASSUME NEW k \in 1 .. n PROVE term(k) \in Int
  <2>1. PICK a \in Int : a = At(c, i + k - 1)
    BY DEF Octets
  <2>2. a % Base \in Int
    BY Widths
  <2>3. GroupBits * (k - 1) \in Nat
    BY WireAssumption
  <2>4. Pow2[GroupBits * (k - 1)] \in Int
    BY <2>3, Pow2Facts
  <2>5. \A x, y \in Int : x * y \in Int
    OBVIOUS
  <2> QED BY <2>1, <2>2, <2>4, <2>5
<1>0. PICK f : Adding(f, c, i, n) /\ Bits(c, i, n) = f[n]
  BY BitsSolved
<1>2. \A k \in 0 .. n : f[k] = IF k = 0 THEN 0 ELSE f[k - 1] + term(k)
  BY <1>0 DEF Adding
<1> DEFINE K == {k \in Nat : k <= n => f[k] \in Int}
<1>3. 0 \in K
  BY <1>2
<1>4. ASSUME NEW k \in Nat, k \in K PROVE k + 1 \in K
  <2>1. SUFFICES ASSUME k + 1 <= n PROVE f[k + 1] \in Int
    OBVIOUS
  <2>2. k + 1 \in 1 .. n /\ k + 1 \in 0 .. n /\ k + 1 # 0 /\ (k + 1) - 1 = k
    BY <2>1
  <2>3. f[k] \in Int /\ term(k + 1) \in Int
    <3>1. k <= n
      BY <2>1
    <3> HIDE DEF term
    <3> QED BY <1>1, <1>4, <2>2, <3>1
  <2>4. f[k + 1] = f[k] + term(k + 1)
    <3> HIDE DEF term
    <3> QED BY <1>2, <2>2
  <2> HIDE DEF term
  <2> QED BY <2>3, <2>4
<1>5. Nat \subseteq K
  <2> HIDE DEF K
  <2> QED BY <1>3, <1>4, NatSetInduction
<1> QED BY <1>0, <1>5

\* The first of a set is its least.
LEMMA FirstLeast ==
  ASSUME NEW S, S \subseteq Nat, S # {}
  PROVE  First(S) \in S /\ \A k \in S : First(S) <= k
<1>1. SUFFICES ASSUME \A n \in S : ~ \A k \in S : n <= k PROVE FALSE
  BY DEF First
<1> DEFINE P == {n \in Nat : \A k \in S : n <= k}
<1>2. 0 \in P
  OBVIOUS
<1>3. ASSUME NEW n \in Nat, n \in P PROVE n + 1 \in P
  <2>1. ASSUME NEW k \in S PROVE n + 1 <= k
    <3>1. n \notin S
      BY <1>1, <1>3
    <3>2. n <= k /\ n # k /\ k \in Nat
      BY <1>3, <3>1
    <3> QED BY <3>2
  <2> QED BY <2>1
<1>4. Nat \subseteq P
  <2> HIDE DEF P
  <2> QED BY <1>2, <1>3, NatSetInduction
<1>5. PICK k \in S : k \in Nat
  OBVIOUS
<1>6. k + 1 \in P /\ k + 1 \in Nat
  BY <1>4, <1>5
<1> QED BY <1>5, <1>6

\* A slice lies in the first n bytes; in the input.
Inside(c, n) == c.lo \in Nat /\ c.hi \in Nat /\ c.lo <= c.hi /\ c.hi <= n
InSlice(c) == Inside(c, Len(input.bytes))

\* The input is one that may be received.
LEMMA InputFacts ==
  ASSUME input \in Inputs
  PROVE  /\ input.type \in Types
         /\ Len(input.bytes) \in 0 .. Half - 1
         /\ \A j \in 1 .. Len(input.bytes) : input.bytes[j] \in 0 .. 2 * Base - 1
<1>1. input.type \in Types /\ input.bytes \in Seq(0 .. 2 * Base - 1)
        /\ Len(input.bytes) < Half
  BY WireAssumption DEF Half
<1>2. Len(input.bytes) \in Nat
  BY <1>1
<1>3. ASSUME NEW j \in 1 .. Len(input.bytes) PROVE input.bytes[j] \in 0 .. 2 * Base - 1
  <2>1. \A D : \A s \in Seq(D) : \A k \in 1 .. Len(s) : s[k] \in D
    OBVIOUS
  <2> QED BY <1>1, <2>1
<1> QED BY <1>1, <1>2, <1>3, Widths

\* The bytes of a slice are bytes.
LEMMA AtType ==
  ASSUME input \in Inputs, NEW c, InSlice(c), NEW j \in Nat, j < Length(c)
  PROVE  At(c, j) \in 0 .. 2 * Base - 1
<1>1. c.lo + j + 1 \in 1 .. Len(input.bytes)
  <2>1. PICK l \in Nat, h \in Nat, n \in Nat :
          l = c.lo /\ h = c.hi /\ n = Len(input.bytes)
    BY InputFacts, Widths DEF InSlice, Inside
  <2>2. j < h - l /\ h <= n
    BY <2>1 DEF Length, InSlice, Inside
  <2>3. l + j + 1 \in 1 .. n
    BY <2>2
  <2> QED BY <2>1, <2>3
<1> QED BY <1>1, InputFacts DEF At

\* A varint that is read is a number of Width bits, and ends in the slice,
\* behind where it begins.
LEMMA VarintFacts ==
  ASSUME input \in Inputs, NEW c, InSlice(c), NEW i \in 0 .. Length(c)
  PROVE  /\ Varint(c, i).err \in Errors
         /\ Varint(c, i).err = "nil" =>
              /\ Varint(c, i).val \in 0 .. Word - 1
              /\ Varint(c, i).next \in i + 1 .. Length(c)
<1>1. CASE Ends(c, i) = {}
  BY <1>1 DEF Varint, Errors
<1>2. CASE Ends(c, i) # {}
  <2>1. PICK n : n = First(Ends(c, i))
    OBVIOUS
  <2>2. n \in Ends(c, i)
    <3>1. Ends(c, i) \subseteq Nat
      BY Widths DEF Ends
    <3> QED BY <1>2, <2>1, <3>1, FirstLeast
  <2>3. n \in Nat /\ n >= 1 /\ i + n <= Length(c)
    BY <2>2, Widths DEF Ends
  <2>4. Length(c) \in Int /\ i \in Nat
    BY DEF Length, InSlice, Inside
  <2>5. Bits(c, i, n) \in Int
    <3>1. ASSUME NEW k \in 1 .. n PROVE At(c, i + k - 1) \in Int
      <4>1. i + k - 1 \in Nat /\ i + k - 1 < Length(c)
        BY <2>3, <2>4
      <4> QED BY <4>1, AtType, Widths
    <3> QED BY <2>3, <2>4, <3>1, BitsType DEF Octets
  <2>6. Bits(c, i, n) % Word \in 0 .. Word - 1
    BY <2>5, Widths
  <2>7. Varint(c, i) = [err |-> "nil", val |-> Bits(c, i, n) % Word, next |-> i + n]
    BY <1>2, <2>1 DEF Varint
  <2>8. i + n \in i + 1 .. Length(c)
    BY <2>3, <2>4
  <2> QED BY <2>6, <2>7, <2>8 DEF Errors
<1> QED BY <1>1, <1>2
(***************************************************************************)
(* Messages and the calls that fill them.                                  *)
(***************************************************************************)
\* Field f of a message of this type holds a Params.
IsNested(type, f) == f \in DOMAIN Fields(type) /\ Fields(type)[f] = "Params"

\* A message has the fields of its type, and Params have theirs.
MsgOK(type, msg) ==
  /\ DOMAIN msg = DOMAIN Fields(type)
  /\ \A f : IsNested(type, f) => DOMAIN msg[f] = 1 .. 4

\* A call of Unmarshal works on a slice of n bytes, with its index in it.
CallOK(c, n) ==
  /\ c = [type |-> c.type, lo |-> c.lo, hi |-> c.hi, i |-> c.i,
          msg |-> c.msg, field |-> c.field]
  /\ c.type \in Types
  /\ Inside(c, n)
  /\ c.i \in 0 .. Length(c)
  /\ MsgOK(c.type, c.msg)

\* Call a reads a Params that call b found, in a slice behind where b stands.
Within(a, b) ==
  /\ a.type = "Params"
  /\ IsNested(b.type, a.field)
  /\ b.lo + b.i < a.lo
  /\ a.hi <= b.hi

StackOK(s, n) ==
  \/ \E a : s = <<a>> /\ CallOK(a, n)
  \/ \E a, b : s = <<a, b>> /\ CallOK(a, n) /\ CallOK(b, n) /\ Within(a, b)

\* Every type has a list of fields, each a text, a flag or a Params.
LEMMA FieldsType ==
  ASSUME NEW type \in Types
  PROVE  Fields(type) \in Seq({"text", "bool", "Params"})
<1>1. CASE type = "MsgMint"
  BY <1>1 DEF Fields, UnmarshalMsgMint
<1>2. CASE type = "MsgMintResponse"
  BY <1>2 DEF Fields, UnmarshalMsgMintResponse
<1>3. CASE type = "MsgBurn"
  BY <1>3 DEF Fields, UnmarshalMsgBurn
<1>4. CASE type = "MsgBurnResponse"
  BY <1>4 DEF Fields, UnmarshalMsgBurnResponse
<1>5. CASE type = "MsgUpdateParams"
  BY <1>5 DEF Fields, UnmarshalMsgUpdateParams
<1>6. CASE type = "MsgUpdateParamsResponse"
  BY <1>6 DEF Fields, UnmarshalMsgUpdateParamsResponse
<1>7. CASE type = "Params"
  BY <1>7 DEF Fields, UnmarshalParams
<1>8. CASE type = "GenesisState"
  BY <1>8 DEF Fields, UnmarshalGenesisState
<1>9. CASE type = "QueryParamsRequest"
  BY <1>9 DEF Fields, UnmarshalQueryParamsRequest
<1>10. CASE type = "QueryParamsResponse"
  BY <1>10 DEF Fields, UnmarshalQueryParamsResponse
<1>11. CASE type = "Module"
  BY <1>11 DEF Fields, UnmarshalModule
<1> QED BY <1>1, <1>2, <1>3, <1>4, <1>5, <1>6, <1>7, <1>8, <1>9, <1>10, <1>11
        DEF Types

\* Params has four fields, none of which is a Params.
LEMMA ParamsFields ==
  /\ DOMAIN Fields("Params") = 1 .. 4
  /\ \A f : ~IsNested("Params", f)
<1>1. Fields("Params") = <<"text", "text", "bool", "text">>
  BY DEF Fields, UnmarshalParams
<1> QED BY <1>1 DEF IsNested

\* The message Unmarshal begins with has the fields of its type.
LEMMA ZeroOK ==
  ASSUME NEW type \in Types
  PROVE  MsgOK(type, Zero(type))
<1>1. PICK fs : fs = Fields(type)
  OBVIOUS
<1>2. fs \in Seq({"text", "bool", "Params"})
  BY <1>1, FieldsType
<1>3. DOMAIN fs = 1 .. Len(fs)
  BY <1>2
<1>4. Zero(type) = [f \in 1 .. Len(fs) |->
         CASE fs[f] = "text" -> <<>>
           [] fs[f] = "bool" -> FALSE
           [] fs[f] = "Params" -> ZeroParams]
  BY <1>1 DEF Zero
<1>5. DOMAIN Zero(type) = DOMAIN fs
  BY <1>3, <1>4
<1>6. ASSUME NEW f, IsNested(type, f) PROVE DOMAIN Zero(type)[f] = 1 .. 4
  <2>1. f \in 1 .. Len(fs) /\ fs[f] = "Params"
    BY <1>1, <1>3, <1>6 DEF IsNested
  <2>2. Zero(type)[f] = ZeroParams
    BY <1>4, <2>1
  <2> QED BY <2>2 DEF ZeroParams
<1> QED BY <1>1, <1>5, <1>6 DEF MsgOK

\* A message keeps its fields when one of them is set, a Params to a Params.
LEMMA SetField ==
  ASSUME NEW type, NEW msg, MsgOK(type, msg), NEW f, NEW v,
         IsNested(type, f) => DOMAIN v = 1 .. 4
  PROVE  MsgOK(type, [msg EXCEPT ![f] = v])
<1>1. DOMAIN [msg EXCEPT ![f] = v] = DOMAIN msg
  OBVIOUS
<1>2. ASSUME NEW g, IsNested(type, g) PROVE DOMAIN [msg EXCEPT ![f] = v][g] = 1 .. 4
  <2>1. g \in DOMAIN msg
    BY <1>2 DEF MsgOK, IsNested
  <2>2. CASE g = f
    <3>1. [msg EXCEPT ![f] = v][g] = v
      BY <2>1, <2>2
    <3> QED BY <1>2, <2>2, <3>1
  <2>3. CASE g # f
    <3>1. [msg EXCEPT ![f] = v][g] = msg[g]
      BY <2>1, <2>3
    <3> QED BY <1>2, <3>1 DEF MsgOK
  <2> QED BY <2>2, <2>3
<1> QED BY <1>1, <1>2 DEF MsgOK

\* The stack holds one call, or two where the outer one waits.
LEMMA TopFacts ==
  ASSUME NEW s, NEW n, StackOK(s, n)
  PROVE  /\ CallOK(Head(s), n)
         /\ \/ s = <<Head(s)>> /\ Tail(s) = <<>>
            \/ \E b : /\ s = <<Head(s), b>> /\ Tail(s) = <<b>>
                      /\ CallOK(b, n) /\ Within(Head(s), b)
<1>1. \A a, b : /\ Head(<<a>>) = a /\ Tail(<<a>>) = <<>>
                /\ Head(<<a, b>>) = a /\ Tail(<<a, b>>) = <<b>>
  OBVIOUS
<1>2. CASE \E a : s = <<a>> /\ CallOK(a, n)
  <2>1. PICK a : s = <<a>> /\ CallOK(a, n)
    BY <1>2
  <2> QED BY <1>1, <2>1
<1>3. CASE \E a, b : s = <<a, b>> /\ CallOK(a, n) /\ CallOK(b, n) /\ Within(a, b)
  <2>1. PICK a, b : s = <<a, b>> /\ CallOK(a, n) /\ CallOK(b, n) /\ Within(a, b)
    BY <1>3
  <2>2. Head(s) = a /\ Tail(s) = <<b>>
    BY <1>1, <2>1
  <2> QED BY <2>1, <2>2
<1> QED BY <1>2, <1>3 DEF StackOK

\* Two sequences of one element put together.
LEMMA JoinTwo == \A a, b : <<a>> \o <<b>> = <<a, b>>
<1> TAKE a, b
<1>1. PICK S, s, r, c : S = {a, b} /\ s = <<a>> /\ r = <<b>> /\ c = <<a, b>>
  OBVIOUS
<1>2. s \in Seq(S) /\ r \in Seq(S) /\ c \in Seq(S)
  BY <1>1
<1>3. /\ Len(s) = 1 /\ Len(r) = 1 /\ Len(c) = 2
      /\ s[1] = a /\ r[1] = b /\ c[1] = a /\ c[2] = b
  BY <1>1
<1>4. s \o r \in Seq(S) /\ Len(s \o r) = 2 /\ (s \o r)[1] = a /\ (s \o r)[2] = b
  <2>1. s \o r \in Seq(S) /\ Len(s \o r) = Len(s) + Len(r)
    BY <1>2
  <2>2. \A k \in 1 .. Len(s) + Len(r) :
          (s \o r)[k] = IF k <= Len(s) THEN s[k] ELSE r[k - Len(s)]
    BY <1>2, ConcatProperties
  <2>3. (s \o r)[1] = s[1] /\ (s \o r)[2] = r[1]
    BY <1>3, <2>2
  <2> QED BY <1>3, <2>1, <2>3
<1>5. \A k \in 1 .. Len(c) : c[k] = (s \o r)[k]
  BY <1>3, <1>4
<1>6. c = s \o r
  BY <1>2, <1>3, <1>4, <1>5, SeqEqual
<1> QED BY <1>1, <1>6

\* Short sequences put together and taken apart.
LEMMA Joins ==
  \A a, b : /\ <<a>> \o <<>> = <<a>>
            /\ <<a>> \o <<b>> = <<a, b>>
            /\ Tail(<<b>>) = <<>>
            /\ Head(<<a, b>>) = a /\ Head(<<a>>) = a
<1> TAKE a, b
<1>1. <<a>> \o <<>> = <<a>>
  <2>1. <<a>> \in Seq({a}) /\ <<>> \in Seq({a})
    OBVIOUS
  <2> QED BY <2>1
<1>2. Tail(<<b>>) = <<>>
  OBVIOUS
<1>3. Head(<<a, b>>) = a /\ Head(<<a>>) = a
  OBVIOUS
<1> QED BY <1>1, <1>2, <1>3, JoinTwo

\* A call whose index and message are replaced.
LEMMA Moved ==
  ASSUME NEW c, c = [type |-> c.type, lo |-> c.lo, hi |-> c.hi, i |-> c.i,
                     msg |-> c.msg, field |-> c.field], NEW i, NEW msg
  PROVE  [c EXCEPT !.i = i, !.msg = msg]
           = [type |-> c.type, lo |-> c.lo, hi |-> c.hi, i |-> i,
              msg |-> msg, field |-> c.field]
<1>1. PICK t, l, h, j, m, f :
        c = [type |-> t, lo |-> l, hi |-> h, i |-> j, msg |-> m, field |-> f]
  OBVIOUS
<1>2. [c EXCEPT !.i = i, !.msg = msg] = [[c EXCEPT !.i = i] EXCEPT !.msg = msg]
  OBVIOUS
<1>3. PICK d : d = [type |-> t, lo |-> l, hi |-> h, i |-> i, msg |-> m, field |-> f]
  OBVIOUS
<1>4. [c EXCEPT !.i = i] = d
  BY <1>1, <1>3
<1>5. [d EXCEPT !.msg = msg]
        = [type |-> t, lo |-> l, hi |-> h, i |-> i, msg |-> msg, field |-> f]
  BY <1>3
<1>6. c.type = t /\ c.lo = l /\ c.hi = h /\ c.field = f
  BY <1>1
<1> QED BY <1>2, <1>4, <1>5, <1>6

\* The innermost call goes on in its slice.
LEMMA AdvanceOK ==
  ASSUME NEW s, NEW n, StackOK(s, n), NEW i \in 0 .. Length(Head(s)),
         NEW msg, MsgOK(Head(s).type, msg)
  PROVE  StackOK(<<[Head(s) EXCEPT !.i = i, !.msg = msg]>> \o Tail(s), n)
<1>1. PICK a : a = Head(s)
  OBVIOUS
<1>2. CallOK(a, n)
  BY <1>1, TopFacts
<1>3. PICK x : x = [a EXCEPT !.i = i, !.msg = msg]
  OBVIOUS
<1>4. /\ x = [type |-> a.type, lo |-> a.lo, hi |-> a.hi, i |-> i,
              msg |-> msg, field |-> a.field]
  <2>1. a = [type |-> a.type, lo |-> a.lo, hi |-> a.hi, i |-> a.i,
             msg |-> a.msg, field |-> a.field]
    BY <1>2 DEF CallOK
  <2> QED BY <1>3, <2>1, Moved
<1>5. /\ x.type = a.type /\ x.lo = a.lo /\ x.hi = a.hi /\ x.i = i
      /\ x.msg = msg /\ x.field = a.field
  BY <1>4
<1>6. CallOK(x, n)
  <2>1. Length(x) = Length(a)
    BY <1>5 DEF Length
  <2> QED BY <1>1, <1>2, <1>4, <1>5, <2>1 DEF CallOK, Inside
<1>7. CASE Tail(s) = <<>>
  <2>1. <<x>> \o Tail(s) = <<x>>
    BY <1>7, Joins
  <2> QED BY <1>1, <1>3, <1>6, <2>1 DEF StackOK
<1>8. CASE \E b : Tail(s) = <<b>> /\ CallOK(b, n) /\ Within(a, b)
  <2>1. PICK b : Tail(s) = <<b>> /\ CallOK(b, n) /\ Within(a, b)
    BY <1>8
  <2>2. <<x>> \o Tail(s) = <<x, b>>
    BY <2>1, Joins
  <2>3. Within(x, b)
    BY <1>5, <2>1 DEF Within
  <2> QED BY <1>1, <1>3, <1>6, <2>1, <2>2, <2>3 DEF StackOK
<1> QED BY <1>1, <1>7, <1>8, TopFacts

\* Unmarshal is called for a Params.
LEMMA PushOK ==
  ASSUME NEW s, NEW n, StackOK(s, n), NEW x, CallOK(x, n), Within(x, Head(s))
  PROVE  StackOK(<<x>> \o s, n)
<1>1. Head(s).type # "Params"
  BY ParamsFields DEF Within
<1>2. s = <<Head(s)>>
  BY <1>1, TopFacts DEF Within
<1>3. <<x>> \o s = <<x, Head(s)>>
  BY <1>2, Joins
<1> QED BY <1>3, TopFacts DEF StackOK

\* The caller takes the message over and goes on at an index.
LEMMA Back ==
  ASSUME NEW b, b = [type |-> b.type, lo |-> b.lo, hi |-> b.hi, i |-> b.i,
                     msg |-> b.msg, field |-> b.field], NEW i, NEW f, NEW v
  PROVE  [b EXCEPT !.i = i, !.msg = [@ EXCEPT ![f] = v]]
           = [type |-> b.type, lo |-> b.lo, hi |-> b.hi, i |-> i,
              msg |-> [b.msg EXCEPT ![f] = v], field |-> b.field]
<1>1. PICK m : m = [b.msg EXCEPT ![f] = v]
  OBVIOUS
<1>2. [b EXCEPT !.i = i, !.msg = m]
        = [type |-> b.type, lo |-> b.lo, hi |-> b.hi, i |-> i,
           msg |-> m, field |-> b.field]
  <2>0. b = [type |-> b.type, lo |-> b.lo, hi |-> b.hi, i |-> b.i,
             msg |-> b.msg, field |-> b.field]
    OBVIOUS
  <2> QED BY ONLY <2>0, Moved, ZenonT(30)
<1>3. [b EXCEPT !.i = i, !.msg = [@ EXCEPT ![f] = v]] = [b EXCEPT !.i = i, !.msg = m]
  BY <1>1
<1> QED BY <1>1, <1>2, <1>3

\* Unmarshal of a Params returns, and its caller goes on behind the slice.
LEMMA PopOK ==
  ASSUME NEW s, NEW n, n \in Nat, StackOK(s, n), Tail(s) # <<>>,
         NEW b, b = Head(Tail(s)), NEW a, a = Head(s)
  PROVE  StackOK(<<[b EXCEPT !.i = a.hi - b.lo,
                             !.msg = [@ EXCEPT ![a.field] = a.msg]]>>
                 \o Tail(Tail(s)), n)
<1>1. s = <<a, b>> /\ Tail(s) = <<b>> /\ CallOK(b, n) /\ CallOK(a, n) /\ Within(a, b)
  BY TopFacts, Joins
<1>2. PICK m, j : m = [b.msg EXCEPT ![a.field] = a.msg] /\ j = a.hi - b.lo
  OBVIOUS
<1>3. PICK x : x = [b EXCEPT !.i = a.hi - b.lo, !.msg = [@ EXCEPT ![a.field] = a.msg]]
  OBVIOUS
<1>4. x = [type |-> b.type, lo |-> b.lo, hi |-> b.hi, i |-> j, msg |-> m,
           field |-> b.field]
  BY <1>1, <1>2, <1>3, Back DEF CallOK
<1>5. /\ x.type = b.type /\ x.lo = b.lo /\ x.hi = b.hi /\ x.i = a.hi - b.lo
      /\ x.msg = m /\ x.field = b.field
  BY <1>2, <1>4
<1>6. MsgOK(b.type, m)
  <2>1. DOMAIN a.msg = 1 .. 4
    BY <1>1, ParamsFields DEF Within, CallOK, MsgOK
  <2> QED BY <1>1, <1>2, <2>1, SetField DEF CallOK
<1>7. x.i \in 0 .. Length(x)
  <2>1. b.lo \in Nat /\ b.hi \in Nat /\ a.lo \in Nat /\ a.hi \in Nat /\ a.lo <= a.hi
    BY <1>1 DEF CallOK, Inside
  <2>2. b.lo + b.i < a.lo /\ a.hi <= b.hi
    BY <1>1 DEF Within
  <2>3. b.i \in 0 .. b.hi - b.lo
    BY <1>1 DEF CallOK, Length
  <2>4. \A bl, bh, al, ah \in Nat : \A bi \in 0 .. bh - bl :
          al <= ah /\ bl + bi < al /\ ah <= bh => ah - bl \in 0 .. bh - bl
    OBVIOUS
  <2>5. a.hi - b.lo \in 0 .. b.hi - b.lo
    BY <2>1, <2>2, <2>3, <2>4
  <2> QED BY <1>5, <2>5 DEF Length
<1>8. CallOK(x, n)
  BY <1>1, <1>4, <1>5, <1>6, <1>7 DEF CallOK, Inside
<1>9. <<x>> \o Tail(Tail(s)) = <<x>>
  BY <1>1, Joins
<1> QED BY <1>3, <1>8, <1>9 DEF StackOK
(***************************************************************************)
(* The inductive invariant.                                                *)
(***************************************************************************)
\* A key that was read ends in the slice, behind the index.
KeyOK == mode = "value" => key.next \in Top.i + 1 .. Length(Top)

\* skipTx is at an index, at a depth.
SkipOK == mode = "skip" => skip.n \in Nat /\ skip.depth \in Nat

WireInv ==
  /\ input \in Inputs
  /\ StackOK(stack, Len(input.bytes))
  /\ mode \in {"fields", "value", "skip", "done"}
  /\ err \in Errors
  /\ KeyOK
  /\ SkipOK

\* What the invariant says of the innermost call.
LEMMA InTop ==
  ASSUME WireInv
  PROVE  /\ CallOK(Top, Len(input.bytes))
         /\ InSlice(Top)
         /\ Top.i \in 0 .. Length(Top)
         /\ Length(Top) \in 0 .. Half - 1
<1>1. CallOK(Top, Len(input.bytes))
  BY TopFacts DEF WireInv, Top
<1>2. InSlice(Top) /\ Top.i \in 0 .. Length(Top)
  BY <1>1 DEF CallOK, InSlice
<1>3. Len(input.bytes) \in 0 .. Half - 1
  BY InputFacts DEF WireInv
<1>4. Length(Top) \in 0 .. Half - 1
  BY <1>2, <1>3, Widths DEF InSlice, Inside, Length
<1> QED BY <1>1, <1>2, <1>4

\* The invariant implies what the run checks.
LEMMA InvIsTyped == WireInv => TypeOK
<1> SUFFICES ASSUME WireInv PROVE TypeOK
  OBVIOUS
<1> DEFINE n == Len(input.bytes)
<1>1. ASSUME NEW c, CallOK(c, n)
      PROVE  c.type \in Types /\ DOMAIN c.msg = DOMAIN Fields(c.type)
  BY <1>1 DEF CallOK, MsgOK
<1>2. CASE \E a : stack = <<a>> /\ CallOK(a, n)
  <2>1. PICK a : stack = <<a>> /\ CallOK(a, n)
    BY <1>2
  <2>2. Len(stack) = 1 /\ stack[1] = a
    BY <2>1
  <2> QED BY <1>1, <2>1, <2>2 DEF TypeOK, WireInv
<1>3. CASE \E a, b : stack = <<a, b>> /\ CallOK(a, n) /\ CallOK(b, n) /\ Within(a, b)
  <2>1. PICK a, b : stack = <<a, b>> /\ CallOK(a, n) /\ CallOK(b, n)
    BY <1>3
  <2>2. Len(stack) = 2 /\ stack[1] = a /\ stack[2] = b
    BY <2>1
  <2>3. \A k \in 1 .. Len(stack) : k = 1 \/ k = 2
    BY <2>2
  <2> QED BY <1>1, <2>1, <2>2, <2>3 DEF TypeOK, WireInv
<1> QED BY <1>2, <1>3 DEF WireInv, StackOK

\* It says where every index is.
LEMMA InvIsInBounds == WireInv => InBounds
<1> SUFFICES ASSUME WireInv PROVE InBounds
  OBVIOUS
<1> DEFINE n == Len(input.bytes)
           In(c) == 0 <= c.lo /\ c.hi <= n /\ 0 <= c.i /\ c.i <= Length(c)
           Behind(a, b) == b.lo + b.i < a.lo /\ a.hi <= b.hi
<1>1. ASSUME NEW c, CallOK(c, n) PROVE In(c)
  <2>1. c.lo \in Nat /\ c.hi \in Nat /\ c.hi <= n
    BY <1>1 DEF CallOK, Inside
  <2>2. c.i \in 0 .. c.hi - c.lo
    BY <1>1 DEF CallOK, Length
  <2> QED BY <2>1, <2>2 DEF Length
<1>2. mode = "value" => Top.i < key.next /\ key.next <= Length(Top)
  BY InTop, Widths DEF WireInv, KeyOK
<1>3. mode = "skip" => 0 <= skip.n /\ 0 <= skip.depth
  BY DEF WireInv, SkipOK
<1>4. /\ \A k \in 1 .. Len(stack) : In(stack[k])
      /\ \A k \in 2 .. Len(stack) : Behind(stack[k - 1], stack[k])
  <2>1. CASE \E a : stack = <<a>> /\ CallOK(a, n)
    <3>1. PICK a : stack = <<a>> /\ CallOK(a, n)
      BY <2>1
    <3>2. Len(stack) = 1 /\ stack[1] = a
      BY <3>1
    <3>3. \A k \in 1 .. Len(stack) : stack[k] = a
      BY <3>2
    <3>4. ~ \E k \in 2 .. Len(stack) : TRUE
      BY <3>2
    <3>5. In(a)
      BY <1>1, <3>1
    <3> HIDE DEF In, Behind
    <3> QED BY <3>3, <3>4, <3>5
  <2>2. CASE \E a, b : /\ stack = <<a, b>> /\ CallOK(a, n) /\ CallOK(b, n)
                       /\ Within(a, b)
    <3>1. PICK a, b : stack = <<a, b>> /\ CallOK(a, n) /\ CallOK(b, n) /\ Within(a, b)
      BY <2>2
    <3>2. Len(stack) = 2 /\ stack[1] = a /\ stack[2] = b
      BY <3>1
    <3>3. \A k \in 1 .. Len(stack) : stack[k] \in {a, b}
      BY <3>2
    <3>4. \A k \in 2 .. Len(stack) : stack[k] = b /\ stack[k - 1] = a
      BY <3>2
    <3>5. In(a) /\ In(b)
      BY <1>1, <3>1
    <3>6. Behind(a, b)
      BY <3>1 DEF Within
    <3> HIDE DEF In, Behind
    <3> QED BY <3>3, <3>4, <3>5, <3>6
  <2> QED BY <2>1, <2>2 DEF WireInv, StackOK
<1> QED BY <1>2, <1>3, <1>4 DEF InBounds

\* Decoding begins at the first byte of the input.
LEMMA InitWire == Init => WireInv
<1> SUFFICES ASSUME Init PROVE WireInv
  OBVIOUS
<1>1. input \in Inputs /\ input.type \in Types /\ Len(input.bytes) \in Nat
  BY InputFacts, Widths DEF Init
<1>2. PICK c : c = Call(input.type, 0, Len(input.bytes), Zero(input.type), 0)
  OBVIOUS
<1>3. /\ c = [type |-> c.type, lo |-> c.lo, hi |-> c.hi, i |-> c.i,
              msg |-> c.msg, field |-> c.field]
      /\ c.type = input.type /\ c.lo = 0 /\ c.hi = Len(input.bytes) /\ c.i = 0
      /\ c.msg = Zero(input.type)
  BY <1>2 DEF Call
<1>4. CallOK(c, Len(input.bytes))
  <2>1. MsgOK(c.type, c.msg)
    BY <1>1, <1>3, ZeroOK
  <2>2. Inside(c, Len(input.bytes)) /\ c.i \in 0 .. Length(c)
    BY <1>1, <1>3 DEF Inside, Length
  <2> QED BY <1>1, <1>3, <2>1, <2>2 DEF CallOK
<1>5. StackOK(stack, Len(input.bytes))
  BY <1>2, <1>4 DEF Init, StackOK
<1> QED BY <1>1, <1>5 DEF Init, WireInv, KeyOK, SkipOK, Errors

(***************************************************************************)
(* The steps.                                                              *)
(***************************************************************************)
\* An error return.
LEMMA FailStep ==
  ASSUME WireInv, NEW e \in Errors, Fail(e)
  PROVE  WireInv'
BY DEF Fail, WireInv, KeyOK, SkipOK

\* The loop goes on.
LEMMA ProceedStep ==
  ASSUME WireInv, NEW i \in 0 .. Length(Top), NEW msg, MsgOK(Top.type, msg),
         Proceed(i, msg)
  PROVE  WireInv'
<1>1. StackOK(stack', Len(input.bytes))
  BY AdvanceOK DEF WireInv, Proceed, Top
<1> QED BY <1>1 DEF Proceed, WireInv, KeyOK, SkipOK

\* A field has been read, or found wrong.
Outcome ==
  \/ \E e \in Errors : Fail(e)
  \/ \E i \in Top.i + 1 .. Length(Top) :
       \E msg : MsgOK(Top.type, msg) /\ Proceed(i, msg)

\* A field that has been read leaves the invariant.
LEMMA OutcomeStep ==
  ASSUME WireInv, Outcome
  PROVE  WireInv'
<1>1. CASE \E e \in Errors : Fail(e)
  BY <1>1, FailStep
<1>2. CASE \E i \in Top.i + 1 .. Length(Top) :
             \E msg : MsgOK(Top.type, msg) /\ Proceed(i, msg)
  <2>1. PICK i \in Top.i + 1 .. Length(Top) :
          \E msg : MsgOK(Top.type, msg) /\ Proceed(i, msg)
    BY <1>2
  <2>2. i \in 0 .. Length(Top)
    BY InTop, Widths
  <2> QED BY <2>1, <2>2, ProceedStep
<1> QED BY <1>1, <1>2 DEF Outcome

\* The innermost call is the head of what is put on the stack.
LEMMA HeadOfJoin ==
  ASSUME NEW s, NEW n, StackOK(s, n), NEW x
  PROVE  Head(<<x>> \o Tail(s)) = x
BY TopFacts, Joins

\* It ends the decoding or brings it to a later byte.
LEMMA OutcomeMoves ==
  ASSUME WireInv, Outcome
  PROVE  mode' = "done" \/ Position' > Position
<1>1. CASE \E e \in Errors : Fail(e)
  BY <1>1 DEF Fail
<1>2. CASE \E i \in Top.i + 1 .. Length(Top) :
             \E msg : MsgOK(Top.type, msg) /\ Proceed(i, msg)
  <2>1. PICK i \in Top.i + 1 .. Length(Top) :
                \E msg : MsgOK(Top.type, msg) /\ Proceed(i, msg)
    BY <1>2
  <2>0. PICK msg : Proceed(i, msg)
    BY <2>1
  <2>2. PICK x : x = [Top EXCEPT !.i = i, !.msg = msg]
    OBVIOUS
  <2>3. Head(stack') = x
    BY <2>0, <2>2, HeadOfJoin DEF WireInv, Proceed
  <2>4. x.lo = Top.lo /\ x.i = i
    <3>1. Top = [type |-> Top.type, lo |-> Top.lo, hi |-> Top.hi, i |-> Top.i,
                 msg |-> Top.msg, field |-> Top.field]
      BY InTop DEF CallOK
    <3>2. x = [type |-> Top.type, lo |-> Top.lo, hi |-> Top.hi, i |-> i,
               msg |-> msg, field |-> Top.field]
      BY <2>2, <3>1, Moved
    <3> QED BY <3>2
  <2>5. Position' = Top.lo + i
    BY <2>3, <2>4 DEF Position, Top
  <2>6. Top.lo \in Nat /\ Top.i \in Nat
    BY InTop, Widths DEF InSlice, Inside
  <2> QED BY <2>5, <2>6 DEF Position
<1> QED BY <1>1, <1>2 DEF Outcome

\* A key is read inside the slice.
LEMMA ReadKeyStep ==
  ASSUME WireInv, ReadKey PROVE WireInv'
<1> DEFINE v == Varint(Top, Top.i)
           k == [num |-> FieldNum(v.val), type |-> WireType(v.val), next |-> v.next]
<1>1. v.err \in Errors /\ (v.err = "nil" => v.next \in Top.i + 1 .. Length(Top))
  BY InTop, VarintFacts DEF WireInv
<1>2. CASE \E e \in Errors : Fail(e)
  BY <1>2, FailStep
<1>3. CASE /\ v.err = "nil" /\ key' = k /\ mode' = "value"
           /\ UNCHANGED <<input, stack, skip, err>>
  <2>1. key'.next = v.next
    BY <1>3
  <2> HIDE DEF v, k
  <2> QED BY <1>1, <1>3, <2>1 DEF WireInv, KeyOK, SkipOK, Top
<1>4. \/ \E e \in Errors : Fail(e)
      \/ /\ v.err = "nil" /\ key' = k /\ mode' = "value"
         /\ UNCHANGED <<input, stack, skip, err>>
  <2>1. "endgroup" \in Errors /\ "tag" \in Errors
    BY DEF Errors
  <2>2. \/ v.err # "nil" /\ Fail(v.err)
        \/ Fail("endgroup") \/ Fail("tag")
        \/ /\ v.err = "nil" /\ key' = k /\ mode' = "value"
           /\ UNCHANGED <<input, stack, skip, err>>
    BY DEF ReadKey
  <2> HIDE DEF v, k
  <2> QED BY <1>1, <2>1, <2>2
<1> QED BY <1>2, <1>3, <1>4

\* A length-delimited value that is accepted lies in the slice, behind its key.
LEMMA ValueFacts ==
  ASSUME WireInv, mode = "value"
  PROVE  /\ Value.err \in Errors
         /\ Value.err = "nil" =>
              /\ Value.from \in Top.i + 1 .. Length(Top)
              /\ Value.to \in Value.from .. Length(Top)
<1> DEFINE v == Varint(Top, key.next)
           p == PostIndex(Top, v.next, Signed(v.val))
<1>1. key.next \in Top.i + 1 .. Length(Top) /\ key.next \in 0 .. Length(Top)
  <2>1. key.next \in Top.i + 1 .. Length(Top)
    BY DEF WireInv, KeyOK
  <2> QED BY <2>1, InTop, Widths
<1>2. /\ v.err \in Errors
      /\ v.err = "nil" => v.val \in 0 .. Word - 1 /\ v.next \in key.next + 1 .. Length(Top)
  BY <1>1, InTop, VarintFacts DEF WireInv
<1>3. v.err = "nil" => /\ v.next \in Top.i + 1 .. Length(Top)
                       /\ v.next \in 0 .. Length(Top)
  <2> HIDE DEF v
  <2> QED BY <1>1, <1>2, InTop, Widths
<1>4. v.err = "nil" => /\ p.err \in Errors
                       /\ p.err = "nil" => p.at \in v.next .. Length(Top)
  <2>1. ASSUME v.err = "nil" PROVE Signed(v.val) \in -Half .. Half - 1
    <3> HIDE DEF v
    <3> QED BY <1>2, <2>1, SignedRange
  <2> HIDE DEF v
  <2> QED BY <1>3, <2>1, InTop, PostIndexFacts
<1>5. /\ Value.err = (IF key.type # 2 THEN "wiretype"
                      ELSE IF v.err # "nil" THEN v.err ELSE p.err)
      /\ Value.from = v.next /\ Value.to = p.at
  BY DEF Value
<1>6. "wiretype" \in Errors /\ "wiretype" # "nil"
  BY DEF Errors
<1> HIDE DEF v, p
<1> QED BY <1>2, <1>3, <1>4, <1>5, <1>6

\* A field that is a text or a flag holds no Params.
LEMMA PlainField ==
  ASSUME NEW kind \in {"text", "bool"}, Case(kind), WireInv, NEW val
  PROVE  MsgOK(Top.type, [Top.msg EXCEPT ![key.num] = val])
<1>1. ~IsNested(Top.type, key.num)
  BY DEF Case, IsNested
<1>2. MsgOK(Top.type, Top.msg)
  BY InTop DEF CallOK
<1> QED BY <1>1, <1>2, SetField

\* A text is taken from the slice.
LEMMA ReadTextOutcome ==
  ASSUME WireInv, ReadText PROVE Outcome
<1>1. mode = "value"
  BY DEF ReadText, Case
<1>2. PICK val : IF Value.err # "nil" THEN Fail(Value.err)
                 ELSE Proceed(Value.to, [Top.msg EXCEPT ![key.num] = val])
  BY DEF ReadText
<1>3. MsgOK(Top.type, [Top.msg EXCEPT ![key.num] = val])
  BY PlainField DEF ReadText
<1>4. CASE Value.err # "nil"
  BY <1>1, <1>2, <1>4, ValueFacts DEF Outcome
<1>5. CASE Value.err = "nil"
  <2>1. Value.to \in Top.i + 1 .. Length(Top)
    BY <1>1, <1>5, ValueFacts, InTop, Widths
  <2> QED BY <1>2, <1>3, <1>5, <2>1 DEF Outcome
<1> QED BY <1>4, <1>5

\* A flag is a varint in the slice.
LEMMA ReadBoolOutcome ==
  ASSUME WireInv, ReadBool PROVE Outcome
<1> DEFINE v == Varint(Top, key.next)
<1>1. mode = "value"
  BY DEF ReadBool, Case
<1>2. key.next \in Top.i + 1 .. Length(Top) /\ key.next \in 0 .. Length(Top)
  <2>1. key.next \in Top.i + 1 .. Length(Top)
    BY <1>1 DEF WireInv, KeyOK
  <2> QED BY <2>1, InTop, Widths
<1>3. v.err \in Errors /\ (v.err = "nil" => v.next \in key.next + 1 .. Length(Top))
  BY <1>2, InTop, VarintFacts DEF WireInv
<1>4. PICK val : \/ Fail("wiretype")
                 \/ v.err # "nil" /\ Fail(v.err)
                 \/ v.err = "nil" /\ Proceed(v.next, [Top.msg EXCEPT ![key.num] = val])
  BY DEF ReadBool
<1>5. MsgOK(Top.type, [Top.msg EXCEPT ![key.num] = val])
  BY PlainField DEF ReadBool
<1>6. "wiretype" \in Errors
  BY DEF Errors
<1>7. v.err = "nil" => v.next \in Top.i + 1 .. Length(Top)
  <2> HIDE DEF v
  <2> QED BY <1>2, <1>3, InTop, Widths
<1> HIDE DEF v
<1> QED BY <1>3, <1>4, <1>5, <1>6, <1>7 DEF Outcome

\* A Params that is found is read by a call on its slice, or it is wrong.
LEMMA ReadMessageCases ==
  ASSUME WireInv, ReadMessage
  PROVE  \/ \E e \in Errors : Fail(e)
         \/ /\ \E x : /\ stack' = <<x>> \o stack
                      /\ CallOK(x, Len(input.bytes)) /\ Within(x, Top) /\ x.i = 0
            /\ mode' = "fields"
            /\ UNCHANGED <<input, key, skip, err>>
<1> DEFINE n == Len(input.bytes)
<1>1. mode = "value" /\ IsNested(Top.type, key.num)
  BY DEF ReadMessage, Case, Known, IsNested
<1>2. CASE Value.err # "nil"
  BY <1>1, <1>2, ValueFacts DEF ReadMessage
<1>3. CASE Value.err = "nil"
  <2>1. PICK x : x = Call("Params", Top.lo + Value.from, Top.lo + Value.to,
                          Begin(Top.msg[key.num]), key.num)
    OBVIOUS
  <2>2. stack' = <<x>> \o stack /\ mode' = "fields" /\ UNCHANGED <<input, key, skip, err>>
    BY <1>3, <2>1 DEF ReadMessage
  <2>3. /\ x = [type |-> x.type, lo |-> x.lo, hi |-> x.hi, i |-> x.i,
                msg |-> x.msg, field |-> x.field]
        /\ x.type = "Params" /\ x.lo = Top.lo + Value.from /\ x.hi = Top.lo + Value.to
        /\ x.i = 0 /\ x.msg = Top.msg[key.num] /\ x.field = key.num
    BY <2>1 DEF Call, Begin
  <2>4. MsgOK(x.type, x.msg)
    <3>1. DOMAIN Top.msg[key.num] = 1 .. 4
      BY <1>1, InTop DEF CallOK, MsgOK
    <3> QED BY <2>3, <3>1, ParamsFields DEF MsgOK
  <2>5. /\ Top.lo \in Nat /\ Top.hi \in Nat /\ Top.hi <= n /\ Top.i \in Nat
        /\ Value.from \in Top.i + 1 .. Top.hi - Top.lo
        /\ Value.to \in Value.from .. Top.hi - Top.lo
    <3>1. Top.lo \in Nat /\ Top.hi \in Nat /\ Top.hi <= n /\ Top.i \in Nat
      BY InTop, Widths DEF InSlice, Inside
    <3> QED BY <1>1, <1>3, <3>1, ValueFacts DEF Length
  <2>6. \A l, h, i \in Nat : \A f \in i + 1 .. h - l : \A t \in f .. h - l :
          /\ l + f \in Nat /\ l + t \in Nat /\ l + f <= l + t /\ l + t <= h
          /\ 0 \in 0 .. (l + t) - (l + f) /\ l + i < l + f
    OBVIOUS
  <2>7. /\ x.lo \in Nat /\ x.hi \in Nat /\ x.lo <= x.hi /\ x.hi <= Top.hi
        /\ x.i \in 0 .. x.hi - x.lo /\ Top.lo + Top.i < x.lo
    <3>1. PICK l \in Nat : l = Top.lo
      BY <2>5
    <3>2. PICK h \in Nat : h = Top.hi
      BY <2>5
    <3>3. PICK i \in Nat : i = Top.i
      BY <2>5
    <3>4. PICK f \in i + 1 .. h - l : f = Value.from
      BY <2>5, <3>1, <3>2, <3>3
    <3>5. PICK t \in f .. h - l : t = Value.to
      BY <2>5, <3>1, <3>2, <3>4
    <3>6. x.lo = l + f /\ x.hi = l + t /\ x.i = 0
      BY <2>3, <3>1, <3>4, <3>5
    <3>7. /\ l + f \in Nat /\ l + t \in Nat /\ l + f <= l + t /\ l + t <= h
          /\ 0 \in 0 .. (l + t) - (l + f) /\ l + i < l + f
      BY <2>6
    <3> QED BY ONLY <3>1, <3>2, <3>3, <3>6, <3>7
  <2>8. n \in Nat
    BY InputFacts, Widths DEF WireInv
  <2>9. CallOK(x, n)
    <3>1. Inside(x, n) /\ x.i \in 0 .. Length(x)
      BY <2>5, <2>7, <2>8 DEF Inside, Length
    <3> QED BY <2>3, <2>4, <3>1 DEF CallOK, Types
  <2>10. Within(x, Top)
    BY <1>1, <2>3, <2>7 DEF Within
  <2> QED BY <2>2, <2>3, <2>9, <2>10
<1> QED BY <1>2, <1>3

\* The call on a Params is inside its caller.
LEMMA ReadMessageStep ==
  ASSUME WireInv, ReadMessage PROVE WireInv'
<1>1. CASE \E e \in Errors : Fail(e)
  BY <1>1, FailStep
<1>2. ASSUME NEW x, stack' = <<x>> \o stack, CallOK(x, Len(input.bytes)),
             Within(x, Top), mode' = "fields", UNCHANGED <<input, key, skip, err>>
      PROVE  WireInv'
  <2>1. StackOK(stack', Len(input.bytes))
    BY <1>2, PushOK DEF WireInv, Top
  <2> QED BY <1>2, <2>1 DEF WireInv, KeyOK, SkipOK
<1> QED BY <1>1, <1>2, ReadMessageCases

\* When it returns, the caller is still inside its own slice.
LEMMA ReturnStep ==
  ASSUME WireInv, Return PROVE WireInv'
<1>1. "nil" \in Errors
  BY DEF Errors
<1>2. CASE Tail(stack) = <<>>
  BY <1>1, <1>2, FailStep DEF Return
<1>3. CASE Tail(stack) # <<>>
  <2>1. PICK a, b : a = Head(stack) /\ b = Head(Tail(stack))
    OBVIOUS
  <2>2. /\ stack' = <<[b EXCEPT !.i = a.hi - b.lo,
                                !.msg = [@ EXCEPT ![a.field] = a.msg]]>>
                      \o Tail(Tail(stack))
        /\ UNCHANGED <<input, key, skip, mode, err>>
        /\ mode = "fields"
    BY <1>3, <2>1 DEF Return, Top
  <2>3. Len(input.bytes) \in Nat
    BY InputFacts, Widths DEF WireInv
  <2>4. StackOK(stack', Len(input.bytes))
    BY <1>3, <2>1, <2>2, <2>3, PopOK DEF WireInv
  <2> QED BY <2>2, <2>4 DEF WireInv, KeyOK, SkipOK
<1> QED BY <1>2, <1>3

\* skipTx begins at the field's key.
LEMMA UnknownStep ==
  ASSUME WireInv, Unknown PROVE WireInv'
BY DEF Unknown, WireInv, KeyOK, SkipOK

\* Where skipTx goes on in its slice: nowhere, behind int, or not before i.
LEMMA SkipToFacts ==
  ASSUME WireInv, NEW type, NEW i \in Nat, Top.i + i <= Length(Top)
  PROVE  /\ SkipTo(type, i).err \in Errors
         /\ SkipTo(type, i).err = "nil" /\ ~(SkipTo(type, i).at < 0) =>
              SkipTo(type, i).at \in i .. Half - 1
<1> DEFINE v == Varint(Top, Top.i + i)
<1>1. /\ Top.i \in Nat /\ Length(Top) \in Nat /\ Length(Top) < Half
      /\ Half \in Nat /\ Half > 8
  BY InTop, Widths
<1>2. Top.i + i \in 0 .. Length(Top) /\ i \in 0 .. Half - 1
  BY <1>1
<1>3. /\ v.err \in Errors
      /\ v.err = "nil" => /\ v.val \in 0 .. Word - 1
                          /\ v.next \in Top.i + i + 1 .. Length(Top)
  BY <1>2, InTop, VarintFacts DEF WireInv
<1>4. v.err = "nil" => /\ v.next - Top.i \in i .. Half - 1
                       /\ v.next - Top.i \in 0 .. Half - 1
                       /\ Signed(v.val) \in -Half .. Half - 1
  <2> HIDE DEF v
  <2> QED BY <1>1, <1>3, SignedRange
<1>5. {"nil", "length", "wiretype"} \subseteq Errors
  BY DEF Errors
<1>6. CASE type = 0
  <2>1. SkipTo(type, i) = [err |-> v.err, at |-> v.next - Top.i]
    BY <1>6 DEF SkipTo
  <2> HIDE DEF v
  <2> QED BY <1>3, <1>4, <2>1
<1>7. CASE type = 1 \/ type = 5
  <2>1. PICK n \in {4, 8} : SkipTo(type, i) = [err |-> "nil", at |-> Add(i, n)]
    BY <1>7 DEF SkipTo
  <2>2. n \in 0 .. Half - 1
    BY <1>1
  <2>3. ~(Add(i, n) < 0) => Add(i, n) = i + n /\ i + n < Half
    BY <1>2, <2>2, AddFacts
  <2> QED BY <1>1, <1>5, <2>1, <2>3
<1>8. CASE type = 2
  <2>1. SkipTo(type, i) =
          [err |-> IF v.err # "nil" THEN v.err
                   ELSE IF Signed(v.val) < 0 THEN "length" ELSE "nil",
           at |-> Add(v.next - Top.i, Signed(v.val))]
    BY <1>8 DEF SkipTo
  <2> HIDE DEF v
  <2>2. SkipTo(type, i).err \in Errors
    BY <1>3, <1>5, <2>1
  <2>3. ASSUME SkipTo(type, i).err = "nil", ~(SkipTo(type, i).at < 0)
        PROVE  SkipTo(type, i).at \in i .. Half - 1
    <3>1. v.err = "nil" /\ ~(Signed(v.val) < 0)
      BY <2>1, <2>3
    <3>2. PICK j, n \in 0 .. Half - 1 :
            j = v.next - Top.i /\ n = Signed(v.val) /\ j >= i
      BY <1>1, <1>4, <3>1
    <3>3. SkipTo(type, i).at = Add(j, n)
      BY <2>1, <3>2
    <3>4. ~(Add(j, n) < 0) => Add(j, n) = j + n /\ j + n < Half
      BY AddFacts
    <3>5. j + n \in Nat /\ j + n >= i
      BY <1>1, <3>2
    <3> QED BY <1>1, <1>2, <2>3, <3>3, <3>4, <3>5
  <2> QED BY <2>2, <2>3
<1>9. CASE type = 3 \/ type = 4
  <2>1. SkipTo(type, i) = [err |-> "nil", at |-> i]
    BY <1>9 DEF SkipTo
  <2> QED BY <1>2, <1>5, <2>1
<1>10. CASE type \notin {0, 1, 2, 3, 4, 5}
  <2>1. SkipTo(type, i) = [err |-> "wiretype", at |-> i]
    BY <1>10 DEF SkipTo
  <2> QED BY <1>5, <2>1
<1> QED BY <1>6, <1>7, <1>8, <1>9, <1>10

\* A pass of skipTx ends it, or goes on at a later byte of its slice.
LEMMA SkipOneOutcome ==
  ASSUME WireInv, SkipOne
  PROVE  \/ Outcome
         \/ /\ skip'.n \in Nat /\ skip'.n > skip.n /\ skip'.depth \in Nat
            /\ UNCHANGED <<input, stack, key, mode, err>>
<1> DEFINE type == WireType(SkipKey.val)
           to   == SkipTo(type, SkipKey.next - Top.i)
           post == PostIndex(Top, Top.i, to.at)
<1>1. /\ mode = "skip" /\ skip.n < SkipRest /\ skip.n \in Nat /\ skip.depth \in Nat
  BY DEF SkipOne, WireInv, SkipOK
<1>2. Top.i + skip.n \in 0 .. Length(Top)
  BY <1>1, InTop, Widths DEF SkipRest
<1>3. /\ SkipKey.err \in Errors
      /\ SkipKey.err = "nil" => SkipKey.next \in Top.i + skip.n + 1 .. Length(Top)
  BY <1>2, InTop, VarintFacts DEF WireInv, SkipKey
<1>4. ASSUME SkipKey.err = "nil"
      PROVE  /\ to.err \in Errors
             /\ to.err = "nil" /\ ~(to.at < 0) => to.at \in skip.n + 1 .. Half - 1
  <2>1. PICK i : i = SkipKey.next - Top.i
    OBVIOUS
  <2>2. i \in Nat /\ i > skip.n /\ Top.i + i <= Length(Top)
    BY <1>1, <1>3, <1>4, <2>1, InTop, Widths
  <2>3. /\ SkipTo(type, i).err \in Errors
        /\ SkipTo(type, i).err = "nil" /\ ~(SkipTo(type, i).at < 0) =>
             SkipTo(type, i).at \in i .. Half - 1
    <3> HIDE DEF type
    <3> QED BY <2>2, SkipToFacts
  <2>4. to = SkipTo(type, i)
    BY <2>1
  <2> HIDE DEF to, type
  <2> QED BY <1>1, <2>2, <2>3, <2>4, Widths
<1>5. ASSUME to.at \in skip.n + 1 .. Half - 1
      PROVE  /\ post.err \in Errors
             /\ post.err = "nil" => post.at \in Top.i + 1 .. Length(Top)
  <2> HIDE DEF to
  <2>1. PICK t : t = to.at
    OBVIOUS
  <2>2. t \in -Half .. Half - 1 /\ t \in Nat /\ t > 0
    BY <1>1, <1>5, <2>1, Widths
  <2>3. /\ PostIndex(Top, Top.i, t).err \in Errors
        /\ PostIndex(Top, Top.i, t).err = "nil" =>
             /\ PostIndex(Top, Top.i, t).at = Top.i + t
             /\ PostIndex(Top, Top.i, t).at \in Top.i .. Length(Top)
    BY <2>2, InTop, PostIndexFacts
  <2>4. post = PostIndex(Top, Top.i, t)
    BY <2>1
  <2> HIDE DEF post
  <2> QED BY <2>2, <2>3, <2>4, InTop, Widths
<1>6. \/ SkipKey.err # "nil" /\ Fail(SkipKey.err)
      \/ /\ SkipKey.err = "nil"
         /\ \/ Fail("endgroup")
            \/ to.err # "nil" /\ Fail(to.err)
            \/ Fail("length")
            \/ /\ to.err = "nil" /\ ~(to.at < 0)
               /\ \/ post.err # "nil" /\ Fail(post.err)
                  \/ post.err = "nil" /\ Proceed(post.at, Top.msg)
                  \/ /\ ~(type = 4 /\ skip.depth = 0)
                     /\ skip' = [n |-> to.at, depth |-> SkipDepth(type)]
                     /\ UNCHANGED <<input, stack, key, mode, err>>
  BY DEF SkipOne
<1>7. {"endgroup", "length"} \subseteq Errors
  BY DEF Errors
<1>8. ASSUME ~(type = 4 /\ skip.depth = 0) PROVE SkipDepth(type) \in Nat
  <2> HIDE DEF type
  <2> QED BY <1>1, <1>8 DEF SkipDepth
<1>9. MsgOK(Top.type, Top.msg)
  BY InTop DEF CallOK
<1>10. ASSUME to.at \in skip.n + 1 .. Half - 1, SkipDepth(type) \in Nat,
              skip' = [n |-> to.at, depth |-> SkipDepth(type)]
       PROVE  skip'.n \in Nat /\ skip'.n > skip.n /\ skip'.depth \in Nat
  <2> HIDE DEF to, type
  <2>1. skip'.n = to.at /\ skip'.depth = SkipDepth(type)
    BY <1>10
  <2> QED BY <1>1, <1>10, <2>1, Widths
<1> HIDE DEF type, to, post
<1> QED BY <1>3, <1>4, <1>5, <1>6, <1>7, <1>8, <1>9, <1>10 DEF Outcome

\* What a step is to the invariant.
LEMMA NextCases ==
  ASSUME WireInv, Next
  PROVE  \/ Outcome \/ ReadKey \/ ReadMessage \/ Return \/ Unknown
         \/ /\ mode = "skip"
            /\ skip'.n \in Nat /\ skip'.n > skip.n /\ skip'.depth \in Nat
            /\ UNCHANGED <<input, stack, key, mode, err>>
<1>1. CASE ReadText
  BY <1>1, ReadTextOutcome
<1>2. CASE ReadBool
  BY <1>2, ReadBoolOutcome
<1>3. CASE SkipOne
  BY <1>3, SkipOneOutcome DEF SkipOne
<1>4. CASE SkipRunsOut
  BY <1>4 DEF SkipRunsOut, Outcome, Errors
<1> QED BY <1>1, <1>2, <1>3, <1>4 DEF Next

\* The invariant is inductive.
LEMMA NextWire == WireInv /\ [Next]_vars => WireInv'
<1> SUFFICES ASSUME WireInv, [Next]_vars PROVE WireInv'
  OBVIOUS
<1>1. CASE UNCHANGED vars
  BY <1>1 DEF vars, WireInv, KeyOK, SkipOK, Top
<1>2. CASE /\ skip'.n \in Nat /\ skip'.depth \in Nat
           /\ UNCHANGED <<input, stack, key, mode, err>>
  BY <1>2 DEF WireInv, KeyOK, SkipOK, Top
<1>3. CASE Next
  BY <1>2, <1>3, NextCases, OutcomeStep, ReadKeyStep, ReadMessageStep, ReturnStep,
     UnknownStep
<1> QED BY <1>1, <1>3

\* The decoder keeps its invariant.
THEOREM WireInvariant == Spec => []WireInv
BY InitWire, NextWire, PTL DEF Spec

\* The state of the decoder keeps its type: a Params is never inside a Params,
\* and a message has the fields of its type.
THEOREM WireTypeTheorem == Spec => []TypeOK
BY WireInvariant, InvIsTyped, PTL

\* No index of Unmarshal and skipTx leaves its slice, whatever the bytes and
\* however the lengths in them overflow, for every width of the integers.
THEOREM InBoundsTheorem == Spec => []InBounds
BY WireInvariant, InvIsInBounds, PTL
(***************************************************************************)
(* Every step moves on.                                                    *)
(***************************************************************************)
\* The key of a field is read, and the decoder stays where it is.
LEMMA ReadKeyMoves ==
  ASSUME WireInv, ReadKey
  PROVE  mode' = "done" \/ (stack' = stack /\ mode = "fields" /\ mode' = "value")
BY DEF ReadKey, Fail

\* The call on the slice of a Params begins behind the field's key.
LEMMA ReadMessageMoves ==
  ASSUME WireInv, ReadMessage
  PROVE  mode' = "done" \/ Position' > Position
<1>1. CASE \E e \in Errors : Fail(e)
  BY <1>1 DEF Fail
<1>2. ASSUME NEW x, stack' = <<x>> \o stack, CallOK(x, Len(input.bytes)),
             Within(x, Top), x.i = 0
      PROVE  Position' > Position
  <2>1. Head(stack') = x
    <3>1. stack = <<Top>>
      <4>1. Top.type # "Params"
        BY <1>2, ParamsFields DEF Within
      <4> QED BY <4>1, TopFacts DEF WireInv, Within, Top
    <3> QED BY <1>2, <3>1, Joins
  <2>2. Position' = x.lo + 0
    BY <1>2, <2>1 DEF Position, Top
  <2>3. Top.lo + Top.i < x.lo
    BY <1>2 DEF Within
  <2>4. x.lo \in Nat /\ Top.lo \in Nat /\ Top.i \in Nat
    BY <1>2, InTop, Widths DEF CallOK, Inside, InSlice
  <2> QED BY <2>2, <2>3, <2>4 DEF Position
<1> QED BY <1>1, <1>2, ReadMessageCases

\* The caller goes on where the slice of the Params ends.
LEMMA ReturnMoves ==
  ASSUME WireInv, Return
  PROVE  mode' = "done" \/ (Position' = Position /\ Len(stack') < Len(stack))
<1>1. CASE Tail(stack) = <<>>
  BY <1>1 DEF Return, Fail
<1>2. CASE Tail(stack) # <<>>
  <2>1. PICK b : stack = <<Top, b>> /\ Tail(stack) = <<b>> /\ CallOK(b, Len(input.bytes))
    BY <1>2, TopFacts DEF WireInv, Top
  <2>2. Head(Tail(stack)) = b /\ Tail(Tail(stack)) = <<>>
    BY <2>1, Joins
  <2>3. PICK x : x = [b EXCEPT !.i = Top.hi - b.lo,
                               !.msg = [@ EXCEPT ![Top.field] = Top.msg]]
    OBVIOUS
  <2>4. stack' = <<x>> \o <<>> /\ Top.i >= Length(Top)
    BY <1>2, <2>2, <2>3 DEF Return
  <2>5. stack' = <<x>> /\ Head(stack') = x
    BY <2>4, Joins
  <2>6. PICK i, m : i = Top.hi - b.lo /\ m = [b.msg EXCEPT ![Top.field] = Top.msg]
    OBVIOUS
  <2>7. x = [type |-> b.type, lo |-> b.lo, hi |-> b.hi, i |-> i, msg |-> m,
             field |-> b.field]
    BY <2>1, <2>3, <2>6, Back DEF CallOK
  <2>8. x.lo = b.lo /\ x.i = Top.hi - b.lo
    BY <2>6, <2>7
  <2>9. Position' = b.lo + (Top.hi - b.lo)
    BY <2>5, <2>8 DEF Position, Top
  <2>10. b.lo \in Nat /\ Top.lo \in Nat /\ Top.hi \in Nat
    BY <2>1, InTop DEF CallOK, Inside, InSlice
  <2>11. Position = Top.hi
    <3>1. Top.i = Top.hi - Top.lo
      BY <2>4, InTop, Widths DEF Length
    <3> QED BY <2>10, <3>1 DEF Position
  <2>12. Len(stack') = 1 /\ Len(stack) = 2
    <3>1. \A u, v : Len(<<u>>) = 1 /\ Len(<<u, v>>) = 2
      OBVIOUS
    <3> QED BY <2>1, <2>5, <3>1
  <2> QED BY <2>9, <2>10, <2>11, <2>12
<1> QED BY <1>1, <1>2

\* Decoding ends because each step brings it nearer to the end: it reaches a
\* later byte, or at the same byte the caller, the value, skipTx, or a later
\* byte of what skipTx skips; whatever the bytes and the widths.
THEOREM MovesOnTheorem == Spec => MovesOn
<1>1. WireInv /\ [Next]_vars => [Moves]_vars
  <2> SUFFICES ASSUME WireInv, Next PROVE Moves
    OBVIOUS
  <2>1. CASE Outcome
    BY <2>1, OutcomeMoves DEF Moves
  <2>2. CASE ReadKey
    BY <2>2, ReadKeyMoves DEF Moves
  <2>3. CASE ReadMessage
    BY <2>3, ReadMessageMoves DEF Moves
  <2>4. CASE Return
    BY <2>4, ReturnMoves DEF Moves
  <2>5. CASE Unknown
    BY <2>5 DEF Unknown, Moves
  <2>6. CASE /\ mode = "skip" /\ skip'.n > skip.n
             /\ UNCHANGED <<input, stack, key, mode, err>>
    BY <2>6 DEF Moves
  <2> QED BY <2>1, <2>2, <2>3, <2>4, <2>5, <2>6, NextCases
<1> QED BY <1>1, WireInvariant, PTL DEF Spec, MovesOn

(***************************************************************************)
(* Reading what has been written: varints.                                 *)
(***************************************************************************)
\* Products of numbers, which no longer need the arithmetic of the prover.
LEMMA Products ==
  \A a, b, c \in Int : /\ a * b \in Int /\ a * b = b * a /\ a * (b * c) = (a * b) * c
                       /\ a * (b + c) = a * b + a * c /\ a * 1 = a /\ a * 0 = 0
OBVIOUS

\* A quotient and its rest.
LEMMA Quotient ==
  ASSUME NEW a \in Nat, NEW d \in Nat \ {0}
  PROVE  /\ a \div d \in Nat /\ a % d \in 0 .. d - 1
         /\ a = d * (a \div d) + (a % d)
OBVIOUS

\* There is only one quotient.
LEMMA QuotientIs ==
  ASSUME NEW d \in Nat \ {0}, NEW q \in Int, NEW r \in 0 .. d - 1, NEW a \in Nat,
         a = d * q + r
  PROVE  a \div d = q /\ a % d = r
OBVIOUS

\* A product with a positive number is no smaller.
LEMMA ProductLarger ==
  ASSUME NEW p \in Nat \ {0}, NEW b \in Nat
  PROVE  p * b \in Nat /\ p * b >= b
<1>1. PICK k \in Nat : p = k + 1
  <2>1. p - 1 \in Nat /\ p = (p - 1) + 1
    OBVIOUS
  <2> QED BY <2>1
<1>2. k * b \in Nat /\ (k + 1) * b = k * b + b
  OBVIOUS
<1> QED BY <1>1, <1>2

\* Powers of two rise.
LEMMA Pow2Rises ==
  ASSUME NEW m \in Nat, NEW n \in Nat, m <= n
  PROVE  Pow2[m] <= Pow2[n]
<1> DEFINE P == {j \in Nat : Pow2[m] <= Pow2[m + j]}
<1>1. 0 \in P
  BY Pow2Facts
<1>2. ASSUME NEW j \in Nat, j \in P PROVE j + 1 \in P
  <2>1. Pow2[m + j] \in Nat /\ Pow2[(m + j) + 1] = 2 * Pow2[m + j] /\ Pow2[m] \in Nat
    BY Pow2Facts
  <2>2. Pow2[m] <= Pow2[m + j] /\ (m + j) + 1 = m + (j + 1)
    BY <1>2
  <2> QED BY <2>1, <2>2
<1>3. Nat \subseteq P
  <2> HIDE DEF P
  <2> QED BY <1>1, <1>2, NatSetInduction
<1>4. n - m \in Nat /\ m + (n - m) = n
  OBVIOUS
<1> QED BY <1>3, <1>4

\* 1 << (m + n)
LEMMA Pow2Sum ==
  ASSUME NEW m \in Nat, NEW n \in Nat
  PROVE  Pow2[m + n] = Pow2[m] * Pow2[n]
<1> DEFINE P == {j \in Nat : Pow2[m + j] = Pow2[m] * Pow2[j]}
<1>0. PICK p \in Nat : p = Pow2[m]
  BY Pow2Facts
<1>1. 0 \in P
  <2>1. p * 1 = p
    OBVIOUS
  <2> QED BY <1>0, <2>1, Pow2Facts
<1>2. ASSUME NEW j \in Nat, j \in P PROVE j + 1 \in P
  <2>1. PICK a \in Nat, b \in Nat : a = Pow2[m + j] /\ b = Pow2[j]
    BY Pow2Facts
  <2>2. Pow2[(m + j) + 1] = 2 * a /\ Pow2[j + 1] = 2 * b
    BY <2>1, Pow2Facts
  <2>3. a = p * b
    BY <1>0, <1>2, <2>1
  <2>4. 2 * (p * b) = p * (2 * b)
    OBVIOUS
  <2>5. (m + j) + 1 = m + (j + 1)
    OBVIOUS
  <2> QED BY <1>0, <2>2, <2>3, <2>4, <2>5
<1>3. Nat \subseteq P
  <2> HIDE DEF P
  <2> QED BY <1>1, <1>2, NatSetInduction
<1> QED BY <1>3

\* What a byte with k - 1 bytes before it is shifted by.
Shift(k) == Pow2[GroupBits * k]

\* A shift by one more group.
LEMMA ShiftFacts ==
  /\ Shift(0) = 1 /\ Shift(1) = Base
  /\ \A k \in Nat : Shift(k) \in Nat \ {0} /\ Shift(k + 1) = Shift(k) * Base
  /\ \A j, k \in Nat : j <= k => Shift(j) <= Shift(k)
<1>1. GroupBits \in Nat
  BY WireAssumption
<1>2. GroupBits * 0 = 0 /\ GroupBits * 1 = GroupBits
  BY <1>1
<1>3. ASSUME NEW k \in Nat PROVE GroupBits * k \in Nat /\ GroupBits * (k + 1) = GroupBits * k + GroupBits
  BY <1>1
<1>4. ASSUME NEW k \in Nat PROVE Shift(k) \in Nat \ {0} /\ Shift(k + 1) = Shift(k) * Base
  <2>1. Pow2[GroupBits * k] \in Nat \ {0}
    BY <1>3, <1>4, Pow2Facts
  <2>2. Pow2[GroupBits * k + GroupBits] = Pow2[GroupBits * k] * Pow2[GroupBits]
    BY <1>1, <1>3, <1>4, Pow2Sum
  <2>3. GroupBits * (k + 1) = GroupBits * k + GroupBits
    BY <1>3, <1>4
  <2> QED BY ONLY <2>1, <2>2, <2>3 DEF Shift, Base
<1>5. ASSUME NEW j \in Nat, NEW k \in Nat, j <= k PROVE Shift(j) <= Shift(k)
  <2>1. GroupBits * j <= GroupBits * k
    BY <1>1, <1>5
  <2> QED BY <1>3, <2>1, Pow2Rises DEF Shift
<1> QED BY <1>2, <1>4, <1>5, Pow2Facts DEF Shift, Base

\* A number of Width bits has a length in bits.
LEMMA BitLenFacts ==
  ASSUME NEW x \in 0 .. Word - 1
  PROVE  /\ BitLen(x) \in 0 .. Width /\ x < Pow2[BitLen(x)]
         /\ BitLen(x) > 0 => x >= Pow2[BitLen(x) - 1]
<1>1. Width \in Nat /\ Word \in Nat
  BY WireAssumption, Widths
<1>2. PICK S : S = {k \in 0 .. Width : x < Pow2[k]}
  OBVIOUS
<1>3. S \subseteq Nat /\ Width \in S
  BY <1>1, <1>2 DEF Word
<1>4. PICK n : n = First(S)
  OBVIOUS
<1>5. n \in S /\ \A k \in S : n <= k
  <2>1. S # {}
    BY <1>3
  <2> QED BY <1>3, <1>4, <2>1, FirstLeast
<1>6. n \in 0 .. Width /\ x < Pow2[n]
  BY <1>2, <1>5
<1>7. ASSUME n > 0 PROVE x >= Pow2[n - 1]
  <2>1. n - 1 \in 0 .. Width /\ n - 1 \in Nat /\ n - 1 \notin S
    BY <1>1, <1>5, <1>6, <1>7
  <2> QED BY <1>1, <1>2, <2>1, Pow2Facts
<1>8. \E k \in 0 .. Width : x < Pow2[k] /\ (k > 0 => x >= Pow2[k - 1])
  BY <1>6, <1>7
<1> QED BY <1>8 DEF BitLen

\* The bytes of a varint: enough, no more than needed, and no more than read.
LEMMA SovFacts ==
  ASSUME NEW v \in 0 .. Word - 1
  PROVE  /\ sov(v) \in 1 .. Groups /\ v < Shift(sov(v))
         /\ sov(v) > 1 => v >= Shift(sov(v) - 1)
<1>1. PICK x : x = (IF v = 0 THEN 1 ELSE v)
  OBVIOUS
<1>2. x \in 0 .. Word - 1 /\ v <= x /\ x >= 1 /\ (x > 1 => x = v)
  BY <1>1, Widths
<1>3. PICK b : b = BitLen(x)
  OBVIOUS
<1>4. b \in 0 .. Width /\ x < Pow2[b] /\ (b > 0 => x >= Pow2[b - 1])
  BY <1>2, <1>3, BitLenFacts
<1>5. Width \in Nat /\ GroupBits \in Nat \ {0}
  BY WireAssumption
<1>6. b >= 1
  BY <1>2, <1>4, <1>5, Pow2Facts
<1>7. PICK s : s = (b + GroupBits - 1) \div GroupBits
  OBVIOUS
<1>8. s = sov(v)
  BY <1>1, <1>3, <1>7 DEF sov
<1>9. s \in Nat /\ GroupBits * s >= b /\ GroupBits * s <= b + GroupBits - 1
  <2>1. PICK a \in Nat : a = b + GroupBits - 1
    BY <1>4, <1>5
  <2>2. PICK r : r = a % GroupBits
    OBVIOUS
  <2>3. s \in Nat /\ r \in 0 .. GroupBits - 1 /\ a = GroupBits * s + r
    BY <1>5, <1>7, <2>1, <2>2, Quotient
  <2>4. GroupBits * s \in Nat
    BY <1>5, <2>3
  <2> QED BY <1>4, <1>5, <2>1, <2>3, <2>4
<1>10. s >= 1
  <2>1. s # 0
    BY <1>5, <1>6, <1>9, <1>4
  <2> QED BY <1>9, <2>1
<1>11. s <= Groups
  <2>0. PICK a \in Nat : a = Width + GroupBits - 1
    BY <1>5
  <2>1. PICK g : g = a \div GroupBits
    OBVIOUS
  <2>2. g \in Nat /\ a % GroupBits \in 0 .. GroupBits - 1 /\ a = GroupBits * g + (a % GroupBits)
    BY <1>5, <2>1, Quotient
  <2>3. SUFFICES ASSUME s >= g + 1 PROVE FALSE
    BY <1>9, <2>0, <2>1, <2>2 DEF Groups
  <2>4. GroupBits * s >= GroupBits * (g + 1)
    BY ONLY <1>5, <1>9, <2>2, <2>3
  <2>5. GroupBits * (g + 1) = GroupBits * g + GroupBits /\ GroupBits * g \in Nat
    BY <1>5, <2>2
  <2> QED BY <1>4, <1>5, <1>9, <2>0, <2>2, <2>4, <2>5
<1>12. v < Shift(s)
  <2>1. GroupBits * s \in Nat /\ b \in Nat
    BY <1>4, <1>5, <1>9
  <2>2. Pow2[b] <= Pow2[GroupBits * s] /\ Pow2[b] \in Nat /\ Pow2[GroupBits * s] \in Nat
    BY <1>9, <2>1, Pow2Rises, Pow2Facts
  <2> QED BY <1>2, <1>4, <2>2, Widths DEF Shift
<1>13. ASSUME s > 1 PROVE v >= Shift(s - 1)
  <2>1. GroupBits * (s - 1) = GroupBits * s - GroupBits /\ GroupBits * (s - 1) \in Nat
    BY <1>5, <1>9, <1>13
  <2>2. GroupBits * (s - 1) <= b - 1 /\ b - 1 \in Nat
    BY <1>4, <1>5, <1>6, <1>9, <2>1
  <2>3. Pow2[GroupBits * (s - 1)] <= Pow2[b - 1] /\ Pow2[b - 1] \in Nat
        /\ Pow2[GroupBits * (s - 1)] \in Nat
    BY <2>1, <2>2, Pow2Rises, Pow2Facts
  <2>4. x >= Shift(s - 1)
    BY <1>2, <1>4, <1>6, <2>3, Widths DEF Shift
  <2>5. Shift(s - 1) >= 2
    <3>1. GroupBits * (s - 1) >= 1
      BY <1>5, <1>9, <1>13
    <3>2. Pow2[1] <= Pow2[GroupBits * (s - 1)]
      BY <2>1, <3>1, Pow2Rises
    <3>3. Pow2[0 + 1] = 2 * Pow2[0] /\ Pow2[0] = 1
      BY Pow2Facts
    <3> QED BY <3>2, <3>3, <2>3 DEF Shift
  <2> QED BY <1>2, <2>3, <2>4, <2>5, Widths DEF Shift
<1> QED BY <1>8, <1>9, <1>10, <1>11, <1>12, <1>13, Widths

\* The k-th group of a number adds to the groups before it.
LEMMA NextGroup ==
  ASSUME NEW v \in Nat, NEW p \in Nat \ {0}, NEW b \in Nat \ {0}
  PROVE  /\ (v \div p) % b \in 0 .. b - 1
         /\ v % (p * b) = (v % p) + ((v \div p) % b) * p
<1>1. PICK q, r : q = v \div p /\ r = v % p
  OBVIOUS
<1>2. q \in Nat /\ r \in 0 .. p - 1 /\ v = p * q + r
  BY <1>1, Quotient
<1>3. PICK u, d : u = q \div b /\ d = q % b
  OBVIOUS
<1>4. u \in Nat /\ d \in 0 .. b - 1 /\ q = b * u + d
  BY <1>2, <1>3, Quotient
<1>5. p * b \in Nat \ {0}
  <2>1. p * b \in Nat /\ p * b >= b
    BY ProductLarger
  <2> QED BY <2>1
<1>6. v = (p * b) * u + (p * d + r)
  <2>1. p * (b * u + d) = (p * b) * u + p * d /\ (p * b) * u \in Int /\ p * d \in Int
    BY ONLY p \in Nat, b \in Nat, <1>4, Products
  <2> QED BY <1>2, <1>4, <2>1
<1>7. p * d + r \in 0 .. p * b - 1
  <2>1. p * d \in Nat
    BY <1>4
  <2>2. p * (d + 1) <= p * b /\ p * (d + 1) = p * d + p
    <3>1. d + 1 \in Nat /\ d + 1 <= b
      BY <1>4
    <3> QED BY ONLY p \in Nat, b \in Nat, <1>4, <3>1
  <2> QED BY <1>2, <1>5, <2>1, <2>2
<1>8. PICK m, t : m = p * b /\ t = p * d + r
  OBVIOUS
<1>9. v % m = t
  <2>1. m \in Nat \ {0} /\ t \in 0 .. m - 1 /\ v = m * u + t /\ u \in Int
    BY ONLY <1>4, <1>5, <1>6, <1>7, <1>8
  <2> QED BY ONLY v \in Nat, <2>1, QuotientIs
<1>10. p * d = d * p /\ p * d \in Int /\ r \in Int
  BY <1>2, <1>4
<1> QED BY ONLY <1>1, <1>3, <1>4, <1>8, <1>9, <1>10

\* The values of a byte.
Octet == 0 .. 2 * Base - 1

\* The k-th group of v.
Group(v, k) == (v \div Shift(k - 1)) % Base

\* A varint has a byte for each group, and more than Base in all but the last.
LEMMA EncodeFacts ==
  ASSUME NEW v \in 0 .. Word - 1
  PROVE  /\ encodeVarint(v) \in Seq(Octet) /\ Len(encodeVarint(v)) = sov(v)
         /\ \A k \in 1 .. sov(v) :
              /\ Group(v, k) \in 0 .. Base - 1
              /\ encodeVarint(v)[k] = Group(v, k) + (IF k < sov(v) THEN Base ELSE 0)
<1>1. PICK s : s = sov(v)
  OBVIOUS
<1>2. s \in Nat /\ s >= 1 /\ v < Shift(s) /\ (s > 1 => v >= Shift(s - 1))
  BY <1>1, SovFacts, Widths
<1>3. Base \in Nat \ {0} /\ v \in Nat
  BY Widths
<1>4. PICK e : e = [k \in 1 .. s |-> Group(v, k) + (IF v >= Shift(k) THEN Base ELSE 0)]
  OBVIOUS
<1>5. e = encodeVarint(v)
  BY <1>1, <1>4 DEF encodeVarint, Group, Shift
<1>6. ASSUME NEW k \in 1 .. s
      PROVE  /\ Group(v, k) \in 0 .. Base - 1
             /\ e[k] = Group(v, k) + (IF k < s THEN Base ELSE 0)
             /\ e[k] \in Octet
  <2>0. k - 1 \in Nat /\ k \in Nat
    BY <1>2
  <2>1. k - 1 \in Nat /\ k \in Nat /\ Shift(k - 1) \in Nat \ {0} /\ Shift(k) \in Nat
    BY <2>0, ShiftFacts
  <2>2. Group(v, k) \in 0 .. Base - 1
    <3>1. PICK q \in Nat : q = v \div Shift(k - 1)
      BY <1>3, <2>1, Quotient
    <3> QED BY <1>3, <3>1, Quotient DEF Group
  <2>3. v >= Shift(k) <=> k < s
    <3>1. CASE k < s
      <4>1. Shift(k) <= Shift(s - 1) /\ Shift(s - 1) \in Nat /\ s > 1
        BY <1>2, <2>1, <3>1, ShiftFacts
      <4> QED BY <1>2, <1>3, <2>1, <3>1, <4>1
    <3>2. CASE ~(k < s)
      <4>1. k = s
        BY <1>2, <3>2
      <4> QED BY <1>2, <1>3, <2>1, <3>2, <4>1
    <3> QED BY <3>1, <3>2
  <2>4. e[k] = Group(v, k) + (IF k < s THEN Base ELSE 0)
    BY <1>4, <2>3
  <2> QED BY <1>3, <2>2, <2>4 DEF Octet
<1>7. e \in Seq(Octet) /\ Len(e) = s
  <2>1. \A S : \A n \in Nat : \A f \in [1 .. n -> S] : f \in Seq(S) /\ Len(f) = n
    OBVIOUS
  <2>2. e \in [1 .. s -> Octet]
    BY <1>4, <1>6
  <2> QED BY <1>2, <2>1, <2>2
<1> QED BY <1>1, <1>5, <1>6, <1>7

\* A number of one group is its own byte.
LEMMA OneByte ==
  ASSUME NEW v \in 0 .. Base - 1
  PROVE  v \in 0 .. Word - 1 => sov(v) = 1 /\ encodeVarint(v) = <<v>>
<1>1. SUFFICES ASSUME v \in 0 .. Word - 1 PROVE sov(v) = 1 /\ encodeVarint(v) = <<v>>
  OBVIOUS
<1>2. Base \in Nat \ {0} /\ Groups \in Nat
  BY Widths
<1>3. sov(v) = 1
  <2>1. PICK s \in 1 .. Groups : s = sov(v) /\ (s > 1 => v >= Shift(s - 1))
    BY <1>1, SovFacts
  <2>2. CASE s > 1
    <3>1. s - 1 \in Nat /\ 1 <= s - 1 /\ 1 \in Nat
      BY <1>2, <2>2
    <3>2. Shift(1) <= Shift(s - 1) /\ Shift(1) = Base /\ Shift(s - 1) \in Nat
      BY <3>1, ShiftFacts
    <3> QED BY <1>2, <2>1, <2>2, <3>2
  <2> QED BY <1>2, <2>1, <2>2
<1>4. PICK e : e = encodeVarint(v)
  OBVIOUS
<1>5. e \in Seq(Octet) /\ Len(e) = 1 /\ e[1] = Group(v, 1)
  <2>1. 1 \in 1 .. sov(v) /\ ~(1 < sov(v))
    BY <1>3
  <2>2. Group(v, 1) \in 0 .. Base - 1 /\ e[1] = Group(v, 1) + 0
    BY <1>1, <1>4, <2>1, EncodeFacts
  <2>3. e \in Seq(Octet) /\ Len(e) = sov(v)
    BY <1>1, <1>4, EncodeFacts
  <2> QED BY <1>2, <1>3, <2>2, <2>3
<1>6. Group(v, 1) = v
  <2>1. Group(v, 1) = (v \div 1) % Base
    BY ShiftFacts DEF Group
  <2>2. v \div 1 = v /\ v % Base = v
    BY <1>2
  <2> QED BY <2>1, <2>2
<1>7. e = <<v>>
  <2>1. \A S : \A s \in Seq(S) : Len(s) = 1 => s = <<s[1]>>
    OBVIOUS
  <2> QED BY <1>5, <1>6, <2>1
<1> QED BY <1>3, <1>4, <1>7

\* The bytes b stand in the slice of a call from index i on.
Stands(c, i, b) ==
  /\ i + Len(b) <= Length(c)
  /\ \A k \in 1 .. Len(b) : At(c, i + k - 1) = b[k]

\* A varint that stands in a slice is read.
LEMMA VarintRead ==
  ASSUME input \in Inputs, NEW c, InSlice(c), NEW i \in Nat, NEW v \in 0 .. Word - 1,
         Stands(c, i, encodeVarint(v))
  PROVE  Varint(c, i) = [err |-> "nil", val |-> v, next |-> i + sov(v)]
<1>1. PICK s : s = sov(v)
  OBVIOUS
<1>2. s \in 1 .. Groups /\ s \in Nat /\ v < Shift(s) /\ Groups \in Nat
  BY <1>1, SovFacts, Widths
<1>3. Base \in Nat \ {0} /\ v \in Nat /\ Word \in Nat /\ Length(c) \in Int
  BY Widths DEF Length, InSlice, Inside
<1>4. i + s <= Length(c)
  BY <1>1, EncodeFacts DEF Stands
<1>5. ASSUME NEW k \in 1 .. s
      PROVE  /\ Group(v, k) \in 0 .. Base - 1
             /\ At(c, i + k - 1) = Group(v, k) + (IF k < s THEN Base ELSE 0)
  BY <1>1, EncodeFacts DEF Stands
<1>6. PICK E : E = Ends(c, i)
  OBVIOUS
<1>7. E = {k \in 1 .. Groups : i + k <= Length(c) /\ At(c, i + k - 1) < Base}
  BY <1>6 DEF Ends
<1>8. s \in E
  <2>1. s \in 1 .. s
    BY <1>2
  <2>2. At(c, i + s - 1) < Base
    BY <1>2, <1>3, <1>5, <2>1
  <2> QED BY <1>2, <1>4, <1>7, <2>2
<1>9. ASSUME NEW k \in E PROVE k >= s
  <2>1. k \in Nat /\ k >= 1 /\ At(c, i + k - 1) < Base
    BY <1>2, <1>7
  <2>2. CASE k < s
    <3>1. k \in 1 .. s
      BY <1>2, <2>1, <2>2
    <3> QED BY <1>3, <1>5, <2>1, <2>2, <3>1
  <2> QED BY <1>2, <2>1, <2>2
<1>10. First(E) = s
  <2>1. E \subseteq Nat /\ E # {}
    BY ONLY <1>2, <1>7, <1>8
  <2>2. First(E) \in E /\ \A k \in E : First(E) <= k
    BY <2>1, FirstLeast
  <2>3. PICK n \in Nat : n = First(E)
    BY <2>1, <2>2
  <2> QED BY <1>2, <1>8, <1>9, <2>2, <2>3
<1>11. Octets(c, i, s)
  BY <1>3, <1>5 DEF Octets
<1>12. PICK f : Adding(f, c, i, s) /\ Bits(c, i, s) = f[s]
  BY <1>2, <1>11, BitsSolved
<1> DEFINE K == {k \in Nat : k <= s => f[k] = v % Shift(k)}
<1>13. 0 \in K
  <2>1. f[0] = 0
    BY <1>2, <1>12 DEF Adding
  <2>2. v % 1 = 0
    BY <1>3
  <2> QED BY <2>1, <2>2, ShiftFacts
<1>14. ASSUME NEW k \in Nat, k \in K PROVE k + 1 \in K
  <2>1. SUFFICES ASSUME k + 1 <= s PROVE f[k + 1] = v % Shift(k + 1)
    OBVIOUS
  <2>2. k <= s /\ k + 1 \in 1 .. s /\ k + 1 \in 0 .. s /\ k + 1 # 0 /\ (k + 1) - 1 = k
    BY <1>2, <2>1
  <2>3. f[k] = v % Shift(k)
    BY <1>14, <2>2
  <2>4. PICK a : a = At(c, i + (k + 1) - 1)
    OBVIOUS
  <2>5. f[k + 1] = f[k] + (a % Base) * Shift(k)
    BY <1>12, <2>2, <2>4 DEF Adding, Shift
  <2>6. PICK d : d = Group(v, k + 1)
    OBVIOUS
  <2>7. d \in 0 .. Base - 1 /\ a = d + (IF k + 1 < s THEN Base ELSE 0)
    BY <1>5, <2>2, <2>4, <2>6
  <2>8. a % Base = d
    BY ONLY <1>3, <2>7
  <2>9. Shift(k) \in Nat \ {0} /\ Shift(k + 1) = Shift(k) * Base
    BY ShiftFacts
  <2>10. d = (v \div Shift(k)) % Base
    BY <2>2, <2>6 DEF Group
  <2>11. v % (Shift(k) * Base) = (v % Shift(k)) + d * Shift(k)
    BY <1>3, <2>9, <2>10, NextGroup
  <2> QED BY <2>3, <2>5, <2>8, <2>9, <2>11
<1>15. Nat \subseteq K
  <2> HIDE DEF K
  <2> QED BY <1>13, <1>14, NatSetInduction
<1>16. Bits(c, i, s) = v
  <2>1. f[s] = v % Shift(s)
    BY <1>2, <1>15
  <2>2. PICK m \in Nat : m = Shift(s)
    BY <1>2, ShiftFacts
  <2>3. v % m = v
    BY <1>2, <1>3, <2>2
  <2> QED BY <1>12, <2>1, <2>2, <2>3
<1>17. v % Word = v
  BY <1>3
<1> QED BY <1>1, <1>6, <1>8, <1>10, <1>16, <1>17 DEF Varint

(***************************************************************************)
(* Messages, field by field.                                               *)
(***************************************************************************)
\* Sequences of bytes are put together in any grouping.
LEMMA Concats ==
  /\ \A a, b \in Seq(Octet) : a \o b \in Seq(Octet) /\ Len(a \o b) = Len(a) + Len(b)
  /\ \A a, b, c \in Seq(Octet) : (a \o b) \o c = a \o (b \o c)
  /\ \A a \in Seq(Octet) : <<>> \o a = a /\ a \o <<>> = a /\ Len(a) \in Nat
  /\ <<>> \in Seq(Octet) /\ Len(<<>>) = 0
<1>1. ASSUME NEW a \in Seq(Octet), NEW b \in Seq(Octet)
      PROVE  a \o b \in Seq(Octet) /\ Len(a \o b) = Len(a) + Len(b)
  BY ConcatProperties
<1>2. ASSUME NEW a \in Seq(Octet), NEW b \in Seq(Octet), NEW c \in Seq(Octet)
      PROVE  (a \o b) \o c = a \o (b \o c)
  BY ConcatAssociative
<1>3. ASSUME NEW a \in Seq(Octet) PROVE <<>> \o a = a /\ a \o <<>> = a /\ Len(a) \in Nat
  BY ConcatEmptySeq
<1>4. <<>> \in Seq(Octet) /\ Len(<<>>) = 0
  OBVIOUS
<1> QED BY <1>1, <1>2, <1>3, <1>4

\* Keys of up to four fields.
LEMMA KeyFacts ==
  ASSUME NEW f \in 1 .. 4, NEW t \in {0, 2}, NEW w, w = 8 * f + t
  PROVE  /\ w \in 0 .. Base - 1 /\ w \in 0 .. Word - 1 /\ w \in Octet
         /\ sov(w) = 1 /\ encodeVarint(w) = <<w>> /\ <<w>> \in Seq(Octet)
         /\ FieldNum(w) = f /\ WireType(w) = t
<1>1. Pow2[0] = 1 /\ Pow2[1] = 2 /\ Pow2[2] = 4 /\ Pow2[3] = 8 /\ Pow2[4] = 16
      /\ Pow2[5] = 32 /\ Pow2[6] = 64
  <2>1. /\ Pow2[0 + 1] = 2 * Pow2[0] /\ Pow2[1 + 1] = 2 * Pow2[1]
        /\ Pow2[2 + 1] = 2 * Pow2[2] /\ Pow2[3 + 1] = 2 * Pow2[3]
        /\ Pow2[4 + 1] = 2 * Pow2[4] /\ Pow2[5 + 1] = 2 * Pow2[5] /\ Pow2[0] = 1
    BY Pow2Facts
  <2> QED BY <2>1
<1>2. Base >= 64 /\ Word >= 64 /\ Base \in Nat /\ Word \in Nat
  <2>1. Pow2[6] <= Pow2[GroupBits] /\ Pow2[6] <= Pow2[Width]
    BY WireAssumption, KeyAssumption, Pow2Rises
  <2> QED BY <1>1, <2>1, Widths DEF Base, Word
<1>3. w \in 0 .. 34
  OBVIOUS
<1>4. w \in 0 .. Base - 1 /\ w \in 0 .. Word - 1 /\ w \in Octet
  BY <1>2, <1>3 DEF Octet
<1>5. sov(w) = 1 /\ encodeVarint(w) = <<w>>
  BY <1>4, OneByte
<1>6. <<w>> \in Seq(Octet)
  BY <1>4
<1>7. w \div 8 = f /\ w % 8 = t
  OBVIOUS
<1>8. f % Pow2[ShortWidth] = f /\ ~(f >= Pow2[ShortWidth - 1])
  <2>1. ShortWidth - 1 \in Nat /\ 3 <= ShortWidth - 1 /\ ShortWidth = (ShortWidth - 1) + 1
    BY WireAssumption, KeyAssumption
  <2>2. PICK h \in Nat : h = Pow2[ShortWidth - 1] /\ h >= 8
    BY <1>1, <2>1, Pow2Rises, Pow2Facts
  <2>3. Pow2[ShortWidth] = 2 * h
    BY <2>1, <2>2, Pow2Facts
  <2>4. f % (2 * h) = f
    BY <2>2
  <2> QED BY <2>2, <2>3, <2>4
<1>9. FieldNum(w) = f /\ WireType(w) = t
  BY <1>7, <1>8 DEF FieldNum, WireType
<1> QED BY <1>4, <1>5, <1>6, <1>9

\* Texts and Params that there can be: their lengths are ints.
Text == {s \in Seq(Octet) : Len(s) < Half}
Plain == {p \in Text \X Text \X BOOLEAN \X Text : Len(WriteParams(p)) < Half}

\* The messages of a type.
Messages(type) ==
  CASE type \in {"MsgMint", "MsgBurn"} -> Text \X Text \X Text
    [] type = "Params" -> Plain
    [] type = "MsgUpdateParams" -> Text \X Plain
    [] type \in {"GenesisState", "QueryParamsResponse"} -> {<<p>> : p \in Plain}
    [] type = "Module" -> {<<s>> : s \in Text}
    [] OTHER -> {<<>>}

\* What is written of field f, and of the fields from g on.
Part(type, m, f) ==
  IF f \notin DOMAIN Fields(type) THEN <<>>
  ELSE IF Fields(type)[f] = "text" THEN TextField(f, m[f])
  ELSE IF Fields(type)[f] = "bool" THEN BoolField(f, m[f])
  ELSE Delimited(f, WriteParams(m[f]))
Rest(type, m, g) ==
  IF g = 1 THEN Part(type, m, 1) \o
                (Part(type, m, 2) \o (Part(type, m, 3) \o Part(type, m, 4)))
  ELSE IF g = 2 THEN Part(type, m, 2) \o (Part(type, m, 3) \o Part(type, m, 4))
  ELSE IF g = 3 THEN Part(type, m, 3) \o Part(type, m, 4)
  ELSE IF g = 4 THEN Part(type, m, 4)
  ELSE <<>>

\* Bytes that fit, behind their length.
LEMMA DelimitedFacts ==
  ASSUME NEW f \in 1 .. 4, NEW s \in Seq(Octet), Len(s) < Half
  PROVE  /\ Delimited(f, s) = <<8 * f + 2>> \o (encodeVarint(Len(s)) \o s)
         /\ Delimited(f, s) \in Seq(Octet) /\ Delimited(f, s) # <<>>
         /\ Len(Delimited(f, s)) = SizeDelimited(Len(s))
         /\ Len(s) \in 0 .. Word - 1
         /\ encodeVarint(Len(s)) \in Seq(Octet) /\ Len(encodeVarint(Len(s))) = sov(Len(s))
         /\ sov(Len(s)) \in Nat
<1>1. PICK w, l : w = 8 * f + 2 /\ l = Len(s)
  OBVIOUS
<1>2. l \in 0 .. Word - 1 /\ l \in Nat
  BY <1>1, Widths
<1>3. encodeVarint(w) = <<w>> /\ <<w>> \in Seq(Octet)
  BY <1>1, KeyFacts
<1>4. PICK e : e = encodeVarint(l)
  OBVIOUS
<1>5. e \in Seq(Octet) /\ Len(e) = sov(l) /\ sov(l) \in Nat
  BY <1>2, <1>4, EncodeFacts, SovFacts, Widths
<1>6. Delimited(f, s) = (<<w>> \o e) \o s
  BY <1>1, <1>3, <1>4 DEF Delimited
<1>7. (<<w>> \o e) \o s = <<w>> \o (e \o s)
  BY <1>3, <1>5, Concats
<1>8. e \o s \in Seq(Octet) /\ Len(e \o s) = sov(l) + l
  BY <1>1, <1>5, Concats
<1>9. <<w>> \o (e \o s) \in Seq(Octet) /\ Len(<<w>> \o (e \o s)) = 1 + (sov(l) + l)
  <2>1. Len(<<w>>) = 1
    OBVIOUS
  <2> QED BY <1>3, <1>8, <2>1, Concats
<1>10. Delimited(f, s) # <<>>
  BY <1>2, <1>5, <1>6, <1>7, <1>9, Concats
<1>11. PICK d : d = Delimited(f, s)
  OBVIOUS
<1>12. d = <<w>> \o (e \o s) /\ d \in Seq(Octet) /\ d # <<>>
  BY ONLY <1>6, <1>7, <1>9, <1>10, <1>11
<1>13. Len(d) = SizeDelimited(l)
  BY ONLY <1>2, <1>5, <1>9, <1>12 DEF SizeDelimited
<1> QED BY ONLY <1>1, <1>2, <1>4, <1>5, <1>11, <1>12, <1>13

\* A text as a field.
LEMMA TextFacts ==
  ASSUME NEW f \in 1 .. 4, NEW s \in Text
  PROVE  /\ TextField(f, s) \in Seq(Octet)
         /\ Len(TextField(f, s)) = SizeText(s)
         /\ TextField(f, s) = <<>> <=> s = <<>>
         /\ WalletField(8 * f + 2, s) = TextField(f, s)
<1>1. s \in Seq(Octet) /\ Len(s) < Half
  BY DEF Text
<1>2. CASE s = <<>>
  BY <1>2, Concats DEF TextField, SizeText, WalletField
<1>3. CASE s # <<>>
  <2>1. TextField(f, s) = Delimited(f, s) /\ SizeText(s) = SizeDelimited(Len(s))
        /\ WalletField(8 * f + 2, s) = Delimited(f, s)
    BY <1>3 DEF TextField, SizeText, WalletField, Delimited
  <2> QED BY <1>1, <1>3, <2>1, DelimitedFacts
<1> QED BY <1>2, <1>3

\* A flag as a field.
LEMMA BoolFacts ==
  ASSUME NEW f \in 1 .. 4, NEW b \in BOOLEAN
  PROVE  /\ BoolField(f, b) \in Seq(Octet)
         /\ Len(BoolField(f, b)) = (IF b THEN 2 ELSE 0)
         /\ BoolField(f, b) = <<>> <=> ~b
<1>1. CASE b
  <2>1. 8 * f + 0 \in Octet /\ 8 * f + 0 = 8 * f
    BY KeyFacts
  <2>2. 1 \in Octet
    BY Widths DEF Octet
  <2>3. BoolField(f, b) = <<8 * f, 1>>
    BY <1>1 DEF BoolField
  <2>4. \A x, y \in Octet : <<x, y>> \in Seq(Octet) /\ Len(<<x, y>>) = 2 /\ <<x, y>> # <<>>
    OBVIOUS
  <2> QED BY <1>1, <2>1, <2>2, <2>3, <2>4
<1>2. CASE ~b
  BY <1>2, Concats DEF BoolField
<1> QED BY <1>1, <1>2

\* A field of a message holds what its kind says.
FieldOK(kind, v) ==
  \/ kind = "text" /\ v \in Text
  \/ kind = "bool" /\ v \in BOOLEAN
  \/ kind = "Params" /\ v \in Plain

\* Messages have the fields of their types.
LEMMA MessageFields ==
  ASSUME NEW type \in Types, NEW m \in Messages(type)
  PROVE  /\ DOMAIN m = DOMAIN Fields(type) /\ DOMAIN Fields(type) \subseteq 1 .. 4
         /\ m = [f \in DOMAIN m |-> m[f]]
         /\ \A f \in DOMAIN Fields(type) : FieldOK(Fields(type)[f], m[f])
<1>1. CASE type \in {"MsgMint", "MsgBurn"}
  <2>1. Fields(type) = <<"text", "text", "text">>
    BY <1>1 DEF Fields, UnmarshalMsgMint, UnmarshalMsgBurn
  <2>2. PICK a \in Text, b \in Text, c \in Text : m = <<a, b, c>>
    BY <1>1 DEF Messages
  <2> QED BY <2>1, <2>2 DEF FieldOK
<1>2. CASE type = "Params"
  <2>1. Fields(type) = <<"text", "text", "bool", "text">>
    BY <1>2 DEF Fields, UnmarshalParams
  <2>2. PICK a \in Text, b \in Text, c \in BOOLEAN, d \in Text : m = <<a, b, c, d>>
    BY <1>2 DEF Messages, Plain
  <2> QED BY <2>1, <2>2 DEF FieldOK
<1>3. CASE type = "MsgUpdateParams"
  <2>1. Fields(type) = <<"text", "Params">>
    BY <1>3 DEF Fields, UnmarshalMsgUpdateParams
  <2>2. PICK a \in Text, p \in Plain : m = <<a, p>>
    BY <1>3 DEF Messages
  <2> QED BY <2>1, <2>2 DEF FieldOK
<1>4. CASE type \in {"GenesisState", "QueryParamsResponse"}
  <2>1. Fields(type) = <<"Params">>
    BY <1>4 DEF Fields, UnmarshalGenesisState, UnmarshalQueryParamsResponse
  <2>2. PICK p \in Plain : m = <<p>>
    BY <1>4 DEF Messages
  <2> QED BY <2>1, <2>2 DEF FieldOK
<1>5. CASE type = "Module"
  <2>1. Fields(type) = <<"text">>
    BY <1>5 DEF Fields, UnmarshalModule
  <2>2. PICK s \in Text : m = <<s>>
    BY <1>5 DEF Messages
  <2> QED BY <2>1, <2>2 DEF FieldOK
<1>6. CASE type \in {"MsgMintResponse", "MsgBurnResponse", "MsgUpdateParamsResponse",
                     "QueryParamsRequest"}
  <2>1. Fields(type) = <<>>
    BY <1>6 DEF Fields, UnmarshalMsgMintResponse, UnmarshalMsgBurnResponse,
                UnmarshalMsgUpdateParamsResponse, UnmarshalQueryParamsRequest
  <2>2. m = <<>>
    BY <1>6 DEF Messages
  <2> QED BY <2>1, <2>2
<1> QED BY <1>1, <1>2, <1>3, <1>4, <1>5, <1>6 DEF Types

\* What is written of Params is what is written of their fields, and its size
\* is computed.
LEMMA ParamsWritten ==
  ASSUME NEW p \in Text \X Text \X BOOLEAN \X Text
  PROVE  /\ WriteParams(p) = Rest("Params", p, 1) /\ WriteParams(p) \in Seq(Octet)
         /\ Len(WriteParams(p)) = SizeParams(p)
<1>1. PICK a, b, c, d :
        a = TextField(1, p[1]) /\ b = TextField(2, p[2]) /\ c = BoolField(3, p[3])
        /\ d = TextField(4, p[4])
  OBVIOUS
<1>2. p[1] \in Text /\ p[2] \in Text /\ p[3] \in BOOLEAN /\ p[4] \in Text
  OBVIOUS
<1>3. /\ a \in Seq(Octet) /\ Len(a) = SizeText(p[1])
      /\ b \in Seq(Octet) /\ Len(b) = SizeText(p[2])
      /\ c \in Seq(Octet) /\ Len(c) = (IF p[3] THEN 2 ELSE 0)
      /\ d \in Seq(Octet) /\ Len(d) = SizeText(p[4])
  <2>1. a \in Seq(Octet) /\ Len(a) = SizeText(p[1])
    <3>1. 1 \in 1 .. 4
      OBVIOUS
    <3> QED BY <1>1, <1>2, <3>1, TextFacts
  <2>2. b \in Seq(Octet) /\ Len(b) = SizeText(p[2])
    <3>1. 2 \in 1 .. 4
      OBVIOUS
    <3> QED BY <1>1, <1>2, <3>1, TextFacts
  <2>3. c \in Seq(Octet) /\ Len(c) = (IF p[3] THEN 2 ELSE 0)
    <3>1. 3 \in 1 .. 4
      OBVIOUS
    <3> QED BY <1>1, <1>2, <3>1, BoolFacts
  <2>4. d \in Seq(Octet) /\ Len(d) = SizeText(p[4])
    <3>1. 4 \in 1 .. 4
      OBVIOUS
    <3> QED BY <1>1, <1>2, <3>1, TextFacts
  <2> QED BY <2>1, <2>2, <2>3, <2>4
<1>4. PICK ab, abc, cd : ab = a \o b /\ abc = ab \o c /\ cd = c \o d
  OBVIOUS
<1>5. /\ ab \in Seq(Octet) /\ Len(ab) = Len(a) + Len(b)
      /\ abc \in Seq(Octet) /\ Len(abc) = Len(ab) + Len(c)
      /\ cd \in Seq(Octet)
      /\ abc \o d \in Seq(Octet) /\ Len(abc \o d) = Len(abc) + Len(d)
  <2>1. ab \in Seq(Octet) /\ Len(ab) = Len(a) + Len(b)
    BY ONLY <1>3, <1>4, Concats
  <2>2. abc \in Seq(Octet) /\ Len(abc) = Len(ab) + Len(c)
    BY ONLY <1>3, <1>4, <2>1, Concats
  <2>3. cd \in Seq(Octet)
    BY ONLY <1>3, <1>4, Concats
  <2>4. abc \o d \in Seq(Octet) /\ Len(abc \o d) = Len(abc) + Len(d)
    BY ONLY <1>3, <2>2, Concats
  <2> QED BY <2>1, <2>2, <2>3, <2>4
<1>6. abc \o d = a \o (b \o cd)
  <2>1. abc \o d = ab \o cd
    <3>0. ab \in Seq(Octet) /\ c \in Seq(Octet) /\ d \in Seq(Octet)
      BY ONLY <1>3, <1>5
    <3>1. (ab \o c) \o d = ab \o (c \o d)
      BY ONLY <3>0, ConcatAssociative
    <3> QED BY ONLY <1>4, <3>1
  <2>2. ab \o cd = a \o (b \o cd)
    <3>0. a \in Seq(Octet) /\ b \in Seq(Octet) /\ cd \in Seq(Octet)
      BY ONLY <1>3, <1>5
    <3>1. (a \o b) \o cd = a \o (b \o cd)
      BY ONLY <3>0, ConcatAssociative
    <3> QED BY ONLY <1>4, <3>1
  <2> QED BY <2>1, <2>2
<1>7. WriteParams(p) = abc \o d
  BY <1>1, <1>4 DEF WriteParams
<1>8. Rest("Params", p, 1) = a \o (b \o cd)
  <2>1. Fields("Params") = <<"text", "text", "bool", "text">>
    BY DEF Fields, UnmarshalParams
  <2>2. Part("Params", p, 1) = a /\ Part("Params", p, 2) = b /\ Part("Params", p, 3) = c
        /\ Part("Params", p, 4) = d
    BY <1>1, <2>1 DEF Part
  <2> QED BY <1>4, <2>2 DEF Rest
<1>9. Len(abc \o d) = SizeParams(p)
  BY ONLY <1>3, <1>5 DEF SizeParams
<1> QED BY <1>5, <1>6, <1>7, <1>8, <1>9

\* What is written of a field are bytes, and none for the zero value.
LEMMA PartFacts ==
  ASSUME NEW type \in Types, NEW m \in Messages(type), NEW f \in 1 .. 4
  PROVE  /\ Part(type, m, f) \in Seq(Octet)
         /\ f \in DOMAIN Fields(type) =>
              /\ Fields(type)[f] = "text" =>
                   /\ Part(type, m, f) = TextField(f, m[f]) /\ m[f] \in Text
              /\ Fields(type)[f] = "bool" =>
                   /\ Part(type, m, f) = BoolField(f, m[f]) /\ m[f] \in BOOLEAN
              /\ Fields(type)[f] = "Params" =>
                   /\ Part(type, m, f) = Delimited(f, WriteParams(m[f])) /\ m[f] \in Plain
<1>1. CASE f \notin DOMAIN Fields(type)
  BY <1>1, Concats DEF Part
<1>2. CASE f \in DOMAIN Fields(type)
  <2>1. FieldOK(Fields(type)[f], m[f])
    BY <1>2, MessageFields
  <2>2. CASE Fields(type)[f] = "text"
    BY <1>2, <2>1, <2>2, TextFacts DEF Part, FieldOK
  <2>3. CASE Fields(type)[f] = "bool"
    BY <1>2, <2>1, <2>3, BoolFacts DEF Part, FieldOK
  <2>4. CASE Fields(type)[f] = "Params"
    <3>1. m[f] \in Plain /\ Part(type, m, f) = Delimited(f, WriteParams(m[f]))
      BY <1>2, <2>1, <2>4 DEF Part, FieldOK
    <3>2. WriteParams(m[f]) \in Seq(Octet) /\ Len(WriteParams(m[f])) < Half
      BY <3>1, ParamsWritten DEF Plain
    <3> QED BY <2>4, <3>1, <3>2, DelimitedFacts
  <2> QED BY <2>1, <2>2, <2>3, <2>4 DEF FieldOK
<1> QED BY <1>1, <1>2

\* The fields from g on are field g and those after it.
LEMMA RestFacts ==
  ASSUME NEW type \in Types, NEW m \in Messages(type)
  PROVE  /\ \A g \in 1 .. 5 : Rest(type, m, g) \in Seq(Octet)
         /\ \A g \in 1 .. 4 : Rest(type, m, g) = Part(type, m, g) \o Rest(type, m, g + 1)
         /\ Rest(type, m, 5) = <<>>
<1>1. PICK a, b, c, d :
        a = Part(type, m, 1) /\ b = Part(type, m, 2) /\ c = Part(type, m, 3)
        /\ d = Part(type, m, 4)
  OBVIOUS
<1>2. a \in Seq(Octet) /\ b \in Seq(Octet) /\ c \in Seq(Octet) /\ d \in Seq(Octet)
  BY <1>1, PartFacts
<1>3. c \o d \in Seq(Octet) /\ b \o (c \o d) \in Seq(Octet)
      /\ a \o (b \o (c \o d)) \in Seq(Octet) /\ d = d \o <<>> /\ <<>> \in Seq(Octet)
  BY <1>2, Concats
<1>4. /\ Rest(type, m, 1) = a \o (b \o (c \o d)) /\ Rest(type, m, 2) = b \o (c \o d)
      /\ Rest(type, m, 3) = c \o d /\ Rest(type, m, 4) = d /\ Rest(type, m, 5) = <<>>
  BY <1>1 DEF Rest
<1>5. ASSUME NEW g \in 1 .. 5 PROVE Rest(type, m, g) \in Seq(Octet)
  <2>1. g = 1 \/ g = 2 \/ g = 3 \/ g = 4 \/ g = 5
    OBVIOUS
  <2> QED BY ONLY <1>2, <1>3, <1>4, <2>1
<1>6. /\ Rest(type, m, 1) = Part(type, m, 1) \o Rest(type, m, 2)
      /\ Rest(type, m, 2) = Part(type, m, 2) \o Rest(type, m, 3)
      /\ Rest(type, m, 3) = Part(type, m, 3) \o Rest(type, m, 4)
      /\ Rest(type, m, 4) = Part(type, m, 4) \o Rest(type, m, 5)
  BY ONLY <1>1, <1>3, <1>4
<1>7. ASSUME NEW g \in 1 .. 4
      PROVE  Rest(type, m, g) = Part(type, m, g) \o Rest(type, m, g + 1)
  <2>1. \/ g = 1 /\ g + 1 = 2
        \/ g = 2 /\ g + 1 = 3
        \/ g = 3 /\ g + 1 = 4
        \/ g = 4 /\ g + 1 = 5
    OBVIOUS
  <2> QED BY ONLY <1>6, <2>1
<1> QED BY <1>4, <1>5, <1>7

(***************************************************************************)
(* What was sent, and what decoding keeps of it.                           *)
(***************************************************************************)
\* What Marshal writes of a message.
Marshalled(type, m) ==
  CASE type = "MsgMint"             -> MarshalMsgMint(m)
    [] type = "MsgBurn"             -> MarshalMsgBurn(m)
    [] type = "Params"              -> MarshalParams(m)
    [] type = "MsgUpdateParams"     -> MarshalMsgUpdateParams(m)
    [] type = "GenesisState"        -> MarshalGenesisState(m)
    [] type = "QueryParamsResponse" -> MarshalQueryParamsResponse(m)
    [] type = "Module"              -> MarshalModule(m)
    [] OTHER                        -> <<>>

\* What has been received was written by Marshal or by the wallet, of a message
\* that there can be.
Sent(x) ==
  /\ x.err = "nil"
  /\ x.want \in Messages(x.type)
  /\ \/ x.bytes = Marshalled(x.type, x.want)
     \/ x.type = "MsgMint" /\ x.bytes = EncodeMsgMint(x.want)
     \/ x.type = "MsgBurn" /\ x.bytes = EncodeMsgBurn(x.want)

\* The message when the fields before g have been read.
Mixed(type, m, g) ==
  [f \in DOMAIN Fields(type) |-> IF f < g THEN m[f] ELSE Zero(type)[f]]

\* A call that reads message m stands before what was written of its fields
\* from g on, with nothing behind that.
OnTrack(c, m, g) ==
  /\ Stands(c, c.i, Rest(c.type, m, g))
  /\ c.i + Len(Rest(c.type, m, g)) = Length(c)
  /\ c.msg = Mixed(c.type, m, g)

\* The key that has been read is that of field g, which was written.
AtKey(c, m, g) ==
  /\ g \in DOMAIN Fields(c.type) /\ Part(c.type, m, g) # <<>>
  /\ key = [num |-> g, type |-> IF Fields(c.type)[g] = "bool" THEN 0 ELSE 2,
            next |-> c.i + 1]

\* The call stands before a field of the message it reads, or behind the last.
Track(c, m) ==
  \E g \in 1 .. 5 : OnTrack(c, m, g) /\ (mode = "value" => AtKey(c, m, g))

\* Call b waits for its field h to be read: at that index, behind the slice of
\* the field, stands what was written of the fields after it.
Waits(b, m, h, at) ==
  /\ Stands(b, at, Rest(b.type, m, h + 1))
  /\ at + Len(Rest(b.type, m, h + 1)) = Length(b)
  /\ b.msg = Mixed(b.type, m, h)

\* The message m that call a, with the calls s around it, is to read.
Awaited(a, s, m) ==
  \/ s = <<>> /\ a.type = input.type /\ m = input.want
  \/ \E b : /\ s = <<b>> /\ b.type = input.type
            /\ m = input.want[a.field]
            /\ Waits(b, input.want, a.field, a.hi - b.lo)

\* Decoding follows what was sent, without an error, to the end.
ReadInv ==
  Sent(input) =>
    /\ mode # "skip"
    /\ \E m : Track(Top, m) /\ Awaited(Top, Tail(stack), m)
    /\ mode = "done" => err = "nil" /\ Tail(stack) = <<>> /\ Top.msg = input.want

\* Marshal returns what is written when the size is computed rightly.
LEMMA MarshalIs ==
  ASSUME NEW w \in Seq(Octet), NEW n, n = Len(w)
  PROVE  Marshal(n, w) = w
<1>1. PICK gap : gap = [k \in 1 .. n - Len(w) |-> 0]
  OBVIOUS
<1>2. Len(w) \in Nat /\ n - Len(w) = 0
  BY Concats
<1>3. gap = <<>>
  BY <1>1, <1>2
<1>4. gap \o w = w
  BY <1>3, Concats
<1>5. SubSeq(w, 1, Len(w)) = w
  BY SubSeqFull
<1> QED BY <1>1, <1>2, <1>4, <1>5 DEF Marshal

\* Two fields more are put together in either grouping.
LEMMA Trailing ==
  ASSUME NEW a \in Seq(Octet), NEW b \in Seq(Octet), NEW c \in Seq(Octet)
  PROVE  /\ (a \o b) \o c = a \o (b \o (c \o <<>>))
         /\ a \o b = a \o (b \o (<<>> \o <<>>))
         /\ a = a \o (<<>> \o (<<>> \o <<>>))
         /\ (a \o b) \o c \in Seq(Octet) /\ a \o b \in Seq(Octet)
         /\ Len((a \o b) \o c) = (Len(a) + Len(b)) + Len(c)
         /\ Len(a \o b) = Len(a) + Len(b)
<1>1. a \o b \in Seq(Octet) /\ Len(a \o b) = Len(a) + Len(b)
  BY Concats
<1>2. (a \o b) \o c \in Seq(Octet) /\ Len((a \o b) \o c) = Len(a \o b) + Len(c)
  BY <1>1, Concats
<1>3. (a \o b) \o c = a \o (b \o c)
  BY Concats
<1>4. c \o <<>> = c /\ <<>> \o <<>> = <<>> /\ b \o <<>> = b /\ a \o <<>> = a
  BY Concats
<1> QED BY ONLY <1>1, <1>2, <1>3, <1>4

\* What Marshal and the wallet write of a message is what is written of its
\* fields, in their order.
LEMMA MarshalledIsRest ==
  ASSUME NEW type \in Types, NEW m \in Messages(type)
  PROVE  /\ Marshalled(type, m) = Rest(type, m, 1)
         /\ type = "MsgMint" => EncodeMsgMint(m) = Rest(type, m, 1)
         /\ type = "MsgBurn" => EncodeMsgBurn(m) = Rest(type, m, 1)
<1>0. 1 \in 1 .. 4 /\ 2 \in 1 .. 4 /\ 3 \in 1 .. 4 /\ <<>> \in Seq(Octet)
      /\ 8 * 1 + 2 = 10 /\ 8 * 2 + 2 = 18 /\ 8 * 3 + 2 = 26
  OBVIOUS
<1>1. CASE type \in {"MsgMint", "MsgBurn"}
  <2>1. Fields(type) = <<"text", "text", "text">>
    BY <1>1 DEF Fields, UnmarshalMsgMint, UnmarshalMsgBurn
  <2>2. PICK x \in Text, y \in Text, z \in Text : m = <<x, y, z>>
    BY <1>1 DEF Messages
  <2>3. m[1] = x /\ m[2] = y /\ m[3] = z
    BY <2>2
  <2>4. PICK a, b, c : a = TextField(1, x) /\ b = TextField(2, y) /\ c = TextField(3, z)
    OBVIOUS
  <2>5. /\ a \in Seq(Octet) /\ Len(a) = SizeText(x)
        /\ a = WalletField(10, x)
    BY <1>0, <2>4, TextFacts
  <2>6. /\ b \in Seq(Octet) /\ Len(b) = SizeText(y)
        /\ b = WalletField(18, y)
    BY <1>0, <2>4, TextFacts
  <2>7. /\ c \in Seq(Octet) /\ Len(c) = SizeText(z)
        /\ c = WalletField(26, z)
    BY <1>0, <2>4, TextFacts
  <2>8. Rest(type, m, 1) = a \o (b \o (c \o <<>>))
    <3>1. Part(type, m, 1) = a /\ Part(type, m, 2) = b /\ Part(type, m, 3) = c
          /\ Part(type, m, 4) = <<>>
      BY <2>1, <2>3, <2>4 DEF Part
    <3> QED BY <3>1 DEF Rest
  <2>9. PICK w : w = (a \o b) \o c
    OBVIOUS
  <2>10. w = Rest(type, m, 1) /\ w \in Seq(Octet)
         /\ Len(w) = (SizeText(x) + SizeText(y)) + SizeText(z)
    <3>1. /\ (a \o b) \o c = a \o (b \o (c \o <<>>)) /\ (a \o b) \o c \in Seq(Octet)
          /\ Len((a \o b) \o c) = (Len(a) + Len(b)) + Len(c)
      <4>1. a \in Seq(Octet) /\ b \in Seq(Octet) /\ c \in Seq(Octet)
        BY ONLY <2>5, <2>6, <2>7
      <4> QED BY ONLY <4>1, Trailing
    <3> QED BY ONLY <2>5, <2>6, <2>7, <2>8, <2>9, <3>1
  <2>11. WriteMsgMint(m) = w /\ WriteMsgBurn(m) = w
         /\ EncodeMsgMint(m) = w /\ EncodeMsgBurn(m) = w
         /\ SizeMsgMint(m) = Len(w) /\ SizeMsgBurn(m) = Len(w)
    BY <2>3, <2>4, <2>5, <2>6, <2>7, <2>9, <2>10
       DEF WriteMsgMint, WriteMsgBurn, EncodeMsgMint, EncodeMsgBurn, SizeMsgMint, SizeMsgBurn
  <2>12. MarshalMsgMint(m) = w /\ MarshalMsgBurn(m) = w
    BY <2>10, <2>11, MarshalIs DEF MarshalMsgMint, MarshalMsgBurn
  <2> QED BY <1>1, <2>10, <2>11, <2>12 DEF Marshalled
<1>2. CASE type = "Params"
  <2>1. m \in Text \X Text \X BOOLEAN \X Text
    BY <1>2 DEF Messages, Plain
  <2>2. MarshalParams(m) = WriteParams(m) /\ WriteParams(m) = Rest(type, m, 1)
    BY <1>2, <2>1, ParamsWritten, MarshalIs DEF MarshalParams
  <2> QED BY <1>2, <2>2 DEF Marshalled
<1>3. CASE type = "MsgUpdateParams"
  <2>1. Fields(type) = <<"text", "Params">>
    BY <1>3 DEF Fields, UnmarshalMsgUpdateParams
  <2>2. PICK x \in Text, p \in Plain : m = <<x, p>>
    BY <1>3 DEF Messages
  <2>3. m[1] = x /\ m[2] = p /\ p \in Text \X Text \X BOOLEAN \X Text
        /\ Len(WriteParams(p)) < Half
    BY <2>2 DEF Plain
  <2>4. PICK a, b : a = TextField(1, x) /\ b = Delimited(2, WriteParams(p))
    OBVIOUS
  <2>5. a \in Seq(Octet) /\ Len(a) = SizeText(x)
    BY <1>0, <2>4, TextFacts
  <2>6. b \in Seq(Octet) /\ Len(b) = SizeDelimited(SizeParams(p))
    <3>1. WriteParams(p) \in Seq(Octet) /\ Len(WriteParams(p)) = SizeParams(p)
      BY <2>3, ParamsWritten
    <3> QED BY <1>0, <2>3, <2>4, <3>1, DelimitedFacts
  <2>7. Rest(type, m, 1) = a \o (b \o (<<>> \o <<>>))
    <3>1. Part(type, m, 1) = a /\ Part(type, m, 2) = b /\ Part(type, m, 3) = <<>>
          /\ Part(type, m, 4) = <<>>
      BY <2>1, <2>3, <2>4 DEF Part
    <3> QED BY <3>1 DEF Rest
  <2>8. PICK w : w = a \o b
    OBVIOUS
  <2>9. w = Rest(type, m, 1) /\ w \in Seq(Octet)
        /\ Len(w) = SizeText(x) + SizeDelimited(SizeParams(p))
    BY <2>5, <2>6, <2>7, <2>8, <1>0, Trailing
  <2>10. WriteMsgUpdateParams(m) = w /\ SizeMsgUpdateParams(m) = Len(w)
    BY <2>3, <2>4, <2>8, <2>9 DEF WriteMsgUpdateParams, SizeMsgUpdateParams
  <2>11. MarshalMsgUpdateParams(m) = w
    BY <2>9, <2>10, MarshalIs DEF MarshalMsgUpdateParams
  <2> QED BY <1>3, <2>9, <2>11 DEF Marshalled
<1>4. CASE type \in {"GenesisState", "QueryParamsResponse"}
  <2>1. Fields(type) = <<"Params">>
    BY <1>4 DEF Fields, UnmarshalGenesisState, UnmarshalQueryParamsResponse
  <2>2. PICK p \in Plain : m = <<p>>
    BY <1>4 DEF Messages
  <2>3. m[1] = p /\ p \in Text \X Text \X BOOLEAN \X Text /\ Len(WriteParams(p)) < Half
    BY <2>2 DEF Plain
  <2>4. PICK w : w = Delimited(1, WriteParams(p))
    OBVIOUS
  <2>5. w \in Seq(Octet) /\ Len(w) = SizeDelimited(SizeParams(p))
    <3>1. WriteParams(p) \in Seq(Octet) /\ Len(WriteParams(p)) = SizeParams(p)
      BY <2>3, ParamsWritten
    <3> QED BY <1>0, <2>3, <2>4, <3>1, DelimitedFacts
  <2>6. Rest(type, m, 1) = w
    <3>1. Part(type, m, 1) = w /\ Part(type, m, 2) = <<>> /\ Part(type, m, 3) = <<>>
          /\ Part(type, m, 4) = <<>>
      BY <2>1, <2>3, <2>4 DEF Part
    <3> QED BY <1>0, <2>5, <3>1, Trailing DEF Rest
  <2>7. /\ WriteGenesisState(m) = w /\ SizeGenesisState(m) = Len(w)
        /\ WriteQueryParamsResponse(m) = w /\ SizeQueryParamsResponse(m) = Len(w)
    BY <2>3, <2>4, <2>5 DEF WriteGenesisState, SizeGenesisState,
       WriteQueryParamsResponse, SizeQueryParamsResponse
  <2>8. MarshalGenesisState(m) = w /\ MarshalQueryParamsResponse(m) = w
    BY <2>5, <2>7, MarshalIs DEF MarshalGenesisState, MarshalQueryParamsResponse
  <2> QED BY <1>4, <2>6, <2>8 DEF Marshalled
<1>5. CASE type = "Module"
  <2>1. Fields(type) = <<"text">>
    BY <1>5 DEF Fields, UnmarshalModule
  <2>2. PICK s \in Text : m = <<s>>
    BY <1>5 DEF Messages
  <2>3. m[1] = s
    BY <2>2
  <2>4. PICK w : w = TextField(1, s)
    OBVIOUS
  <2>5. w \in Seq(Octet) /\ Len(w) = SizeText(s)
    BY <1>0, <2>4, TextFacts
  <2>6. Rest(type, m, 1) = w
    <3>1. Part(type, m, 1) = w /\ Part(type, m, 2) = <<>> /\ Part(type, m, 3) = <<>>
          /\ Part(type, m, 4) = <<>>
      BY <2>1, <2>3, <2>4 DEF Part
    <3> QED BY <1>0, <2>5, <3>1, Trailing DEF Rest
  <2>7. WriteModule(m) = w /\ SizeModule(m) = Len(w)
    BY <2>3, <2>4, <2>5 DEF WriteModule, SizeModule
  <2>8. MarshalModule(m) = w
    BY <2>5, <2>7, MarshalIs DEF MarshalModule
  <2> QED BY <1>5, <2>6, <2>8 DEF Marshalled
<1>6. CASE type \in {"MsgMintResponse", "MsgBurnResponse", "MsgUpdateParamsResponse",
                     "QueryParamsRequest"}
  <2>1. Fields(type) = <<>>
    BY <1>6 DEF Fields, UnmarshalMsgMintResponse, UnmarshalMsgBurnResponse,
                UnmarshalMsgUpdateParamsResponse, UnmarshalQueryParamsRequest
  <2>2. \A f : Part(type, m, f) = <<>>
    BY <2>1 DEF Part
  <2>3. Rest(type, m, 1) = <<>>
    BY <1>0, <2>2, Trailing DEF Rest
  <2> QED BY <1>6, <2>3 DEF Marshalled
<1> QED BY <1>1, <1>2, <1>3, <1>4, <1>5, <1>6 DEF Types

\* What stands in a slice in two parts.
LEMMA StandsJoin ==
  ASSUME NEW c, NEW i \in Nat, NEW a \in Seq(Octet), NEW b \in Seq(Octet),
         Stands(c, i, a \o b), Length(c) \in Int
  PROVE  Stands(c, i, a) /\ Stands(c, i + Len(a), b)
<1>1. PICK w : w = a \o b
  OBVIOUS
<1>2. PICK la \in Nat, lb \in Nat : la = Len(a) /\ lb = Len(b)
  BY Concats
<1>3. /\ Len(w) = la + lb
      /\ \A k \in 1 .. la : k \in 1 .. la + lb /\ w[k] = a[k]
      /\ \A k \in 1 .. lb : k + la \in 1 .. la + lb /\ w[k + la] = b[k]
  BY <1>1, <1>2
<1>4. i + (la + lb) <= Length(c) /\ \A k \in 1 .. la + lb : At(c, i + k - 1) = w[k]
  BY <1>1, <1>3 DEF Stands
<1>5. Stands(c, i, a)
  <2>1. i + la <= Length(c)
    BY <1>2, <1>4
  <2> QED BY <1>2, <1>3, <1>4, <2>1 DEF Stands
<1>6. Stands(c, i + la, b)
  <2>1. (i + la) + lb <= Length(c)
    BY <1>2, <1>4
  <2>2. ASSUME NEW k \in 1 .. lb PROVE At(c, (i + la) + k - 1) = b[k]
    <3>1. (i + la) + k - 1 = i + (k + la) - 1
      BY <1>2
    <3>2. At(c, i + (k + la) - 1) = w[k + la]
      BY <1>3, <1>4
    <3> QED BY <1>3, <3>1, <3>2
  <2> QED BY <1>2, <2>1, <2>2 DEF Stands
<1> QED BY <1>2, <1>5, <1>6

\* A field is left out only when it holds what the message begins with.
LEMMA EmptyPart ==
  ASSUME NEW type \in Types, NEW m \in Messages(type), NEW f \in DOMAIN Fields(type),
         Part(type, m, f) = <<>>
  PROVE  m[f] = Zero(type)[f]
<1>1. f \in 1 .. 4 /\ FieldOK(Fields(type)[f], m[f])
  BY MessageFields
<1>2. f \in 1 .. Len(Fields(type))
  BY FieldsType
<1>3. CASE Fields(type)[f] = "text"
  <2>1. m[f] \in Text /\ TextField(f, m[f]) = <<>>
    BY <1>1, <1>3 DEF FieldOK, Part
  <2>2. m[f] = <<>>
    BY <1>1, <2>1, TextFacts
  <2> QED BY <1>2, <1>3, <2>2 DEF Zero
<1>4. CASE Fields(type)[f] = "bool"
  <2>1. m[f] \in BOOLEAN /\ BoolField(f, m[f]) = <<>>
    BY <1>1, <1>4 DEF FieldOK, Part
  <2>2. m[f] = FALSE
    BY <1>1, <2>1, BoolFacts
  <2> QED BY <1>2, <1>4, <2>2 DEF Zero
<1>5. CASE Fields(type)[f] = "Params"
  <2>1. m[f] \in Plain /\ Delimited(f, WriteParams(m[f])) = <<>>
    BY <1>1, <1>5 DEF FieldOK, Part
  <2>2. WriteParams(m[f]) \in Seq(Octet) /\ Len(WriteParams(m[f])) < Half
    BY <2>1, ParamsWritten DEF Plain
  <2> QED BY <1>1, <2>1, <2>2, DelimitedFacts
<1> QED BY <1>1, <1>3, <1>4, <1>5 DEF FieldOK

\* Unmarshal begins with no field read, and ends with all; a field that is read
\* or was left out adds itself to those before it.
LEMMA MixedFacts ==
  ASSUME NEW type \in Types, NEW m \in Messages(type)
  PROVE  /\ Mixed(type, m, 1) = Zero(type)
         /\ Mixed(type, m, 5) = m
         /\ \A g \in 1 .. 4 :
              /\ Mixed(type, m, g + 1) = [Mixed(type, m, g) EXCEPT ![g] = m[g]]
              /\ Part(type, m, g) = <<>> => Mixed(type, m, g + 1) = Mixed(type, m, g)
<1>1. PICK D : D = DOMAIN Fields(type)
  OBVIOUS
<1>2. D \subseteq 1 .. 4 /\ DOMAIN m = D /\ m = [f \in D |-> m[f]]
  BY <1>1, MessageFields
<1>3. DOMAIN Zero(type) = D /\ Zero(type) = [f \in D |-> Zero(type)[f]]
  <2>1. DOMAIN Zero(type) = D
    BY <1>1, ZeroOK DEF MsgOK
  <2>2. Zero(type) = [f \in DOMAIN Zero(type) |-> Zero(type)[f]]
    <3> DEFINE N == Len(Fields(type))
    <3> DEFINE G(f) == CASE Fields(type)[f] = "text" -> <<>>
                         [] Fields(type)[f] = "bool" -> FALSE
                         [] Fields(type)[f] = "Params" -> ZeroParams
    <3>1. Zero(type) = [f \in 1 .. N |-> G(f)]
      BY DEF Zero
    <3> HIDE DEF G, N
    <3>2. PICK z : z = Zero(type)
      OBVIOUS
    <3>3. z = [f \in 1 .. N |-> G(f)]
      BY ONLY <3>1, <3>2
    <3>4. z = [f \in DOMAIN z |-> z[f]]
      BY ONLY <3>3
    <3> QED BY ONLY <3>2, <3>4
  <2> QED BY <2>1, <2>2
<1>4. Mixed(type, m, 1) = Zero(type)
  BY <1>1, <1>2, <1>3 DEF Mixed
<1>5. Mixed(type, m, 5) = m
  BY <1>1, <1>2 DEF Mixed
<1>6. ASSUME NEW g \in 1 .. 4
      PROVE  /\ Mixed(type, m, g + 1) = [Mixed(type, m, g) EXCEPT ![g] = m[g]]
             /\ Part(type, m, g) = <<>> => Mixed(type, m, g + 1) = Mixed(type, m, g)
  <2>1. PICK z : z = Zero(type)
    OBVIOUS
  <2>2. /\ Mixed(type, m, g + 1) = [f \in D |-> IF f < g + 1 THEN m[f] ELSE z[f]]
        /\ Mixed(type, m, g) = [f \in D |-> IF f < g THEN m[f] ELSE z[f]]
    BY <1>1, <2>1 DEF Mixed
  <2>3. \A f \in D : f < g + 1 <=> (f < g \/ f = g)
    BY <1>2
  <2>4. Mixed(type, m, g + 1) = [Mixed(type, m, g) EXCEPT ![g] = m[g]]
    BY ONLY <2>2, <2>3
  <2>5. ASSUME Part(type, m, g) = <<>> PROVE Mixed(type, m, g + 1) = Mixed(type, m, g)
    <3>1. g \in D => m[g] = z[g]
      BY <1>1, <2>1, <2>5, EmptyPart
    <3>2. ~(g < g)
      BY <1>2
    <3> QED BY ONLY <2>2, <2>3, <3>1, <3>2
  <2> QED BY <2>4, <2>5
<1> QED BY <1>4, <1>5, <1>6

\* A call that reads a message.
Reads(c, m) ==
  /\ c.type \in Types /\ m \in Messages(c.type)
  /\ InSlice(c) /\ c.i \in 0 .. Length(c) /\ Length(c) \in 0 .. Half - 1

\* A field that was left out is passed over.
LEMMA PassOver ==
  ASSUME NEW c, NEW m, Reads(c, m), NEW g \in 1 .. 4, OnTrack(c, m, g),
         Part(c.type, m, g) = <<>>
  PROVE  OnTrack(c, m, g + 1)
<1>1. Rest(c.type, m, g) = Part(c.type, m, g) \o Rest(c.type, m, g + 1)
  BY RestFacts DEF Reads
<1>2. g + 1 \in 1 .. 5
  OBVIOUS
<1>3. Rest(c.type, m, g + 1) \in Seq(Octet)
  BY <1>2, RestFacts DEF Reads
<1>4. Rest(c.type, m, g) = Rest(c.type, m, g + 1)
  BY <1>1, <1>3, Concats
<1>5. Mixed(c.type, m, g) = Mixed(c.type, m, g + 1)
  BY MixedFacts DEF Reads
<1> QED BY <1>4, <1>5 DEF OnTrack

\* A call that stands before a field stands before one that was written, or it
\* has read the message.
LEMMA FindField ==
  ASSUME NEW c, NEW m, Reads(c, m), NEW g \in 1 .. 5, OnTrack(c, m, g)
  PROVE  \/ \E h \in 1 .. 4 : OnTrack(c, m, h) /\ Part(c.type, m, h) # <<>>
         \/ OnTrack(c, m, 5) /\ c.msg = m /\ c.i = Length(c)
<1> DEFINE Found == \E h \in 1 .. 4 : OnTrack(c, m, h) /\ Part(c.type, m, h) # <<>>
<1>1. ASSUME NEW h \in 1 .. 4, OnTrack(c, m, h) PROVE Found \/ OnTrack(c, m, h + 1)
  BY <1>1, PassOver
<1>2. OnTrack(c, m, 1) \/ OnTrack(c, m, 2) \/ OnTrack(c, m, 3) \/ OnTrack(c, m, 4)
      \/ OnTrack(c, m, 5)
  <2>1. g = 1 \/ g = 2 \/ g = 3 \/ g = 4 \/ g = 5
    OBVIOUS
  <2> QED BY <2>1
<1>3. Found \/ OnTrack(c, m, 5)
  <2>1. 1 \in 1 .. 4 /\ 2 \in 1 .. 4 /\ 3 \in 1 .. 4 /\ 4 \in 1 .. 4
        /\ 1 + 1 = 2 /\ 2 + 1 = 3 /\ 3 + 1 = 4 /\ 4 + 1 = 5
    OBVIOUS
  <2>2. /\ OnTrack(c, m, 1) => Found \/ OnTrack(c, m, 2)
        /\ OnTrack(c, m, 2) => Found \/ OnTrack(c, m, 3)
        /\ OnTrack(c, m, 3) => Found \/ OnTrack(c, m, 4)
        /\ OnTrack(c, m, 4) => Found \/ OnTrack(c, m, 5)
    <3> HIDE DEF Found
    <3> QED BY <1>1, <2>1
  <2> HIDE DEF Found
  <2> QED BY <1>2, <2>2
<1>4. OnTrack(c, m, 5) => c.msg = m /\ c.i = Length(c)
  <2>1. Rest(c.type, m, 5) = <<>> /\ Mixed(c.type, m, 5) = m
    BY RestFacts, MixedFacts DEF Reads
  <2>2. c.i \in Int /\ Length(c) \in Int
    BY DEF Reads
  <2> QED BY <2>1, <2>2, Concats DEF OnTrack
<1> QED BY <1>3, <1>4

(***************************************************************************)
(* A field that was written is read back.                                  *)
(***************************************************************************)
\* What follows a field's key: a flag, or its bytes behind their length.
Payload(type, m, f) == IF Fields(type)[f] = "text" THEN m[f] ELSE WriteParams(m[f])
Body(type, m, f) ==
  IF Fields(type)[f] = "bool" THEN <<1>>
  ELSE encodeVarint(Len(Payload(type, m, f))) \o Payload(type, m, f)
KeyType(type, f) == IF Fields(type)[f] = "bool" THEN 0 ELSE 2

\* A field that is written has a key and a body.
LEMMA FieldBytes ==
  ASSUME NEW type \in Types, NEW m \in Messages(type), NEW f \in 1 .. 4,
         Part(type, m, f) # <<>>
  PROVE  /\ f \in DOMAIN Fields(type)
         /\ Part(type, m, f) = <<8 * f + KeyType(type, f)>> \o Body(type, m, f)
         /\ Body(type, m, f) \in Seq(Octet)
         /\ Fields(type)[f] = "bool" => m[f] = TRUE
         /\ Fields(type)[f] # "bool" =>
              /\ Payload(type, m, f) \in Seq(Octet)
              /\ Len(Payload(type, m, f)) \in 0 .. Half - 1
              /\ encodeVarint(Len(Payload(type, m, f))) \in Seq(Octet)
              /\ Len(encodeVarint(Len(Payload(type, m, f)))) = sov(Len(Payload(type, m, f)))
              /\ sov(Len(Payload(type, m, f))) \in Nat
<1>1. f \in DOMAIN Fields(type)
  BY DEF Part
<1>2. FieldOK(Fields(type)[f], m[f])
  BY <1>1, MessageFields
<1>3. CASE Fields(type)[f] = "bool"
  <2>1. m[f] \in BOOLEAN /\ BoolField(f, m[f]) # <<>>
    BY <1>1, <1>2, <1>3 DEF FieldOK, Part
  <2>2. m[f] = TRUE
    BY <2>1, BoolFacts
  <2>3. Part(type, m, f) = <<8 * f, 1>>
    BY <1>1, <1>3, <2>2 DEF Part, BoolField
  <2>4. 8 * f + 0 = 8 * f /\ KeyType(type, f) = 0 /\ Body(type, m, f) = <<1>>
    BY <1>3 DEF KeyType, Body
  <2>5. \A x, y : <<x>> \o <<y>> = <<x, y>>
    BY JoinTwo
  <2>6. <<1>> \in Seq(Octet)
    <3>1. 1 \in Octet
      BY Widths DEF Octet
    <3> QED BY <3>1
  <2> QED BY <1>1, <1>3, <2>2, <2>3, <2>4, <2>5, <2>6
<1>4. CASE Fields(type)[f] # "bool"
  <2>1. PICK s : s = Payload(type, m, f)
    OBVIOUS
  <2>2. s \in Seq(Octet) /\ Len(s) < Half /\ Part(type, m, f) = Delimited(f, s)
    <3>1. CASE Fields(type)[f] = "text"
      <4>1. m[f] \in Text /\ s = m[f] /\ TextField(f, s) # <<>>
        BY <1>1, <1>2, <2>1, <3>1 DEF FieldOK, Part, Payload
      <4>2. TextField(f, s) = Delimited(f, s)
        BY <4>1 DEF TextField
      <4> QED BY <1>1, <3>1, <4>1, <4>2 DEF Part, Text
    <3>2. CASE Fields(type)[f] = "Params"
      <4>1. m[f] \in Plain /\ s = WriteParams(m[f])
        BY <1>2, <2>1, <3>2 DEF FieldOK, Payload
      <4>2. s \in Seq(Octet) /\ Len(s) < Half
        BY <4>1, ParamsWritten DEF Plain
      <4>3. Part(type, m, f) = Delimited(f, s)
        BY <1>1, <3>2, <4>1 DEF Part
      <4> QED BY <4>2, <4>3
    <3> QED BY <1>2, <1>4, <3>1, <3>2 DEF FieldOK
  <2>3. Len(s) \in 0 .. Half - 1
    BY <2>2, Concats, Widths
  <2>4. /\ Delimited(f, s) = <<8 * f + 2>> \o (encodeVarint(Len(s)) \o s)
        /\ encodeVarint(Len(s)) \in Seq(Octet) /\ Len(encodeVarint(Len(s))) = sov(Len(s))
        /\ sov(Len(s)) \in Nat
    BY <2>2, DelimitedFacts
  <2>5. Body(type, m, f) = encodeVarint(Len(s)) \o s /\ KeyType(type, f) = 2
    BY <1>4, <2>1 DEF Body, KeyType
  <2>6. encodeVarint(Len(s)) \o s \in Seq(Octet)
    BY <2>2, <2>4, Concats
  <2> QED BY ONLY <1>1, <1>4, <2>1, <2>2, <2>3, <2>4, <2>5, <2>6
<1> QED BY <1>3, <1>4

\* A call that stands before a field that was written has its key next, then its
\* body, then the fields after it.
LEMMA FieldStands ==
  ASSUME NEW c, NEW m, Reads(c, m), NEW g \in 1 .. 4, OnTrack(c, m, g),
         Part(c.type, m, g) # <<>>, NEW body, body = Body(c.type, m, g)
  PROVE  /\ c.i < Length(c) /\ c.i + 1 + Len(body) <= Length(c) /\ Len(body) \in Nat
         /\ Stands(c, c.i, <<8 * g + KeyType(c.type, g)>>)
         /\ Stands(c, c.i + 1, body)
         /\ Stands(c, c.i + 1 + Len(body), Rest(c.type, m, g + 1))
         /\ c.i + 1 + Len(body) + Len(Rest(c.type, m, g + 1)) = Length(c)
<1>1. PICK k, r, w : k = <<8 * g + KeyType(c.type, g)>> /\ r = Rest(c.type, m, g + 1)
                     /\ w = Rest(c.type, m, g)
  OBVIOUS
<1>2. c.type \in Types /\ m \in Messages(c.type) /\ c.i \in Nat /\ Length(c) \in Int
  BY DEF Reads
<1>3. body \in Seq(Octet) /\ Part(c.type, m, g) = k \o body
  BY <1>1, <1>2, FieldBytes
<1>4. k \in Seq(Octet) /\ Len(k) = 1
  <2>1. KeyType(c.type, g) \in {0, 2}
    BY DEF KeyType
  <2>2. k \in Seq(Octet)
    BY <1>1, <2>1, KeyFacts
  <2> QED BY <1>1, <2>2
<1>5. r \in Seq(Octet)
  <2>1. g + 1 \in 1 .. 5
    OBVIOUS
  <2> QED BY <1>1, <1>2, <2>1, RestFacts
<1>6. w = k \o (body \o r) /\ body \o r \in Seq(Octet)
  <2>1. w = (k \o body) \o r
    BY <1>1, <1>2, <1>3, RestFacts
  <2>2. (k \o body) \o r = k \o (body \o r) /\ body \o r \in Seq(Octet)
    BY ONLY <1>3, <1>4, <1>5, Concats
  <2> QED BY <2>1, <2>2
<1>7. Stands(c, c.i, w) /\ c.i + Len(w) = Length(c)
  BY <1>1 DEF OnTrack
<1>8. Stands(c, c.i, k) /\ Stands(c, c.i + 1, body \o r)
  BY <1>2, <1>4, <1>6, <1>7, StandsJoin
<1>9. c.i + 1 \in Nat
  BY <1>2
<1>10. Stands(c, c.i + 1, body) /\ Stands(c, c.i + 1 + Len(body), r)
  BY <1>2, <1>3, <1>5, <1>8, <1>9, StandsJoin
<1>11. Len(body) \in Nat /\ Len(r) \in Nat /\ Len(w) = 1 + (Len(body) + Len(r))
  <2>1. Len(body) \in Nat /\ Len(r) \in Nat /\ Len(body \o r) = Len(body) + Len(r)
    BY ONLY <1>3, <1>5, Concats
  <2>2. Len(w) = Len(k) + Len(body \o r)
    BY ONLY <1>4, <1>6, Concats
  <2> QED BY ONLY <1>4, <2>1, <2>2
<1>12. c.i < Length(c) /\ c.i + 1 + Len(body) <= Length(c)
       /\ c.i + 1 + Len(body) + Len(r) = Length(c)
  BY ONLY <1>2, <1>7, <1>11
<1> QED BY <1>1, <1>8, <1>10, <1>11, <1>12

\* Its key is read.
LEMMA KeyRead ==
  ASSUME input \in Inputs, NEW c, NEW m, Reads(c, m), NEW g \in 1 .. 4,
         OnTrack(c, m, g), Part(c.type, m, g) # <<>>
  PROVE  /\ Varint(c, c.i).err = "nil" /\ Varint(c, c.i).next = c.i + 1
         /\ FieldNum(Varint(c, c.i).val) = g
         /\ WireType(Varint(c, c.i).val) = KeyType(c.type, g)
<1>1. PICK t \in {0, 2} : t = KeyType(c.type, g)
  BY DEF KeyType
<1>2. PICK w : w = 8 * g + t
  OBVIOUS
<1>3. w \in 0 .. Word - 1 /\ sov(w) = 1 /\ encodeVarint(w) = <<w>>
      /\ FieldNum(w) = g /\ WireType(w) = t
  BY <1>2, KeyFacts
<1>4. Stands(c, c.i, <<w>>)
  BY <1>1, <1>2, FieldStands
<1>5. InSlice(c) /\ c.i \in Nat
  BY DEF Reads
<1>6. Varint(c, c.i) = [err |-> "nil", val |-> w, next |-> c.i + sov(w)]
  BY <1>3, <1>4, <1>5, VarintRead
<1> QED BY <1>1, <1>3, <1>6

\* Bytes behind their length are accepted, and are those that were written.
LEMMA BytesRead ==
  ASSUME input \in Inputs, NEW c, InSlice(c), Length(c) \in 0 .. Half - 1,
         NEW i \in Nat, NEW s \in Seq(Octet), Len(s) \in 0 .. Half - 1,
         Stands(c, i, encodeVarint(Len(s)) \o s)
  PROVE  \E n \in Nat :
           /\ Len(encodeVarint(Len(s)) \o s) = n + Len(s)
           /\ i + n + Len(s) <= Length(c)
           /\ Varint(c, i) = [err |-> "nil", val |-> Len(s), next |-> i + n]
           /\ PostIndex(c, i + n, Signed(Len(s))) = [err |-> "nil", at |-> i + n + Len(s)]
           /\ Stands(c, i + n, s)
<1>1. PICK l \in 0 .. Half - 1 : l = Len(s)
  OBVIOUS
<1>2. l \in 0 .. Word - 1
  BY Widths
<1>3. PICK e, n : e = encodeVarint(l) /\ n = sov(l)
  OBVIOUS
<1>4. n \in Nat /\ e \in Seq(Octet) /\ Len(e) = n
  BY <1>2, <1>3, EncodeFacts, SovFacts, Widths
<1>5. Stands(c, i, e) /\ Stands(c, i + n, s)
  <2>1. Stands(c, i, e \o s)
    BY <1>1, <1>3
  <2>2. Length(c) \in Int
    OBVIOUS
  <2>3. Stands(c, i, e) /\ Stands(c, i + Len(e), s)
    BY <1>4, <2>1, <2>2, StandsJoin
  <2> QED BY <1>4, <2>3
<1>6. Varint(c, i) = [err |-> "nil", val |-> l, next |-> i + n]
  BY <1>2, <1>3, <1>5, VarintRead
<1>7. i + n + l <= Length(c)
  BY <1>1, <1>5 DEF Stands
<1>8. Signed(l) = l
  BY Widths DEF Signed, Half
<1>9. Add(i + n, l) = i + n + l
  BY <1>4, <1>7, Widths DEF Add, Signed, Half
<1>10. PostIndex(c, i + n, l) = [err |-> "nil", at |-> i + n + l]
  <2>1. ~(l < 0) /\ ~(i + n + l < 0) /\ ~(i + n + l > Length(c))
    BY <1>4, <1>7
  <2> QED BY <1>9, <2>1 DEF PostIndex
<1>11. Len(e \o s) = n + l
  BY <1>1, <1>4, Concats
<1> QED BY <1>1, <1>3, <1>4, <1>5, <1>6, <1>7, <1>8, <1>10, <1>11

\* Bytes that stand in a slice are what is taken from it.
LEMMA Taken ==
  ASSUME input \in Inputs, NEW c, InSlice(c), NEW i \in Nat, NEW s \in Seq(Octet),
         Stands(c, i, s)
  PROVE  SubSeq(input.bytes, c.lo + i + 1, c.lo + (i + Len(s))) = s
<1>1. PICK b : b = input.bytes
  OBVIOUS
<1>2. b \in Seq(Octet) /\ Len(b) \in Nat
  BY <1>1, WireAssumption DEF Octet
<1>3. c.lo \in Nat /\ c.hi \in Nat /\ c.lo <= c.hi /\ c.hi <= Len(b)
  BY <1>1 DEF InSlice, Inside
<1>4. PICK l \in Nat : l = Len(s)
  BY Concats
<1>5. i + l <= c.hi - c.lo /\ \A k \in 1 .. l : At(c, i + k - 1) = s[k]
  BY <1>4 DEF Stands, Length
<1>6. PICK p, q : p = c.lo + i + 1 /\ q = c.lo + (i + l)
  OBVIOUS
<1>7. p \in 1 .. Len(b) + 1 /\ q \in p - 1 .. Len(b) /\ q - p + 1 = l
  <2>1. PICK lo \in Nat, hi \in Nat, n \in Nat :
          lo = c.lo /\ hi = c.hi /\ n = Len(b) /\ lo <= hi /\ hi <= n
    BY <1>2, <1>3
  <2>2. i + l <= hi - lo
    BY <1>5, <2>1
  <2>3. p = lo + i + 1 /\ q = lo + (i + l)
    BY <1>6, <2>1
  <2>4. \A x, y, u, v, w \in Nat :
          x <= u /\ u <= v /\ y + w <= u - x =>
            /\ x + y + 1 \in 1 .. v + 1 /\ x + (y + w) \in (x + y + 1) - 1 .. v
            /\ (x + (y + w)) - (x + y + 1) + 1 = w
    OBVIOUS
  <2>5. p \in 1 .. n + 1 /\ q \in p - 1 .. n /\ q - p + 1 = l
    <3>1. /\ i \in Nat /\ l \in Nat /\ lo \in Nat /\ hi \in Nat /\ n \in Nat
          /\ lo <= hi /\ hi <= n /\ i + l <= hi - lo
      BY <2>1, <2>2
    <3>2. /\ lo + i + 1 \in 1 .. n + 1 /\ lo + (i + l) \in (lo + i + 1) - 1 .. n
          /\ (lo + (i + l)) - (lo + i + 1) + 1 = l
      BY ONLY <2>4, <3>1
    <3> QED BY ONLY <2>3, <3>2
  <2> QED BY <2>1, <2>5
<1>8. PICK t : t = SubSeq(b, p, q)
  OBVIOUS
<1>9. \A k \in 1 .. l : b[p + k - 1] = s[k]
  <2>1. ASSUME NEW k \in 1 .. l PROVE b[p + k - 1] = s[k]
    <3>1. c.lo + (i + k - 1) + 1 = p + k - 1
      BY <1>3, <1>6
    <3> QED BY <1>1, <1>5, <3>1 DEF At
  <2> QED BY <2>1
<1>10. t \in Seq(Octet) /\ Len(t) = l /\ \A k \in 1 .. l : t[k] = b[p + k - 1]
  <2>1. /\ SubSeq(b, p, q) \in Seq(Octet)
        /\ Len(SubSeq(b, p, q)) = IF p <= q THEN q - p + 1 ELSE 0
        /\ \A k \in 1 .. q - p + 1 : SubSeq(b, p, q)[k] = b[p + k - 1]
    BY ONLY <1>2, <1>7, SubSeqProperties
  <2>2. p \in Int /\ q \in Int /\ (p <= q => q - p + 1 = l) /\ (~(p <= q) => l = 0)
    BY ONLY <1>2, <1>7, <1>4
  <2> QED BY ONLY <1>7, <1>8, <2>1, <2>2
<1>11. t = s
  <2>1. \A u, v \in Seq(Octet) :
          Len(u) = Len(v) /\ (\A k \in 1 .. Len(v) : u[k] = v[k]) => u = v
    OBVIOUS
  <2> QED BY <1>4, <1>9, <1>10, <2>1
<1> QED BY ONLY <1>1, <1>4, <1>6, <1>8, <1>11

(***************************************************************************)
(* Every step follows what was sent.                                       *)
(***************************************************************************)
\* What the innermost call reads: a message of its type.
LEMMA TopReads ==
  ASSUME WireInv, Sent(input), NEW m, Awaited(Top, Tail(stack), m)
  PROVE  Reads(Top, m)
<1>1. /\ CallOK(Top, Len(input.bytes)) /\ InSlice(Top) /\ Top.i \in 0 .. Length(Top)
      /\ Length(Top) \in 0 .. Half - 1
  BY InTop
<1>2. Top.type \in Types
  BY <1>1 DEF CallOK
<1>3. input.want \in Messages(input.type) /\ input.type \in Types
  BY InputFacts DEF Sent, WireInv
<1>4. CASE Tail(stack) = <<>> /\ Top.type = input.type /\ m = input.want
  BY <1>1, <1>2, <1>3, <1>4 DEF Reads
<1>5. CASE \E b : Tail(stack) = <<b>> /\ b.type = input.type /\ m = input.want[Top.field]
  <2>1. PICK b : Tail(stack) = <<b>> /\ b.type = input.type /\ m = input.want[Top.field]
    BY <1>5
  <2>2. Within(Top, b)
    <3>1. StackOK(stack, Len(input.bytes))
      BY DEF WireInv
    <3>2. \/ Tail(stack) = <<>>
          \/ \E d : Tail(stack) = <<d>> /\ Within(Top, d)
      BY <3>1, TopFacts DEF Top
    <3>3. \A x, y : <<x>> # <<>> /\ (<<x>> = <<y>> => x = y)
      OBVIOUS
    <3> QED BY <2>1, <3>2, <3>3
  <2>3. Top.type = "Params" /\ Top.field \in DOMAIN Fields(input.type)
        /\ Fields(input.type)[Top.field] = "Params"
    BY <2>1, <2>2 DEF Within, IsNested
  <2>4. FieldOK("Params", m)
    BY <1>3, <2>1, <2>3, MessageFields
  <2>5. m \in Messages(Top.type)
    BY <2>3, <2>4 DEF FieldOK, Messages
  <2> QED BY <1>1, <1>2, <2>5 DEF Reads
<1> QED BY <1>4, <1>5 DEF Awaited

\* The field that a call stands before once its key has been read.
LEMMA ValueAt ==
  ASSUME WireInv, Sent(input), mode = "value", NEW m, Track(Top, m),
         Awaited(Top, Tail(stack), m)
  PROVE  \E g \in 1 .. 4 :
           /\ OnTrack(Top, m, g) /\ Part(Top.type, m, g) # <<>>
           /\ g \in DOMAIN Fields(Top.type)
           /\ key.num = g /\ key.type = KeyType(Top.type, g) /\ key.next = Top.i + 1
<1>1. PICK g \in 1 .. 5 : OnTrack(Top, m, g) /\ AtKey(Top, m, g)
  BY DEF Track
<1>2. Top.type \in Types /\ m \in Messages(Top.type)
  BY TopReads DEF Reads
<1>3. g \in DOMAIN Fields(Top.type) /\ DOMAIN Fields(Top.type) \subseteq 1 .. 4
  BY <1>1, <1>2, MessageFields DEF AtKey
<1>4. key.num = g /\ key.type = KeyType(Top.type, g) /\ key.next = Top.i + 1
  BY <1>1 DEF AtKey, KeyType
<1>5. g \in 1 .. 4
  BY <1>3
<1> QED BY <1>1, <1>3, <1>4, <1>5 DEF AtKey

\* A value with a length is the payload that was written.
LEMMA ValueRead ==
  ASSUME WireInv, Sent(input), NEW m, Awaited(Top, Tail(stack), m), NEW g \in 1 .. 4,
         OnTrack(Top, m, g), Part(Top.type, m, g) # <<>>,
         key.type = KeyType(Top.type, g), key.next = Top.i + 1,
         Fields(Top.type)[g] # "bool", NEW s, s = Payload(Top.type, m, g)
  PROVE  /\ Value.err = "nil" /\ Value.from \in Nat /\ s \in Seq(Octet)
         /\ Value.to = Value.from + Len(s) /\ Value.to \in 0 .. Length(Top)
         /\ Stands(Top, Value.from, s)
         /\ Stands(Top, Value.to, Rest(Top.type, m, g + 1))
         /\ Value.to + Len(Rest(Top.type, m, g + 1)) = Length(Top)
<1>1. Reads(Top, m) /\ input \in Inputs
  BY TopReads DEF WireInv
<1>2. /\ InSlice(Top) /\ Length(Top) \in 0 .. Half - 1 /\ Top.i \in Nat
      /\ Top.type \in Types /\ m \in Messages(Top.type)
  BY <1>1 DEF Reads
<1>3. PICK body : body = encodeVarint(Len(s)) \o s
  OBVIOUS
<1>4. body = Body(Top.type, m, g) /\ s \in Seq(Octet) /\ Len(s) \in 0 .. Half - 1
  BY <1>2, <1>3, FieldBytes DEF Body
<1>5. /\ Stands(Top, Top.i + 1, body) /\ Len(body) \in Nat
      /\ Stands(Top, Top.i + 1 + Len(body), Rest(Top.type, m, g + 1))
      /\ Top.i + 1 + Len(body) + Len(Rest(Top.type, m, g + 1)) = Length(Top)
  BY <1>1, <1>4, FieldStands
<1>6. PICK i \in Nat : i = Top.i + 1
  BY <1>2
<1>7. PICK n \in Nat :
        /\ Len(body) = n + Len(s)
        /\ i + n + Len(s) <= Length(Top)
        /\ Varint(Top, i) = [err |-> "nil", val |-> Len(s), next |-> i + n]
        /\ PostIndex(Top, i + n, Signed(Len(s)))
             = [err |-> "nil", at |-> i + n + Len(s)]
        /\ Stands(Top, i + n, s)
  <2>1. Stands(Top, i, encodeVarint(Len(s)) \o s)
    BY <1>3, <1>5, <1>6
  <2> QED BY <1>1, <1>2, <1>3, <1>4, <2>1, BytesRead
<1>8. key.type = 2
  BY DEF KeyType
<1>9. Value.err = "nil" /\ Value.from = i + n /\ Value.to = i + n + Len(s)
  BY <1>6, <1>7, <1>8 DEF Value
<1>10. i + n + Len(s) = Top.i + 1 + Len(body) /\ i + n \in Nat
       /\ i + n + Len(s) \in 0 .. Length(Top)
  <2>1. PICK t \in Nat, u \in Nat, v \in Nat, w \in Nat :
          t = Top.i /\ u = Len(body) /\ v = Len(s) /\ w = Length(Top)
    BY <1>2, <1>4, <1>5
  <2>2. i = t + 1 /\ u = n + v /\ i + n + v <= w
    BY <1>6, <1>7, <2>1
  <2>3. i + n + v = t + 1 + u /\ i + n \in Nat /\ i + n + v \in 0 .. w
    BY <2>2
  <2> QED BY <2>1, <2>3
<1> QED BY <1>4, <1>5, <1>7, <1>9, <1>10

\* The input stays what it is.
LEMMA InputStays == Next => input' = input
BY DEF Next, ReadKey, ReadText, ReadBool, ReadMessage, Return, Unknown, SkipOne,
       SkipRunsOut, Fail, Proceed

\* What is read, and by whom, does not depend on the rest of the state.
LEMMA SameTrack ==
  ASSUME input' = input, NEW c, NEW m, NEW s
  PROVE  /\ \A g : OnTrack(c, m, g)' <=> OnTrack(c, m, g)
         /\ Awaited(c, s, m)' <=> Awaited(c, s, m)
<1>1. \A i, b, d : Stands(d, i, b)' <=> Stands(d, i, b)
  BY DEF Stands, At, Length
<1> QED BY <1>1 DEF OnTrack, Awaited, Waits, Length

\* The innermost call goes on behind the field it has read.
LEMMA OnToNext ==
  ASSUME WireInv, Sent(input), NEW m, Awaited(Top, Tail(stack), m), NEW g \in 1 .. 4,
         OnTrack(Top, m, g), NEW i \in 0 .. Length(Top),
         Stands(Top, i, Rest(Top.type, m, g + 1)),
         i + Len(Rest(Top.type, m, g + 1)) = Length(Top),
         Proceed(i, [Top.msg EXCEPT ![g] = m[g]])
  PROVE  ReadInv'
<1>1. PICK msg, x : msg = [Top.msg EXCEPT ![g] = m[g]] /\ x = [Top EXCEPT !.i = i, !.msg = msg]
  OBVIOUS
<1>2. stack' = <<x>> \o Tail(stack) /\ mode' = "fields" /\ input' = input
  BY <1>1 DEF Proceed
<1>3. x = [type |-> Top.type, lo |-> Top.lo, hi |-> Top.hi, i |-> i, msg |-> msg,
           field |-> Top.field]
  <2>1. CallOK(Top, Len(input.bytes))
    BY InTop
  <2> QED BY <1>1, <2>1, Moved DEF CallOK
<1>4. Head(<<x>> \o Tail(stack)) = x /\ Tail(<<x>> \o Tail(stack)) = Tail(stack)
  <2>1. \/ Tail(stack) = <<>> \/ \E b : Tail(stack) = <<b>>
    BY TopFacts DEF WireInv
  <2>2. \A u : <<u>> \o <<>> = <<u>> /\ Head(<<u>>) = u /\ Tail(<<u>>) = <<>>
    OBVIOUS
  <2>3. \A u, v : Head(<<u, v>>) = u /\ Tail(<<u, v>>) = <<v>>
    OBVIOUS
  <2>4. CASE Tail(stack) = <<>>
    BY ONLY <2>2, <2>4
  <2>5. CASE \E b : Tail(stack) = <<b>>
    <3>1. PICK b : Tail(stack) = <<b>>
      BY <2>5
    <3>2. <<x>> \o <<b>> = <<x, b>>
      BY JoinTwo
    <3> QED BY ONLY <2>3, <3>1, <3>2
  <2> QED BY <2>1, <2>4, <2>5
<1>5. msg = Mixed(Top.type, m, g + 1)
  <2>1. Top.type \in Types /\ m \in Messages(Top.type)
    BY TopReads DEF Reads
  <2>2. Top.msg = Mixed(Top.type, m, g)
    BY DEF OnTrack
  <2> QED BY <1>1, <2>1, <2>2, MixedFacts
<1>6. OnTrack(x, m, g + 1)
  BY <1>3, <1>5 DEF OnTrack, Stands, At, Length
<1>7. PICK t : t = Tail(stack)
  OBVIOUS
<1>8. Awaited(x, t, m)
  BY <1>3, <1>7 DEF Awaited
<1>9. Track(x, m)' /\ Awaited(x, t, m)'
  <2>1. g + 1 \in 1 .. 5 /\ mode' # "value"
    BY <1>2
  <2>2. OnTrack(x, m, g + 1)' /\ Awaited(x, t, m)'
    BY <1>2, <1>6, <1>8, SameTrack
  <2> QED BY <2>1, <2>2 DEF Track
<1>10. Top' = x /\ Tail(stack)' = t
  BY <1>2, <1>4, <1>7 DEF Top
<1> QED BY <1>2, <1>9, <1>10 DEF ReadInv

\* The key of the next field that was written is read, and is none that ends a
\* group or has no number.
LEMMA ReadKeySent ==
  ASSUME WireInv, Sent(input), ReadInv, ReadKey
  PROVE  ReadInv'
<1>1. PICK m : Track(Top, m) /\ Awaited(Top, Tail(stack), m)
  BY DEF ReadInv
<1>2. Reads(Top, m) /\ input \in Inputs
  BY <1>1, TopReads DEF WireInv
<1>3. PICK g \in 1 .. 4 : OnTrack(Top, m, g) /\ Part(Top.type, m, g) # <<>>
  <2>1. Top.i < Length(Top) /\ Top.i \in Int /\ Length(Top) \in Int
    BY <1>2 DEF ReadKey, Reads
  <2>2. Top.i # Length(Top)
    BY <2>1
  <2>3. PICK g \in 1 .. 5 : OnTrack(Top, m, g)
    BY <1>1 DEF Track
  <2> QED BY <1>2, <2>2, <2>3, FindField
<1>4. PICK v : v = Varint(Top, Top.i)
  OBVIOUS
<1>5. /\ v.err = "nil" /\ v.next = Top.i + 1 /\ FieldNum(v.val) = g
      /\ WireType(v.val) = KeyType(Top.type, g)
  BY <1>2, <1>3, <1>4, KeyRead
<1>6. KeyType(Top.type, g) # 4
  BY DEF KeyType
<1>7. ~(g <= 0)
  OBVIOUS
<1>8. /\ key' = [num |-> g, type |-> KeyType(Top.type, g), next |-> Top.i + 1]
      /\ mode' = "value" /\ UNCHANGED <<input, stack, skip, err>>
  BY <1>4, <1>5, <1>6, <1>7 DEF ReadKey
<1>9. PICK c, s : c = Top /\ s = Tail(stack)
  OBVIOUS
<1>10. g \in DOMAIN Fields(c.type)
  BY <1>2, <1>3, <1>9, FieldBytes DEF Reads
<1>11. OnTrack(c, m, g)' /\ Awaited(c, s, m)'
  BY <1>1, <1>3, <1>8, <1>9, SameTrack
<1>12. AtKey(c, m, g)'
  BY <1>3, <1>8, <1>9, <1>10 DEF AtKey, KeyType
<1>13. Track(c, m)'
  <2>1. g \in 1 .. 5
    OBVIOUS
  <2> QED BY <1>11, <1>12, <2>1 DEF Track
<1>14. Top' = c /\ Tail(stack)' = s
  BY <1>8, <1>9 DEF Top
<1> QED BY <1>8, <1>11, <1>13, <1>14 DEF ReadInv

\* A text is read as it was written.
LEMMA ReadTextSent ==
  ASSUME WireInv, Sent(input), ReadInv, ReadText
  PROVE  ReadInv'
<1>1. PICK m : Track(Top, m) /\ Awaited(Top, Tail(stack), m)
  BY DEF ReadInv
<1>2. mode = "value" /\ Fields(Top.type)[key.num] = "text"
  BY DEF ReadText, Case
<1>3. PICK g \in 1 .. 4 :
        /\ OnTrack(Top, m, g) /\ Part(Top.type, m, g) # <<>>
        /\ key.num = g /\ key.type = KeyType(Top.type, g) /\ key.next = Top.i + 1
  BY <1>1, <1>2, ValueAt
<1>4. PICK s : s = Payload(Top.type, m, g)
  OBVIOUS
<1>5. s = m[g]
  BY <1>2, <1>3, <1>4 DEF Payload
<1>6. PICK v : v = Value
  OBVIOUS
<1>7. /\ v.err = "nil" /\ v.from \in Nat /\ s \in Seq(Octet)
      /\ v.to = v.from + Len(s) /\ v.to \in 0 .. Length(Top)
      /\ Stands(Top, v.from, s)
      /\ Stands(Top, v.to, Rest(Top.type, m, g + 1))
      /\ v.to + Len(Rest(Top.type, m, g + 1)) = Length(Top)
  BY <1>1, <1>2, <1>3, <1>4, <1>6, ValueRead
<1>8. SubSeq(input.bytes, Top.lo + v.from + 1, Top.lo + v.to) = s
  <2>1. InSlice(Top) /\ input \in Inputs
    BY InTop DEF WireInv
  <2> QED BY <1>7, <2>1, Taken
<1>9. Proceed(v.to, [Top.msg EXCEPT ![g] = m[g]])
  BY <1>3, <1>5, <1>6, <1>7, <1>8 DEF ReadText
<1> QED BY <1>1, <1>3, <1>7, <1>9, OnToNext

\* A flag that was written is set.
LEMMA ReadBoolSent ==
  ASSUME WireInv, Sent(input), ReadInv, ReadBool
  PROVE  ReadInv'
<1>1. PICK m : Track(Top, m) /\ Awaited(Top, Tail(stack), m)
  BY DEF ReadInv
<1>2. mode = "value" /\ Fields(Top.type)[key.num] = "bool"
  BY DEF ReadBool, Case
<1>3. PICK g \in 1 .. 4 :
        /\ OnTrack(Top, m, g) /\ Part(Top.type, m, g) # <<>>
        /\ key.num = g /\ key.type = KeyType(Top.type, g) /\ key.next = Top.i + 1
  BY <1>1, <1>2, ValueAt
<1>4. Reads(Top, m) /\ input \in Inputs
  BY <1>1, TopReads DEF WireInv
<1>5. /\ InSlice(Top) /\ Length(Top) \in 0 .. Half - 1 /\ Top.i \in Nat
      /\ Top.type \in Types /\ m \in Messages(Top.type)
  BY <1>4 DEF Reads
<1>6. PICK body : body = <<1>>
  OBVIOUS
<1>7. m[g] = TRUE /\ key.type = 0 /\ body = Body(Top.type, m, g) /\ Len(body) = 1
  BY <1>2, <1>3, <1>5, <1>6, FieldBytes DEF KeyType, Body
<1>8. /\ Stands(Top, Top.i + 1, body)
      /\ Top.i + 1 + 1 <= Length(Top)
      /\ Stands(Top, Top.i + 1 + 1, Rest(Top.type, m, g + 1))
      /\ Top.i + 1 + 1 + Len(Rest(Top.type, m, g + 1)) = Length(Top)
  <2>1. /\ Stands(Top, Top.i + 1, body)
        /\ Top.i + 1 + Len(body) <= Length(Top)
        /\ Stands(Top, Top.i + 1 + Len(body), Rest(Top.type, m, g + 1))
        /\ Top.i + 1 + Len(body) + Len(Rest(Top.type, m, g + 1)) = Length(Top)
    <3>1. g \in 1 .. 4 /\ OnTrack(Top, m, g) /\ Part(Top.type, m, g) # <<>>
          /\ Reads(Top, m) /\ body = Body(Top.type, m, g)
      BY <1>3, <1>4, <1>7
    <3> QED BY ONLY <3>1, FieldStands
  <2> QED BY ONLY <1>7, <2>1
<1>9. PICK i \in Nat : i = Top.i + 1
  BY <1>5
<1>10. 1 \in 0 .. Word - 1 /\ sov(1) = 1 /\ encodeVarint(1) = body
  <2>1. 1 \in 0 .. Word - 1
    BY Widths
  <2>2. 1 \in 0 .. Base - 1
    <3>1. 8 * 1 + 0 \in 0 .. Base - 1
      BY KeyFacts
    <3>2. Base \in Nat
      BY Widths
    <3> QED BY <3>1, <3>2
  <2> QED BY <1>6, <2>1, <2>2, OneByte
<1>11. Varint(Top, key.next) = [err |-> "nil", val |-> 1, next |-> i + 1]
  <2>1. Stands(Top, i, encodeVarint(1))
    BY <1>8, <1>9, <1>10
  <2> QED BY <1>3, <1>4, <1>5, <1>9, <1>10, <2>1, VarintRead
<1>12. Proceed(i + 1, [Top.msg EXCEPT ![g] = m[g]])
  <2>1. Proceed(i + 1, [Top.msg EXCEPT ![g] = (1 # 0)])
    BY <1>3, <1>7, <1>11 DEF ReadBool
  <2>2. (1 # 0) = TRUE
    OBVIOUS
  <2>3. m[g] = TRUE
    BY <1>7
  <2> QED BY ONLY <2>1, <2>2, <2>3, Zenon
<1>13. i + 1 \in 0 .. Length(Top)
  BY <1>5, <1>8, <1>9
<1> QED BY <1>1, <1>3, <1>8, <1>9, <1>12, <1>13, OnToNext

\* A Params is read by a call on what was written of it, and its caller waits.
LEMMA ReadMessageSent ==
  ASSUME WireInv, Sent(input), ReadInv, ReadMessage
  PROVE  ReadInv'
<1>1. PICK m : Track(Top, m) /\ Awaited(Top, Tail(stack), m)
  BY DEF ReadInv
<1>2. mode = "value" /\ Fields(Top.type)[key.num] = "Params"
  BY DEF ReadMessage, Case
<1>3. PICK g \in 1 .. 4 :
        /\ OnTrack(Top, m, g) /\ Part(Top.type, m, g) # <<>>
        /\ g \in DOMAIN Fields(Top.type)
        /\ key.num = g /\ key.type = KeyType(Top.type, g) /\ key.next = Top.i + 1
  BY <1>1, <1>2, ValueAt
<1>4. Reads(Top, m) /\ input \in Inputs
  BY <1>1, TopReads DEF WireInv
<1>5. Top.type \in Types /\ m \in Messages(Top.type)
  BY <1>4 DEF Reads
<1>6. PICK c, p : c = Top /\ p = m[g]
  OBVIOUS
<1>7. p \in Plain /\ Payload(c.type, m, g) = WriteParams(p)
  <2>1. FieldOK("Params", p)
    BY <1>2, <1>3, <1>5, <1>6, MessageFields
  <2> QED BY <1>2, <1>3, <1>6, <2>1 DEF FieldOK, Payload
<1>8. PICK s, v : s = WriteParams(p) /\ v = Value
  OBVIOUS
<1>9. /\ v.err = "nil" /\ v.from \in Nat /\ s \in Seq(Octet)
      /\ v.to = v.from + Len(s) /\ v.to \in 0 .. Length(c)
      /\ Stands(c, v.from, s)
      /\ Stands(c, v.to, Rest(c.type, m, g + 1))
      /\ v.to + Len(Rest(c.type, m, g + 1)) = Length(c)
  BY <1>1, <1>2, <1>3, <1>6, <1>7, <1>8, ValueRead
<1>10. m = input.want /\ c.type = input.type /\ Tail(stack) = <<>> /\ stack = <<c>>
  <2>1. Top.type # "Params"
    BY <1>2, <1>3, ParamsFields DEF IsNested
  <2>2. \/ stack = <<Top>> /\ Tail(stack) = <<>>
        \/ \E b : stack = <<Top, b>> /\ Tail(stack) = <<b>> /\ Within(Top, b)
    BY TopFacts DEF WireInv, Top
  <2>3. stack = <<Top>> /\ Tail(stack) = <<>>
    BY <2>1, <2>2 DEF Within
  <2>4. \A b : <<>> # <<b>>
    OBVIOUS
  <2> QED BY <1>1, <1>6, <2>3, <2>4 DEF Awaited
<1>11. PICK x : x = Call("Params", c.lo + v.from, c.lo + v.to, Begin(c.msg[g]), g)
  OBVIOUS
<1>12. stack' = <<x, c>> /\ mode' = "fields" /\ input' = input
  BY <1>3, <1>6, <1>8, <1>9, <1>10, <1>11, JoinTwo DEF ReadMessage
<1>13. /\ x.type = "Params" /\ x.lo = c.lo + v.from /\ x.hi = c.lo + v.to /\ x.i = 0
       /\ x.msg = c.msg[g] /\ x.field = g
  BY <1>11 DEF Call, Begin
<1>14. c.lo \in Nat /\ c.hi \in Nat
  BY <1>4, <1>6 DEF Reads, InSlice, Inside
<1>15. Length(x) = Len(s) /\ Len(s) \in Nat
  <2>1. Len(s) \in Nat
    BY <1>9, Concats
  <2>2. x.hi - x.lo = (c.lo + (v.from + Len(s))) - (c.lo + v.from)
    BY ONLY <1>9, <1>13
  <2>3. \A l, f, k \in Nat : (l + (f + k)) - (l + f) = k
    OBVIOUS
  <2> QED BY ONLY <1>9, <1>14, <2>1, <2>2, <2>3 DEF Length
<1>16. x.msg = Mixed("Params", p, 1)
  <2>1. c.msg = Mixed(c.type, m, g)
    BY <1>3, <1>6 DEF OnTrack
  <2>2. Mixed(c.type, m, g)[g] = Zero(c.type)[g]
    BY <1>3, <1>6 DEF Mixed
  <2>3. Zero(c.type)[g] = ZeroParams
    <3>1. g \in 1 .. Len(Fields(c.type))
      BY <1>3, <1>5, <1>6, FieldsType
    <3> QED BY <1>2, <1>3, <1>6, <3>1 DEF Zero
  <2>4. ZeroParams = Zero("Params")
    <3>1. Fields("Params") = <<"text", "text", "bool", "text">>
      BY DEF Fields, UnmarshalParams
    <3> DEFINE G(f) == CASE Fields("Params")[f] = "text" -> <<>>
                         [] Fields("Params")[f] = "bool" -> FALSE
                         [] Fields("Params")[f] = "Params" -> ZeroParams
    <3>2. G(1) = <<>> /\ G(2) = <<>> /\ G(3) = FALSE /\ G(4) = <<>>
      <4>1. /\ Fields("Params")[1] = "text" /\ Fields("Params")[2] = "text"
            /\ Fields("Params")[3] = "bool" /\ Fields("Params")[4] = "text"
        BY <3>1
      <4>2. G(1) = <<>> /\ G(2) = <<>> /\ G(4) = <<>>
        BY ONLY <4>1
      <4>3. "text" # "bool" /\ "Params" # "bool"
        OBVIOUS
      <4>4. G(3) = FALSE
        BY ONLY <4>1, <4>3, Zenon
      <4> QED BY <4>2, <4>4
    <3>3. Zero("Params") = [f \in 1 .. 4 |-> G(f)]
      BY <3>1 DEF Zero
    <3> HIDE DEF G
    <3>4. [f \in 1 .. 4 |-> G(f)] = <<G(1), G(2), G(3), G(4)>>
      OBVIOUS
    <3> QED BY <3>2, <3>3, <3>4 DEF ZeroParams
  <2>5. Mixed("Params", p, 1) = Zero("Params")
    BY <1>7, MixedFacts DEF Types, Messages
  <2> QED BY <1>13, <2>1, <2>2, <2>3, <2>4, <2>5
<1>17. OnTrack(x, p, 1)
  <2>1. Rest("Params", p, 1) = s
    BY <1>7, <1>8, ParamsWritten DEF Plain
  <2>2. Stands(x, 0, s)
    <3>1. ASSUME NEW k \in 1 .. Len(s) PROVE At(x, 0 + k - 1) = s[k]
      <4>1. At(c, v.from + k - 1) = s[k]
        BY <1>9 DEF Stands
      <4>2. x.lo + (0 + k - 1) + 1 = c.lo + (v.from + k - 1) + 1
        BY <1>9, <1>13, <1>14, <1>15
      <4> QED BY <4>1, <4>2 DEF At
    <3>2. 0 + Len(s) <= Length(x)
      BY <1>15
    <3> QED BY <3>1, <3>2 DEF Stands
  <2>3. 0 + Len(s) = Length(x)
    BY <1>15
  <2> QED BY <1>13, <1>16, <2>1, <2>2, <2>3 DEF OnTrack
<1>18. Waits(c, input.want, x.field, x.hi - c.lo)
  <2>1. x.hi - c.lo = v.to
    BY <1>9, <1>13, <1>14
  <2> QED BY <1>3, <1>6, <1>9, <1>10, <1>13, <2>1 DEF Waits, OnTrack
<1>19. PICK t : t = <<c>>
  OBVIOUS
<1>20. Awaited(x, t, p)
  BY <1>6, <1>10, <1>13, <1>18, <1>19 DEF Awaited
<1>21. OnTrack(x, p, 1)' /\ Awaited(x, t, p)'
  BY <1>12, <1>17, <1>20, SameTrack
<1>22. Track(x, p)'
  <2>1. 1 \in 1 .. 5
    OBVIOUS
  <2> QED BY <1>12, <1>21, <2>1 DEF Track
<1>23. Top' = x /\ Tail(stack)' = t
  <2>1. \A u, w : Head(<<u, w>>) = u /\ Tail(<<u, w>>) = <<w>>
    OBVIOUS
  <2> QED BY <1>12, <1>19, <2>1 DEF Top
<1> QED BY <1>12, <1>21, <1>22, <1>23 DEF ReadInv

\* The loop ends when the message has been read; the caller goes on behind it.
LEMMA ReturnSent ==
  ASSUME WireInv, Sent(input), ReadInv, Return
  PROVE  ReadInv'
<1>1. PICK m : Track(Top, m) /\ Awaited(Top, Tail(stack), m)
  BY DEF ReadInv
<1>2. Reads(Top, m)
  BY <1>1, TopReads
<1>3. mode = "fields" /\ Top.i >= Length(Top) /\ Top.i \in Nat /\ Length(Top) \in Nat
  BY <1>2 DEF Return, Reads
<1>4. Top.msg = m /\ Top.i = Length(Top)
  <2>1. PICK g \in 1 .. 5 : OnTrack(Top, m, g)
    BY <1>1 DEF Track
  <2>2. ASSUME NEW h \in 1 .. 4, OnTrack(Top, m, h), Part(Top.type, m, h) # <<>>
        PROVE  FALSE
    <3>1. Top.i < Length(Top)
      BY <1>2, <2>2, FieldStands
    <3> QED BY <1>3, <3>1
  <2> QED BY <1>2, <2>1, <2>2, FindField
<1>5. CASE Tail(stack) = <<>>
  <2>1. mode' = "done" /\ err' = "nil" /\ UNCHANGED <<input, stack, key, skip>>
    BY <1>5 DEF Return, Fail
  <2>2. PICK c, s : c = Top /\ s = Tail(stack)
    OBVIOUS
  <2>3. Awaited(c, s, m)' /\ \A g : OnTrack(c, m, g) => OnTrack(c, m, g)'
    BY <1>1, <2>1, <2>2, SameTrack
  <2>4. Track(c, m)'
    BY <1>1, <2>1, <2>2, <2>3 DEF Track
  <2>5. Top' = c /\ Tail(stack)' = s
    BY <2>1, <2>2 DEF Top
  <2>6. m = input.want
    <3>1. \A b : <<>> # <<b>>
      OBVIOUS
    <3> QED BY <1>1, <1>5, <3>1 DEF Awaited
  <2> QED BY <1>4, <1>5, <2>1, <2>2, <2>3, <2>4, <2>5, <2>6 DEF ReadInv
<1>6. CASE Tail(stack) # <<>>
  <2>1. PICK b : /\ Tail(stack) = <<b>> /\ b.type = input.type
                 /\ m = input.want[Top.field]
                 /\ Waits(b, input.want, Top.field, Top.hi - b.lo)
    BY <1>1, <1>6 DEF Awaited
  <2>2. PICK h, at, want : h = Top.field /\ at = Top.hi - b.lo /\ want = input.want
    OBVIOUS
  <2>3. CallOK(b, Len(input.bytes)) /\ Within(Top, b)
    <3>1. \/ Tail(stack) = <<>>
          \/ \E d : /\ Tail(stack) = <<d>> /\ CallOK(d, Len(input.bytes))
                    /\ Within(Top, d)
      BY TopFacts DEF WireInv, Top
    <3>2. \A x, y : <<x>> = <<y>> => x = y
      OBVIOUS
    <3> QED BY <1>6, <2>1, <3>1, <3>2
  <2>4. want \in Messages(b.type) /\ b.type \in Types
    BY <2>1, <2>2, <2>3 DEF Sent, CallOK
  <2>5. h \in DOMAIN Fields(b.type) /\ h \in 1 .. 4
    BY <2>2, <2>3, <2>4, MessageFields DEF Within, IsNested
  <2>6. PICK x : x = [b EXCEPT !.i = Top.hi - b.lo, !.msg = [@ EXCEPT ![h] = Top.msg]]
    OBVIOUS
  <2>7. x = [type |-> b.type, lo |-> b.lo, hi |-> b.hi, i |-> at,
             msg |-> [b.msg EXCEPT ![h] = Top.msg], field |-> b.field]
    BY <2>2, <2>3, <2>6, Back DEF CallOK
  <2>8. stack' = <<x>> /\ mode' = "fields" /\ input' = input
    <3>1. \A u : Head(<<u>>) = u /\ Tail(<<u>>) = <<>> /\ <<u>> \o <<>> = <<u>>
      OBVIOUS
    <3>2. Head(Tail(stack)) = b /\ Tail(Tail(stack)) = <<>>
      BY ONLY <2>1, <3>1
    <3>3. stack' = <<x>> \o <<>> /\ UNCHANGED <<input, mode>>
      BY <1>6, <2>2, <2>6, <3>2 DEF Return
    <3>4. <<x>> \o <<>> = <<x>>
      BY ONLY <3>1
    <3> QED BY <1>3, <3>3, <3>4
  <2>9. /\ Stands(b, at, Rest(b.type, want, h + 1))
        /\ at + Len(Rest(b.type, want, h + 1)) = Length(b)
        /\ b.msg = Mixed(b.type, want, h)
    BY <2>1, <2>2 DEF Waits
  <2>10. x.msg = Mixed(b.type, want, h + 1)
    <3>1. Mixed(b.type, want, h + 1) = [Mixed(b.type, want, h) EXCEPT ![h] = want[h]]
      BY <2>4, <2>5, MixedFacts
    <3>2. Top.msg = want[h]
      BY <1>4, <2>1, <2>2
    <3> QED BY <2>7, <2>9, <3>1, <3>2
  <2>11. OnTrack(x, want, h + 1)
    BY <2>7, <2>9, <2>10 DEF OnTrack, Stands, At, Length
  <2>12. PICK t : t = <<>>
    OBVIOUS
  <2>13. Awaited(x, t, want)
    BY <2>1, <2>2, <2>7, <2>12 DEF Awaited
  <2>14. OnTrack(x, want, h + 1)' /\ Awaited(x, t, want)'
    BY <2>8, <2>11, <2>13, SameTrack
  <2>15. Track(x, want)'
    <3>1. h + 1 \in 1 .. 5
      BY <2>5
    <3> QED BY <2>8, <2>14, <3>1 DEF Track
  <2>16. Top' = x /\ Tail(stack)' = t
    <3>1. \A u : Head(<<u>>) = u /\ Tail(<<u>>) = <<>>
      OBVIOUS
    <3> QED BY <2>8, <2>12, <3>1 DEF Top
  <2> QED BY <2>8, <2>14, <2>15, <2>16 DEF ReadInv
<1> QED BY <1>5, <1>6

\* Decoding begins before the first field.
LEMMA InitSent == Init => ReadInv
<1>1. SUFFICES ASSUME Init, Sent(input) PROVE ReadInv
  BY DEF ReadInv
<1>2. PICK c, m : c = Top /\ m = input.want
  OBVIOUS
<1>3. stack = <<Call(input.type, 0, Len(input.bytes), Zero(input.type), 0)>>
      /\ mode = "fields" /\ input \in Inputs
  BY <1>1 DEF Init
<1>4. c = Call(input.type, 0, Len(input.bytes), Zero(input.type), 0) /\ Tail(stack) = <<>>
  <2>1. \A u : Head(<<u>>) = u /\ Tail(<<u>>) = <<>>
    OBVIOUS
  <2> QED BY <1>2, <1>3, <2>1 DEF Top
<1>5. /\ c.type = input.type /\ c.lo = 0 /\ c.hi = Len(input.bytes) /\ c.i = 0
      /\ c.msg = Zero(input.type)
  BY <1>4 DEF Call
<1>6. input.type \in Types /\ m \in Messages(input.type) /\ Len(input.bytes) \in Nat
      /\ input.bytes \in Seq(Octet)
  BY <1>1, <1>2, <1>3, InputFacts, WireAssumption DEF Sent, Octet
<1>7. PICK w : w = input.bytes
  OBVIOUS
<1>8. w = Rest(input.type, m, 1)
  BY <1>1, <1>2, <1>6, <1>7, MarshalledIsRest DEF Sent
<1>9. OnTrack(c, m, 1)
  <2>1. Stands(c, 0, w)
    <3>1. \A k \in 1 .. Len(w) : 0 + (0 + k - 1) + 1 = k
      BY <1>6, <1>7
    <3>2. \A k \in 1 .. Len(w) : At(c, 0 + k - 1) = w[k]
      BY <1>5, <1>7, <3>1 DEF At
    <3>3. 0 + Len(w) <= Length(c)
      BY <1>5, <1>6, <1>7 DEF Length
    <3> QED BY <3>2, <3>3 DEF Stands
  <2>2. 0 + Len(w) = Length(c)
    BY <1>5, <1>6, <1>7 DEF Length
  <2>3. c.msg = Mixed(c.type, m, 1)
    BY <1>5, <1>6, MixedFacts
  <2> QED BY <1>5, <1>8, <2>1, <2>2, <2>3 DEF OnTrack
<1>10. Track(c, m)
  <2>1. 1 \in 1 .. 5
    OBVIOUS
  <2> QED BY <1>3, <1>9, <2>1 DEF Track
<1>11. Awaited(c, Tail(stack), m)
  BY <1>2, <1>4, <1>5 DEF Awaited
<1> QED BY <1>2, <1>3, <1>10, <1>11 DEF ReadInv

\* No field is unknown, and skipTx is never called.
LEMMA NothingSkipped ==
  ASSUME WireInv, Sent(input), ReadInv
  PROVE  ~Unknown /\ ~SkipOne /\ ~SkipRunsOut
<1>1. ~SkipOne /\ ~SkipRunsOut
  BY DEF ReadInv, SkipOne, SkipRunsOut
<1>2. ASSUME Unknown PROVE FALSE
  <2>1. mode = "value" /\ key.num \notin DOMAIN Fields(Top.type)
    BY <1>2 DEF Unknown, Known
  <2>2. PICK m : Track(Top, m) /\ Awaited(Top, Tail(stack), m)
    BY DEF ReadInv
  <2> QED BY <2>1, <2>2, ValueAt
<1> QED BY <1>1, <1>2

\* Decoding follows what was sent.
LEMMA NextSent == WireInv /\ ReadInv /\ [Next]_vars => ReadInv'
<1>1. SUFFICES ASSUME WireInv, ReadInv, [Next]_vars PROVE ReadInv'
  OBVIOUS
<1>2. CASE UNCHANGED vars
  <2>1. UNCHANGED <<input, stack, key, skip, mode, err>>
    BY <1>2 DEF vars
  <2>2. \A c, m, s : Track(c, m)' <=> Track(c, m)
    <3>1. ASSUME NEW c, NEW m PROVE Track(c, m)' <=> Track(c, m)
      <4>1. \A g : OnTrack(c, m, g)' <=> OnTrack(c, m, g)
        BY <2>1, SameTrack
      <4>2. \A g : AtKey(c, m, g)' <=> AtKey(c, m, g)
        BY <2>1 DEF AtKey
      <4> QED BY <2>1, <4>1, <4>2 DEF Track
    <3> QED BY <3>1
  <2>3. ASSUME Sent(input), NEW m, Track(Top, m), Awaited(Top, Tail(stack), m)
        PROVE  Track(Top, m)' /\ Awaited(Top, Tail(stack), m)'
    <3>1. PICK c, s : c = Top /\ s = Tail(stack)
      OBVIOUS
    <3>2. Track(c, m)' /\ Awaited(c, s, m)'
      BY <2>1, <2>2, <2>3, <3>1, SameTrack
    <3>3. Top' = c /\ Tail(stack)' = s
      BY <2>1, <3>1 DEF Top
    <3> QED BY <3>2, <3>3
  <2>4. Top' = Top /\ Sent(input)' = Sent(input)
    BY <2>1 DEF Top
  <2> QED BY <1>1, <2>1, <2>3, <2>4 DEF ReadInv
<1>3. CASE Next
  <2>1. SUFFICES ASSUME Sent(input) PROVE ReadInv'
    BY <1>3, InputStays DEF ReadInv
  <2>2. CASE ReadKey
    BY <1>1, <2>1, <2>2, ReadKeySent
  <2>3. CASE ReadText
    BY <1>1, <2>1, <2>3, ReadTextSent
  <2>4. CASE ReadBool
    BY <1>1, <2>1, <2>4, ReadBoolSent
  <2>5. CASE ReadMessage
    BY <1>1, <2>1, <2>5, ReadMessageSent
  <2>6. CASE Return
    BY <1>1, <2>1, <2>6, ReturnSent
  <2> QED BY <1>1, <1>3, <2>1, <2>2, <2>3, <2>4, <2>5, <2>6, NothingSkipped DEF Next
<1> QED BY <1>1, <1>2, <1>3

\* The receiver understands what was sent: whatever Marshal and the wallet's
\* encoder write of a message, in any of its fields' values and for every width
\* of the integers, Unmarshal reads as that message, without an error.
THEOREM UnderstoodTheorem == Spec => [](Sent(input) => Understood)
<1>1. WireInv /\ ReadInv => (Sent(input) => Understood)
  <2>1. SUFFICES ASSUME WireInv, ReadInv, Sent(input), mode = "done" PROVE Understood
    BY DEF Understood
  <2>2. err = "nil" /\ Tail(stack) = <<>> /\ Top.msg = input.want /\ input.err = "nil"
    BY <2>1 DEF ReadInv, Sent
  <2>3. Len(stack) = 1
    <3>1. \/ stack = <<Top>>
          \/ \E b : stack = <<Top, b>> /\ Tail(stack) = <<b>>
      BY <2>1, TopFacts DEF WireInv, Top
    <3>2. (\A b : <<b>> # <<>>) /\ \A u : Len(<<u>>) = 1
      OBVIOUS
    <3> QED BY ONLY <2>2, <3>1, <3>2
  <2> QED BY <2>2, <2>3 DEF Understood
<1>2. Init => ReadInv
  BY InitSent
<1>3. Spec => []WireInv
  BY WireInvariant
<1>4. WireInv /\ ReadInv /\ [Next]_vars => ReadInv'
  BY NextSent
<1> QED BY <1>1, <1>2, <1>3, <1>4, PTL DEF Spec

=============================================================================

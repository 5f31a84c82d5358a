------------------------------ MODULE ProtoWire ------------------------------
(***************************************************************************)
(* The protobuf codec of x/stablecoin: what Marshal and the wallet's own   *)
(* encoder write, and Unmarshal as the loop it is, one field a step, with  *)
(* the widths of its integers as parameters (7, 64 and 32 in the code).    *)
(* A byte is a group of GroupBits bits, plus Base when more bytes follow.  *)
(* A message is the tuple of its fields; a text is a sequence of bytes.    *)
(***************************************************************************)
EXTENDS Integers, Sequences, FiniteSets

CONSTANTS
  GroupBits,  \* payload bits of a byte
  Width,      \* bits of uint64 and int
  ShortWidth, \* bits of int32
  Inputs      \* what may be received: [type, bytes, want, err]

\* 1 << n
Pow2[n \in Nat] == IF n = 0 THEN 1 ELSE 2 * Pow2[n - 1]
Base == Pow2[GroupBits]
Word == Pow2[Width]

Types == {"MsgMint", "MsgMintResponse", "MsgBurn", "MsgBurnResponse",
          "MsgUpdateParams", "MsgUpdateParamsResponse", "Params",
          "GenesisState", "QueryParamsRequest", "QueryParamsResponse", "Module"}

\* A slice has a length that is an int; the constant 8 is one too.
ASSUME WireAssumption ==
  /\ GroupBits \in Nat \ {0}
  /\ Width \in Nat /\ Width >= 5
  /\ ShortWidth \in Nat \ {0}
  /\ \A x \in Inputs : /\ x.type \in Types
                       /\ x.bytes \in Seq(0 .. 2 * Base - 1)
                       /\ Len(x.bytes) < Word \div 2

\* The keys of the fields, of which no message has more than four, fit in a byte.
ASSUME KeyAssumption == GroupBits >= 6 /\ Width >= 6 /\ ShortWidth >= 4

VARIABLES
  input,  \* the input being decoded
  stack,  \* calls of Unmarshal, the innermost first
  key,    \* the key just read: fieldNum, wireType, and the index after it
  skip,   \* the call of skipTx: where it is in its slice, and its depth
  mode,   \* "fields", "value", "skip" or "done"
  err     \* the error returned, "nil" if none

vars == <<input, stack, key, skip, mode, err>>

\* The loops over shift allow this many bytes.
Groups == (Width + GroupBits - 1) \div GroupBits

-----------------------------------------------------------------------------
(***************************************************************************)
(* Writing.                                                                *)
(***************************************************************************)
BitLen(x) ==
  CHOOSE k \in 0 .. Width : x < Pow2[k] /\ (k > 0 => x >= Pow2[k - 1])

\* Bytes of a varint: math_bits.Len64(x|1) rounded up to groups.
sov(x) == (BitLen(IF x = 0 THEN 1 ELSE x) + GroupBits - 1) \div GroupBits

encodeVarint(v) ==
  [k \in 1 .. sov(v) |-> ((v \div Pow2[GroupBits * (k - 1)]) % Base)
                           + (IF v >= Pow2[GroupBits * k] THEN Base ELSE 0)]

\* A length-delimited field with its key; a text that is empty is left out.
Delimited(f, bytes) ==
  encodeVarint(8 * f + 2) \o encodeVarint(Len(bytes)) \o bytes
TextField(f, s) == IF s = <<>> THEN <<>> ELSE Delimited(f, s)
BoolField(f, b) == IF b THEN <<8 * f, 1>> ELSE <<>>

SizeDelimited(l) == 1 + l + sov(l)
SizeText(s) == IF s = <<>> THEN 0 ELSE SizeDelimited(Len(s))

\* Marshal fills a buffer of the computed size from its end and returns as
\* many bytes as it has written, from the front.
Marshal(size, written) ==
  LET gap == [k \in 1 .. size - Len(written) |-> 0]
  IN  IF Len(written) > size THEN <<>>
      ELSE SubSeq(gap \o written, 1, Len(written))

WriteMsgMint(m) == TextField(1, m[1]) \o TextField(2, m[2]) \o TextField(3, m[3])
SizeMsgMint(m) == SizeText(m[1]) + SizeText(m[2]) + SizeText(m[3])
MarshalMsgMint(m) == Marshal(SizeMsgMint(m), WriteMsgMint(m))

WriteMsgBurn(m) == TextField(1, m[1]) \o TextField(2, m[2]) \o TextField(3, m[3])
SizeMsgBurn(m) == SizeText(m[1]) + SizeText(m[2]) + SizeText(m[3])
MarshalMsgBurn(m) == Marshal(SizeMsgBurn(m), WriteMsgBurn(m))

WriteParams(p) == TextField(1, p[1]) \o TextField(2, p[2]) \o
                  BoolField(3, p[3]) \o TextField(4, p[4])
SizeParams(p) ==
  SizeText(p[1]) + SizeText(p[2]) + (IF p[3] THEN 2 ELSE 0) + SizeText(p[4])
MarshalParams(p) == Marshal(SizeParams(p), WriteParams(p))

\* Params inside another message is written even when it is all zero.
WriteMsgUpdateParams(m) == TextField(1, m[1]) \o Delimited(2, WriteParams(m[2]))
SizeMsgUpdateParams(m) == SizeText(m[1]) + SizeDelimited(SizeParams(m[2]))
MarshalMsgUpdateParams(m) ==
  Marshal(SizeMsgUpdateParams(m), WriteMsgUpdateParams(m))

WriteGenesisState(m) == Delimited(1, WriteParams(m[1]))
SizeGenesisState(m) == SizeDelimited(SizeParams(m[1]))
MarshalGenesisState(m) == Marshal(SizeGenesisState(m), WriteGenesisState(m))

WriteQueryParamsResponse(m) == Delimited(1, WriteParams(m[1]))
SizeQueryParamsResponse(m) == SizeDelimited(SizeParams(m[1]))
MarshalQueryParamsResponse(m) ==
  Marshal(SizeQueryParamsResponse(m), WriteQueryParamsResponse(m))

WriteModule(m) == TextField(1, m[1])
SizeModule(m) == SizeText(m[1])
MarshalModule(m) == Marshal(SizeModule(m), WriteModule(m))

\* The wallet's encoders, with the keys they are written with.
WalletField(tag, s) ==
  IF s = <<>> THEN <<>>
  ELSE encodeVarint(tag) \o encodeVarint(Len(s)) \o s
EncodeMsgMint(m) ==
  WalletField(10, m[1]) \o WalletField(18, m[2]) \o WalletField(26, m[3])
EncodeMsgBurn(m) ==
  WalletField(10, m[1]) \o WalletField(18, m[2]) \o WalletField(26, m[3])

-----------------------------------------------------------------------------
(***************************************************************************)
(* Reading.  The cases of the switch in each Unmarshal: what kind of field *)
(* each number is.                                                         *)
(***************************************************************************)
UnmarshalMsgMint == <<"text", "text", "text">>
UnmarshalMsgMintResponse == <<>>
UnmarshalMsgBurn == <<"text", "text", "text">>
UnmarshalMsgBurnResponse == <<>>
UnmarshalMsgUpdateParams == <<"text", "Params">>
UnmarshalMsgUpdateParamsResponse == <<>>
UnmarshalParams == <<"text", "text", "bool", "text">>
UnmarshalGenesisState == <<"Params">>
UnmarshalQueryParamsRequest == <<>>
UnmarshalQueryParamsResponse == <<"Params">>
UnmarshalModule == <<"text">>

Fields(type) ==
  CASE type = "MsgMint"                 -> UnmarshalMsgMint
    [] type = "MsgMintResponse"         -> UnmarshalMsgMintResponse
    [] type = "MsgBurn"                 -> UnmarshalMsgBurn
    [] type = "MsgBurnResponse"         -> UnmarshalMsgBurnResponse
    [] type = "MsgUpdateParams"         -> UnmarshalMsgUpdateParams
    [] type = "MsgUpdateParamsResponse" -> UnmarshalMsgUpdateParamsResponse
    [] type = "Params"                  -> UnmarshalParams
    [] type = "GenesisState"            -> UnmarshalGenesisState
    [] type = "QueryParamsRequest"      -> UnmarshalQueryParamsRequest
    [] type = "QueryParamsResponse"     -> UnmarshalQueryParamsResponse
    [] type = "Module"                  -> UnmarshalModule

ZeroParams == <<<<>>, <<>>, FALSE, <<>>>>
Zero(type) ==
  [f \in 1 .. Len(Fields(type)) |->
     CASE Fields(type)[f] = "text" -> <<>>
       [] Fields(type)[f] = "bool" -> FALSE
       [] Fields(type)[f] = "Params" -> ZeroParams]

\* A call of Unmarshal: the slice it works on, the index in it, the message
\* so far, and the field of the caller the message is.
Call(type, lo, hi, msg, field) ==
  [type |-> type, lo |-> lo, hi |-> hi, i |-> 0, msg |-> msg, field |-> field]

Top == Head(stack)
Length(c) == c.hi - c.lo
At(c, j) == input.bytes[c.lo + j + 1]

\* int arithmetic wraps around.
Signed(x) == IF x >= Word \div 2 THEN x - Word ELSE x
Add(i, n) == Signed(i + n)

\* The lengths a varint at index i may have, and the first of them.
Ends(c, i) ==
  {k \in 1 .. Groups : i + k <= Length(c) /\ At(c, i + k - 1) < Base}
First(S) == CHOOSE n \in S : \A k \in S : n <= k

\* What n bytes contribute: each is shifted by the groups before it.
Bits(c, i, n) ==
  LET part[k \in 0 .. n] ==
        IF k = 0 THEN 0
        ELSE part[k - 1]
               + (At(c, i + k - 1) % Base) * Pow2[GroupBits * (k - 1)]
  IN  part[n]

\* The varint at index i: more than Groups bytes are an overflow, bits beyond
\* the width are lost.
Varint(c, i) ==
  LET n == First(Ends(c, i))
  IN  IF Ends(c, i) # {} THEN
           [err |-> "nil", val |-> Bits(c, i, n) % Word, next |-> i + n]
      ELSE IF i + Groups <= Length(c) THEN [err |-> "overflow", val |-> 0, next |-> i]
      ELSE [err |-> "eof", val |-> 0, next |-> i]

WireType(wire) == wire % 8
\* int32(wire >> 3)
FieldNum(wire) ==
  LET x == (wire \div 8) % Pow2[ShortWidth]
  IN  IF x >= Pow2[ShortWidth - 1] THEN x - Pow2[ShortWidth] ELSE x

\* The index after the n bytes that begin at i, and what is wrong with it.
PostIndex_Unchecked(c, i, n) ==
  IF Add(i, n) > Length(c) THEN [err |-> "eof", at |-> i]
  ELSE [err |-> "nil", at |-> Add(i, n)]
PostIndex_Stays(c, i, n) ==
  IF n < 0 \/ Add(i, n) < 0 THEN [err |-> "length", at |-> i]
  ELSE IF Add(i, n) > Length(c) THEN [err |-> "eof", at |-> i]
  ELSE [err |-> "nil", at |-> i]
PostIndex(c, i, n) ==
  IF n < 0 \/ Add(i, n) < 0 THEN [err |-> "length", at |-> i]
  ELSE IF Add(i, n) > Length(c) THEN [err |-> "eof", at |-> i]
  ELSE [err |-> "nil", at |-> Add(i, n)]

Init ==
  /\ input \in Inputs
  /\ stack = <<Call(input.type, 0, Len(input.bytes), Zero(input.type), 0)>>
  /\ key = [num |-> 0, type |-> 0, next |-> 0]
  /\ skip = [n |-> 0, depth |-> 0]
  /\ mode = "fields"
  /\ err = "nil"

Fail(e) ==
  /\ mode' = "done"
  /\ err' = e
  /\ UNCHANGED <<input, stack, key, skip>>

\* The loop goes on at index i with the message msg.
Proceed(i, msg) ==
  /\ stack' = <<[Top EXCEPT !.i = i, !.msg = msg]>> \o Tail(stack)
  /\ mode' = "fields"
  /\ UNCHANGED <<input, key, skip, err>>

\* The key of the next field of the innermost message.
ReadKey ==
  LET v == Varint(Top, Top.i)
      k == [num |-> FieldNum(v.val), type |-> WireType(v.val), next |-> v.next]
  IN  /\ mode = "fields" /\ Top.i < Length(Top)
      /\ IF v.err # "nil" THEN Fail(v.err)
         ELSE IF k.type = 4 THEN Fail("endgroup")
         ELSE IF k.num <= 0 THEN Fail("tag")
         ELSE /\ key' = k
              /\ mode' = "value"
              /\ UNCHANGED <<input, stack, skip, err>>

Known == key.num \in DOMAIN Fields(Top.type)
Case(kind) == mode = "value" /\ Known /\ Fields(Top.type)[key.num] = kind

\* A length-delimited value: where it begins and ends.
Value ==
  LET v == Varint(Top, key.next)
      p == PostIndex(Top, v.next, Signed(v.val))
  IN  [err |-> IF key.type # 2 THEN "wiretype"
               ELSE IF v.err # "nil" THEN v.err ELSE p.err,
       from |-> v.next, to |-> p.at]

ReadText ==
  LET v == Value
  IN  /\ Case("text")
      /\ IF v.err # "nil" THEN Fail(v.err)
         ELSE Proceed(v.to, [Top.msg EXCEPT ![key.num] =
                SubSeq(input.bytes, Top.lo + v.from + 1, Top.lo + v.to)])

ReadBool ==
  LET v == Varint(Top, key.next)
  IN  /\ Case("bool")
      /\ IF key.type # 0 THEN Fail("wiretype")
         ELSE IF v.err # "nil" THEN Fail(v.err)
         ELSE Proceed(v.next, [Top.msg EXCEPT ![key.num] = (v.val # 0)])

\* m.Params.Unmarshal is called on what m.Params already holds.
Begin_Empty(msg) == <<>>
Begin_Reset(msg) == ZeroParams
Begin(msg) == msg
ReadMessage ==
  LET v == Value
  IN  /\ Case("Params")
      /\ IF v.err # "nil" THEN Fail(v.err)
         ELSE /\ stack' = <<Call("Params", Top.lo + v.from, Top.lo + v.to,
                                 Begin(Top.msg[key.num]), key.num)>> \o stack
              /\ mode' = "fields"
              /\ UNCHANGED <<input, key, skip, err>>

\* The loop of Unmarshal ends; the caller, if any, goes on after the slice.
Return ==
  /\ mode = "fields" /\ Top.i >= Length(Top)
  /\ IF Tail(stack) = <<>> THEN Fail("nil")
     ELSE LET caller == Head(Tail(stack))
          IN  /\ stack' = <<[caller EXCEPT
                               !.i = Top.hi - caller.lo,
                               !.msg = [@ EXCEPT ![Top.field] = Top.msg]]>>
                          \o Tail(Tail(stack))
              /\ UNCHANGED <<input, key, skip, mode, err>>

\* default: skipTx is called on the slice that begins with the key.
Unknown ==
  /\ mode = "value" /\ ~Known
  /\ mode' = "skip"
  /\ skip' = [n |-> 0, depth |-> 0]
  /\ UNCHANGED <<input, stack, key, err>>

\* One pass of the loop of skipTx.  Indices of its slice begin at Top.i.
SkipRest == Length(Top) - Top.i
SkipKey == Varint(Top, Top.i + skip.n)
SkipTo(type, i) ==
  LET v == Varint(Top, Top.i + i)
  IN  CASE type = 0 -> [err |-> v.err, at |-> v.next - Top.i]
        [] type = 1 -> [err |-> "nil", at |-> Add(i, 8)]
        [] type = 2 ->
             [err |-> IF v.err # "nil" THEN v.err
                      ELSE IF Signed(v.val) < 0 THEN "length" ELSE "nil",
              at |-> Add(v.next - Top.i, Signed(v.val))]
        [] type \in {3, 4} -> [err |-> "nil", at |-> i]
        [] type = 5 -> [err |-> "nil", at |-> Add(i, 4)]
        [] OTHER -> [err |-> "wiretype", at |-> i]

SkipDepth(type) ==
  skip.depth + (IF type = 3 THEN 1 ELSE IF type = 4 THEN -1 ELSE 0)

SkipOne ==
  LET type == WireType(SkipKey.val)
      to   == SkipTo(type, SkipKey.next - Top.i)
      post == PostIndex(Top, Top.i, to.at)
  IN  /\ mode = "skip" /\ skip.n < SkipRest
      /\ IF SkipKey.err # "nil" THEN Fail(SkipKey.err)
         ELSE IF type = 4 /\ skip.depth = 0 THEN Fail("endgroup")
         ELSE IF to.err # "nil" THEN Fail(to.err)
         ELSE IF to.at < 0 THEN Fail("length")
         ELSE IF SkipDepth(type) = 0 THEN
                IF post.err # "nil" THEN Fail(post.err)
                ELSE Proceed(post.at, Top.msg)
         ELSE /\ skip' = [n |-> to.at, depth |-> SkipDepth(type)]
              /\ UNCHANGED <<input, stack, key, mode, err>>

SkipRunsOut == mode = "skip" /\ skip.n >= SkipRest /\ Fail("eof")

Next ==
  \/ ReadKey
  \/ ReadText
  \/ ReadBool
  \/ ReadMessage
  \/ Return
  \/ Unknown
  \/ SkipOne
  \/ SkipRunsOut

Spec == Init /\ [][Next]_vars
FairSpec == Spec /\ WF_vars(Next)

-----------------------------------------------------------------------------
Errors == {"nil", "overflow", "eof", "length", "endgroup", "tag", "wiretype"}

\* The state has its type; Unmarshal calls itself at most once, for Params.
TypeOK ==
  /\ mode \in {"fields", "value", "skip", "done"}
  /\ err \in Errors
  /\ Len(stack) \in 1 .. 2
  /\ \A k \in 1 .. Len(stack) :
       /\ stack[k].type \in Types
       /\ DOMAIN stack[k].msg = DOMAIN Fields(stack[k].type)

\* No index is ever outside the slice it is used on, whatever the bytes and
\* however the lengths in them overflow: a slice of a nested message lies in
\* its caller's, behind the field's key.
InBounds ==
  /\ \A k \in 1 .. Len(stack) :
       LET c == stack[k]
       IN  0 <= c.lo /\ c.hi <= Len(input.bytes) /\ 0 <= c.i /\ c.i <= Length(c)
  /\ \A k \in 2 .. Len(stack) :
       /\ stack[k].lo + stack[k].i < stack[k - 1].lo
       /\ stack[k - 1].hi <= stack[k].hi
  /\ mode = "value" => Top.i < key.next /\ key.next <= Length(Top)
  /\ mode = "skip" => 0 <= skip.n /\ 0 <= skip.depth

\* The receiver understands what the sender meant: the bytes written by
\* Marshal and by the wallet's encoder, and any encoding of a newer or other
\* sender (fields in any order, again, unknown ones, groups, long varints),
\* give the message meant; cut short or ill-formed bytes give their error.
Understood ==
  mode = "done" =>
    /\ err = input.err
    /\ err = "nil" => Len(stack) = 1 /\ Top.msg = input.want

\* What makes the loops end, for any bytes: unless decoding is done, a step
\* brings the decoder to a later byte, or at the same byte back to the caller,
\* on from the key to the value and to skipTx, or skipTx to a later byte.
Position == Top.lo + Top.i
Moves ==
  \/ mode' = "done"
  \/ Position' > Position
  \/ Position' = Position /\ Len(stack') < Len(stack)
  \/ /\ stack' = stack
     /\ \/ mode = "fields" /\ mode' = "value"
        \/ mode = "value" /\ mode' = "skip"
        \/ mode = "skip" /\ mode' = "skip" /\ skip'.n > skip.n
MovesOn == [][Moves]_vars

\* Every pass of the two loops moves on, so that decoding comes to an end.
DecodingEnds == <>(mode = "done")
=============================================================================

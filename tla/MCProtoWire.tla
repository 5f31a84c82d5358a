---------------------------- MODULE MCProtoWire ----------------------------
(***************************************************************************)
(* Inputs of ProtoWire for TLC: what the two writers write, and lists of   *)
(* fields as any protobuf writer may write them, whole or cut short.       *)
(***************************************************************************)
EXTENDS ProtoWire, TLC

LOCAL INSTANCE SequencesExt

\* Texts of no, one and as many bytes as a length of one byte can tell, and
\* one more.
Text(n) == [k \in 1 .. n |-> (7 * k) % (2 * Base)]
Texts == {Text(n) : n \in {0, 1, Base - 1, Base}}
Short == {Text(0), Text(1)}
ParamsOf(S) == S \X S \X BOOLEAN \X S

Ok(type, bytes, msg) ==
  [type |-> type, bytes |-> bytes, want |-> msg, err |-> "nil"]

Written ==
  {Ok("MsgMint", MarshalMsgMint(m), m) : m \in Texts \X Texts \X Short} \cup
  {Ok("MsgBurn", MarshalMsgBurn(m), m) : m \in Texts \X Texts \X Short} \cup
  {Ok("MsgMint", EncodeMsgMint(m), m) : m \in Texts \X Texts \X Short} \cup
  {Ok("MsgBurn", EncodeMsgBurn(m), m) : m \in Texts \X Texts \X Short} \cup
  {Ok("Params", MarshalParams(p), p) : p \in ParamsOf(Short)} \cup
  {Ok("MsgUpdateParams", MarshalMsgUpdateParams(m), m) :
     m \in Texts \X ParamsOf(Short)} \cup
  {Ok("GenesisState", MarshalGenesisState(m), m) : m \in {<<p>> : p \in ParamsOf(Short)}} \cup
  {Ok("QueryParamsResponse", MarshalQueryParamsResponse(m), m) :
     m \in {<<p>> : p \in ParamsOf(Short)}} \cup
  {Ok("Module", MarshalModule(m), m) : m \in {<<s>> : s \in Texts}} \cup
  {Ok(t, <<>>, <<>>) : t \in {"MsgMintResponse", "MsgBurnResponse",
     "MsgUpdateParamsResponse", "QueryParamsRequest"}}

\* A varint written with one byte more than it needs.
Long(v) == <<v + Base, 0>>

\* A part of an input: its bytes, what it sets in the message, its error.
Sets(f, v, bytes) == [f |-> f, v |-> v, bytes |-> bytes, err |-> "nil"]
Other(bytes) == [f |-> 0, v |-> <<>>, bytes |-> bytes, err |-> "nil"]
Bad(e, bytes) == [f |-> 0, v |-> <<>>, bytes |-> bytes, err |-> e]

\* Unknown fields 6 and 7 of every wire type, nested groups.
Unknowns ==
  {Other(<<48, 5>>), Other(<<48>> \o Long(1)), Other(<<49, 1, 2, 3, 4, 5, 6, 7, 8>>),
   Other(<<50, 2, 10, 1>>), Other(<<53, 1, 2, 3, 4>>),
   Other(<<51, 51, 10, 1, 9, 52, 48, 1, 52>>)}

\* No end of a group was begun; field 0; field 1 of the wrong type; wire type
\* 7; too long a varint; a length that is negative, and one with which the
\* index overflows.
Bads ==
  {Bad("endgroup", <<52>>), Bad("tag", <<2, 1, 1>>), Bad("wiretype", <<8, 1>>),
   Bad("wiretype", <<55, 1>>), Bad("overflow", <<48>> \o [k \in 1 .. Groups |-> Base] \o <<1>>),
   Bad("overflow", [k \in 1 .. Groups |-> Base] \o <<1>>),
   Bad("length", <<10, Base, 4>>),
   Bad("length", <<10, Base + Base - 1, 3>>),
   Bad("length", <<50, Base + Base - 1, 7>>),
   Bad("length", <<50, Base + Base - 1, 3>>)}

Textual ==
  {Sets(f, v, Delimited(f, v)) : f \in {1, 2}, v \in Short} \cup
  {Sets(1, Text(1), Long(10) \o Long(1) \o Text(1))}

\* The message the parts of an input make of msg.
Merge(msg, parts) ==
  FoldLeft(LAMBDA m, p : IF p.f = 0 THEN m ELSE [m EXCEPT ![p.f] = p.v],
           msg, parts)
Bytes(parts) == FlattenSeq([k \in 1 .. Len(parts) |-> parts[k].bytes])

\* All parts but the last are sound; the last is cut by c bytes.
Parts(S) == UNION {{ps \o <<p>> : ps \in UNION {[1 .. n -> S] : n \in 0 .. 1},
                                  p \in S \cup Bads}}
InputsOf(type, S) ==
  {LET l == Last(ps)
       e == IF l.err # "nil" THEN l.err ELSE IF c > 0 THEN "eof" ELSE "nil"
       b == Bytes(ps)
   IN  [type |-> type, bytes |-> SubSeq(b, 1, Len(b) - c),
        want |-> Merge(Zero(type), ps), err |-> e] :
   ps \in Parts(S), c \in {0}} \cup
  {LET b == Bytes(x[1])
   IN  [type |-> type, bytes |-> SubSeq(b, 1, Len(b) - x[2]),
        want |-> Zero(type), err |-> "eof"] :
   x \in {<<ps, c>> \in {q \in Parts(S) : Last(q).err = "nil"} \X (1 .. 8) :
            c < Len(Last(ps).bytes)}}

MintInputs == InputsOf("MsgMint", Textual \cup Unknowns)

\* Params in pieces: in MsgUpdateParams a second one is merged into the first.
Pieces == {<<>>} \cup {<<p>> : p \in
  {Sets(3, TRUE, <<24, 1>>), Sets(3, TRUE, <<24>> \o Long(2)),
   Sets(3, FALSE, <<24, 0>>), Sets(4, Text(1), Delimited(4, Text(1)))} \cup
  {Sets(1, Text(1), Delimited(1, Text(1))), Other(<<48, 5>>)}}
Nested(ps, f) ==
  [bytes |-> Delimited(f, Bytes(ps)), parts |-> ps]
UpdateInputs ==
  {LET a == Nested(ps, 2) b == Nested(qs, 2)
   IN  [type |-> "MsgUpdateParams", bytes |-> a.bytes \o u.bytes \o b.bytes,
        want |-> Merge([Zero("MsgUpdateParams") EXCEPT
                          ![2] = Merge(Merge(ZeroParams, ps), qs)], <<u>>),
        err |-> "nil"] :
   ps \in Pieces, qs \in Pieces,
   u \in {Other(<<>>)} \cup {t \in Textual : t.f = 1} \cup Unknowns}

MCInputs == Written \cup MintInputs \cup UpdateInputs
=============================================================================

------------------------------ MODULE StbTypes ------------------------------
(***************************************************************************)
(* The data the stablecoin module works on: decimal texts, bech32 address  *)
(* texts, denominations and the module parameters, with the conversions    *)
(* the handlers apply to them (x/stablecoin/types).                        *)
(***************************************************************************)
EXTENDS Integers, FiniteSets

CONSTANTS
  Acct,         \* accounts: the byte addresses
  NoAcct,       \* what a text that is no bech32 address decodes to
  Denom,        \* denominations sdk.NewCoin accepts
  OddDenom,     \* non-blank texts that sdk.NewCoin refuses (it panics)
  BlankDenom,   \* the blank denomination text
  IntLimit,     \* largest math.Int: 2^256 - 1 in the code
  Absent        \* what reading a key that is not in the store gives

ASSUME TypesAssumption ==
  /\ NoAcct \notin Acct
  /\ Denom \cap OddDenom = {}
  /\ BlankDenom \notin Denom \cup OddDenom
  /\ IntLimit \in Nat \ {0}

\* NewCoin accepts texts of at most 128 characters.
ASSUME DenomAssumption == IsFiniteSet(Denom)

-----------------------------------------------------------------------------
(***************************************************************************)
(* Decimal texts.  A text is well formed or not (wf); a well-formed text   *)
(* denotes n, which need not fit a math.Int.                               *)
(***************************************************************************)
Numeral == [wf : BOOLEAN, n : Int]
Text(n) == [wf |-> TRUE, n |-> n]
BadNumeral == [wf |-> FALSE, n |-> 0]

\* math.NewIntFromString: the boolean result, then the value when it is true.
IntOK(t) == t.wf /\ -IntLimit <= t.n /\ t.n <= IntLimit
NewIntFromString(t) == t.n

IsPositiveInt_AnySign(t) == IntOK(t)
IsPositiveInt(t) == IntOK(t) /\ NewIntFromString(t) > 0

-----------------------------------------------------------------------------
(***************************************************************************)
(* Address texts.  Bech32 lets the same bytes be written in lower and in   *)
(* upper case, so two texts that differ may decode to one account.         *)
(***************************************************************************)
AddrText == [acct : Acct \cup {NoAcct}, form : {"lower", "upper"}]
AddrOf(a) == [acct |-> a, form |-> "lower"]
BadAddr == AddrOf(NoAcct)

\* sdk.AccAddressFromBech32: the account, NoAcct for an error.
AccAddressFromBech32(t) == t.acct

-----------------------------------------------------------------------------
DenomText == Denom \cup OddDenom \cup {BlankDenom}

Params == [issuer     : AddrText,
           denom      : DenomText,
           paused     : BOOLEAN,
           max_supply : Numeral]

ASSUME AbsentAssumption == Absent \notin Params /\ Absent \notin Numeral

\* The Go zero value: what an empty JSON object in the genesis decodes to.
ZeroParams == [issuer |-> BadAddr, denom |-> BlankDenom,
               paused |-> FALSE, max_supply |-> BadNumeral]

\* Params.Validate returns nil.
Validate(p) ==
  /\ p.denom # BlankDenom
  /\ AccAddressFromBech32(p.issuer) # NoAcct
  /\ IsPositiveInt(p.max_supply)
=============================================================================

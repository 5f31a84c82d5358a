-------------------------- MODULE MCWalletSession --------------------------
(***************************************************************************)
(* Small instances of WalletSession for TLC.                               *)
(***************************************************************************)
EXTENDS WalletSession, TLC

CONSTANTS iss, tst, module, gov, fees   \* accounts
CONSTANT ustb                           \* the denomination

MCAcct == {iss, tst, module, gov, fees}

Live == [issuer |-> AddrOf(iss), denom |-> ustb, paused |-> FALSE,
         max_supply |-> Text(4)]
Paused == [Live EXCEPT !.paused = TRUE]

\* The issuer holds two minted coins, the test account none; a fee is one.
Started ==
  [params |-> Live, total |-> Text(2),
   bal    |-> [a \in MCAcct |-> [d \in {ustb} |-> IF a = iss THEN 2 ELSE 0]],
   supply |-> [d \in {ustb} |-> 2]]
Stores == {Started}
Pauses == {Paused}
Keys == {iss, tst}
Typed == {tst, fees, NoAcct}
BurnElsewhere == {[op |-> "burn", from |-> iss, peer |-> tst, n |-> 1]}
=============================================================================

------------------------- MODULE MCStablecoinChain -------------------------
(***************************************************************************)
(* Small instances of StablecoinChain for TLC.                             *)
(***************************************************************************)
EXTENDS StablecoinChain, TLC

CONSTANTS iss, usr, module, gov, fees   \* accounts
CONSTANTS ustb, stake, odd              \* denominations

MCAcct == {iss, usr, module, gov, fees}
MCDenom == {ustb, stake}

Upper(a) == [acct |-> a, form |-> "upper"]

P(issuer, d, paused, max) == [issuer |-> issuer, denom |-> d,
                              paused |-> paused, max_supply |-> Text(max)]

\* The issuer is the account iss, the cap is 2; governance may pause, move the
\* role (to another account, to another spelling, to itself), lower or raise
\* the cap, take an odd denomination, or try invalid parameters.
Standard == P(AddrOf(iss), ustb, FALSE, 2)
Paused == [Standard EXCEPT !.paused = TRUE]
Lowered == [Standard EXCEPT !.max_supply = Text(1)]
Respelt == [Standard EXCEPT !.issuer = Upper(iss)]
Moved == [Standard EXCEPT !.issuer = AddrOf(usr)]
ByGov == [Standard EXCEPT !.issuer = AddrOf(gov)]
Odd == [Standard EXCEPT !.denom = odd]
Staked == [Standard EXCEPT !.denom = stake]
NoCap == [Standard EXCEPT !.max_supply = Text(0)]
Unlimited == [Standard EXCEPT !.max_supply = BadNumeral]

\* Genesis banks: iss holds a staking coin; usr holds a stablecoin the module
\* never minted; nobody holds anything.
Holding(a, d, n) ==
  [x \in MCAcct |-> [y \in MCDenom |-> IF x = a /\ y = d THEN n ELSE 0]]
Bank0 == [bal |-> Holding(iss, stake, 1),
          supply |-> [y \in MCDenom |-> IF y = stake THEN 1 ELSE 0]]
BankFunded == [bal |-> Holding(usr, ustb, 1),
               supply |-> [y \in MCDenom |-> IF y = ustb THEN 1 ELSE 0]]
BankEmpty == [bal |-> Holding(iss, ustb, 0), supply |-> [y \in MCDenom |-> 0]]

\* The supply of every genesis bank is the sum of its balances, as the bank's
\* own InitGenesis demands.
ASSUME \A g \in GenesisBanks, d \in Denom :
  g.supply[d] = SumFunction([a \in Acct |-> g.bal[a][d]])

Addrs == {AddrOf(iss), AddrOf(usr), AddrOf(module), AddrOf(gov), BadAddr}
AddrsAll == Addrs \cup {Upper(iss), AddrOf(fees)}
AddrsGov == {AddrOf(iss), Upper(iss), AddrOf(usr), AddrOf(gov)}
Amounts == {Text(-1), Text(1), Text(2), Text(IntLimit + 1), BadNumeral}

OneBank == {Bank0}
IssuanceBanks == {BankFunded, BankEmpty}
AllBanks == {Bank0, BankFunded}
StandardGenesis == {Standard}
Genesis == {Standard, ZeroParams, Unlimited}
IssuanceParams == {Lowered}
AllParams == {Paused, Respelt, Moved, ByGov, Odd, Staked, NoCap}
============================================================================

-------------------------------- MODULE Bank --------------------------------
(***************************************************************************)
(* The bank keeper of the Cosmos SDK as the stablecoin handlers use it.    *)
(* Its state is the fields bal and supply of a store record s; every       *)
(* operation is a condition (the call neither fails nor panics) and an     *)
(* effect.                                                                 *)
(***************************************************************************)
EXTENDS StbTypes

CONSTANTS
  Module,       \* the stablecoin module account
  Gov,          \* the governance module account
  FeeCollector  \* the account that collects transaction fees

ASSUME BankAssumption ==
  /\ {Module, Gov, FeeCollector} \subseteq Acct
  /\ Module # Gov /\ Gov # FeeCollector /\ FeeCollector # Module

\* blockAccAddrs.  The fee collector stands for all its entries: the list
\* names neither the governance account nor the stablecoin module account.
Blocked == {FeeCollector}

Balances == [Acct -> [Denom -> Nat]]
Supplies == [Denom -> 0 .. IntLimit]

Has_OffByOne(s, a, d, n) == n <= s.bal[a][d] + 1
Has(s, a, d, n) == n <= s.bal[a][d]

Credit(bal, a, d, n) == [bal EXCEPT ![a][d] = @ + n]
Debit(bal, a, d, n) == [bal EXCEPT ![a][d] = @ - n]

Move(s, from, to, d, n) ==
  [s EXCEPT !.bal = Credit(Debit(s.bal, from, d, n), to, d, n)]

\* MintCoins and BurnCoins compute the new supply with math.Int and panic
\* when it leaves the range of a coin amount.
MintCoinsOK(s, d, n) == s.supply[d] + n <= IntLimit
BurnCoinsOK(s, d, n) == n <= s.supply[d]

MintCoins(s, d, n) ==
  [s EXCEPT !.supply[d] = @ + n, !.bal = Credit(s.bal, Module, d, n)]

BurnCoins(s, d, n) ==
  [s EXCEPT !.supply[d] = @ - n, !.bal = Debit(s.bal, Module, d, n)]
=============================================================================

----------------------- MODULE StablecoinKeeperProofs -----------------------
(***************************************************************************)
(* What the handlers of x/stablecoin do to a well-typed store, for every   *)
(* set of accounts and denominations and every width of math.Int.          *)
(***************************************************************************)
EXTENDS StablecoinKeeper, TLAPS

USE TypesAssumption, AbsentAssumption, BankAssumption

\* A transfer the sender can afford keeps the store well typed and touches
\* nothing but the two balances.
LEMMA MoveLemma ==
  ASSUME NEW s \in Store, NEW from \in Acct, NEW to \in Acct,
         NEW d \in Denom, NEW n \in Nat, Has(s, from, d, n)
  PROVE  /\ Move(s, from, to, d, n) \in Store
         /\ Move(s, from, to, d, n).params = s.params
         /\ Move(s, from, to, d, n).total = s.total
         /\ Move(s, from, to, d, n).supply = s.supply
         /\ \A a \in Acct, e \in Denom :
              Move(s, from, to, d, n).bal[a][e] =
                s.bal[a][e]
                  - (IF a = from /\ e = d THEN n ELSE 0)
                  + (IF a = to /\ e = d THEN n ELSE 0)
<1> DEFINE b == [s.bal EXCEPT ![from][d] = @ - n]
           c == [b EXCEPT ![to][d] = @ + n]
<1>1. s.bal \in Balances /\ s.bal[from][d] >= n
  BY DEF Store, Has, Balances
<1>2. b \in Balances
  BY <1>1 DEF Balances
<1>3. c \in Balances
  BY <1>2 DEF Balances
<1>4. Move(s, from, to, d, n) = [s EXCEPT !.bal = c]
  BY DEF Move, Credit, Debit
<1>5. \A a \in Acct, e \in Denom :
        c[a][e] = s.bal[a][e] - (IF a = from /\ e = d THEN n ELSE 0)
                              + (IF a = to /\ e = d THEN n ELSE 0)
  BY <1>1, <1>2 DEF Balances
<1> HIDE DEF c
<1> QED BY <1>3, <1>4, <1>5 DEF Store

\* Issuing n coins of d on the module account.
LEMMA MintCoinsLemma ==
  ASSUME NEW s \in Store, NEW d \in Denom, NEW n \in Nat, MintCoinsOK(s, d, n)
  PROVE  /\ MintCoins(s, d, n) \in Store
         /\ MintCoins(s, d, n).params = s.params
         /\ MintCoins(s, d, n).total = s.total
         /\ MintCoins(s, d, n).supply = [s.supply EXCEPT ![d] = @ + n]
         /\ \A a \in Acct, e \in Denom :
              MintCoins(s, d, n).bal[a][e] =
                s.bal[a][e] + (IF a = Module /\ e = d THEN n ELSE 0)
<1> DEFINE b == [s.bal EXCEPT ![Module][d] = @ + n]
           t == [s.supply EXCEPT ![d] = @ + n]
<1>1. s.bal \in Balances /\ s.supply \in Supplies /\ s.supply[d] + n <= IntLimit
  BY DEF Store, MintCoinsOK
<1>2. b \in Balances /\ t \in Supplies
  BY <1>1 DEF Balances, Supplies
<1>3. \A a \in Acct, e \in Denom :
        b[a][e] = s.bal[a][e] + (IF a = Module /\ e = d THEN n ELSE 0)
  BY <1>1 DEF Balances
<1>4. MintCoins(s, d, n) = [s EXCEPT !.supply = t, !.bal = b]
  BY DEF MintCoins, Credit
<1> HIDE DEF b, t
<1>5. /\ [s EXCEPT !.supply = t, !.bal = b] \in Store
      /\ [s EXCEPT !.supply = t, !.bal = b].params = s.params
      /\ [s EXCEPT !.supply = t, !.bal = b].total = s.total
      /\ [s EXCEPT !.supply = t, !.bal = b].supply = t
      /\ [s EXCEPT !.supply = t, !.bal = b].bal = b
  BY <1>2 DEF Store
<1> QED BY <1>3, <1>4, <1>5 DEF t

\* Destroying n coins of d that the module account holds.
LEMMA BurnCoinsLemma ==
  ASSUME NEW s \in Store, NEW d \in Denom, NEW n \in Nat,
         BurnCoinsOK(s, d, n), Has(s, Module, d, n)
  PROVE  /\ BurnCoins(s, d, n) \in Store
         /\ BurnCoins(s, d, n).params = s.params
         /\ BurnCoins(s, d, n).total = s.total
         /\ BurnCoins(s, d, n).supply = [s.supply EXCEPT ![d] = @ - n]
         /\ \A a \in Acct, e \in Denom :
              BurnCoins(s, d, n).bal[a][e] =
                s.bal[a][e] - (IF a = Module /\ e = d THEN n ELSE 0)
<1> DEFINE b == [s.bal EXCEPT ![Module][d] = @ - n]
           t == [s.supply EXCEPT ![d] = @ - n]
<1>1. /\ s.bal \in Balances /\ s.supply \in Supplies
      /\ n <= s.supply[d] /\ n <= s.bal[Module][d]
  BY DEF Store, BurnCoinsOK, Has
<1>2. b \in Balances /\ t \in Supplies
  BY <1>1 DEF Balances, Supplies
<1>3. \A a \in Acct, e \in Denom :
        b[a][e] = s.bal[a][e] - (IF a = Module /\ e = d THEN n ELSE 0)
  BY <1>1 DEF Balances
<1>4. BurnCoins(s, d, n) = [s EXCEPT !.supply = t, !.bal = b]
  BY DEF BurnCoins, Debit
<1> HIDE DEF b, t
<1>5. /\ [s EXCEPT !.supply = t, !.bal = b] \in Store
      /\ [s EXCEPT !.supply = t, !.bal = b].params = s.params
      /\ [s EXCEPT !.supply = t, !.bal = b].total = s.total
      /\ [s EXCEPT !.supply = t, !.bal = b].supply = t
      /\ [s EXCEPT !.supply = t, !.bal = b].bal = b
  BY <1>2 DEF Store
<1> QED BY <1>3, <1>4, <1>5 DEF t

\* The stored total is read back as written.
LEMMA TotalLemma ==
  ASSUME NEW s \in Store, NEW n \in 0 .. IntLimit
  PROVE  /\ SetTotalSupply(s, n) \in Store
         /\ SetTotalSupply(s, n).params = s.params
         /\ SetTotalSupply(s, n).bal = s.bal
         /\ SetTotalSupply(s, n).supply = s.supply
         /\ SetTotalSupply(s, n).total = Text(n)
         /\ GetTotalSupply(SetTotalSupply(s, n)) = n
<1>1. /\ Text(n) \in Numeral /\ Text(n) # Absent
      /\ IntOK(Text(n)) /\ NewIntFromString(Text(n)) = n
  <2>1. Text(n) \in Numeral /\ Text(n).n = n
    BY DEF Text, Numeral
  <2>2. Text(n).wf
    BY DEF Text
  <2>3. Text(n) # Absent
    BY <2>1
  <2>4. -IntLimit <= n /\ n <= IntLimit
    OBVIOUS
  <2> QED BY <2>1, <2>2, <2>3, <2>4 DEF IntOK, NewIntFromString
<1>2. SetTotalSupply(s, n) = [s EXCEPT !.total = Text(n)]
  BY DEF SetTotalSupply
<1>3. /\ SetTotalSupply(s, n) \in Store
      /\ SetTotalSupply(s, n).params = s.params
      /\ SetTotalSupply(s, n).bal = s.bal
      /\ SetTotalSupply(s, n).supply = s.supply
      /\ SetTotalSupply(s, n).total = Text(n)
  BY <1>1, <1>2 DEF Store
<1> QED BY <1>1, <1>3 DEF GetTotalSupply

-----------------------------------------------------------------------------
\* What a handler that returns nil has checked, and what it did to the store.
Granted(s, m) ==
  /\ s.params \in Params
  /\ s.params # Absent
  /\ ~s.params.paused
  /\ m.authority = s.params.issuer
  /\ s.params.denom \in Denom
  /\ NewIntFromString(m.amount) \in 1 .. IntLimit

\* An accepted Mint was asked for by the issuer while not paused, keeps the
\* total within max_supply, adds the amount to the supply of the stablecoin
\* and to the total alike, and takes nothing from anybody.
LEMMA MintLemma ==
  ASSUME NEW s \in Store, NEW m \in MintBurnMsg,
         GetTotalSupply(s) \in 0 .. IntLimit,
         Mint(s, m).err = "nil"
  PROVE  /\ Granted(s, m)
         /\ Mint(s, m).st \in Store
         /\ Mint(s, m).st.params = s.params
         /\ GetTotalSupply(Mint(s, m).st)
              = GetTotalSupply(s) + NewIntFromString(m.amount)
         /\ GetTotalSupply(Mint(s, m).st)
              <= NewIntFromString(s.params.max_supply)
         /\ GetTotalSupply(Mint(s, m).st) \in 0 .. IntLimit
         /\ Mint(s, m).st.supply =
              [s.supply EXCEPT ![s.params.denom] = @ + NewIntFromString(m.amount)]
         /\ \A a \in Acct, e \in Denom :
              Mint(s, m).st.bal[a][e] =
                s.bal[a][e]
                  + (IF a = AccAddressFromBech32(m.addr) /\ e = s.params.denom
                       THEN NewIntFromString(m.amount) ELSE 0)
<1> DEFINE n  == NewIntFromString(m.amount)
           d  == s.params.denom
           to == AccAddressFromBech32(m.addr)
           minted == MintCoins(s, d, n)
           sent   == Move(minted, Module, to, d, n)
<1>1. MintError(s, m) = "nil"
  BY DEF Mint
<1>2. AccessError(s, m) = "nil" /\ IsPositiveInt(m.amount)
  BY <1>1 DEF MintError
<1>3. /\ s.params # Absent /\ ~s.params.paused
      /\ m.authority = s.params.issuer
  BY <1>2 DEF AccessError
<1>4. /\ ~(GetTotalSupply(s) + n > IntLimit)
      /\ ~ExceedsMax(s, n)
      /\ to # NoAcct
      /\ d \in Denom
      /\ MintCoinsOK(s, d, n)
      /\ IntOK(s.params.max_supply)
  BY <1>1, <1>2 DEF MintError
<1>5. s.params \in Params
  BY <1>3 DEF Store
<1>6. n \in 1 .. IntLimit
  BY <1>2 DEF IsPositiveInt, IntOK, NewIntFromString, MintBurnMsg, Numeral
<1>7. to \in Acct
  BY <1>4 DEF AccAddressFromBech32, MintBurnMsg, AddrText
<1>8. NewIntFromString(s.params.max_supply) \in Int
  BY <1>5 DEF NewIntFromString, Params, Numeral
<1>9. Mint(s, m).st = SetTotalSupply(sent, GetTotalSupply(s) + n)
  BY <1>1 DEF Mint
<1> HIDE DEF n, d, to
<1>10. /\ minted \in Store /\ minted.params = s.params
       /\ minted.supply = [s.supply EXCEPT ![d] = @ + n]
       /\ \A a \in Acct, e \in Denom :
            minted.bal[a][e] = s.bal[a][e] + (IF a = Module /\ e = d THEN n ELSE 0)
  BY <1>4, <1>6, MintCoinsLemma
<1>11. s.bal \in Balances
  BY DEF Store
<1>12. Has(minted, Module, d, n)
  BY <1>4, <1>6, <1>10, <1>11 DEF Has, Balances
<1> HIDE DEF minted
<1>13. /\ sent \in Store /\ sent.params = minted.params
       /\ sent.supply = minted.supply
       /\ \A a \in Acct, e \in Denom :
            sent.bal[a][e] = minted.bal[a][e]
                               - (IF a = Module /\ e = d THEN n ELSE 0)
                               + (IF a = to /\ e = d THEN n ELSE 0)
  BY <1>4, <1>6, <1>7, <1>10, <1>12, MoveLemma
<1> HIDE DEF sent
<1>14. GetTotalSupply(s) + n \in 0 .. IntLimit
  BY <1>4, <1>6
<1>15. GetTotalSupply(s) + n <= NewIntFromString(s.params.max_supply)
  BY <1>4, <1>6, <1>8 DEF ExceedsMax
<1>16. \A a \in Acct, e \in Denom :
         sent.bal[a][e] = s.bal[a][e] + (IF a = to /\ e = d THEN n ELSE 0)
  BY <1>6, <1>10, <1>11, <1>13 DEF Balances
<1>17. Granted(s, m)
  BY <1>3, <1>4, <1>5, <1>6 DEF Granted, n, d
<1>18. /\ Mint(s, m).st \in Store
       /\ Mint(s, m).st.params = s.params
       /\ Mint(s, m).st.supply = [s.supply EXCEPT ![d] = @ + n]
       /\ Mint(s, m).st.bal = sent.bal
       /\ GetTotalSupply(Mint(s, m).st) = GetTotalSupply(s) + n
  <2> DEFINE k == GetTotalSupply(s) + n
  <2> HIDE DEF k
  <2>1. k \in 0 .. IntLimit
    BY <1>14 DEF k
  <2>2. /\ SetTotalSupply(sent, k) \in Store
        /\ SetTotalSupply(sent, k).params = sent.params
        /\ SetTotalSupply(sent, k).bal = sent.bal
        /\ SetTotalSupply(sent, k).supply = sent.supply
        /\ GetTotalSupply(SetTotalSupply(sent, k)) = k
    BY <2>1, <1>13, TotalLemma
  <2>3. Mint(s, m).st = SetTotalSupply(sent, k)
    BY <1>9 DEF k
  <2> QED BY <2>2, <2>3, <1>10, <1>13 DEF k
<1> QED BY <1>14, <1>15, <1>16, <1>17, <1>18 DEF n, d, to

\* The same for an accepted Burn: it takes the amount from the supply of the
\* stablecoin, from the total and from the account it names.
LEMMA BurnLemma ==
  ASSUME NEW s \in Store, NEW m \in MintBurnMsg,
         GetTotalSupply(s) \in 0 .. IntLimit,
         Burn(s, m).err = "nil"
  PROVE  /\ Granted(s, m)
         /\ Burn(s, m).st \in Store
         /\ Burn(s, m).st.params = s.params
         /\ GetTotalSupply(Burn(s, m).st)
              = GetTotalSupply(s) - NewIntFromString(m.amount)
         /\ GetTotalSupply(Burn(s, m).st) \in 0 .. IntLimit
         /\ Burn(s, m).st.total
              = Text(GetTotalSupply(s) - NewIntFromString(m.amount))
         /\ Burn(s, m).st.supply =
              [s.supply EXCEPT ![s.params.denom] = @ - NewIntFromString(m.amount)]
         /\ \A a \in Acct, e \in Denom :
              Burn(s, m).st.bal[a][e] =
                s.bal[a][e]
                  - (IF a = AccAddressFromBech32(m.addr) /\ e = s.params.denom
                       THEN NewIntFromString(m.amount) ELSE 0)
<1> DEFINE n    == NewIntFromString(m.amount)
           d    == s.params.denom
           from == AccAddressFromBech32(m.addr)
           moved  == Move(s, from, Module, d, n)
           burned == BurnCoins(moved, d, n)
<1>1. BurnError(s, m) = "nil"
  BY DEF Burn
<1>2. AccessError(s, m) = "nil" /\ IsPositiveInt(m.amount)
  BY <1>1 DEF BurnError
<1>3. /\ s.params # Absent /\ ~s.params.paused
      /\ m.authority = s.params.issuer
  BY <1>2 DEF AccessError
<1>4. /\ from # NoAcct
      /\ d \in Denom
      /\ Has(s, from, d, n)
      /\ BurnCoinsOK(s, d, n)
      /\ ~(GetTotalSupply(s) < n)
  BY <1>1, <1>2 DEF BurnError
<1>5. s.params \in Params
  BY <1>3 DEF Store
<1>6. n \in 1 .. IntLimit
  BY <1>2 DEF IsPositiveInt, IntOK, NewIntFromString, MintBurnMsg, Numeral
<1>7. from \in Acct
  BY <1>4 DEF AccAddressFromBech32, MintBurnMsg, AddrText
<1>8. Burn(s, m).st = SetTotalSupply(burned, GetTotalSupply(s) - n)
  BY <1>1 DEF Burn
<1> HIDE DEF n, d, from
<1>9. /\ moved \in Store /\ moved.params = s.params
      /\ moved.supply = s.supply
      /\ \A a \in Acct, e \in Denom :
           moved.bal[a][e] = s.bal[a][e]
                               - (IF a = from /\ e = d THEN n ELSE 0)
                               + (IF a = Module /\ e = d THEN n ELSE 0)
  BY <1>4, <1>6, <1>7, MoveLemma
<1>10. s.bal \in Balances
  BY DEF Store
<1>11. Has(moved, Module, d, n) /\ BurnCoinsOK(moved, d, n)
  BY <1>4, <1>6, <1>7, <1>9, <1>10 DEF Has, Balances, BurnCoinsOK
<1> HIDE DEF moved
<1>12. /\ burned \in Store /\ burned.params = moved.params
       /\ burned.supply = [moved.supply EXCEPT ![d] = @ - n]
       /\ \A a \in Acct, e \in Denom :
            burned.bal[a][e] = moved.bal[a][e]
                                 - (IF a = Module /\ e = d THEN n ELSE 0)
  BY <1>4, <1>6, <1>9, <1>11, BurnCoinsLemma
<1> HIDE DEF burned
<1>13. GetTotalSupply(s) - n \in 0 .. IntLimit
  BY <1>4, <1>6
<1>14. \A a \in Acct, e \in Denom :
         burned.bal[a][e] = s.bal[a][e] - (IF a = from /\ e = d THEN n ELSE 0)
  BY <1>6, <1>9, <1>10, <1>12 DEF Balances
<1>15. Granted(s, m)
  BY <1>3, <1>4, <1>5, <1>6 DEF Granted, n, d
<1>16. /\ Burn(s, m).st \in Store
       /\ Burn(s, m).st.params = s.params
       /\ Burn(s, m).st.supply = [s.supply EXCEPT ![d] = @ - n]
       /\ Burn(s, m).st.bal = burned.bal
       /\ Burn(s, m).st.total = Text(GetTotalSupply(s) - n)
       /\ GetTotalSupply(Burn(s, m).st) = GetTotalSupply(s) - n
  <2> DEFINE k == GetTotalSupply(s) - n
  <2> HIDE DEF k
  <2>1. k \in 0 .. IntLimit
    BY <1>13 DEF k
  <2>2. /\ SetTotalSupply(burned, k) \in Store
        /\ SetTotalSupply(burned, k).params = burned.params
        /\ SetTotalSupply(burned, k).bal = burned.bal
        /\ SetTotalSupply(burned, k).supply = burned.supply
        /\ SetTotalSupply(burned, k).total = Text(k)
        /\ GetTotalSupply(SetTotalSupply(burned, k)) = k
    BY <2>1, <1>12, TotalLemma
  <2>3. Burn(s, m).st = SetTotalSupply(burned, k)
    BY <1>8 DEF k
  <2> QED BY <2>2, <2>3, <1>9, <1>12 DEF k
<1> QED BY <1>13, <1>14, <1>15, <1>16 DEF n, d, from

\* A Mint that fails, with whatever the bank did before, leaves a well-typed
\* store with the total untouched.
LEMMA MintFailLemma ==
  ASSUME NEW s \in Store, NEW m \in MintBurnMsg, Mint(s, m).err # "nil"
  PROVE  /\ Mint(s, m).st \in Store
         /\ Mint(s, m).st.total = s.total
         /\ Mint(s, m).st.params = s.params
<1>1. CASE MintError(s, m) = "blocked"
  <2> DEFINE n == NewIntFromString(m.amount)
             d == s.params.denom
  <2>1. AccessError(s, m) \in {"nil", "ErrNotFound", "ErrPaused", "ErrNotIssuer"}
    BY DEF AccessError
  <2>2. /\ IsPositiveInt(m.amount)
        /\ d \in Denom
        /\ MintCoinsOK(s, d, n)
    BY <1>1, <2>1 DEF MintError
  <2>3. n \in Nat
    BY <2>2 DEF IsPositiveInt, IntOK, NewIntFromString, MintBurnMsg, Numeral
  <2>4. Mint(s, m).st = MintCoins(s, d, n)
    BY <1>1 DEF Mint
  <2>5. MintCoins(s, d, n) \in Store
    BY <2>2, <2>3, MintCoinsLemma
  <2>6. /\ MintCoins(s, d, n).total = s.total
        /\ MintCoins(s, d, n).params = s.params
    BY DEF MintCoins, Store
  <2> QED BY <2>4, <2>5, <2>6
<1>2. CASE MintError(s, m) # "blocked"
  <2>1. MintError(s, m) # "nil" /\ Mint(s, m).st = s
    BY <1>2 DEF Mint
  <2> QED BY <2>1
<1> QED BY <1>1, <1>2

\* The same for a Burn that fails.
LEMMA BurnFailLemma ==
  ASSUME NEW s \in Store, NEW m \in MintBurnMsg, Burn(s, m).err # "nil"
  PROVE  /\ Burn(s, m).st \in Store
         /\ Burn(s, m).st.total = s.total
         /\ Burn(s, m).st.params = s.params
<1>1. CASE BurnError(s, m) = "total supply underflow"
  <2> DEFINE n    == NewIntFromString(m.amount)
             d    == s.params.denom
             from == AccAddressFromBech32(m.addr)
             moved == Move(s, from, Module, d, n)
  <2>1. AccessError(s, m) \in {"nil", "ErrNotFound", "ErrPaused", "ErrNotIssuer"}
    BY DEF AccessError
  <2>2. /\ from # NoAcct /\ IsPositiveInt(m.amount) /\ d \in Denom
        /\ Has(s, from, d, n) /\ BurnCoinsOK(s, d, n)
    BY <1>1, <2>1 DEF BurnError
  <2>3. n \in Nat
    BY <2>2 DEF IsPositiveInt, IntOK, NewIntFromString, MintBurnMsg, Numeral
  <2>4. from \in Acct
    BY <2>2 DEF AccAddressFromBech32, MintBurnMsg, AddrText
  <2>5. Burn(s, m).st = BurnCoins(moved, d, n)
    BY <1>1 DEF Burn
  <2> HIDE DEF n, d, from
  <2>6. /\ moved \in Store /\ moved.params = s.params
        /\ moved.total = s.total /\ moved.supply = s.supply
        /\ moved.bal[Module][d] = s.bal[Module][d]
                                    - (IF Module = from /\ d = d THEN n ELSE 0)
                                    + (IF Module = Module /\ d = d THEN n ELSE 0)
    BY <2>2, <2>3, <2>4, MoveLemma
  <2>7. s.bal \in Balances
    BY DEF Store
  <2>8. Has(moved, Module, d, n) /\ BurnCoinsOK(moved, d, n)
    BY <2>2, <2>3, <2>4, <2>6, <2>7 DEF Has, Balances, BurnCoinsOK
  <2> HIDE DEF moved
  <2>9. BurnCoins(moved, d, n) \in Store
    BY <2>2, <2>3, <2>6, <2>8, BurnCoinsLemma
  <2>10. /\ BurnCoins(moved, d, n).total = moved.total
         /\ BurnCoins(moved, d, n).params = moved.params
    BY <2>6 DEF BurnCoins, Store
  <2> QED BY <2>5, <2>6, <2>9, <2>10
<1>2. CASE BurnError(s, m) # "total supply underflow"
  <2>1. BurnError(s, m) # "nil" /\ Burn(s, m).st = s
    BY <1>2 DEF Burn
  <2> QED BY <2>1
<1> QED BY <1>1, <1>2

\* UpdateParams touches the parameters only, and only for the authority and
\* with parameters that pass Validate.
LEMMA UpdateParamsLemma ==
  ASSUME NEW s \in Store, NEW m \in UpdateMsg
  PROVE  /\ UpdateParams(s, m).st \in Store
         /\ UpdateParams(s, m).st.total = s.total
         /\ UpdateParams(s, m).st.supply = s.supply
         /\ UpdateParams(s, m).st.bal = s.bal
         /\ UpdateParams(s, m).err # "nil" => UpdateParams(s, m).st = s
         /\ UpdateParams(s, m).err = "nil" =>
              /\ AccAddressFromBech32(m.authority) = Gov
              /\ UpdateParams(s, m).st.params = m.params
              /\ Validate(m.params)
<1> DEFINE r == UpdateParams(s, m)
<1>1. CASE r.err = "nil"
  <2>1. /\ r.st = [s EXCEPT !.params = m.params]
        /\ IsAuthority(m.authority) /\ Validate(m.params)
    BY <1>1 DEF UpdateParams
  <2>2. m.params \in Params
    BY DEF UpdateMsg
  <2> HIDE DEF r
  <2>3. /\ r.st \in Store /\ r.st.total = s.total /\ r.st.supply = s.supply
        /\ r.st.bal = s.bal /\ r.st.params = m.params
    BY <2>1, <2>2 DEF Store
  <2> QED BY <1>1, <2>1, <2>3 DEF IsAuthority, GetAuthority, r
<1>2. CASE r.err # "nil"
  <2>1. r.st = s
    BY <1>2 DEF UpdateParams
  <2> QED BY <1>2, <2>1
<1> QED BY <1>1, <1>2

\* Burn undoes Mint: burning what was just minted, from the account that got
\* it, succeeds and restores every balance, the supply and the total.
THEOREM BurnUndoesMintTheorem ==
  ASSUME NEW s \in Store, NEW m \in MintBurnMsg,
         GetTotalSupply(s) \in 0 .. IntLimit,
         Mint(s, m).err = "nil"
  PROVE  /\ Burn(Mint(s, m).st, m).err = "nil"
         /\ Burn(Mint(s, m).st, m).st = SetTotalSupply(s, GetTotalSupply(s))
<1> DEFINE n  == NewIntFromString(m.amount)
           d  == s.params.denom
           to == AccAddressFromBech32(m.addr)
           t  == Mint(s, m).st
           u  == Burn(t, m).st
<1>1. /\ Granted(s, m) /\ t \in Store /\ t.params = s.params
      /\ GetTotalSupply(t) = GetTotalSupply(s) + n
      /\ GetTotalSupply(t) \in 0 .. IntLimit
      /\ t.supply = [s.supply EXCEPT ![d] = @ + n]
      /\ \A a \in Acct, e \in Denom :
           t.bal[a][e] = s.bal[a][e] + (IF a = to /\ e = d THEN n ELSE 0)
  BY MintLemma
<1>2. MintError(s, m) = "nil"
  BY DEF Mint
<1>3. AccessError(s, m) = "nil"
  BY <1>2 DEF MintError
<1>4. IsPositiveInt(m.amount) /\ to # NoAcct
  BY <1>2, <1>3 DEF MintError
<1>5. AccessError(t, m) = "nil"
  BY <1>1 DEF AccessError, Granted
<1>6. to \in Acct /\ d \in Denom /\ n \in 1 .. IntLimit
  BY <1>1, <1>4 DEF AccAddressFromBech32, MintBurnMsg, AddrText, Granted
<1>7. s.bal \in Balances /\ s.supply \in Supplies
  BY DEF Store
<1> HIDE DEF n, d, to, t
<1>8. Has(t, to, d, n) /\ BurnCoinsOK(t, d, n) /\ ~(GetTotalSupply(t) < n)
  BY <1>1, <1>6, <1>7 DEF Has, BurnCoinsOK, Balances, Supplies
<1>9. t.params.denom = d
  BY <1>1 DEF d
<1>10. BurnError(t, m) = "nil"
  BY <1>4, <1>5, <1>6, <1>8, <1>9 DEF BurnError, n, to
<1>11. Burn(t, m).err = "nil"
  BY <1>10 DEF Burn
<1>12. /\ u \in Store /\ u.params = t.params
       /\ u.total = Text(GetTotalSupply(t) - n)
       /\ u.supply = [t.supply EXCEPT ![d] = @ - n]
       /\ \A a \in Acct, e \in Denom :
            u.bal[a][e] = t.bal[a][e] - (IF a = to /\ e = d THEN n ELSE 0)
  BY <1>1, <1>9, <1>11, BurnLemma DEF n, to
<1> HIDE DEF u
<1>13. u.supply = s.supply
  BY <1>1, <1>6, <1>7, <1>12 DEF Supplies
<1>14. u.bal = s.bal
  <2>1. u.bal \in Balances
    BY <1>12 DEF Store
  <2>2. \A a \in Acct, e \in Denom : u.bal[a][e] = s.bal[a][e]
    BY <1>1, <1>6, <1>7, <1>12 DEF Balances
  <2> QED BY <2>1, <2>2, <1>7 DEF Balances
<1>15. u.total = Text(GetTotalSupply(s))
  BY <1>1, <1>6, <1>12
<1> DEFINE v == SetTotalSupply(s, GetTotalSupply(s))
<1>16. /\ v \in Store /\ v.params = s.params /\ v.bal = s.bal
       /\ v.supply = s.supply /\ v.total = Text(GetTotalSupply(s))
  BY TotalLemma
<1> HIDE DEF v
<1>17. u = v
  BY <1>1, <1>12, <1>13, <1>14, <1>15, <1>16 DEF Store
<1> QED BY <1>11, <1>17 DEF t, u, v
=============================================================================

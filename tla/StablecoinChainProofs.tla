------------------------ MODULE StablecoinChainProofs ------------------------
(***************************************************************************)
(* Theorems of StablecoinChain, for every set of accounts, denominations,  *)
(* inputs, every width of math.Int and every number of messages.           *)
(*                                                                         *)
(* The argument: every message a transaction executes is lawful, that is,  *)
(* it issues in the issuer's name, or sets parameters in governance's name, *)
(* or moves coins of a signer.  Lawful messages keep BranchInv, which says *)
(* how far a branch may be from the store, and the store changes only by   *)
(* paying a fee, by inflation, by an import or by taking over a branch.    *)
(***************************************************************************)
EXTENDS StablecoinChain, StablecoinKeeperProofs, FiniteSums

USE TypesAssumption, AbsentAssumption, BankAssumption

Issuance(c, t, S) ==
  /\ c.params # Absent /\ ~c.params.paused
  /\ AccAddressFromBech32(c.params.issuer) \in S
  /\ c.params.denom \in Denom
  /\ t.params = c.params
  /\ \A d \in Denom :
       t.supply[d] - c.supply[d] =
         IF d = c.params.denom THEN GetTotalSupply(t) - GetTotalSupply(c) ELSE 0
  /\ \/ GetTotalSupply(t) <= GetTotalSupply(c)
     \/ GetTotalSupply(t) <= NewIntFromString(c.params.max_supply)
  /\ \A a \in Acct, d \in Denom :
       t.bal[a][d] < c.bal[a][d] => d = c.params.denom
  /\ Validate(c.params) \/ GetTotalSupply(c) > 0

Governance(c, t, S) ==
  /\ Gov \in S
  /\ t.params # Absent /\ Validate(t.params)
  /\ t.supply = c.supply /\ t.bal = c.bal
  /\ GetTotalSupply(t) = GetTotalSupply(c)

Transfer(c, t, S) ==
  /\ t.params = c.params /\ t.supply = c.supply
  /\ GetTotalSupply(t) = GetTotalSupply(c)
  /\ \A a \in Acct, d \in Denom : t.bal[a][d] < c.bal[a][d] => a \in S

Lawful(c, r, S) ==
  /\ r.st \in Store
  /\ r.err \in Errors
  /\ GetTotalSupply(r.st) \in 0 .. IntLimit
  /\ r.st.params = Absent => GetTotalSupply(r.st) = 0
  /\ r.err = "nil" => \/ Issuance(c, r.st, S)
                      \/ Governance(c, r.st, S)
                      \/ Transfer(c, r.st, S)

\* What a store has to satisfy for its messages to be lawful.
Sound(s) ==
  /\ s \in Store
  /\ GetTotalSupply(s) \in 0 .. IntLimit
  /\ s.params = Absent => GetTotalSupply(s) = 0

\* The total read depends on the stored text alone.
LEMMA SameTotal ==
  ASSUME NEW s, NEW t, s.total = t.total
  PROVE  GetTotalSupply(s) = GetTotalSupply(t)
BY DEF GetTotalSupply

\* Mint checks by itself all that Validate does: who compares equal to the
\* issuer has an address, and a positive total stays below max_supply.
LEMMA MintChecks ==
  ASSUME NEW c \in Store, GetTotalSupply(c) \in 0 .. IntLimit, NEW m \in MintBurnMsg,
         AccAddressFromBech32(m.authority) # NoAcct, Mint(c, m).err = "nil"
  PROVE  Validate(c.params)
<1>1. MintError(c, m) = "nil"
  BY DEF Mint
<1>2. /\ m.authority = c.params.issuer /\ c.params \in Params
  BY <1>1 DEF MintError, AccessError, Store
<1>3. /\ IsPositiveInt(m.amount) /\ IntOK(c.params.max_supply)
      /\ ~ExceedsMax(c, NewIntFromString(m.amount))
      /\ c.params.denom \in Denom
  BY <1>1 DEF MintError
<1>4. c.params.max_supply.n \in Int /\ m.amount.n \in Int
  BY <1>2 DEF Params, Numeral, MintBurnMsg
<1>5. IsPositiveInt(c.params.max_supply)
  BY <1>3, <1>4 DEF ExceedsMax, IsPositiveInt, NewIntFromString
<1> QED BY <1>2, <1>3, <1>5 DEF Validate

\* Mint is lawful: its authority is a signer.
LEMMA MintLawful ==
  ASSUME NEW c, Sound(c), NEW m \in MintBurnMsg, NEW S \in SUBSET Acct,
         AccAddressFromBech32(m.authority) \in S
  PROVE  Lawful(c, Mint(c, m), S)
<1> DEFINE r == Mint(c, m)
           n == NewIntFromString(m.amount)
<1>1. r.err \in Errors
  <2>1. AccessError(c, m) \in Errors
    BY DEF AccessError, Errors
  <2>2. MintError(c, m) \in Errors
    BY <2>1 DEF MintError, Errors
  <2> QED BY <2>2 DEF Mint
<1>2. CASE r.err = "nil"
  <2>1. /\ Granted(c, m) /\ r.st \in Store /\ r.st.params = c.params
        /\ GetTotalSupply(r.st) = GetTotalSupply(c) + n
        /\ GetTotalSupply(r.st) <= NewIntFromString(c.params.max_supply)
        /\ GetTotalSupply(r.st) \in 0 .. IntLimit
        /\ r.st.supply = [c.supply EXCEPT ![c.params.denom] = @ + n]
        /\ \A a \in Acct, e \in Denom :
             r.st.bal[a][e] = c.bal[a][e]
               + (IF a = AccAddressFromBech32(m.addr) /\ e = c.params.denom
                    THEN n ELSE 0)
    BY <1>2, MintLemma DEF Sound
  <2>2. /\ c.params # Absent /\ ~c.params.paused /\ c.params.denom \in Denom
        /\ AccAddressFromBech32(c.params.issuer) \in S
        /\ n \in 1 .. IntLimit
    BY <2>1 DEF Granted
  <2>0. Validate(c.params)
    <3>1. AccAddressFromBech32(m.authority) # NoAcct
      OBVIOUS
    <3> QED BY <1>2, <3>1, MintChecks DEF Sound
  <2>3. c.bal \in Balances /\ c.supply \in Supplies /\ GetTotalSupply(c) \in Int
    BY DEF Sound, Store
  <2> HIDE DEF r, n
  <2>4. \A d \in Denom :
          r.st.supply[d] - c.supply[d] =
            IF d = c.params.denom
              THEN GetTotalSupply(r.st) - GetTotalSupply(c) ELSE 0
    BY <2>1, <2>2, <2>3 DEF Supplies
  <2>5. \A a \in Acct, d \in Denom :
          r.st.bal[a][d] < c.bal[a][d] => d = c.params.denom
    BY <2>1, <2>2, <2>3 DEF Balances
  <2>6. Issuance(c, r.st, S)
    BY <2>0, <2>1, <2>2, <2>4, <2>5 DEF Issuance
  <2>7. Lawful(c, r, S)
    BY <1>1, <2>1, <2>2, <2>6 DEF Lawful
  <2> QED BY <2>7 DEF r
<1>3. CASE r.err # "nil"
  <2>1. r.st \in Store /\ r.st.total = c.total /\ r.st.params = c.params
    BY <1>3, MintFailLemma DEF Sound
  <2>2. GetTotalSupply(r.st) = GetTotalSupply(c)
    BY <2>1, SameTotal
  <2> HIDE DEF r
  <2>3. Lawful(c, r, S)
    BY <1>1, <1>3, <2>1, <2>2 DEF Lawful, Sound
  <2> QED BY <2>3 DEF r
<1> QED BY <1>2, <1>3

\* Burn is lawful.
LEMMA BurnLawful ==
  ASSUME NEW c, Sound(c), NEW m \in MintBurnMsg, NEW S,
         AccAddressFromBech32(m.authority) \in S
  PROVE  Lawful(c, Burn(c, m), S)
<1> DEFINE r == Burn(c, m)
           n == NewIntFromString(m.amount)
<1>1. r.err \in Errors
  <2>1. AccessError(c, m) \in Errors
    BY DEF AccessError, Errors
  <2>2. BurnError(c, m) \in Errors
    BY <2>1 DEF BurnError, Errors
  <2> QED BY <2>2 DEF Burn
<1>2. CASE r.err = "nil"
  <2>1. /\ Granted(c, m) /\ r.st \in Store /\ r.st.params = c.params
        /\ GetTotalSupply(r.st) = GetTotalSupply(c) - n
        /\ GetTotalSupply(r.st) \in 0 .. IntLimit
        /\ r.st.supply = [c.supply EXCEPT ![c.params.denom] = @ - n]
        /\ \A a \in Acct, e \in Denom :
             r.st.bal[a][e] = c.bal[a][e]
               - (IF a = AccAddressFromBech32(m.addr) /\ e = c.params.denom
                    THEN n ELSE 0)
    BY <1>2, BurnLemma DEF Sound
  <2>2. /\ c.params # Absent /\ ~c.params.paused /\ c.params.denom \in Denom
        /\ AccAddressFromBech32(c.params.issuer) \in S
        /\ n \in 1 .. IntLimit
    BY <2>1 DEF Granted
  <2>3. c.bal \in Balances /\ c.supply \in Supplies /\ GetTotalSupply(c) \in Int
    BY DEF Sound, Store
  <2> HIDE DEF r, n
  <2>4. \A d \in Denom :
          r.st.supply[d] - c.supply[d] =
            IF d = c.params.denom
              THEN GetTotalSupply(r.st) - GetTotalSupply(c) ELSE 0
    BY <2>1, <2>2, <2>3 DEF Supplies
  <2>5. \A a \in Acct, d \in Denom :
          r.st.bal[a][d] < c.bal[a][d] => d = c.params.denom
    BY <2>1, <2>2, <2>3 DEF Balances
  <2>6. GetTotalSupply(r.st) <= GetTotalSupply(c)
    BY <2>1, <2>2, <2>3
  <2>0. GetTotalSupply(c) > 0
    BY <2>1, <2>2, <2>3
  <2>7. Issuance(c, r.st, S)
    BY <2>0, <2>1, <2>2, <2>4, <2>5, <2>6 DEF Issuance
  <2>8. Lawful(c, r, S)
    BY <1>1, <2>1, <2>2, <2>7 DEF Lawful
  <2> QED BY <2>8 DEF r
<1>3. CASE r.err # "nil"
  <2>1. r.st \in Store /\ r.st.total = c.total /\ r.st.params = c.params
    BY <1>3, BurnFailLemma DEF Sound
  <2>2. GetTotalSupply(r.st) = GetTotalSupply(c)
    BY <2>1, SameTotal
  <2> HIDE DEF r
  <2>3. Lawful(c, r, S)
    BY <1>1, <1>3, <2>1, <2>2 DEF Lawful, Sound
  <2> QED BY <2>3 DEF r
<1> QED BY <1>2, <1>3

\* UpdateParams is lawful: the governance account is a signer.
LEMMA UpdateParamsLawful ==
  ASSUME NEW c, Sound(c), NEW m \in UpdateMsg, NEW S,
         AccAddressFromBech32(m.authority) \in S
  PROVE  Lawful(c, UpdateParams(c, m), S)
<1> DEFINE r == UpdateParams(c, m)
<1>1. r.err \in Errors
  BY DEF UpdateParams, Errors
<1>2. /\ r.st \in Store /\ r.st.total = c.total
      /\ r.st.supply = c.supply /\ r.st.bal = c.bal
      /\ r.err # "nil" => r.st = c
      /\ r.err = "nil" => /\ AccAddressFromBech32(m.authority) = Gov
                          /\ r.st.params = m.params
                          /\ Validate(m.params)
  BY UpdateParamsLemma DEF Sound
<1>3. m.params # Absent
  BY DEF UpdateMsg
<1> HIDE DEF r
<1>4. GetTotalSupply(r.st) = GetTotalSupply(c)
  BY <1>2, SameTotal
<1>5. r.err = "nil" => Governance(c, r.st, S)
  BY <1>2, <1>3, <1>4 DEF Governance
<1>6. Lawful(c, r, S)
  BY <1>1, <1>2, <1>3, <1>4, <1>5 DEF Lawful, Sound
<1> QED BY <1>6 DEF r

\* MsgSend is lawful: it moves coins of a signer.
LEMMA SendLawful ==
  ASSUME NEW c, Sound(c), NEW S, NEW from \in Acct, NEW to \in Acct,
         NEW d \in Denom, NEW n \in Nat, from \in S
  PROVE  Lawful(c, Send(c, from, to, d, n), S)
<1> DEFINE r == Send(c, from, to, d, n)
<1>1. r.err \in Errors
  BY DEF Send, Errors
<1>2. CASE r.err = "nil"
  <2>1. r.st = Move(c, from, to, d, n) /\ Has(c, from, d, n)
    BY <1>2 DEF Send
  <2> DEFINE t == Move(c, from, to, d, n)
  <2>2. /\ t \in Store /\ t.params = c.params /\ t.total = c.total
        /\ t.supply = c.supply
        /\ \A a \in Acct, e \in Denom :
             t.bal[a][e] = c.bal[a][e] - (IF a = from /\ e = d THEN n ELSE 0)
                                       + (IF a = to /\ e = d THEN n ELSE 0)
    BY <2>1, MoveLemma DEF Sound
  <2>3. c.bal \in Balances
    BY DEF Sound, Store
  <2> HIDE DEF r, t
  <2>4. \A a \in Acct, e \in Denom : t.bal[a][e] < c.bal[a][e] => a \in S
    BY <2>2, <2>3 DEF Balances
  <2>5. GetTotalSupply(t) = GetTotalSupply(c)
    BY <2>2, SameTotal
  <2>6. Transfer(c, t, S)
    BY <2>2, <2>4, <2>5 DEF Transfer
  <2>7. r.st = t
    BY <2>1 DEF t
  <2>8. Lawful(c, r, S)
    BY <1>1, <2>2, <2>5, <2>6, <2>7 DEF Lawful, Sound
  <2> QED BY <2>8 DEF r
<1>3. CASE r.err # "nil"
  <2>1. r.st = c
    BY <1>3 DEF Send
  <2> HIDE DEF r
  <2>2. Lawful(c, r, S)
    BY <1>1, <1>3, <2>1 DEF Lawful, Sound
  <2> QED BY <2>2 DEF r
<1> QED BY <1>2, <1>3

-----------------------------------------------------------------------------
\* A lawful message keeps BranchInv.
LEMMA HandledBranch ==
  ASSUME BranchInv, NEW r, Lawful(cache, r, run.signers), Handled(r)
  PROVE  BranchInv'
<1>1. /\ store \in Store /\ cache \in Store /\ run \in Run
      /\ base \in [Denom -> Nat] /\ switched \in BOOLEAN
  BY DEF BranchInv, TypeOK
<1>2. /\ cache' = r.st /\ store' = store /\ base' = base
      /\ switched' = switched /\ run.phase = "open"
  BY DEF Handled
<1>3. /\ r.st \in Store /\ r.err \in Errors
      /\ GetTotalSupply(r.st) \in 0 .. IntLimit
      /\ r.st.params = Absent => GetTotalSupply(r.st) = 0
  BY DEF Lawful
<1>4. /\ run' \in Run
      /\ run'.signers = run.signers
      /\ run'.phase = IF r.err = "nil" THEN "open" ELSE "failed"
      /\ run'.switched = (run.switched \/
            (cache.params # Absent /\ r.st.params # Absent
              /\ cache.params.denom # r.st.params.denom))
  <2> DEFINE ph == IF r.err = "nil" THEN "open" ELSE "failed"
             sw == run.switched \/
                     (cache.params # Absent /\ r.st.params # Absent
                       /\ cache.params.denom # r.st.params.denom)
  <2>1. run' = [run EXCEPT !.phase = ph, !.msgs = @ + 1, !.err = r.err,
                           !.switched = sw]
    BY DEF Handled
  <2>2. ph \in {"idle", "open", "failed"}
    OBVIOUS
  <2>3. sw \in BOOLEAN
    OBVIOUS
  <2> HIDE DEF ph, sw
  <2>4. run' = [phase |-> ph, signers |-> run.signers, msgs |-> run.msgs + 1,
                err |-> r.err, switched |-> sw]
    BY <1>1, <2>1 DEF Run
  <2>5. run.signers \in SUBSET Acct /\ run.msgs + 1 \in Nat
    BY <1>1 DEF Run
  <2>6. run' \in Run
    BY <1>3, <2>2, <2>3, <2>4, <2>5 DEF Run
  <2>7. run'.signers = run.signers /\ run'.phase = ph
    BY <2>4
  <2>8. run'.switched = sw
    BY <2>4
  <2> QED BY <2>6, <2>7, <2>8 DEF ph, sw
<1>5. TypeOK'
  BY <1>1, <1>2, <1>3, <1>4 DEF TypeOK
<1>6. TotalsOK'
  <2>1. GetTotalSupply(store)' = GetTotalSupply(store)
        /\ GetTotalSupply(cache)' = GetTotalSupply(r.st)
    BY <1>2 DEF GetTotalSupply
  <2> QED BY <1>2, <1>3, <2>1 DEF TotalsOK, BranchInv
<1>7. RunOK'
  BY <1>1, <1>2, <1>4 DEF BranchInv, RunOK
<1>8. UserBranch'
  <2> SUFFICES ASSUME run'.phase = "open", ByUser'
               PROVE  UserBranch'
    BY DEF UserBranch
  <2>1. r.err = "nil" /\ ByUser
    BY <1>4 DEF ByUser
  <2>2. /\ cache.params = store.params
        /\ ~run.switched
        /\ \/ SignedByIssuer /\ store.params.denom \in Denom
           \/ /\ cache.supply = store.supply
              /\ GetTotalSupply(cache) = GetTotalSupply(store)
        /\ store.params # Absent =>
             \A d \in Denom :
               cache.supply[d] - store.supply[d] =
                 IF d = store.params.denom
                   THEN GetTotalSupply(cache) - GetTotalSupply(store) ELSE 0
        /\ \/ GetTotalSupply(cache) <= GetTotalSupply(store)
           \/ GetTotalSupply(cache) <= NewIntFromString(store.params.max_supply)
        /\ \A a \in Acct, d \in Denom :
             cache.bal[a][d] < store.bal[a][d] =>
               a \in run.signers \/ (SignedByIssuer /\ d = store.params.denom)
    BY <1>2, <2>1 DEF BranchInv, UserBranch
  <2>3. /\ SignedByIssuer' = SignedByIssuer
        /\ GetTotalSupply(store)' = GetTotalSupply(store)
        /\ GetTotalSupply(cache)' = GetTotalSupply(r.st)
    BY <1>2, <1>4 DEF SignedByIssuer, GetTotalSupply
  <2>4. /\ store.supply \in Supplies /\ cache.supply \in Supplies
        /\ r.st.supply \in Supplies
        /\ store.bal \in Balances /\ cache.bal \in Balances
        /\ r.st.bal \in Balances
    BY <1>1, <1>3 DEF Store
  <2>5. /\ GetTotalSupply(store) \in Int /\ GetTotalSupply(cache) \in Int
        /\ GetTotalSupply(r.st) \in Int
    BY <1>3 DEF BranchInv, TotalsOK
  <2>6. CASE Issuance(cache, r.st, run.signers)
    <3>1. SignedByIssuer /\ store.params.denom \in Denom
          /\ store.params # Absent /\ r.st.params = store.params
      BY <2>2, <2>6 DEF Issuance, SignedByIssuer
    <3>2. ~run'.switched
      BY <1>4, <2>2, <3>1
    <3>3. \A d \in Denom :
            r.st.supply[d] - store.supply[d] =
              IF d = store.params.denom
                THEN GetTotalSupply(r.st) - GetTotalSupply(store) ELSE 0
      <4> TAKE d \in Denom
      <4>1. r.st.supply[d] - cache.supply[d] =
              IF d = store.params.denom
                THEN GetTotalSupply(r.st) - GetTotalSupply(cache) ELSE 0
        BY <2>2, <2>6 DEF Issuance
      <4>2. cache.supply[d] - store.supply[d] =
              IF d = store.params.denom
                THEN GetTotalSupply(cache) - GetTotalSupply(store) ELSE 0
        BY <2>2, <3>1
      <4>3. /\ r.st.supply[d] \in Int /\ cache.supply[d] \in Int
            /\ store.supply[d] \in Int
        BY <2>4 DEF Supplies
      <4> QED BY <4>1, <4>2, <4>3, <2>5
    <3>4. store.params \in Params
      BY <1>1, <3>1 DEF Store
    <3>5. NewIntFromString(store.params.max_supply) \in Int
      BY <3>4 DEF NewIntFromString, Params, Numeral
    <3>6. \/ GetTotalSupply(r.st) <= GetTotalSupply(store)
          \/ GetTotalSupply(r.st) <= NewIntFromString(store.params.max_supply)
      BY <2>2, <2>5, <2>6, <3>5 DEF Issuance
    <3>7. \A a \in Acct, d \in Denom :
            r.st.bal[a][d] < store.bal[a][d] =>
              a \in run.signers \/ (SignedByIssuer /\ d = store.params.denom)
      BY <2>2, <2>4, <2>6, <3>1 DEF Issuance, Balances
    <3> QED BY <1>2, <1>4, <2>3, <3>1, <3>2, <3>3, <3>6, <3>7 DEF UserBranch
  <2>7. CASE Governance(cache, r.st, run.signers)
    BY <2>1, <2>7 DEF Governance, ByUser
  <2>8. CASE Transfer(cache, r.st, run.signers)
    <3>1. ~run'.switched /\ r.st.params = store.params
      BY <1>4, <2>2, <2>8 DEF Transfer
    <3>2. r.st.supply = cache.supply /\ GetTotalSupply(r.st) = GetTotalSupply(cache)
      BY <2>8 DEF Transfer
    <3>3. \A a \in Acct, d \in Denom :
            r.st.bal[a][d] < store.bal[a][d] =>
              a \in run.signers \/ (SignedByIssuer /\ d = store.params.denom)
      BY <2>2, <2>4, <2>8 DEF Transfer, Balances
    <3> QED BY <1>2, <1>4, <2>2, <2>3, <3>1, <3>2, <3>3 DEF UserBranch
  <2> QED BY <2>1, <2>6, <2>7, <2>8 DEF Lawful
<1>9. ParamsBranch'
  <2> SUFFICES ASSUME run'.phase = "open"
               PROVE  r.st.params = store.params
                        \/ (r.st.params # Absent /\ Validate(r.st.params))
    BY <1>2 DEF ParamsBranch
  <2>1. r.err = "nil" /\ run.phase = "open"
    BY <1>2, <1>4
  <2>2. cache.params = store.params
          \/ (cache.params # Absent /\ Validate(cache.params))
    BY <2>1 DEF BranchInv, ParamsBranch
  <2> QED BY <2>1, <2>2 DEF Lawful, Issuance, Governance, Transfer
<1> QED BY <1>5, <1>6, <1>7, <1>8, <1>9 DEF BranchInv

\* The steps of Next that execute a message.
MsgStep ==
  \/ \E m \in MintBurnInputs : ExecMint(m)
  \/ \E m \in MintBurnInputs : ExecBurn(m)
  \/ \E m \in UpdateInputs : ExecUpdateParams(m)
  \/ \E from, to \in Acct, d \in Denom, n \in SendInputs :
       ExecSend(from, to, d, n)

\* Every message a transaction executes is lawful for its signers.
LEMMA MsgLawful ==
  ASSUME BranchInv, MsgStep
  PROVE  \E r : Lawful(cache, r, run.signers) /\ Handled(r)
<1>1. Sound(cache)
  BY DEF BranchInv, TypeOK, TotalsOK, Sound
<1>2. MintBurnInputs \subseteq MintBurnMsg /\ UpdateInputs \subseteq UpdateMsg
  BY ChainAssumption DEF MintBurnInputs, MintBurnMsg, UpdateInputs, UpdateMsg
<1>7. run.signers \in SUBSET Acct
  BY DEF BranchInv, TypeOK, Run
<1>3. CASE \E m \in MintBurnInputs : ExecMint(m)
  BY <1>1, <1>2, <1>3, <1>7, MintLawful DEF ExecMint, Signs
<1>4. CASE \E m \in MintBurnInputs : ExecBurn(m)
  BY <1>1, <1>2, <1>4, BurnLawful DEF ExecBurn, Signs
<1>5. CASE \E m \in UpdateInputs : ExecUpdateParams(m)
  BY <1>1, <1>2, <1>5, UpdateParamsLawful DEF ExecUpdateParams, Signs
<1>6. CASE \E from, to \in Acct, d \in Denom, n \in SendInputs :
             ExecSend(from, to, d, n)
  <2>1. PICK from \in Acct, to \in Acct, d \in Denom, n \in SendInputs :
               ExecSend(from, to, d, n)
    BY <1>6
  <2>2. n \in Nat /\ from \in run.signers
    BY <2>1, ChainAssumption DEF ExecSend
  <2> QED BY <1>1, <2>1, <2>2, SendLawful DEF ExecSend
<1> QED BY <1>3, <1>4, <1>5, <1>6 DEF MsgStep

\* When the branch equals the store, its transaction has done nothing yet.
LEMMA FreshBranch ==
  TypeOK /\ cache = store /\ run.switched = FALSE =>
    UserBranch /\ ParamsBranch
<1> SUFFICES ASSUME TypeOK, cache = store, run.switched = FALSE
             PROVE  UserBranch /\ ParamsBranch
  OBVIOUS
<1>1. store.supply \in Supplies /\ store.bal \in Balances
  BY DEF TypeOK, Store
<1>2. \A d \in Denom : store.supply[d] \in Int
  BY <1>1 DEF Supplies
<1>3. \A a \in Acct, d \in Denom : store.bal[a][d] \in Int
  BY <1>1 DEF Balances
<1>4. GetTotalSupply(store) \in Int
  BY DEF TypeOK, Store, GetTotalSupply, NewIntFromString, Numeral
<1> QED BY <1>2, <1>3, <1>4 DEF UserBranch, ParamsBranch

\* The chain starts in BranchInv.
LEMMA InitBranch == Init => BranchInv
<1> SUFFICES ASSUME Init PROVE BranchInv
  OBVIOUS
<1>1. PICK g \in GenesisBanks :
         /\ \/ store = EmptyModule(g)
            \/ \E p \in GenesisParams : store = InitGenesis(EmptyModule(g), p)
         /\ base = g.supply
  BY DEF Init
<1>2. g.bal \in Balances /\ g.supply \in Supplies
  BY ChainAssumption
<1>3. store \in Store /\ store.total = Absent
  <2>1. EmptyModule(g) \in Store /\ EmptyModule(g).total = Absent
    BY <1>2 DEF EmptyModule, Store
  <2>2. ASSUME NEW p \in GenesisParams
        PROVE  /\ InitGenesis(EmptyModule(g), p) \in Store
               /\ InitGenesis(EmptyModule(g), p).total = Absent
    BY <2>1, ChainAssumption DEF InitGenesis, Store
  <2> QED BY <1>1, <2>1, <2>2
<1>4. GetTotalSupply(store) = 0
  BY <1>3 DEF GetTotalSupply
<1>5. cache = store /\ run = Idle /\ switched = FALSE
  BY DEF Init
<1>6. Idle \in Run /\ run.switched = FALSE /\ run.phase = "idle"
  BY <1>5 DEF Idle, Run, Errors
<1>7. base \in [Denom -> Nat]
  BY <1>1, <1>2 DEF Supplies
<1>8. TypeOK
  BY <1>3, <1>5, <1>6, <1>7 DEF TypeOK
<1>9. TotalsOK /\ RunOK
  BY <1>4, <1>5, <1>6 DEF TotalsOK, RunOK
<1> QED BY <1>5, <1>6, <1>8, <1>9, FreshBranch DEF BranchInv

\* FreshBranch in the state after a step.
LEMMA FreshBranchNext ==
  (TypeOK /\ cache = store /\ run.switched = FALSE)' =>
    (UserBranch /\ ParamsBranch)'
BY FreshBranch, PTL

\* Steps after which the branch equals the store keep BranchInv.
LEMMA FreshStep ==
  ASSUME store' \in Store, cache' = store', run' \in Run,
         run'.switched = FALSE,
         run'.phase = "idle" => run' = Idle,
         run'.phase # "idle" => run'.signers = {Gov} \/ run'.signers \subseteq User,
         base' \in [Denom -> Nat], switched' \in BOOLEAN,
         GetTotalSupply(store)' \in 0 .. IntLimit,
         store'.params = Absent => GetTotalSupply(store)' = 0
  PROVE  BranchInv'
<1>1. TypeOK'
  BY DEF TypeOK
<1>2. TotalsOK'
  BY DEF TotalsOK, GetTotalSupply
<1>3. RunOK'
  BY DEF RunOK, Idle
<1>4. (UserBranch /\ ParamsBranch)'
  BY <1>1, FreshBranchNext
<1> QED BY <1>1, <1>2, <1>3, <1>4 DEF BranchInv

\* Every step keeps BranchInv.
LEMMA NextBranch == BranchInv /\ [Next]_vars => BranchInv'
<1> SUFFICES ASSUME BranchInv, [Next]_vars PROVE BranchInv'
  OBVIOUS
<1>1. /\ store \in Store /\ cache \in Store /\ run \in Run
      /\ base \in [Denom -> Nat] /\ switched \in BOOLEAN
      /\ GetTotalSupply(store) \in 0 .. IntLimit
      /\ store.params = Absent => GetTotalSupply(store) = 0
      /\ GetTotalSupply(cache) \in 0 .. IntLimit
      /\ cache.params = Absent => GetTotalSupply(cache) = 0
  BY DEF BranchInv, TypeOK, TotalsOK
<1>2. /\ Idle \in Run /\ Idle.switched = FALSE /\ Idle.phase = "idle"
  BY DEF Idle, Run, Errors
<1>3. ASSUME NEW S \in SUBSET Acct
      PROVE  /\ Opened(S) \in Run /\ Opened(S).switched = FALSE
             /\ Opened(S).phase = "open" /\ Opened(S).signers = S
  BY DEF Opened, Idle, Run, Errors
<1>4. run = Idle => cache = store
  BY <1>2 DEF BranchInv, RunOK
<1>5. CASE UNCHANGED vars
  BY <1>5 DEF vars, BranchInv, TypeOK, TotalsOK, RunOK, UserBranch, ParamsBranch,
              ByUser, SignedByIssuer, GetTotalSupply
<1>6. ASSUME NEW S \in SUBSET User, NEW payer \in S, NEW d \in Denom,
             NEW fee \in Fees, BeginTx(S, payer, d, fee)
      PROVE  BranchInv'
  <2>1. /\ store' = Move(store, payer, FeeCollector, d, fee)
        /\ Has(store, payer, d, fee) /\ cache' = store' /\ run' = Opened(S)
        /\ base' = base /\ switched' = switched
    BY <1>6 DEF BeginTx
  <2>2. payer \in Acct /\ FeeCollector \in Acct /\ fee \in Nat /\ S \in SUBSET Acct
    BY ChainAssumption DEF User
  <2>3. store' \in Store /\ store'.params = store.params /\ store'.total = store.total
    BY <1>1, <2>1, <2>2, MoveLemma
  <2>4. GetTotalSupply(store)' = GetTotalSupply(store)
    BY <2>3 DEF GetTotalSupply
  <2>5. /\ run' \in Run /\ run'.switched = FALSE /\ run'.phase = "open"
        /\ run'.signers \subseteq User
    BY <1>3, <2>1, <2>2
  <2> QED BY <1>1, <2>1, <2>3, <2>4, <2>5, FreshStep
<1>7. CASE BeginProposal
  <2>1. /\ store' = store /\ cache' = cache /\ cache = store
        /\ run' = Opened({Gov}) /\ base' = base /\ switched' = switched
    BY <1>4, <1>7 DEF BeginProposal
  <2>2. GetTotalSupply(store)' = GetTotalSupply(store)
    BY <2>1 DEF GetTotalSupply
  <2>3. /\ run' \in Run /\ run'.switched = FALSE /\ run'.phase = "open"
        /\ run'.signers = {Gov}
    BY <1>3, <2>1
  <2> QED BY <1>1, <2>1, <2>2, <2>3, FreshStep
<1>8. CASE MsgStep
  BY <1>8, MsgLawful, HandledBranch
<1>9. CASE CommitTx
  <2>1. /\ store' = cache /\ cache' = cache /\ run' = Idle /\ base' = base
        /\ switched' = (switched \/ run.switched)
    BY <1>9 DEF CommitTx
  <2>2. GetTotalSupply(store)' = GetTotalSupply(cache)
    BY <2>1 DEF GetTotalSupply
  <2>3. switched' \in BOOLEAN
    BY <2>1
  <2> QED BY <1>1, <1>2, <2>1, <2>2, <2>3, FreshStep
<1>10. CASE Rollback
  <2>1. /\ store' = store /\ cache' = store /\ run' = Idle /\ base' = base
        /\ switched' = switched
    BY <1>10 DEF Rollback
  <2>2. GetTotalSupply(store)' = GetTotalSupply(store)
    BY <2>1 DEF GetTotalSupply
  <2> QED BY <1>1, <1>2, <2>1, <2>2, FreshStep
<1>11. CASE Inflate
  <2> DEFINE b == Credit(store.bal, FeeCollector, BondDenom, 1)
             t == [store.supply EXCEPT ![BondDenom] = @ + 1]
  <2>1. /\ store' = [store EXCEPT !.supply = t, !.bal = b]
        /\ cache' = store' /\ run' = run /\ run = Idle
        /\ switched' = switched
        /\ base' = [base EXCEPT ![BondDenom] = @ + 1]
        /\ store.supply[BondDenom] < IntLimit
    BY <1>11 DEF Inflate
  <2>2. store.bal \in Balances /\ store.supply \in Supplies /\ BondDenom \in Denom
    BY <1>1, ChainAssumption DEF Store
  <2>3. b \in Balances /\ t \in Supplies
    BY <2>1, <2>2 DEF Balances, Supplies, Credit
  <2>4. base' \in [Denom -> Nat]
    BY <1>1, <2>1, <2>2
  <2> HIDE DEF b, t
  <2>5. store' \in Store /\ store'.params = store.params /\ store'.total = store.total
    BY <1>1, <2>1, <2>3 DEF Store
  <2>6. GetTotalSupply(store)' = GetTotalSupply(store)
    BY <2>5 DEF GetTotalSupply
  <2> QED BY <1>1, <1>2, <2>1, <2>4, <2>5, <2>6, FreshStep
<1>12. CASE ExportImport
  <2>1. /\ store' = Reimport(store) /\ cache' = store' /\ run' = run
        /\ run = Idle /\ base' = store.supply /\ switched' = FALSE
        /\ store.params # Absent
    BY <1>12 DEF ExportImport, ExportOK
  <2>2. store' \in Store /\ store'.total = Absent /\ store'.params = store.params
    BY <1>1, <2>1 DEF Reimport, InitGenesis, EmptyModule, ExportGenesis, Store
  <2>3. GetTotalSupply(store)' = 0
    BY <2>2 DEF GetTotalSupply
  <2>4. base' \in [Denom -> Nat]
    BY <1>1, <2>1 DEF Store, Supplies
  <2>5. /\ run' = Idle /\ run' \in Run /\ run'.switched = FALSE
        /\ run'.phase = "idle" /\ switched' \in BOOLEAN
    BY <1>2, <2>1
  <2>6. GetTotalSupply(store)' \in 0 .. IntLimit /\ cache' = store'
    BY <2>1, <2>3
  <2> QED BY <2>2, <2>3, <2>4, <2>5, <2>6, FreshStep
<1> QED BY <1>5, <1>6, <1>7, <1>8, <1>9, <1>10, <1>11, <1>12 DEF Next, MsgStep

\* The state is always well typed, totals and branches as BranchInv says.
THEOREM BranchTheorem == Spec => []BranchInv
BY InitBranch, NextBranch, PTL DEF Spec

\* Type correctness: no balance or supply is ever negative and no supply
\* leaves math.Int, whatever messages transactions hold.
THEOREM TypeTheorem == Spec => []TypeOK
<1>1. BranchInv => TypeOK
  BY DEF BranchInv
<1> QED BY <1>1, BranchTheorem, PTL

-----------------------------------------------------------------------------
(***************************************************************************)
(* What the stablecoin module guarantees on every chain: the module's      *)
(* total agrees with the bank, who may issue, how much, who can lose       *)
(* coins, who sets the parameters, and that the committed store implements *)
(* StablecoinLedger.  All of it follows from BranchInv.                    *)
(***************************************************************************)
\* The module agrees with the bank at genesis.
LEMMA InitTracked == Init => TrackedSupply
<1> SUFFICES ASSUME Init PROVE TrackedSupply
  OBVIOUS
<1>1. PICK g \in GenesisBanks :
         /\ \/ store = EmptyModule(g)
            \/ \E p \in GenesisParams : store = InitGenesis(EmptyModule(g), p)
         /\ base = g.supply
  BY DEF Init
<1>2. g.supply \in Supplies
  BY ChainAssumption
<1>3. store.supply = g.supply /\ store.total = Absent
  BY <1>1 DEF EmptyModule, InitGenesis
<1>4. GetTotalSupply(store) = 0
  BY <1>3 DEF GetTotalSupply
<1>5. Tracks(store)
  BY <1>1, <1>2, <1>3, <1>4 DEF Tracks, Issued, Supplies
<1>6. run.phase = "idle"
  BY DEF Init, Idle
<1> QED BY <1>5, <1>6 DEF TrackedSupply

\* Every step keeps the agreement.
LEMMA NextTracked == BranchInv /\ TrackedSupply /\ [Next]_vars => TrackedSupply'
<1> SUFFICES ASSUME BranchInv, TrackedSupply, [Next]_vars PROVE TrackedSupply'
  OBVIOUS
<1>1. /\ store \in Store /\ cache \in Store
      /\ base \in [Denom -> Nat]
      /\ store.supply \in Supplies /\ cache.supply \in Supplies
      /\ GetTotalSupply(store) \in Int /\ GetTotalSupply(cache) \in Int
      /\ cache.params = Absent => GetTotalSupply(cache) = 0
  BY DEF BranchInv, TypeOK, TotalsOK, Store
<1>2. Idle.phase = "idle" /\ Idle.switched = FALSE
  BY DEF Idle
<1>3. run = Idle => cache = store
  BY <1>2 DEF BranchInv, RunOK
<1>4. CASE UNCHANGED vars
  BY <1>4 DEF vars, TrackedSupply, Tracks, Issued, GetTotalSupply
<1>5. ASSUME NEW S \in SUBSET User, NEW payer \in S, NEW d \in Denom,
             NEW fee \in Fees, BeginTx(S, payer, d, fee)
      PROVE  TrackedSupply'
  <2>1. /\ store' = Move(store, payer, FeeCollector, d, fee)
        /\ Has(store, payer, d, fee) /\ cache' = store'
        /\ base' = base /\ switched' = switched
    BY <1>5 DEF BeginTx
  <2>2. payer \in Acct /\ FeeCollector \in Acct /\ fee \in Nat
    BY ChainAssumption DEF User
  <2>3. /\ store'.params = store.params /\ store'.total = store.total
        /\ store'.supply = store.supply
    BY <1>1, <2>1, <2>2, MoveLemma
  <2>4. Tracks(store)' = Tracks(store) /\ Tracks(cache)' = Tracks(store)
    BY <2>1, <2>3 DEF Tracks, Issued, GetTotalSupply
  <2> QED BY <2>1, <2>4 DEF TrackedSupply
<1>6. CASE BeginProposal
  <2>1. /\ store' = store /\ cache' = cache /\ cache = store
        /\ base' = base /\ switched' = switched
    BY <1>3, <1>6 DEF BeginProposal
  <2>2. Tracks(store)' = Tracks(store) /\ Tracks(cache)' = Tracks(store)
    BY <2>1 DEF Tracks, Issued, GetTotalSupply
  <2> QED BY <2>1, <2>2 DEF TrackedSupply
<1>7. CASE MsgStep
  <2>1. PICK r : Lawful(cache, r, run.signers) /\ Handled(r)
    BY <1>7, MsgLawful
  <2>2. /\ store' = store /\ cache' = r.st /\ base' = base
        /\ switched' = switched /\ run.phase = "open"
    BY <2>1 DEF Handled
  <2>3. Tracks(store)' = Tracks(store) /\ GetTotalSupply(cache)' = GetTotalSupply(r.st)
    BY <2>2 DEF Tracks, Issued, GetTotalSupply
  <2>4. ASSUME ~switched', ~run'.switched, run'.phase = "open"
        PROVE  Tracks(cache)'
    <3>1. run \in Run
      BY DEF BranchInv, TypeOK
    <3>2. /\ r.err = "nil"
          /\ ~run.switched
          /\ cache.params # Absent /\ r.st.params # Absent =>
               cache.params.denom = r.st.params.denom
      BY <2>1, <2>4, <3>1 DEF Handled, Run
    <3>3. Tracks(cache)
      BY <2>2, <2>4, <3>2 DEF TrackedSupply
    <3>4. /\ r.st \in Store /\ GetTotalSupply(r.st) \in Int
          /\ r.st.supply \in Supplies
      BY <2>1 DEF Lawful, Store
    <3>5. SUFFICES ASSUME NEW d \in Denom
                   PROVE  r.st.supply[d] - base[d] =
                            IF r.st.params # Absent /\ r.st.params.denom = d
                              THEN GetTotalSupply(r.st) ELSE 0
      BY <2>2, <2>3 DEF Tracks, Issued
    <3>6. cache.supply[d] - base[d] =
            IF cache.params # Absent /\ cache.params.denom = d
              THEN GetTotalSupply(cache) ELSE 0
      BY <3>3 DEF Tracks, Issued
    <3>7. /\ cache.supply[d] \in Int /\ r.st.supply[d] \in Int /\ base[d] \in Int
      BY <1>1, <3>4 DEF Supplies
    <3>8. CASE Issuance(cache, r.st, run.signers)
      <4>1. /\ cache.params # Absent /\ r.st.params = cache.params
            /\ r.st.supply[d] - cache.supply[d] =
                 IF d = cache.params.denom
                   THEN GetTotalSupply(r.st) - GetTotalSupply(cache) ELSE 0
        BY <3>8 DEF Issuance
      <4> QED BY <1>1, <3>4, <3>6, <3>7, <4>1
    <3>9. CASE Governance(cache, r.st, run.signers)
      <4>1. /\ r.st.params # Absent /\ r.st.supply = cache.supply
            /\ GetTotalSupply(r.st) = GetTotalSupply(cache)
        BY <3>9 DEF Governance
      <4> QED BY <1>1, <3>2, <3>6, <3>7, <4>1
    <3>10. CASE Transfer(cache, r.st, run.signers)
      BY <3>6, <3>10 DEF Transfer
    <3> QED BY <2>1, <3>2, <3>8, <3>9, <3>10 DEF Lawful
  <2> QED BY <2>2, <2>3, <2>4 DEF TrackedSupply
<1>8. CASE CommitTx
  <2>1. /\ store' = cache /\ base' = base /\ run' = Idle
        /\ switched' = (switched \/ run.switched) /\ run.phase = "open"
    BY <1>8 DEF CommitTx
  <2>2. Tracks(store)' = Tracks(cache)
    BY <2>1 DEF Tracks, Issued, GetTotalSupply
  <2>3. run'.phase # "open"
    BY <1>2, <2>1
  <2>4. ~switched' => Tracks(cache)
    BY <2>1 DEF TrackedSupply
  <2> QED BY <2>2, <2>3, <2>4 DEF TrackedSupply
<1>9. CASE Rollback
  <2>1. store' = store /\ base' = base /\ run' = Idle /\ switched' = switched
    BY <1>9 DEF Rollback
  <2>2. Tracks(store)' = Tracks(store)
    BY <2>1 DEF Tracks, Issued, GetTotalSupply
  <2>3. run'.phase # "open"
    BY <1>2, <2>1
  <2> QED BY <2>1, <2>2, <2>3 DEF TrackedSupply
<1>10. CASE Inflate
  <2> DEFINE t == [store.supply EXCEPT ![BondDenom] = @ + 1]
  <2>1. /\ store' = [store EXCEPT !.supply = t,
                       !.bal = Credit(store.bal, FeeCollector, BondDenom, 1)]
        /\ run' = run /\ run = Idle /\ switched' = switched
        /\ base' = [base EXCEPT ![BondDenom] = @ + 1]
    BY <1>10 DEF Inflate
  <2>2. BondDenom \in Denom
    BY ChainAssumption
  <2>3. \A d \in Denom : t[d] - base'[d] = store.supply[d] - base[d]
    BY <1>1, <2>1, <2>2 DEF Supplies
  <2> HIDE DEF t
  <2>4. /\ store'.supply = t /\ store'.params = store.params
        /\ store'.total = store.total
    BY <1>1, <2>1 DEF Store
  <2>5. GetTotalSupply(store)' = GetTotalSupply(store)
    BY <2>4 DEF GetTotalSupply
  <2>6. Tracks(store) => Tracks(store)'
    BY <2>3, <2>4, <2>5 DEF Tracks, Issued
  <2>7. run'.phase # "open"
    BY <1>2, <2>1
  <2> QED BY <2>1, <2>6, <2>7 DEF TrackedSupply
<1>11. CASE ExportImport
  <2>1. /\ store' = Reimport(store) /\ run' = run /\ run = Idle
        /\ base' = store.supply
    BY <1>11 DEF ExportImport
  <2>2. store'.supply = store.supply /\ store'.total = Absent
    BY <2>1 DEF Reimport, InitGenesis, EmptyModule
  <2>3. GetTotalSupply(store)' = 0
    BY <2>2 DEF GetTotalSupply
  <2>4. Tracks(store)'
    BY <1>1, <2>1, <2>2, <2>3 DEF Tracks, Issued, Supplies
  <2>5. run'.phase # "open"
    BY <1>2, <2>1
  <2> QED BY <2>4, <2>5 DEF TrackedSupply
<1> QED BY <1>4, <1>5, <1>6, <1>7, <1>8, <1>9, <1>10, <1>11 DEF Next, MsgStep

\* As long as the denomination is the one of the genesis, TotalSupplyKey is
\* exactly what the module added to the bank's supply of the stablecoin, and
\* it added nothing to any other denomination.
THEOREM TrackedSupplyTheorem == Spec => []TrackedSupply
BY InitTracked, NextTracked, BranchTheorem, PTL DEF Spec

-----------------------------------------------------------------------------
\* The error of the running transaction is the one of its last message, and a
\* transaction that is not running has none.
Underflowed == run.err = "total supply underflow"
UnderflowInv ==
  Underflowed =>
    run.phase = "failed"
      /\ (switched \/ run.switched \/ base[cache.params.denom] > 0)

\* Only Burn meets "total supply underflow", when the bank has more coins of
\* the stablecoin than the module counts; it leaves the parameters alone.
LEMMA UnderflowIsBurn ==
  ASSUME MsgStep, Underflowed', run \in Run,
         cache \in Store, GetTotalSupply(cache) \in Int
  PROVE  /\ cache.params # Absent /\ cache.params.denom \in Denom
         /\ cache'.params.denom = cache.params.denom
         /\ run.phase = "open" /\ run'.phase = "failed"
         /\ run.switched => run'.switched
         /\ base' = base /\ switched' = switched
         /\ GetTotalSupply(cache) < cache.supply[cache.params.denom]
<1>2. CASE \E m \in MintBurnInputs : ExecMint(m)
  <2>1. PICK m \in MintBurnInputs : Handled(Mint(cache, m))
    BY <1>2 DEF ExecMint
  <2>2. run'.err = MintError(cache, m)
    BY <2>1 DEF Handled, Mint, Run
  <2>3. AccessError(cache, m) # "total supply underflow"
    BY DEF AccessError
  <2>4. MintError(cache, m) # "total supply underflow"
    BY <2>3 DEF MintError
  <2> QED BY <2>2, <2>4 DEF Underflowed
<1>3. CASE \E m \in UpdateInputs : ExecUpdateParams(m)
  <2>1. PICK m \in UpdateInputs : Handled(UpdateParams(cache, m))
    BY <1>3 DEF ExecUpdateParams
  <2>2. run'.err = UpdateParams(cache, m).err
    BY <2>1 DEF Handled, Run
  <2>3. UpdateParams(cache, m).err # "total supply underflow"
    BY DEF UpdateParams
  <2> QED BY <2>2, <2>3 DEF Underflowed
<1>4. CASE \E from, to \in Acct, d \in Denom, n \in SendInputs :
             ExecSend(from, to, d, n)
  <2>1. PICK from \in Acct, to \in Acct, d \in Denom, n \in SendInputs :
               Handled(Send(cache, from, to, d, n))
    BY <1>4 DEF ExecSend
  <2>2. run'.err = Send(cache, from, to, d, n).err
    BY <2>1 DEF Handled, Run
  <2>3. Send(cache, from, to, d, n).err # "total supply underflow"
    BY DEF Send
  <2> QED BY <2>2, <2>3 DEF Underflowed
<1>5. CASE \E m \in MintBurnInputs : ExecBurn(m)
  <2>1. PICK m \in MintBurnInputs : Handled(Burn(cache, m))
    BY <1>5 DEF ExecBurn
  <2> DEFINE n == NewIntFromString(m.amount)
             d == cache.params.denom
             from == AccAddressFromBech32(m.addr)
             moved == Move(cache, from, Module, d, n)
             burned == BurnCoins(moved, d, n)
  <2>2. /\ run'.err = BurnError(cache, m)
        /\ BurnError(cache, m) = "total supply underflow"
        /\ run.phase = "open" /\ run'.phase = "failed"
        /\ run.switched => run'.switched
        /\ base' = base /\ switched' = switched
        /\ cache' = Burn(cache, m).st
    BY <2>1 DEF Handled, Burn, Run, Underflowed
  <2>3. AccessError(cache, m) \in {"nil", "ErrNotFound", "ErrPaused", "ErrNotIssuer"}
    BY DEF AccessError
  <2>4. /\ AccessError(cache, m) = "nil"
        /\ from # NoAcct /\ IsPositiveInt(m.amount) /\ d \in Denom
        /\ Has(cache, from, d, n) /\ BurnCoinsOK(cache, d, n)
        /\ GetTotalSupply(cache) < n
    BY <2>2, <2>3 DEF BurnError, Underflowed
  <2>5. cache.params # Absent
    BY <2>4 DEF AccessError
  <2>6. cache' = burned
    BY <2>2 DEF Burn
  <2>7. n <= cache.supply[d]
    BY <2>4 DEF BurnCoinsOK
  <2>8. burned.params = cache.params
    BY DEF Move, BurnCoins, Store
  <2>9. n \in Int /\ cache.supply[d] \in Int /\ GetTotalSupply(cache) \in Int
    <3>1. m \in MintBurnMsg
      BY ChainAssumption DEF MintBurnInputs, MintBurnMsg
    <3>2. n \in Int
      BY <3>1 DEF MintBurnMsg, Numeral, NewIntFromString
    <3>3. cache.supply \in Supplies
      BY DEF Store
    <3>4. \A e \in Denom : cache.supply[e] \in Int
      BY <3>3 DEF Supplies
    <3> QED BY <2>4, <3>2, <3>4
  <2> HIDE DEF n, d, burned, moved, from
  <2>10. GetTotalSupply(cache) < cache.supply[d]
    BY <2>4, <2>7, <2>9
  <2> QED BY <2>2, <2>4, <2>5, <2>6, <2>8, <2>10 DEF d
<1> QED BY <1>2, <1>3, <1>4, <1>5 DEF MsgStep

\* Nothing has failed at genesis, and what failed stays explained until the
\* branch is dropped.
LEMMA NextUnderflow ==
  BranchInv /\ TrackedSupply /\ UnderflowInv /\ [Next]_vars => UnderflowInv'
<1> SUFFICES ASSUME BranchInv, TrackedSupply, UnderflowInv, [Next]_vars,
                    Underflowed'
             PROVE  /\ run'.phase = "failed"
                    /\ switched' \/ run'.switched \/ base'[cache'.params.denom] > 0
  BY DEF UnderflowInv
<1>1. /\ cache \in Store /\ run \in Run
      /\ base \in [Denom -> Nat]
      /\ cache.supply \in Supplies
      /\ GetTotalSupply(cache) \in Int
  <2>1. cache \in Store /\ run \in Run /\ base \in [Denom -> Nat]
    BY DEF BranchInv, TypeOK
  <2>2. GetTotalSupply(cache) \in Int
    BY DEF BranchInv, TotalsOK
  <2> QED BY <2>1, <2>2 DEF Store
<1>2. Idle.err = "nil" /\ \A S : Opened(S).err = "nil"
  BY DEF Idle, Opened
<1>3. CASE MsgStep
  <2>1. /\ cache.params # Absent /\ cache.params.denom \in Denom
        /\ cache'.params.denom = cache.params.denom
        /\ run.phase = "open" /\ run'.phase = "failed"
        /\ run.switched => run'.switched
        /\ base' = base /\ switched' = switched
        /\ GetTotalSupply(cache) < cache.supply[cache.params.denom]
    BY <1>1, <1>3, UnderflowIsBurn
  <2>2. ASSUME ~switched, ~run.switched
        PROVE  base[cache.params.denom] > 0
    <3>1. Tracks(cache)
      BY <2>1, <2>2 DEF TrackedSupply
    <3>2. cache.supply[cache.params.denom] - base[cache.params.denom]
            = GetTotalSupply(cache)
      BY <2>1, <3>1 DEF Tracks, Issued
    <3>3. \A d \in Denom : cache.supply[d] \in Int /\ base[d] \in Int
      BY <1>1 DEF Supplies
    <3> QED BY <1>1, <2>1, <3>2, <3>3
  <2> QED BY <2>1, <2>2
<1>4. CASE UNCHANGED vars
  BY <1>4 DEF vars, UnderflowInv, Underflowed
<1>5. CASE \E S \in SUBSET User : \E payer \in S, d \in Denom, fee \in Fees :
              BeginTx(S, payer, d, fee)
  BY <1>2, <1>5 DEF BeginTx, Underflowed
<1>6. CASE BeginProposal
  BY <1>2, <1>6 DEF BeginProposal, Underflowed
<1>7. CASE CommitTx
  BY <1>2, <1>7 DEF CommitTx, Underflowed
<1>8. CASE Rollback
  BY <1>2, <1>8 DEF Rollback, Underflowed
<1>9. CASE Inflate
  BY <1>2, <1>9 DEF Inflate, Underflowed
<1>10. CASE ExportImport
  BY <1>2, <1>10 DEF ExportImport, Underflowed
<1> QED BY <1>3, <1>4, <1>5, <1>6, <1>7, <1>8, <1>9, <1>10 DEF Next, MsgStep

\* Burn's "total supply underflow" is met only after the denomination was
\* changed, or when coins of the stablecoin were not issued by this chain's
\* module: otherwise the total covers whatever the bank lets Burn destroy.
THEOREM UnderflowTheorem == Spec => []UnderflowExplained
<1>1. Init => UnderflowInv
  BY DEF Init, Idle, UnderflowInv, Underflowed
<1>2. UnderflowInv => UnderflowExplained
  BY DEF UnderflowInv, UnderflowExplained, Underflowed
<1> QED BY <1>1, <1>2, NextUnderflow, BranchTheorem, TrackedSupplyTheorem, PTL DEF Spec

-----------------------------------------------------------------------------
\* What the module has issued, by denomination; a store is balanced when its
\* total is the sum of that.
IssuedOf(s) == [d \in Denom |-> Issued(s, d)]
Balanced(s) == GetTotalSupply(s) = SumFunction(IssuedOf(s))

\* The branch of a message that failed may hold writes of the bank alone.
BalanceInv ==
  /\ Balanced(store)
  /\ run.phase # "failed" => Balanced(cache)

\* Nothing issued, and a total of zero, is balanced.
LEMMA SumOfNothing ==
  ASSUME NEW f, f = [d \in Denom |-> 0]
  PROVE  SumFunction(f) = 0
BY DenomAssumption, SumZero DEF SumFunction

\* Coins issued in one denomination change the sum by as much.
LEMMA IssuedInOne ==
  ASSUME NEW f \in [Denom -> Int], NEW g \in [Denom -> Int], NEW e \in Denom,
         \A d \in Denom \ {e} : g[d] = f[d]
  PROVE  SumFunction(g) = SumFunction(f) + (g[e] - f[e])
<1>1. \A x \in Denom : f[x] \in Int /\ g[x] \in Int
  OBVIOUS
<1> QED BY <1>1, DenomAssumption, SumChanged DEF SumFunction

\* A sum of what is issued is a number.
LEMMA IssuedIsInt ==
  ASSUME NEW s \in Store, base \in [Denom -> Nat]
  PROVE  IssuedOf(s) \in [Denom -> Int] /\ SumFunction(IssuedOf(s)) \in Int
<1>1. s.supply \in Supplies
  BY DEF Store
<1>2. IssuedOf(s) \in [Denom -> Int]
  BY <1>1 DEF IssuedOf, Issued, Supplies
<1>3. \A x \in Denom : IssuedOf(s)[x] \in Int
  BY <1>2
<1>4. DOMAIN IssuedOf(s) = Denom
  BY <1>2
<1> HIDE DEF IssuedOf
<1> QED BY <1>2, <1>3, <1>4, DenomAssumption, SumRemove DEF SumFunction

\* Balance looks at the total and at the supply alone.
LEMMA SameBalance ==
  ASSUME NEW s, NEW t, s.supply = t.supply,
         GetTotalSupply(s) = GetTotalSupply(t), Balanced(s)
  PROVE  Balanced(t)
BY DEF Balanced, IssuedOf, Issued

\* A chain begins with nothing issued, and so does an imported one.
LEMMA FreshBalance ==
  ASSUME NEW s, s.total = Absent, s.supply \in Supplies, base = s.supply
  PROVE  Balanced(s)
<1>1. GetTotalSupply(s) = 0
  BY DEF GetTotalSupply
<1>2. IssuedOf(s) = [d \in Denom |-> 0]
  BY DEF IssuedOf, Issued, Supplies
<1> QED BY <1>1, <1>2, SumOfNothing DEF Balanced

\* A lawful message that succeeds changes the total by what it issues.
LEMMA LawfulBalance ==
  ASSUME NEW c \in Store, NEW r, NEW S, Lawful(c, r, S), r.err = "nil",
         base \in [Denom -> Nat], GetTotalSupply(c) \in Int, Balanced(c)
  PROVE  Balanced(r.st)
<1>1. r.st \in Store /\ GetTotalSupply(r.st) \in Int
  BY DEF Lawful
<1>2. CASE Issuance(c, r.st, S)
  <2> DEFINE e == c.params.denom
             f == IssuedOf(c)
             g == IssuedOf(r.st)
  <2>1. e \in Denom
    BY <1>2 DEF Issuance
  <2>2. /\ f \in [Denom -> Int] /\ g \in [Denom -> Int]
        /\ SumFunction(f) \in Int
    BY <1>1, IssuedIsInt
  <2>3. c.supply \in Supplies /\ r.st.supply \in Supplies
    BY <1>1 DEF Store
  <2>4. \A d \in Denom : c.supply[d] \in Int /\ r.st.supply[d] \in Int /\ base[d] \in Int
    BY <2>3 DEF Supplies
  <2>5. \A d \in Denom : /\ f[d] = c.supply[d] - base[d]
                         /\ g[d] = r.st.supply[d] - base[d]
    BY DEF IssuedOf, Issued
  <2>6. \A d \in Denom :
          r.st.supply[d] - c.supply[d] =
            IF d = e THEN GetTotalSupply(r.st) - GetTotalSupply(c) ELSE 0
    BY <1>2 DEF Issuance
  <2> HIDE DEF e, f, g
  <2>7. \A d \in Denom : g[d] = IF d = e
                                  THEN f[d] + (GetTotalSupply(r.st) - GetTotalSupply(c))
                                  ELSE f[d]
    BY <1>1, <2>4, <2>5, <2>6
  <2>8. SumFunction(g) = SumFunction(f) + (g[e] - f[e])
    BY <2>1, <2>2, <2>7, IssuedInOne
  <2>9. g[e] = f[e] + (GetTotalSupply(r.st) - GetTotalSupply(c)) /\ f[e] \in Int
    BY <2>1, <2>2, <2>7
  <2>10. GetTotalSupply(c) = SumFunction(f)
    BY DEF Balanced, f
  <2>11. GetTotalSupply(r.st) = SumFunction(g)
    BY <1>1, <2>2, <2>8, <2>9, <2>10
  <2> QED BY <2>11 DEF Balanced, g
<1>3. CASE Governance(c, r.st, S)
  BY <1>3, SameBalance DEF Governance
<1>4. CASE Transfer(c, r.st, S)
  BY <1>4, SameBalance DEF Transfer
<1> QED BY <1>2, <1>3, <1>4 DEF Lawful

\* A chain starts balanced.
LEMMA InitBalance == Init => BalanceInv
<1> SUFFICES ASSUME Init PROVE BalanceInv
  OBVIOUS
<1>1. PICK g \in GenesisBanks :
         /\ \/ store = EmptyModule(g)
            \/ \E p \in GenesisParams : store = InitGenesis(EmptyModule(g), p)
         /\ base = g.supply
  BY DEF Init
<1>2. g.supply \in Supplies
  BY ChainAssumption
<1>3. store.supply = g.supply /\ store.total = Absent
  BY <1>1 DEF EmptyModule, InitGenesis
<1>4. Balanced(store)
  BY <1>1, <1>2, <1>3, FreshBalance
<1> QED BY <1>4 DEF Init, BalanceInv

\* Every step keeps the balance.
LEMMA NextBalance == BranchInv /\ BalanceInv /\ [Next]_vars => BalanceInv'
<1> SUFFICES ASSUME BranchInv, BalanceInv, [Next]_vars PROVE BalanceInv'
  OBVIOUS
<1>1. /\ store \in Store /\ cache \in Store
      /\ base \in [Denom -> Nat]
      /\ store.supply \in Supplies
      /\ GetTotalSupply(store) \in Int /\ GetTotalSupply(cache) \in Int
  BY DEF BranchInv, TypeOK, TotalsOK, Store
<1>2. run = Idle => cache = store
  BY DEF BranchInv, RunOK, Idle
<1>3. Balanced(store)
  BY DEF BalanceInv
<1>4. ASSUME NEW s, base' = base, store' = s, Balanced(s),
             \/ cache' = s
             \/ cache' = cache /\ Balanced(cache)
             \/ run'.phase = "failed"
      PROVE  BalanceInv'
  BY <1>4 DEF BalanceInv, Balanced, IssuedOf, Issued, GetTotalSupply
<1>5. CASE UNCHANGED vars
  BY <1>5 DEF vars, BalanceInv, Balanced, IssuedOf, Issued, GetTotalSupply
<1>6. ASSUME NEW S \in SUBSET User, NEW payer \in S, NEW d \in Denom,
             NEW fee \in Fees, BeginTx(S, payer, d, fee)
      PROVE  BalanceInv'
  <2> DEFINE s == Move(store, payer, FeeCollector, d, fee)
  <2>1. /\ store' = s /\ cache' = s /\ base' = base
        /\ Has(store, payer, d, fee)
    BY <1>6 DEF BeginTx
  <2>2. payer \in Acct /\ FeeCollector \in Acct /\ fee \in Nat
    BY ChainAssumption DEF User
  <2>3. s.supply = store.supply /\ s.total = store.total
    BY <1>1, <2>1, <2>2, MoveLemma
  <2>4. Balanced(s)
    BY <1>3, <2>3, SameTotal, SameBalance
  <2> HIDE DEF s
  <2> QED BY <1>4, <2>1, <2>4
<1>7. CASE BeginProposal
  BY <1>2, <1>3, <1>4, <1>7 DEF BeginProposal
<1>8. CASE MsgStep
  <2>1. PICK r : Lawful(cache, r, run.signers) /\ Handled(r)
    BY <1>8, MsgLawful
  <2>2. /\ store' = store /\ cache' = r.st /\ base' = base
        /\ run.phase = "open"
    BY <2>1 DEF Handled
  <2>3. CASE r.err = "nil"
    <3>1. Balanced(cache)
      BY <2>2 DEF BalanceInv
    <3>2. Balanced(r.st)
      BY <1>1, <2>1, <2>3, <3>1, LawfulBalance
    <3>3. Balanced(store)' /\ Balanced(cache)'
      BY <1>3, <2>2, <3>2 DEF Balanced, IssuedOf, Issued, GetTotalSupply
    <3> QED BY <3>3 DEF BalanceInv
  <2>4. CASE r.err # "nil"
    <3>1. run'.phase = "failed"
      <4>1. run \in Run
        BY DEF BranchInv, TypeOK
      <4> QED BY <2>1, <2>4, <4>1 DEF Handled, Run
    <3> QED BY <1>3, <1>4, <2>2, <3>1
  <2> QED BY <2>3, <2>4
<1>9. CASE CommitTx
  <2>1. store' = cache /\ cache' = cache /\ base' = base /\ run.phase = "open"
    BY <1>9 DEF CommitTx
  <2>2. Balanced(cache)
    BY <2>1 DEF BalanceInv
  <2> QED BY <1>4, <2>1, <2>2
<1>10. CASE Rollback
  BY <1>3, <1>4, <1>10 DEF Rollback
<1>11. CASE Inflate
  <2> DEFINE t == [store.supply EXCEPT ![BondDenom] = @ + 1]
  <2>1. /\ store' = [store EXCEPT !.supply = t,
                       !.bal = Credit(store.bal, FeeCollector, BondDenom, 1)]
        /\ cache' = store'
        /\ base' = [base EXCEPT ![BondDenom] = @ + 1]
    BY <1>11 DEF Inflate
  <2>2. BondDenom \in Denom
    BY ChainAssumption
  <2>3. \A d \in Denom : t[d] - base'[d] = store.supply[d] - base[d]
    BY <1>1, <2>1, <2>2 DEF Supplies
  <2> HIDE DEF t
  <2>4. store'.supply = t /\ store'.total = store.total
    BY <1>1, <2>1 DEF Store
  <2>5. GetTotalSupply(store)' = GetTotalSupply(store)
    BY <2>4 DEF GetTotalSupply
  <2>6. IssuedOf(store)' = IssuedOf(store)
    BY <2>3, <2>4 DEF IssuedOf, Issued
  <2>7. Balanced(store)'
    BY <1>3, <2>5, <2>6 DEF Balanced
  <2>8. Balanced(cache)'
    BY <2>1, <2>7 DEF Balanced, IssuedOf, Issued, GetTotalSupply
  <2> QED BY <2>7, <2>8 DEF BalanceInv
<1>12. CASE ExportImport
  <2>1. store' = Reimport(store) /\ cache' = store' /\ base' = store.supply
    BY <1>12 DEF ExportImport
  <2>2. store'.supply = store.supply /\ store'.total = Absent
    BY <2>1 DEF Reimport, InitGenesis, EmptyModule
  <2>3. GetTotalSupply(store)' = 0 /\ IssuedOf(store)' = [d \in Denom |-> 0]
    BY <1>1, <2>1, <2>2 DEF GetTotalSupply, IssuedOf, Issued, Supplies
  <2>4. Balanced(store)'
    BY <2>3, SumOfNothing DEF Balanced
  <2>5. Balanced(cache)'
    BY <2>1, <2>4 DEF Balanced, IssuedOf, Issued, GetTotalSupply
  <2> QED BY <2>4, <2>5 DEF BalanceInv
<1> QED BY <1>5, <1>6, <1>7, <1>8, <1>9, <1>10, <1>11, <1>12 DEF Next, MsgStep

\* Even when governance changes the denomination while coins are out, the
\* module's total is the sum of what it issued over all denominations.
THEOREM IssuanceBalancedTheorem == Spec => []IssuanceBalanced
<1>1. BalanceInv => IssuanceBalanced
  BY DEF BalanceInv, Balanced, IssuedOf, IssuanceBalanced
<1> QED BY <1>1, InitBalance, NextBalance, BranchTheorem, PTL DEF Spec

-----------------------------------------------------------------------------
\* Nothing is issued under unchecked parameters of s.
Covered(s) == Unchecked(s) => NothingIssued(s)

\* This looks at the parameters, the total and the supply alone.
LEMMA SameCovered ==
  ASSUME NEW s, NEW t, s.supply = t.supply, s.params = t.params,
         GetTotalSupply(s) = GetTotalSupply(t), Covered(s)
  PROVE  Covered(t)
BY DEF Covered, Unchecked, NothingIssued, Issued

\* A lawful message that succeeds issues under checked parameters, or sets
\* some.
LEMMA LawfulCovered ==
  ASSUME NEW c, NEW r, NEW S, Lawful(c, r, S), r.err = "nil", Covered(c)
  PROVE  Covered(r.st)
<1>1. CASE Issuance(c, r.st, S)
  <2>1. ~Unchecked(c)
    <3>1. Validate(c.params) \/ GetTotalSupply(c) # 0
      BY <1>1 DEF Issuance
    <3> QED BY <1>1, <3>1 DEF Covered, Unchecked, NothingIssued, Issuance
  <2> QED BY <1>1, <2>1 DEF Covered, Unchecked, Issuance
<1>2. CASE Governance(c, r.st, S)
  BY <1>2 DEF Covered, Unchecked, Governance
<1>3. CASE Transfer(c, r.st, S)
  BY <1>3, SameCovered DEF Transfer
<1> QED BY <1>1, <1>2, <1>3 DEF Lawful

\* A chain starts with nothing issued, also one that is imported.
LEMMA FreshCovered ==
  ASSUME NEW s, s.total = Absent, s.supply \in Supplies, base = s.supply
  PROVE  Covered(s)
BY DEF Covered, NothingIssued, Issued, GetTotalSupply, Supplies

\* So is the first state of a chain, whatever the genesis holds.
LEMMA InitCovered == Init => UncheckedIssuesNothing
<1> SUFFICES ASSUME Init PROVE UncheckedIssuesNothing
  OBVIOUS
<1>1. PICK g \in GenesisBanks :
         /\ \/ store = EmptyModule(g)
            \/ \E p \in GenesisParams : store = InitGenesis(EmptyModule(g), p)
         /\ base = g.supply
  BY DEF Init
<1>2. g.supply \in Supplies
  BY ChainAssumption
<1>3. store.supply = g.supply /\ store.total = Absent
  BY <1>1 DEF EmptyModule, InitGenesis
<1>4. Covered(store)
  BY <1>1, <1>2, <1>3, FreshCovered
<1> QED BY <1>4 DEF Init, UncheckedIssuesNothing, Covered

\* Every step keeps it: a branch begins as the store and is changed by lawful
\* messages only.
LEMMA NextCovered ==
  BranchInv /\ UncheckedIssuesNothing /\ [Next]_vars => UncheckedIssuesNothing'
<1> SUFFICES ASSUME BranchInv, UncheckedIssuesNothing, [Next]_vars
             PROVE  UncheckedIssuesNothing'
  OBVIOUS
<1>1. /\ store \in Store /\ store.supply \in Supplies
      /\ base \in [Denom -> Nat]
  BY DEF BranchInv, TypeOK, Store
<1>2. run = Idle => cache = store
  BY DEF BranchInv, RunOK, Idle
<1>3. Covered(store) /\ (run.phase = "open" => Covered(cache))
  BY DEF UncheckedIssuesNothing, Covered
<1>4. ASSUME NEW s, base' = base, store' = s, Covered(s),
             \/ cache' = s
             \/ cache' = cache /\ Covered(cache)
             \/ run'.phase # "open"
      PROVE  UncheckedIssuesNothing'
  BY <1>4 DEF UncheckedIssuesNothing, Covered, Unchecked, NothingIssued, Issued,
              GetTotalSupply
<1>5. CASE UNCHANGED vars
  BY <1>5 DEF vars, UncheckedIssuesNothing, Unchecked, NothingIssued, Issued,
              GetTotalSupply
<1>6. ASSUME NEW S \in SUBSET User, NEW payer \in S, NEW d \in Denom,
             NEW fee \in Fees, BeginTx(S, payer, d, fee)
      PROVE  UncheckedIssuesNothing'
  <2> DEFINE s == Move(store, payer, FeeCollector, d, fee)
  <2>1. /\ store' = s /\ cache' = s /\ base' = base
        /\ Has(store, payer, d, fee)
    BY <1>6 DEF BeginTx
  <2>2. payer \in Acct /\ FeeCollector \in Acct /\ fee \in Nat
    BY ChainAssumption DEF User
  <2>3. s.supply = store.supply /\ s.total = store.total /\ s.params = store.params
    BY <1>1, <2>1, <2>2, MoveLemma
  <2>4. Covered(s)
    BY <1>3, <2>3, SameTotal, SameCovered
  <2> HIDE DEF s
  <2> QED BY <1>4, <2>1, <2>4
<1>7. CASE BeginProposal
  BY <1>2, <1>3, <1>4, <1>7 DEF BeginProposal
<1>8. CASE MsgStep
  <2>1. PICK r : Lawful(cache, r, run.signers) /\ Handled(r)
    BY <1>8, MsgLawful
  <2>2. /\ store' = store /\ cache' = r.st /\ base' = base
        /\ run.phase = "open"
    BY <2>1 DEF Handled
  <2>3. CASE r.err = "nil"
    <3>1. Covered(r.st)
      BY <1>3, <2>1, <2>2, <2>3, LawfulCovered
    <3> QED BY <1>3, <2>2, <3>1 DEF UncheckedIssuesNothing, Covered, Unchecked,
               NothingIssued, Issued, GetTotalSupply
  <2>4. CASE r.err # "nil"
    <3>1. run'.phase # "open"
      <4>1. run \in Run
        BY DEF BranchInv, TypeOK
      <4> QED BY <2>1, <2>4, <4>1 DEF Handled, Run
    <3> QED BY <1>3, <1>4, <2>2, <3>1
  <2> QED BY <2>3, <2>4
<1>9. CASE CommitTx
  BY <1>3, <1>4, <1>9 DEF CommitTx
<1>10. CASE Rollback
  BY <1>3, <1>4, <1>10 DEF Rollback
<1>11. CASE Inflate
  <2> DEFINE t == [store.supply EXCEPT ![BondDenom] = @ + 1]
  <2>1. /\ store' = [store EXCEPT !.supply = t,
                       !.bal = Credit(store.bal, FeeCollector, BondDenom, 1)]
        /\ cache' = store'
        /\ base' = [base EXCEPT ![BondDenom] = @ + 1]
    BY <1>11 DEF Inflate
  <2>2. BondDenom \in Denom
    BY ChainAssumption
  <2>3. \A d \in Denom : t[d] - base'[d] = store.supply[d] - base[d]
    BY <1>1, <2>1, <2>2 DEF Supplies
  <2> HIDE DEF t
  <2>4. store'.supply = t /\ store'.total = store.total /\ store'.params = store.params
    BY <1>1, <2>1 DEF Store
  <2>5. Covered(store)'
    BY <1>3, <2>3, <2>4 DEF Covered, Unchecked, NothingIssued, Issued,
                            GetTotalSupply
  <2> QED BY <2>1, <2>5 DEF UncheckedIssuesNothing, Covered, Unchecked,
             NothingIssued, Issued, GetTotalSupply
<1>12. CASE ExportImport
  <2>1. store' = Reimport(store) /\ cache' = store' /\ base' = store.supply
    BY <1>12 DEF ExportImport
  <2>2. store'.supply = store.supply /\ store'.total = Absent
    BY <2>1 DEF Reimport, InitGenesis, EmptyModule
  <2>3. NothingIssued(store)'
    BY <1>1, <2>1, <2>2 DEF NothingIssued, Issued, GetTotalSupply, Supplies
  <2> QED BY <2>1, <2>3 DEF UncheckedIssuesNothing, NothingIssued, Issued,
             GetTotalSupply
<1> QED BY <1>5, <1>6, <1>7, <1>8, <1>9, <1>10, <1>11, <1>12 DEF Next, MsgStep

\* Whatever parameters a genesis file brings, InitGenesis stores them
\* unchecked; but nothing is issued under parameters that Validate refuses, and
\* no transaction comes back to such parameters while coins are out.
THEOREM UncheckedIssuesNothingTheorem == Spec => []UncheckedIssuesNothing
BY InitCovered, NextCovered, BranchTheorem, PTL DEF Spec

-----------------------------------------------------------------------------
(***************************************************************************)
(* How a step changes the store.                                           *)
(***************************************************************************)
Kept ==
  /\ store' = store /\ base' = base
  /\ \/ run'.signers \in {run.signers, {}}
     \/ run.signers = {} /\ run'.signers = {Gov}

FeePaid ==
  /\ run.signers = {} /\ run'.signers \subseteq User
  /\ base' = base
  /\ store'.params = store.params /\ store'.supply = store.supply
  /\ GetTotalSupply(store)' = GetTotalSupply(store)
  /\ \A a \in Acct, d \in Denom :
       store'.bal[a][d] < store.bal[a][d] => a \in run'.signers

Committed ==
  /\ run.phase = "open" /\ run'.signers = {}
  /\ store' = cache /\ base' = base
  /\ GetTotalSupply(store)' = GetTotalSupply(cache)

Inflated ==
  /\ run' = run /\ base' # base
  /\ store'.params = store.params
  /\ GetTotalSupply(store)' = GetTotalSupply(store)
  /\ \A d \in Denom : store'.supply[d] - base'[d] = store.supply[d] - base[d]
  /\ \A a \in Acct, d \in Denom : ~(store'.bal[a][d] < store.bal[a][d])

Imported ==
  /\ run.signers = {} /\ run' = run
  /\ store.params # Absent
  /\ store'.params = store.params
  /\ store'.supply = store.supply /\ base' = store.supply
  /\ store'.bal = store.bal
  /\ GetTotalSupply(store)' = 0

\* A step keeps the store, takes a fee, commits a branch, inflates the
\* staking denomination or starts the chain anew.
LEMMA StoreStep ==
  ASSUME BranchInv, [Next]_vars
  PROVE  Kept \/ FeePaid \/ Committed \/ Inflated \/ Imported
<1>1. /\ store \in Store /\ run \in Run /\ base \in [Denom -> Nat]
      /\ store.bal \in Balances /\ store.supply \in Supplies
  BY DEF BranchInv, TypeOK, Store
<1>2. Idle.signers = {} /\ \A S \in SUBSET Acct : Opened(S).signers = S
  BY DEF Idle, Opened
<1>3. CASE UNCHANGED vars
  BY <1>3 DEF vars, Kept
<1>4. ASSUME NEW S \in SUBSET User, NEW payer \in S, NEW d \in Denom,
             NEW fee \in Fees, BeginTx(S, payer, d, fee)
      PROVE  FeePaid
  <2>1. /\ store' = Move(store, payer, FeeCollector, d, fee)
        /\ Has(store, payer, d, fee) /\ base' = base
        /\ run = Idle /\ run' = Opened(S)
    BY <1>4 DEF BeginTx
  <2>2. /\ payer \in Acct /\ FeeCollector \in Acct /\ fee \in Nat
        /\ S \in SUBSET Acct
    BY ChainAssumption DEF User
  <2>3. /\ store'.params = store.params /\ store'.total = store.total
        /\ store'.supply = store.supply
        /\ \A a \in Acct, e \in Denom :
             store'.bal[a][e] = store.bal[a][e]
               - (IF a = payer /\ e = d THEN fee ELSE 0)
               + (IF a = FeeCollector /\ e = d THEN fee ELSE 0)
    BY <1>1, <2>1, <2>2, MoveLemma
  <2>4. \A a \in Acct, e \in Denom :
          store'.bal[a][e] < store.bal[a][e] => a \in S
    BY <1>1, <2>2, <2>3 DEF Balances
  <2>5. GetTotalSupply(store)' = GetTotalSupply(store)
    BY <2>3 DEF GetTotalSupply
  <2> QED BY <1>2, <2>1, <2>2, <2>3, <2>4, <2>5 DEF FeePaid
<1>5. CASE BeginProposal
  <2>1. {Gov} \in SUBSET Acct
    OBVIOUS
  <2> QED BY <1>2, <1>5, <2>1 DEF BeginProposal, Kept
<1>6. CASE MsgStep
  <2>1. PICK r : Lawful(cache, r, run.signers) /\ Handled(r)
    BY <1>6, MsgLawful
  <2>2. store' = store /\ base' = base /\ run'.signers = run.signers
    BY <1>1, <2>1 DEF Handled, Run
  <2> QED BY <2>2 DEF Kept
<1>7. CASE CommitTx
  <2>1. store' = cache
    BY <1>7 DEF CommitTx
  <2>2. GetTotalSupply(store)' = GetTotalSupply(cache)
    BY <2>1 DEF GetTotalSupply
  <2> QED BY <1>2, <1>7, <2>2 DEF CommitTx, Committed
<1>8. CASE Rollback
  BY <1>2, <1>8 DEF Rollback, Kept
<1>9. CASE Inflate
  <2> DEFINE b == Credit(store.bal, FeeCollector, BondDenom, 1)
             t == [store.supply EXCEPT ![BondDenom] = @ + 1]
  <2>1. /\ store' = [store EXCEPT !.supply = t, !.bal = b]
        /\ run' = run /\ base' = [base EXCEPT ![BondDenom] = @ + 1]
    BY <1>9 DEF Inflate
  <2>2. BondDenom \in Denom /\ FeeCollector \in Acct
    BY ChainAssumption
  <2>3. \A d \in Denom : t[d] - base'[d] = store.supply[d] - base[d]
    BY <1>1, <2>1, <2>2 DEF Supplies
  <2>4. \A a \in Acct, d \in Denom : ~(b[a][d] < store.bal[a][d])
    BY <1>1, <2>2 DEF Balances, Credit
  <2>5. base' # base
    BY <1>1, <2>1, <2>2
  <2> HIDE DEF b, t
  <2>6. /\ store'.supply = t /\ store'.bal = b
        /\ store'.params = store.params /\ store'.total = store.total
    BY <1>1, <2>1 DEF Store
  <2>7. GetTotalSupply(store)' = GetTotalSupply(store)
    BY <2>6 DEF GetTotalSupply
  <2> QED BY <2>1, <2>3, <2>4, <2>5, <2>6, <2>7 DEF Inflated
<1>10. CASE ExportImport
  <2>1. /\ store' = Reimport(store) /\ run' = run /\ run = Idle
        /\ base' = store.supply /\ store.params # Absent
    BY <1>10 DEF ExportImport, ExportOK
  <2>2. /\ store'.supply = store.supply /\ store'.total = Absent
        /\ store'.params = store.params /\ store'.bal = store.bal
    BY <2>1 DEF Reimport, InitGenesis, EmptyModule, ExportGenesis
  <2>3. GetTotalSupply(store)' = 0
    BY <2>2 DEF GetTotalSupply
  <2> QED BY <1>2, <2>1, <2>2, <2>3 DEF Imported
<1> QED BY <1>3, <1>4, <1>5, <1>6, <1>7, <1>8, <1>9, <1>10 DEF Next, MsgStep

-----------------------------------------------------------------------------
\* What BranchInv says when a user's branch is committed.
LEMMA UserCommit ==
  ASSUME BranchInv, Committed, ByUser
  PROVE  /\ store'.params = store.params
         /\ \A d \in Denom : store'.supply[d] # store.supply[d] =>
              SignedByIssuer /\ d = store.params.denom
         /\ GetTotalSupply(store)' > GetTotalSupply(store) =>
              GetTotalSupply(store)' <= NewIntFromString(store.params.max_supply)
         /\ \A a \in Acct, d \in Denom :
              store'.bal[a][d] < store.bal[a][d] =>
                a \in run.signers \/ (SignedByIssuer /\ d = store.params.denom)
<1>1. /\ run.phase = "open" /\ store' = cache
      /\ GetTotalSupply(store)' = GetTotalSupply(cache)
  BY DEF Committed
<1>2. /\ cache.params = store.params
      /\ \/ SignedByIssuer /\ store.params.denom \in Denom
         \/ /\ cache.supply = store.supply
            /\ GetTotalSupply(cache) = GetTotalSupply(store)
      /\ store.params # Absent =>
           \A d \in Denom :
             cache.supply[d] - store.supply[d] =
               IF d = store.params.denom
                 THEN GetTotalSupply(cache) - GetTotalSupply(store) ELSE 0
      /\ \/ GetTotalSupply(cache) <= GetTotalSupply(store)
         \/ GetTotalSupply(cache) <= NewIntFromString(store.params.max_supply)
      /\ \A a \in Acct, d \in Denom :
           cache.bal[a][d] < store.bal[a][d] =>
             a \in run.signers \/ (SignedByIssuer /\ d = store.params.denom)
  BY <1>1 DEF BranchInv, UserBranch
<1>3. /\ store.supply \in Supplies /\ cache.supply \in Supplies
      /\ GetTotalSupply(store) \in Int /\ GetTotalSupply(cache) \in Int
  BY DEF BranchInv, TypeOK, TotalsOK, Store
<1>4. \A d \in Denom : store.supply[d] \in Int /\ cache.supply[d] \in Int
  BY <1>3 DEF Supplies
<1>5. \A d \in Denom : cache.supply[d] # store.supply[d] =>
        SignedByIssuer /\ d = store.params.denom
  <2> SUFFICES ASSUME NEW d \in Denom, cache.supply[d] # store.supply[d]
               PROVE  SignedByIssuer /\ d = store.params.denom
    OBVIOUS
  <2>1. SignedByIssuer
    BY <1>2
  <2>2. store.params # Absent
    BY <2>1 DEF SignedByIssuer
  <2>3. d = store.params.denom
    BY <1>2, <1>4, <2>2
  <2> QED BY <2>1, <2>3
<1>6. GetTotalSupply(cache) > GetTotalSupply(store) =>
        GetTotalSupply(cache) <= NewIntFromString(store.params.max_supply)
  BY <1>2, <1>3
<1> QED BY <1>1, <1>2, <1>5, <1>6

\* Only a transaction the issuer signed, while the module is not paused,
\* changes the bank's supply, and only of the stablecoin.
THEOREM IssuerOnlyTheorem == Spec => IssuerOnly
<1>1. BranchInv /\ [Next]_vars => [IssuerOnlyStep]_vars
  <2> SUFFICES ASSUME BranchInv, [Next]_vars PROVE IssuerOnlyStep
    OBVIOUS
  <2>1. Committed => IssuerOnlyStep
    BY UserCommit DEF IssuerOnlyStep
  <2>2. Kept \/ FeePaid \/ Inflated \/ Imported => IssuerOnlyStep
    BY DEF IssuerOnlyStep, Kept, FeePaid, Inflated, Imported
  <2> QED BY <2>1, <2>2, StoreStep
<1> QED BY <1>1, BranchTheorem, PTL DEF Spec, IssuerOnly

\* No user's transaction, whatever Mint and Burn messages it holds, takes
\* the total above max_supply or further above it.
THEOREM CapHoldsTheorem == Spec => CapHolds
<1>1. BranchInv /\ [Next]_vars => [CapHoldsStep]_vars
  <2> SUFFICES ASSUME BranchInv, [Next]_vars PROVE CapHoldsStep
    OBVIOUS
  <2>1. Committed => CapHoldsStep
    BY UserCommit DEF CapHoldsStep
  <2>2. GetTotalSupply(store) \in Nat
    BY DEF BranchInv, TotalsOK
  <2>3. Kept => GetTotalSupply(store)' = GetTotalSupply(store)
    BY DEF Kept, GetTotalSupply
  <2>4. Kept \/ FeePaid \/ Inflated \/ Imported => CapHoldsStep
    BY <2>2, <2>3 DEF CapHoldsStep, FeePaid, Inflated, Imported
  <2> QED BY <2>1, <2>4, StoreStep
<1> QED BY <1>1, BranchTheorem, PTL DEF Spec, CapHolds

\* A holder loses coins in a transaction only if he signed it or if the
\* issuer signed it, and the issuer can take nothing but the stablecoin.
THEOREM HolderProtectedTheorem == Spec => HolderProtected
<1>1. BranchInv /\ [Next]_vars => [HolderProtectedStep]_vars
  <2> SUFFICES ASSUME BranchInv, [Next]_vars PROVE HolderProtectedStep
    OBVIOUS
  <2>1. Committed => HolderProtectedStep
    BY UserCommit DEF HolderProtectedStep, Signers
  <2>2. FeePaid \/ Inflated => HolderProtectedStep
    BY DEF HolderProtectedStep, Signers, FeePaid, Inflated
  <2>3. Kept \/ Imported => HolderProtectedStep
    <3>1. store.bal \in Balances
      BY DEF BranchInv, TypeOK, Store
    <3>2. \A a \in Acct, d \in Denom : ~(store.bal[a][d] < store.bal[a][d])
      BY <3>1 DEF Balances
    <3> QED BY <3>2 DEF HolderProtectedStep, Kept, Imported
  <2> QED BY <2>1, <2>2, <2>3, StoreStep
<1> QED BY <1>1, BranchTheorem, PTL DEF Spec, HolderProtected

-----------------------------------------------------------------------------
(***************************************************************************)
(* Refinement of StablecoinLedger.                                         *)
(***************************************************************************)
IssuedMap == [d \in Denom |-> Issued(store, d)]

\* The ledger's data types are those of the chain.
LEMMA LedgerNames ==
  /\ Ledger!Params = Params
  /\ \A p : Ledger!Validate(p) <=> Validate(p)
  /\ \A t : Ledger!NewIntFromString(t) = NewIntFromString(t)
  /\ \A t : Ledger!AccAddressFromBech32(t) = AccAddressFromBech32(t)
<1>1. Ledger!Params = Params
  BY DEF Ledger!Params, Ledger!AddrText, Ledger!DenomText, Ledger!Numeral,
         Params, AddrText, DenomText, Numeral
<1>2. \A p : Ledger!Validate(p) <=> Validate(p)
  BY DEF Ledger!Validate, Ledger!AccAddressFromBech32, Ledger!IsPositiveInt,
         Ledger!IntOK, Ledger!NewIntFromString,
         Validate, AccAddressFromBech32, IsPositiveInt, IntOK, NewIntFromString
<1>3. /\ \A t : Ledger!NewIntFromString(t) = NewIntFromString(t)
      /\ \A t : Ledger!AccAddressFromBech32(t) = AccAddressFromBech32(t)
  BY DEF Ledger!AccAddressFromBech32, Ledger!NewIntFromString,
         AccAddressFromBech32, NewIntFromString
<1> QED BY <1>1, <1>2, <1>3

\* Genesis maps to an initial ledger.
LEMMA InitLedger == Init => Ledger!Init
<1> SUFFICES ASSUME Init PROVE Ledger!Init
  OBVIOUS
<1>1. PICK g \in GenesisBanks :
         /\ \/ store = EmptyModule(g)
            \/ \E p \in GenesisParams : store = InitGenesis(EmptyModule(g), p)
         /\ base = g.supply
  BY DEF Init
<1>2. store.supply = g.supply /\ store.total = Absent
  BY <1>1 DEF EmptyModule, InitGenesis
<1>3. g.supply \in Supplies
  BY ChainAssumption
<1>4. GetTotalSupply(store) = 0
  BY <1>2 DEF GetTotalSupply
<1>5. IssuedMap = [d \in Denom |-> 0]
  BY <1>1, <1>2, <1>3 DEF IssuedMap, Issued, Supplies
<1>6. store.params \in Params \cup {Absent}
  BY InitBranch DEF BranchInv, TypeOK, Store
<1>7. run.signers = {}
  BY DEF Init, Idle
<1> QED BY <1>4, <1>5, <1>6, <1>7, LedgerNames DEF Ledger!Init, IssuedMap

\* Every step of the chain is a step of the ledger or leaves it unchanged.
LEMMA NextLedger == BranchInv /\ [Next]_vars => [Ledger!Next]_(Ledger!ledgerVars)
<1> SUFFICES ASSUME BranchInv, [Next]_vars
             PROVE  Ledger!Next \/ UNCHANGED Ledger!ledgerVars
  OBVIOUS
<1>1. /\ store.supply \in Supplies /\ cache.supply \in Supplies
      /\ base \in [Denom -> Nat]
      /\ GetTotalSupply(store) \in 0 .. IntLimit
      /\ GetTotalSupply(cache) \in 0 .. IntLimit
      /\ cache.params \in Params \cup {Absent}
  BY DEF BranchInv, TypeOK, TotalsOK, Store
<1>2. \A d \in Denom : /\ store.supply[d] \in Int /\ cache.supply[d] \in Int
                       /\ base[d] \in Int
  BY <1>1 DEF Supplies
<1>3. ASSUME store'.params = store.params,
             GetTotalSupply(store)' = GetTotalSupply(store),
             IssuedMap' = IssuedMap,
             \/ run'.signers \in {run.signers, {}}
             \/ run.signers = {} /\ run'.signers = {Gov}
             \/ run.signers = {} /\ run'.signers \subseteq User
      PROVE  Ledger!Next \/ UNCHANGED Ledger!ledgerVars
  <2>1. CASE run'.signers = run.signers
    BY <1>3, <2>1 DEF Ledger!ledgerVars, IssuedMap
  <2>2. CASE run'.signers = {}
    BY <1>3, <2>2 DEF Ledger!Next, Ledger!End, IssuedMap
  <2>3. CASE run.signers = {} /\ run'.signers = {Gov}
    BY <1>3, <2>3 DEF Ledger!Next, Ledger!Begin, IssuedMap
  <2>4. CASE run.signers = {} /\ run'.signers \subseteq User
    <3>1. run'.signers \in SUBSET (Acct \ {Gov})
      BY <2>4 DEF User
    <3> QED BY <1>3, <2>4, <3>1 DEF Ledger!Next, Ledger!Begin, IssuedMap
  <2> QED BY <1>3, <2>1, <2>2, <2>3, <2>4
<1>4. CASE Kept
  <2>1. /\ store'.params = store.params
        /\ GetTotalSupply(store)' = GetTotalSupply(store)
        /\ IssuedMap' = IssuedMap
    BY <1>4 DEF Kept, GetTotalSupply, IssuedMap, Issued
  <2> QED BY <1>3, <1>4, <2>1 DEF Kept
<1>5. CASE FeePaid
  <2>1. IssuedMap' = IssuedMap
    BY <1>5 DEF FeePaid, IssuedMap, Issued
  <2> QED BY <1>3, <1>5, <2>1 DEF FeePaid
<1>6. CASE Inflated
  <2>1. IssuedMap' = IssuedMap
    BY <1>6 DEF Inflated, IssuedMap, Issued
  <2> QED BY <1>3, <1>6, <2>1 DEF Inflated
<1>7. CASE Imported
  <2>1. IssuedMap' = [d \in Denom |-> 0]
    BY <1>2, <1>7 DEF Imported, IssuedMap, Issued
  <2> QED BY <1>7, <2>1 DEF Imported, Ledger!Next, Ledger!Restart, IssuedMap
<1>8. CASE Committed /\ ~ByUser
  <2>1. run.signers = {Gov} /\ run'.signers = {}
    BY <1>8 DEF Committed, ByUser, BranchInv, RunOK, User
  <2>2. /\ store' = cache /\ GetTotalSupply(store)' \in 0 .. IntLimit
        /\ base' = base
    BY <1>1, <1>8 DEF Committed
  <2>3. store'.params = store.params
          \/ (store'.params \in Params /\ Validate(store'.params))
    BY <1>1, <1>8 DEF Committed, BranchInv, ParamsBranch
  <2>4. IssuedMap' \in [Denom -> Int]
    BY <1>2, <2>2 DEF IssuedMap, Issued
  <2> QED BY <2>1, <2>2, <2>3, <2>4, LedgerNames DEF Ledger!Next, Ledger!Govern, IssuedMap
<1>9. CASE Committed /\ ByUser
  <2>1. /\ run.phase = "open" /\ store' = cache /\ base' = base
        /\ run'.signers = {}
        /\ GetTotalSupply(store)' = GetTotalSupply(cache)
    BY <1>9 DEF Committed
  <2>2. /\ cache.params = store.params
        /\ \/ SignedByIssuer /\ store.params.denom \in Denom
           \/ /\ cache.supply = store.supply
              /\ GetTotalSupply(cache) = GetTotalSupply(store)
        /\ store.params # Absent =>
             \A d \in Denom :
               cache.supply[d] - store.supply[d] =
                 IF d = store.params.denom
                   THEN GetTotalSupply(cache) - GetTotalSupply(store) ELSE 0
        /\ \/ GetTotalSupply(cache) <= GetTotalSupply(store)
           \/ GetTotalSupply(cache) <= NewIntFromString(store.params.max_supply)
    BY <1>9, <2>1 DEF BranchInv, UserBranch
  <2>3. CASE cache.supply = store.supply
             /\ GetTotalSupply(cache) = GetTotalSupply(store)
    <3>1. IssuedMap' = IssuedMap
      BY <2>1, <2>3 DEF IssuedMap, Issued
    <3> QED BY <1>3, <2>1, <2>2, <2>3, <3>1
  <2>4. CASE SignedByIssuer /\ store.params.denom \in Denom
    <3> DEFINE k == GetTotalSupply(cache) - GetTotalSupply(store)
    <3>1. /\ k \in -IntLimit .. IntLimit
          /\ GetTotalSupply(store) + k = GetTotalSupply(cache)
          /\ GetTotalSupply(store) + k >= 0
      BY <1>1
    <3>2. k > 0 => GetTotalSupply(store) + k <= NewIntFromString(store.params.max_supply)
      BY <1>1, <2>2
    <3>3. store.params # Absent /\ ~store.params.paused
          /\ AccAddressFromBech32(store.params.issuer) \in run.signers
      BY <2>4 DEF SignedByIssuer
    <3>4. \A d \in Denom :
            cache.supply[d] - store.supply[d] =
              IF d = store.params.denom THEN k ELSE 0
      BY <2>2, <3>3
    <3> HIDE DEF k
    <3>5. \A d \in Denom :
            cache.supply[d] - base[d] =
              (store.supply[d] - base[d]) + (IF d = store.params.denom THEN k ELSE 0)
      BY <1>2, <3>1, <3>4
    <3>6. IssuedMap' = [IssuedMap EXCEPT ![store.params.denom] = @ + k]
      BY <1>2, <2>1, <2>4, <3>1, <3>5 DEF IssuedMap, Issued
    <3>7. GetTotalSupply(store)' = GetTotalSupply(store) + k
      BY <2>1, <3>1
    <3>8. Ledger!Settle
      BY <2>1, <2>2, <2>4, <3>1, <3>2, <3>3, <3>6, <3>7, LedgerNames
         DEF Ledger!Settle, IssuedMap
    <3> QED BY <3>8 DEF Ledger!Next
  <2> QED BY <2>2, <2>3, <2>4
<1> QED BY <1>4, <1>5, <1>6, <1>7, <1>8, <1>9, StoreStep

\* The committed store implements the ledger: net issuance only by the
\* issuer, unpaused, in the stablecoin and under max_supply; parameters only
\* by governance; an import keeps the parameters and forgets the total.
THEOREM LedgerTheorem == Spec => LedgerSpec
BY InitLedger, NextLedger, BranchTheorem, PTL DEF Spec, LedgerSpec, Ledger!Spec

\* From every store the chain reaches, burning what was just minted restores
\* balances, supply and total.
THEOREM BurnUndoesMintAlways == Spec => []BurnUndoesMint
<1>1. BranchInv => BurnUndoesMint
  <2> SUFFICES ASSUME BranchInv, NEW m \in MintBurnInputs,
                      Mint(store, m).err = "nil"
               PROVE  /\ Burn(Mint(store, m).st, m).err = "nil"
                      /\ Burn(Mint(store, m).st, m).st
                           = SetTotalSupply(store, GetTotalSupply(store))
    BY DEF BurnUndoesMint
  <2>1. m \in MintBurnMsg
    BY ChainAssumption DEF MintBurnInputs, MintBurnMsg
  <2>2. store \in Store /\ GetTotalSupply(store) \in 0 .. IntLimit
    BY DEF BranchInv, TypeOK, TotalsOK
  <2> QED BY <2>1, <2>2, BurnUndoesMintTheorem
<1> QED BY <1>1, BranchTheorem, PTL
=============================================================================

--------------------------- MODULE StablecoinChain ---------------------------
(***************************************************************************)
(* The stablecoin module at work in the chain.  Transactions and executed  *)
(* governance proposals run one after the other; each one runs its         *)
(* messages on a branch of the store (cache) that is written back only     *)
(* when every message succeeded.  The ante handler's fee is paid on the    *)
(* store itself and stays paid when the messages fail.  Between            *)
(* transactions the chain may inflate its staking denomination, or be      *)
(* exported and started again from the exported genesis.                   *)
(***************************************************************************)
EXTENDS StablecoinKeeper, Functions

CONSTANTS
  BondDenom,      \* the staking denomination
  GenesisParams,  \* stablecoin parameters a genesis file may carry
  GenesisBanks,   \* bank sections [bal, supply] a genesis file may carry
  ParamInputs,    \* parameters proposed to governance
  AmountInputs,   \* amount texts of Mint and Burn
  AddrInputs,     \* address texts of Mint, Burn and UpdateParams
  SendInputs,     \* amounts of MsgSend
  Fees,           \* transaction fees
  MaxMsgs,        \* bound: messages of one transaction
  InflationCap    \* bound: inflation stops when base reaches it

ASSUME ChainAssumption ==
  /\ BondDenom \in Denom
  /\ GenesisParams \subseteq Params
  /\ GenesisBanks \subseteq [bal : Balances, supply : Supplies]
  /\ ParamInputs \subseteq Params
  /\ AmountInputs \subseteq Numeral
  /\ AddrInputs \subseteq AddrText
  /\ SendInputs \subseteq Nat \ {0}
  /\ Fees \subseteq Nat
  /\ MaxMsgs \in Nat
  /\ InflationCap \in Nat

\* Accounts somebody holds a key of: module accounts sign nothing.
User == Acct \ {Module, Gov, FeeCollector}

VARIABLES
  store,     \* the state of the chain between transactions
  cache,     \* the branch the running transaction writes
  run,       \* the running transaction or proposal
  base,      \* history: supply not issued by the module since genesis
  switched   \* history: the denomination was changed since genesis

vars == <<store, cache, run, base, switched>>

Run == [phase    : {"idle", "open", "failed"},
        signers  : SUBSET Acct,   \* {Gov} for a governance proposal
        msgs     : Nat,           \* messages executed so far
        err      : Errors,        \* the error of the last message
        switched : BOOLEAN]       \* history: it changed the denomination

Idle == [phase |-> "idle", signers |-> {}, msgs |-> 0, err |-> "nil",
         switched |-> FALSE]
Opened(S) == [Idle EXCEPT !.phase = "open", !.signers = S]

-----------------------------------------------------------------------------
\* InitChain: the bank's section first, then the stablecoin section.  The
\* module manager passes over a module whose section is missing.
EmptyModule(g) == [params |-> Absent, total |-> Absent,
                   bal |-> g.bal, supply |-> g.supply]

Init ==
  /\ \E g \in GenesisBanks :
       /\ \/ store = EmptyModule(g)
          \/ \E p \in GenesisParams : store = InitGenesis(EmptyModule(g), p)
       /\ base = g.supply
  /\ cache = store
  /\ run = Idle
  /\ switched = FALSE

\* BaseApp.runTx: the ante handler checks the signatures and moves the fee.
BeginTx(S, payer, d, fee) ==
  /\ run = Idle
  /\ payer \in S
  /\ Has(store, payer, d, fee)
  /\ store' = Move(store, payer, FeeCollector, d, fee)
  /\ cache' = store'
  /\ run' = Opened(S)
  /\ UNCHANGED <<base, switched>>

\* x/gov's EndBlocker executes a passed proposal; it pays no fee.
BeginProposal ==
  /\ run = Idle
  /\ run' = Opened({Gov})
  /\ UNCHANGED <<store, cache, base, switched>>

\* One message of the running transaction was handled with result r.
Handled(r) ==
  /\ run.phase = "open"
  /\ run.msgs < MaxMsgs
  /\ cache' = r.st
  /\ run' = [run EXCEPT
       !.phase = IF r.err = "nil" THEN "open" ELSE "failed",
       !.msgs = @ + 1,
       !.err = r.err,
       !.switched = @ \/ (cache.params # Absent /\ r.st.params # Absent
                           /\ cache.params.denom # r.st.params.denom)]
  /\ UNCHANGED <<store, base, switched>>

\* The signer of a message is the account its authority text decodes to.
Signs(t) == AccAddressFromBech32(t) \in run.signers

ExecMint(m) == Signs(m.authority) /\ Handled(Mint(cache, m))
ExecBurn(m) == Signs(m.authority) /\ Handled(Burn(cache, m))
ExecUpdateParams(m) == Signs(m.authority) /\ Handled(UpdateParams(cache, m))

\* The bank's MsgSend.
Send(s, from, to, d, n) ==
  LET err == IF to \in Blocked THEN "blocked"
             ELSE IF ~Has(s, from, d, n) THEN "insufficient funds"
             ELSE "nil"
  IN  [err |-> err, st |-> IF err = "nil" THEN Move(s, from, to, d, n) ELSE s]

ExecSend(from, to, d, n) ==
  from \in run.signers /\ Handled(Send(cache, from, to, d, n))

\* Every message succeeded: the branch is written to the store.
CommitTx ==
  /\ run.phase = "open"
  /\ run.msgs > 0
  /\ store' = cache
  /\ switched' = (switched \/ run.switched)
  /\ run' = Idle
  /\ UNCHANGED <<cache, base>>

\* A message failed or panicked, or a user's transaction ran out of gas:
\* the branch is dropped.
Rollback ==
  /\ \/ run.phase = "failed"
     \/ run.phase = "open" /\ Gov \notin run.signers
  /\ cache' = store
  /\ run' = Idle
  /\ UNCHANGED <<store, base, switched>>

\* x/mint's BeginBlocker issues staking coins to the fee collector.
Inflate ==
  /\ run = Idle
  /\ base[BondDenom] < InflationCap
  /\ store.supply[BondDenom] < IntLimit
  /\ store' = [store EXCEPT
                 !.supply[BondDenom] = @ + 1,
                 !.bal = Credit(store.bal, FeeCollector, BondDenom, 1)]
  /\ cache' = store'
  /\ base' = [base EXCEPT ![BondDenom] = @ + 1]
  /\ UNCHANGED <<run, switched>>

\* The chain is exported and a new one starts from the exported genesis: the
\* bank's section is complete, the stablecoin section holds the parameters.
Reimport(s) == InitGenesis(EmptyModule(s), ExportGenesis(s))

ExportImport ==
  /\ run = Idle
  /\ ExportOK(store)
  /\ store' = Reimport(store)
  /\ cache' = store'
  /\ base' = store.supply
  /\ switched' = FALSE
  /\ UNCHANGED run

MintBurnInputs ==
  [authority : AddrInputs, addr : AddrInputs, amount : AmountInputs]
UpdateInputs == [authority : AddrInputs, params : ParamInputs]

Next ==
  \/ \E S \in SUBSET User : \E payer \in S, d \in Denom, fee \in Fees :
       BeginTx(S, payer, d, fee)
  \/ BeginProposal
  \/ \E m \in MintBurnInputs : ExecMint(m)
  \/ \E m \in MintBurnInputs : ExecBurn(m)
  \/ \E m \in UpdateInputs : ExecUpdateParams(m)
  \/ \E from, to \in Acct, d \in Denom, n \in SendInputs :
       ExecSend(from, to, d, n)
  \/ CommitTx
  \/ Rollback
  \/ Inflate
  \/ ExportImport

Spec == Init /\ [][Next]_vars

-----------------------------------------------------------------------------
\* The state has its type; no balance and no supply is ever negative and no
\* supply leaves the range of math.Int, in the store and in a branch.
TypeOK ==
  /\ store \in Store
  /\ cache \in Store
  /\ run \in Run
  /\ base \in [Denom -> Nat]
  /\ switched \in BOOLEAN

\* What the module has issued of d since genesis, as the bank sees it.
Issued(s, d) == s.supply[d] - base[d]
Tracks(s) ==
  \A d \in Denom :
    Issued(s, d) = IF s.params # Absent /\ s.params.denom = d
                     THEN GetTotalSupply(s) ELSE 0

\* As long as the denomination is the one of the genesis, the module's own
\* total (TotalSupplyKey) is exactly what it added to the bank's supply of
\* the stablecoin, and it added nothing to any other denomination.  Mint and
\* Burn update bank and total by separate calls.
TrackedSupply ==
  /\ ~switched => Tracks(store)
  /\ ~switched /\ ~run.switched /\ run.phase = "open" => Tracks(cache)

\* Even when governance changes the denomination while coins are out, the
\* total stays the sum of what was issued over all denominations.
IssuanceBalanced ==
  GetTotalSupply(store)
    = SumFunction([d \in Denom |-> Issued(store, d)])

\* Burn's "total supply underflow" is met only after the denomination was
\* changed, or when coins of the stablecoin were not issued by this chain's
\* module (genesis balances, also those of an exported chain).
UnderflowExplained ==
  run.err = "total supply underflow" =>
    switched \/ run.switched \/ base[cache.params.denom] > 0

\* Burning what was just minted restores every balance, the supply and the
\* total: Burn undoes Mint from every store the chain reaches.
BurnUndoesMint ==
  \A m \in MintBurnInputs :
    Mint(store, m).err = "nil" =>
      LET back == Burn(Mint(store, m).st, m)
      IN  /\ back.err = "nil"
          /\ back.st = SetTotalSupply(store, GetTotalSupply(store))

\* A genesis may carry parameters that Validate refuses, or none: InitGenesis
\* stores what it is given.  Nothing is issued under them: each of the tests
\* of Validate is made by Mint or by the bank in another form, and whatever
\* messages are executed the chain does not come back to such parameters while
\* coins are out.
Unchecked(s) == s.params = Absent \/ ~Validate(s.params)
NothingIssued(s) == GetTotalSupply(s) = 0 /\ \A d \in Denom : Issued(s, d) = 0
UncheckedIssuesNothing ==
  /\ Unchecked(store) => NothingIssued(store)
  /\ run.phase = "open" /\ Unchecked(cache) => NothingIssued(cache)

-----------------------------------------------------------------------------
ByUser == Gov \notin run.signers
Signers == run.signers \cup run'.signers
SignedByIssuer ==
  /\ store.params # Absent
  /\ ~store.params.paused
  /\ AccAddressFromBech32(store.params.issuer) \in run.signers

\* A user's transaction changes the bank's supply only if the issuer signed
\* it and the module is not paused, and then only of the stablecoin.
IssuerOnlyStep ==
  \A d \in Denom :
    ByUser /\ base' = base /\ store'.supply[d] # store.supply[d] =>
      SignedByIssuer /\ d = store.params.denom
IssuerOnly == [][IssuerOnlyStep]_vars

\* However many Mint and Burn messages a user's transaction holds, it never
\* takes the total above max_supply, nor further above it when governance
\* has lowered max_supply below what is out.
CapHoldsStep ==
  ByUser /\ GetTotalSupply(store)' > GetTotalSupply(store) =>
    GetTotalSupply(store)' <= NewIntFromString(store.params.max_supply)
CapHolds == [][CapHoldsStep]_vars

\* A holder loses coins in a transaction only if he signed it, or if they
\* are stablecoins, the issuer signed it and the module is not paused: the
\* issuer may burn from any account, but nothing but the stablecoin.
HolderProtectedStep ==
  \A a \in Acct, d \in Denom :
    ByUser /\ store'.bal[a][d] < store.bal[a][d] =>
      \/ a \in Signers
      \/ SignedByIssuer /\ d = store.params.denom
HolderProtected == [][HolderProtectedStep]_vars

-----------------------------------------------------------------------------
(***************************************************************************)
(* The inductive invariant.                                                *)
(***************************************************************************)
TotalsOK ==
  /\ GetTotalSupply(store) \in 0 .. IntLimit
  /\ GetTotalSupply(cache) \in 0 .. IntLimit
  /\ store.params = Absent => GetTotalSupply(store) = 0
  /\ cache.params = Absent => GetTotalSupply(cache) = 0

RunOK ==
  /\ run.phase = "idle" => run = Idle /\ cache = store
  /\ run.phase # "idle" => run.signers = {Gov} \/ run.signers \subseteq User

\* How far the branch of a user's transaction can be from the store.
UserBranch ==
  run.phase = "open" /\ ByUser =>
    /\ cache.params = store.params
    /\ ~run.switched
    /\ \/ SignedByIssuer /\ store.params.denom \in Denom
       \/ /\ cache.supply = store.supply
          /\ GetTotalSupply(cache) = GetTotalSupply(store)
    /\ store.params # Absent =>
         \A d \in Denom :
           cache.supply[d] - store.supply[d] =
             IF d = store.params.denom
               THEN GetTotalSupply(cache) - GetTotalSupply(store) ELSE 0
    /\ \/ GetTotalSupply(cache) <= GetTotalSupply(store)
       \/ GetTotalSupply(cache) <= NewIntFromString(store.params.max_supply)
    /\ \A a \in Acct, d \in Denom :
         cache.bal[a][d] < store.bal[a][d] =>
           a \in run.signers \/ (SignedByIssuer /\ d = store.params.denom)

ParamsBranch ==
  run.phase = "open" =>
    cache.params = store.params
      \/ (cache.params # Absent /\ Validate(cache.params))

\* A transaction sees the chain it started from, except for what its own
\* accepted messages did, and its messages did only what their signers may:
\* what IssuerOnly, CapHolds and HolderProtected rest on.
BranchInv ==
  TypeOK /\ TotalsOK /\ RunOK /\ UserBranch /\ ParamsBranch

-----------------------------------------------------------------------------
\* The committed store implements the ledger the module promises.
Ledger == INSTANCE StablecoinLedger WITH
  signers     <- run.signers,
  params      <- store.params,
  outstanding <- GetTotalSupply(store),
  issued      <- [d \in Denom |-> Issued(store, d)]
LedgerSpec == Ledger!Spec

-----------------------------------------------------------------------------
(***************************************************************************)
(* What a test of the repository says that the code does not do.           *)
(***************************************************************************)
\* TestAppImportExport compares every key of every store of a chain with the
\* chain started from its export: the stablecoin store must come back whole.
ImportKeepsStore ==
  run = Idle /\ ExportOK(store) => Reimport(store) = store

\* TestMsgUpdateParams lets the authority set types.Params{} and expects no
\* error: a proposal that is being executed could set them.
AuthoritySetsZeroParams ==
  run.phase = "open" /\ run.signers = {Gov} =>
    UpdateParams(cache, [authority |-> AddrOf(Gov),
                         params    |-> ZeroParams]).err = "nil"
==============================================================================

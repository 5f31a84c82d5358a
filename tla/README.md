# Formal model of the STB chain and wallet

TLA+ modules for the stablecoin chain (`stbchain`, a Cosmos SDK application with
one module of its own, `x/stablecoin`), for the commands its operator runs (export for
zero height, local and in-place test networks), for the protobuf codec between the
parts, and for the browser wallet (`stb-wallet`). TLC checks them on small
instances; TLAPS proves theorems about the chain, the wallet, the codec and the operator's
commands for every value of the constants. Paths below are relative to the repository.

## 1. The system: inventory

| Component | Source | State it keeps | Operations | What makes it correct |
|---|---|---|---|---|
| parameters and texts | `stbchain/x/stablecoin/types` | – | `Params.Validate`, parsing of amounts and addresses | only usable parameters pass |
| keeper, message server | `stbchain/x/stablecoin/keeper` | `Params` item, `TotalSupplyKey`; balances and supply through the bank | `Mint`, `Burn`, `UpdateParams`, `InitGenesis`, `ExportGenesis` | total and bank agree; only the issuer mints and burns; cap; pause |
| query server, simulation, autocli | `x/stablecoin/keeper/query*.go`, `module` | – | reads | – |
| application | `stbchain/app` | the stores of all modules | transactions, proposals, genesis, export | failed transactions leave only their fee |
| zero-height export | `stbchain/app/export.go` | distribution, staking, slashing stores | `prepForZeroHeightGenesis` | everybody is paid, no coin lost, the result can start |
| `multi-node` command | `cmd/stbchaind/cmd/testnet_multi_node.go` | directories of the nodes | one node after the other: keys, gentx, genesis, ports | one consistent network; repeatable |
| `in-place-testnet` command | `cmd/stbchaind/cmd/testnet.go` | staking, distribution, bank stores | replace the validators, fund accounts | one validator, consistent records |
| wallet session | `stb-wallet/stb-wallet/src/App.tsx`, `wallet.ts` | React state: address, client, status, balances, history | connect, refresh, send, mint, burn | reports what happened; shows what is |
| protobuf codec | `x/stablecoin/types/*.pb.go`, the codecs in `wallet.ts` | – | `Size`, `Marshal`, `Unmarshal`, `skipTx`; the wallet's `encode` | what is meant is understood; ill-formed bytes are refused |
| wallet conversions, history | same files | – | `formatUstb`, `parseStbToUstb`, `parseTxResult`, `fetchTxHistory` | exact amounts; newest transactions |

How they interact. The wallet signs `MsgSend`, `MsgMint` and `MsgBurn` and sends
them to a node; the node checks the sequence and the fee, and later executes them
in a block. `Mint` and `Burn` call the bank keeper several times and then write the
module's own total. A handler that fails half-way does not undo its calls: the
transaction around it drops its branch of the store. Governance runs
`UpdateParams` in a proposal. A chain can be exported and started anew from the
exported genesis.

What is hard here. Failures after effects (`Burn` checks the total last); two
records of one quantity (bank supply and `TotalSupplyKey`), one of which is not
exported; parameters that change while coins are out; several messages in one
transaction; in the wallet, handlers that overlap at every `await`, answers out of
order, a broadcast that times out while the transaction still gets in, and a history
put together from two searches of a chain that grows; in the codec, lengths that
overflow an index and fields that come twice; in the export, reward records that are
paid out, deleted and rebuilt in an order that must not lose a coin; in the test network
commands, runs that are killed and repeated, and several indexes of one validator set. `PROJECT.json` lists these
hazards at their lines with the properties that cover them.

## 2. Modules

| Module | Models |
|---|---|
| `StbTypes` | decimal texts, address texts, denominations, `Params`, `Validate` |
| `Bank` | the bank keeper as `x/stablecoin` uses it (external) |
| `StablecoinKeeper` | the handlers as operators on a store record |
| `StablecoinChain` | the chain: transactions, proposals, fees, rollback, inflation, export and import |
| `StablecoinLedger` | the abstract specification the chain implements |
| `WalletSession` | the wallet's handlers and a node, composed with `Mint` and `Burn` of `StablecoinKeeper` |
| `WalletHistory` | the wallet's amounts as texts and doubles, and the history it puts together |
| `ProtoWire` | the protobuf codec: the writers as operators, `Unmarshal` as a state machine |
| `MultiNodeTestnet` | the `multi-node` command, repeated |
| `StakingStore` | staking, distribution and slashing stores as the commands use them (external) |
| `OperatorCommands` | a chain of staking steps, then the zero-height export or `in-place-testnet` |
| `MC*` | instances for TLC |
| `FiniteSums` | lemmas: induction, recursive functions, sums over finite sets |
| `StablecoinKeeperProofs`, `StablecoinChainProofs`, `WalletSessionProofs`, `WalletHistoryProofs`, `ProtoWireProofs`, `MultiNodeTestnetProofs`, `OperatorCommandsProofs` | proofs |

### 2.1 Types, bank, keeper

A decimal text is a record: well formed or not, and the number it denotes, which
may lie outside `math.Int`; `NewIntFromString` succeeds on a well-formed text in
range. An address text is an account and a spelling, because bech32 allows one
account to be written in two ways and the handlers compare the issuer as a *text*
while signatures are checked on *bytes*. A denomination text is one `sdk.NewCoin`
accepts, one it panics on (which `Validate` lets pass), or blank.

`Mint(s, m)`, `Burn(s, m)` and `UpdateParams(s, m)` give `[err, st]`: the error, in
the order of the code's checks, and the store that is left, including the bank's
effects that precede a late failure (a blocked recipient after `MintCoins`, "total
supply underflow" after `BurnCoins`). A Go panic is the error `"panic"`: the
transaction treats it like an error.

The bank is external. Its calls are a condition and an effect; the conditions are
those the handlers can meet (funds, blocked recipient, range of `math.Int`).
`Blocked` is translated from `blockAccAddrs`; the fee collector stands for the list.

### 2.2 The chain

`store` is the committed state, `cache` the branch of the running transaction, `run`
the transaction itself with its signers. `BeginTx` moves the fee on `store`; each
`Exec...` runs one message on `cache`; `CommitTx` writes the branch, `Rollback` drops
it (after an error, a panic, or for want of gas). `BeginProposal` opens a run signed
by the governance account. `Inflate` is x/mint, there because it changes the supply
of the staking denomination, which governance may make the stablecoin. `ExportImport`
is an export followed by `InitChain` of the exported genesis. `base` and `switched`
are history variables: what of each supply the module did not issue, and whether
the denomination was changed.

Abstractions: a message needs its authority among the signers, so the signer set also
stands for accounts that granted authz; x/gov's voting is left out (any proposal may
pass); vesting, send-enabled flags, the circuit breaker and IBC transfers are left
out: they only refuse transfers, or move coins between accounts as `Send` does.

### 2.3 The ledger

`StablecoinLedger` knows who is acting, the parameters, the amount outstanding and
what was issued per denomination. A transaction of users either changes nothing, or
is signed by the issuer, runs unpaused and settles a net amount that keeps the cap.
Governance may replace the parameters by valid ones. A restart counts from zero.
`StablecoinChain!LedgerSpec` is its specification under the mapping
`outstanding <- GetTotalSupply(store)`, `issued <- supply - base`.

### 2.4 The wallet session

A handler is a list of things it awaits (`Awaits`): `handleMint` awaits the broadcast,
then the three refreshes. A `task` is a handler waiting at one of them, with the
address it captured at the click. `Serve`, `Reject`, `FetchSequence`, `Approve`, `Found`
are what the node, the extension and the user do; `Resume` runs the handler to its
next await. `Execute` runs a pending transaction in a block with the handlers of
`StablecoinKeeper`, whether or not anybody still waits for it; `Drop` is the mempool's
recheck, which finds the fee gone or the sequence used; `ExecuteOther` is a transaction
of the same accounts made with another client, which may do either. A `Reject` while polling is the time-out of `broadcastTx`: the transaction
stays pending. Three history variables serve the properties and no action reads them: `by`
is the click whose handler wrote a figure, `fresh` the clicks made for the address now shown
with no transaction but their own executed since, `before` the clicks whose handlers were
running when the last click was made.

### 2.5 The multi-node command

`dir[i]` is what the directory of node `i` holds (gentx files, genesis, RPC port),
`run` the command. `InitNode`, `InitGenFiles`, `Copy`, `Collect` are the four loops, one
pass per step. `Abort` is an error return or a kill, which undoes nothing;
`AbortAndRemove` is the three error paths that remove the output directory. A gentx
is [node, run, stake]: a run makes new account keys (so an old gentx is not funded in
the new genesis) but keeps the node keys (so its file has the same name).

### 2.6 Amounts and history in the wallet

`typed` is what stands in the form, a text of characters (digits, point, comma, space,
others) with the amount a reader takes it for, or none: `IsAmount` says what a text means
without regard to the code (digits, a point or a comma, decimals, blanks around them), and
`TypedAssumption` that `Typed` is no different. `HandleSend` parses it as
`parseStbToUstb` does and the transaction enters `chain`, with the `transfer` events the
bank emits for the fee (without `msg_index`) and for each message. `Fetch` begins
`fetchTxHistory`; each of its two searches is answered (`Answer`) from the chain of that
moment or fails (`Reject`); `Show` merges, removes duplicates, sorts, cuts and parses.
`Page` is how a search and the merge list a set of places in an order and cut it.
`formatUstb` divides and rounds as doubles with `Precision` bits do. The node indexes
the transactions of a block together (`Sealed`). Amounts of 10^21 and more, which
JavaScript prints with an exponent, are left out.

### 2.7 The codec

A byte is a group of `GroupBits` bits and a continuation bit; `Width` and `ShortWidth` are
the widths of `uint64`/`int` and of `int32`, whose arithmetic wraps around. The `Write...` and
`Size...` operators are translated per message; `Marshal` puts the bytes written at the end
of a buffer of the size computed. `stack` holds the calls of `Unmarshal` (a nested `Params`
is a call on a sub-slice, on what the field already holds); `ReadKey`, `ReadText`,
`ReadBool`, `ReadMessage`, `Unknown` are the parts of its loop, `SkipOne` a pass of `skipTx`.
The eleven `Unmarshal` methods differ only in their fields (`Fields`). `WireAssumption` says
what Go gives: the length of a slice is an `int`; `KeyAssumption` that the widths are no smaller than the
keys of these messages need.

### 2.8 The operator's commands

`st` is one record of the stores that both commands rewrite. `Chain` is a step of the
running chain: create a validator, delegate, undelegate, withdraw, allocate a reward,
slash and jail, unjail. Its operators (`StakingStore`) follow the hooks of x/distribution,
because what the export must rebuild is exactly what they keep: reward periods,
historical ratios with reference counts, starting infos, slash events. Rewards are counted
in `Unit`s of a coin, so that the division among delegators and the truncation of
withdrawals leave remainders. `BeginExport` to `ResetSigning` are the loops of
`prepForZeroHeightGenesis`, the ones that call keepers one pass a step, in any order of
the records; `Go` and `Pass` stop at a panic. `BeginInPlace`, `RemoveValidators`, `Create`,
`Fund` are `initAppForTestnet`; `handleErr` ends the process (`Exit`), and nothing its context
has written is committed. `old` is the store at the command's begin.

## 3. Runs

| Run | Checks | Shows |
|---|---|---|
| `issuance` | `UnderflowExplained`, `BurnUndoesMint`, `BranchInv`, `IssuerOnly`, `CapHolds`, `HolderProtected` | transactions with fees, sends, failures after effects, export and import |
| `governance` | `TypeOK`, `TrackedSupply`, `IssuanceBalanced`, `UncheckedIssuesNothing`, `LedgerSpec` | every kind of parameters in the genesis, every kind of change while coins are out |
| `wallet` | `TypeOK`, `ReportedIsReal`, `ShownIsTrue`, `RefreshDone`, `LoadingEnds` (liveness) | overlapping handlers, time-outs, late execution, failing queries |
| `testnet` | `TypeOK`, `OneNetwork`, `CanonicalState`, `StaleOnlyFromLarger`, `PortsDisjoint` | repeated, failing, killed runs |
| `wire` | `TypeOK`, `InBounds`, `Understood`, `MovesOn`, `DecodingEnds` (liveness) | both writers' bytes, other encodings, cut and ill-formed ones |
| `history` | `TypeOK`, `Newest`, `LargestShown`, `ShownAsTyped` | three transactions around two searches; every way to type an amount |
| `operator` | `TypeOK`, `Backed`, `References`, `AllPaid`, `Restartable`, `PanicExplained`, `OneValidator`, `FundedOnce` | both commands after every history of five staking steps |

The properties, in words:

* `TrackedSupply`: the module's total is what it added to the bank's supply of the
  stablecoin, and it added nothing to another denomination, unless the denomination
  was changed; `IssuanceBalanced`: even then the total is the sum over denominations.
* `UnderflowExplained`: "total supply underflow" is met only after a change of the
  denomination or with coins this chain's module did not mint (a genesis balance, or
  any coin of a chain started from an export).
* `BurnUndoesMint`: from every reachable store, burning what was just minted gives
  back every balance, the supply and the total.
* `IssuerOnly`, `CapHolds`, `HolderProtected`: what one transaction
  may do to the supply, the total and a holder's balance. The issuer
  may burn any holder's stablecoins; the property says he may do no more.
* `UncheckedIssuesNothing`: `InitGenesis` stores parameters without a check, so a chain may start
  with ones that `Validate` refuses, or with none. Mint and the bank then refuse each of them in
  a form of their own, and no sequence of messages leads back to them: nothing is issued
  under parameters nobody has checked, in the store or in the branch of a transaction.
* `ReportedIsReal`: "Mint OK", "Burn OK" and "FAILED" tell what the chain did.
  They cover what is reported: when a time-out is reported and the user tries again, the first
  transaction may be executed besides the second one, and nothing prevents it.
* `ShownIsTrue`: with overlapping handlers the page may show a wrong figure, since the last
  answer wins and a handler goes on with the address of its click. The property says,
  for every overlap and every order of answers, that there are no other ways: the handler that
  wrote a wrong figure was clicked before the shown address was connected, or before a
  transaction other than its own was executed. `RefreshDone`: once nothing is left to be
  answered and the last click reported a success, what its handler has to refresh was written
  by it, or by a handler it overlapped, or shows no figure. Together: after the success of a
  handler that nothing overlapped, the figures it refreshes and shows are the chain's, its own
  transaction included, until the next transaction.
  `LoadingEnds`: no query leaves the page at "Loading...".
* `OneNetwork`, `CanonicalState`, `StaleOnlyFromLarger`: a run of `multi-node` that
  succeeds leaves the same genesis everywhere, with this run's validators only; files
  of earlier runs disturb it only when one of them had more validators.
* `InBounds`: no index leaves its slice, however a length overflows. `Understood`: every
  input gives the message that was meant, or the error that is due. `MovesOn`: no step of
  the decoder leaves it where it was, neither an earlier byte nor the same part of the loop; so
  `DecodingEnds`: the loops of `Unmarshal` and `skipTx` end.
* `Newest`: no transaction that was there when the fetch began is missing in favour of
  older ones, although each search is cut and they are answered at different moments.
  (One executed between the two answers may be missing.) `LargestShown`: an item tells
  the largest transfer of a message, never the fee. `ShownAsTyped`: the amount shown is the
  amount typed, and typing it again gives it again, below the precision of a double.
* `Backed`: the distribution account holds exactly the outstanding rewards and the
  community pool, at every step of the commands, as the new chain's genesis demands.
  `References`: a historical ratio is kept for exactly those that refer to it. `AllPaid`: the
  export pays everyone what he could have withdrawn. `Restartable`: what is exported has no
  height of the old chain and the keepers do not panic on it. `PanicExplained`: when the
  export panics. `OneValidator`, `FundedOnce`: what the in-place command
  leaves when it succeeds; the exit between the mint and the funding is the run `in_place_default`. With the
  operator address of an existing validator it strands what was outstanding for it and
  leaves old delegations that refer to deleted periods; the properties name the exception.

Violation runs, where the code disagrees with a test or a comment
(`findings` in `PROJECT.json` quotes them):

| Run | Disagreement |
|---|---|
| `import_keeps_store` | the export drops `TotalSupplyKey`: the restarted chain counts from 0, so the cap no longer covers the coins that are out, and they cannot be burnt |
| `zero_params` | `TestMsgUpdateParams` expects the authority to set `types.Params{}` without an error, and `TestGenesisState_Validate` takes them as valid; `UpdateParams` refuses them |
| `wallet_send` | `handleSend` reports a success whatever the code of the result |
| `export_jail` | with a list of validators not to jail, the others are marked jailed but stay in the power index, and the export panics |
| `in_place_default` | without `--accounts-to-fund` the command exits before the node starts |

Other disagreements met while modelling, without a run of their own: the stablecoin module account is not in
`blockAccAddrs` and keeps what it is sent; an item of `--validators-stake-amount` that is no
number does not get the default, as the comment says, but shifts the items after it.

### Bounds

* Chain: five accounts (issuer, a user, the module, governance, the fee collector), two
  denominations plus an odd and a blank text, `IntLimit` 2 or 3 instead of 2^256-1 so
  that sums overflow within a few mints, caps 1 and 2, amounts -1, 1, 2, one beyond
  `IntLimit` and an unreadable one. Two messages per transaction (`MaxMsgs`) are the
  least that can interfere in one branch. `InflationCap` stops inflation. The bounds
  are no part of the proofs.
* Wallet: two clicks (`MaxClicks`) on a page that is new or was connected and came to
  rest; that is what two handlers need to overlap, or a retry to follow a time-out. One
  fee is one coin and the issuer has two, so a second transaction may fail to pay. The test
  account is the only recipient: its balance is the second one on the page. `MaxElsewhere` lets the issuer burn once with
  another client, so that a pending transaction loses its fee or its sequence.
* Test network: three runs, one to three validators; `MaxNodes` must not exceed 1317,
  where the API ports run out.
* Codec: `GroupBits` 6, `Width` 9, `ShortWidth` 5: keys of all fields still fit one byte,
  while a varint of two bytes, the overflow of a length and of an index, and the loss of
  high bits all happen within short inputs. Texts have 0, 1, 63 and 64 bytes, around the
  length that needs a second byte.
* History: `Limit` 2 and three transactions (`MaxTxs`) are the least where a cut search
  loses something that the other one may bring back. `Decimals` 2 and `Precision` 8: the
  amounts 0 to 3.00 lie on both sides of what a double holds exactly. The amounts other
  than `Typical` are sent in a chain of one transaction.
* Operator's commands: two validators, two accounts that operate them, delegations of a
  fixed 4 tokens, slashes of one half, five steps of the chain (`MaxBlocks`): enough for a
  delegation, a reward, a slash, a second reward and a withdrawal. `Unit` 7 is prime to
  the stakes, so divisions leave remainders. All blocks have height 1, which differs from
  the 0 of the new chain; that is what the properties compare.

`CHECK_DEADLOCK FALSE` is set for the wallet (the user may stop clicking), the history (the
chain is bounded), the codec and the commands (they end). The chain never stops.

### Fairness

Two runs need it. `wire`: the decoder is a sequential function, which goes on while it can
(weak fairness of `Next`). `wallet` (for `LoadingEnds`): a query is answered or fails, and the browser runs the
continuation of a settled promise (weak fairness of `Serve` or `Resume`, per click). The
HTTP layer and the event loop give that. No fairness is assumed of the user, the
extension, the inclusion of transactions or the polling.

## 4. Proofs

All theorems hold for every value of the constants that satisfies the modules' named
assumptions, which TLC evaluates on every run. The bounds of the runs are no part of them.

### The chain

`StablecoinChain!Spec`, from `TypesAssumption`, `AbsentAssumption`, `BankAssumption` and
`ChainAssumption`: all accounts, denominations, limits, fees, inputs and any number of messages
per transaction.

* `StablecoinKeeperProofs`: what `Mint`, `Burn` and `UpdateParams` do when they succeed
  and what they leave when they fail, and that `Burn` undoes `Mint`.
* `StablecoinChainProofs`: `BranchTheorem`, `Spec => []BranchInv`, and from it `TypeTheorem`,
  `TrackedSupplyTheorem`, `UnderflowTheorem`, `IssuanceBalancedTheorem`,
  `IssuerOnlyTheorem`, `CapHoldsTheorem`, `HolderProtectedTheorem`, `UncheckedIssuesNothingTheorem`,
  `LedgerTheorem` (the chain implements the ledger) and `BurnUndoesMintAlways`: every property
  of the two runs.

`UncheckedIssuesNothingTheorem` has an invariant of its own (`Covered`, of the store and of the
branch): Mint accepts nothing under such parameters, Burn only what the total counts, and
governance's parameters are validated before they are stored.

The properties speak of committed stores, but a transaction builds its
store message by message in `cache`; what `CommitTx` does is known only if one knows how
far a branch can be from the store. `BranchInv` says it: in a user's transaction the
parameters are unchanged; supply and total move together and only under the issuer's
signature, unpaused; the total is not above the cap unless it is no higher than in the
store; a balance that fell is that of a signer, or of stablecoins under the issuer's
signature. Each message is shown *lawful* (it extends such a branch to such a branch,
whether it comes first or later) and every other step begins or ends a branch. Each
action property is then the case of `CommitTx`, read off `BranchInv`.

`UnderflowTheorem` carries `UnderflowExplained` with the tracked supply of the store and of the
branch: the total is then what the module issued of the current denomination, which is all of
it the bank has. `IssuanceBalancedTheorem` is about a sum over the denominations. It
also needs `DenomAssumption`, that there are finitely many (a denomination has at most 128
characters).

### Sums and recursion

`FiniteSums` supplies what the library states with an operator parameter, for sets instead:
`NatSetInduction` and `SubsetInduction` (a set that is closed under the induction step holds
everything, from the library's minimal elements of a well-founded relation), `RecursionExists`
(a recursive function on the naturals satisfies its equation) and how the sum of a function
over a finite set changes when a term is removed or changed, or when every term grows by its own
multiple of one number (`SumGrown`); a bound on every term bounds the sum (`SumScaled`).

### The wallet session

`WalletSessionProofs` proves the four invariants of the `wallet` run, for every number of
clicks, all accounts and every interleaving of handlers, answers, blocks and other clients. Of
the stores a session may begin with, `WalletAssumption` asks that their total is in
`0 .. IntLimit`, which every store of the chain's is (`TotalsOK`, a part of `BranchInv`).

* `WalletTypeTheorem`, from `TypedInv`: among other things, what a handler has still to await
  is one of a fixed list of suffixes of `Awaits` (`Todos`), so that a handler that resumes finds
  what it expects.
* `ReportedIsRealTheorem`, from `ReportsInv`: at most one task of a click is sending
  (`OneSender`), a task holding a result holds the one the chain reached for that
  click (`Informed`), and a decided transaction is never decided again. Without `OneSender` an answer
  could be attributed to a transaction of the same click that is still pending.
* `ShownIsTrueTheorem`, from `TruthInv`: a handler whose click is fresh loads for the address that is
  shown (`Addressed`) and holds no answer but the chain's (`AnswerTrue`); a handler that connects
  is the only one of its click and has written nothing (`Lone`); a transaction's handler refreshes
  only once the transaction is executed (`Unexecuted`), so its own transaction cannot make its
  figures stale. Nothing is assumed about other handlers.
* `RefreshDoneTheorem`, from `RefreshInv`: every handler that runs is of the last click or ran when it was
  made; once that click has reported its success, each figure it has to refresh is recent, hidden,
  or still to be loaded by one of its handlers (`Renewed`).

### The history

`WalletHistoryProofs` proves `HistoryType`, `HistoryIsNewest`, `HistoryShowsLargest` and
`HistoryShownAsTyped`, for every length of the history, all transactions of other clients,
whatever is executed between the answers to the two searches, every text in the form, and all
numbers of decimals and bits of a double. `HistoryAssumption` says that coins are counted in
naturals, that STB has decimals, that the name of ustb ends in "ustb" and that a history has room
for a transaction; `TypedAssumption` is about what texts mean (2.6).

* A page is the beginning of an enumeration of its places in a total order (`ListedInOrder`:
  what comes earlier has fewer places before it), so what it leaves out comes after everything on
  a full page (`PageLemma`). Searches take pages of the chain, the merge takes one of both answers.
* `HistoryIsNewest`: hashes differ and heights grow along the chain (`ChainOK`), so a search that
  lacks a transaction has `Limit` others of no older block (`IsAnswer`). The merge shows it, or a
  full page above it; or all `Limit` others are on the page, which is then full and ends with one of
  them (`FullPage`, a counting argument).
* `HistoryShowsLargest`: a transfer with a message index scores at least 1000, one without at most
  10, and below that the score grows with the amount (`LargestPicked`). The stable sort has a
  first candidate that no other is better than (`PickIs`).
* `HistoryShownAsTyped`: a text that means an amount is read as it, whatever the zeros, blanks and
  decimals (`MeantIsRead`: what trimming, the first comma, splitting at the point, dropping
  characters, cutting and padding leave of the text); what is sent moves it, and the history shows
  that transfer and not the fee (`SentInv`, `SentShown`); and the text made of it is read as it again
  (`ShownIsRead`). The last needs that the digits of a number have its value (`FiguresRead`), that
  the rest is padded to all its decimals (`PaddedIs`), and that `Math.floor` of the double nearest to
  the quotient is the whole part (`FloorIs`): below 2^`Precision` the doubles around a quotient divide
  the integers so finely that none but the whole part itself is rounded up to (`FloorKept`).

### The codec

`ProtoWireProofs` proves, for every width of `int`, every type and every input, `WireTypeTheorem`,
`InBoundsTheorem` and `MovesOnTheorem`. The inductive invariant `WireInv` says what the stack can
be: one call, or a call of `Params` within a call that waits in front of the nested
slice (a `Params` is never in a `Params`), each with `i` in the bounds of its slice; and, in the
middle of a field, that the key just read lies before `i`. A length that overflows is
harmless because the sum, taken modulo the word, is negative: two numbers below half a word
add up to less than a word. The checks `< 0` and `> l` together thus bound the next index.
`MovesOnTheorem` is the ranking argument for the loops: a step ends the decoding, or reaches a
later byte, or pops a call and stays at the byte, or stays in the call and goes from the key to
the value, from there to skipping, or one more pass into what is skipped. That the steps are taken, `DecodingEnds`, is
liveness and stays with TLC.

`UnderstoodTheorem` proves `Understood` for all that is sent (`Sent`): what `Marshal` writes of any
message of any type, with texts of any length that is an `int`, and what the wallet's encoder writes of
a mint or a burn. It also uses `KeyAssumption`: a key of one of four fields fits a byte.
* Numbers: `encodeVarint` writes as many groups as the bits of the value fill, each with the
  continuation bit but the last (`EncodeFacts`); where these bytes stand in a slice, the loop over `shift`
  stops at the last one and its sum is the value (`VarintRead`; `NextGroup` adds one group).
* Messages: `Size` computes the length of what is written, so that `Marshal` returns all of it
  (`MarshalIs`), which is what is written of the fields one after the other, nothing for a text or a flag
  that is zero (`MarshalledIsRest`, `Part`, `Rest`). The wallet's three constants are the keys of
  the generated code.
* The inductive invariant `ReadInv`: each call stands before what was written of some field and those
  after it, these bytes end its slice, and its message holds the fields before (`OnTrack`, `Mixed`);
  a caller stands likewise behind the slice of its nested `Params` (`Waits`); a key just read is that
  of the field (`AtKey`). So no field is unknown and `skipTx` is never called (`NothingSkipped`), and
  when a loop ends, the fields not seen were zero (`FindField`). TLC agreed that `ReadInv` holds on the
  inputs of the run `wire` before it was proved, and that `Sent` holds of all that the two writers write there.

What is *not* sent by these writers stays with TLC: fields in another order or twice, unknown ones,
groups, varints with more bytes than needed, bytes cut short or ill-formed.

### The multi-node command

`MultiNodeTestnetProofs` proves, from `TestnetAssumption`, all five invariants of the `testnet`
run for every number of nodes up to 1317, every number of runs and all values of the flags:
`NetTypeTheorem`, `OneNetworkTheorem`, `CanonicalStateTheorem`, `StaleOnlyFromLargerTheorem`,
`PortsDisjointTheorem`. They follow from one inductive invariant, `NetInv`. A directory may
hold files of any earlier run, so what a loop finds there must be pinned down: `Origin` says
that a gentx with this run's number is exactly what this run writes; `Progress`, which gentx
files the four loops have put where; `Spread`, that a gentx in another node's directory was
copied, hence is also in node 0's and below `most`. When node 0's files are accepted, they
are all of this run; a stale file elsewhere would be at node 0 too, so every node's
directory is clean, which is what the code's comment "They should not differ" relies on.
The ports are arithmetic: three families differ modulo three, the others are apart.

### The export and the in-place network

`OperatorCommandsProofs` proves, from `StakingAssumption` and `OperatorAssumption`, the eight
invariants of the `operator` run for all validators, accounts, lists and histories of the
chain: `CommandTypes`, `BooksBalance`, `ReferencesHold`, `EveryonePaid`, `PanicIsExplained`,
`ExportRestarts`, `NetworkHasOne`, `AllFunded`.

The inductive invariant, `CommandInv` (`CommandSafe`), follows the commands part by part. Its
centre is `RefsOK(s, v, K)`: for the delegations `K` that have been counted, the reference count of
every period is what refers to it; ratios rise with their periods; delegations start at
different periods, all before the current one; slash events have different periods in
their order. That is more than `References` says. Without the different
periods a count could pass the three at which `incrementReferenceCount` panics. Without the
rising ratios a withdrawal could meet a negative difference. A chain that runs has it with `K`
all delegations; besides, its indexes list the validators that are not jailed, the records have
the keys of the validators, and the shares of a validator are the sum of its delegations', with
the operator's own among them, so that a validator's tokens stay positive (`Running`).
Each operation of x/distribution is first shown to keep `RefsOK` of one validator
(`PeriodRefs`, `StartRefs`, `ReleaseRefs`, `SlashRefs`, `CreateRefs`, `WithdrawRefs`), then of
all, then `Running`. The export deletes the ratios and rebuilds them: the loop over the validators keeps
`RefsOK` of those it has visited with `K = {}`, the loop over the delegations for all with `K`
those it has visited, so the last pass is back at what a chain that runs has. Hence the
exported records let no withdrawal, slash or update of the set panic (`ExportRestarts`),
and the only panics on the way are those of the list (`PanicIsExplained`). The in-place command replaces
the validators' records and leaves the delegations' alone: `Counted` names whose references still hold.

`BooksBalance` (`Backed`) is proved beside it, from a second inductive invariant, `BooksInv`, that
TLC checked on the `operator` run first. A store has right books (`Books`) when the account holds
what is outstanding and the pool, exactly, and all coins add up to the supply. Every operation is
a movement (`BooksMoved`): a withdrawal pays whole coins out and leaves the remainder of the
division in the pool, commission keeps its own remainder outstanding, the export donates what is
left to the pool, a block's reward is minted. That needs no bound on rewards. The in-place command is
the exception: it forgets what was outstanding for a reused address, and for the account to hold
no less than it should, that must not have been negative. On a running chain it is not
(`NoDebts`), because a withdrawal takes the lesser of the reward and what is outstanding
(`WithdrawSound`) and nobody withdraws commission there.

`CommandTypes` (`TypeOK`) and `EveryonePaid` (`AllPaid`) rest on the solvency of the records,
`SolvInv`, which TLC checked on the `operator` run first. A validator is solvent (`SolventAt`) when its
commission, its current rewards and what all its delegations are owed (`OwedBy`) add up to no
more than what is outstanding for it, and when no delegation counts a stake beyond its share of
the tokens (`Fair`: stake times all shares is at most its shares times the tokens). The
second part is what makes the first one inductive. When a period ends, its rewards are divided by the
tokens and each delegation gains the ratio times its stake: by `Fair` the stakes add up to no more
than the tokens (`StakesFit`), so the gains fit in the rewards however both divisions truncate
(`EndSolvent`, with `SumGrown` and `SumScaled`). A slash lowers stakes and tokens alike, and stakes
round down (`SlashSolvent`); a delegation starts with a stake that was rounded down from its shares
(`StartFair`). On a solvent store "the lesser of the reward and what is outstanding" is the reward,
so a withdrawal pays in full (`Full`) and leaves the others owed what they were: the order of the
export's loops does not matter. `PaidInv` follows both loops: the commission of the validators visited is
paid and the other commission unchanged; then, in addition, the rewards of the delegations visited; at the end
every account has all that was due on the chain before (`Due`).

### Only model-checked

`LoadingEnds` and `DecodingEnds`, because the prover does no liveness; `Understood` for inputs that
neither `Marshal` nor the wallet writes.

## 5. Not modelled, and the plan

Not modelled: the construction of third-party commands and configuration, IBC wiring,
service registration and gateway code, autocli and simulation descriptions (no state of
their own), the query server (it reads; it answers zero `Params` when there are none).
Errors of iterators and of the store itself do not occur in the model.

Left to do: a theorem for `Understood` that covers every well-formed encoding, in any order of the
fields, and not only what the two encoders write.

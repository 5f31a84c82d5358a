--------------------------- MODULE OperatorCommands ---------------------------
(***************************************************************************)
(* Two commands of the node's operator that rewrite the staking and the    *)
(* reward records of a chain that has run: the export for zero height      *)
(* (prepForZeroHeightGenesis) and the in-place test network                *)
(* (initAppForTestnet).  A step is one loop of the command, or one pass of *)
(* a loop that calls the keepers.                                          *)
(***************************************************************************)
EXTENDS StakingStore, Functions

CONSTANTS
  BadAddr,      \* a text that is no address, such as the empty one
  VotingPower,  \* tokens of the test network's validator
  Grant,        \* coins each listed account is given
  AllowedLists, \* lists of --jail-allowed-addrs, as sets
  FundLists,    \* lists of --accounts-to-fund, as sequences
  MaxBlocks     \* bound: steps of the chain before the command

ASSUME OperatorAssumption ==
  /\ BadAddr \notin Val \cup Account
  /\ VotingPower \in Nat \ {0}
  /\ Grant \in Nat
  /\ FundLists \subseteq Seq(Account \cup {BadAddr})
  /\ MaxBlocks \in Nat

VARIABLES
  st,     \* the store
  pc,     \* the part of the command that comes next; "chain" while blocks run
  work,   \* what the running loop has still to visit
  args,   \* the command's arguments
  old,    \* history variable: the store when the command began
  blocks  \* steps of the chain so far

vars == <<st, pc, work, args, old, blocks>>

\* The height of blocks and of the records they make.
Height == 1

NoArgs == [allowed |-> {}, op |-> BadAddr, accounts |-> <<>>]

-----------------------------------------------------------------------------
(***************************************************************************)
(* The chain.                                                              *)
(***************************************************************************)
Init ==
  /\ \E v \in Val : st = CreateValidator(Empty, v, Height)
  /\ pc = "chain"
  /\ work = {}
  /\ args = NoArgs
  /\ old = Empty
  /\ blocks = 0

Block(next) ==
  /\ pc = "chain" /\ blocks < MaxBlocks
  /\ st' = next
  /\ blocks' = blocks + 1
  /\ UNCHANGED <<pc, work, args, old>>

Chain ==
  \/ \E v \in Val \ DOMAIN st.val : Block(CreateValidator(st, v, Height))
  \/ \E v \in DOMAIN st.val, d \in Account : Block(Delegate(st, d, v, Height))
  \/ \E k \in DOMAIN st.del :
       \/ Block(WithdrawDelegationRewards(st, k[1], k[2], Height))
       \/ k[1] # OperatorOf[k[2]] /\ Block(Undelegate(st, k[1], k[2], Height))
  \/ \E v \in st.last :
       \/ Block(AllocateTokens(st, v, 1))
       \/ st.val[v].tokens % 2 = 0 /\ Block(SlashAndJail(st, v, Height))
  \/ \E v \in st.queue : Block(Unjail(st, v))

-----------------------------------------------------------------------------
(***************************************************************************)
(* The export for zero height.                                             *)
(***************************************************************************)
\* The pass over x of the loop that is at pc, and what follows a loop.
Pass(here, x, next) ==
  /\ pc = here
  /\ st' = next
  /\ work' = work \ {x}
  /\ pc' = IF next.panic THEN "panicked" ELSE pc
  /\ UNCHANGED <<args, old, blocks>>

Go_IgnoresPanic(here, there, next, visit) ==
  /\ pc = here /\ work = {}
  /\ st' = next
  /\ pc' = there
  /\ work' = visit
  /\ UNCHANGED <<args, old, blocks>>
Go(here, there, next, visit) ==
  /\ pc = here /\ work = {}
  /\ st' = next
  /\ pc' = IF next.panic THEN "panicked" ELSE there
  /\ work' = visit
  /\ UNCHANGED <<args, old, blocks>>

\* A list with a text that is no address is a panic.
BeginExport ==
  /\ pc = "chain"
  /\ \E allowed \in AllowedLists :
       /\ args' = [NoArgs EXCEPT !.allowed = allowed]
       /\ pc' = IF BadAddr \in allowed THEN "panicked" ELSE "commission"
  /\ work' = DOMAIN st.val
  /\ old' = st
  /\ UNCHANGED <<st, blocks>>

WithdrawCommission_Only ==
  \/ \E v \in work : Pass("commission", v, WithdrawValidatorCommission(st, v))
  \/ Go("commission", "clear", st, {})
WithdrawCommission ==
  \/ \E v \in work : Pass("commission", v, WithdrawValidatorCommission(st, v))
  \/ Go("commission", "rewards", st, DOMAIN st.del)

WithdrawRewards ==
  \/ \E k \in work :
       Pass("rewards", k, WithdrawDelegationRewards(st, k[1], k[2], Height))
  \/ Go("rewards", "clear", st, {})

\* Slash events and historical rewards are deleted.
Cleared_KeepSlashes(s) == [s EXCEPT !.hist = <<>>]
Cleared(s) == [s EXCEPT !.slash = [v \in Val |-> <<>>], !.hist = <<>>]
Clear == Go("clear", "validators", Cleared(st), DOMAIN st.val)

\* What is outstanding is donated to the community pool.
Reinitialize_NoDonation(s, v) == AfterValidatorCreated(s, v)
Reinitialize(s, v) ==
  AfterValidatorCreated([s EXCEPT !.pool = s.pool + s.out[v]], v)
ReinitializeValidators ==
  \/ \E v \in work : Pass("validators", v, Reinitialize(st, v))
  \/ Go("validators", "delegations", st, DOMAIN st.del)

\* The context's height is zero here.
HooksHeight_Kept == Height
HooksHeight == 0
ReinitializeDelegations ==
  \/ \E k \in work :
       Pass("delegations", k,
            AfterDelegationModified(BeforeDelegationCreated(st, k[2]), k[1], k[2], HooksHeight))
  \/ Go("delegations", "heights", st, {})

\* Entries of redelegations and of unbonding delegations are treated alike.
ResetEntries ==
  Go("heights", "jail", [st EXCEPT !.entry = [k \in DOMAIN st.entry |-> 0]], {})

\* With a list, whoever is not on it is jailed; the power index is not touched.
Jailed_EmptyList(v) == st.val[v].jailed \/ v \notin args.allowed
Jailed(v) == st.val[v].jailed \/ (args.allowed # {} /\ v \notin args.allowed)
ResetValidators ==
  Go("jail", "apply",
     [st EXCEPT !.val = [v \in DOMAIN st.val |->
        [st.val[v] EXCEPT !.height = 0, !.jailed = Jailed(v)]]], {})

Apply == Go("apply", "signing", ApplyAndReturnValidatorSetUpdates(st), {})

ResetSigning ==
  Go("signing", "exported", [st EXCEPT !.sign = [v \in DOMAIN st.sign |-> 0]], {})

-----------------------------------------------------------------------------
(***************************************************************************)
(* The in-place test network.  handleErr ends the process, and what the    *)
(* uncached context has written was not committed.                         *)
(***************************************************************************)
\* strings.Split of the empty text is one empty text.
Split(list) == IF list = <<>> THEN <<BadAddr>> ELSE list

Exit == pc' = "exited" /\ st' = old /\ UNCHANGED <<work, args, old, blocks>>

\* The types of the arguments and the home directory are the SDK command's.
BeginInPlace ==
  /\ pc = "chain"
  /\ \E op \in Val \cup {BadAddr}, list \in FundLists :
       args' = [NoArgs EXCEPT !.op = op, !.accounts = Split(list)]
  /\ pc' = "remove"
  /\ old' = st
  /\ UNCHANGED <<st, work, blocks>>

\* The operator's address is decoded, then four stores are emptied.
Removed_NotQueue(s) == [s EXCEPT !.power = {}, !.last = {}, !.val = <<>>]
Removed(s) == [s EXCEPT !.power = {}, !.last = {}, !.val = <<>>, !.queue = {}]
RemoveValidators ==
  IF args.op = BadAddr THEN pc = "remove" /\ Exit
  ELSE Go("remove", "create", Removed(st), {})

\* The new validator, its records, its signing info.
Created(s, op) ==
  AfterValidatorCreated(
    [s EXCEPT !.val = Put(s.val, op, [tokens |-> VotingPower, shares |-> 1,
                                      jailed |-> FALSE, height |-> 0]),
              !.power = s.power \cup {op},
              !.last = s.last \cup {op},
              !.sign = Put(s.sign, op, Height - 1)],
    op)
Create == Go("create", "fund", Created(st, args.op), 1 .. Len(args.accounts))

\* One pass over the list, in its order: coins are minted, the address is
\* decoded, the coins are sent.  A text that is no address ends the process
\* between the two; the bank refuses none of the accounts of the model.
Granted_Set(s, a) == [s EXCEPT !.supply = s.supply + Grant, !.bal[a] = Grant]
Granted(s, a) ==
  [s EXCEPT !.supply = s.supply + Grant, !.bal[a] = s.bal[a] + Grant]
Fund ==
  \/ /\ pc = "fund"
     /\ \E k \in work :
          /\ \A j \in work : k <= j
          /\ LET a == args.accounts[k]
             IN  IF a = BadAddr THEN Exit
                 ELSE /\ st' = Granted(st, a)
                      /\ work' = work \ {k}
                      /\ UNCHANGED <<pc, args, old, blocks>>
  \/ Go("fund", "started", st, {})

Next ==
  \/ Chain
  \/ BeginExport
  \/ WithdrawCommission
  \/ WithdrawRewards
  \/ Clear
  \/ ReinitializeValidators
  \/ ReinitializeDelegations
  \/ ResetEntries
  \/ ResetValidators
  \/ Apply
  \/ ResetSigning
  \/ BeginInPlace
  \/ RemoveValidators
  \/ Create
  \/ Fund

Spec == Init /\ [][Next]_vars

-----------------------------------------------------------------------------
\* The in-place command was given the address of a validator the chain had.
Reused == pc \in {"fund", "started"} /\ args.op \in DOMAIN old.val

\* No quantity is negative and the keepers have not panicked unless the process
\* has stopped.
TypeOK ==
  /\ st.panic => pc = "panicked"
  /\ st.pool >= 0 /\ st.held >= 0
  /\ \A v \in DOMAIN st.out : st.out[v] >= 0 /\ st.com[v] >= 0
  /\ \A k \in DOMAIN st.hist : st.hist[k].refs \in 1 .. 3
  /\ DOMAIN st.start \subseteq DOMAIN st.del

\* The coins of the distribution account are exactly what is outstanding and
\* the community pool, after every pass of the export too: the new chain's
\* InitGenesis compares them and panics.  All coins add up to the supply.  The
\* in-place command strands what was outstanding for a reused address.
Backed ==
  /\ ~Reused => st.held = SumFunction(st.out) + st.pool
  /\ st.held >= SumFunction(st.out) + st.pool
  /\ SumFunction(st.bal) * Unit + st.held = st.supply * Unit

\* Each historical ratio is kept for exactly those that refer to it: the current
\* period, delegations that start there, slash events.  Between clearing and
\* the end of its loops the export has other counts.
References ==
  pc \in {"chain", "exported", "create", "started"} =>
    \A v \in DOMAIN st.cur :
      (Reused /\ v = args.op) \/
      \A p \in 0 .. st.cur[v].period :
        HistOf(st, v, p).refs =
          (IF p = st.cur[v].period - 1 THEN 1 ELSE 0)
          + Cardinality({k \in DOMAIN st.start : k[2] = v /\ st.start[k].prev = p})
          + Cardinality({i \in 1 .. Len(st.slash[v]) : st.slash[v][i] = p})

\* The export pays everyone what he could have withdrawn just before, in whole
\* coins, commission first.
Due(a) ==
  LET owned(v) == IF OperatorOf[v] = a THEN old.com[v] \div Unit ELSE 0
      mine == {k \in DOMAIN old.start : k[1] = a}
      reward(k) == Rewards(IncrementValidatorPeriod(old, k[2]), a, k[2],
                           old.cur[k[2]].period) \div Unit
  IN  SumFunction([v \in DOMAIN old.val |-> owned(v)]) + SumFunction([k \in mine |-> reward(k)])
AllPaid ==
  pc = "exported" => \A a \in Account : st.bal[a] = old.bal[a] + Due(a)

\* What is exported can start at height 0: no record is of a height of the old
\* chain, nothing is outstanding, every delegation can be withdrawn, changed or
\* slashed, and the validator set can be computed.
Restartable ==
  pc = "exported" =>
    /\ \A k \in DOMAIN st.start : st.start[k].height = 0
    /\ \A k \in DOMAIN st.entry : st.entry[k] = 0
    /\ \A v \in DOMAIN st.val :
         /\ st.val[v].height = 0 /\ st.sign[v] = 0
         /\ st.out[v] = 0 /\ st.slash[v] = <<>>
         /\ ~BeforeValidatorSlashed(st, v).panic
    /\ DOMAIN st.start = DOMAIN st.del
    /\ \A k \in DOMAIN st.del : ~WithdrawDelegationRewards(st, k[1], k[2], 0).panic
    /\ ~ApplyAndReturnValidatorSetUpdates(st).panic

\* The export panics only on a list with a bad address, or one that leaves out
\* a validator of the power index.
PanicExplained ==
  pc = "panicked" =>
    \/ BadAddr \in args.allowed
    \/ args.allowed # {} /\ ~(old.power \subseteq args.allowed)

\* A test network has the one validator in every index, so that the next block
\* can be made; the others' delegations are left and refuse to be withdrawn.
OneValidator ==
  pc = "started" =>
    /\ DOMAIN st.val = {args.op}
    /\ st.power = {args.op} /\ st.last = {args.op} /\ st.queue = {}
    /\ ~ApplyAndReturnValidatorSetUpdates(st).panic
    /\ \A k \in DOMAIN st.del :
         k[2] # args.op => WithdrawDelegationRewards(st, k[1], k[2], Height) = st

\* Every listed account has its grant once for each time it is listed.
FundedOnce ==
  pc = "started" =>
    \A a \in Account :
      st.bal[a] = old.bal[a] +
        Grant * Cardinality({k \in 1 .. Len(args.accounts) : args.accounts[k] = a})

\* "prepares for fresh start at zero height": the export comes to its end when
\* its list has only addresses of validators.
ExportCompletes == pc = "panicked" => BadAddr \in args.allowed

\* "... and starts the node": with an operator's address and no accounts to
\* fund, the default of the flag, the command does not exit.
DefaultsStart ==
  pc = "exited" => args.op = BadAddr \/ args.accounts # Split(<<>>)
=============================================================================

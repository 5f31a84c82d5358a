----------------------------- MODULE StakingStore -----------------------------
(***************************************************************************)
(* The stores of x/staking, x/distribution and x/slashing as the commands  *)
(* of the application use them (external: the Cosmos SDK's keepers).       *)
(*                                                                         *)
(* Rewards are counted in units, Unit of them to a coin, because a         *)
(* validator's rewards are divided among the tokens of its delegators; a   *)
(* coin that is not whole stays in the store.  The reward of a delegation  *)
(* is its stake times the difference of two historical ratios, which are   *)
(* kept as long as something refers to their period.                       *)
(***************************************************************************)
EXTENDS Integers, Sequences, FiniteSets

CONSTANTS
  Val,        \* validators, by operator address
  Account,    \* accounts
  OperatorOf, \* the account of a validator's operator
  Unit        \* units of reward in a coin

ASSUME StakingAssumption ==
  /\ OperatorOf \in [Val -> Account]
  /\ IsFiniteSet(Account)
  /\ Unit \in Nat \ {0}

(***************************************************************************)
(* A store is a record:                                                    *)
(*   val      existing validators: tokens, shares, jailed, UnbondingHeight *)
(*   power, last, queue   the power index, the last validators, and the    *)
(*            queue of validators that are unbonding                       *)
(*   del      shares by <<delegator, validator>>                           *)
(*   entry    creation heights of unbonding delegations, by the same       *)
(*   cur      current rewards: amount and period, by validator             *)
(*   hist     historical ratios with their reference counts, by            *)
(*            <<validator, period>>                                        *)
(*   com, out accumulated commission, outstanding rewards                  *)
(*   start    starting info of a delegation: period, stake, height         *)
(*   slash    periods of a validator's slash events, each of one half      *)
(*   pool, held   the community pool, the module account's balance, in     *)
(*            units                                                        *)
(*   sign     start heights of the signing infos                           *)
(*   bal, supply  coins of the accounts, and all coins minted              *)
(*   panic    whether a keeper has panicked                                *)
(***************************************************************************)
Put(f, k, x) == [j \in DOMAIN f \cup {k} |-> IF j = k THEN x ELSE f[j]]
Drop(f, k) == [j \in DOMAIN f \ {k} |-> f[j]]
Least(a, b) == IF a <= b THEN a ELSE b
Panic(st) == [st EXCEPT !.panic = TRUE]

-----------------------------------------------------------------------------
(***************************************************************************)
(* x/distribution.                                                         *)
(***************************************************************************)
HistOf(st, v, p) ==
  IF <<v, p>> \in DOMAIN st.hist THEN st.hist[<<v, p>>]
  ELSE [ratio |-> 0, refs |-> 0]

decrementReferenceCount(st, v, p) ==
  LET h == HistOf(st, v, p)
  IN  IF h.refs = 0 THEN Panic(st)
      ELSE IF h.refs = 1 THEN [st EXCEPT !.hist = Drop(st.hist, <<v, p>>)]
      ELSE [st EXCEPT !.hist[<<v, p>>].refs = h.refs - 1]

incrementReferenceCount(st, v, p) ==
  LET h == HistOf(st, v, p)
  IN  IF h.refs > 2 THEN Panic(st)
      ELSE [st EXCEPT !.hist = Put(st.hist, <<v, p>>,
                                   [ratio |-> h.ratio, refs |-> h.refs + 1])]

\* Ends the validator's period: its rewards become a ratio per token.
IncrementValidatorPeriod(st, v) ==
  LET c     == st.cur[v]
      t     == st.val[v].tokens
      ratio == HistOf(st, v, c.period - 1).ratio
                 + (IF t = 0 THEN 0 ELSE c.rewards \div t)
      paid  == IF t > 0 THEN st
               ELSE [st EXCEPT !.pool = st.pool + c.rewards,
                               !.out[v] = st.out[v] - c.rewards]
      freed == decrementReferenceCount(paid, v, c.period - 1)
  IN  [freed EXCEPT
         !.hist = Put(freed.hist, <<v, c.period>>, [ratio |-> ratio, refs |-> 1]),
         !.cur[v] = [rewards |-> 0, period |-> c.period + 1]]

Stake(st, d, v) ==
  (st.del[<<d, v>>] * st.val[v].tokens) \div st.val[v].shares

\* initializeValidator
AfterValidatorCreated(st, v) ==
  [st EXCEPT !.hist = Put(st.hist, <<v, 0>>, [ratio |-> 0, refs |-> 1]),
             !.cur = Put(st.cur, v, [rewards |-> 0, period |-> 1]),
             !.com = Put(st.com, v, 0),
             !.out = Put(st.out, v, 0)]

BeforeDelegationCreated(st, v) == IncrementValidatorPeriod(st, v)

\* initializeDelegation, at a block height
AfterDelegationModified(st, d, v, height) ==
  LET prev == st.cur[v].period - 1
      kept == incrementReferenceCount(st, v, prev)
  IN  [kept EXCEPT !.start = Put(st.start, <<d, v>>,
         [prev |-> prev, stake |-> Stake(st, d, v), height |-> height])]

\* The rewards of a delegation up to a period: each slash event after its start
\* ends a stretch with half the stake.
UpTo(st, v, a, p) ==
  a.sum + a.stake * (HistOf(st, v, p).ratio - HistOf(st, v, a.prev).ratio)
Stretches(st, d, v) ==
  LET s == st.start[<<d, v>>]
      after[i \in 0 .. Len(st.slash[v])] ==
        IF i = 0 THEN [sum |-> 0, prev |-> s.prev, stake |-> s.stake]
        ELSE LET a == after[i - 1]
                 p == st.slash[v][i]
             IN  IF p <= s.prev THEN a
                 ELSE [sum |-> UpTo(st, v, a, p), prev |-> p, stake |-> a.stake \div 2]
  IN  after
Rewards(st, d, v, ending) ==
  UpTo(st, v, Stretches(st, d, v)[Len(st.slash[v])], ending)

\* A start after the period that ends, or a ratio that falls, is a panic.
RewardsPanic(st, d, v, ending) ==
  LET s == st.start[<<d, v>>]
  IN  s.prev > ending \/ HistOf(st, v, s.prev).ratio > HistOf(st, v, ending).ratio

\* withdrawDelegationRewards
Withdraw(st, d, v) ==
  LET ending == st.cur[v].period
      ended  == IncrementValidatorPeriod(st, v)
      reward == Least(Rewards(ended, d, v, ending), ended.out[v])
      coins  == reward \div Unit
      paid   == [ended EXCEPT !.held = ended.held - coins * Unit,
                              !.bal[d] = ended.bal[d] + coins,
                              !.out[v] = ended.out[v] - reward,
                              !.pool = ended.pool + (reward % Unit)]
  IN  IF RewardsPanic(ended, d, v, ending) THEN Panic(st)
      ELSE [decrementReferenceCount(paid, v, st.start[<<d, v>>].prev) EXCEPT
              !.start = Drop(st.start, <<d, v>>)]

\* An error, which leaves the store, where the validator or the delegation is
\* not found.
WithdrawDelegationRewards(st, d, v, height) ==
  IF v \notin DOMAIN st.val \/ <<d, v>> \notin DOMAIN st.del THEN st
  ELSE IF <<d, v>> \notin DOMAIN st.start THEN st
  ELSE LET w == Withdraw(st, d, v)
       IN  IF w.panic THEN w ELSE AfterDelegationModified(w, d, v, height)

WithdrawValidatorCommission(st, v) ==
  LET coins == st.com[v] \div Unit
  IN  [st EXCEPT !.com[v] = st.com[v] % Unit,
                 !.out[v] = st.out[v] - coins * Unit,
                 !.held = st.held - coins * Unit,
                 !.bal[OperatorOf[v]] = st.bal[OperatorOf[v]] + coins]

\* A block's reward: a quarter is the validator's commission.
AllocateTokens(st, v, coins) ==
  LET r == coins * Unit
  IN  [st EXCEPT !.com[v] = st.com[v] + r \div 4,
                 !.cur[v].rewards = st.cur[v].rewards + (r - r \div 4),
                 !.out[v] = st.out[v] + r,
                 !.held = st.held + r,
                 !.supply = st.supply + coins]

BeforeValidatorSlashed(st, v) ==
  LET ended == IncrementValidatorPeriod(st, v)
  IN  [incrementReferenceCount(ended, v, st.cur[v].period) EXCEPT
         !.slash[v] = Append(st.slash[v], st.cur[v].period)]

-----------------------------------------------------------------------------
(***************************************************************************)
(* x/staking.                                                              *)
(***************************************************************************)
\* A new delegation of four tokens, or four more: the latter withdraws first.
Delegate(st, d, v, height) ==
  LET more   == <<d, v>> \in DOMAIN st.del
      hooked == IF more THEN Withdraw(st, d, v) ELSE BeforeDelegationCreated(st, v)
      x      == st.val[v]
      shares == IF x.shares = 0 THEN 4 ELSE (4 * x.shares) \div x.tokens
      held   == IF more THEN st.del[<<d, v>>] ELSE 0
  IN  AfterDelegationModified(
        [hooked EXCEPT !.del = Put(st.del, <<d, v>>, held + shares),
                       !.val[v].tokens = x.tokens + 4,
                       !.val[v].shares = x.shares + shares],
        d, v, height)

CreateValidator(st, v, height) ==
  LET new == [st EXCEPT
        !.val = Put(st.val, v, [tokens |-> 0, shares |-> 0,
                                jailed |-> FALSE, height |-> 0]),
        !.power = st.power \cup {v}, !.last = st.last \cup {v},
        !.sign = Put(st.sign, v, height)]
  IN  Delegate(AfterValidatorCreated(new, v), OperatorOf[v], v, height)

Undelegate(st, d, v, height) ==
  LET w == Withdraw(st, d, v)
  IN  [w EXCEPT !.val[v].tokens = st.val[v].tokens - Stake(st, d, v),
                !.val[v].shares = st.val[v].shares - st.del[<<d, v>>],
                !.del = Drop(st.del, <<d, v>>),
                !.entry = Put(st.entry, <<d, v>>, height)]

\* Half the tokens are burnt; the validator is jailed and begins to unbond.
SlashAndJail(st, v, height) ==
  [BeforeValidatorSlashed(st, v) EXCEPT
     !.val[v] = [st.val[v] EXCEPT !.tokens = st.val[v].tokens \div 2,
                                  !.jailed = TRUE, !.height = height],
     !.power = st.power \ {v}, !.last = st.last \ {v},
     !.queue = st.queue \cup {v}]

Unjail(st, v) ==
  [st EXCEPT !.val[v].jailed = FALSE,
             !.power = st.power \cup {v}, !.last = st.last \cup {v},
             !.queue = st.queue \ {v}]

\* A validator of the power index that is jailed or does not exist is a panic,
\* and so is a last validator that does not exist.
ApplyAndReturnValidatorSetUpdates(st) ==
  IF \/ \E v \in st.power : v \notin DOMAIN st.val \/ st.val[v].jailed
     \/ ~(st.last \subseteq DOMAIN st.val)
  THEN Panic(st)
  ELSE [st EXCEPT !.last = {v \in st.power : st.val[v].tokens > 0}]

Empty ==
  [val |-> <<>>, power |-> {}, last |-> {}, queue |-> {}, del |-> <<>>,
   entry |-> <<>>, cur |-> <<>>, hist |-> <<>>, com |-> <<>>, out |-> <<>>,
   start |-> <<>>, slash |-> [v \in Val |-> <<>>], pool |-> 0, held |-> 0,
   sign |-> <<>>, bal |-> [a \in Account |-> 0], supply |-> 0, panic |-> FALSE]
=============================================================================

------------------------ MODULE WalletSessionProofs ------------------------
(***************************************************************************)
(* What the page reports and shows, for every number of clicks, every set  *)
(* of accounts and every interleaving of the handlers with the answers of  *)
(* the node, the blocks and the transactions made elsewhere.               *)
(***************************************************************************)
EXTENDS WalletSession, StablecoinKeeperProofs

\* What a handler may still have to await.
Todos(op) ==
  CASE op = "background" -> {<<"balance", "test">>, <<"test">>}
    [] op = "send" -> {<<"broadcast", "balance", "history">>,
                       <<"balance", "history">>, <<"history">>}
    [] op \in {"mint", "burn"} ->
         {<<"broadcast", "balance", "test", "history">>,
          <<"balance", "test", "history">>, <<"test", "history">>,
          <<"history">>}
    [] OTHER -> {<<op>>}

\* Sequence s has this head and this tail.
Splits(s, head, tail) ==
  s \in Seq(Kinds) /\ s # <<>> /\ Head(s) = head /\ Tail(s) = tail

\* Explicit sequences of queries, with their heads and tails.
LEMMA SplitLemma ==
  /\ \A k \in Kinds : Splits(<<k>>, k, <<>>)
  /\ \A k, l \in Kinds : Splits(<<k, l>>, k, <<l>>)
  /\ \A k, l, m \in Kinds : Splits(<<k, l, m>>, k, <<l, m>>)
  /\ \A k, l, m, n \in Kinds : Splits(<<k, l, m, n>>, k, <<l, m, n>>)
<1> HIDE DEF Kinds
<1>1. \A a : Head(<<a>>) = a /\ Tail(<<a>>) = <<>> /\ <<a>> # <<>>
  OBVIOUS
<1>2. \A a, b : /\ Head(<<a, b>>) = a /\ Tail(<<a, b>>) = <<b>>
                /\ <<a, b>> # <<>>
  OBVIOUS
<1>3. \A a, b, c : /\ Head(<<a, b, c>>) = a /\ Tail(<<a, b, c>>) = <<b, c>>
                   /\ <<a, b, c>> # <<>>
  OBVIOUS
<1>4. \A a, b, c, d : /\ Head(<<a, b, c, d>>) = a
                      /\ Tail(<<a, b, c, d>>) = <<b, c, d>>
                      /\ <<a, b, c, d>> # <<>>
  OBVIOUS
<1> QED BY <1>1, <1>2, <1>3, <1>4 DEF Splits

\* A handler starts with all it awaits.
LEMMA AwaitsLemma ==
  ASSUME NEW op \in Ops
  PROVE  Awaits(op) \in Todos(op)
BY DEF Awaits, Todos, Ops, TxOps

\* What a handler has to await: never a second transaction, and after a
\* transaction the balance.
Follows(op, s) ==
  /\ s \in Seq(Kinds) /\ s # <<>> /\ Head(s) \in Kinds
  /\ Head(s) = "broadcast" => op \in TxOps /\ Tail(s) # <<>>
  /\ Head(s) = "connect" => op = "connect"
  /\ Tail(s) # <<>> => Tail(s) \in Todos(op) /\ Head(Tail(s)) \in Figures
  /\ Head(s) = "broadcast" => Head(Tail(s)) = "balance"
  /\ op \in TxOps \cup {"history"} /\ Head(s) # "history" => Tail(s) # <<>>
  /\ op \in {"background", "mint", "burn"} /\ Head(s) = "balance" =>
       Tail(s) # <<>> /\ Head(Tail(s)) = "test"
  /\ op \in Figures \cup {"connect"} => Head(s) = op

\* Every sequence of Todos has its head and its tail.
LEMMA StepsLemma ==
  /\ Splits(<<"history">>, "history", <<>>)
  /\ Splits(<<"test">>, "test", <<>>)
  /\ Splits(<<"balance">>, "balance", <<>>)
  /\ Splits(<<"connect">>, "connect", <<>>)
  /\ Splits(<<"balance", "test">>, "balance", <<"test">>)
  /\ Splits(<<"balance", "history">>, "balance", <<"history">>)
  /\ Splits(<<"test", "history">>, "test", <<"history">>)
  /\ Splits(<<"balance", "test", "history">>, "balance", <<"test", "history">>)
  /\ Splits(<<"broadcast", "balance", "history">>, "broadcast",
            <<"balance", "history">>)
  /\ Splits(<<"broadcast", "balance", "test", "history">>, "broadcast",
            <<"balance", "test", "history">>)
<1>k. /\ "balance" \in Kinds /\ "test" \in Kinds /\ "history" \in Kinds
      /\ "broadcast" \in Kinds /\ "connect" \in Kinds
  BY DEF Kinds, Figures
<1> HIDE DEF Kinds
<1> QED BY SplitLemma, <1>k

\* What a handler has to await is one of them.
LEMMA TodosLemma ==
  ASSUME NEW op \in Ops, NEW s \in Todos(op)
  PROVE  Follows(op, s)
<1>k. /\ "balance" \in Kinds /\ "test" \in Kinds /\ "history" \in Kinds
      /\ "broadcast" \in Kinds /\ "connect" \in Kinds
  BY DEF Kinds, Figures
<1>q. /\ "balance" \in Figures /\ "test" \in Figures /\ "history" \in Figures
      /\ "broadcast" \notin Figures /\ "connect" \notin Figures
  BY DEF Figures
<1> HIDE DEF Kinds, Figures
<1>1. CASE op = "background"
  <2>1. Todos(op) = {<<"balance", "test">>, <<"test">>}
    BY <1>1 DEF Todos
  <2>2. op \notin TxOps \cup {"history"}
    BY <1>1 DEF TxOps
  <2>3. op \notin Figures \cup {"connect"}
    BY <1>1 DEF Figures
  <2> QED BY <1>1, <2>1, <2>2, <2>3, StepsLemma, <1>k, <1>q DEF Splits, Follows
<1>2. CASE op = "send"
  <2>1. Todos(op) = {<<"broadcast", "balance", "history">>,
                       <<"balance", "history">>, <<"history">>}
    BY <1>2 DEF Todos
  <2>2. op \in TxOps /\ op \notin {"background", "mint", "burn"}
    BY <1>2 DEF TxOps
  <2>3. op \notin Figures \cup {"connect"}
    BY <1>2 DEF Figures
  <2> QED BY <2>1, <2>2, <2>3, StepsLemma, <1>k, <1>q DEF Splits, Follows
<1>3. CASE op \in {"mint", "burn"}
  <2>1. Todos(op) = {<<"broadcast", "balance", "test", "history">>,
          <<"balance", "test", "history">>, <<"test", "history">>,
          <<"history">>}
    BY <1>3 DEF Todos
  <2>2. op \in TxOps
    BY <1>3 DEF TxOps
  <2>3. op \notin Figures \cup {"connect"}
    BY <1>3 DEF Figures
  <2> QED BY <2>1, <2>2, <2>3, StepsLemma, <1>k, <1>q DEF Splits, Follows
<1>4. CASE op \in Figures \cup {"connect"}
  <2>1. Todos(op) = {<<op>>}
    BY <1>4 DEF Todos, Figures
  <2>2. /\ op \in Kinds /\ op # "broadcast"
        /\ op \notin TxOps /\ op \notin {"background", "mint", "burn"}
    BY <1>4, <1>k DEF Figures, Kinds, TxOps
  <2>3. Splits(<<op>>, op, <<>>)
    BY <2>2, SplitLemma
  <2> QED BY <2>1, <2>2, <2>3 DEF Splits, Follows
<1> QED BY <1>1, <1>2, <1>3, <1>4 DEF Ops, TxOps, Figures

-----------------------------------------------------------------------------
\* A transaction of the wallet, or of another client, that is still unborn or
\* has a sender, a recipient and an amount.
Submitted(x) ==
  /\ x.op \in TxOps /\ x.from \in Acct /\ x.peer \in Acct \cup {NoAcct}
  /\ x.n \in 0 .. IntLimit

GoodStore(s) == s \in Store /\ GetTotalSupply(s) \in 0 .. IntLimit

\* A transaction in a block leaves a well-typed chain, whatever it does.
LEMMA InBlockLemma ==
  ASSUME WalletAssumption, GoodStore(store), seq \in [Acct -> Nat],
         NEW x, Submitted(x), InBlock(x)
  PROVE  GoodStore(store') /\ seq' \in [Acct -> Nat]
<1> DEFINE s == Paid(x)
           r == RunMsg(s, x)
           m == [authority |-> AddrOf(x.from), addr |-> AddrOf(x.peer),
                 amount |-> Text(x.n)]
<1>1. s \in Store /\ s.total = store.total
  <2>1. /\ x.from \in Acct /\ FeeCollector \in Acct /\ Ustb \in Denom
        /\ Fee \in Nat /\ Has(store, x.from, Ustb, Fee) /\ store \in Store
    BY BankAssumption DEF WalletAssumption, Submitted, InBlock, GoodStore
  <2> QED BY <2>1, MoveLemma DEF Paid
<1>2. GoodStore(s)
  BY <1>1 DEF GoodStore, GetTotalSupply
<1>3. m \in MintBurnMsg
  BY DEF Submitted, MintBurnMsg, AddrText, AddrOf, Numeral, Text
<1>4. r.err = "nil" => GoodStore(r.st)
  <2> HIDE DEF s, m
  <2>1. CASE x.op = "mint"
    <3>1. r = Mint(s, m)
      BY <2>1 DEF RunMsg, m
    <3>2. Mint(s, m).err = "nil" => GoodStore(Mint(s, m).st)
      BY <1>2, <1>3, MintLemma DEF GoodStore
    <3> QED BY <3>1, <3>2
  <2>2. CASE x.op = "burn"
    <3>1. r = Burn(s, m)
      BY <2>2 DEF RunMsg, m
    <3>2. Burn(s, m).err = "nil" => GoodStore(Burn(s, m).st)
      <4> SUFFICES ASSUME Burn(s, m).err = "nil" PROVE GoodStore(Burn(s, m).st)
        OBVIOUS
      <4>1. /\ Burn(s, m).st \in Store
            /\ GetTotalSupply(Burn(s, m).st) \in 0 .. IntLimit
        BY <1>2, <1>3, BurnLemma DEF GoodStore
      <4> QED BY <4>1 DEF GoodStore
    <3> QED BY <3>1, <3>2
  <2>3. CASE x.op = "send"
    <3>1. SUFFICES ASSUME r.err = "nil" PROVE GoodStore(r.st)
      OBVIOUS
    <3>2. /\ r.st = Move(s, x.from, x.peer, Ustb, x.n)
          /\ x.peer \notin Blocked \cup {NoAcct} /\ Has(s, x.from, Ustb, x.n)
      BY <2>3, <3>1 DEF RunMsg
    <3>3. r.st \in Store /\ r.st.total = s.total
      <4>1. x.from \in Acct /\ x.peer \in Acct /\ Ustb \in Denom /\ x.n \in Nat
        BY <3>2 DEF WalletAssumption, Submitted
      <4> QED BY <1>1, <3>2, <4>1, MoveLemma
    <3> QED BY <1>2, <3>3 DEF GoodStore, GetTotalSupply
  <2> QED BY <2>1, <2>2, <2>3 DEF Submitted, TxOps
<1>5. store' = IF r.err = "nil" THEN r.st ELSE s
  BY DEF InBlock
<1>6. seq' = [seq EXCEPT ![x.from] = @ + 1]
  BY DEF InBlock
<1> HIDE DEF r, s
<1>7. GoodStore(store')
  BY <1>2, <1>4, <1>5
<1>8. seq' \in [Acct -> Nat]
  BY <1>6 DEF Submitted
<1> QED BY <1>7, <1>8

-----------------------------------------------------------------------------
\* Announcing a query changes only the figure that is being loaded.
LEMMA AnnounceLemma ==
  ASSUME NEW u \in UIType, NEW s
  PROVE  /\ Announce(u, s) \in UIType
         /\ Announce(u, s).status = u.status
         /\ Announce(u, s).address = u.address
         /\ Announce(u, s).test = u.test
         /\ Announce(u, s).history = u.history
         /\ Announce(u, s).balance =
              IF s # <<>> /\ Head(s) = "balance" THEN Figure("Loading...", 0)
              ELSE u.balance
         /\ Announce(u, s).historyStatus =
              IF s # <<>> /\ Head(s) = "history" THEN "Loading..."
              ELSE u.historyStatus
<1>1. CASE s = <<>>
  BY <1>1 DEF Announce
<1>2. CASE s # <<>> /\ Head(s) = "balance"
  BY <1>2 DEF Announce, UIType, FigureType, Figure
<1>3. CASE s # <<>> /\ Head(s) = "history"
  BY <1>3 DEF Announce, UIType
<1>4. CASE s # <<>> /\ Head(s) \notin {"balance", "history"}
  BY <1>4 DEF Announce
<1> QED BY <1>1, <1>2, <1>3, <1>4

\* Setting the status line changes nothing else.
LEMMA StatusLemma ==
  ASSUME NEW u \in UIType, NEW c \in 0 .. MaxClicks,
         NEW text \in {"", "Connecting...", "Connected", "confirm",
                       "refused", "OK", "FAILED", "error"}
  PROVE  /\ Status(u, text, c) \in UIType
         /\ Status(u, text, c).status = [text |-> text, click |-> c]
         /\ Status(u, text, c).address = u.address
         /\ Status(u, text, c).test = u.test
         /\ Status(u, text, c).balance = u.balance
         /\ Status(u, text, c).history = u.history
         /\ Status(u, text, c).historyStatus = u.historyStatus
BY DEF Status, UIType

\* What a settled promise changes: the figure that was awaited, or the status
\* line, and what that says.
Settled(t) == IF t.ans.res = "error" THEN ShownError(ui, t)
              ELSE ShownResult(ui, t)

\* It changes nothing else.
LEMMA SettledLemma ==
  ASSUME NEW t \in TaskType, ui \in UIType, Head(t.todo) \in Kinds
  PROVE  LET u == Settled(t) IN
         /\ u \in UIType
         /\ u.address = ui.address
         /\ Head(t.todo) \in Figures => u.status = ui.status
         /\ Head(t.todo) \notin Figures =>
              u.status = [text  |-> IF t.ans.res = "error" THEN "error"
                                    ELSE IF t.ans.res = "code"
                                              /\ ChecksCode(t.op) THEN "FAILED"
                                    ELSE "OK",
                          click |-> t.click]
         /\ u.balance = IF Head(t.todo) # "balance" THEN ui.balance
                        ELSE IF t.ans.res = "error" THEN Figure("Error", 0)
                        ELSE Figure("value", t.ans.n)
         /\ u.test = IF Head(t.todo) # "test" THEN ui.test
                     ELSE IF t.ans.res = "error" THEN Figure("Error", 0)
                     ELSE Figure("value", t.ans.n)
         /\ u.historyStatus = IF Head(t.todo) # "history" THEN ui.historyStatus
                              ELSE IF t.ans.res = "error" THEN "error" ELSE "OK"
         /\ u.history = IF Head(t.todo) = "history" /\ t.ans.res # "error"
                          THEN t.ans.items ELSE ui.history
<1> DEFINE u == Settled(t)
<1>1. /\ t.ans.n \in Nat /\ t.ans.items \in SUBSET Click
      /\ t.click \in 0 .. MaxClicks
  BY DEF TaskType, Click
<1>2. /\ Figure("Error", 0) \in FigureType
      /\ Figure("value", t.ans.n) \in FigureType
  BY <1>1 DEF Figure, FigureType
<1> HIDE DEF TaskType
<1>3. CASE Head(t.todo) = "balance" /\ t.ans.res = "error"
  <2>1. u = [ui EXCEPT !.balance = Figure("Error", 0)]
    BY <1>3 DEF Settled, ShownError
  <2> QED BY <2>1, <1>2, <1>3 DEF UIType, Figures
<1>4. CASE Head(t.todo) = "balance" /\ t.ans.res # "error"
  <2>1. u = [ui EXCEPT !.balance = Figure("value", t.ans.n)]
    BY <1>4 DEF Settled, ShownResult
  <2> QED BY <2>1, <1>2, <1>4 DEF UIType, Figures
<1>5. CASE Head(t.todo) = "test" /\ t.ans.res = "error"
  <2>1. u = [ui EXCEPT !.test = Figure("Error", 0)]
    BY <1>5 DEF Settled, ShownError
  <2> QED BY <2>1, <1>2, <1>5 DEF UIType, Figures
<1>6. CASE Head(t.todo) = "test" /\ t.ans.res # "error"
  <2>1. u = [ui EXCEPT !.test = Figure("value", t.ans.n)]
    BY <1>6 DEF Settled, ShownResult
  <2> QED BY <2>1, <1>2, <1>6 DEF UIType, Figures
<1>7. CASE Head(t.todo) = "history" /\ t.ans.res = "error"
  <2>1. u = [ui EXCEPT !.historyStatus = "error"]
    BY <1>7 DEF Settled, ShownError
  <2> QED BY <2>1, <1>7 DEF UIType, Figures
<1>8. CASE Head(t.todo) = "history" /\ t.ans.res # "error"
  <2>1. u = [ui EXCEPT !.history = t.ans.items, !.historyStatus = "OK"]
    BY <1>8 DEF Settled, ShownResult
  <2> QED BY <2>1, <1>1, <1>8 DEF UIType, Figures
<1>9. CASE Head(t.todo) \notin Figures
  <2> DEFINE text == IF t.ans.res = "error" THEN "error"
                     ELSE IF t.ans.res = "code" /\ ChecksCode(t.op)
                       THEN "FAILED" ELSE "OK"
  <2>1. u = Status(ui, text, t.click)
    BY <1>9 DEF Settled, ShownResult, ShownError, Figures
  <2>2. text \in {"", "Connecting...", "Connected", "confirm",
                  "refused", "OK", "FAILED", "error"}
    OBVIOUS
  <2> DEFINE v == Status(ui, text, t.click)
  <2>5. /\ v \in UIType
        /\ v.status = [text |-> text, click |-> t.click]
        /\ v.address = ui.address /\ v.test = ui.test
        /\ v.balance = ui.balance /\ v.history = ui.history
        /\ v.historyStatus = ui.historyStatus
    <3> HIDE DEF text, u
    <3> QED BY <2>2, <1>1, StatusLemma
  <2> HIDE DEF text, u
  <2>3. /\ u \in UIType
        /\ u.status = [text |-> text, click |-> t.click]
        /\ u.address = ui.address /\ u.test = ui.test
        /\ u.balance = ui.balance /\ u.history = ui.history
        /\ u.historyStatus = ui.historyStatus
    BY <2>1, <2>5
  <2>4. Head(t.todo) \notin {"balance", "test", "history"}
    BY <1>9 DEF Figures
  <2> QED BY <2>3, <2>4, <1>9 DEF text, u
<1> QED BY <1>3, <1>4, <1>5, <1>6, <1>7, <1>8, <1>9 DEF Figures

-----------------------------------------------------------------------------
(***************************************************************************)
(* The type invariant, with what makes it inductive: a handler awaits what *)
(* is left of its code, for an account once it is connected; a transaction *)
(* is unborn or was submitted by a click that was made; the total of the   *)
(* chain is one.                                                           *)
(***************************************************************************)
WellFormed(t) ==
  /\ t \in TaskType
  /\ t.todo \in Todos(t.op)
  /\ t.click <= clicks
  /\ Head(t.todo) # "connect" => t.addr \in Acct
  /\ t.stage \in {"signing", "polling"} => Head(t.todo) = "broadcast"

ChainOK == GoodStore(store) /\ seq \in [Acct -> Nat]
TxsOK ==
  /\ txs \in [Click -> Tx]
  /\ \A c \in Click : /\ txs[c] = NoTx \/ Submitted(txs[c])
                      /\ c > clicks => txs[c] = NoTx
UIOK ==
  /\ ui \in UIType
  /\ ui.status.click <= clicks
  /\ ui.status.text \in {"OK", "FAILED"} => ui.status.click \in Click
TasksOK == \A t \in tasks : WellFormed(t)
CountOK ==
  /\ clicks \in 0 .. MaxClicks
  /\ by \in [Figures -> 0 .. clicks]
  /\ fresh \subseteq 0 .. clicks
  /\ before \subseteq Click

TypedInv == ChainOK /\ TxsOK /\ UIOK /\ TasksOK /\ CountOK

\* The strengthening implies the type invariant.
LEMMA TypedIsTyped == TypedInv => TypeOK
<1> SUFFICES ASSUME TypedInv PROVE TypeOK
  OBVIOUS
<1>1. /\ store \in Store /\ seq \in [Acct -> Nat] /\ txs \in [Click -> Tx]
      /\ ui \in UIType /\ clicks \in 0 .. MaxClicks
  BY DEF TypedInv, ChainOK, GoodStore, TxsOK, UIOK, CountOK
<1>3. /\ by \in [Figures -> 0 .. MaxClicks] /\ fresh \subseteq 0 .. MaxClicks
      /\ before \subseteq Click
  <2>1. MaxClicks \in Nat
    BY WalletAssumption
  <2>2. 0 .. clicks \subseteq 0 .. MaxClicks
    BY <1>1, <2>1
  <2> QED BY <2>2 DEF TypedInv, CountOK
<1>2. \A t \in tasks : t \in TaskType /\ t.todo # <<>>
  <2> SUFFICES ASSUME NEW t \in tasks PROVE t \in TaskType /\ t.todo # <<>>
    OBVIOUS
  <2>1. t \in TaskType /\ t.todo \in Todos(t.op)
    BY DEF TypedInv, TasksOK, WellFormed
  <2>2. t.op \in Ops
    BY <2>1 DEF TaskType
  <2> QED BY <2>1, <2>2, TodosLemma DEF Follows
<1> QED BY <1>1, <1>2, <1>3 DEF TypeOK

\* What a task awaits, from its type.
LEMMA TaskLemma ==
  ASSUME NEW t, WellFormed(t)
  PROVE  /\ Follows(t.op, t.todo) /\ t.op \in Ops /\ t.click \in Click
         /\ t.ans.n \in Nat /\ t.ans.items \in SUBSET Click
<1>1. t.op \in Ops /\ t.todo \in Todos(t.op) /\ t \in TaskType
  BY DEF WellFormed, TaskType
<1>2. Follows(t.op, t.todo)
  BY <1>1, TodosLemma
<1> QED BY <1>1, <1>2 DEF TaskType

\* A task that starts.
LEMMA NewTaskLemma ==
  ASSUME clicks \in Nat, NEW op \in Ops, NEW c \in Click,
         NEW a \in Acct \cup {NoAcct}, op # "connect" => a \in Acct
  PROVE  LET t == Task(op, c, a) IN
         /\ t \in TaskType /\ t.todo \in Todos(t.op) /\ t.click = c
         /\ t.op = op /\ t.addr = a /\ t.stage = "waiting"
         /\ t.todo = Awaits(op)
         /\ Head(t.todo) # "connect" => t.addr \in Acct
<1> DEFINE t == Task(op, c, a)
<1>1. /\ Awaits(op) \in Todos(op) /\ Awaits(op) \in Seq(Kinds)
      /\ Head(Awaits(op)) = "connect" => op = "connect"
  BY AwaitsLemma, TodosLemma DEF Follows
<1>2. op = "connect" => Head(Awaits(op)) = "connect"
  BY StepsLemma DEF Awaits, Splits
<1>3. NoAnswer \in [res : {"none", "ok", "code", "error"}, n : Nat,
                    items : SUBSET Click]
  BY DEF NoAnswer
<1>4. t \in TaskType
  BY <1>1, <1>3 DEF Task, TaskType
<1>5. /\ t.op = op /\ t.click = c /\ t.addr = a /\ t.todo = Awaits(op)
      /\ t.stage = "waiting"
  BY DEF Task
<1> QED BY <1>1, <1>2, <1>4, <1>5

\* A task replaced by others of the same session.
LEMMA ReplaceTyped ==
  ASSUME TasksOK, NEW t, NEW S, Replace(t, S), clicks' = clicks,
         \A v \in S : WellFormed(v)
  PROVE  TasksOK'
BY DEF TasksOK, Replace, WellFormed

\* A click, as the history records it.
LEMMA ClickedTyped ==
  ASSUME WalletAssumption, TypedInv, Clicked
  PROVE  CountOK'
<1>1. /\ clicks < MaxClicks /\ clicks' = clicks + 1 /\ clicks \in 0 .. MaxClicks
      /\ MaxClicks \in Nat
  BY DEF Clicked, TypedInv, CountOK, WalletAssumption
<1>2. /\ clicks' \in 0 .. MaxClicks /\ clicks + 1 \in 0 .. clicks'
      /\ 0 .. clicks \subseteq 0 .. clicks'
  BY <1>1
<1>3. by' \in [Figures -> 0 .. clicks'] /\ fresh' \subseteq 0 .. clicks'
  BY <1>2 DEF Clicked, TypedInv, CountOK
<1>4. before' \subseteq Click
  <2>1. \A t \in tasks : t.click \in Click
    BY TaskLemma DEF TypedInv, TasksOK
  <2> QED BY <2>1 DEF Clicked
<1> QED BY <1>2, <1>3, <1>4 DEF CountOK

\* A click starts one well-formed handler.
LEMMA BeginTyped ==
  ASSUME WalletAssumption, TypedInv, NEW op \in Ops, NEW u \in UIType,
         op # "connect" => ui.address \in Acct, u.status.click <= clicks + 1,
         u.status.text \in {"OK", "FAILED"} => u.status.click \in Click,
         Begin(op, u)
  PROVE  ChainOK' /\ UIOK' /\ TasksOK' /\ CountOK'
<1>1. /\ clicks < MaxClicks /\ clicks' = clicks + 1 /\ clicks \in 0 .. MaxClicks
      /\ MaxClicks \in Nat /\ clicks + 1 \in Click
  BY DEF Begin, Clicked, TypedInv, CountOK, WalletAssumption, Click
<1>2. ChainOK'
  BY DEF ChainOK, GoodStore, GetTotalSupply, TypedInv, Begin, Clicked
<1>3. UIOK'
  <2>1. ui' = Announce(u, Awaits(op))
    BY DEF Begin, Clicked
  <2>2. ui' \in UIType /\ ui'.status = u.status
    BY <2>1, AnnounceLemma
  <2> QED BY <2>2, <1>1 DEF UIOK
<1>4. TasksOK'
  <2> SUFFICES ASSUME NEW t \in tasks' PROVE WellFormed(t)'
    BY DEF TasksOK
  <2>1. CASE t \in tasks
    <3>1. WellFormed(t)
      BY <2>1 DEF TypedInv, TasksOK
    <3>2. t.click \in Int
      BY <3>1, TaskLemma DEF Click
    <3> QED BY <3>1, <3>2, <1>1 DEF WellFormed
  <2>2. CASE t = Task(op, clicks + 1, ui.address)
    <3>1. ui.address \in Acct \cup {NoAcct}
      BY DEF TypedInv, UIOK, UIType
    <3>2. /\ t \in TaskType /\ t.todo \in Todos(t.op) /\ t.click = clicks + 1
          /\ t.stage = "waiting"
          /\ Head(t.todo) # "connect" => t.addr \in Acct
      BY <1>1, <2>2, <3>1, NewTaskLemma
    <3> QED BY <3>2, <1>1 DEF WellFormed
  <2> QED BY <2>1, <2>2 DEF Begin, Clicked
<1>5. CountOK'
  BY <1>1, ClickedTyped DEF Begin
<1> QED BY <1>2, <1>3, <1>4, <1>5

\* Nothing but a click and a transaction touches what TxsOK is about.
LEMMA TxsSame ==
  ASSUME TypedInv, UNCHANGED txs, clicks' \in {clicks, clicks + 1}
  PROVE  TxsOK'
BY DEF TypedInv, TxsOK, CountOK, Click, Submitted

\* Asking the extension for an account keeps the types.
LEMMA ConnectTyped ==
  ASSUME WalletAssumption, TypedInv, OnConnect PROVE TypedInv'
<1> DEFINE u == Status(ui, "Connecting...", clicks + 1)
<1>1. Begin("connect", u) /\ UNCHANGED txs
  BY DEF OnConnect
<1>2. clicks + 1 \in 0 .. MaxClicks
  BY <1>1 DEF Begin, Clicked, TypedInv, CountOK, WalletAssumption
<1>3. u \in UIType /\ u.status = [text |-> "Connecting...", click |-> clicks + 1]
  BY <1>2, StatusLemma DEF TypedInv, UIOK
<1>4. ChainOK' /\ UIOK' /\ TasksOK' /\ CountOK'
  <2> HIDE DEF u
  <2>1. /\ u.status.click <= clicks + 1
        /\ ~(u.status.text \in {"OK", "FAILED"})
    BY <1>2, <1>3
  <2>2. "connect" \in Ops
    BY DEF Ops, Figures
  <2> QED BY <1>1, <1>3, <2>1, <2>2, BeginTyped
<1>5. TxsOK'
  BY <1>1, TxsSame DEF Begin, Clicked
<1> QED BY <1>4, <1>5 DEF TypedInv

\* So does a refresh button,
LEMMA RefreshTyped ==
  ASSUME WalletAssumption, TypedInv, NEW op \in Figures, Refresh(op)
  PROVE  TypedInv'
<1>1. Begin(op, ui) /\ UNCHANGED txs /\ ui.address # NoAcct
  BY DEF Refresh
<1>2. /\ ui \in UIType /\ ui.address \in Acct /\ op \in Ops
      /\ ui.status.text \in {"OK", "FAILED"} => ui.status.click \in Click
  BY <1>1 DEF TypedInv, UIOK, UIType, Figures, Ops
<1>5. ui.status.click <= clicks + 1
  <2>1. ui.status.click \in 0 .. MaxClicks
    BY DEF TypedInv, UIOK, UIType
  <2>2. clicks \in 0 .. MaxClicks /\ ui.status.click <= clicks
    BY DEF TypedInv, UIOK, CountOK
  <2> QED BY <2>1, <2>2
<1>3. ChainOK' /\ UIOK' /\ TasksOK' /\ CountOK'
  BY <1>1, <1>2, <1>5, BeginTyped
<1>4. TxsOK'
  BY <1>1, TxsSame DEF Begin, Clicked
<1> QED BY <1>3, <1>4 DEF TypedInv

\* a form that is refused,
LEMMA RefuseTyped ==
  ASSUME WalletAssumption, TypedInv, RefuseForm PROVE TypedInv'
<1>1. /\ clicks < MaxClicks /\ clicks' = clicks + 1 /\ clicks \in 0 .. MaxClicks
      /\ MaxClicks \in Nat /\ clicks + 1 \in 0 .. MaxClicks
  BY DEF RefuseForm, Clicked, TypedInv, CountOK, WalletAssumption, Click
<1>2. ui' \in UIType /\ ui'.status = [text |-> "refused", click |-> clicks + 1]
  BY <1>1, StatusLemma DEF TypedInv, UIOK, RefuseForm, Clicked
<1>3. UIOK'
  <2>1. /\ ui'.status.click <= clicks + 1
        /\ ~(ui'.status.text \in {"OK", "FAILED"})
    BY <1>1, <1>2
  <2> QED BY <1>1, <1>2, <2>1 DEF UIOK
<1>4. ChainOK'
  BY DEF ChainOK, GoodStore, GetTotalSupply, TypedInv, RefuseForm, Clicked
<1>5. TxsOK'
  BY <1>1, TxsSame DEF RefuseForm, Clicked
<1>6. TasksOK'
  <2> SUFFICES ASSUME NEW t \in tasks PROVE WellFormed(t)'
    BY DEF TasksOK, RefuseForm, Clicked
  <2>1. WellFormed(t)
    BY DEF TypedInv, TasksOK
  <2>2. t.click \in Int
    BY <2>1, TaskLemma DEF Click
  <2> QED BY <2>1, <2>2, <1>1 DEF WellFormed
<1>7. CountOK'
  BY ClickedTyped DEF RefuseForm
<1> QED BY <1>3, <1>4, <1>5, <1>6, <1>7 DEF TypedInv

\* and one that is sent: the click owns an unborn transaction.
LEMMA SubmitTyped ==
  ASSUME WalletAssumption, TypedInv, NEW op \in TxOps,
         NEW peer \in Acct \cup {NoAcct}, NEW n \in FormAmounts,
         ui.address # NoAcct, Submit(op, peer, n)
  PROVE  TypedInv'
<1> DEFINE u == Status(ui, "confirm", clicks + 1)
           x == [NoTx EXCEPT !.op = op, !.from = ui.address,
                             !.peer = peer, !.n = n]
<1>1. Begin(op, u) /\ txs' = [txs EXCEPT ![clicks + 1] = x]
  BY DEF Submit
<1>2. /\ clicks + 1 \in 0 .. MaxClicks /\ clicks + 1 \in Click
      /\ clicks \in Nat /\ clicks' = clicks + 1
  BY <1>1 DEF Begin, Clicked, TypedInv, CountOK, WalletAssumption, Click
<1>3. u \in UIType /\ u.status = [text |-> "confirm", click |-> clicks + 1]
  BY <1>2, StatusLemma DEF TypedInv, UIOK
<1>4. op \in Ops /\ op # "connect" /\ ui.address \in Acct
  BY DEF TypedInv, UIOK, UIType, Ops, TxOps
<1>5. ChainOK' /\ UIOK' /\ TasksOK' /\ CountOK'
  <2> HIDE DEF u
  <2>1. /\ u.status.click <= clicks + 1
        /\ ~(u.status.text \in {"OK", "FAILED"})
    BY <1>2, <1>3
  <2> QED BY <1>1, <1>3, <1>4, <2>1, BeginTyped
<1>6. x \in Tx /\ Submitted(x)
  <2>1. n \in 0 .. IntLimit /\ n \in Nat
    BY TypesAssumption DEF WalletAssumption
  <2> QED BY <1>4, <2>1 DEF NoTx, Tx, Submitted
<1>7. TxsOK'
  <2> HIDE DEF x
  <2>1. txs' \in [Click -> Tx]
    BY <1>1, <1>2, <1>6 DEF TypedInv, TxsOK
  <2>2. \A c \in Click : txs'[c] = IF c = clicks + 1 THEN x ELSE txs[c]
    BY <1>1, <1>2 DEF TypedInv, TxsOK
  <2>3. ASSUME NEW c \in Click
        PROVE  /\ txs'[c] = NoTx \/ Submitted(txs'[c])
               /\ c > clicks' => txs'[c] = NoTx
    <3>1. CASE c = clicks + 1
      BY <3>1, <2>2, <1>2, <1>6
    <3>2. CASE c # clicks + 1
      BY <3>2, <2>2, <1>2 DEF TypedInv, TxsOK, Click
    <3> QED BY <3>1, <3>2
  <2> QED BY <2>1, <2>3 DEF TxsOK, Submitted
<1> QED BY <1>5, <1>7 DEF TypedInv

\* A form, for any of the three transactions.
LEMMA FormTyped ==
  ASSUME WalletAssumption, TypedInv, NEW op \in TxOps,
         NEW peer \in Acct \cup {NoAcct}, NEW n \in FormAmounts,
         ui.address # NoAcct, IF n = 0 THEN RefuseForm ELSE Submit(op, peer, n)
  PROVE  TypedInv'
BY RefuseTyped, SubmitTyped

-----------------------------------------------------------------------------
\* The history is left as it is.
LEMMA HistSame ==
  ASSUME TypedInv, UNCHANGED <<clicks, hist>>
  PROVE  CountOK'
BY DEF CountOK, TypedInv, hist

\* A step of a handler that leaves the chain and the clicks alone.
LEMMA StepTyped ==
  ASSUME TypedInv, NEW t \in tasks, NEW S, Replace(t, S),
         \A v \in S : WellFormed(v),
         UNCHANGED <<store, seq, txs, clicks>>,
         UIOK', CountOK'
  PROVE  TypedInv'
<1>1. TasksOK'
  BY ReplaceTyped DEF TypedInv
<1>2. ChainOK'
  BY DEF ChainOK, GoodStore, GetTotalSupply, TypedInv
<1>3. TxsOK'
  BY TxsSame
<1> QED BY <1>1, <1>2, <1>3 DEF TypedInv

\* And one that leaves the history alone too.
LEMMA HandlerTyped ==
  ASSUME TypedInv, NEW t \in tasks, NEW S, Replace(t, S),
         \A v \in S : WellFormed(v),
         UNCHANGED <<store, seq, txs, clicks, hist>>,
         UIOK'
  PROVE  TypedInv'
BY HistSame, StepTyped

\* Connecting starts two well-formed handlers for the new address.
LEMMA ConnectedTyped ==
  ASSUME WalletAssumption, TypedInv, NEW t \in tasks, NEW a \in WalletAccts,
         Connected(t, a)
  PROVE  TypedInv'
<1>1. /\ WellFormed(t) /\ t.click \in Click /\ clicks \in Nat
      /\ t.click <= clicks /\ t.click \in 0 .. MaxClicks
  BY TaskLemma DEF TypedInv, TasksOK, WellFormed, CountOK, Click
<1>2. a \in Acct
  BY DEF WalletAssumption
<1> DEFINE S == {Task("history", t.click, a), Task("background", t.click, a)}
<1>3. ASSUME NEW v \in S PROVE WellFormed(v)
  <2>1. PICK op \in {"history", "background"} : v = Task(op, t.click, a)
    OBVIOUS
  <2>2. op \in Ops
    BY DEF Ops, Figures
  <2>3. /\ v \in TaskType /\ v.todo \in Todos(v.op) /\ v.click = t.click
        /\ v.stage = "waiting"
        /\ Head(v.todo) # "connect" => v.addr \in Acct
    BY <1>1, <1>2, <2>1, <2>2, NewTaskLemma
  <2> QED BY <1>1, <2>3 DEF WellFormed
<1>4. UIOK'
  <2> DEFINE u == [ui EXCEPT !.address = a]
             v == Status(u, "Connected", t.click)
             w == Announce(v, Awaits("history"))
  <2>1. u \in UIType
    BY <1>2 DEF TypedInv, UIOK, UIType
  <2>2. v \in UIType /\ v.status = [text |-> "Connected", click |-> t.click]
    <3> HIDE DEF u
    <3> QED BY <1>1, <2>1, StatusLemma
  <2>3. w \in UIType /\ w.status = v.status
    <3> HIDE DEF v
    <3> QED BY <2>2, AnnounceLemma
  <2>4. ui' = Announce(w, Awaits("background"))
    BY DEF Connected
  <2>5. ui' \in UIType /\ ui'.status = w.status
    <3> HIDE DEF w
    <3> QED BY <2>3, <2>4, AnnounceLemma
  <2>6. /\ ui'.status.click = t.click
        /\ ~(ui'.status.text \in {"OK", "FAILED"})
    BY <2>2, <2>3, <2>5
  <2> QED BY <1>1, <2>5, <2>6 DEF UIOK, Connected
<1>5. Replace(t, S) /\ UNCHANGED <<store, seq, txs, clicks>>
  BY DEF Connected, Loads
<1>6. CountOK'
  <2>1. t.click \in 0 .. clicks
    BY <1>1 DEF Click
  <2> QED BY <2>1 DEF Connected, CountOK, TypedInv
<1> HIDE DEF S
<1> QED BY <1>3, <1>4, <1>5, <1>6, StepTyped

\* A promise that is settled.
LEMMA AnsweredTyped ==
  ASSUME TypedInv, NEW t \in tasks,
         NEW ans \in [res : {"none", "ok", "code", "error"}, n : Nat,
                      items : SUBSET Click]
  PROVE  /\ WellFormed(Answered(t, ans))
         /\ Answered(t, ans).todo = t.todo /\ Answered(t, ans).op = t.op
         /\ Answered(t, ans).click = t.click
         /\ Answered(t, ans).addr = t.addr
         /\ Answered(t, ans).stage = "answered" /\ Answered(t, ans).ans = ans
<1>1. WellFormed(t)
  BY DEF TypedInv, TasksOK
<1> DEFINE v == Answered(t, ans)
<1>2. /\ v \in TaskType /\ v.todo = t.todo /\ v.op = t.op /\ v.click = t.click
      /\ v.addr = t.addr /\ v.stage = "answered" /\ v.ans = ans
  BY <1>1 DEF WellFormed, TaskType, Answered
<1> HIDE DEF v
<1>3. WellFormed(v)
  BY <1>1, <1>2 DEF WellFormed
<1> QED BY <1>2, <1>3 DEF v

\* The answers that carry no figure.
LEMMA AnswersTyped ==
  /\ NoAnswer \in [res : {"none", "ok", "code", "error"}, n : Nat,
                   items : SUBSET Click]
  /\ Error \in [res : {"none", "ok", "code", "error"}, n : Nat,
                items : SUBSET Click]
  /\ Error.res = "error" /\ NoAnswer.res = "none"
BY DEF NoAnswer, Error

\* What the node answers to a query.
LEMMA QueryAnswerLemma ==
  ASSUME WalletAssumption, TypedInv, NEW t \in tasks,
         Head(t.todo) \in Figures
  PROVE  /\ QueryAnswer(t) \in [res : {"none", "ok", "code", "error"}, n : Nat,
                                items : SUBSET Click]
         /\ QueryAnswer(t).res = "ok"
         /\ Head(t.todo) = "balance" => QueryAnswer(t).n = store.bal[t.addr][Ustb]
         /\ Head(t.todo) = "test" =>
              QueryAnswer(t).n = store.bal[TestRecipient][Ustb]
         /\ Head(t.todo) = "history" =>
              QueryAnswer(t).items =
                {c \in Executed : Touches(txs[c], t.addr)}
<1>1. /\ store.bal \in Balances /\ t.addr \in Acct
      /\ Ustb \in Denom /\ TestRecipient \in Acct
  BY DEF TypedInv, ChainOK, GoodStore, Store, TasksOK, WellFormed, Figures,
         WalletAssumption
<1>2. /\ store.bal[t.addr][Ustb] \in Nat
      /\ store.bal[TestRecipient][Ustb] \in Nat
  BY <1>1 DEF Balances
<1>3. {c \in Executed : Touches(txs[c], t.addr)} \in SUBSET Click
  BY DEF Executed
<1>4. CASE Head(t.todo) = "balance"
  BY <1>2, <1>4 DEF QueryAnswer, NoAnswer
<1>5. CASE Head(t.todo) = "test"
  BY <1>2, <1>5 DEF QueryAnswer, NoAnswer
<1>6. CASE Head(t.todo) = "history"
  BY <1>3, <1>6 DEF QueryAnswer, NoAnswer
<1> QED BY <1>4, <1>5, <1>6 DEF Figures

\* A query that is answered keeps the types,
LEMMA ServeTyped ==
  ASSUME WalletAssumption, TypedInv, NEW t \in tasks, Serve(t)
  PROVE  TypedInv'
<1>1. Head(t.todo) \in Figures
  BY DEF Serve, Figures
<1>2. WellFormed(Answered(t, QueryAnswer(t)))
  BY <1>1, QueryAnswerLemma, AnsweredTyped
<1>3. UIOK'
  BY DEF Serve, TypedInv, UIOK
<1>4. /\ Replace(t, {Answered(t, QueryAnswer(t))})
      /\ UNCHANGED <<store, seq, txs, clicks, hist>>
  BY DEF Serve
<1> QED BY <1>2, <1>3, <1>4, HandlerTyped

\* a promise that is rejected,
LEMMA RejectTyped ==
  ASSUME TypedInv, NEW t \in tasks, Reject(t)
  PROVE  TypedInv'
<1>1. WellFormed(Answered(t, Error))
  BY AnswersTyped, AnsweredTyped
<1>2. UIOK'
  BY DEF Reject, TypedInv, UIOK
<1>3. /\ Replace(t, {Answered(t, Error)})
      /\ UNCHANGED <<store, seq, txs, clicks, hist>>
  BY DEF Reject
<1> QED BY <1>1, <1>2, <1>3, HandlerTyped

\* the sequence of the account,
LEMMA FetchTyped ==
  ASSUME TypedInv, NEW t \in tasks, FetchSequence(t)
  PROVE  TypedInv'
<1> DEFINE v == [t EXCEPT !.stage = "signing", !.sq = seq[t.addr]]
<1>1. /\ WellFormed(t) /\ Head(t.todo) = "broadcast"
      /\ seq \in [Acct -> Nat]
  BY DEF FetchSequence, TypedInv, TasksOK, ChainOK
<1>2. t.addr \in Acct
  BY <1>1 DEF WellFormed
<1>3. /\ v \in TaskType /\ v.todo = t.todo /\ v.op = t.op /\ v.click = t.click
      /\ v.addr = t.addr
  BY <1>1, <1>2 DEF WellFormed, TaskType
<1>4. WellFormed(v)
  <2> HIDE DEF v
  <2> QED BY <1>1, <1>3 DEF WellFormed
<1>5. UIOK'
  BY DEF FetchSequence, TypedInv, UIOK
<1>6. /\ Replace(t, {v}) /\ UNCHANGED <<store, seq, txs, clicks, hist>>
  BY DEF FetchSequence
<1> HIDE DEF v
<1> QED BY <1>4, <1>5, <1>6, HandlerTyped

\* the result of a transaction
LEMMA FoundTyped ==
  ASSUME TypedInv, NEW t \in tasks, Found(t)
  PROVE  TypedInv'
<1> DEFINE ans == [NoAnswer EXCEPT !.res =
                     IF txs[t.click].state = "ok" THEN "ok" ELSE "code"]
<1>1. ans \in [res : {"none", "ok", "code", "error"}, n : Nat,
               items : SUBSET Click]
  BY DEF NoAnswer
<1>2. /\ Replace(t, {Answered(t, ans)})
      /\ UNCHANGED <<store, seq, txs, clicks, hist>>
  BY DEF Found
<1>3. UIOK'
  BY DEF Found, TypedInv, UIOK
<1> HIDE DEF ans
<1>4. WellFormed(Answered(t, ans))
  BY <1>1, AnsweredTyped
<1> QED BY <1>2, <1>3, <1>4, HandlerTyped

\* and the approval of one that was submitted.
LEMMA ApproveTyped ==
  ASSUME TypedInv, NEW t \in tasks, Approve(t), WalletAssumption,
         Submitted(txs[t.click])
  PROVE  TypedInv'
<1>1. /\ WellFormed(t) /\ t.stage = "signing"
      /\ UNCHANGED <<store, seq, ui, clicks, hist>>
  BY DEF Approve, TypedInv, TasksOK
<1>2. t.click \in Click /\ t.click <= clicks /\ clicks \in Nat
  BY <1>1, TaskLemma DEF WellFormed, TypedInv, CountOK
<1>3. UIOK'
  BY <1>1 DEF TypedInv, UIOK
<1>4. CASE UNCHANGED txs /\ Replace(t, {Answered(t, Error)})
  <2>1. WellFormed(Answered(t, Error))
    BY AnswersTyped, AnsweredTyped
  <2> QED BY <1>1, <1>3, <1>4, <2>1, HandlerTyped
<1>5. CASE /\ txs' = [txs EXCEPT ![t.click].state = "pending",
                                 ![t.click].sq = t.sq]
           /\ Replace(t, {[t EXCEPT !.stage = "polling"]})
  <2> DEFINE v == [t EXCEPT !.stage = "polling"]
             x == [txs[t.click] EXCEPT !.state = "pending", !.sq = t.sq]
  <2>1. Head(t.todo) = "broadcast"
    BY <1>1 DEF WellFormed
  <2>2. /\ v \in TaskType /\ v.todo = t.todo /\ v.op = t.op
        /\ v.click = t.click /\ v.addr = t.addr
    BY <1>1 DEF WellFormed, TaskType
  <2>3. WellFormed(v)
    <3> HIDE DEF v
    <3> QED BY <1>1, <2>1, <2>2 DEF WellFormed
  <2>4. TasksOK'
    <3> HIDE DEF v
    <3>1. Replace(t, {v})
      BY <1>5 DEF v
    <3> QED BY <1>1, <2>3, <3>1, ReplaceTyped DEF TypedInv
  <2>5. txs \in [Click -> Tx] /\ txs[t.click] \in Tx
    BY <1>2 DEF TypedInv, TxsOK
  <2>6. txs' = [txs EXCEPT ![t.click] = x]
    BY <1>5, <1>2, <2>5 DEF Tx
  <2>7. x \in Tx /\ Submitted(x)
    <3>1. t.sq \in Nat
      BY <1>1 DEF WellFormed, TaskType
    <3> QED BY <2>5, <3>1 DEF Tx, Submitted
  <2>8. TxsOK'
    <3> HIDE DEF x
    <3>1. txs' \in [Click -> Tx]
      BY <2>5, <2>6, <2>7
    <3>2. ASSUME NEW c \in Click
          PROVE  /\ txs'[c] = NoTx \/ Submitted(txs'[c])
                 /\ c > clicks' => txs'[c] = NoTx
      <4>1. CASE c = t.click
        <5>1. txs'[c] = x /\ clicks' = clicks /\ ~(c > clicks)
          BY <1>1, <1>2, <2>5, <2>6, <4>1 DEF Click
        <5> QED BY <5>1, <2>7
      <4>2. CASE c # t.click
        <5>1. txs'[c] = txs[c] /\ clicks' = clicks
          BY <1>1, <2>5, <2>6, <4>2
        <5> QED BY <5>1 DEF TypedInv, TxsOK
      <4> QED BY <4>1, <4>2
    <3> QED BY <3>1, <3>2 DEF TxsOK, Submitted
  <2>9. ChainOK' /\ CountOK'
    BY <1>1, HistSame DEF ChainOK, GoodStore, GetTotalSupply, TypedInv
  <2> QED BY <1>3, <2>4, <2>8, <2>9 DEF TypedInv
<1> QED BY <1>4, <1>5 DEF Approve

\* A handler that goes on awaits the rest of its code.
Going(t) == [t EXCEPT !.todo = Tail(t.todo), !.stage = "waiting",
                      !.ans = NoAnswer]

\* It keeps its click, operation and address, and awaits a query.
LEMMA GoingLemma ==
  ASSUME TypedInv, NEW t \in tasks, Tail(t.todo) # <<>>
  PROVE  /\ WellFormed(Going(t)) /\ Going(t).todo = Tail(t.todo)
         /\ Going(t).op = t.op /\ Going(t).click = t.click
         /\ Going(t).addr = t.addr /\ Going(t).stage = "waiting"
         /\ Head(Going(t).todo) \in Figures
<1> DEFINE v == Going(t)
<1>1. WellFormed(t)
  BY DEF TypedInv, TasksOK
<1>2. /\ Tail(t.todo) \in Todos(t.op) /\ Head(Tail(t.todo)) \in Figures
      /\ t.op \in Ops /\ Head(t.todo) # "connect"
  <2>1. Follows(t.op, t.todo) /\ t.op \in Ops
    BY <1>1, TaskLemma
  <2>2. t.op = "connect" => Tail(t.todo) = <<>>
    <3>1. t.op = "connect" => t.todo = <<"connect">>
      BY <1>1 DEF WellFormed, Todos
    <3> QED BY <3>1, StepsLemma DEF Splits
  <2> QED BY <2>1, <2>2 DEF Follows
<1>3. Tail(t.todo) \in Seq(Kinds)
  BY <1>2, TodosLemma DEF Follows
<1>4. /\ v \in TaskType /\ v.todo = Tail(t.todo) /\ v.op = t.op
      /\ v.click = t.click /\ v.addr = t.addr /\ v.stage = "waiting"
  BY <1>1, <1>3, AnswersTyped DEF WellFormed, TaskType, Going
<1> HIDE DEF v
<1>5. WellFormed(v)
  BY <1>1, <1>2, <1>4 DEF WellFormed
<1> QED BY <1>2, <1>4, <1>5 DEF v

\* The two ways a handler resumes.
LEMMA ResumeLemma ==
  ASSUME TypedInv, NEW t \in tasks, Resume(t)
  PROVE  /\ t.stage = "answered"
         /\ UNCHANGED <<store, seq, txs, clicks, fresh, before>>
         /\ by' = [f \in Figures |-> IF f = Head(t.todo) THEN t.click ELSE by[f]]
         /\ ui' \in UIType
         /\ ui'.status = Settled(t).status /\ ui'.address = ui.address
         /\ ui'.test = Settled(t).test /\ ui'.history = Settled(t).history
         /\ \/ /\ Ends(t) /\ Replace(t, {}) /\ ui' = Settled(t)
            \/ /\ ~Ends(t) /\ Tail(t.todo) # <<>> /\ Replace(t, {Going(t)})
               /\ ui' = Announce(Settled(t), Tail(t.todo))
<1>1. Settled(t) \in UIType /\ Settled(t).address = ui.address
  <2>1. t \in TaskType /\ Head(t.todo) \in Kinds /\ ui \in UIType
    BY TaskLemma DEF TypedInv, TasksOK, WellFormed, Follows, UIOK
  <2> QED BY <2>1, SettledLemma
<1>2. /\ t.stage = "answered"
      /\ UNCHANGED <<store, seq, txs, clicks, fresh, before>>
      /\ by' = [f \in Figures |-> IF f = Head(t.todo) THEN t.click ELSE by[f]]
  BY DEF Resume
<1>3. CASE Ends(t)
  <2>1. ui' = Announce(Settled(t), <<>>) /\ Replace(t, {})
    BY <1>3 DEF Resume, Settled
  <2>2. ui' = Settled(t)
    BY <2>1 DEF Announce
  <2> QED BY <1>1, <1>2, <1>3, <2>1, <2>2
<1>4. CASE ~Ends(t)
  <2>1. Tail(t.todo) # <<>>
    BY <1>4 DEF Ends
  <2>2. ui' = Announce(Settled(t), Tail(t.todo)) /\ Replace(t, {Going(t)})
    BY <1>4, <2>1 DEF Resume, Settled, Going
  <2>3. /\ ui' \in UIType /\ ui'.status = Settled(t).status
        /\ ui'.address = Settled(t).address /\ ui'.test = Settled(t).test
        /\ ui'.history = Settled(t).history
    BY <1>1, <2>2, AnnounceLemma
  <2> QED BY <1>1, <1>2, <1>4, <2>1, <2>2, <2>3
<1> QED BY <1>3, <1>4

\* A handler that resumes keeps the types.
LEMMA ResumeTyped ==
  ASSUME TypedInv, NEW t \in tasks, Resume(t)
  PROVE  TypedInv'
<1>1. /\ t \in TaskType /\ Head(t.todo) \in Kinds /\ ui \in UIType
      /\ t.click \in Click /\ t.click <= clicks
  BY TaskLemma DEF TypedInv, TasksOK, WellFormed, Follows, UIOK
<1>2. /\ ui' \in UIType /\ ui'.status = Settled(t).status
      /\ UNCHANGED <<store, seq, txs, clicks, fresh, before>>
      /\ by' = [f \in Figures |-> IF f = Head(t.todo) THEN t.click ELSE by[f]]
  BY ResumeLemma
<1>3. ui'.status = ui.status \/ ui'.status.click = t.click
  <2>1. CASE Head(t.todo) \in Figures
    BY <1>1, <1>2, <2>1, SettledLemma
  <2>2. CASE Head(t.todo) \notin Figures
    <3>1. PICK text : Settled(t).status = [text |-> text, click |-> t.click]
      BY <1>1, <2>2, SettledLemma
    <3> QED BY <1>2, <3>1
  <2> QED BY <2>1, <2>2
<1>4. UIOK'
  BY <1>1, <1>2, <1>3 DEF TypedInv, UIOK
<1>5. \/ Replace(t, {})
      \/ Replace(t, {Going(t)}) /\ WellFormed(Going(t))
  BY ResumeLemma, GoingLemma
<1>6. CountOK'
  <2>1. t.click \in 0 .. clicks
    BY <1>1 DEF Click, TypedInv, CountOK
  <2> QED BY <1>2, <2>1 DEF TypedInv, CountOK
<1> QED BY <1>2, <1>4, <1>5, <1>6, StepTyped

-----------------------------------------------------------------------------
\* Fields of a transaction that changes its state.
LEMMA TxStateTyped ==
  ASSUME TypedInv, NEW c \in Click, txs[c].state # "none",
         NEW st \in {"none", "pending", "ok", "failed", "dropped"},
         txs' = [txs EXCEPT ![c].state = st], clicks' = clicks
  PROVE  /\ TxsOK'
         /\ \A d \in Click : d # c => txs'[d] = txs[d]
         /\ txs'[c].state = st /\ txs'[c].op = txs[c].op
         /\ txs'[c].from = txs[c].from /\ txs'[c].peer = txs[c].peer
         /\ Submitted(txs[c])
<1> DEFINE x == [txs[c] EXCEPT !.state = st]
<1>1. txs \in [Click -> Tx] /\ txs[c] \in Tx
  BY DEF TypedInv, TxsOK
<1>2. txs[c] # NoTx
  BY DEF NoTx
<1>3. Submitted(txs[c]) /\ ~(c > clicks)
  BY <1>2 DEF TypedInv, TxsOK
<1>4. txs' = [txs EXCEPT ![c] = x]
  BY <1>1
<1>5. /\ x \in Tx /\ x.state = st /\ x.op = txs[c].op
      /\ x.from = txs[c].from /\ x.peer = txs[c].peer /\ x.n = txs[c].n
  BY <1>1 DEF Tx
<1> HIDE DEF x
<1>6. /\ txs' \in [Click -> Tx] /\ txs'[c] = x
      /\ \A d \in Click : d # c => txs'[d] = txs[d]
  BY <1>1, <1>4, <1>5
<1>7. Submitted(x)
  BY <1>3, <1>5 DEF Submitted
<1>8. ASSUME NEW d \in Click
      PROVE  /\ txs'[d] = NoTx \/ Submitted(txs'[d])
             /\ d > clicks' => txs'[d] = NoTx
  <2>1. CASE d = c
    BY <1>3, <1>6, <1>7, <2>1
  <2>2. CASE d # c
    BY <1>6, <2>2 DEF TypedInv, TxsOK
  <2> QED BY <2>1, <2>2
<1>9. TxsOK'
  BY <1>6, <1>8 DEF TxsOK, Submitted
<1> QED BY <1>3, <1>5, <1>6, <1>9

\* The page is left alone.
LEMMA PageSame ==
  ASSUME TypedInv, UNCHANGED <<ui, tasks, clicks, by, before>>,
         fresh' \subseteq 0 .. clicks
  PROVE  UIOK' /\ TasksOK' /\ CountOK'
BY DEF TypedInv, UIOK, TasksOK, WellFormed, CountOK

\* The execution of a transaction keeps the types,
LEMMA ExecuteTyped ==
  ASSUME WalletAssumption, TypedInv, NEW c \in Click, Execute(c)
  PROVE  TypedInv'
<1> DEFINE st == IF RunMsg(Paid(txs[c]), txs[c]).err = "nil" THEN "ok"
                 ELSE "failed"
<1>1. /\ txs[c].state = "pending" /\ InBlock(txs[c])
      /\ txs' = [txs EXCEPT ![c].state = st]
      /\ fresh' \subseteq {c} /\ UNCHANGED <<ui, tasks, clicks, by, before>>
  BY DEF Execute
<1>2. st \in {"none", "pending", "ok", "failed", "dropped"}
  OBVIOUS
<1> HIDE DEF st
<1>3. TxsOK' /\ Submitted(txs[c])
  BY <1>1, <1>2, TxStateTyped
<1>4. ChainOK'
  BY <1>1, <1>3, InBlockLemma DEF TypedInv, ChainOK, GoodStore, GetTotalSupply
<1>5. UIOK' /\ TasksOK' /\ CountOK'
  <2>1. txs[c] # NoTx
    BY <1>1 DEF NoTx
  <2>2. c \in 0 .. clicks
    BY <2>1 DEF TypedInv, TxsOK, CountOK, Click
  <2> QED BY <1>1, <2>2, PageSame
<1> QED BY <1>3, <1>4, <1>5 DEF TypedInv

\* so does its removal from the mempool,
LEMMA DropTyped ==
  ASSUME TypedInv, NEW c \in Click, Drop(c)
  PROVE  TypedInv'
<1>1. /\ txs[c].state = "pending"
      /\ txs' = [txs EXCEPT ![c].state = "dropped"]
      /\ UNCHANGED <<store, seq, ui, tasks, clicks, hist>>
  BY DEF Drop
<1>2. TxsOK'
  BY <1>1, TxStateTyped
<1>3. ChainOK'
  BY <1>1 DEF TypedInv, ChainOK, GoodStore, GetTotalSupply
<1>4. UIOK' /\ TasksOK' /\ CountOK'
  BY <1>1, PageSame DEF TypedInv, CountOK, hist
<1> QED BY <1>2, <1>3, <1>4 DEF TypedInv

\* and a transaction made elsewhere.
LEMMA ExecuteOtherTyped ==
  ASSUME WalletAssumption, TypedInv, NEW x \in Elsewhere, ExecuteOther(x)
  PROVE  TypedInv'
<1>1. Submitted(x)
  BY DEF WalletAssumption, Submitted, TxOps
<1>2. /\ InBlock(x) /\ fresh' = {}
      /\ UNCHANGED <<txs, ui, tasks, clicks, by, before>>
  BY DEF ExecuteOther
<1>3. ChainOK'
  BY <1>1, <1>2, InBlockLemma DEF TypedInv, ChainOK, GoodStore, GetTotalSupply
<1>4. UIOK' /\ TasksOK' /\ CountOK'
  BY <1>2, PageSame
<1>5. TxsOK'
  BY <1>2, TxsSame
<1> QED BY <1>3, <1>4, <1>5 DEF TypedInv

\* Governance changes the parameters and no figure.
LEMMA GovernLemma ==
  ASSUME WalletAssumption, TypedInv, NEW p \in ParamChanges, Govern(p)
  PROVE  TypedInv' /\ store'.bal = store.bal
<1> DEFINE m == [authority |-> AddrOf(Gov), params |-> p]
<1>1. m \in UpdateMsg
  BY BankAssumption DEF WalletAssumption, UpdateMsg, AddrText, AddrOf
<1>2. /\ store' = UpdateParams(store, m).st
      /\ UNCHANGED <<seq, txs, ui, tasks, clicks, hist>>
  BY DEF Govern
<1> HIDE DEF m
<1>3. /\ store' \in Store /\ store'.total = store.total
      /\ store'.bal = store.bal
  BY <1>1, <1>2, UpdateParamsLemma DEF TypedInv, ChainOK, GoodStore
<1>4. ChainOK'
  BY <1>2, <1>3 DEF TypedInv, ChainOK, GoodStore, GetTotalSupply
<1>5. UIOK' /\ TasksOK' /\ CountOK'
  BY <1>2, PageSame DEF TypedInv, CountOK, hist
<1>6. TxsOK'
  BY <1>2, TxsSame
<1> QED BY <1>3, <1>4, <1>5, <1>6 DEF TypedInv

\* A new page, or one that was connected and came to rest.
LEMMA InitTyped ==
  ASSUME WalletAssumption, Init PROVE TypedInv
<1>1. store \in Store /\ GoodStore(store)
  BY DEF Init, WalletAssumption, GoodStore
<1>2. UI0 \in UIType /\ UI0.status = [text |-> "", click |-> 0]
  BY DEF UI0, UIType, FigureType, Figure, WalletAssumption
<1>3. ASSUME NEW a \in WalletAccts
      PROVE  /\ AtRest(a) \in UIType
             /\ AtRest(a).status = [text |-> "Connected", click |-> 0]
  <2>1. /\ a \in Acct /\ Ustb \in Denom /\ TestRecipient \in Acct
        /\ store.bal \in Balances
    BY <1>1 DEF WalletAssumption, Store
  <2>2. /\ store.bal[a][Ustb] \in Nat
        /\ store.bal[TestRecipient][Ustb] \in Nat
    BY <2>1 DEF Balances
  <2>3. /\ Figure("value", store.bal[a][Ustb]) \in FigureType
        /\ Figure("value", store.bal[TestRecipient][Ustb]) \in FigureType
    BY <2>2 DEF Figure, FigureType
  <2> QED BY <1>2, <2>1, <2>3 DEF AtRest, UIType, UI0
<1>4. ui \in UIType /\ ui.status.click = 0 /\ ~(ui.status.text \in {"OK", "FAILED"})
  <2>1. ui = UI0 \/ \E a \in WalletAccts : ui = AtRest(a)
    BY DEF Init
  <2>2. CASE ui = UI0
    <3>1. /\ UI0.status.click = 0 /\ UI0.status.text # "OK"
          /\ UI0.status.text # "FAILED"
      BY DEF UI0
    <3> QED BY <1>2, <2>2, <3>1
  <2>3. ASSUME NEW a \in WalletAccts, ui = AtRest(a)
        PROVE  /\ ui \in UIType /\ ui.status.click = 0
               /\ ~(ui.status.text \in {"OK", "FAILED"})
    <3>1. ui \in UIType /\ ui.status = [text |-> "Connected", click |-> 0]
      BY <1>3, <2>3
    <3> QED BY <3>1
  <2> QED BY <2>1, <2>2, <2>3
<1>5. UIOK
  BY <1>4 DEF UIOK, Init
<1>6. NoTx \in Tx
  BY DEF NoTx, Tx
<1>7. TxsOK
  BY <1>6 DEF Init, TxsOK
<1>8. ChainOK /\ TasksOK /\ CountOK
  BY <1>1 DEF Init, ChainOK, TasksOK, CountOK, WalletAssumption
<1> QED BY <1>5, <1>7, <1>8 DEF TypedInv

-----------------------------------------------------------------------------
(***************************************************************************)
(* What a handler knows about its transaction.  Only one handler speaks    *)
(* for a click; until the user approves, the transaction is unborn; the    *)
(* answer it holds is the verdict of the chain, which does not change.     *)
(***************************************************************************)
Sending(t) == Head(t.todo) = "broadcast"

Verdict(res, state) ==
  \/ res = "error"
  \/ res = "ok" /\ state = "ok"
  \/ res = "code" /\ state = "failed"

Informed(t) ==
  /\ Sending(t) =>
       /\ txs[t.click].op = t.op
       /\ t.stage \in {"waiting", "signing"} => txs[t.click].state = "none"
       /\ t.stage = "answered" => Verdict(t.ans.res, txs[t.click].state)
  /\ Head(t.todo) = "connect" =>
       /\ txs[t.click] = NoTx
       /\ t.stage = "answered" => t.ans.res = "error"

OneSender ==
  \A t, u \in tasks : Sending(t) /\ Sending(u) /\ t.click = u.click => t = u

ReportsInv == OneSender /\ (\A t \in tasks : Informed(t)) /\ ReportedIsReal

\* The status line speaks of a submitted transaction only when it is done.
LEMMA StatusKept ==
  ASSUME TypedInv, ReportedIsReal, UNCHANGED ui,
         \A c \in Click : \/ txs'[c] = txs[c]
                          \/ /\ txs[c].state \notin {"ok", "failed"}
                             /\ txs'[c].op = txs[c].op
  PROVE  ReportedIsReal'
<1> SUFFICES ASSUME ui.status.text \in {"OK", "FAILED"}
             PROVE  LET x == txs'[ui.status.click]
                    IN  x.op \in {"mint", "burn"} =>
                          x.state = IF ui.status.text = "OK" THEN "ok" ELSE "failed"
  BY DEF ReportedIsReal
<1>1. ui.status.click \in Click
  BY DEF TypedInv, UIOK
<1> QED BY <1>1 DEF ReportedIsReal

\* A step of a handler keeps ReportsInv when what it leaves is informed and
\* does not speak for a click it did not speak for.
LEMMA HandlerReports ==
  ASSUME TypedInv, ReportsInv, NEW t \in tasks, NEW S, Replace(t, S),
         UNCHANGED txs, ReportedIsReal',
         \A v \in S : Informed(v) /\ (Sending(v) => Sending(t) /\ v.click = t.click),
         \A v, w \in S : Sending(v) /\ Sending(w) => v = w
  PROVE  ReportsInv'
<1>1. tasks' = (tasks \ {t}) \cup S
  BY DEF Replace
<1>2. OneSender'
  <2> SUFFICES ASSUME NEW v \in tasks', NEW w \in tasks', Sending(v), Sending(w),
                      v.click = w.click
               PROVE  v = w
    BY DEF OneSender, Sending
  <2>1. CASE v \in S /\ w \in S
    BY <2>1
  <2>2. CASE v \in S /\ w \notin S
    BY <1>1, <2>2 DEF ReportsInv, OneSender
  <2>3. CASE v \notin S /\ w \in S
    BY <1>1, <2>3 DEF ReportsInv, OneSender
  <2>4. CASE v \notin S /\ w \notin S
    BY <1>1, <2>4 DEF ReportsInv, OneSender
  <2> QED BY <2>1, <2>2, <2>3, <2>4
<1>3. ASSUME NEW v \in tasks' PROVE Informed(v)'
  BY <1>1 DEF Informed, Sending, ReportsInv
<1> QED BY <1>2, <1>3 DEF ReportsInv

\* A step that does not touch the tasks.
LEMMA OutsideReports ==
  ASSUME TypedInv, ReportsInv, UNCHANGED tasks, ReportedIsReal',
         \A c \in Click : \/ txs'[c] = txs[c]
                          \/ /\ txs[c].state = "pending"
                             /\ txs'[c].op = txs[c].op
  PROVE  ReportsInv'
<1>1. ReportedIsReal'
  OBVIOUS
<1>2. OneSender'
  BY DEF ReportsInv, OneSender, Sending
<1>3. ASSUME NEW t \in tasks PROVE Informed(t)'
  <2>1. t.click \in Click
    BY TaskLemma DEF TypedInv, TasksOK
  <2>2. Informed(t)
    BY DEF ReportsInv
  <2>3. CASE txs'[t.click] = txs[t.click]
    BY <2>2, <2>3 DEF Informed, Sending
  <2>4. CASE /\ txs[t.click].state = "pending"
             /\ txs'[t.click].op = txs[t.click].op
    <3>1. Head(t.todo) # "connect"
      BY <2>2, <2>4 DEF Informed, NoTx
    <3>2. t.stage \notin {"waiting", "signing"} \/ ~Sending(t)
      BY <2>2, <2>4 DEF Informed
    <3>3. Sending(t) /\ t.stage = "answered" => t.ans.res = "error"
      BY <2>2, <2>4 DEF Informed, Verdict
    <3> QED BY <2>2, <2>4, <3>1, <3>2, <3>3 DEF Informed, Sending, Verdict
  <2> QED BY <2>1, <2>3, <2>4
<1> QED BY <1>1, <1>2, <1>3 DEF ReportsInv

\* A click starts a handler that speaks for it alone.
LEMMA BeginReports ==
  ASSUME WalletAssumption, TypedInv, ReportsInv, NEW op \in Ops, NEW u \in UIType,
         op # "connect" => ui.address \in Acct,
         Begin(op, u), ReportedIsReal',
         \A c \in Click : c # clicks + 1 => txs'[c] = txs[c],
         op \in TxOps => /\ txs'[clicks + 1].op = op
                         /\ txs'[clicks + 1].state = "none",
         op = "connect" => txs'[clicks + 1] = NoTx
  PROVE  ReportsInv'
<1>0. PICK n : n = Task(op, clicks + 1, ui.address)
  OBVIOUS
<1>1. /\ clicks \in Nat /\ clicks + 1 \in Click /\ tasks' = tasks \cup {n}
  BY <1>0 DEF Begin, Clicked, TypedInv, CountOK, WalletAssumption, Click
<1>2. ui.address \in Acct \cup {NoAcct}
  BY DEF TypedInv, UIOK, UIType
<1>3. /\ n.click = clicks + 1 /\ n.op = op /\ n.stage = "waiting"
      /\ n.todo = Awaits(op)
  BY <1>0, <1>1, <1>2, NewTaskLemma
<1>4. ASSUME NEW t \in tasks PROVE t.click # clicks + 1 /\ t.click \in Click
  <2>1. t.click \in Click /\ t.click <= clicks
    BY TaskLemma DEF TypedInv, TasksOK, WellFormed
  <2> QED BY <1>1, <2>1 DEF Click
<1>5. OneSender'
  BY <1>1, <1>3, <1>4 DEF ReportsInv, OneSender, Sending
<1>6. Informed(n)'
  <2>1. /\ Head(n.todo) = "broadcast" => op \in TxOps
        /\ Head(n.todo) = "connect" => op = "connect"
    BY <1>3, AwaitsLemma, TodosLemma DEF Follows
  <2> QED BY <1>3, <2>1 DEF Informed, Sending
<1>7. ASSUME NEW t \in tasks PROVE Informed(t)'
  <2>1. Informed(t) /\ txs'[t.click] = txs[t.click]
    BY <1>4 DEF ReportsInv
  <2> QED BY <2>1 DEF Informed, Sending
<1> QED BY <1>1, <1>5, <1>6, <1>7 DEF ReportsInv

\* The status line speaks of no verdict.
LEMMA StatusSilent ==
  ASSUME ~(ui'.status.text \in {"OK", "FAILED"})
  PROVE  ReportedIsReal'
BY DEF ReportedIsReal

\* The status line and the transactions are left alone.
LEMMA StatusSame ==
  ASSUME ReportedIsReal, ui'.status = ui.status, UNCHANGED txs
  PROVE  ReportedIsReal'
BY DEF ReportedIsReal

\* A connection speaks for no transaction,
LEMMA ConnectReports ==
  ASSUME WalletAssumption, TypedInv, ReportsInv, OnConnect PROVE ReportsInv'
<1> DEFINE u == Status(ui, "Connecting...", clicks + 1)
<1>1. Begin("connect", u) /\ UNCHANGED txs
  BY DEF OnConnect
<1>2. clicks + 1 \in 0 .. MaxClicks /\ clicks + 1 \in Click /\ clicks + 1 > clicks
  BY <1>1 DEF Begin, Clicked, TypedInv, CountOK, WalletAssumption, Click
<1>3. u \in UIType /\ u.status = [text |-> "Connecting...", click |-> clicks + 1]
  BY <1>2, StatusLemma DEF TypedInv, UIOK
<1> HIDE DEF u
<1>4. ui' = Announce(u, Awaits("connect"))
  BY <1>1 DEF Begin, Clicked
<1>5. ui'.status = u.status
  BY <1>3, <1>4, AnnounceLemma
<1>6. ReportedIsReal'
  <2>1. ui'.status.text = "Connecting..."
    BY <1>3, <1>5
  <2> QED BY <2>1, StatusSilent
<1>7. txs'[clicks + 1] = NoTx
  BY <1>1, <1>2 DEF TypedInv, TxsOK
<1>8. "connect" \in Ops /\ "connect" \notin TxOps
  BY DEF Ops, TxOps
<1> QED BY <1>1, <1>3, <1>6, <1>7, <1>8, BeginReports

\* nor does a refresh button,
LEMMA RefreshReports ==
  ASSUME WalletAssumption, TypedInv, ReportsInv, NEW op \in Figures, Refresh(op)
  PROVE  ReportsInv'
<1>1. Begin(op, ui) /\ UNCHANGED txs /\ ui.address # NoAcct
  BY DEF Refresh
<1>2. /\ ui \in UIType /\ ui.address \in Acct /\ op \in Ops
      /\ op \notin TxOps /\ op # "connect"
  BY <1>1 DEF TypedInv, UIOK, UIType, Figures, Ops, TxOps
<1>3. ui' = Announce(ui, Awaits(op))
  BY <1>1 DEF Begin, Clicked
<1>4. ReportedIsReal'
  BY <1>1, <1>2, <1>3, AnnounceLemma, StatusSame DEF ReportsInv
<1> QED BY <1>1, <1>2, <1>4, BeginReports

\* nor a form that is refused.
LEMMA RefuseReports ==
  ASSUME WalletAssumption, TypedInv, ReportsInv, RefuseForm PROVE ReportsInv'
<1>1. /\ clicks + 1 \in 0 .. MaxClicks /\ UNCHANGED <<txs, tasks>>
      /\ ui' = Status(ui, "refused", clicks + 1)
  BY DEF RefuseForm, Clicked, TypedInv, CountOK, WalletAssumption
<1>2. ui'.status = [text |-> "refused", click |-> clicks + 1]
  BY <1>1, StatusLemma DEF TypedInv, UIOK
<1>3. ReportedIsReal'
  <2>1. ui'.status.text = "refused"
    BY <1>2
  <2> QED BY <2>1, StatusSilent
<1> QED BY <1>1, <1>3, OutsideReports

\* A form that is sent speaks for its click, still unborn.
LEMMA SubmitReports ==
  ASSUME WalletAssumption, TypedInv, ReportsInv, NEW op \in TxOps,
         NEW peer \in Acct \cup {NoAcct}, NEW n \in FormAmounts,
         ui.address # NoAcct, Submit(op, peer, n)
  PROVE  ReportsInv'
<1> DEFINE u == Status(ui, "confirm", clicks + 1)
           x == [NoTx EXCEPT !.op = op, !.from = ui.address,
                             !.peer = peer, !.n = n]
<1>1. Begin(op, u) /\ txs' = [txs EXCEPT ![clicks + 1] = x]
  BY DEF Submit
<1>2. clicks + 1 \in 0 .. MaxClicks /\ clicks + 1 \in Click
  BY <1>1 DEF Begin, Clicked, TypedInv, CountOK, WalletAssumption, Click
<1>3. u \in UIType /\ u.status = [text |-> "confirm", click |-> clicks + 1]
  BY <1>2, StatusLemma DEF TypedInv, UIOK
<1>4. x.op = op /\ x.state = "none"
  BY DEF NoTx
<1>5. op \in Ops /\ op # "connect" /\ ui.address \in Acct
  BY DEF TypedInv, UIOK, UIType, Ops, TxOps
<1> HIDE DEF u, x
<1>6. txs'[clicks + 1] = x /\ \A c \in Click : c # clicks + 1 => txs'[c] = txs[c]
  BY <1>1, <1>2 DEF TypedInv, TxsOK
<1>7. ui' = Announce(u, Awaits(op))
  BY <1>1 DEF Begin, Clicked
<1>8. ReportedIsReal'
  <2>1. ui'.status = u.status
    BY <1>3, <1>7, AnnounceLemma
  <2>2. ui'.status.text = "confirm"
    BY <1>3, <2>1
  <2> QED BY <2>2, StatusSilent
<1> QED BY <1>1, <1>3, <1>4, <1>5, <1>6, <1>8, BeginReports

\* A form, sent or refused.
LEMMA FormReports ==
  ASSUME WalletAssumption, TypedInv, ReportsInv, NEW op \in TxOps,
         NEW peer \in Acct \cup {NoAcct}, NEW n \in FormAmounts,
         ui.address # NoAcct, IF n = 0 THEN RefuseForm ELSE Submit(op, peer, n)
  PROVE  ReportsInv'
BY RefuseReports, SubmitReports

-----------------------------------------------------------------------------
\* The page once the wallet is connected.
LEMMA ConnectedLemma ==
  ASSUME WalletAssumption, TypedInv, NEW t \in tasks, NEW a \in WalletAccts,
         Connected(t, a)
  PROVE  /\ ui'.status = [text |-> "Connected", click |-> t.click]
         /\ ui'.address = a /\ ui'.test = ui.test
         /\ ui'.balance = Figure("Loading...", 0)
         /\ ui'.historyStatus = "Loading..."
<1>1. /\ WellFormed(t) /\ t.click \in Click /\ t.click \in 0 .. MaxClicks
      /\ clicks \in Nat /\ a \in Acct
  BY TaskLemma DEF TypedInv, TasksOK, Click, CountOK, WalletAssumption
<1> DEFINE u == [ui EXCEPT !.address = a]
           v == Status(u, "Connected", t.click)
           w == Announce(v, Awaits("history"))
<1>2. u \in UIType /\ u.address = a /\ u.test = ui.test
  BY <1>1 DEF TypedInv, UIOK, UIType
<1>3. /\ v \in UIType /\ v.status = [text |-> "Connected", click |-> t.click]
      /\ v.address = u.address /\ v.test = u.test
  <2> HIDE DEF u
  <2> QED BY <1>1, <1>2, StatusLemma
<1>4. /\ Awaits("history") # <<>> /\ Head(Awaits("history")) = "history"
      /\ Awaits("background") # <<>> /\ Head(Awaits("background")) = "balance"
  BY StepsLemma DEF Awaits, Splits
<1>5. /\ w \in UIType /\ w.status = v.status /\ w.address = v.address
      /\ w.test = v.test /\ w.historyStatus = "Loading..."
  <2> HIDE DEF v
  <2> QED BY <1>3, <1>4, AnnounceLemma
<1>6. ui' = Announce(w, Awaits("background"))
  BY DEF Connected
<1>7. /\ ui'.status = w.status /\ ui'.address = w.address
      /\ ui'.test = w.test /\ ui'.historyStatus = w.historyStatus
      /\ ui'.balance = Figure("Loading...", 0)
  <2> HIDE DEF w
  <2> QED BY <1>4, <1>5, <1>6, AnnounceLemma
<1> QED BY <1>2, <1>3, <1>5, <1>7

\* The two handlers a connection starts.
LEMMA ConnectedTasks ==
  ASSUME WalletAssumption, TypedInv, NEW t \in tasks, NEW a \in WalletAccts,
         NEW v \in {Task("history", t.click, a), Task("background", t.click, a)}
  PROVE  /\ v.click = t.click /\ v.addr = a /\ v.stage = "waiting"
         /\ v.op \in {"history", "background"} /\ Head(v.todo) \in Figures
<1>1. /\ WellFormed(t) /\ t.click \in Click /\ clicks \in Nat /\ a \in Acct
  BY TaskLemma DEF TypedInv, TasksOK, Click, CountOK, WalletAssumption
<1>2. PICK op \in {"history", "background"} : v = Task(op, t.click, a)
  OBVIOUS
<1>3. op \in Ops
  BY DEF Ops, Figures
<1>4. Head(Awaits(op)) \in Figures
  BY StepsLemma DEF Awaits, Splits, Figures
<1> QED BY <1>1, <1>2, <1>3, <1>4, NewTaskLemma

\* The handlers of a connection speak for no transaction.
LEMMA ConnectedReports ==
  ASSUME WalletAssumption, TypedInv, ReportsInv, NEW t \in tasks,
         NEW a \in WalletAccts, Connected(t, a)
  PROVE  ReportsInv'
<1> DEFINE S == {Task("history", t.click, a), Task("background", t.click, a)}
<1>1. Replace(t, S) /\ UNCHANGED txs
  BY DEF Connected, Loads
<1>2. \A v \in S : ~Sending(v) /\ Head(v.todo) # "connect"
  <2> HIDE DEF S
  <2>1. ASSUME NEW v \in S PROVE Head(v.todo) \in Figures
    <3>1. v \in {Task("history", t.click, a), Task("background", t.click, a)}
      BY DEF S
    <3> QED BY <3>1, ConnectedTasks
  <2> QED BY <2>1 DEF Sending, Figures
<1>3. ReportedIsReal'
  <2>1. ui'.status = [text |-> "Connected", click |-> t.click]
    BY ConnectedLemma
  <2>2. ui'.status.text = "Connected"
    BY <2>1
  <2> QED BY <2>2, StatusSilent
<1> HIDE DEF S
<1>4. \A v \in S : Informed(v)
  BY <1>2 DEF Informed
<1> QED BY <1>1, <1>2, <1>3, <1>4, HandlerReports

\* A settled promise that says nothing false.
LEMMA AnsweredReports ==
  ASSUME TypedInv, ReportsInv, NEW t \in tasks,
         NEW ans \in [res : {"none", "ok", "code", "error"}, n : Nat,
                      items : SUBSET Click],
         Replace(t, {Answered(t, ans)}), UNCHANGED <<ui, txs>>,
         Sending(t) => Verdict(ans.res, txs[t.click].state),
         Head(t.todo) = "connect" => ans.res = "error"
  PROVE  ReportsInv'
<1>0. PICK v : v = Answered(t, ans)
  OBVIOUS
<1>1. /\ v.todo = t.todo /\ v.op = t.op /\ v.click = t.click
      /\ v.stage = "answered" /\ v.ans = ans
  BY <1>0, AnsweredTyped
<1>2. Informed(t)
  BY DEF ReportsInv
<1>3. Informed(v) /\ (Sending(v) => Sending(t))
  BY <1>1, <1>2 DEF Informed, Sending
<1>4. ReportedIsReal'
  BY StatusSame DEF ReportsInv
<1>5. Replace(t, {v})
  BY <1>0
<1> QED BY <1>1, <1>3, <1>4, <1>5, HandlerReports

\* The answer to a query is no verdict,
LEMMA ServeReports ==
  ASSUME WalletAssumption, TypedInv, ReportsInv, NEW t \in tasks, Serve(t)
  PROVE  ReportsInv'
<1>1. /\ Head(t.todo) \in Figures /\ UNCHANGED <<ui, txs>>
      /\ Replace(t, {Answered(t, QueryAnswer(t))})
  BY DEF Serve, Figures
<1>2. ~Sending(t) /\ Head(t.todo) # "connect"
  BY <1>1 DEF Sending, Figures
<1> QED BY <1>1, <1>2, QueryAnswerLemma, AnsweredReports

\* a rejected promise is none either,
LEMMA RejectReports ==
  ASSUME TypedInv, ReportsInv, NEW t \in tasks, Reject(t)
  PROVE  ReportsInv'
BY AnswersTyped, AnsweredReports DEF Reject, Verdict

\* and the one that is found is the chain's.
LEMMA FoundReports ==
  ASSUME TypedInv, ReportsInv, NEW t \in tasks, Found(t)
  PROVE  ReportsInv'
<1> DEFINE ans == [NoAnswer EXCEPT !.res =
                     IF txs[t.click].state = "ok" THEN "ok" ELSE "code"]
<1>1. /\ ans \in [res : {"none", "ok", "code", "error"}, n : Nat,
                  items : SUBSET Click]
      /\ ans.res = IF txs[t.click].state = "ok" THEN "ok" ELSE "code"
  BY DEF NoAnswer
<1>2. /\ Replace(t, {Answered(t, ans)}) /\ UNCHANGED <<ui, txs>>
      /\ t.stage = "polling" /\ txs[t.click].state \in {"ok", "failed"}
  BY DEF Found, Executed
<1> HIDE DEF ans
<1>3. Verdict(ans.res, txs[t.click].state)
  BY <1>1, <1>2 DEF Verdict
<1>4. Head(t.todo) # "connect"
  BY <1>2 DEF TypedInv, TasksOK, WellFormed
<1> QED BY <1>1, <1>2, <1>3, <1>4, AnsweredReports

\* Before the user is asked, the transaction is unborn.
LEMMA FetchReports ==
  ASSUME TypedInv, ReportsInv, NEW t \in tasks, FetchSequence(t)
  PROVE  ReportsInv'
<1>0. PICK v : v = [t EXCEPT !.stage = "signing", !.sq = seq[t.addr]]
  OBVIOUS
<1>1. /\ Replace(t, {v}) /\ UNCHANGED <<ui, txs>> /\ t.stage = "waiting"
      /\ Sending(t)
  BY <1>0 DEF FetchSequence, Sending
<1>2. t \in TaskType /\ Informed(t)
  BY DEF TypedInv, TasksOK, WellFormed, ReportsInv
<1>3. /\ v.todo = t.todo /\ v.op = t.op /\ v.click = t.click
      /\ v.stage = "signing"
  BY <1>0, <1>2 DEF TaskType
<1>4. Informed(v) /\ (Sending(v) => Sending(t))
  BY <1>1, <1>2, <1>3 DEF Informed, Sending
<1>5. ReportedIsReal'
  BY <1>1, StatusSame DEF ReportsInv
<1> QED BY <1>1, <1>3, <1>4, <1>5, HandlerReports

\* The transaction a handler speaks for was submitted.
LEMMA SendingLemma ==
  ASSUME TypedInv, ReportsInv, NEW t \in tasks, Sending(t)
  PROVE  /\ t.op \in TxOps /\ txs[t.click].op = t.op
         /\ Submitted(txs[t.click])
<1>1. Follows(t.op, t.todo) /\ t.click \in Click
  BY TaskLemma DEF TypedInv, TasksOK
<1>2. t.op \in TxOps /\ txs[t.click].op = t.op
  BY <1>1 DEF Follows, Sending, ReportsInv, Informed
<1>3. txs[t.click] # NoTx
  BY <1>2 DEF NoTx, TxOps
<1> QED BY <1>1, <1>2, <1>3 DEF TypedInv, TxsOK

\* The approval is the only birth, and its handler the only one to speak.
LEMMA ApproveReports ==
  ASSUME TypedInv, ReportsInv, NEW t \in tasks, Approve(t)
  PROVE  ReportsInv'
<1>1. /\ t.stage = "signing" /\ UNCHANGED ui /\ Sending(t) /\ Informed(t)
      /\ t \in TaskType /\ t.click \in Click
  BY TaskLemma DEF Approve, TypedInv, TasksOK, WellFormed, Sending, ReportsInv
<1>2. CASE UNCHANGED txs /\ Replace(t, {Answered(t, Error)})
  <2>1. Head(t.todo) # "connect"
    BY <1>1 DEF Sending
  <2> QED BY <1>1, <1>2, <2>1, AnswersTyped, AnsweredReports DEF Verdict
<1>3. CASE /\ txs' = [txs EXCEPT ![t.click].state = "pending",
                                 ![t.click].sq = t.sq]
           /\ Replace(t, {[t EXCEPT !.stage = "polling"]})
  <2>0. PICK v : v = [t EXCEPT !.stage = "polling"]
    OBVIOUS
  <2>1. /\ v.todo = t.todo /\ v.op = t.op /\ v.click = t.click
        /\ v.stage = "polling" /\ tasks' = (tasks \ {t}) \cup {v}
    BY <1>1, <1>3, <2>0 DEF TaskType, Replace
  <2>2. txs \in [Click -> Tx]
    BY DEF TypedInv, TxsOK
  <2>3. /\ txs'[t.click].op = txs[t.click].op
        /\ \A c \in Click : c # t.click => txs'[c] = txs[c]
    BY <1>1, <1>3, <2>2 DEF Tx
  <2>4. txs[t.click].state = "none" /\ txs[t.click].op = t.op /\ t.op \in TxOps
    BY <1>1, SendingLemma DEF Informed
  <2>5. ReportedIsReal'
    BY <1>1, <2>3, <2>4, StatusKept DEF ReportsInv
  <2>6. OneSender'
    BY <2>1 DEF OneSender, Sending, ReportsInv
  <2>7. ASSUME NEW u \in tasks, u # t PROVE Informed(u)'
    <3>1. Informed(u) /\ u.click \in Click
      BY TaskLemma DEF ReportsInv, TypedInv, TasksOK
    <3>2. CASE u.click # t.click
      BY <2>3, <3>1, <3>2 DEF Informed, Sending
    <3>3. CASE u.click = t.click
      <4>1. ~Sending(u)
        BY <1>1, <2>7, <3>3 DEF ReportsInv, OneSender
      <4>2. Head(u.todo) # "connect"
        BY <2>4, <3>1, <3>3 DEF Informed, NoTx, TxOps
      <4> QED BY <4>1, <4>2 DEF Informed, Sending
    <3> QED BY <3>2, <3>3
  <2>8. Informed(v)'
    BY <1>1, <2>1, <2>3, <2>4 DEF Informed, Sending
  <2> QED BY <2>1, <2>5, <2>6, <2>7, <2>8 DEF ReportsInv
<1> QED BY <1>2, <1>3 DEF Approve

\* What the status line says when a handler resumes is a verdict.
LEMMA ResumeReports ==
  ASSUME TypedInv, ReportsInv, NEW t \in tasks, Resume(t)
  PROVE  ReportsInv'
<1>1. /\ t \in TaskType /\ Head(t.todo) \in Kinds /\ ui \in UIType
      /\ t.click \in Click /\ Informed(t)
  BY TaskLemma DEF TypedInv, TasksOK, WellFormed, Follows, UIOK, ReportsInv
<1>2. /\ t.stage = "answered" /\ UNCHANGED txs
      /\ ui'.status = Settled(t).status
  BY ResumeLemma
<1>3. ReportedIsReal'
  <2>1. CASE Head(t.todo) \in Figures
    <3>1. ui'.status = ui.status
      BY <1>1, <1>2, <2>1, SettledLemma
    <3> QED BY <1>2, <3>1, StatusSame DEF ReportsInv
  <2>2. CASE Head(t.todo) = "connect"
    <3>1. t.ans.res = "error" /\ Head(t.todo) \notin Figures
      BY <1>1, <1>2, <2>2 DEF Informed, Figures
    <3>2. PICK c : Settled(t).status = [text |-> "error", click |-> c]
      BY <1>1, <3>1, SettledLemma
    <3>3. ui'.status.text = "error"
      BY <1>2, <3>2
    <3> QED BY <3>3, StatusSilent
  <2>3. CASE Head(t.todo) = "broadcast"
    <3>1. Sending(t) /\ Head(t.todo) \notin Figures
      BY <2>3 DEF Sending, Figures
    <3>2. /\ txs[t.click].op = t.op
          /\ Verdict(t.ans.res, txs[t.click].state)
      BY <1>1, <1>2, <3>1 DEF Informed
    <3>3. PICK text : /\ text = IF t.ans.res = "error" THEN "error"
                                ELSE IF t.ans.res = "code" /\ ChecksCode(t.op)
                                  THEN "FAILED" ELSE "OK"
                      /\ Settled(t).status = [text |-> text, click |-> t.click]
      BY <1>1, <3>1, SettledLemma
    <3>4. ui'.status.text = text /\ ui'.status.click = t.click
      BY <1>2, <3>3
    <3> QED BY <1>2, <3>2, <3>3, <3>4 DEF ReportedIsReal, Verdict, ChecksCode
  <2> QED BY <1>1, <2>1, <2>2, <2>3 DEF Kinds, Figures
<1>4. CASE Replace(t, {})
  BY <1>2, <1>3, <1>4, HandlerReports
<1>5. CASE Tail(t.todo) # <<>> /\ Replace(t, {Going(t)})
  <2>1. Head(Going(t).todo) \in Figures
    BY <1>5, GoingLemma
  <2>2. Informed(Going(t)) /\ ~Sending(Going(t))
    BY <2>1 DEF Informed, Sending, Figures
  <2> QED BY <1>2, <1>3, <1>5, <2>2, HandlerReports
<1> QED BY <1>4, <1>5, ResumeLemma

\* The chain decides on pending transactions only: no verdict changes.
LEMMA ExecuteReports ==
  ASSUME TypedInv, ReportsInv, NEW c \in Click, Execute(c) \/ Drop(c)
  PROVE  ReportsInv'
<1>1. PICK st \in {"none", "pending", "ok", "failed", "dropped"} :
        /\ txs[c].state = "pending" /\ UNCHANGED <<ui, tasks, clicks>>
        /\ txs' = [txs EXCEPT ![c].state = st]
  BY DEF Execute, Drop
<1>2. /\ txs'[c].op = txs[c].op
      /\ \A d \in Click : d # c => txs'[d] = txs[d]
  BY <1>1, TxStateTyped
<1>3. ReportedIsReal'
  BY <1>1, <1>2, StatusKept DEF ReportsInv
<1> QED BY <1>1, <1>2, <1>3, OutsideReports

\* Steps outside of the wallet's transactions.
LEMMA OtherReports ==
  ASSUME TypedInv, ReportsInv, UNCHANGED <<txs, ui, tasks>>
  PROVE  ReportsInv'
<1>1. ReportedIsReal'
  BY StatusSame DEF ReportsInv
<1> QED BY <1>1, OutsideReports

-----------------------------------------------------------------------------
SessionInv == TypedInv /\ ReportsInv

\* Both parts hold when the page is opened,
LEMMA InitSession ==
  ASSUME WalletAssumption, Init PROVE SessionInv
<1>1. TypedInv
  BY InitTyped
<1>2. ~(ui.status.text \in {"OK", "FAILED"})
  <2>1. UI0.status.text # "OK" /\ UI0.status.text # "FAILED"
    BY DEF UI0
  <2>2. ASSUME NEW a \in WalletAccts
        PROVE  AtRest(a).status.text # "OK" /\ AtRest(a).status.text # "FAILED"
    BY DEF AtRest, UI0
  <2> QED BY <2>1, <2>2 DEF Init
<1> QED BY <1>1, <1>2 DEF SessionInv, ReportsInv, OneSender, ReportedIsReal, Init

\* every step keeps them,
LEMMA NextSession ==
  ASSUME WalletAssumption, SessionInv, [Next]_vars PROVE SessionInv'
<1> USE DEF SessionInv
<1>1. CASE OnConnect
  BY <1>1, ConnectTyped, ConnectReports
<1>2. ASSUME NEW op \in Figures, Refresh(op)
      PROVE  SessionInv'
  BY <1>2, RefreshTyped, RefreshReports DEF Figures
<1>3. ASSUME NEW to \in Recipients, NEW n \in FormAmounts, HandleSend(to, n)
      PROVE  SessionInv'
  <2>1. /\ to \in Acct \cup {NoAcct} /\ "send" \in TxOps /\ ui.address # NoAcct
        /\ IF n = 0 THEN RefuseForm ELSE Submit("send", to, n)
    BY <1>3 DEF HandleSend, WalletAssumption, TxOps
  <2> QED BY <2>1, FormTyped, FormReports
<1>4. ASSUME NEW a \in Acct, NEW n \in FormAmounts, HandleMint(a, n)
      PROVE  SessionInv'
  <2>1. /\ "mint" \in TxOps /\ ui.address # NoAcct
        /\ IF n = 0 THEN RefuseForm ELSE Submit("mint", a, n)
    BY <1>4 DEF HandleMint, IsIssuer, TxOps
  <2> QED BY <2>1, FormTyped, FormReports
<1>5. ASSUME NEW a \in Acct, NEW n \in FormAmounts, HandleBurn(a, n)
      PROVE  SessionInv'
  <2>1. /\ "burn" \in TxOps /\ ui.address # NoAcct
        /\ IF n = 0 THEN RefuseForm ELSE Submit("burn", a, n)
    BY <1>5 DEF HandleBurn, IsIssuer, TxOps
  <2> QED BY <2>1, FormTyped, FormReports
<1>6. ASSUME NEW t \in tasks, NEW a \in WalletAccts, Connected(t, a)
      PROVE  SessionInv'
  BY <1>6, ConnectedTyped, ConnectedReports
<1>7. ASSUME NEW t \in tasks, Serve(t) PROVE SessionInv'
  BY <1>7, ServeTyped, ServeReports
<1>8. ASSUME NEW t \in tasks, Reject(t) PROVE SessionInv'
  BY <1>8, RejectTyped, RejectReports
<1>9. ASSUME NEW t \in tasks, FetchSequence(t) PROVE SessionInv'
  BY <1>9, FetchTyped, FetchReports
<1>10. ASSUME NEW t \in tasks, Approve(t) PROVE SessionInv'
  <2>1. Sending(t)
    BY <1>10 DEF Approve, TypedInv, TasksOK, WellFormed, Sending
  <2>2. Submitted(txs[t.click])
    BY <2>1, SendingLemma
  <2> QED BY <1>10, <2>2, ApproveTyped, ApproveReports
<1>11. ASSUME NEW t \in tasks, Found(t) PROVE SessionInv'
  BY <1>11, FoundTyped, FoundReports
<1>12. ASSUME NEW t \in tasks, Resume(t) PROVE SessionInv'
  BY <1>12, ResumeTyped, ResumeReports
<1>13. ASSUME NEW c \in Click, Execute(c) PROVE SessionInv'
  BY <1>13, ExecuteTyped, ExecuteReports
<1>14. ASSUME NEW c \in Click, Drop(c) PROVE SessionInv'
  BY <1>14, DropTyped, ExecuteReports
<1>15. ASSUME NEW x \in Elsewhere, ExecuteOther(x) PROVE SessionInv'
  <2>1. UNCHANGED <<txs, ui, tasks>>
    BY <1>15 DEF ExecuteOther
  <2> QED BY <1>15, <2>1, ExecuteOtherTyped, OtherReports
<1>16. ASSUME NEW p \in ParamChanges, Govern(p) PROVE SessionInv'
  <2>1. UNCHANGED <<txs, ui, tasks>>
    BY <1>16 DEF Govern
  <2> QED BY <1>16, <2>1, GovernLemma, OtherReports
<1>17. CASE UNCHANGED vars
  <2>1. UNCHANGED <<txs, ui, tasks>> /\ UNCHANGED <<store, seq, clicks, hist>>
    BY <1>17 DEF vars
  <2>2. ReportsInv'
    BY <2>1, OtherReports
  <2>3. UIOK' /\ TasksOK' /\ CountOK' /\ TxsOK'
    BY <2>1, PageSame, TxsSame DEF TypedInv, CountOK, hist
  <2>4. ChainOK'
    BY <2>1 DEF TypedInv, ChainOK, GoodStore, GetTotalSupply
  <2> QED BY <2>2, <2>3, <2>4 DEF TypedInv
<1> QED BY <1>1, <1>2, <1>3, <1>4, <1>5, <1>6, <1>7, <1>8, <1>9, <1>10, <1>11,
           <1>12, <1>13, <1>14, <1>15, <1>16, <1>17 DEF Next

\* so that they always hold.
LEMMA SessionAlways == Spec => []SessionInv
<1>1. Init => SessionInv
  BY InitSession, WalletAssumption
<1>2. SessionInv /\ [Next]_vars => SessionInv'
  BY NextSession, WalletAssumption
<1> QED BY <1>1, <1>2, PTL DEF Spec

\* The wallet's state keeps its type: a handler that resumes finds something
\* it awaited, and a chain figure is one.
THEOREM WalletTypeTheorem == Spec => []TypeOK
<1>1. SessionInv => TypeOK
  BY TypedIsTyped DEF SessionInv
<1> QED BY <1>1, SessionAlways, PTL

\* "Mint OK", "Burn OK" and "FAILED" tell what the chain did with the
\* transaction of that click, whatever else was clicked, answered, rejected,
\* executed or dropped in between.
THEOREM ReportedIsRealTheorem == Spec => []ReportedIsReal
<1>1. SessionInv => ReportedIsReal
  BY DEF SessionInv, ReportsInv
<1> QED BY <1>1, SessionAlways, PTL
-----------------------------------------------------------------------------
(***************************************************************************)
(* What is true on the page.  A handler whose click is fresh loads the     *)
(* figures of the address that is shown and holds none but the chain's;    *)
(* the handler of a connection is the only one of its click; what a        *)
(* transaction's handler loads, it loads once the transaction is executed. *)
(***************************************************************************)
ChainFigure(f, a) ==
  CASE f = "balance" -> store.bal[a][Ustb]
    [] f = "test"    -> store.bal[TestRecipient][Ustb]
    [] f = "history" -> {c \in Executed : Touches(txs[c], a)}
PageFigure(f) ==
  CASE f = "balance" -> ui.balance.n
    [] f = "test"    -> ui.test.n
    [] f = "history" -> ui.history
AnswerFigure(t) == IF Head(t.todo) = "history" THEN t.ans.items ELSE t.ans.n

OfItsTx(t) ==
  txs[t.click].op # "none" =>
    t.op = txs[t.click].op /\ t.addr = txs[t.click].from
Addressed(t) == t.click \in fresh /\ t.op # "connect" => t.addr = ui.address
AnswerTrue(t) ==
  /\ t.click \in fresh /\ t.stage = "answered" /\ t.ans.res # "error"
  /\ Head(t.todo) \in Figures
  => AnswerFigure(t) = ChainFigure(Head(t.todo), t.addr)
Lone(t) ==
  Head(t.todo) = "connect" =>
    /\ \A f \in Figures : by[f] # t.click
    /\ \A v \in tasks : v.click = t.click => v = t
Unexecuted(c) ==
  txs[c].op # "none" /\ txs[c].state \notin {"ok", "failed"} =>
    /\ \A f \in Figures : by[f] # c
    /\ \A t \in tasks : t.click = c => Sending(t)

Truthful(t) == OfItsTx(t) /\ Addressed(t) /\ AnswerTrue(t) /\ Lone(t)
TruthInv ==
  /\ \A t \in tasks : Truthful(t)
  /\ \A c \in Click : Unexecuted(c)
  /\ ShownIsTrue

\* No transaction is executed in the step,
NoneExecuted ==
  \A c \in Click : txs'[c] # txs[c] =>
    /\ txs[c].state \notin {"ok", "failed"}
    /\ txs'[c].state \notin {"ok", "failed"}

\* and none changes its sender.
Undecided ==
  /\ NoneExecuted
  /\ \A c \in Click : txs'[c].op = txs[c].op /\ txs'[c].from = txs[c].from

\* A figure is true when it is the chain's for the address that is shown.
LEMMA IsTrueLemma ==
  ASSUME NEW f \in Figures
  PROVE  IsTrue(f) <=> PageFigure(f) = ChainFigure(f, ui.address)
BY DEF Figures, IsTrue, PageFigure, ChainFigure

\* The chain's figures change only with balances and executed transactions.
LEMMA ChainFigureSame ==
  ASSUME NoneExecuted, store'.bal = store.bal, NEW f \in Figures, NEW a
  PROVE  ChainFigure(f, a)' = ChainFigure(f, a)
<1>1. \A c \in Click : (c \in Executed)' <=> c \in Executed
  BY DEF Executed, Undecided, NoneExecuted
<1>2. \A c \in Executed : txs'[c] = txs[c]
  BY DEF Executed, Undecided, NoneExecuted
<1>3. {c \in Executed : Touches(txs[c], a)}'
        = {c \in Executed : Touches(txs[c], a)}
  BY <1>1, <1>2 DEF Executed, Touches
<1> QED BY <1>3 DEF ChainFigure, Figures

\* A figure that was true and is left alone stays true.
LEMMA FigureKept ==
  ASSUME NoneExecuted, store'.bal = store.bal, ui'.address = ui.address,
         NEW f \in Figures, PageFigure(f)' = PageFigure(f), IsTrue(f)
  PROVE  IsTrue(f)'
<1>1. PageFigure(f)' = ChainFigure(f, ui.address)
  BY IsTrueLemma
<1>2. ChainFigure(f, ui.address)' = ChainFigure(f, ui.address)
  BY ChainFigureSame
<1> QED BY <1>1, <1>2 DEF Figures, IsTrue, PageFigure, ChainFigure

\* The page and its history are left alone.
LEMMA ShownSame ==
  ASSUME NoneExecuted, store'.bal = store.bal, UNCHANGED <<ui, by>>,
         fresh' = fresh, ShownIsTrue
  PROVE  ShownIsTrue'
<1> SUFFICES ASSUME NEW f \in Figures, Shown(f)', by'[f] \in fresh'
             PROVE  IsTrue(f)'
  BY DEF ShownIsTrue
<1>1. Shown(f) /\ IsTrue(f)
  BY DEF Shown, Figures, ShownIsTrue
<1>2. PageFigure(f)' = PageFigure(f)
  BY DEF PageFigure, Figures
<1> QED BY <1>1, <1>2, FigureKept

\* So are the tasks of other clicks that a step does not touch.
LEMMA TaskSame ==
  ASSUME TypedInv, TruthInv, Undecided, store'.bal = store.bal,
         fresh' = fresh, ui'.address = ui.address, NEW u \in tasks
  PROVE  OfItsTx(u)' /\ Addressed(u)' /\ AnswerTrue(u)'
<1>1. Truthful(u) /\ u.click \in Click
  BY TaskLemma DEF TruthInv, TypedInv, TasksOK
<1>2. OfItsTx(u)' /\ Addressed(u)'
  BY <1>1 DEF Truthful, OfItsTx, Addressed, Undecided, NoneExecuted
<1>3. AnswerTrue(u)'
  BY <1>1, ChainFigureSame DEF Truthful, AnswerTrue, AnswerFigure, Undecided
<1> QED BY <1>2, <1>3

-----------------------------------------------------------------------------
\* The page is left alone and a handler moves on within one await.
LEMMA WithinTruth ==
  ASSUME TypedInv, TruthInv, NEW t \in tasks, NEW w, Replace(t, {w}),
         Undecided, store'.bal = store.bal, UNCHANGED <<ui, clicks, hist>>,
         w.todo = t.todo, w.op = t.op, w.addr = t.addr, w.click = t.click,
         AnswerTrue(w)
  PROVE  TruthInv'
<1>1. tasks' = (tasks \ {t}) \cup {w}
  BY DEF Replace
<1>2. UNCHANGED <<by, fresh>>
  BY DEF hist
<1>3. ShownIsTrue'
  BY <1>2, ShownSame DEF TruthInv, Undecided
<1>4. Truthful(t) /\ t.click \in Click
  BY TaskLemma DEF TruthInv, TypedInv, TasksOK
<1>5. ASSUME NEW v \in tasks' PROVE Lone(v)'
  <2>1. CASE v = w
    BY <1>1, <1>2, <1>4, <2>1 DEF Lone, Truthful
  <2>2. CASE v # w
    <3>1. v \in tasks /\ Lone(v) /\ v # t
      BY <1>1, <2>2 DEF TruthInv, Truthful
    <3> QED BY <1>1, <1>2, <3>1 DEF Lone
  <2> QED BY <2>1, <2>2
<1>6. ASSUME NEW v \in tasks' PROVE OfItsTx(v)' /\ Addressed(v)' /\ AnswerTrue(v)'
  <2>1. CASE v = w
    <3>1. OfItsTx(w)' /\ Addressed(w)'
      BY <1>2, <1>4 DEF Truthful, OfItsTx, Addressed, Undecided, NoneExecuted
    <3>2. AnswerTrue(w)'
      BY <1>2, ChainFigureSame DEF AnswerTrue, AnswerFigure, Undecided
    <3> QED BY <2>1, <3>1, <3>2
  <2>2. CASE v # w
    BY <1>1, <1>2, <2>2, TaskSame
  <2> QED BY <2>1, <2>2
<1>7. ASSUME NEW c \in Click PROVE Unexecuted(c)'
  BY <1>1, <1>2 DEF Unexecuted, TruthInv, Undecided, NoneExecuted, Sending
<1> QED BY <1>3, <1>5, <1>6, <1>7 DEF TruthInv, Truthful

\* The page and the handlers are left alone.
LEMMA OutsideTruth ==
  ASSUME TypedInv, TruthInv, Undecided, store'.bal = store.bal,
         UNCHANGED <<ui, tasks, clicks, hist>>
  PROVE  TruthInv'
<1>1. UNCHANGED <<by, fresh>>
  BY DEF hist
<1>2. ShownIsTrue'
  BY <1>1, ShownSame DEF TruthInv, Undecided
<1>3. ASSUME NEW v \in tasks' PROVE Truthful(v)'
  <2>1. Lone(v)'
    BY <1>1 DEF TruthInv, Truthful, Lone
  <2> QED BY <1>1, <2>1, TaskSame DEF Truthful
<1>4. ASSUME NEW c \in Click PROVE Unexecuted(c)'
  BY <1>1 DEF Unexecuted, TruthInv, Undecided, NoneExecuted, Sending
<1> QED BY <1>2, <1>3, <1>4 DEF TruthInv

\* The node answers with the figures of its state,
LEMMA ServeTruth ==
  ASSUME WalletAssumption, TypedInv, TruthInv, NEW t \in tasks, Serve(t)
  PROVE  TruthInv'
<1>0. PICK v : v = Answered(t, QueryAnswer(t))
  OBVIOUS
<1>1. /\ Head(t.todo) \in Figures /\ Replace(t, {v})
      /\ UNCHANGED <<store, txs, ui, clicks, hist>>
  BY <1>0 DEF Serve, Figures
<1>2. /\ v.todo = t.todo /\ v.op = t.op /\ v.addr = t.addr
      /\ v.click = t.click /\ v.ans = QueryAnswer(t)
  BY <1>0, <1>1, QueryAnswerLemma, AnsweredTyped
<1>3. AnswerTrue(v)
  BY <1>1, <1>2, QueryAnswerLemma
     DEF AnswerTrue, AnswerFigure, ChainFigure, Figures
<1> QED BY <1>1, <1>2, <1>3, WithinTruth DEF Undecided, NoneExecuted

\* a rejected promise holds none,
LEMMA RejectTruth ==
  ASSUME TypedInv, TruthInv, NEW t \in tasks, Reject(t)
  PROVE  TruthInv'
<1>0. PICK v : v = Answered(t, Error)
  OBVIOUS
<1>1. Replace(t, {v}) /\ UNCHANGED <<store, txs, ui, clicks, hist>>
  BY <1>0 DEF Reject
<1>2. /\ v.todo = t.todo /\ v.op = t.op /\ v.addr = t.addr
      /\ v.click = t.click /\ v.ans = Error
  BY <1>0, AnswersTyped, AnsweredTyped
<1>3. AnswerTrue(v)
  BY <1>2, AnswersTyped DEF AnswerTrue
<1> QED BY <1>1, <1>2, <1>3, WithinTruth DEF Undecided, NoneExecuted

\* nor does the result of a transaction,
LEMMA FoundTruth ==
  ASSUME TypedInv, TruthInv, NEW t \in tasks, Found(t)
  PROVE  TruthInv'
<1> DEFINE ans == [NoAnswer EXCEPT !.res =
                     IF txs[t.click].state = "ok" THEN "ok" ELSE "code"]
<1>0. PICK v : v = Answered(t, ans)
  OBVIOUS
<1>1. ans \in [res : {"none", "ok", "code", "error"}, n : Nat,
               items : SUBSET Click]
  BY DEF NoAnswer
<1>2. /\ Replace(t, {v}) /\ UNCHANGED <<store, txs, ui, clicks, hist>>
      /\ t.stage = "polling"
  BY <1>0 DEF Found
<1> HIDE DEF ans
<1>3. /\ v.todo = t.todo /\ v.op = t.op /\ v.addr = t.addr
      /\ v.click = t.click
  BY <1>0, <1>1, AnsweredTyped
<1>4. Head(t.todo) \notin Figures
  BY <1>2 DEF TypedInv, TasksOK, WellFormed, Figures
<1>5. AnswerTrue(v)
  BY <1>3, <1>4 DEF AnswerTrue
<1> QED BY <1>2, <1>3, <1>5, WithinTruth DEF Undecided, NoneExecuted

\* nor the sequence of an account.
LEMMA FetchTruth ==
  ASSUME TypedInv, TruthInv, NEW t \in tasks, FetchSequence(t)
  PROVE  TruthInv'
<1>0. PICK v : v = [t EXCEPT !.stage = "signing", !.sq = seq[t.addr]]
  OBVIOUS
<1>1. /\ Replace(t, {v}) /\ UNCHANGED <<store, txs, ui, clicks, hist>>
      /\ Head(t.todo) \notin Figures
  BY <1>0 DEF FetchSequence, Figures
<1>2. t \in TaskType
  BY DEF TypedInv, TasksOK, WellFormed
<1>3. v.todo = t.todo /\ v.op = t.op /\ v.addr = t.addr /\ v.click = t.click
  BY <1>0, <1>2 DEF TaskType
<1>4. AnswerTrue(v)
  BY <1>1, <1>3 DEF AnswerTrue
<1> QED BY <1>1, <1>3, <1>4, WithinTruth DEF Undecided, NoneExecuted

\* A transaction that is approved is not executed yet.
LEMMA ApproveTruth ==
  ASSUME TypedInv, ReportsInv, TruthInv, NEW t \in tasks, Approve(t)
  PROVE  TruthInv'
<1>1. /\ t.stage = "signing" /\ UNCHANGED <<store, ui, clicks, hist>>
      /\ t \in TaskType /\ Head(t.todo) = "broadcast" /\ t.click \in Click
      /\ txs[t.click].state = "none"
  BY TaskLemma DEF Approve, TypedInv, TasksOK, WellFormed, ReportsInv,
                   Informed, Sending
<1>2. PICK w : /\ Replace(t, {w}) /\ w.todo = t.todo /\ w.addr = t.addr
               /\ w.op = t.op /\ w.click = t.click
  <2> DEFINE e == Answered(t, Error)
             p == [t EXCEPT !.stage = "polling"]
  <2>1. Replace(t, {e}) \/ Replace(t, {p})
    BY DEF Approve
  <2>2. e.todo = t.todo /\ e.addr = t.addr /\ e.op = t.op /\ e.click = t.click
    BY AnswersTyped, AnsweredTyped
  <2>3. p.todo = t.todo /\ p.addr = t.addr /\ p.op = t.op /\ p.click = t.click
    BY <1>1 DEF TaskType
  <2> HIDE DEF e, p
  <2> QED BY <2>1, <2>2, <2>3
<1>3. Undecided
  <2>1. txs \in [Click -> Tx]
    BY DEF TypedInv, TxsOK
  <2>2. CASE UNCHANGED txs
    BY <2>2 DEF Undecided, NoneExecuted
  <2>3. CASE txs' = [txs EXCEPT ![t.click].state = "pending",
                                ![t.click].sq = t.sq]
    BY <1>1, <2>1, <2>3 DEF Undecided, NoneExecuted, Tx
  <2> QED BY <2>2, <2>3 DEF Approve
<1>4. AnswerTrue(w)
  BY <1>1, <1>2 DEF AnswerTrue, Figures
<1> QED BY <1>1, <1>2, <1>3, <1>4, WithinTruth

\* A transaction that is dropped is not executed,
LEMMA DropTruth ==
  ASSUME TypedInv, TruthInv, NEW c \in Click, Drop(c)
  PROVE  TruthInv'
<1>1. /\ txs[c].state = "pending"
      /\ txs' = [txs EXCEPT ![c].state = "dropped"]
      /\ UNCHANGED <<store, ui, tasks, clicks, hist>>
  BY DEF Drop
<1>2. /\ txs'[c].op = txs[c].op /\ txs'[c].state = "dropped"
      /\ txs'[c].from = txs[c].from
      /\ \A d \in Click : d # c => txs'[d] = txs[d]
  BY <1>1, TxStateTyped
<1>3. Undecided
  BY <1>1, <1>2 DEF Undecided, NoneExecuted
<1> QED BY <1>1, <1>3, OutsideTruth
\* A block with a transaction of the wallet: nothing is fresh but what its own
\* click will load.
LEMMA ExecuteTruth ==
  ASSUME TypedInv, TruthInv, NEW c \in Click, Execute(c)
  PROVE  TruthInv'
<1> DEFINE st == IF RunMsg(Paid(txs[c]), txs[c]).err = "nil" THEN "ok"
                 ELSE "failed"
<1>1. /\ txs[c].state = "pending" /\ txs' = [txs EXCEPT ![c].state = st]
      /\ fresh' = (IF txs[c].from = ui.address THEN {c} ELSE {})
      /\ UNCHANGED <<ui, tasks, clicks, by>>
  BY DEF Execute
<1>2. st \in {"ok", "failed"}
  OBVIOUS
<1> HIDE DEF st
<1>3. /\ txs'[c].op = txs[c].op /\ txs'[c].from = txs[c].from
      /\ txs'[c].state = st /\ Submitted(txs[c])
      /\ \A d \in Click : d # c => txs'[d] = txs[d]
  BY <1>1, <1>2, TxStateTyped
<1>4. /\ txs[c].op # "none"
      /\ \A f \in Figures : by[f] # c
      /\ \A t \in tasks : t.click = c => Sending(t)
  BY <1>1, <1>3 DEF TruthInv, Unexecuted, Submitted, TxOps
<1>5. ASSUME NEW t \in tasks PROVE Truthful(t)'
  <2>1. Truthful(t) /\ t.click \in Click
    BY TaskLemma DEF TruthInv, TypedInv, TasksOK
  <2>2. OfItsTx(t)' /\ Lone(t)'
    BY <1>1, <1>3, <2>1 DEF Truthful, OfItsTx, Lone
  <2>3. Addressed(t)'
    BY <1>1, <1>4, <2>1 DEF Truthful, OfItsTx, Addressed
  <2>4. AnswerTrue(t)'
    BY <1>1, <1>4 DEF AnswerTrue, Sending, Figures
  <2> QED BY <2>2, <2>3, <2>4 DEF Truthful
<1>6. ASSUME NEW d \in Click PROVE Unexecuted(d)'
  <2>1. CASE d = c
    BY <1>2, <1>3, <2>1 DEF Unexecuted
  <2>2. CASE d # c
    BY <1>1, <1>3, <2>2 DEF Unexecuted, TruthInv, Sending
  <2> QED BY <2>1, <2>2
<1>7. ShownIsTrue'
  BY <1>1, <1>4 DEF ShownIsTrue
<1> QED BY <1>1, <1>5, <1>6, <1>7 DEF TruthInv

\* A transaction made elsewhere: nothing is fresh.
LEMMA ExecuteOtherTruth ==
  ASSUME TypedInv, TruthInv, NEW x \in Elsewhere, ExecuteOther(x)
  PROVE  TruthInv'
<1>1. fresh' = {} /\ UNCHANGED <<txs, ui, tasks, clicks, by>>
  BY DEF ExecuteOther
<1>2. ASSUME NEW t \in tasks PROVE Truthful(t)'
  BY <1>1 DEF TruthInv, Truthful, OfItsTx, Lone, Addressed, AnswerTrue
<1>3. ASSUME NEW c \in Click PROVE Unexecuted(c)'
  BY <1>1 DEF TruthInv, Unexecuted, Sending
<1>4. ShownIsTrue'
  BY <1>1 DEF ShownIsTrue
<1> QED BY <1>1, <1>2, <1>3, <1>4 DEF TruthInv

-----------------------------------------------------------------------------
\* Nothing of a click precedes it.
LEMMA NewClick ==
  ASSUME WalletAssumption, TypedInv, clicks < MaxClicks
  PROVE  /\ clicks + 1 \in Click /\ clicks + 1 \notin fresh
         /\ \A f \in Figures : by[f] \in Int /\ by[f] # clicks + 1
         /\ \A t \in tasks : t.click \in Click /\ t.click # clicks + 1
<1>1. clicks \in Nat /\ MaxClicks \in Nat /\ clicks + 1 \in Click
  BY DEF TypedInv, CountOK, WalletAssumption, Click
<1>2. clicks + 1 \notin fresh
  BY <1>1 DEF TypedInv, CountOK
<1>3. \A f \in Figures : by[f] \in Int /\ by[f] # clicks + 1
  BY <1>1 DEF TypedInv, CountOK
<1>4. ASSUME NEW t \in tasks PROVE t.click \in Click /\ t.click # clicks + 1
  <2>1. t.click \in Click /\ t.click <= clicks
    BY TaskLemma DEF TypedInv, TasksOK, WellFormed
  <2> QED BY <1>1, <2>1 DEF Click
<1> QED BY <1>1, <1>2, <1>3, <1>4

\* Announcing hides figures and changes none.
LEMMA AnnounceShows ==
  ASSUME NEW u \in UIType, NEW s, ui' = Announce(u, s),
         u.balance = ui.balance, u.test = ui.test, u.history = ui.history,
         u.historyStatus = ui.historyStatus, NEW f \in Figures, Shown(f)'
  PROVE  Shown(f) /\ PageFigure(f)' = PageFigure(f)
<1>1. /\ ui'.balance = Figure("Loading...", 0) \/ ui'.balance = ui.balance
      /\ ui'.test = ui.test /\ ui'.history = ui.history
      /\ ui'.historyStatus \in {"Loading...", ui.historyStatus}
  BY AnnounceLemma
<1>2. Figure("Loading...", 0).kind = "Loading..."
  BY DEF Figure
<1> QED BY <1>1, <1>2 DEF Shown, PageFigure, Figures

\* A click changes no transaction but its own and no figure.
LEMMA BeginTruth ==
  ASSUME WalletAssumption, TypedInv, TruthInv, NEW op \in Ops, NEW u \in UIType,
         op # "connect" => ui.address \in Acct, Begin(op, u),
         u.address = ui.address, u.balance = ui.balance, u.test = ui.test,
         u.history = ui.history, u.historyStatus = ui.historyStatus,
         txs[clicks + 1].state \notin {"ok", "failed"},
         txs'[clicks + 1].state \notin {"ok", "failed"},
         \A c \in Click : c # clicks + 1 => txs'[c] = txs[c],
         txs'[clicks + 1].op # "none" =>
           /\ op = txs'[clicks + 1].op /\ op \in TxOps
           /\ txs'[clicks + 1].from = ui.address
  PROVE  TruthInv'
<1> DEFINE k == clicks + 1
<1>0. PICK n : n = Task(op, k, ui.address)
  OBVIOUS
<1>1. /\ clicks < MaxClicks /\ clicks' = k /\ tasks' = tasks \cup {n}
      /\ fresh' = fresh \cup {k} /\ by' = by /\ store' = store
      /\ ui' = Announce(u, Awaits(op))
  BY <1>0 DEF Begin, Clicked
<1>2. /\ k \in Click /\ k \notin fresh
      /\ \A f \in Figures : by[f] # k
      /\ \A t \in tasks : t.click \in Click /\ t.click # k
  BY <1>1, NewClick
<1>3. ui.address \in Acct \cup {NoAcct} /\ clicks \in Nat
  <2>1. ui.address \in Acct \cup {NoAcct}
    BY DEF TypedInv, UIOK, UIType
  <2>2. clicks \in Nat
    BY DEF TypedInv, CountOK
  <2> QED BY <2>1, <2>2
<1>4. /\ n.click = k /\ n.op = op /\ n.addr = ui.address /\ n.stage = "waiting"
      /\ n.todo = Awaits(op)
  BY <1>0, <1>2, <1>3, NewTaskLemma
<1>5. ui'.address = ui.address
  BY <1>1, AnnounceLemma
<1>6. /\ op \in TxOps => Head(Awaits(op)) = "broadcast"
      /\ Head(Awaits(op)) = "connect" => op = "connect"
  <2>1. op \in TxOps => Head(Awaits(op)) = "broadcast"
    BY StepsLemma DEF Awaits, Splits, TxOps
  <2>2. Head(Awaits(op)) = "connect" => op = "connect"
    BY AwaitsLemma, TodosLemma DEF Follows
  <2> QED BY <2>1, <2>2
<1> HIDE DEF k
<1>7. NoneExecuted /\ store'.bal = store.bal
  BY <1>1 DEF NoneExecuted, k
<1>8. ASSUME NEW t \in tasks PROVE Truthful(t)'
  <2>1. Truthful(t) /\ txs'[t.click] = txs[t.click]
    BY <1>2 DEF TruthInv, k
  <2>2. OfItsTx(t)' /\ Addressed(t)'
    BY <1>1, <1>2, <1>5, <2>1 DEF Truthful, OfItsTx, Addressed
  <2>3. AnswerTrue(t)'
    BY <1>1, <1>2, <1>7, <2>1, ChainFigureSame
       DEF Truthful, AnswerTrue, AnswerFigure
  <2>4. Lone(t)'
    BY <1>1, <1>2, <1>4, <2>1 DEF Truthful, Lone
  <2> QED BY <2>2, <2>3, <2>4 DEF Truthful
<1>9. Truthful(n)'
  <2>1. OfItsTx(n)' /\ Addressed(n)' /\ AnswerTrue(n)'
    BY <1>4, <1>5 DEF OfItsTx, Addressed, AnswerTrue, k
  <2>2. Lone(n)'
    BY <1>1, <1>2, <1>4 DEF Lone
  <2> QED BY <2>1, <2>2 DEF Truthful
<1>10. ASSUME NEW c \in Click PROVE Unexecuted(c)'
  <2>1. CASE c = k
    <3>1. \A t \in tasks' : t.click = c => t = n
      BY <1>1, <1>2, <2>1
    <3>2. txs'[c].op # "none" => Sending(n)
      BY <1>4, <1>6, <2>1 DEF Sending, k
    <3> QED BY <1>1, <1>2, <2>1, <3>1, <3>2 DEF Unexecuted, Sending
  <2>2. CASE c # k
    <3>1. Unexecuted(c) /\ txs'[c] = txs[c]
      BY <2>2 DEF TruthInv, k
    <3> QED BY <1>1, <1>4, <2>2, <3>1 DEF Unexecuted, Sending
  <2> QED BY <2>1, <2>2
<1>11. ShownIsTrue'
  <2> SUFFICES ASSUME NEW f \in Figures, Shown(f)', by'[f] \in fresh'
               PROVE  IsTrue(f)'
    BY DEF ShownIsTrue
  <2>1. Shown(f) /\ PageFigure(f)' = PageFigure(f)
    BY <1>1, AnnounceShows
  <2>2. IsTrue(f)
    BY <1>1, <1>2, <2>1 DEF TruthInv, ShownIsTrue
  <2> QED BY <1>5, <1>7, <2>1, <2>2, FigureKept
<1> QED BY <1>1, <1>8, <1>9, <1>10, <1>11 DEF TruthInv

\* A connection that is asked for,
LEMMA ConnectTruth ==
  ASSUME WalletAssumption, TypedInv, TruthInv, OnConnect PROVE TruthInv'
<1> DEFINE u == Status(ui, "Connecting...", clicks + 1)
<1>1. Begin("connect", u) /\ UNCHANGED txs
  BY DEF OnConnect
<1>2. /\ clicks + 1 \in 0 .. MaxClicks /\ clicks + 1 \in Click
      /\ clicks + 1 > clicks
  BY <1>1 DEF Begin, Clicked, TypedInv, CountOK, WalletAssumption, Click
<1>3. /\ u \in UIType /\ u.address = ui.address /\ u.balance = ui.balance
      /\ u.test = ui.test /\ u.history = ui.history
      /\ u.historyStatus = ui.historyStatus
  BY <1>2, StatusLemma DEF TypedInv, UIOK
<1>4. txs[clicks + 1].op = "none" /\ txs[clicks + 1].state = "none"
  BY <1>2 DEF TypedInv, TxsOK, NoTx
<1>5. "connect" \in Ops
  BY DEF Ops
<1> HIDE DEF u
<1> QED BY <1>1, <1>3, <1>4, <1>5, BeginTruth

\* a refresh,
LEMMA RefreshTruth ==
  ASSUME WalletAssumption, TypedInv, TruthInv, NEW op \in Figures, Refresh(op)
  PROVE  TruthInv'
<1>1. Begin(op, ui) /\ UNCHANGED txs /\ ui.address # NoAcct
  BY DEF Refresh
<1>2. ui \in UIType /\ ui.address \in Acct /\ op \in Ops
  BY <1>1 DEF TypedInv, UIOK, UIType, Figures, Ops
<1>3. clicks + 1 \in Click /\ clicks + 1 > clicks
  BY <1>1 DEF Begin, Clicked, TypedInv, CountOK, WalletAssumption, Click
<1>4. txs[clicks + 1].op = "none" /\ txs[clicks + 1].state = "none"
  BY <1>3 DEF TypedInv, TxsOK, NoTx
<1> QED BY <1>1, <1>2, <1>4, BeginTruth

\* a form that is refused
LEMMA RefuseTruth ==
  ASSUME WalletAssumption, TypedInv, TruthInv, RefuseForm PROVE TruthInv'
<1>1. /\ clicks + 1 \in 0 .. MaxClicks /\ clicks < MaxClicks
      /\ UNCHANGED <<store, txs, tasks, by>>
      /\ fresh' = fresh \cup {clicks + 1}
      /\ ui' = Status(ui, "refused", clicks + 1)
  BY DEF RefuseForm, Clicked, TypedInv, CountOK, WalletAssumption
<1>2. /\ ui'.address = ui.address /\ ui'.balance = ui.balance
      /\ ui'.test = ui.test /\ ui'.history = ui.history
      /\ ui'.historyStatus = ui.historyStatus
  BY <1>1, StatusLemma DEF TypedInv, UIOK
<1>3. /\ \A f \in Figures : by[f] # clicks + 1
      /\ \A t \in tasks : t.click # clicks + 1
  BY <1>1, NewClick
<1>4. NoneExecuted
  BY <1>1 DEF NoneExecuted
<1>5. ASSUME NEW t \in tasks PROVE Truthful(t)'
  <2>1. Truthful(t)
    BY DEF TruthInv
  <2>2. OfItsTx(t)' /\ Addressed(t)' /\ Lone(t)'
    BY <1>1, <1>2, <1>3, <2>1 DEF Truthful, OfItsTx, Addressed, Lone
  <2>3. AnswerTrue(t)'
    BY <1>1, <1>3, <1>4, <2>1, ChainFigureSame
       DEF Truthful, AnswerTrue, AnswerFigure
  <2> QED BY <2>2, <2>3 DEF Truthful
<1>6. ASSUME NEW c \in Click PROVE Unexecuted(c)'
  BY <1>1 DEF TruthInv, Unexecuted, Sending
<1>7. ShownIsTrue'
  <2> SUFFICES ASSUME NEW f \in Figures, Shown(f)', by'[f] \in fresh'
               PROVE  IsTrue(f)'
    BY DEF ShownIsTrue
  <2>1. Shown(f) /\ PageFigure(f)' = PageFigure(f)
    BY <1>2 DEF Shown, PageFigure, Figures
  <2>2. IsTrue(f)
    BY <1>1, <1>3, <2>1 DEF TruthInv, ShownIsTrue
  <2> QED BY <1>1, <1>2, <1>4, <2>1, <2>2, FigureKept
<1> QED BY <1>1, <1>5, <1>6, <1>7 DEF TruthInv

\* and one that is sent.
LEMMA FormTruth ==
  ASSUME WalletAssumption, TypedInv, TruthInv, NEW op \in TxOps,
         NEW peer \in Acct \cup {NoAcct}, NEW n \in FormAmounts,
         ui.address # NoAcct, IF n = 0 THEN RefuseForm ELSE Submit(op, peer, n)
  PROVE  TruthInv'
<1>1. CASE n = 0
  BY <1>1, RefuseTruth
<1>2. CASE n # 0
  <2> DEFINE u == Status(ui, "confirm", clicks + 1)
             x == [NoTx EXCEPT !.op = op, !.from = ui.address,
                               !.peer = peer, !.n = n]
  <2>1. Begin(op, u) /\ txs' = [txs EXCEPT ![clicks + 1] = x]
    BY <1>2 DEF Submit
  <2>2. /\ clicks + 1 \in 0 .. MaxClicks /\ clicks + 1 \in Click
        /\ clicks + 1 > clicks
    BY <2>1 DEF Begin, Clicked, TypedInv, CountOK, WalletAssumption, Click
  <2>3. /\ u \in UIType /\ u.address = ui.address /\ u.balance = ui.balance
        /\ u.test = ui.test /\ u.history = ui.history
        /\ u.historyStatus = ui.historyStatus
    BY <2>2, StatusLemma DEF TypedInv, UIOK
  <2>4. x.op = op /\ x.from = ui.address /\ x.state = "none"
    BY DEF NoTx
  <2>5. op \in Ops /\ ui.address \in Acct
    BY DEF Ops, TypedInv, UIOK, UIType
  <2>6. txs[clicks + 1].state = "none"
    BY <2>2 DEF TypedInv, TxsOK, NoTx
  <2> HIDE DEF u, x
  <2>7. /\ txs'[clicks + 1] = x
        /\ \A c \in Click : c # clicks + 1 => txs'[c] = txs[c]
    BY <2>1, <2>2 DEF TypedInv, TxsOK
  <2>8. /\ txs'[clicks + 1].state \notin {"ok", "failed"}
        /\ txs[clicks + 1].state \notin {"ok", "failed"}
        /\ op = txs'[clicks + 1].op /\ txs'[clicks + 1].from = ui.address
    BY <2>4, <2>6, <2>7
  <2> QED BY <2>1, <2>3, <2>5, <2>7, <2>8, BeginTruth
<1> QED BY <1>1, <1>2
-----------------------------------------------------------------------------
\* A connection starts the only handlers of its click; if it shows another
\* address, nothing else stays fresh.
LEMMA ConnectedTruth ==
  ASSUME WalletAssumption, TypedInv, ReportsInv, TruthInv, NEW t \in tasks,
         NEW a \in WalletAccts, Connected(t, a)
  PROVE  TruthInv'
<1>0. PICK S : S = {Task("history", t.click, a), Task("background", t.click, a)}
  OBVIOUS
<1>1. /\ Head(t.todo) = "connect" /\ tasks' = (tasks \ {t}) \cup S
      /\ fresh' = {t.click} \cup (IF a = ui.address THEN fresh ELSE {})
      /\ UNCHANGED <<store, txs, by, clicks>>
  BY <1>0, StepsLemma DEF Connected, Loads, Replace, Splits
<1>2. ASSUME NEW v \in S
      PROVE  /\ v.click = t.click /\ v.addr = a /\ v.stage = "waiting"
             /\ Head(v.todo) \in Figures
  BY <1>0, ConnectedTasks
<1>3. /\ \A f \in Figures : by[f] # t.click
      /\ \A v \in tasks : v.click = t.click => v = t
  BY <1>1 DEF TruthInv, Truthful, Lone
<1>4. txs[t.click].op = "none"
  BY <1>1 DEF ReportsInv, Informed, NoTx
<1>5. /\ ui'.address = a /\ ui'.test = ui.test
      /\ ui'.balance.kind = "Loading..." /\ ui'.historyStatus = "Loading..."
  <2>1. /\ ui'.address = a /\ ui'.test = ui.test
        /\ ui'.balance = Figure("Loading...", 0)
        /\ ui'.historyStatus = "Loading..."
    BY ConnectedLemma
  <2>2. Figure("Loading...", 0).kind = "Loading..."
    BY DEF Figure
  <2> QED BY <2>1, <2>2
<1>6. NoneExecuted
  BY <1>1 DEF NoneExecuted
<1>7. ASSUME NEW v \in tasks' PROVE Truthful(v)'
  <2>1. CASE v \in S
    <3>1. OfItsTx(v)' /\ Addressed(v)' /\ AnswerTrue(v)'
      BY <1>1, <1>2, <1>4, <1>5, <2>1 DEF OfItsTx, Addressed, AnswerTrue
    <3>2. Lone(v)'
      BY <1>2, <2>1 DEF Lone, Figures
    <3> QED BY <3>1, <3>2 DEF Truthful
  <2>2. CASE v \notin S
    <3>1. v \in tasks /\ Truthful(v) /\ v.click # t.click
      BY <1>1, <1>3, <2>2 DEF TruthInv
    <3>2. v.click \in fresh' => v.click \in fresh /\ a = ui.address
      BY <1>1, <3>1
    <3>3. OfItsTx(v)' /\ Addressed(v)'
      BY <1>1, <1>5, <3>1, <3>2 DEF Truthful, OfItsTx, Addressed
    <3>4. AnswerTrue(v)'
      BY <1>1, <1>6, <3>1, <3>2, ChainFigureSame
         DEF Truthful, AnswerTrue, AnswerFigure
    <3>5. Lone(v)'
      BY <1>1, <1>2, <3>1 DEF Truthful, Lone
    <3> QED BY <3>3, <3>4, <3>5 DEF Truthful
  <2> QED BY <2>1, <2>2
<1>8. ASSUME NEW c \in Click PROVE Unexecuted(c)'
  BY <1>1, <1>2, <1>4 DEF TruthInv, Unexecuted, Sending
<1>9. ShownIsTrue'
  <2> SUFFICES ASSUME NEW f \in Figures, Shown(f)', by'[f] \in fresh'
               PROVE  IsTrue(f)'
    BY DEF ShownIsTrue
  <2>1. f = "test" /\ Shown(f) /\ PageFigure(f)' = PageFigure(f)
    BY <1>5 DEF Shown, PageFigure, Figures
  <2>2. by[f] \in fresh /\ a = ui.address
    BY <1>1, <1>3
  <2>3. IsTrue(f)
    BY <2>1, <2>2 DEF TruthInv, ShownIsTrue
  <2> QED BY <1>1, <1>5, <1>6, <2>1, <2>2, <2>3, FigureKept
<1> QED BY <1>1, <1>7, <1>8, <1>9 DEF TruthInv

\* Announcing the next query hides a figure or leaves it as it was.
LEMMA ResumeShows ==
  ASSUME TypedInv, NEW t \in tasks, Resume(t)
  PROVE  /\ ui'.balance.kind = "value" => ui'.balance = Settled(t).balance
         /\ ui'.historyStatus = "OK" => Settled(t).historyStatus = "OK"
<1>1. Settled(t) \in UIType
  <2>1. t \in TaskType /\ Head(t.todo) \in Kinds /\ ui \in UIType
    BY TaskLemma DEF TypedInv, TasksOK, WellFormed, Follows, UIOK
  <2> QED BY <2>1, SettledLemma
<1>2. CASE ui' = Settled(t)
  BY <1>2
<1>3. CASE ui' = Announce(Settled(t), Tail(t.todo))
  <2>1. /\ ui'.balance \in {Figure("Loading...", 0), Settled(t).balance}
        /\ ui'.historyStatus \in {"Loading...", Settled(t).historyStatus}
    BY <1>1, <1>3, AnnounceLemma
  <2>2. Figure("Loading...", 0).kind = "Loading..."
    BY DEF Figure
  <2> QED BY <2>1, <2>2
<1> QED BY <1>2, <1>3, ResumeLemma

\* A figure on the page after a handler went on is its answer or was there.
LEMMA ResumeFigures ==
  ASSUME TypedInv, NEW t \in tasks, Resume(t), NEW f \in Figures, Shown(f)'
  PROVE  /\ f = Head(t.todo) =>
              t.ans.res # "error" /\ PageFigure(f)' = AnswerFigure(t)
         /\ f # Head(t.todo) => Shown(f) /\ PageFigure(f)' = PageFigure(f)
<1>1. t \in TaskType /\ Head(t.todo) \in Kinds /\ ui \in UIType
  BY TaskLemma DEF TypedInv, TasksOK, WellFormed, Follows, UIOK
<1>2. /\ Settled(t).balance = IF Head(t.todo) # "balance" THEN ui.balance
                              ELSE IF t.ans.res = "error" THEN Figure("Error", 0)
                              ELSE Figure("value", t.ans.n)
      /\ Settled(t).test = IF Head(t.todo) # "test" THEN ui.test
                           ELSE IF t.ans.res = "error" THEN Figure("Error", 0)
                           ELSE Figure("value", t.ans.n)
      /\ Settled(t).historyStatus =
           IF Head(t.todo) # "history" THEN ui.historyStatus
           ELSE IF t.ans.res = "error" THEN "error" ELSE "OK"
      /\ Settled(t).history = IF Head(t.todo) = "history" /\ t.ans.res # "error"
                                THEN t.ans.items ELSE ui.history
  BY <1>1, SettledLemma
<1>3. /\ ui'.test = Settled(t).test /\ ui'.history = Settled(t).history
      /\ ui'.balance.kind = "value" => ui'.balance = Settled(t).balance
      /\ ui'.historyStatus = "OK" => Settled(t).historyStatus = "OK"
  BY ResumeLemma, ResumeShows
<1>4. /\ Figure("Error", 0).kind # "value"
      /\ Figure("value", t.ans.n).n = t.ans.n
  BY DEF Figure
<1>5. CASE f = "balance"
  BY <1>2, <1>3, <1>4, <1>5 DEF Shown, PageFigure, AnswerFigure
<1>6. CASE f = "test"
  BY <1>2, <1>3, <1>4, <1>6 DEF Shown, PageFigure, AnswerFigure
<1>7. CASE f = "history"
  BY <1>2, <1>3, <1>7 DEF Shown, PageFigure, AnswerFigure
<1> QED BY <1>5, <1>6, <1>7 DEF Figures

\* What a handler has left to do when it goes on.
LEMMA ResumeRest ==
  ASSUME TypedInv, NEW t \in tasks, Resume(t)
  PROVE  \E S : /\ tasks' = (tasks \ {t}) \cup S
                /\ \A v \in S : /\ v.op = t.op /\ v.addr = t.addr
                                /\ v.click = t.click /\ v.stage = "waiting"
                                /\ Head(v.todo) \in Figures
                                /\ Head(v.todo) = Head(Tail(t.todo))
                /\ IF Ends(t) THEN S = {} ELSE S # {} /\ Tail(t.todo) # <<>>
<1>1. CASE Ends(t) /\ Replace(t, {})
  BY <1>1 DEF Replace
<1>2. CASE ~Ends(t) /\ Tail(t.todo) # <<>> /\ Replace(t, {Going(t)})
  <2>1. PICK v : v = Going(t)
    OBVIOUS
  <2>2. /\ v.op = t.op /\ v.addr = t.addr /\ v.click = t.click
        /\ v.stage = "waiting" /\ Head(v.todo) \in Figures
        /\ v.todo = Tail(t.todo)
    BY <1>2, <2>1, GoingLemma
  <2>3. tasks' = (tasks \ {t}) \cup {v}
    BY <1>2, <2>1 DEF Replace
  <2> WITNESS {v}
  <2> QED BY <1>2, <2>2, <2>3
<1> QED BY <1>1, <1>2, ResumeLemma

\* A handler that goes on shows the figures its answer holds.
LEMMA ResumeTruth ==
  ASSUME TypedInv, ReportsInv, TruthInv, NEW t \in tasks, Resume(t)
  PROVE  TruthInv'
<1>1. /\ t.stage = "answered" /\ ui'.address = ui.address
      /\ UNCHANGED <<store, txs, clicks, fresh>>
      /\ by' = [f \in Figures |-> IF f = Head(t.todo) THEN t.click ELSE by[f]]
  BY ResumeLemma
<1>2. PICK S : /\ tasks' = (tasks \ {t}) \cup S
               /\ \A v \in S : /\ v.op = t.op /\ v.addr = t.addr
                               /\ v.click = t.click /\ v.stage = "waiting"
                               /\ Head(v.todo) \in Figures
               /\ Ends(t) => S = {}
  BY ResumeRest
<1>3. /\ Truthful(t) /\ Informed(t) /\ t.click \in Click
      /\ Follows(t.op, t.todo) /\ t.op \in Ops
  BY TaskLemma DEF TruthInv, ReportsInv, TypedInv, TasksOK
<1>4. Undecided
  BY <1>1 DEF Undecided, NoneExecuted
<1>5. ASSUME NEW v \in tasks' PROVE Truthful(v)'
  <2>1. CASE v \in S
    <3>1. OfItsTx(v)' /\ Addressed(v)' /\ AnswerTrue(v)'
      BY <1>1, <1>2, <1>3, <2>1 DEF Truthful, OfItsTx, Addressed, AnswerTrue
    <3>2. Lone(v)'
      BY <1>2, <2>1 DEF Lone, Figures
    <3> QED BY <3>1, <3>2 DEF Truthful
  <2>2. CASE v \notin S
    <3>1. v \in tasks /\ Truthful(v) /\ v # t
      BY <1>2, <2>2 DEF TruthInv
    <3>2. OfItsTx(v)' /\ Addressed(v)' /\ AnswerTrue(v)'
      BY <1>1, <1>4, <3>1, TaskSame
    <3>3. Lone(v)'
      BY <1>1, <1>2, <3>1 DEF Truthful, Lone
    <3> QED BY <3>2, <3>3 DEF Truthful
  <2> QED BY <2>1, <2>2
<1>6. ASSUME NEW c \in Click PROVE Unexecuted(c)'
  <2> SUFFICES ASSUME txs[c].op # "none", txs[c].state \notin {"ok", "failed"}
               PROVE  /\ \A f \in Figures : by'[f] # c
                      /\ \A v \in tasks' : v.click = c => Sending(v)
    BY <1>1 DEF Unexecuted, Sending
  <2>1. /\ \A f \in Figures : by[f] # c
        /\ \A v \in tasks : v.click = c => Sending(v)
    BY DEF TruthInv, Unexecuted
  <2>2. CASE t.click = c
    <3>1. Sending(t) /\ Head(t.todo) \notin Figures
      BY <2>1, <2>2 DEF Sending, Figures
    <3>2. t.ans.res = "error"
      BY <1>1, <1>3, <2>2, <3>1 DEF Informed, Verdict
    <3>3. S = {}
      BY <1>2, <3>1, <3>2 DEF Ends, Sending
    <3> QED BY <1>1, <1>2, <2>1, <3>1, <3>3
  <2>3. CASE t.click # c
    BY <1>1, <1>2, <2>1, <2>3
  <2> QED BY <2>2, <2>3
<1>7. ShownIsTrue'
  <2> SUFFICES ASSUME NEW f \in Figures, Shown(f)', by'[f] \in fresh'
               PROVE  IsTrue(f)'
    BY DEF ShownIsTrue
  <2>1. CASE f = Head(t.todo)
    <3>1. t.click \in fresh /\ t.op # "connect"
      BY <1>1, <1>3, <2>1 DEF Follows, Figures
    <3>2. t.addr = ui.address
      BY <1>3, <3>1 DEF Truthful, Addressed
    <3>3. t.ans.res # "error" /\ PageFigure(f)' = AnswerFigure(t)
      BY <2>1, ResumeFigures
    <3>4. AnswerFigure(t) = ChainFigure(f, ui.address)
      BY <1>1, <1>3, <2>1, <3>1, <3>2, <3>3 DEF Truthful, AnswerTrue
    <3>5. ChainFigure(f, ui.address)' = ChainFigure(f, ui.address)
      <4>1. Executed' = Executed
        BY <1>1 DEF Executed
      <4> QED BY <1>1, <4>1 DEF ChainFigure, Touches
    <3> QED BY <3>3, <3>4, <3>5 DEF Figures, IsTrue, PageFigure, ChainFigure
  <2>2. CASE f # Head(t.todo)
    <3>1. Shown(f) /\ PageFigure(f)' = PageFigure(f)
      BY <2>2, ResumeFigures
    <3>2. IsTrue(f)
      BY <1>1, <2>2, <3>1 DEF TruthInv, ShownIsTrue
    <3> QED BY <1>1, <1>4, <3>1, <3>2, FigureKept DEF Undecided
  <2> QED BY <2>1, <2>2
<1> QED BY <1>1, <1>5, <1>6, <1>7 DEF TruthInv

\* A page that is opened shows nothing, or the chain's figures.
LEMMA InitTruth ==
  ASSUME WalletAssumption, Init PROVE TruthInv
<1>1. \A c \in Click : txs[c].op = "none" /\ txs[c].state = "none"
  BY DEF Init, NoTx
<1>2. Executed = {}
  BY <1>1 DEF Executed
<1>3. ASSUME NEW f \in Figures, Shown(f) PROVE IsTrue(f)
  <2>1. CASE ui = UI0
    BY <1>3, <2>1 DEF Shown, UI0, Figure, Figures
  <2>2. ASSUME NEW a \in WalletAccts, ui = AtRest(a) PROVE IsTrue(f)
    <3>1. /\ ui.address = a /\ ui.history = {}
          /\ ui.balance.n = store.bal[a][Ustb]
          /\ ui.test.n = store.bal[TestRecipient][Ustb]
      BY <2>2 DEF AtRest, UI0, Figure
    <3> QED BY <1>2, <3>1 DEF IsTrue, Figures
  <2> QED BY <2>1, <2>2 DEF Init
<1> QED BY <1>1, <1>3 DEF Init, TruthInv, ShownIsTrue, Unexecuted

\* Every step of the session keeps TruthInv.
LEMMA NextTruth ==
  ASSUME WalletAssumption, SessionInv, TruthInv, [Next]_vars
  PROVE  TruthInv'
<1> USE DEF SessionInv
<1>1. CASE OnConnect
  BY <1>1, ConnectTruth
<1>2. ASSUME NEW op \in Figures, Refresh(op) PROVE TruthInv'
  BY <1>2, RefreshTruth
<1>3. ASSUME NEW to \in Recipients, NEW n \in FormAmounts, HandleSend(to, n)
      PROVE  TruthInv'
  <2>1. /\ to \in Acct \cup {NoAcct} /\ "send" \in TxOps /\ ui.address # NoAcct
        /\ IF n = 0 THEN RefuseForm ELSE Submit("send", to, n)
    BY <1>3 DEF HandleSend, WalletAssumption, TxOps
  <2> QED BY <2>1, FormTruth
<1>4. ASSUME NEW a \in Acct, NEW n \in FormAmounts, HandleMint(a, n)
      PROVE  TruthInv'
  <2>1. /\ "mint" \in TxOps /\ ui.address # NoAcct
        /\ IF n = 0 THEN RefuseForm ELSE Submit("mint", a, n)
    BY <1>4 DEF HandleMint, IsIssuer, TxOps
  <2> QED BY <2>1, FormTruth
<1>5. ASSUME NEW a \in Acct, NEW n \in FormAmounts, HandleBurn(a, n)
      PROVE  TruthInv'
  <2>1. /\ "burn" \in TxOps /\ ui.address # NoAcct
        /\ IF n = 0 THEN RefuseForm ELSE Submit("burn", a, n)
    BY <1>5 DEF HandleBurn, IsIssuer, TxOps
  <2> QED BY <2>1, FormTruth
<1>6. ASSUME NEW t \in tasks, NEW a \in WalletAccts, Connected(t, a)
      PROVE  TruthInv'
  BY <1>6, ConnectedTruth
<1>7. ASSUME NEW t \in tasks, Serve(t) PROVE TruthInv'
  BY <1>7, ServeTruth
<1>8. ASSUME NEW t \in tasks, Reject(t) PROVE TruthInv'
  BY <1>8, RejectTruth
<1>9. ASSUME NEW t \in tasks, FetchSequence(t) PROVE TruthInv'
  BY <1>9, FetchTruth
<1>10. ASSUME NEW t \in tasks, Approve(t) PROVE TruthInv'
  BY <1>10, ApproveTruth
<1>11. ASSUME NEW t \in tasks, Found(t) PROVE TruthInv'
  BY <1>11, FoundTruth
<1>12. ASSUME NEW t \in tasks, Resume(t) PROVE TruthInv'
  BY <1>12, ResumeTruth
<1>13. ASSUME NEW c \in Click, Execute(c) PROVE TruthInv'
  BY <1>13, ExecuteTruth
<1>14. ASSUME NEW c \in Click, Drop(c) PROVE TruthInv'
  BY <1>14, DropTruth
<1>15. ASSUME NEW x \in Elsewhere, ExecuteOther(x) PROVE TruthInv'
  BY <1>15, ExecuteOtherTruth
<1>16. ASSUME NEW p \in ParamChanges, Govern(p) PROVE TruthInv'
  <2>1. UNCHANGED <<txs, ui, tasks, clicks, hist>>
    BY <1>16 DEF Govern
  <2>2. Undecided
    BY <2>1 DEF Undecided, NoneExecuted
  <2> QED BY <1>16, <2>1, <2>2, GovernLemma, OutsideTruth
<1>17. CASE UNCHANGED vars
  <2>1. UNCHANGED <<txs, ui, tasks, clicks, hist>> /\ store'.bal = store.bal
    BY <1>17 DEF vars
  <2>2. Undecided
    BY <2>1 DEF Undecided, NoneExecuted
  <2> QED BY <2>1, <2>2, OutsideTruth
<1> QED BY <1>1, <1>2, <1>3, <1>4, <1>5, <1>6, <1>7, <1>8, <1>9, <1>10, <1>11,
           <1>12, <1>13, <1>14, <1>15, <1>16, <1>17 DEF Next

\* However the handlers overlap and the answers are ordered, a figure of the
\* page is wrong only if its handler was clicked before the shown address was
\* connected or before a transaction other than its own was executed.
THEOREM ShownIsTrueTheorem == Spec => []ShownIsTrue
<1>1. Init => TruthInv
  BY InitTruth, WalletAssumption
<1>2. SessionInv /\ TruthInv /\ [Next]_vars => TruthInv'
  BY NextTruth, WalletAssumption
<1>3. TruthInv => ShownIsTrue
  BY DEF TruthInv
<1> QED BY <1>1, <1>2, <1>3, SessionAlways, PTL DEF Spec
-----------------------------------------------------------------------------
(***************************************************************************)
(* What a success leaves on the page.  Every handler that runs is of the   *)
(* last click or ran when it was made; once that click has reported its    *)
(* success, each figure it has to refresh is recent, hidden or still to be *)
(* loaded by one of its handlers.                                          *)
(***************************************************************************)
Recent(f) == by[f] \in before \cup {clicks}
Succeeded ==
  /\ clicks > 0
  /\ ui.status.click = clicks
  /\ ui.status.text \in {"OK", "Connected"}

WillLoadTest(t) ==
  \/ Head(t.todo) = "test"
  \/ Head(t.todo) = "balance" /\ t.op \in {"background", "mint", "burn"}
WillLoadHistory(t) == t.op \in TxOps \cup {"history"}

Refreshing(t) ==
  /\ Head(t.todo) \in Figures
  /\ t.op \in TxOps \cup {"history", "background"}
  /\ txs[clicks].op = "none" => t.op \in {"history", "background"}

Renewed ==
  /\ \A t \in tasks : t.click = clicks => Refreshing(t)
  /\ Shown("balance") => Recent("balance")
  /\ Shown("history") =>
       \/ Recent("history")
       \/ \E t \in tasks : t.click = clicks /\ WillLoadHistory(t)
  /\ Shown("test") /\ "test" \in Refreshed =>
       \/ Recent("test")
       \/ \E t \in tasks : t.click = clicks /\ WillLoadTest(t)

RefreshInv ==
  /\ \A t \in tasks : t.click \in before \cup {clicks}
  /\ Succeeded => Renewed

\* When the test balance is one of the refreshed figures.
LEMMA RefreshedLemma ==
  ASSUME TypedInv, clicks > 0
  PROVE  /\ clicks \in Click /\ txs[clicks].op \in TxOps \cup {"none"}
         /\ "test" \in Refreshed <=>
              /\ txs[clicks].op # "send"
              /\ txs[clicks].op = "none" =>
                   Shown("balance") /\ by["balance"] = clicks
<1>1. clicks \in Click
  BY DEF TypedInv, CountOK, Click
<1>2. txs[clicks] \in Tx
  BY <1>1 DEF TypedInv, TxsOK
<1>3. txs[clicks].op \in TxOps \cup {"none"}
  BY <1>2 DEF Tx
<1> QED BY <1>1, <1>3 DEF Refreshed, Figures, TxOps

\* The page, the handlers and the clicks are left alone.
LEMMA OutsideRefresh ==
  ASSUME TypedInv, RefreshInv, UNCHANGED <<ui, tasks, clicks, by, before>>,
         \A c \in Click : txs'[c].op = txs[c].op
  PROVE  RefreshInv'
<1>1. Succeeded' => Succeeded /\ Renewed /\ txs'[clicks].op = txs[clicks].op
  BY RefreshedLemma DEF Succeeded, RefreshInv
<1> QED BY <1>1 DEF RefreshInv, Renewed, Refreshing, Shown, Recent, Refreshed,
                    WillLoadTest, WillLoadHistory

\* A handler moves on within one await.
LEMMA WithinRefresh ==
  ASSUME TypedInv, RefreshInv, NEW t \in tasks, NEW w, Replace(t, {w}),
         Undecided, UNCHANGED <<ui, clicks, hist>>,
         w.todo = t.todo, w.op = t.op, w.click = t.click
  PROVE  RefreshInv'
<1>1. tasks' = (tasks \ {t}) \cup {w} /\ UNCHANGED <<ui, clicks, by, before>>
  BY DEF Replace, hist
<1>2. \A v \in tasks' : v.click \in before' \cup {clicks'}
  BY <1>1 DEF RefreshInv
<1>3. ASSUME Succeeded' PROVE Renewed'
  <2>1. Renewed /\ txs'[clicks].op = txs[clicks].op
    BY <1>1, <1>3, RefreshedLemma DEF Succeeded, RefreshInv, Undecided
  <2>2. \A v \in tasks' : v.click = clicks => Refreshing(v)'
    BY <1>1, <2>1 DEF Renewed, Refreshing
  <2>3. Shown("balance")' => Recent("balance")'
    BY <1>1, <2>1 DEF Renewed, Shown, Recent
  <2>4. ASSUME Shown("history")'
        PROVE  \/ Recent("history")'
               \/ \E v \in tasks' : v.click = clicks /\ WillLoadHistory(v)
    <3>1. \/ Recent("history")
          \/ \E v \in tasks : v.click = clicks /\ WillLoadHistory(v)
      BY <1>1, <2>1, <2>4 DEF Renewed, Shown
    <3> QED BY <1>1, <3>1 DEF Recent, WillLoadHistory
  <2>5. ASSUME Shown("test")', "test" \in Refreshed'
        PROVE  \/ Recent("test")'
               \/ \E v \in tasks' : v.click = clicks /\ WillLoadTest(v)
    <3>1. "test" \in Refreshed
      BY <1>1, <2>1, <2>5 DEF Refreshed, Shown
    <3>2. \/ Recent("test")
          \/ \E v \in tasks : v.click = clicks /\ WillLoadTest(v)
      BY <1>1, <2>1, <2>5, <3>1 DEF Renewed, Shown
    <3> QED BY <1>1, <3>2 DEF Recent, WillLoadTest
  <2> QED BY <1>1, <2>2, <2>3, <2>4, <2>5
          DEF Renewed, WillLoadTest, WillLoadHistory
<1> QED BY <1>2, <1>3 DEF RefreshInv

\* The steps of a handler within one await.
LEMMA HandlerRefresh ==
  ASSUME TypedInv, ReportsInv, RefreshInv, NEW t \in tasks,
         Serve(t) \/ Reject(t) \/ FetchSequence(t) \/ Approve(t) \/ Found(t)
  PROVE  RefreshInv'
<1>1. t \in TaskType /\ t.click \in Click /\ txs \in [Click -> Tx]
  BY TaskLemma DEF TypedInv, TasksOK, WellFormed, TxsOK
<1>2. UNCHANGED <<ui, clicks, hist>>
  BY DEF Serve, Reject, FetchSequence, Approve, Found
<1>3. PICK w : /\ Replace(t, {w}) /\ w.todo = t.todo
               /\ w.op = t.op /\ w.click = t.click
  <2>1. PICK w : /\ Replace(t, {w})
                 /\ \/ \E ans : w = Answered(t, ans)
                    \/ w = [t EXCEPT !.stage = "signing", !.sq = seq[t.addr]]
                    \/ w = [t EXCEPT !.stage = "polling"]
    BY DEF Serve, Reject, FetchSequence, Approve, Found
  <2>2. w.todo = t.todo /\ w.op = t.op /\ w.click = t.click
    BY <1>1, <2>1 DEF TaskType, Answered
  <2> QED BY <2>1, <2>2
<1>4. Undecided
  <2>1. CASE UNCHANGED txs
    BY <2>1 DEF Undecided, NoneExecuted
  <2>2. CASE Approve(t) /\ txs' # txs
    <3>1. txs' = [txs EXCEPT ![t.click].state = "pending", ![t.click].sq = t.sq]
      BY <2>2 DEF Approve
    <3>2. txs[t.click].state = "none"
      BY <2>2 DEF Approve, TypedInv, TasksOK, WellFormed, ReportsInv,
                  Informed, Sending
    <3> QED BY <1>1, <3>1, <3>2 DEF Undecided, NoneExecuted, Tx
  <2> QED BY <2>1, <2>2 DEF Serve, Reject, FetchSequence, Found
<1> QED BY <1>2, <1>3, <1>4, WithinRefresh

\* The steps of the chain.
LEMMA ChainRefresh ==
  ASSUME TypedInv, RefreshInv,
         \/ \E c \in Click : Execute(c) \/ Drop(c)
         \/ \E x \in Elsewhere : ExecuteOther(x)
         \/ \E p \in ParamChanges : Govern(p)
  PROVE  RefreshInv'
<1>1. UNCHANGED <<ui, tasks, clicks, by, before>>
  BY DEF Execute, Drop, ExecuteOther, Govern, hist
<1>2. \A c \in Click : txs'[c].op = txs[c].op
  <2>1. txs \in [Click -> Tx]
    BY DEF TypedInv, TxsOK
  <2>2. ASSUME NEW c \in Click, NEW st, txs' = [txs EXCEPT ![c].state = st]
        PROVE  \A d \in Click : txs'[d].op = txs[d].op
    BY <2>1, <2>2 DEF Tx
  <2>3. \/ UNCHANGED txs
        \/ \E c \in Click : \E st : txs' = [txs EXCEPT ![c].state = st]
    BY DEF Execute, Drop, ExecuteOther, Govern
  <2> QED BY <2>2, <2>3
<1> QED BY <1>1, <1>2, OutsideRefresh

-----------------------------------------------------------------------------
\* A click has not succeeded yet, and the handlers that run are before it.
LEMMA ClickedRefresh ==
  ASSUME WalletAssumption, TypedInv, Clicked,
         \A t \in tasks' : t \in tasks \/ t.click = clicks + 1,
         \/ ui'.status = ui.status
         \/ ui'.status.text \notin {"OK", "Connected"}
  PROVE  RefreshInv'
<1>1. clicks' = clicks + 1 /\ before' = {t.click : t \in tasks}
  BY DEF Clicked
<1>2. ui.status.click # clicks + 1
  <2>1. ui.status.click \in 0 .. MaxClicks
    BY DEF TypedInv, UIOK, UIType
  <2>2. clicks \in 0 .. MaxClicks /\ ui.status.click <= clicks
    BY DEF TypedInv, UIOK, CountOK
  <2> QED BY <2>1, <2>2
<1>3. ~Succeeded'
  BY <1>1, <1>2 DEF Succeeded
<1> QED BY <1>1, <1>3 DEF RefreshInv

\* So for every button,
LEMMA BeginRefresh ==
  ASSUME WalletAssumption, TypedInv, NEW op \in Ops, NEW u \in UIType,
         op # "connect" => ui.address \in Acct, Begin(op, u),
         u.status = ui.status \/ u.status.text \notin {"OK", "Connected"}
  PROVE  RefreshInv'
<1>0. PICK n : n = Task(op, clicks + 1, ui.address)
  OBVIOUS
<1>1. /\ Clicked /\ tasks' = tasks \cup {n} /\ ui' = Announce(u, Awaits(op))
  BY <1>0 DEF Begin
<1>2. n.click = clicks + 1
  BY <1>0 DEF Task
<1>3. ui'.status = u.status
  BY <1>1, AnnounceLemma
<1> QED BY <1>1, <1>2, <1>3, ClickedRefresh

\* that of a connection,
LEMMA ConnectRefresh ==
  ASSUME WalletAssumption, TypedInv, OnConnect PROVE RefreshInv'
<1> DEFINE u == Status(ui, "Connecting...", clicks + 1)
<1>1. Begin("connect", u)
  BY DEF OnConnect
<1>2. clicks + 1 \in 0 .. MaxClicks
  BY <1>1 DEF Begin, Clicked, TypedInv, CountOK, WalletAssumption
<1>3. u \in UIType /\ u.status = [text |-> "Connecting...", click |-> clicks + 1]
  BY <1>2, StatusLemma DEF TypedInv, UIOK
<1>4. u.status.text \notin {"OK", "Connected"}
  BY <1>3
<1>5. "connect" \in Ops
  BY DEF Ops
<1> HIDE DEF u
<1> QED BY <1>1, <1>3, <1>4, <1>5, BeginRefresh

\* of a refresh,
LEMMA RefreshRefresh ==
  ASSUME WalletAssumption, TypedInv, NEW op \in Figures, Refresh(op)
  PROVE  RefreshInv'
<1>1. Begin(op, ui) /\ ui.address # NoAcct
  BY DEF Refresh
<1>2. ui \in UIType /\ ui.address \in Acct /\ op \in Ops
  BY <1>1 DEF TypedInv, UIOK, UIType, Figures, Ops
<1> QED BY <1>1, <1>2, BeginRefresh

\* and of a form.
LEMMA FormRefresh ==
  ASSUME WalletAssumption, TypedInv, NEW op \in TxOps,
         NEW peer \in Acct \cup {NoAcct}, NEW n \in FormAmounts,
         ui.address # NoAcct, IF n = 0 THEN RefuseForm ELSE Submit(op, peer, n)
  PROVE  RefreshInv'
<1>1. clicks + 1 \in 0 .. MaxClicks
  BY DEF Submit, RefuseForm, Begin, Clicked, TypedInv, CountOK, WalletAssumption
<1>2. CASE n = 0
  <2>1. Clicked /\ tasks' = tasks /\ ui' = Status(ui, "refused", clicks + 1)
    BY <1>2 DEF RefuseForm
  <2>2. ui'.status = [text |-> "refused", click |-> clicks + 1]
    BY <1>1, <2>1, StatusLemma DEF TypedInv, UIOK
  <2>3. ui'.status.text = "refused"
    BY <2>2
  <2> QED BY <2>1, <2>3, ClickedRefresh
<1>3. CASE n # 0
  <2> DEFINE u == Status(ui, "confirm", clicks + 1)
  <2>1. Begin(op, u)
    BY <1>3 DEF Submit
  <2>2. u \in UIType /\ u.status = [text |-> "confirm", click |-> clicks + 1]
    BY <1>1, StatusLemma DEF TypedInv, UIOK
  <2>3. u.status.text \notin {"OK", "Connected"}
    BY <2>2
  <2>4. op \in Ops /\ ui.address \in Acct
    BY DEF Ops, TypedInv, UIOK, UIType
  <2> HIDE DEF u
  <2> QED BY <2>1, <2>2, <2>3, <2>4, BeginRefresh
<1> QED BY <1>2, <1>3

-----------------------------------------------------------------------------
\* A connection hides the balance and the history and loads both.
LEMMA ConnectedRefresh ==
  ASSUME WalletAssumption, TypedInv, ReportsInv, TruthInv, RefreshInv,
         NEW t \in tasks, NEW a \in WalletAccts, Connected(t, a)
  PROVE  RefreshInv'
<1>0. PICK S : S = {Task("history", t.click, a), Task("background", t.click, a)}
  OBVIOUS
<1>1. /\ Head(t.todo) = "connect" /\ tasks' = (tasks \ {t}) \cup S
      /\ UNCHANGED <<txs, by, clicks, before>>
  BY <1>0, StepsLemma DEF Connected, Loads, Replace, Splits
<1>2. ASSUME NEW v \in S
      PROVE  /\ v.click = t.click /\ v.op \in {"history", "background"}
             /\ Head(v.todo) \in Figures
  BY <1>0, ConnectedTasks
<1>3. \A v \in tasks : v.click = t.click => v = t
  BY <1>1 DEF TruthInv, Truthful, Lone
<1>4. txs[t.click].op = "none"
  BY <1>1 DEF ReportsInv, Informed, NoTx
<1>5. /\ ui'.status.click = t.click
      /\ ui'.balance.kind = "Loading..." /\ ui'.historyStatus = "Loading..."
  <2>1. /\ ui'.status = [text |-> "Connected", click |-> t.click]
        /\ ui'.balance = Figure("Loading...", 0)
        /\ ui'.historyStatus = "Loading..."
    BY ConnectedLemma
  <2>2. Figure("Loading...", 0).kind = "Loading..."
    BY DEF Figure
  <2> QED BY <2>1, <2>2
<1>6. \A v \in tasks' : v.click \in before' \cup {clicks'}
  BY <1>1, <1>2 DEF RefreshInv
<1>7. ASSUME Succeeded' PROVE Renewed'
  <2>1. t.click = clicks /\ clicks > 0
    BY <1>1, <1>5, <1>7 DEF Succeeded
  <2>2. ~Shown("balance")' /\ ~Shown("history")'
    BY <1>5 DEF Shown
  <2>3. "test" \notin Refreshed'
    BY <1>1, <1>4, <2>1, <2>2 DEF Refreshed
  <2>4. \A v \in tasks' : v.click = clicks => Refreshing(v)'
    BY <1>1, <1>2, <1>3, <2>1 DEF Refreshing
  <2> QED BY <1>1, <2>2, <2>3, <2>4 DEF Renewed
<1> QED BY <1>6, <1>7 DEF RefreshInv

\* The handler of a transaction that reports a success goes on and loads all.
LEMMA SentRefresh ==
  ASSUME TypedInv, ReportsInv, TruthInv, RefreshInv, NEW t \in tasks, Resume(t),
         Head(t.todo) = "broadcast", Succeeded'
  PROVE  Renewed'
<1>1. /\ t \in TaskType /\ ui \in UIType /\ Sending(t)
      /\ Follows(t.op, t.todo) /\ t.op \in TxOps /\ Tail(t.todo) # <<>>
      /\ Head(t.todo) \notin Figures /\ Head(t.todo) \in Kinds
      /\ txs[t.click].op = t.op
  BY TaskLemma, SendingLemma
     DEF TypedInv, TasksOK, WellFormed, Follows, UIOK, Sending, Figures
<1>2. /\ UNCHANGED <<txs, clicks>> /\ ui'.status = Settled(t).status
      /\ Ends(t) \/ ui' = Announce(Settled(t), Tail(t.todo))
  BY ResumeLemma
<1>3. PICK text : /\ text = IF t.ans.res = "error" THEN "error"
                            ELSE IF t.ans.res = "code" /\ ChecksCode(t.op)
                              THEN "FAILED" ELSE "OK"
                  /\ Settled(t).status = [text |-> text, click |-> t.click]
  BY <1>1, SettledLemma
<1>4. ui'.status.text = text /\ ui'.status.click = t.click
  BY <1>2, <1>3
<1>5. text \in {"OK", "Connected"} /\ t.click = clicks
  BY <1>2, <1>4 DEF Succeeded
<1>6. t.ans.res # "error" /\ ~(t.ans.res = "code" /\ ChecksCode(t.op))
  BY <1>3, <1>5
<1>7. ~Ends(t)
  BY <1>1, <1>6 DEF Ends, Sending
<1>8. PICK S : /\ tasks' = (tasks \ {t}) \cup S /\ S # {}
               /\ \A v \in S : /\ v.op = t.op /\ v.click = t.click
                               /\ Head(v.todo) = Head(Tail(t.todo))
  BY <1>7, ResumeRest
<1>9. Head(Tail(t.todo)) = "balance"
  BY <1>1 DEF Follows, Sending
<1>10. ~Shown("balance")'
  <2>1. Settled(t) \in UIType
    BY <1>1, SettledLemma
  <2>2. ui'.balance = Figure("Loading...", 0)
    BY <1>1, <1>2, <1>7, <1>9, <2>1, AnnounceLemma
  <2> QED BY <2>2 DEF Shown, Figure
<1>11. ASSUME NEW v \in tasks', v.click = clicks PROVE Refreshing(v)'
  <2>1. v.op = t.op /\ Head(v.todo) \in Figures
    <3>1. CASE v \in S
      BY <1>8, <1>9, <3>1 DEF Figures
    <3>2. CASE v \notin S
      <4>1. v \in tasks /\ v # t /\ OfItsTx(v)
        BY <1>8, <3>2 DEF TruthInv, Truthful
      <4>2. v.op = t.op
        BY <1>1, <1>5, <1>11, <4>1 DEF OfItsTx, TxOps
      <4>3. Follows(v.op, v.todo)
        BY <4>1, TaskLemma DEF TypedInv, TasksOK
      <4>4. Head(v.todo) # "broadcast"
        BY <1>1, <1>5, <1>11, <4>1 DEF ReportsInv, OneSender, Sending
      <4> QED BY <1>1, <4>2, <4>3, <4>4 DEF Follows, Kinds, Figures, TxOps
    <3> QED BY <3>1, <3>2
  <2> QED BY <1>1, <1>2, <1>5, <2>1 DEF Refreshing, TxOps
<1>12. PICK v \in S : TRUE
  BY <1>8
<1>13. v \in tasks' /\ v.click = clicks' /\ WillLoadHistory(v)
  BY <1>1, <1>2, <1>5, <1>8 DEF WillLoadHistory
<1>14. "test" \in Refreshed' => WillLoadTest(v)
  <2>1. txs'[clicks'].op = t.op
    BY <1>1, <1>2, <1>5
  <2>2. t.op = "send" => "test" \notin Refreshed'
    BY <2>1 DEF Refreshed
  <2> QED BY <1>1, <1>8, <1>9, <2>2 DEF WillLoadTest, TxOps
<1> QED BY <1>2, <1>10, <1>11, <1>13, <1>14
        DEF Renewed, WillLoadTest, WillLoadHistory
\* A handler that goes on after a query leaves what it has still to load to
\* its rest, unless the balance of a connection could not be loaded.
LEMMA QueriedRest ==
  ASSUME TypedInv, NEW t \in tasks, Resume(t), Head(t.todo) \in Figures,
         NEW S, tasks' = (tasks \ {t}) \cup S,
         \A v \in S : v.op = t.op /\ Head(v.todo) = Head(Tail(t.todo)),
         ~Ends(t) => S # {}
  PROVE  /\ WillLoadHistory(t) /\ Head(t.todo) # "history" =>
              \E v \in S : WillLoadHistory(v)
         /\ WillLoadTest(t) /\ Head(t.todo) = "balance"
              /\ (t.op = "background" => t.ans.res # "error") =>
              \E v \in S : WillLoadTest(v)
<1>1. Follows(t.op, t.todo)
  BY TaskLemma DEF TypedInv, TasksOK
<1>2. ASSUME WillLoadHistory(t), Head(t.todo) # "history"
      PROVE  \E v \in S : WillLoadHistory(v)
  <2>1. Tail(t.todo) # <<>> /\ t.op # "background"
    BY <1>1, <1>2 DEF WillLoadHistory, Follows, TxOps
  <2>2. ~Ends(t)
    BY <2>1 DEF Ends, Figures
  <2> QED BY <1>2, <2>2 DEF WillLoadHistory
<1>3. ASSUME WillLoadTest(t), Head(t.todo) = "balance",
             t.op = "background" => t.ans.res # "error"
      PROVE  \E v \in S : WillLoadTest(v)
  <2>1. Tail(t.todo) # <<>> /\ Head(Tail(t.todo)) = "test"
    BY <1>1, <1>3 DEF WillLoadTest, Follows
  <2>2. ~Ends(t)
    BY <1>3, <2>1 DEF Ends
  <2> QED BY <2>1, <2>2 DEF WillLoadTest
<1> QED BY <1>2, <1>3

\* A query of a handler: the figure it settles is recent.
LEMMA QueriedRefresh ==
  ASSUME TypedInv, TruthInv, RefreshInv, NEW t \in tasks, Resume(t),
         Head(t.todo) \in Figures, Succeeded'
  PROVE  Renewed'
<1>1. /\ t \in TaskType /\ ui \in UIType /\ Head(t.todo) \in Kinds
      /\ Follows(t.op, t.todo) /\ OfItsTx(t) /\ t.click \in before \cup {clicks}
  BY TaskLemma DEF TypedInv, TasksOK, WellFormed, Follows, UIOK, TruthInv,
                   Truthful, RefreshInv
<1>2. /\ UNCHANGED <<txs, clicks, before>> /\ ui'.status = Settled(t).status
      /\ by' = [f \in Figures |-> IF f = Head(t.todo) THEN t.click ELSE by[f]]
  BY ResumeLemma
<1>3. ui'.status = ui.status
  BY <1>1, <1>2, SettledLemma
<1>4. clicks > 0 /\ Renewed
  BY <1>2, <1>3 DEF Succeeded, RefreshInv
<1>5. PICK S : /\ tasks' = (tasks \ {t}) \cup S
               /\ \A v \in S : /\ v.op = t.op /\ v.click = t.click
                               /\ Head(v.todo) \in Figures
                               /\ Head(v.todo) = Head(Tail(t.todo))
               /\ ~Ends(t) => S # {}
  BY ResumeRest
<1>6. /\ WillLoadHistory(t) /\ Head(t.todo) # "history" =>
           \E v \in S : WillLoadHistory(v)
      /\ WillLoadTest(t) /\ Head(t.todo) = "balance"
           /\ (t.op = "background" => t.ans.res # "error") =>
           \E v \in S : WillLoadTest(v)
  BY <1>5, QueriedRest
<1>7. ASSUME NEW f \in Figures, Shown(f)'
      PROVE  \/ Recent(f)'
             \/ f # Head(t.todo) /\ Shown(f) /\ (Recent(f) => Recent(f)')
  BY <1>1, <1>2, <1>7, ResumeFigures DEF Recent
<1>8. ASSUME NEW v \in tasks', v.click = clicks PROVE Refreshing(v)'
  BY <1>2, <1>4, <1>5, <1>8 DEF Renewed, Refreshing
<1>9. Shown("balance")' => Recent("balance")'
  BY <1>4, <1>7 DEF Renewed, Figures
<1>10. ASSUME Shown("history")', ~Recent("history")'
       PROVE  \E v \in tasks' : v.click = clicks /\ WillLoadHistory(v)
  <2>1. Head(t.todo) # "history" /\ Shown("history") /\ ~Recent("history")
    BY <1>7, <1>10 DEF Figures
  <2>2. PICK w \in tasks : w.click = clicks /\ WillLoadHistory(w)
    BY <1>4, <2>1 DEF Renewed
  <2>3. CASE w = t
    BY <1>5, <1>6, <2>1, <2>2, <2>3
  <2>4. CASE w # t
    BY <1>5, <2>2, <2>4
  <2> QED BY <2>3, <2>4
<1>11. ASSUME Shown("test")', "test" \in Refreshed', ~Recent("test")'
       PROVE  \E v \in tasks' : v.click = clicks /\ WillLoadTest(v)
  <2>1. Head(t.todo) # "test" /\ Shown("test") /\ ~Recent("test")
    BY <1>7, <1>11 DEF Figures
  <2>2. /\ txs[clicks].op \in TxOps \cup {"none"} /\ txs[clicks].op # "send"
        /\ txs[clicks].op = "none" =>
             Shown("balance")' /\ by'["balance"] = clicks
    BY <1>2, <1>4, <1>11, RefreshedLemma DEF Refreshed, Figures
  <2>3. ASSUME Head(t.todo) = "balance", t.click = clicks, WillLoadTest(t)
        PROVE  \E v \in S : WillLoadTest(v)
    <3>1. t.op = "background" => t.ans.res # "error"
      <4>1. t.op = "background" => txs[clicks].op = "none"
        BY <1>1, <2>2, <2>3 DEF OfItsTx, TxOps
      <4>2. Shown("balance")' => t.ans.res # "error"
        BY <2>3, ResumeFigures DEF Figures
      <4> QED BY <2>2, <4>1, <4>2
    <3> QED BY <1>6, <2>3, <3>1
  <2>4. CASE "test" \in Refreshed
    <3>1. PICK w \in tasks : w.click = clicks /\ WillLoadTest(w)
      BY <1>4, <2>1, <2>4 DEF Renewed
    <3>2. CASE w = t
      BY <1>5, <2>1, <2>3, <3>1, <3>2 DEF WillLoadTest
    <3>3. CASE w # t
      BY <1>5, <3>1, <3>3
    <3> QED BY <3>2, <3>3
  <2>5. CASE "test" \notin Refreshed
    <3>1. txs[clicks].op = "none" /\ ~(Shown("balance") /\ by["balance"] = clicks)
      BY <1>4, <2>2, <2>5, RefreshedLemma
    <3>2. Head(t.todo) = "balance" /\ t.click = clicks
      <4>1. CASE Head(t.todo) = "balance"
        BY <1>2, <2>2, <3>1, <4>1 DEF Figures
      <4>2. CASE Head(t.todo) # "balance"
        <5>1. by'["balance"] = by["balance"]
          BY <1>2, <4>2 DEF Figures
        <5>2. Shown("balance")
          BY <2>2, <3>1, <4>2, ResumeFigures DEF Figures
        <5> QED BY <2>2, <3>1, <5>1, <5>2
      <4> QED BY <4>1, <4>2
    <3>3. t.op = "background"
      BY <1>1, <1>4, <3>1, <3>2 DEF Renewed, Refreshing, Follows, Figures
    <3> QED BY <1>5, <2>3, <3>2, <3>3 DEF WillLoadTest
  <2> QED BY <2>4, <2>5
<1> QED BY <1>2, <1>8, <1>9, <1>10, <1>11
        DEF Renewed, WillLoadTest, WillLoadHistory

\* A handler that goes on keeps RefreshInv.
LEMMA ResumeRefresh ==
  ASSUME TypedInv, ReportsInv, TruthInv, RefreshInv, NEW t \in tasks, Resume(t)
  PROVE  RefreshInv'
<1>1. /\ t \in TaskType /\ Head(t.todo) \in Kinds /\ ui \in UIType /\ Informed(t)
  BY TaskLemma DEF TypedInv, TasksOK, WellFormed, Follows, UIOK, ReportsInv
<1>2. /\ t.stage = "answered" /\ UNCHANGED <<clicks, before>>
      /\ ui'.status = Settled(t).status
  BY ResumeLemma
<1>3. PICK S : /\ tasks' = (tasks \ {t}) \cup S
               /\ \A v \in S : v.click = t.click
  BY ResumeRest
<1>4. \A v \in tasks' : v.click \in before' \cup {clicks'}
  BY <1>2, <1>3 DEF RefreshInv
<1>5. ASSUME Succeeded' PROVE Renewed'
  <2>1. CASE Head(t.todo) \in Figures
    BY <1>5, <2>1, QueriedRefresh
  <2>2. CASE Head(t.todo) = "broadcast"
    BY <1>5, <2>2, SentRefresh
  <2>3. CASE Head(t.todo) = "connect"
    <3>1. t.ans.res = "error" /\ Head(t.todo) \notin Figures
      BY <1>1, <1>2, <2>3 DEF Informed, Figures
    <3>2. PICK c : Settled(t).status = [text |-> "error", click |-> c]
      BY <1>1, <3>1, SettledLemma
    <3>3. ui'.status.text = "error"
      BY <1>2, <3>2
    <3> QED BY <1>5, <3>3 DEF Succeeded
  <2> QED BY <1>1, <2>1, <2>2, <2>3 DEF Kinds
<1> QED BY <1>4, <1>5 DEF RefreshInv

\* Every step of the session keeps RefreshInv.
LEMMA NextRefresh ==
  ASSUME WalletAssumption, SessionInv, TruthInv, RefreshInv, [Next]_vars
  PROVE  RefreshInv'
<1> USE DEF SessionInv
<1>1. CASE OnConnect
  BY <1>1, ConnectRefresh
<1>2. ASSUME NEW op \in Figures, Refresh(op) PROVE RefreshInv'
  BY <1>2, RefreshRefresh
<1>3. ASSUME NEW to \in Recipients, NEW n \in FormAmounts, HandleSend(to, n)
      PROVE  RefreshInv'
  <2>1. /\ to \in Acct \cup {NoAcct} /\ "send" \in TxOps /\ ui.address # NoAcct
        /\ IF n = 0 THEN RefuseForm ELSE Submit("send", to, n)
    BY <1>3 DEF HandleSend, WalletAssumption, TxOps
  <2> QED BY <2>1, FormRefresh
<1>4. ASSUME NEW a \in Acct, NEW n \in FormAmounts, HandleMint(a, n)
      PROVE  RefreshInv'
  <2>1. /\ "mint" \in TxOps /\ ui.address # NoAcct
        /\ IF n = 0 THEN RefuseForm ELSE Submit("mint", a, n)
    BY <1>4 DEF HandleMint, IsIssuer, TxOps
  <2> QED BY <2>1, FormRefresh
<1>5. ASSUME NEW a \in Acct, NEW n \in FormAmounts, HandleBurn(a, n)
      PROVE  RefreshInv'
  <2>1. /\ "burn" \in TxOps /\ ui.address # NoAcct
        /\ IF n = 0 THEN RefuseForm ELSE Submit("burn", a, n)
    BY <1>5 DEF HandleBurn, IsIssuer, TxOps
  <2> QED BY <2>1, FormRefresh
<1>6. ASSUME NEW t \in tasks, NEW a \in WalletAccts, Connected(t, a)
      PROVE  RefreshInv'
  BY <1>6, ConnectedRefresh
<1>7. ASSUME NEW t \in tasks,
             Serve(t) \/ Reject(t) \/ FetchSequence(t) \/ Approve(t) \/ Found(t)
      PROVE  RefreshInv'
  BY <1>7, HandlerRefresh
<1>8. ASSUME NEW t \in tasks, Resume(t) PROVE RefreshInv'
  BY <1>8, ResumeRefresh
<1>9. CASE \/ \E c \in Click : Execute(c) \/ Drop(c)
           \/ \E x \in Elsewhere : ExecuteOther(x)
           \/ \E p \in ParamChanges : Govern(p)
  BY <1>9, ChainRefresh
<1>10. CASE UNCHANGED vars
  BY <1>10, OutsideRefresh DEF vars, hist
<1> QED BY <1>1, <1>2, <1>3, <1>4, <1>5, <1>6, <1>7, <1>8, <1>9, <1>10 DEF Next

\* When the page has come to rest after a success of the last click, no figure
\* its handler has to refresh was written by a handler that had ended before.
THEOREM RefreshDoneTheorem == Spec => []RefreshDone
<1>1. Init => TruthInv /\ RefreshInv
  BY InitTruth, WalletAssumption DEF Init, RefreshInv, Succeeded
<1>2. SessionInv /\ TruthInv /\ RefreshInv /\ [Next]_vars
        => TruthInv' /\ RefreshInv'
  BY NextTruth, NextRefresh, WalletAssumption
<1>3. RefreshInv => RefreshDone
  <2> SUFFICES ASSUME RefreshInv, tasks = {}, Succeeded,
                      NEW f \in Refreshed, Shown(f)
               PROVE  by[f] \in before \cup {clicks}
    BY DEF RefreshDone, Succeeded
  <2>1. Renewed
    BY DEF RefreshInv
  <2>2. f \in Figures
    BY DEF Refreshed, Figures
  <2> QED BY <2>1, <2>2 DEF Renewed, Recent, Figures
<1> QED BY <1>1, <1>2, <1>3, SessionAlways, PTL DEF Spec
=============================================================================

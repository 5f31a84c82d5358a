--------------------------- MODULE WalletSession ---------------------------
(***************************************************************************)
(* A session of the browser wallet (App.tsx, wallet.ts) with a node of the *)
(* chain.  A handler runs without interruption up to its next await; there *)
(* it waits, as a task, for the wallet extension or the node while other   *)
(* handlers run, and it goes on with the address and the client it saw     *)
(* when the button was clicked.  Answers arrive in any order or not at all. *)
(***************************************************************************)
EXTENDS StablecoinKeeper, Sequences

CONSTANTS
  Ustb,           \* the denomination the wallet writes into its messages
  WalletIssuer,   \* STB.issuer
  TestRecipient,  \* STB.testRecipient
  WalletAccts,    \* accounts the extension may connect with
  Recipients,     \* accounts a typed recipient may denote, NoAcct for none
  FormAmounts,    \* what parseStbToUstb may give for the text of a form
  Fee,            \* the fee of every transaction: 5000 ustb in the code
  StoreInit,      \* states of the chain when the page is opened
  ParamChanges,   \* parameters governance may set meanwhile
  Elsewhere,      \* transactions the accounts may make with other clients
  MaxElsewhere,   \* bound: sequence up to which they do
  MaxClicks       \* bound: clicks of the session

\* The totals are those TotalsOK of the chain allows.
ASSUME WalletAssumption ==
  /\ Ustb \in Denom
  /\ {WalletIssuer, TestRecipient} \subseteq Acct
  /\ WalletAccts \subseteq Acct
  /\ Recipients \subseteq Acct \cup {NoAcct}
  /\ FormAmounts \subseteq 0 .. IntLimit
  /\ Fee \in Nat
  /\ StoreInit \subseteq {s \in Store : GetTotalSupply(s) \in 0 .. IntLimit}
  /\ ParamChanges \subseteq Params
  /\ Elsewhere \subseteq [op : {"send", "mint", "burn"}, from : Acct,
                           peer : Acct, n : 0 .. IntLimit]
  /\ MaxElsewhere \in Nat
  /\ MaxClicks \in Nat

Click == 1 .. MaxClicks

VARIABLES
  store,   \* the chain's state
  seq,     \* the chain's account sequences
  txs,     \* the transaction each click led to
  ui,      \* the React state of the page
  tasks,   \* handlers waiting at an await
  clicks,  \* number of clicks so far
  by,      \* history: the click whose handler wrote a figure, 0 for none
  fresh,   \* history: clicks for the shown address, nothing executed since
  before   \* history: clicks whose handlers ran when the last one was made

hist == <<by, fresh, before>>
vars == <<store, seq, txs, ui, tasks, clicks, hist>>

-----------------------------------------------------------------------------
TxOps == {"send", "mint", "burn"}
Figures == {"balance", "test", "history"}
Ops == TxOps \cup Figures \cup {"connect", "background"}

NoTx == [op |-> "none", from |-> NoAcct, peer |-> NoAcct, n |-> 0, sq |-> 0,
         state |-> "none"]

\* What a handler awaits, in order.  "broadcast" is signAndBroadcast, the
\* others are the queries of refreshBalance, refreshTestBalance and
\* refreshHistory.
Awaits_NoRefresh(op) ==
  CASE op = "background" -> <<"balance", "test">>
    [] op = "send" -> <<"broadcast", "history">>
    [] op \in {"mint", "burn"} -> <<"broadcast", "test", "history">>
    [] OTHER -> <<op>>
Awaits(op) ==
  CASE op = "background" -> <<"balance", "test">>
    [] op = "send" -> <<"broadcast", "balance", "history">>
    [] op \in {"mint", "burn"} -> <<"broadcast", "balance", "test", "history">>
    [] OTHER -> <<op>>

NoAnswer == [res |-> "none", n |-> 0, items |-> {}]
Error == [NoAnswer EXCEPT !.res = "error"]

\* stage: "waiting" for the node or the extension, "signing" (the sequence is
\* fetched, the user is asked), "polling" (broadcast, not yet found in a
\* block), "answered" (the promise is settled).
Task(op, click, addr) ==
  [op |-> op, click |-> click, addr |-> addr, todo |-> Awaits(op),
   stage |-> "waiting", sq |-> 0, ans |-> NoAnswer]

Figure(k, n) == [kind |-> k, n |-> n]
UI0 == [address |-> NoAcct,
        status |-> [text |-> "", click |-> 0],
        balance |-> Figure("-", 0), test |-> Figure("-", 0),
        history |-> {}, historyStatus |-> "-"]

Status(u, text, click) == [u EXCEPT !.status = [text |-> text, click |-> click]]

\* What a handler shows before it awaits the query at the head of todo.
Announce(u, todo) ==
  IF todo = <<>> THEN u
  ELSE CASE Head(todo) = "balance" ->
              [u EXCEPT !.balance = Figure("Loading...", 0)]
         [] Head(todo) = "history" -> [u EXCEPT !.historyStatus = "Loading..."]
         [] OTHER -> u

-----------------------------------------------------------------------------
\* The page is new, or it was connected as a and has come to rest.
AtRest(a) ==
  [UI0 EXCEPT !.address = a, !.status.text = "Connected",
              !.balance = Figure("value", store.bal[a][Ustb]),
              !.test = Figure("value", store.bal[TestRecipient][Ustb]),
              !.historyStatus = "OK"]

Init ==
  /\ store \in StoreInit
  /\ seq = [a \in Acct |-> 0]
  /\ txs = [c \in Click |-> NoTx]
  /\ ui \in {UI0} \cup {AtRest(a) : a \in WalletAccts}
  /\ tasks = {}
  /\ clicks = 0
  /\ by = [f \in Figures |-> 0]
  /\ fresh = {0}
  /\ before = {}

\* A click, as the history records it.
Clicked ==
  /\ clicks < MaxClicks
  /\ clicks' = clicks + 1
  /\ fresh' = fresh \cup {clicks + 1}
  /\ before' = {t.click : t \in tasks}
  /\ UNCHANGED by

\* A click whose handler reaches its first await: it shows u there.
Begin(op, u) ==
  /\ Clicked
  /\ ui' = Announce(u, Awaits(op))
  /\ tasks' = tasks \cup {Task(op, clicks + 1, ui.address)}
  /\ UNCHANGED <<store, seq>>

OnConnect ==
  Begin("connect", Status(ui, "Connecting...", clicks + 1)) /\ UNCHANGED txs

\* The refresh buttons; they are disabled before the wallet is connected.
Refresh(op) == ui.address # NoAcct /\ Begin(op, ui) /\ UNCHANGED txs

\* handleSend, handleMint and handleBurn with a positive amount.
Submit(op, peer, n) ==
  /\ Begin(op, Status(ui, "confirm", clicks + 1))
  /\ txs' = [txs EXCEPT ![clicks + 1] =
               [NoTx EXCEPT !.op = op, !.from = ui.address,
                            !.peer = peer, !.n = n]]

\* A form with an amount of zero is refused and nothing is sent.
RefuseForm ==
  /\ Clicked
  /\ ui' = Status(ui, "refused", clicks + 1)
  /\ UNCHANGED <<store, seq, txs, tasks>>

HandleSend(to, n) ==
  /\ ui.address # NoAcct
  /\ IF n = 0 THEN RefuseForm ELSE Submit("send", to, n)

\* Mint and Burn are offered to the issuer, for himself or the test account.
IsIssuer == ui.address # NoAcct /\ ui.address = WalletIssuer
HandleMint(to, n) ==
  /\ IsIssuer
  /\ to \in {ui.address, TestRecipient}
  /\ IF n = 0 THEN RefuseForm ELSE Submit("mint", to, n)
HandleBurn(from, n) ==
  /\ IsIssuer
  /\ from \in {ui.address, TestRecipient}
  /\ IF n = 0 THEN RefuseForm ELSE Submit("burn", from, n)

-----------------------------------------------------------------------------
\* Task t is replaced by the tasks S.
Replace(t, S) == tasks' = (tasks \ {t}) \cup S
Answered(t, ans) == [t EXCEPT !.stage = "answered", !.ans = ans]

\* What a connection starts: the new address is handed on, since the one in
\* the React state is still the old one.
Loads_OldAddress(t, a) ==
  {Task("history", t.click, ui.address), Task("background", t.click, a)}
Loads(t, a) == {Task("history", t.click, a), Task("background", t.click, a)}

\* connectWallet fulfils: the account the extension is set to.
Connected(t, a) ==
  /\ t.todo = <<"connect">> /\ t.stage = "waiting"
  /\ ui' = Announce(
             Announce(Status([ui EXCEPT !.address = a], "Connected", t.click),
                      Awaits("history")),
             Awaits("background"))
  /\ Replace(t, Loads(t, a))
  /\ fresh' = {t.click} \cup (IF a = ui.address THEN fresh ELSE {})
  /\ UNCHANGED <<store, seq, txs, clicks, by, before>>

\* The transactions the node finds for an account.
Touches(x, a) == x.from = a \/ (x.state = "ok" /\ x.peer = a)
Executed == {c \in Click : txs[c].state \in {"ok", "failed"}}

QueryAnswer(t) ==
  CASE Head(t.todo) = "balance" ->
         [NoAnswer EXCEPT !.res = "ok", !.n = store.bal[t.addr][Ustb]]
    [] Head(t.todo) = "test" ->
         [NoAnswer EXCEPT !.res = "ok", !.n = store.bal[TestRecipient][Ustb]]
    [] Head(t.todo) = "history" ->
         [NoAnswer EXCEPT !.res = "ok",
                          !.items = {c \in Executed : Touches(txs[c], t.addr)}]

\* The node answers a query from its current state.
Serve(t) ==
  /\ t.stage = "waiting"
  /\ Head(t.todo) \in Figures
  /\ Replace(t, {Answered(t, QueryAnswer(t))})
  /\ UNCHANGED <<store, seq, txs, ui, clicks, hist>>

\* The node cannot be reached, the user refuses, or the transaction was not
\* found in time: the promise is rejected.  What was broadcast stays so.
Reject(t) ==
  /\ t.stage # "answered"
  /\ Replace(t, {Answered(t, Error)})
  /\ UNCHANGED <<store, seq, txs, ui, clicks, hist>>

\* signAndBroadcast fetches the sequence and asks the user,
FetchSequence(t) ==
  /\ t.stage = "waiting" /\ Head(t.todo) = "broadcast"
  /\ Replace(t, {[t EXCEPT !.stage = "signing", !.sq = seq[t.addr]]})
  /\ UNCHANGED <<store, seq, txs, ui, clicks, hist>>

\* who approves; CheckTx accepts the next sequence of an account that can pay
\* the fee.
CheckTx(t) ==
  /\ t.sq = seq[t.addr]
  /\ \A c \in Click : ~(txs[c].state = "pending" /\ txs[c].from = t.addr)
  /\ Has(store, t.addr, Ustb, Fee)

Approve(t) ==
  /\ t.stage = "signing"
  /\ \/ /\ CheckTx(t)
        /\ txs' = [txs EXCEPT ![t.click].state = "pending",
                              ![t.click].sq = t.sq]
        /\ Replace(t, {[t EXCEPT !.stage = "polling"]})
     \/ /\ ~CheckTx(t)
        /\ Replace(t, {Answered(t, Error)})
        /\ UNCHANGED txs
  /\ UNCHANGED <<store, seq, ui, clicks, hist>>

\* The message of a transaction, run on s.
RunMsg(s, x) ==
  LET m == [authority |-> AddrOf(x.from), addr |-> AddrOf(x.peer),
            amount |-> Text(x.n)]
  IN  CASE x.op = "mint" -> Mint(s, m)
        [] x.op = "burn" -> Burn(s, m)
        [] x.op = "send" ->
             IF x.peer \in Blocked \cup {NoAcct} \/ ~Has(s, x.from, Ustb, x.n)
               THEN [err |-> "insufficient funds", st |-> s]
               ELSE [err |-> "nil", st |-> Move(s, x.from, x.peer, Ustb, x.n)]

\* A transaction in a block: the fee is paid, then the message runs; what a
\* failing message did is undone, the fee and the sequence are not.
Paid(x) == Move(store, x.from, FeeCollector, Ustb, Fee)
InBlock(x) ==
  LET r == RunMsg(Paid(x), x)
  IN  /\ Has(store, x.from, Ustb, Fee)
      /\ store' = IF r.err = "nil" THEN r.st ELSE Paid(x)
      /\ seq' = [seq EXCEPT ![x.from] = @ + 1]

\* A pending transaction is executed, or it is dropped when its account can no
\* longer pay the fee or has used the sequence with another client.
Execute(c) ==
  /\ txs[c].state = "pending"
  /\ txs[c].sq = seq[txs[c].from]
  /\ InBlock(txs[c])
  /\ txs' = [txs EXCEPT ![c].state =
               IF RunMsg(Paid(txs[c]), txs[c]).err = "nil" THEN "ok"
               ELSE "failed"]
  /\ fresh' = IF txs[c].from = ui.address THEN {c} ELSE {}
  /\ UNCHANGED <<ui, tasks, clicks, by, before>>

Drop(c) ==
  /\ txs[c].state = "pending"
  /\ \/ ~Has(store, txs[c].from, Ustb, Fee)
     \/ txs[c].sq # seq[txs[c].from]
  /\ txs' = [txs EXCEPT ![c].state = "dropped"]
  /\ UNCHANGED <<store, seq, ui, tasks, clicks, hist>>

ExecuteOther(x) ==
  /\ seq[x.from] < MaxElsewhere
  /\ InBlock(x)
  /\ fresh' = {}
  /\ UNCHANGED <<txs, ui, tasks, clicks, by, before>>

\* Polling finds the transaction: a result with its code, zero or not.
Found(t) ==
  /\ t.stage = "polling"
  /\ t.click \in Executed
  /\ Replace(t, {Answered(t, [NoAnswer EXCEPT !.res =
        IF txs[t.click].state = "ok" THEN "ok" ELSE "code"])})
  /\ UNCHANGED <<store, seq, txs, ui, clicks, hist>>

Govern(p) ==
  /\ store.params # p
  /\ store' = UpdateParams(store, [authority |-> AddrOf(Gov), params |-> p]).st
  /\ UNCHANGED <<seq, txs, ui, tasks, clicks, hist>>

-----------------------------------------------------------------------------
\* handleMint and handleBurn look at the code of the result, handleSend does
\* not: any result is a success to it.
ChecksCode_Never(op) == FALSE
ChecksCode(op) == op \in {"mint", "burn"}

\* The handler ends here instead of going on to its next await.
Ends(t) ==
  \/ Head(t.todo) = "broadcast"
       /\ (t.ans.res = "error" \/ (t.ans.res = "code" /\ ChecksCode(t.op)))
  \/ Head(t.todo) = "balance" /\ t.op = "background" /\ t.ans.res = "error"
  \/ Tail(t.todo) = <<>>

\* What is shown when the promise at the head of todo is settled.
ShownError_Ignored(u, t) == u
ShownError(u, t) ==
  CASE Head(t.todo) = "balance" -> [u EXCEPT !.balance = Figure("Error", 0)]
    [] Head(t.todo) = "test" -> [u EXCEPT !.test = Figure("Error", 0)]
    [] Head(t.todo) = "history" -> [u EXCEPT !.historyStatus = "error"]
    [] OTHER -> Status(u, "error", t.click)
ShownResult(u, t) ==
  CASE Head(t.todo) = "balance" ->
         [u EXCEPT !.balance = Figure("value", t.ans.n)]
    [] Head(t.todo) = "test" -> [u EXCEPT !.test = Figure("value", t.ans.n)]
    [] Head(t.todo) = "history" ->
         [u EXCEPT !.history = t.ans.items, !.historyStatus = "OK"]
    [] OTHER ->
         Status(u, IF t.ans.res = "code" /\ ChecksCode(t.op)
                     THEN "FAILED" ELSE "OK", t.click)

\* The handler goes on when the promise it awaits is settled.
Resume(t) ==
  LET u    == IF t.ans.res = "error" THEN ShownError(ui, t)
              ELSE ShownResult(ui, t)
      todo == IF Ends(t) THEN <<>> ELSE Tail(t.todo)
  IN  /\ t.stage = "answered"
      /\ ui' = Announce(u, todo)
      /\ Replace(t, IF todo = <<>> THEN {}
                    ELSE {[t EXCEPT !.todo = todo, !.stage = "waiting",
                                    !.ans = NoAnswer]})
      /\ by' = [f \in Figures |-> IF f = Head(t.todo) THEN t.click ELSE by[f]]
      /\ UNCHANGED <<store, seq, txs, clicks, fresh, before>>

Next ==
  \/ OnConnect
  \/ \E op \in Figures : Refresh(op)
  \/ \E to \in Recipients, n \in FormAmounts : HandleSend(to, n)
  \/ \E a \in Acct, n \in FormAmounts : HandleMint(a, n) \/ HandleBurn(a, n)
  \/ \E t \in tasks :
       \/ \E a \in WalletAccts : Connected(t, a)
       \/ Serve(t)
       \/ Reject(t)
       \/ FetchSequence(t)
       \/ Approve(t)
       \/ Found(t)
       \/ Resume(t)
  \/ \E c \in Click : Execute(c) \/ Drop(c)
  \/ \E x \in Elsewhere : ExecuteOther(x)
  \/ \E p \in ParamChanges : Govern(p)

\* A query is answered or fails sooner or later, and the browser runs the
\* continuation of a settled promise.  Nothing makes the user or the
\* extension act, nor the chain include a transaction.
Fairness ==
  \A c \in Click :
    WF_vars(\E t \in tasks : t.click = c /\ (Serve(t) \/ Resume(t)))

Spec == Init /\ [][Next]_vars
FairSpec == Spec /\ Fairness

-----------------------------------------------------------------------------
Tx == [op : TxOps \cup {"none"}, from : Acct \cup {NoAcct},
       peer : Acct \cup {NoAcct}, n : Nat, sq : Nat,
       state : {"none", "pending", "ok", "failed", "dropped"}]
Kinds == Figures \cup {"broadcast", "connect"}
TaskType == [op : Ops, click : Click, addr : Acct \cup {NoAcct},
             todo : Seq(Kinds),
             stage : {"waiting", "signing", "polling", "answered"}, sq : Nat,
             ans : [res : {"none", "ok", "code", "error"}, n : Nat,
                    items : SUBSET Click]]
FigureType == [kind : {"-", "Loading...", "Error", "value"}, n : Nat]
UIType == [address : Acct \cup {NoAcct},
           status : [text : {"", "Connecting...", "Connected", "confirm",
                             "refused", "OK", "FAILED", "error"},
                     click : 0 .. MaxClicks],
           balance : FigureType, test : FigureType, history : SUBSET Click,
           historyStatus : {"-", "Loading...", "OK", "error"}]

\* The state has its type, and a handler that waits has something to wait for.
TypeOK ==
  /\ store \in Store
  /\ seq \in [Acct -> Nat]
  /\ txs \in [Click -> Tx]
  /\ ui \in UIType
  /\ \A t \in tasks : t \in TaskType /\ t.todo # <<>>
  /\ clicks \in 0 .. MaxClicks
  /\ by \in [Figures -> 0 .. MaxClicks]
  /\ fresh \subseteq 0 .. MaxClicks
  /\ before \subseteq Click

\* "Mint OK" and "Burn OK" are shown only for a transaction the chain executed
\* with success, "FAILED" only for one it executed without, whatever else was
\* clicked and answered in between.
ReportedIsReal ==
  ui.status.text \in {"OK", "FAILED"} =>
    LET x == txs[ui.status.click]
    IN  x.op \in {"mint", "burn"} =>
          x.state = IF ui.status.text = "OK" THEN "ok" ELSE "failed"

Shown(f) ==
  CASE f = "balance" -> ui.balance.kind = "value"
    [] f = "test"    -> ui.test.kind = "value"
    [] f = "history" -> ui.historyStatus = "OK"
IsTrue(f) ==
  CASE f = "balance" -> ui.balance.n = store.bal[ui.address][Ustb]
    [] f = "test"    -> ui.test.n = store.bal[TestRecipient][Ustb]
    [] f = "history" ->
         ui.history = {c \in Executed : Touches(txs[c], ui.address)}

\* However handlers overlap and in whatever order answers arrive, a figure on
\* the page is wrong only if its handler was clicked before the shown address
\* was connected, or before a transaction, other than its own, was executed.
\* In particular what a handler shows after its own transaction has that
\* transaction in it.
ShownIsTrue == \A f \in Figures : Shown(f) /\ by[f] \in fresh => IsTrue(f)

\* When the page has come to rest and the last click reported a success, no
\* figure its handler has to refresh is left from before: it was written by
\* that handler or by one that ran when the click was made.  A connection that
\* cannot load the balance does not load the test balance either.
Refreshed ==
  CASE txs[clicks].op = "send" -> {"balance", "history"}
    [] txs[clicks].op = "none" /\ ~(Shown("balance") /\ by["balance"] = clicks)
         -> {"balance", "history"}
    [] OTHER -> Figures
RefreshDone ==
  /\ tasks = {} /\ clicks > 0
  /\ ui.status.click = clicks
  /\ ui.status.text \in {"OK", "Connected"}
  => \A f \in Refreshed : Shown(f) => by[f] \in before \cup {clicks}

\* "Loading..." does not stay: neither the balance nor the history is left
\* loading for ever, even when queries fail or handlers overlap.
LoadingEnds ==
  /\ []<>(ui.balance.kind # "Loading...")
  /\ []<>(ui.historyStatus # "Loading...")

\* The comment in handleBurn: a result has a hash even when the transaction
\* failed, so its code must be looked at.  Then a reported success of
\* handleSend would be one.
SendReportedIsReal ==
  /\ ui.status.text = "OK"
  /\ txs[ui.status.click].op = "send"
  => txs[ui.status.click].state = "ok"
=============================================================================

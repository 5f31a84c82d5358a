---------------------------- MODULE WalletHistory ----------------------------
(***************************************************************************)
(* What the wallet makes of amounts and of the chain's transactions: the   *)
(* amount typed becomes a number of ustb, the transaction emits events,    *)
(* two searches find it while blocks go on being added, and the history    *)
(* shows one of its transfers, with an amount formatted through a double.  *)
(***************************************************************************)
EXTENDS Integers, Sequences, FiniteSets, SequencesExt

CONSTANTS
  Me,           \* the address whose history is shown
  FeeCollector, \* the account fees go to
  LikeUstb,     \* denominations whose name ends in "ustb"
  Limit,        \* length of the history (20)
  Decimals,     \* decimals of STB (6)
  Precision,    \* bits of the mantissa of a double (53)
  Large,        \* ustb above which a transfer scores more (10000)
  Fee,          \* ustb paid by the wallet's transactions (5000)
  Typed,        \* what may be typed: [text, means], -1: means no amount
  Bodies,       \* other transactions: [signer, senders, fee, moves, ok]
  MaxTxs(_)     \* bound: transactions on the chain, by what is typed

\* Coins are counted in naturals; a history has room for a transaction; the
\* name of ustb ends in "ustb".
ASSUME HistoryAssumption ==
  /\ Limit \in Nat \ {0} /\ Fee \in Nat /\ Large \in Nat
  /\ Decimals \in Nat \ {0} /\ Precision \in Nat
  /\ "ustb" \in LikeUstb
  /\ \A t \in Typed : MaxTxs(t) \in Nat
  /\ \A b \in Bodies :
       /\ b.fee \in Nat /\ b.ok \in BOOLEAN
       /\ b.moves \in Seq(Range(b.moves))
       /\ \A m \in Range(b.moves) :
            m[3] \in Seq(Range(m[3])) /\ \A c \in Range(m[3]) : c.n \in Nat

VARIABLES
  typed,    \* the input in the form, one of Typed
  sent,     \* hash of the transaction sent from the form, 0 if none
  chain,    \* the transactions in the order of their execution
  phase,    \* of fetchTxHistory: "idle", "searching", "done" or "failed"
  answers,  \* of the two searches: [len, txs], the chain's length and the result
  items,    \* the history shown
  begun     \* history variable: length of the chain when the fetch began

vars == <<typed, sent, chain, phase, answers, items, begun>>

\* 10 ** n and 2 ** n.
Pow10[n \in Nat] == IF n = 0 THEN 1 ELSE 10 * Pow10[n - 1]
Pow2[n \in Nat] == IF n = 0 THEN 1 ELSE 2 * Pow2[n - 1]

Scale == Pow10[Decimals]

-----------------------------------------------------------------------------
(***************************************************************************)
(* Amounts as texts.  A character is a digit or one of these.              *)
(***************************************************************************)
Point == 10
Comma == 11
Space == 12
Letter == 13 \* any other character, a sign included

\* Anything but digits is dropped.
Digits(s) ==
  LET kept[k \in 0 .. Len(s)] ==
        IF k = 0 THEN <<>>
        ELSE IF s[k] \in 0 .. 9 THEN Append(kept[k - 1], s[k]) ELSE kept[k - 1]
  IN  kept[Len(s)]

Number(ds) ==
  LET read[k \in 0 .. Len(ds)] == IF k = 0 THEN 0 ELSE 10 * read[k - 1] + ds[k]
  IN  read[Len(ds)]

\* The text s means n ustb: digits from one place to another, with a point or a
\* comma before the decimals, and nothing but blanks around them; decimals
\* smaller than ustb do not count.
AmountAt(s, n, from, sep, to) ==
  /\ from < to
  /\ \A k \in 1 .. Len(s) :
       s[k] \in IF k < from \/ k >= to THEN {Space}
               ELSE IF k = sep THEN {Point, Comma} ELSE 0 .. 9
  /\ n = Number(SubSeq(s, from, sep - 1)) * Scale
           + Number([k \in 1 .. Decimals |-> IF sep + k < to THEN s[sep + k] ELSE 0])

IsAmount(s, n) ==
  \E from, to \in 1 .. Len(s) + 1 : \E sep \in from .. to : AmountAt(s, n, from, sep, to)

ASSUME TypedAssumption ==
  \A t \in Typed :
    t.text \in Seq(0 .. Letter) /\ (t.means \in Nat => IsAmount(t.text, t.means))

Trim(s) ==
  LET ink == {k \in 1 .. Len(s) : s[k] # Space}
  IN  IF ink = {} THEN <<>> ELSE SubSeq(s, Min(ink), Max(ink))

\* The first comma becomes a point.
WithPoint(s) ==
  LET commas == {k \in 1 .. Len(s) : s[k] = Comma}
  IN  IF commas = {} THEN s ELSE [s EXCEPT ![Min(commas)] = Point]

\* The parts before and after the first point, up to the second.
WholePart(s) ==
  LET points == {k \in 1 .. Len(s) : s[k] = Point}
  IN  IF points = {} THEN s ELSE SubSeq(s, 1, Min(points) - 1)
FracPart(s) == WholePart(SubSeq(s, Len(WholePart(s)) + 2, Len(s)))

Slice(ds) == SubSeq(ds, 1, IF Len(ds) < Decimals THEN Len(ds) ELSE Decimals)
PadEnd(ds) == ds \o [k \in 1 .. Decimals - Len(ds) |-> 0]

\* The amount in ustb, -1 for the empty text.
parseStbToUstb(text) ==
  LET s == WithPoint(Trim(text))
  IN  IF s = <<>> THEN -1
      ELSE Number(Digits(WholePart(s))) * Scale
             + Number(PadEnd(Slice(Digits(FracPart(s)))))

\* a / b to the nearest integer, ties to even.
RoundDiv(a, b) ==
  LET q == a \div b  r == a % b
  IN  IF 2 * r > b \/ (2 * r = b /\ q % 2 = 1) THEN q + 1 ELSE q

\* The binary place of the number a / b >= 1.
Place(a, b) == CHOOSE e \in 0 .. a : b * Pow2[e] <= a /\ a < b * Pow2[e + 1]

\* The double nearest to the integer n.
Double(n) ==
  IF n < Pow2[Precision] THEN n
  ELSE LET u == Pow2[Place(n, 1) - Precision + 1] IN RoundDiv(n, u) * u

\* Math.floor of the double nearest to a / b.
FloorQuotient(a, b) ==
  LET e == IF a < b THEN -1 ELSE Place(a, b)
      u == Pow2[IF e < Precision THEN Precision - 1 - e ELSE 0]
  IN  RoundDiv(a * u, b) \div u

\* The digits of n without leading zeros.
Numeral(n) ==
  LET l == CHOOSE l \in 1 .. n + 1 : n < Pow10[l] /\ (l = 1 \/ Pow10[l - 1] <= n)
  IN  [k \in 1 .. l |-> (n \div Pow10[l - k]) % 10]
PadStart_Not(ds) == ds
PadStart(ds) == [k \in 1 .. Decimals - Len(ds) |-> 0] \o ds

\* An amount that is no number is shown as it is.
formatUstb(coin) ==
  LET num == Double(coin.n)
  IN  IF coin.denom # "ustb" THEN Numeral(coin.n) \o <<Letter>>
      ELSE Numeral(FloorQuotient(num, Scale)) \o <<Point>>
             \o PadStart(Numeral(num % Scale)) \o <<Space, Letter, Letter, Letter>>

-----------------------------------------------------------------------------
(***************************************************************************)
(* Transactions and their transfer events.                                 *)
(***************************************************************************)
Coin(denom, n) == [denom |-> denom, n |-> n]
Transfer(from, to, coins, index) ==
  [sender |-> from, recipient |-> to, amount |-> coins, msg_index |-> index]

\* The fee is taken outside the messages, which leave no event if they fail.
Transfers(b) ==
  (IF b.fee = 0 THEN <<>>
   ELSE <<Transfer(b.signer, FeeCollector, <<Coin("ustb", b.fee)>>, FALSE)>>) \o
  (IF b.ok THEN [k \in 1 .. Len(b.moves) |->
                   Transfer(b.moves[k][1], b.moves[k][2], b.moves[k][3], TRUE)]
   ELSE <<>>)

Tx(b, hash, height) ==
  [hash |-> hash, height |-> height, senders |-> b.senders, events |-> Transfers(b)]

SendBody(to) ==
  [signer |-> Me, senders |-> {Me}, fee |-> Fee, ok |-> TRUE,
   moves |-> <<<<Me, to, <<Coin("ustb", parseStbToUstb(typed.text))>>>>>>]

-----------------------------------------------------------------------------
(***************************************************************************)
(* parseTxResult: one transfer of the transaction is shown.                *)
(***************************************************************************)
UstbPlaces(tr) == {k \in 1 .. Len(tr.amount) : tr.amount[k].denom \in LikeUstb}
UstbPart(tr) ==
  tr.amount[CHOOSE k \in UstbPlaces(tr) : \A j \in UstbPlaces(tr) : k <= j]

\* BigInt of the part, 0 when it throws.
UstbAmount(tr) ==
  LET c == UstbPart(tr) IN IF c.denom = "ustb" THEN c.n ELSE 0

Touching(tr) == Me \in {tr.sender, tr.recipient}
IsCandidate(tr) == Touching(tr) /\ UstbPlaces(tr) # {}
Candidates(tx) == {k \in 1 .. Len(tx.events) : IsCandidate(tx.events[k])}

Score_ByAmount(tr) == UstbAmount(tr)
Score(tr) ==
  (IF tr.msg_index THEN 1000 ELSE 0) +
  (IF UstbAmount(tr) > Large THEN 10 ELSE IF UstbAmount(tr) > 0 THEN 1 ELSE 0)

Better(a, b) ==
  \/ Score(a) > Score(b)
  \/ Score(a) = Score(b) /\ UstbAmount(a) > UstbAmount(b)

\* The first after a stable sort.
Pick(tx) ==
  tx.events[CHOOSE k \in Candidates(tx) :
              \A j \in Candidates(tx) :
                /\ ~Better(tx.events[j], tx.events[k])
                /\ j < k => Better(tx.events[k], tx.events[j])]

Item(tx, kind, amount, counterparty) ==
  [txhash |-> tx.hash, height |-> tx.height, kind |-> kind,
   amountUstb |-> amount, counterparty |-> counterparty]

parseTxResult(tx) ==
  LET tr == Pick(tx)
  IN  IF Candidates(tx) = {} THEN Item(tx, "other", <<>>, <<>>)
      ELSE IF tr.sender = Me
      THEN Item(tx, "send", <<UstbPart(tr)>>, <<tr.recipient>>)
      ELSE Item(tx, "receive", <<UstbPart(tr)>>, <<tr.sender>>)

-----------------------------------------------------------------------------
(***************************************************************************)
(* fetchTxHistory.                                                         *)
(***************************************************************************)
Queries == {"in", "out"}
Matches(tx, q) ==
  IF q = "in" THEN \E k \in 1 .. Len(tx.events) : tx.events[k].recipient = Me
  ELSE Me \in tx.senders

\* The elements of S in an order given as a set of pairs.
Listed(S, order) ==
  [k \in 1 .. Cardinality(S) |->
     CHOOSE x \in S : Cardinality({y \in S : <<y, x>> \in order}) = k - 1]

\* The elements of s at these places in this order, the first Limit.
Page(s, places, order) ==
  LET l == Listed(places, order)
      n == Cardinality(places)
  IN  [k \in 1 .. (IF n < Limit THEN n ELSE Limit) |-> s[l[k]]]

\* The newest matches, the newest first.
Found(q) == {k \in 1 .. Len(chain) : Matches(chain[k], q)}
Latest == {p \in (1 .. Len(chain)) \X (1 .. Len(chain)) : p[1] > p[2]}
Search(q) == Page(chain, Found(q), Latest)

\* The first places of the hashes.
Dedup_None(txs) == 1 .. Len(txs)
Dedup(txs) ==
  {k \in 1 .. Len(txs) : \A j \in 1 .. Len(txs) :
                           txs[j].hash = txs[k].hash => k <= j}

Newer_Hash(x, y) == x.hash > y.hash
Newer(x, y) == x.height > y.height \/ (x.height = y.height /\ x.hash > y.hash)

\* The order of a stable sort.
Sorted(txs) ==
  {p \in (1 .. Len(txs)) \X (1 .. Len(txs)) :
     \/ Newer(txs[p[1]], txs[p[2]])
     \/ ~Newer(txs[p[2]], txs[p[1]]) /\ p[1] < p[2]}

\* Parsing keeps hash and height, the keys of the sort.
Merge(found) ==
  LET txs   == found["in"].txs \o found["out"].txs
      shown == Page(txs, Dedup(txs), Sorted(txs))
  IN  [k \in 1 .. Len(shown) |-> parseTxResult(shown[k])]

Pending == [len |-> -1, txs |-> <<>>]

Init ==
  /\ typed \in Typed
  /\ sent = 0
  /\ chain = <<>>
  /\ phase = "idle"
  /\ answers = [q \in Queries |-> Pending]
  /\ items = <<>>
  /\ begun = 0

\* The transactions of a block are indexed together: none is added to a block
\* that was the last one when the fetch began or a search was answered.
Height == IF chain = <<>> THEN 0 ELSE chain[Len(chain)].height
Sealed ==
  \E n \in {begun} \cup {answers[q].len : q \in Queries} :
    n > 0 /\ chain[n].height = Height

\* A transaction is executed, in the last block or in a new one; hashes are in
\* no order.
Execute(b, hash) ==
  \E height \in {Height, Height + 1} :
    /\ Len(chain) < MaxTxs(typed)
    /\ \A k \in 1 .. Len(chain) : chain[k].hash # hash
    /\ height = Height => chain # <<>> /\ ~Sealed
    /\ chain' = Append(chain, Tx(b, hash, height))
    /\ UNCHANGED <<typed, phase, answers, items, begun>>

Hashes == 1 .. MaxTxs(typed)

ExecuteOther ==
  /\ \E b \in Bodies, hash \in Hashes : Execute(b, hash)
  /\ UNCHANGED sent

\* handleSend refuses the empty text and "0".
HandleSend ==
  /\ sent = 0
  /\ parseStbToUstb(typed.text) \in Nat \ {0}
  /\ \E to \in {Me, "other"}, hash \in Hashes :
       Execute(SendBody(to), hash) /\ sent' = hash

Fetch ==
  /\ phase # "searching"
  /\ phase' = "searching"
  /\ begun' = Len(chain)
  /\ answers' = [q \in Queries |-> Pending]
  /\ UNCHANGED <<typed, sent, chain, items>>

Answer(q) ==
  /\ phase = "searching" /\ answers[q] = Pending
  /\ answers' = [answers EXCEPT ![q] = [len |-> Len(chain), txs |-> Search(q)]]
  /\ UNCHANGED <<typed, sent, chain, phase, items, begun>>

\* One search fails: the history shown before stays.
Reject(q) ==
  /\ phase = "searching" /\ answers[q] = Pending
  /\ phase' = "failed"
  /\ UNCHANGED <<typed, sent, chain, answers, items, begun>>

Show ==
  /\ phase = "searching" /\ \A q \in Queries : answers[q] # Pending
  /\ items' = Merge(answers)
  /\ phase' = "done"
  /\ UNCHANGED <<typed, sent, chain, answers, begun>>

Next ==
  \/ ExecuteOther
  \/ HandleSend
  \/ Fetch
  \/ \E q \in Queries : Answer(q) \/ Reject(q)
  \/ Show

Spec == Init /\ [][Next]_vars

-----------------------------------------------------------------------------
TxOf(item) == CHOOSE tx \in Range(chain) : tx.hash = item.txhash

\* The history is a list of at most Limit different transactions of the chain.
TypeOK ==
  /\ phase \in {"idle", "searching", "done", "failed"}
  /\ Len(items) <= Limit
  /\ \A k \in 1 .. Len(items) :
       /\ items[k].kind \in {"send", "receive", "other"}
       /\ \E tx \in Range(chain) :
            tx.hash = items[k].txhash /\ tx.height = items[k].height
  /\ \A j, k \in 1 .. Len(items) : items[j].txhash = items[k].txhash => j = k

\* No transaction that either query matched when the fetch began is missing
\* unless Limit others, none of an older block, are shown; newer blocks come
\* first.  It holds although the searches are answered at different moments
\* and each is cut before they are merged.
Newest ==
  phase = "done" =>
    /\ \A j, k \in 1 .. Len(items) : j < k => items[j].height >= items[k].height
    /\ \A i \in 1 .. begun :
         (\E q \in Queries : Matches(chain[i], q)) =>
           \/ \E k \in 1 .. Len(items) : items[k].txhash = chain[i].hash
           \/ Len(items) = Limit /\ items[Limit].height >= chain[i].height

\* Where a transaction moved ustb from or to the address by a message, the
\* history tells the largest of these transfers and never the fee.  A coin
\* whose denomination merely ends in ustb may be taken for ustb; such
\* transactions are left aside.
LargestShown ==
  \A k \in 1 .. Len(items) :
    LET tx    == TxOf(items[k])
        moved == {tr \in Range(tx.events) : tr.msg_index /\ IsCandidate(tr)}
        plain == \A tr \in Range(tx.events) :
                   \A c \in Range(tr.amount) : c.denom \in LikeUstb => c.denom = "ustb"
    IN  (moved # {} /\ plain) =>
          \E tr \in moved :
            /\ items[k].amountUstb = <<UstbPart(tr)>>
            /\ items[k].kind = (IF tr.sender = Me THEN "send" ELSE "receive")
            /\ items[k].counterparty =
                 <<IF tr.sender = Me THEN tr.recipient ELSE tr.sender>>
            /\ \A other \in moved : UstbAmount(other) <= UstbAmount(tr)

\* The amount shown for a transaction sent from the form is the amount typed,
\* and typing what is shown gives it again, as long as it is below the
\* precision of a double.
ShownAsTyped ==
  \A k \in 1 .. Len(items) :
    (items[k].txhash = sent /\ typed.means \in 0 .. Pow2[Precision] - 1) =>
      parseStbToUstb(formatUstb(items[k].amountUstb[1])) = typed.means
=============================================================================

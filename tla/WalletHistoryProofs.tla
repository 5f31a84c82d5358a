------------------------- MODULE WalletHistoryProofs -------------------------
(***************************************************************************)
(* Theorems of WalletHistory, for every length of the history, every set   *)
(* of transactions and every chain of them.                                *)
(*                                                                         *)
(* The argument: a page is the beginning of an enumeration of its places   *)
(* in a total order, so what a page leaves out comes after everything on   *)
(* a full page.  It is used for the two searches and again for the merge,  *)
(* where a transaction left out of a search has Limit newer ones, not all  *)
(* of which can come after it.  For the amounts: the digits written have   *)
(* the value they are read for, and below the precision of a double the    *)
(* floor of the quotient by Scale is exact, because no rounding crosses an *)
(* integer.                                                                *)
(***************************************************************************)
EXTENDS WalletHistory, FiniteSetTheorems, FunctionTheorems, FiniteSums

USE HistoryAssumption

-----------------------------------------------------------------------------
(***************************************************************************)
(* Orders and pages.                                                       *)
(***************************************************************************)
\* A strict total order of S.
Orders(order, S) ==
  /\ \A x \in S : <<x, x>> \notin order
  /\ \A x, y \in S : x # y => <<x, y>> \in order \/ <<y, x>> \in order
  /\ \A x, y, z \in S :
       <<x, y>> \in order /\ <<y, z>> \in order => <<x, z>> \in order

\* What comes earlier in an order has fewer elements before it.
LEMMA FewerBefore ==
  ASSUME NEW S, IsFiniteSet(S), NEW order, Orders(order, S),
         NEW x \in S, NEW y \in S, <<x, y>> \in order
  PROVE  Cardinality({z \in S : <<z, x>> \in order})
           < Cardinality({z \in S : <<z, y>> \in order})
<1> DEFINE X == {z \in S : <<z, x>> \in order}
           Y == {z \in S : <<z, y>> \in order}
<1>1. X \subseteq Y \ {x} /\ x \in Y
  BY DEF Orders
<1>2. IsFiniteSet(Y) /\ Cardinality(Y) \in Nat
  <2>1. Y \in SUBSET S
    OBVIOUS
  <2> QED BY <2>1, FS_Subset, FS_CardinalityType
<1>3. IsFiniteSet(Y \ {x}) /\ Cardinality(Y \ {x}) = Cardinality(Y) - 1
  BY <1>1, <1>2, FS_RemoveElement
<1>4. Cardinality(X) \in Nat /\ Cardinality(X) <= Cardinality(Y \ {x})
  BY <1>1, <1>3, FS_Subset, FS_CardinalityType
<1> HIDE DEF X, Y
<1>5. Cardinality(X) < Cardinality(Y)
  BY <1>2, <1>3, <1>4
<1> QED BY <1>5 DEF X, Y

\* The elements of a finite set are listed each once and in the order.
LEMMA ListedInOrder ==
  ASSUME NEW S, IsFiniteSet(S), NEW order, Orders(order, S)
  PROVE  /\ Cardinality(S) \in Nat
         /\ Listed(S, order) \in [1 .. Cardinality(S) -> S]
         /\ \A x \in S : \E k \in 1 .. Cardinality(S) : Listed(S, order)[k] = x
         /\ \A j, k \in 1 .. Cardinality(S) :
              j < k => <<Listed(S, order)[j], Listed(S, order)[k]>> \in order
<1> DEFINE n == Cardinality(S)
           B(x) == {z \in S : <<z, x>> \in order}
           r == [x \in S |-> Cardinality(B(x)) + 1]
           l == Listed(S, order)
<1>1. n \in Nat
  BY FS_CardinalityType
<1>2. ASSUME NEW x \in S PROVE Cardinality(B(x)) \in Nat /\ Cardinality(B(x)) <= n - 1
  <2>1. B(x) \in SUBSET (S \ {x})
    BY DEF Orders
  <2>2. IsFiniteSet(S \ {x}) /\ Cardinality(S \ {x}) = n - 1
    BY FS_RemoveElement
  <2> HIDE DEF B
  <2> QED BY <2>1, <2>2, FS_Subset, FS_CardinalityType
<1>3. r \in [S -> 1 .. n]
  <2> HIDE DEF B
  <2> QED BY <1>1, <1>2
<1>4. ASSUME NEW x \in S, NEW y \in S, <<x, y>> \in order PROVE r[x] < r[y]
  <2>1. Cardinality(B(x)) < Cardinality(B(y))
    BY <1>4, FewerBefore
  <2> HIDE DEF B
  <2> QED BY <1>2, <2>1
<1>5. r \in Injection(S, 1 .. n)
  <2>1. ASSUME NEW x \in S, NEW y \in S, r[x] = r[y] PROVE x = y
    <3>1. r[x] \in Int
      BY <1>3
    <3> HIDE DEF r
    <3>2. ~ (r[x] < r[y]) /\ ~ (r[y] < r[x])
      BY <2>1, <3>1
    <3> QED BY <1>4, <3>2 DEF Orders
  <2> HIDE DEF r
  <2> QED BY <1>3, <2>1 DEF Injection, IsInjective
<1>6. r \in Surjection(S, 1 .. n)
  <2>1. IsFiniteSet(1 .. n) /\ Cardinality(1 .. n) = n
    BY <1>1, FS_Interval
  <2> HIDE DEF r
  <2> QED BY <1>5, <2>1, FS_Injection
<1>7. ASSUME NEW k \in 1 .. n PROVE l[k] \in S /\ r[l[k]] = k
  <2>1. PICK x \in S : r[x] = k
    <3> HIDE DEF r
    <3> QED BY <1>6 DEF Surjection
  <2>2. x \in S /\ Cardinality(B(x)) = k - 1
    <3>1. r[x] = Cardinality(B(x)) + 1
      OBVIOUS
    <3> HIDE DEF r, B
    <3> QED BY <1>2, <2>1, <3>1
  <2>3. l[k] = CHOOSE y \in S : Cardinality(B(y)) = k - 1
    BY DEF Listed
  <2>4. l[k] \in S /\ Cardinality(B(l[k])) = k - 1
    <3> HIDE DEF B, l
    <3> QED BY <2>2, <2>3
  <2>5. r[l[k]] = Cardinality(B(l[k])) + 1
    <3> HIDE DEF l
    <3> QED BY <2>4
  <2> HIDE DEF r, B, l
  <2> QED BY <1>1, <2>4, <2>5
<1>8. l \in [1 .. n -> S]
  <2>1. l = [k \in 1 .. n |-> CHOOSE y \in S : Cardinality(B(y)) = k - 1]
    BY DEF Listed
  <2>2. ASSUME NEW k \in 1 .. n
        PROVE  l[k] = CHOOSE y \in S : Cardinality(B(y)) = k - 1
    BY DEF Listed
  <2>3. l = [k \in 1 .. n |-> l[k]]
    <3> HIDE DEF l, B, n
    <3> QED BY <2>1, <2>2
  <2> HIDE DEF l
  <2> QED BY <1>7, <2>3
<1> HIDE DEF r, l
<1>9. ASSUME NEW x \in S PROVE \E k \in 1 .. n : l[k] = x
  <2>1. r[x] \in 1 .. n
    BY <1>3
  <2>2. l[r[x]] \in S /\ r[l[r[x]]] = r[x]
    BY <1>7, <2>1
  <2>3. l[r[x]] = x
    BY <1>5, <2>2 DEF Injection, IsInjective
  <2> QED BY <2>1, <2>3
<1>10. ASSUME NEW j \in 1 .. n, NEW k \in 1 .. n, j < k
       PROVE  <<l[j], l[k]>> \in order
  <2>1. l[j] \in S /\ l[k] \in S /\ r[l[j]] = j /\ r[l[k]] = k
    BY <1>7
  <2>2. l[j] # l[k]
    BY <1>10, <2>1
  <2>3. <<l[k], l[j]>> \notin order
    <3>1. ~ (k < j)
      BY <1>10
    <3> QED BY <1>4, <2>1, <3>1
  <2> QED BY <2>1, <2>2, <2>3 DEF Orders
<1> QED BY <1>1, <1>8, <1>9, <1>10 DEF l

\* What page p, made of the places of s, shows and leaves out.
IsPage(p, s, places, order) ==
  /\ Len(p) \in 0 .. Limit
  /\ \E l \in [1 .. Len(p) -> places] :
       /\ p = [k \in 1 .. Len(p) |-> s[l[k]]]
       /\ \A j, k \in 1 .. Len(p) : j < k => <<l[j], l[k]>> \in order
       /\ \A i \in places :
            \/ \E k \in 1 .. Len(p) : l[k] = i
            \/ Len(p) = Limit /\ \A k \in 1 .. Limit : <<l[k], i>> \in order

\* A place that is not on the page comes after a full page.
LEMMA PageLemma ==
  ASSUME NEW s, NEW places, NEW order, IsFiniteSet(places), Orders(order, places)
  PROVE  IsPage(Page(s, places, order), s, places, order)
<1> DEFINE n == Cardinality(places)
           l == Listed(places, order)
           m == IF n < Limit THEN n ELSE Limit
           p == Page(s, places, order)
           g == [k \in 1 .. m |-> l[k]]
<1>1. /\ n \in Nat /\ l \in [1 .. n -> places]
      /\ \A x \in places : \E k \in 1 .. n : l[k] = x
      /\ \A j, k \in 1 .. n : j < k => <<l[j], l[k]>> \in order
  BY ListedInOrder
<1>2. p = [k \in 1 .. m |-> s[l[k]]]
  BY DEF Page
<1>3. m \in 0 .. Limit /\ m <= n
  <2> HIDE DEF n
  <2> QED BY <1>1
<1> HIDE DEF n, l, p
<1>4. Len(p) = m
  <2> HIDE DEF m
  <2> QED BY <1>2, <1>3
<1>5. g \in [1 .. m -> places] /\ p = [k \in 1 .. m |-> s[g[k]]]
  <2> HIDE DEF m
  <2> QED BY <1>1, <1>2, <1>3
<1>6. \A j, k \in 1 .. m : j < k => <<g[j], g[k]>> \in order
  <2> HIDE DEF m
  <2> QED BY <1>1, <1>3
<1>7. ASSUME NEW i \in places
      PROVE  \/ \E k \in 1 .. m : g[k] = i
             \/ m = Limit /\ \A k \in 1 .. Limit : <<g[k], i>> \in order
  <2>1. PICK k \in 1 .. n : l[k] = i
    BY <1>1
  <2>2. CASE k <= m
    <3>1. k \in 1 .. m
      BY <1>3, <2>2
    <3>2. g[k] = i
      BY <2>1, <3>1
    <3> QED BY <3>1, <3>2
  <2>3. CASE ~ (k <= m)
    <3>1. m = Limit
      BY <1>1, <2>3
    <3>2. ASSUME NEW j \in 1 .. Limit PROVE <<g[j], i>> \in order
      <4>1. j \in 1 .. n /\ j < k /\ g[j] = l[j]
        BY <1>1, <1>3, <2>3, <3>1
      <4> QED BY <1>1, <2>1, <4>1
    <3> QED BY <3>1, <3>2
  <2> QED BY <2>2, <2>3
<1> HIDE DEF m, g
<1>8. IsPage(p, s, places, order)
  <2>1. Len(p) \in 0 .. Limit
    BY <1>3, <1>4
  <2>2. \A i \in places :
          \/ \E k \in 1 .. Len(p) : g[k] = i
          \/ Len(p) = Limit /\ \A h \in 1 .. Limit : <<g[h], i>> \in order
    BY <1>4, <1>7
  <2>3. /\ g \in [1 .. Len(p) -> places] /\ p = [k \in 1 .. Len(p) |-> s[g[k]]]
        /\ \A j, k \in 1 .. Len(p) : j < k => <<g[j], g[k]>> \in order
    BY <1>4, <1>5, <1>6
  <2> QED BY ONLY <2>1, <2>2, <2>3 DEF IsPage
<1> QED BY <1>8 DEF p
-----------------------------------------------------------------------------
(***************************************************************************)
(* The inductive invariant.                                                *)
(***************************************************************************)
IsSeq(s) == s \in Seq(Range(s))

AreCoins(cs) == IsSeq(cs) /\ \A c \in Range(cs) : c.n \in Nat

IsTransfer(tr) ==
  /\ AreCoins(tr.amount)
  /\ tr.msg_index \in BOOLEAN

IsTx(tx) ==
  /\ tx.hash \in Nat /\ tx.height \in Nat
  /\ IsSeq(tx.events)
  /\ \A tr \in Range(tx.events) : IsTransfer(tr)

\* Hashes differ, heights grow.
ChainOK ==
  /\ IsSeq(chain)
  /\ \A i \in 1 .. Len(chain) : IsTx(chain[i])
  /\ \A i, j \in 1 .. Len(chain) : chain[i].hash = chain[j].hash => i = j
  /\ \A i, j \in 1 .. Len(chain) : i <= j => chain[i].height <= chain[j].height
  /\ begun \in 0 .. Len(chain)

\* An answer a to the query q was found on a chain of at least `begun'
\* transactions: what it lacks is older than all it has, and it is full.
IsAnswer(q, a) ==
  /\ a.len \in begun .. Len(chain)
  /\ IsSeq(a.txs) /\ Len(a.txs) <= Limit
  /\ \A k \in 1 .. Len(a.txs) : \E i \in 1 .. Len(chain) : a.txs[k] = chain[i]
  /\ \A j, k \in 1 .. Len(a.txs) : a.txs[j] = a.txs[k] => j = k
  /\ \A i \in 1 .. begun :
       Matches(chain[i], q) =>
         \/ \E k \in 1 .. Len(a.txs) : a.txs[k] = chain[i]
         \/ /\ Len(a.txs) = Limit
            /\ \A k \in 1 .. Limit : a.txs[k].height >= chain[i].height

AnswersOK ==
  /\ DOMAIN answers = Queries
  /\ \A q \in Queries : answers[q] = Pending \/ IsAnswer(q, answers[q])

\* The items are of different transactions of the chain.
AreItems(its) ==
  /\ IsSeq(its) /\ Len(its) <= Limit
  /\ \A k \in 1 .. Len(its) :
       \E i \in 1 .. Len(chain) : its[k] = parseTxResult(chain[i])
  /\ \A j, k \in 1 .. Len(its) : its[j].txhash = its[k].txhash => j = k

\* The body of Newest.
AreNewest(its) ==
  /\ \A j, k \in 1 .. Len(its) : j < k => its[j].height >= its[k].height
  /\ \A i \in 1 .. begun :
       (\E q \in Queries : Matches(chain[i], q)) =>
         \/ \E k \in 1 .. Len(its) : its[k].txhash = chain[i].hash
         \/ Len(its) = Limit /\ its[Limit].height >= chain[i].height

HistoryInv ==
  /\ phase \in {"idle", "searching", "done", "failed"}
  /\ ChainOK
  /\ AnswersOK
  /\ AreItems(items)
  /\ phase = "done" => AreNewest(items)

-----------------------------------------------------------------------------
(***************************************************************************)
(* Sequences.                                                              *)
(***************************************************************************)
\* What a sequence consists of.
LEMMA SeqParts ==
  ASSUME NEW s, IsSeq(s)
  PROVE  /\ Len(s) \in Nat /\ DOMAIN s = 1 .. Len(s)
         /\ s = [k \in 1 .. Len(s) |-> s[k]]
         /\ \A k \in 1 .. Len(s) : s[k] \in Range(s)
         /\ \A x \in Range(s) : \E k \in 1 .. Len(s) : s[k] = x
BY DEF IsSeq, Range

\* A function on 1 .. n is a sequence of length n.
LEMMA SeqMade ==
  ASSUME NEW n \in Nat, NEW s, s = [k \in 1 .. n |-> s[k]]
  PROVE  IsSeq(s) /\ Len(s) = n
<1>1. DOMAIN s = 1 .. n
  OBVIOUS
<1>2. s \in [1 .. n -> Range(s)]
  BY <1>1 DEF Range
<1>3. s \in Seq(Range(s))
  BY <1>2
<1> QED BY <1>1, <1>3 DEF IsSeq

\* A sequence of elements of some set is a sequence.
LEMMA SeqTyped == \A S : \A s \in Seq(S) : IsSeq(s)
<1> SUFFICES ASSUME NEW S, NEW s \in Seq(S) PROVE IsSeq(s)
  OBVIOUS
<1>1. Len(s) \in Nat /\ s \in [1 .. Len(s) -> S]
  OBVIOUS
<1>2. s \in [1 .. Len(s) -> Range(s)]
  BY <1>1 DEF Range
<1>3. s \in Seq(Range(s))
  BY <1>1, <1>2
<1> QED BY <1>3 DEF IsSeq

\* One more element, at the end.
LEMMA SeqAppended ==
  ASSUME NEW s, IsSeq(s), NEW x
  PROVE  /\ IsSeq(Append(s, x)) /\ Len(Append(s, x)) = Len(s) + 1
         /\ Append(s, x)[Len(s) + 1] = x
         /\ \A k \in 1 .. Len(s) : Append(s, x)[k] = s[k]
<1> DEFINE t == Append(s, x)
<1>1. s \in Seq(Range(s) \cup {x})
  BY DEF IsSeq
<1>2. /\ t \in Seq(Range(s) \cup {x}) /\ Len(t) = Len(s) + 1
      /\ t[Len(s) + 1] = x /\ \A k \in 1 .. Len(s) : t[k] = s[k]
  BY <1>1
<1>3. IsSeq(t)
  <2> HIDE DEF t
  <2> QED BY <1>2, SeqTyped
<1> QED BY <1>2, <1>3

\* The elements of a joined sequence, first those of the one, then of the other.
LEMMA SeqJoined ==
  ASSUME NEW s, NEW t, IsSeq(s), IsSeq(t)
  PROVE  /\ IsSeq(s \o t) /\ Len(s \o t) = Len(s) + Len(t)
         /\ \A k \in 1 .. Len(s) : (s \o t)[k] = s[k]
         /\ \A k \in 1 .. Len(t) : (s \o t)[Len(s) + k] = t[k]
<1> DEFINE u == s \o t
           S == Range(s) \cup Range(t)
<1>1. s \in Seq(S) /\ t \in Seq(S)
  BY DEF IsSeq
<1>2. u \in Seq(S) /\ Len(u) = Len(s) + Len(t)
  BY <1>1
<1>3. /\ \A k \in 1 .. Len(s) : u[k] = s[k]
      /\ \A k \in 1 .. Len(t) : u[Len(s) + k] = t[k]
  <2> HIDE DEF S
  <2> QED BY <1>1
<1>4. IsSeq(u)
  <2> HIDE DEF u
  <2> QED BY <1>2, SeqTyped
<1> QED BY <1>2, <1>3, <1>4

\* Every element of the joined sequence is one of the two.
LEMMA SeqJoinedFrom ==
  ASSUME NEW s, NEW t, IsSeq(s), IsSeq(t), NEW k \in 1 .. Len(s \o t)
  PROVE  \/ \E j \in 1 .. Len(s) : (s \o t)[k] = s[j]
         \/ \E j \in 1 .. Len(t) : (s \o t)[k] = t[j]
<1>1. Len(s) \in Nat /\ Len(t) \in Nat /\ Len(s \o t) = Len(s) + Len(t)
  BY SeqParts, SeqJoined
<1>2. CASE k <= Len(s)
  BY <1>1, <1>2, SeqJoined
<1>3. CASE ~ (k <= Len(s))
  <2>1. k - Len(s) \in 1 .. Len(t) /\ Len(s) + (k - Len(s)) = k
    BY <1>1, <1>3
  <2>2. (s \o t)[Len(s) + (k - Len(s))] = t[k - Len(s)]
    BY <2>1, SeqJoined
  <2> QED BY <2>1, <2>2
<1> QED BY <1>2, <1>3

\* A set of naturals with an element has a least one.
LEMMA LeastOf ==
  ASSUME NEW S \in SUBSET Nat, S # {}
  PROVE  \E m \in S : \A k \in S : m <= k
<1> DEFINE R == {p \in Nat \X Nat : p[1] < p[2]}
<1>1. IsWellFoundedOn(R, Nat)
  BY NatLessThanWellFounded DEF OpToRel
<1>2. PICK m \in S : \A y \in S : ~ (<<y, m>> \in R)
  <2> HIDE DEF R
  <2> QED BY <1>1, WFMin
<1>3. ASSUME NEW k \in S PROVE m <= k
  <2>1. k \in Nat /\ m \in Nat /\ ~ (<<k, m>> \in R)
    BY <1>2
  <2> QED BY <2>1
<1> QED BY <1>3

-----------------------------------------------------------------------------
(***************************************************************************)
(* Transactions and what is shown of them.                                 *)
(***************************************************************************)
\* A transaction of another client or of the form.
IsBody(b) ==
  /\ b.fee \in Nat /\ b.ok \in BOOLEAN
  /\ IsSeq(b.moves)
  /\ \A m \in Range(b.moves) : AreCoins(m[3])

\* The transactions of other clients are well formed, by HistoryAssumption.
LEMMA BodiesAre == \A b \in Bodies : IsBody(b)
BY DEF IsBody, IsSeq, AreCoins

\* Sequences of one element.
LEMMA OneIsSeq == \A x : IsSeq(<<x>>) /\ Range(<<x>>) = {x}
<1> SUFFICES ASSUME NEW x PROVE IsSeq(<<x>>) /\ Range(<<x>>) = {x}
  OBVIOUS
<1>1. <<x>> \in Seq({x})
  OBVIOUS
<1>2. Range(<<x>>) = {x}
  BY DEF Range
<1> QED BY <1>1, <1>2, SeqTyped

\* The empty sequence.
LEMMA NoneIsSeq == IsSeq(<<>>) /\ Len(<<>>) = 0
<1>1. <<>> \in Seq({}) /\ Len(<<>>) = 0
  OBVIOUS
<1> QED BY <1>1, SeqTyped

\* So is the one sent from the form, once the amount typed is a number.
LEMMA SendIsBody ==
  ASSUME NEW to, parseStbToUstb(typed.text) \in Nat
  PROVE  IsBody(SendBody(to))
<1>1. PICK n \in Nat : n = parseStbToUstb(typed.text)
  OBVIOUS
<1> DEFINE c == Coin("ustb", n)
           m == <<Me, to, <<c>>>>
<1>2. /\ SendBody(to).fee = Fee /\ SendBody(to).ok = TRUE
      /\ SendBody(to).moves = <<m>>
  BY <1>1 DEF SendBody
<1>3. c.n \in Nat
  BY DEF Coin
<1>4. m[3] = <<c>>
  <2> HIDE DEF c
  <2> QED OBVIOUS
<1> HIDE DEF m, c
<1>5. AreCoins(<<c>>)
  BY <1>3, OneIsSeq DEF AreCoins
<1>6. IsSeq(<<m>>) /\ Range(<<m>>) = {m}
  BY OneIsSeq
<1>7. SendBody(to).fee \in Nat /\ SendBody(to).ok \in BOOLEAN
  BY <1>2
<1>8. IsSeq(SendBody(to).moves) /\ \A x \in Range(SendBody(to).moves) : AreCoins(x[3])
  <2>1. AreCoins(m[3])
    BY <1>4, <1>5
  <2>2. SendBody(to).moves = <<m>>
    BY <1>2
  <2> QED BY <1>6, <2>1, <2>2
<1> QED BY <1>7, <1>8 DEF IsBody

\* The fee is a transfer like those of the messages.
LEMMA TransfersAre ==
  ASSUME NEW b, IsBody(b)
  PROVE  IsSeq(Transfers(b)) /\ \A tr \in Range(Transfers(b)) : IsTransfer(tr)
<1> DEFINE c == Coin("ustb", b.fee)
           fee == Transfer(b.signer, FeeCollector, <<c>>, FALSE)
           move(k) == Transfer(b.moves[k][1], b.moves[k][2], b.moves[k][3], TRUE)
           F == IF b.fee = 0 THEN <<>> ELSE <<fee>>
           M == IF b.ok THEN [k \in 1 .. Len(b.moves) |-> move(k)] ELSE <<>>
<1>1. IsTransfer(fee)
  <2>1. c.n \in Nat
    BY DEF Coin, IsBody
  <2>2. fee.amount = <<c>> /\ fee.msg_index = FALSE
    BY DEF Transfer
  <2> HIDE DEF c, fee
  <2>3. AreCoins(<<c>>)
    BY <2>1, OneIsSeq DEF AreCoins
  <2> QED BY <2>2, <2>3 DEF IsTransfer
<1>2. ASSUME NEW k \in 1 .. Len(b.moves) PROVE IsTransfer(move(k))
  <2>1. b.moves[k] \in Range(b.moves)
    BY SeqParts DEF IsBody
  <2>2. AreCoins(b.moves[k][3])
    BY <2>1 DEF IsBody
  <2>3. move(k).amount = b.moves[k][3] /\ move(k).msg_index = TRUE
    BY DEF Transfer
  <2> QED BY <2>2, <2>3 DEF IsTransfer
<1> HIDE DEF fee, move
<1>4. IsSeq(F) /\ \A x \in Range(F) : IsTransfer(x)
  <2>1. IsSeq(<<fee>>) /\ Range(<<fee>>) = {fee} /\ Range(<<>>) = {}
    BY OneIsSeq DEF Range
  <2> QED BY <1>1, <2>1, NoneIsSeq
<1>5. IsSeq(M) /\ \A x \in Range(M) : IsTransfer(x)
  <2>1. CASE b.ok
    <3>1. Len(b.moves) \in Nat
      BY SeqParts DEF IsBody
    <3>2. M = [k \in 1 .. Len(b.moves) |-> M[k]]
      BY <2>1
    <3>3. \A k \in 1 .. Len(b.moves) : IsTransfer(M[k])
      BY <1>2, <2>1
    <3> HIDE DEF M
    <3>4. IsSeq(M) /\ Len(M) = Len(b.moves)
      BY <3>1, <3>2, SeqMade
    <3> QED BY <3>3, <3>4, SeqParts
  <2>2. CASE ~ b.ok
    <3>1. M = <<>> /\ Range(<<>>) = {}
      BY <2>2 DEF Range
    <3> HIDE DEF M
    <3> QED BY <3>1, NoneIsSeq
  <2> QED BY <2>1, <2>2
<1>6. Transfers(b) = F \o M
  BY DEF Transfers, fee, move
<1> HIDE DEF F, M
<1>7. IsSeq(F \o M)
  BY <1>4, <1>5, SeqJoined
<1>8. ASSUME NEW k \in 1 .. Len(F \o M) PROVE IsTransfer((F \o M)[k])
  <2>1. /\ \A j \in 1 .. Len(F) : IsTransfer(F[j])
        /\ \A j \in 1 .. Len(M) : IsTransfer(M[j])
    BY <1>4, <1>5, SeqParts
  <2> QED BY <1>4, <1>5, <2>1, SeqJoinedFrom
<1>9. ASSUME NEW x \in Range(F \o M) PROVE IsTransfer(x)
  <2>1. PICK k \in 1 .. Len(F \o M) : (F \o M)[k] = x
    BY <1>7, SeqParts
  <2> QED BY <1>8, <2>1
<1> QED BY <1>6, <1>7, <1>9

\* The first ustb part is one of them.
LEMMA UstbPartIs ==
  ASSUME NEW tr, IsTransfer(tr), UstbPlaces(tr) # {}
  PROVE  UstbAmount(tr) \in Nat
<1> DEFINE least(k) == \A j \in UstbPlaces(tr) : k <= j
<1>1. Len(tr.amount) \in Nat
  BY SeqParts DEF IsTransfer, AreCoins
<1>2. UstbPlaces(tr) \in SUBSET Nat
  BY <1>1 DEF UstbPlaces
<1>3. \E k \in UstbPlaces(tr) : least(k)
  BY <1>2, LeastOf
<1>4. PICK k \in UstbPlaces(tr) : UstbPart(tr) = tr.amount[k]
  BY <1>3 DEF UstbPart
<1>5. UstbPart(tr) \in Range(tr.amount)
  BY <1>4, SeqParts DEF UstbPlaces, IsTransfer, AreCoins
<1>6. UstbPart(tr).n \in Nat
  BY <1>5 DEF IsTransfer, AreCoins
<1> QED BY <1>6 DEF UstbAmount

\* The pick is a candidate no other is better than.
LEMMA PickIs ==
  ASSUME NEW tx, IsTx(tx), Candidates(tx) # {}
  PROVE  \E k \in Candidates(tx) :
           /\ Pick(tx) = tx.events[k]
           /\ \A j \in Candidates(tx) : ~ Better(tx.events[j], Pick(tx))
<1> DEFINE C == Candidates(tx)
           e == tx.events
           s == [k \in C |-> Score(e[k])]
           a == [k \in C |-> UstbAmount(e[k])]
           better(j, k) == s[j] > s[k] \/ (s[j] = s[k] /\ a[j] > a[k])
           order == {p \in C \X C : \/ better(p[1], p[2])
                                    \/ ~better(p[2], p[1]) /\ p[1] < p[2]}
<1>1. C \in SUBSET Nat /\ IsFiniteSet(C)
  <2>1. Len(e) \in Nat
    BY SeqParts DEF IsTx
  <2>2. C \in SUBSET (1 .. Len(e)) /\ C \in SUBSET Nat
    BY <2>1 DEF Candidates
  <2>3. IsFiniteSet(1 .. Len(e))
    BY <2>1, FS_Interval
  <2> HIDE DEF C
  <2> QED BY <2>2, <2>3, FS_Subset
<1>2. ASSUME NEW k \in C PROVE s[k] \in Int /\ a[k] \in Int
  <2>1. IsTransfer(e[k]) /\ UstbPlaces(e[k]) # {}
    <3>1. k \in 1 .. Len(e) /\ IsCandidate(e[k])
      BY DEF Candidates
    <3>2. e[k] \in Range(e)
      BY <3>1, SeqParts DEF IsTx
    <3> QED BY <3>1, <3>2 DEF IsTx, IsCandidate
  <2>2. UstbAmount(e[k]) \in Nat
    BY <2>1, UstbPartIs
  <2>3. Score(e[k]) \in Int
    BY <2>2 DEF Score
  <2> QED BY <2>2, <2>3
<1>3. \A j, k \in C : Better(e[j], e[k]) <=> better(j, k)
  BY DEF Better
<1> HIDE DEF C, s, a
<1>4. Orders(order, C)
  <2>1. \A x \in C : <<x, x>> \notin order
    BY <1>1, <1>2
  <2>2. \A x, y \in C : x # y => <<x, y>> \in order \/ <<y, x>> \in order
    BY <1>1, <1>2
  <2>3. \A x, y, z \in C :
          <<x, y>> \in order /\ <<y, z>> \in order => <<x, z>> \in order
    BY <1>1, <1>2
  <2> HIDE DEF order
  <2> QED BY <2>1, <2>2, <2>3 DEF Orders
<1>5. PICK k \in C : \A j \in C : j # k => <<k, j>> \in order
  <2> DEFINE l == Listed(C, order)
             n == Cardinality(C)
  <2> HIDE DEF order
  <2>1. /\ n \in Nat /\ l \in [1 .. n -> C]
        /\ \A x \in C : \E i \in 1 .. n : l[i] = x
        /\ \A i, j \in 1 .. n : i < j => <<l[i], l[j]>> \in order
    <3>1. IsFiniteSet(C)
      BY <1>1
    <3> QED BY ONLY <3>1, <1>4, ListedInOrder
  <2> HIDE DEF l, n
  <2>2. PICK c \in C : TRUE
    BY DEF C
  <2>3. 1 \in 1 .. n
    BY <2>1, <2>2
  <2>4. ASSUME NEW j \in C, j # l[1] PROVE <<l[1], j>> \in order
    <3>1. PICK i \in 1 .. n : l[i] = j
      BY <2>1
    <3>2. 1 < i
      BY <2>1, <2>4, <3>1
    <3> QED BY <2>1, <2>3, <3>1, <3>2
  <2> QED BY <2>1, <2>3, <2>4
<1> DEFINE first(i) == \A j \in C : /\ ~Better(e[j], e[i])
                                    /\ j < i => Better(e[i], e[j])
<1>6. first(k)
  <2>1. ASSUME NEW j \in C PROVE ~better(j, k) /\ (j < k => better(k, j))
    <3>1. CASE j = k
      BY <1>1, <1>2, <3>1
    <3>2. CASE j # k
      <4>1. better(k, j) \/ (~better(j, k) /\ k < j)
        BY <1>5, <3>2
      <4> QED BY <1>1, <1>2, <4>1
    <3> QED BY <3>1, <3>2
  <2> QED BY <1>3, <2>1
<1>7. Pick(tx) = e[CHOOSE i \in C : first(i)]
  BY DEF Pick, C
<1>8. PICK i \in C : Pick(tx) = e[i] /\ first(i)
  <2> HIDE DEF first
  <2> QED BY <1>6, <1>7
<1> QED BY <1>8 DEF C

\* Parsing keeps hash and height.
LEMMA ParseKeys ==
  ASSUME NEW tx
  PROVE  /\ parseTxResult(tx).txhash = tx.hash
         /\ parseTxResult(tx).height = tx.height
         /\ parseTxResult(tx).kind \in {"send", "receive", "other"}
BY DEF parseTxResult, Item

\* The transfers of ustb by messages from or to the address.
Moved(tx) == {tr \in Range(tx.events) : tr.msg_index /\ IsCandidate(tr)}

\* The pick is the largest of the transfers by messages, if there are any: the
\* index of a message weighs more than any amount.
LEMMA LargestPicked ==
  ASSUME NEW tx, IsTx(tx), Moved(tx) # {}
  PROVE  /\ Candidates(tx) # {} /\ Pick(tx) \in Moved(tx)
         /\ \A other \in Moved(tx) : UstbAmount(other) <= UstbAmount(Pick(tx))
<1>1. ASSUME NEW tr \in Moved(tx)
      PROVE  \E k \in Candidates(tx) : tx.events[k] = tr
  BY SeqParts DEF Moved, Candidates, IsTx
<1>2. Candidates(tx) # {}
  BY <1>1
<1>3. PICK p : p = Pick(tx)
  OBVIOUS
<1>4. PICK k \in Candidates(tx) : p = tx.events[k]
  BY <1>2, <1>3, PickIs
<1>5. \A j \in Candidates(tx) : ~ Better(tx.events[j], p)
  BY <1>2, <1>3, PickIs
<1>6. p \in Range(tx.events) /\ IsCandidate(p)
  BY <1>4, SeqParts DEF Candidates, IsTx
<1>7. ASSUME NEW tr \in Range(tx.events), IsCandidate(tr)
      PROVE  tr.msg_index \in BOOLEAN /\ UstbAmount(tr) \in Nat
  <2>1. IsTransfer(tr)
    BY DEF IsTx
  <2>2. UstbPlaces(tr) # {}
    BY <1>7 DEF IsCandidate
  <2> QED BY <2>1, <2>2, UstbPartIs DEF IsTransfer
<1>8. ASSUME NEW tr \in Moved(tx)
      PROVE  p.msg_index /\ UstbAmount(tr) <= UstbAmount(p)
  <2>1. ~ Better(tr, p)
    BY <1>1, <1>5
  <2>2. tr.msg_index = TRUE /\ UstbAmount(tr) \in Nat
    BY <1>7 DEF Moved
  <2>3. p.msg_index \in BOOLEAN /\ UstbAmount(p) \in Nat
    BY <1>6, <1>7
  <2>4. PICK a, b : a = UstbAmount(tr) /\ b = UstbAmount(p)
    OBVIOUS
  <2>5. Score(tr) = 1000 + (IF a > Large THEN 10 ELSE IF a > 0 THEN 1 ELSE 0)
    BY <2>2, <2>4 DEF Score
  <2>6. Score(p) = (IF p.msg_index THEN 1000 ELSE 0)
                     + (IF b > Large THEN 10 ELSE IF b > 0 THEN 1 ELSE 0)
    BY <2>4 DEF Score
  <2>7. ~ (Score(tr) > Score(p)) /\ ~ (Score(tr) = Score(p) /\ a > b)
    BY <2>1, <2>4 DEF Better
  <2>8. a \in Nat /\ b \in Nat
    BY <2>2, <2>3, <2>4
  <2>9. p.msg_index
    BY <2>3, <2>5, <2>6, <2>7, <2>8
  <2>10. a <= b
    BY <2>5, <2>6, <2>7, <2>8, <2>9
  <2> QED BY <2>4, <2>9, <2>10
<1>9. p \in Moved(tx)
  BY <1>6, <1>8 DEF Moved
<1> QED BY <1>2, <1>3, <1>8, <1>9

-----------------------------------------------------------------------------
(***************************************************************************)
(* Searches and their merge.                                               *)
(***************************************************************************)
\* The places of a page are different.
LEMMA PageInjective ==
  ASSUME NEW S, NEW order, Orders(order, S), NEW n \in Nat, NEW l \in [1 .. n -> S],
         \A j, k \in 1 .. n : j < k => <<l[j], l[k]>> \in order,
         NEW j \in 1 .. n, NEW k \in 1 .. n, l[j] = l[k]
  PROVE  j = k
<1>1. <<l[j], l[k]>> \notin order /\ <<l[k], l[j]>> \notin order
  BY DEF Orders
<1>2. ~ (j < k) /\ ~ (k < j)
  BY <1>1
<1> QED BY <1>2

\* A search answers with what IsAnswer says.
LEMMA SearchAnswers ==
  ASSUME ChainOK, NEW q \in Queries
  PROVE  IsAnswer(q, [len |-> Len(chain), txs |-> Search(q)])
<1> DEFINE n == Len(chain)
           F == Found(q)
           p == Search(q)
<1>1. n \in Nat /\ begun \in 0 .. n
  BY SeqParts DEF ChainOK
<1>2. F \in SUBSET (1 .. n) /\ IsFiniteSet(F)
  <2>1. F \in SUBSET (1 .. n)
    BY DEF Found
  <2>2. IsFiniteSet(1 .. n)
    BY <1>1, FS_Interval
  <2> HIDE DEF F
  <2> QED BY <2>1, <2>2, FS_Subset
<1>3. Orders(Latest, F)
  BY <1>1, <1>2 DEF Orders, Latest
<1>4. IsPage(p, chain, F, Latest)
  <2> HIDE DEF F
  <2> QED BY <1>2, <1>3, PageLemma DEF Search, F
<1> HIDE DEF p, F
<1>5. PICK l \in [1 .. Len(p) -> F] :
        /\ p = [k \in 1 .. Len(p) |-> chain[l[k]]]
        /\ \A j, k \in 1 .. Len(p) : j < k => <<l[j], l[k]>> \in Latest
        /\ \A i \in F :
             \/ \E k \in 1 .. Len(p) : l[k] = i
             \/ Len(p) = Limit /\ \A k \in 1 .. Limit : <<l[k], i>> \in Latest
  BY <1>4 DEF IsPage
<1>6. Len(p) \in Nat /\ Len(p) <= Limit
  <2>1. Len(p) \in 0 .. Limit
    BY <1>4 DEF IsPage
  <2> QED BY <2>1
<1>7. IsSeq(p)
  <2>1. PICK m \in Nat : m = Len(p)
    BY <1>6
  <2>2. p = [k \in 1 .. m |-> p[k]]
    BY <1>5, <2>1
  <2> QED BY <2>2, SeqMade
<1>8. \A k \in 1 .. Len(p) : l[k] \in 1 .. n /\ p[k] = chain[l[k]]
  BY <1>2, <1>5
<1>9. ASSUME NEW j \in 1 .. Len(p), NEW k \in 1 .. Len(p), p[j] = p[k] PROVE j = k
  <2>1. l[j] = l[k]
    BY <1>8, <1>9 DEF ChainOK
  <2>2. PICK m \in Nat : m = Len(p)
    BY <1>6
  <2>3. /\ j \in 1 .. m /\ k \in 1 .. m /\ l \in [1 .. m -> F]
        /\ \A i, h \in 1 .. m : i < h => <<l[i], l[h]>> \in Latest
    BY <1>5, <2>2
  <2> QED BY ONLY <1>3, <2>1, <2>3, PageInjective
<1>10. ASSUME NEW i \in 1 .. begun, Matches(chain[i], q)
       PROVE  \/ \E k \in 1 .. Len(p) : p[k] = chain[i]
              \/ Len(p) = Limit /\ \A k \in 1 .. Limit : p[k].height >= chain[i].height
  <2>1. i \in F /\ i \in 1 .. n
    BY <1>1, <1>10 DEF F, Found
  <2>2. CASE \E k \in 1 .. Len(p) : l[k] = i
    BY <1>8, <2>2
  <2>3. CASE Len(p) = Limit /\ \A k \in 1 .. Limit : <<l[k], i>> \in Latest
    <3>1. ASSUME NEW k \in 1 .. Limit PROVE p[k].height >= chain[i].height
      <4>1. l[k] \in 1 .. n /\ p[k] = chain[l[k]] /\ l[k] > i
        BY <1>8, <2>3 DEF Latest
      <4>2. chain[i].height <= chain[l[k]].height
        BY <2>1, <4>1 DEF ChainOK
      <4>3. chain[i].height \in Nat /\ chain[l[k]].height \in Nat
        BY <2>1, <4>1 DEF ChainOK, IsTx
      <4> QED BY <4>1, <4>2, <4>3
    <3> QED BY <2>3, <3>1
  <2> QED BY <1>5, <2>1, <2>2, <2>3
<1>11. IsAnswer(q, [len |-> n, txs |-> p])
  <2>1. PICK a : a = [len |-> n, txs |-> p]
    OBVIOUS
  <2>2. a.len = n /\ a.txs = p
    BY <2>1
  <2>3. n \in begun .. n
    BY <1>1
  <2>4. \A k \in 1 .. Len(p) : \E i \in 1 .. n : p[k] = chain[i]
    BY <1>8
  <2> QED BY <1>6, <1>7, <1>9, <1>10, <2>1, <2>2, <2>3, <2>4 DEF IsAnswer
<1> QED BY <1>11 DEF p

\* A page that shows Limit places is full, and its last place is one of them.
LEMMA FullPage ==
  ASSUME NEW S, NEW n \in 0 .. Limit, NEW l \in [1 .. n -> S],
         NEW f \in Injection(1 .. Limit, S),
         \A m \in 1 .. Limit : \E k \in 1 .. n : l[k] = f[m]
  PROVE  n = Limit /\ \E m \in 1 .. Limit : f[m] = l[Limit]
<1> DEFINE g == [m \in 1 .. Limit |-> CHOOSE k \in 1 .. n : l[k] = f[m]]
<1>1. ASSUME NEW m \in 1 .. Limit PROVE g[m] \in 1 .. n /\ l[g[m]] = f[m]
  <2>1. \E k \in 1 .. n : l[k] = f[m]
    OBVIOUS
  <2>2. g[m] = CHOOSE k \in 1 .. n : l[k] = f[m]
    OBVIOUS
  <2> HIDE DEF g
  <2> QED BY <2>1, <2>2
<1>2. g \in [1 .. Limit -> 1 .. n]
  BY <1>1
<1> HIDE DEF g
<1>3. g \in Injection(1 .. Limit, 1 .. n)
  <2>1. ASSUME NEW j \in 1 .. Limit, NEW k \in 1 .. Limit, g[j] = g[k] PROVE j = k
    <3>1. f[j] = f[k]
      BY <1>1, <2>1
    <3> QED BY <3>1 DEF Injection, IsInjective
  <2> QED BY <1>2, <2>1 DEF Injection, IsInjective
<1>4. /\ IsFiniteSet(1 .. n) /\ Cardinality(1 .. n) = n
      /\ Cardinality(1 .. Limit) = Limit
  <2>1. n \in Nat
    OBVIOUS
  <2> QED BY <2>1, FS_Interval
<1>5. Limit <= n /\ (Limit = n <=> g \in Surjection(1 .. Limit, 1 .. n))
  BY <1>3, <1>4, FS_Injection
<1>6. n = Limit
  BY <1>5
<1>7. PICK m \in 1 .. Limit : g[m] = Limit
  BY <1>5, <1>6 DEF Surjection
<1>8. f[m] = l[Limit]
  BY <1>1, <1>7
<1> QED BY <1>6, <1>8

\* Each hash has one first place.
LEMMA FirstPlaces ==
  ASSUME NEW txs, IsSeq(txs)
  PROVE  /\ Dedup(txs) \in SUBSET (1 .. Len(txs)) /\ IsFiniteSet(Dedup(txs))
         /\ \A d, e \in Dedup(txs) : txs[d].hash = txs[e].hash => d = e
         /\ \A k \in 1 .. Len(txs) : \E d \in Dedup(txs) : txs[d].hash = txs[k].hash
<1>1. Len(txs) \in Nat
  BY SeqParts
<1>2. Dedup(txs) \in SUBSET (1 .. Len(txs))
  BY DEF Dedup
<1>3. IsFiniteSet(Dedup(txs))
  <2>1. IsFiniteSet(1 .. Len(txs))
    BY <1>1, FS_Interval
  <2> QED BY <1>2, <2>1, FS_Subset
<1>4. ASSUME NEW d \in Dedup(txs), NEW e \in Dedup(txs), txs[d].hash = txs[e].hash
      PROVE  d = e
  <2>1. d <= e /\ e <= d /\ d \in Nat /\ e \in Nat
    BY <1>1, <1>4 DEF Dedup
  <2> QED BY <2>1
<1>5. ASSUME NEW k \in 1 .. Len(txs)
      PROVE  \E d \in Dedup(txs) : txs[d].hash = txs[k].hash
  <2> DEFINE S == {j \in 1 .. Len(txs) : txs[j].hash = txs[k].hash}
  <2>1. S \in SUBSET Nat /\ S # {}
    BY <1>1
  <2>2. PICK d \in S : \A j \in S : d <= j
    <3> HIDE DEF S
    <3> QED BY <2>1, LeastOf
  <2>3. d \in Dedup(txs)
    BY <2>2 DEF Dedup
  <2> QED BY <2>2, <2>3
<1> QED BY <1>2, <1>3, <1>4, <1>5

\* Transactions with different hashes are sorted by height.
LEMMA SortedOrders ==
  ASSUME NEW txs, IsSeq(txs), \A k \in 1 .. Len(txs) : IsTx(txs[k]),
         NEW S \in SUBSET (1 .. Len(txs))
  PROVE  /\ Orders(Sorted(txs), S)
         /\ \A p \in Sorted(txs) : txs[p[1]].height >= txs[p[2]].height
<1> DEFINE N == 1 .. Len(txs)
           h == [k \in N |-> txs[k].height]
           x == [k \in N |-> txs[k].hash]
           newer(j, k) == h[j] > h[k] \/ (h[j] = h[k] /\ x[j] > x[k])
           order == {p \in N \X N : \/ newer(p[1], p[2])
                                    \/ ~newer(p[2], p[1]) /\ p[1] < p[2]}
<1>1. N \in SUBSET Nat
  <2>1. Len(txs) \in Nat
    BY SeqParts
  <2> QED BY <2>1
<1>2. \A k \in N : h[k] \in Nat /\ x[k] \in Nat
  BY DEF IsTx
<1>3. Sorted(txs) = order
  BY DEF Sorted, Newer
<1>4. \A p \in order : h[p[1]] >= h[p[2]]
  <2> HIDE DEF N, h, x
  <2> QED BY <1>2
<1>5. \A p \in Sorted(txs) : txs[p[1]].height >= txs[p[2]].height
  BY <1>3, <1>4
<1>6. Orders(order, N)
  <2> HIDE DEF N, h, x
  <2>1. \A i \in N : <<i, i>> \notin order
    BY <1>1, <1>2
  <2>2. \A i, j \in N : i # j => <<i, j>> \in order \/ <<j, i>> \in order
    BY <1>1, <1>2
  <2>3. \A i, j, k \in N :
          <<i, j>> \in order /\ <<j, k>> \in order => <<i, k>> \in order
    BY <1>1, <1>2
  <2> HIDE DEF order
  <2> QED BY <2>1, <2>2, <2>3 DEF Orders
<1>7. Orders(order, S)
  <2> HIDE DEF order
  <2> QED BY <1>6 DEF Orders
<1> QED BY <1>3, <1>5, <1>7

\* Transactions of the chain that have the same hash are the same.
LEMMA SameTx ==
  ASSUME ChainOK, NEW x, NEW y, x.hash = y.hash,
         \E i \in 1 .. Len(chain) : x = chain[i],
         \E i \in 1 .. Len(chain) : y = chain[i]
  PROVE  x = y
<1>1. PICK i \in 1 .. Len(chain) : x = chain[i]
  OBVIOUS
<1>2. PICK j \in 1 .. Len(chain) : y = chain[j]
  OBVIOUS
<1>3. i = j
  BY <1>1, <1>2 DEF ChainOK
<1> QED BY <1>1, <1>2, <1>3

\* What the merge of two answers shows.
LEMMA MergeShows ==
  ASSUME ChainOK, NEW found, \A q \in Queries : IsAnswer(q, found[q])
  PROVE  AreItems(Merge(found)) /\ AreNewest(Merge(found))
<1> DEFINE a == found["in"].txs
           b == found["out"].txs
           txs == a \o b
           D == Dedup(txs)
           p == Page(txs, D, Sorted(txs))
           its == Merge(found)
<1>1. /\ IsSeq(a) /\ \A k \in 1 .. Len(a) : \E i \in 1 .. Len(chain) : a[k] = chain[i]
      /\ IsSeq(b) /\ \A k \in 1 .. Len(b) : \E i \in 1 .. Len(chain) : b[k] = chain[i]
  BY DEF IsAnswer, Queries
<1>2. IsSeq(txs) /\ Len(txs) \in Nat
  <2>1. IsSeq(txs)
    BY <1>1, SeqJoined
  <2> HIDE DEF txs
  <2> QED BY <2>1, SeqParts
<1>3. ASSUME NEW k \in 1 .. Len(txs) PROVE \E i \in 1 .. Len(chain) : txs[k] = chain[i]
  <2> HIDE DEF a, b
  <2>1. \/ \E j \in 1 .. Len(a) : txs[k] = a[j]
        \/ \E j \in 1 .. Len(b) : txs[k] = b[j]
    <3>1. IsSeq(a) /\ IsSeq(b) /\ k \in 1 .. Len(a \o b)
      BY <1>1
    <3> QED BY ONLY <3>1, SeqJoinedFrom
  <2> QED BY <1>1, <2>1
<1>4. ASSUME NEW q \in Queries, NEW m \in 1 .. Len(found[q].txs)
      PROVE  \E k \in 1 .. Len(txs) : txs[k] = found[q].txs[m]
  <2>1. Len(a) \in Nat /\ Len(b) \in Nat
    BY <1>1, SeqParts
  <2>2. /\ Len(txs) = Len(a) + Len(b)
        /\ \A k \in 1 .. Len(a) : txs[k] = a[k]
        /\ \A k \in 1 .. Len(b) : txs[Len(a) + k] = b[k]
    <3> HIDE DEF a, b
    <3> QED BY ONLY <1>1, SeqJoined
  <2>3. CASE q = "in"
    <3>1. found[q].txs = a
      BY <2>3
    <3> HIDE DEF a, b, txs
    <3>2. m \in 1 .. Len(txs) /\ txs[m] = found[q].txs[m]
      BY <2>1, <2>2, <3>1
    <3> QED BY <3>2
  <2>4. CASE q = "out"
    <3>1. found[q].txs = b
      BY <2>4
    <3> HIDE DEF a, b, txs
    <3>2. Len(a) + m \in 1 .. Len(txs) /\ txs[Len(a) + m] = found[q].txs[m]
      BY <2>1, <2>2, <3>1
    <3> QED BY <3>2
  <2> QED BY <2>3, <2>4 DEF Queries
<1> HIDE DEF txs
<1>5. \A k \in 1 .. Len(txs) : IsTx(txs[k])
  BY <1>3 DEF ChainOK
<1>6. /\ D \in SUBSET (1 .. Len(txs)) /\ IsFiniteSet(D)
      /\ \A d, e \in D : txs[d].hash = txs[e].hash => d = e
      /\ \A k \in 1 .. Len(txs) : \E d \in D : txs[d].hash = txs[k].hash
  BY <1>2, FirstPlaces
<1> HIDE DEF D
<1>7. ASSUME NEW k \in 1 .. Len(txs) PROVE \E d \in D : txs[d] = txs[k]
  <2>1. PICK d \in D : txs[d].hash = txs[k].hash
    BY <1>6
  <2>2. d \in 1 .. Len(txs)
    BY <1>6
  <2>3. /\ \E i \in 1 .. Len(chain) : txs[d] = chain[i]
        /\ \E i \in 1 .. Len(chain) : txs[k] = chain[i]
    BY <1>3, <2>2
  <2>4. txs[d] = txs[k]
    BY <2>1, <2>3, SameTx
  <2> QED BY <2>4
<1>8. /\ Orders(Sorted(txs), D)
      /\ \A r \in Sorted(txs) : txs[r[1]].height >= txs[r[2]].height
  BY <1>2, <1>5, <1>6, SortedOrders
<1>9. IsPage(p, txs, D, Sorted(txs))
  BY <1>6, <1>8, PageLemma
<1> DEFINE n == Len(p)
<1>10. its = [k \in 1 .. n |-> parseTxResult(p[k])]
  BY DEF Merge, txs, D
<1> HIDE DEF p, its
<1>11. PICK l \in [1 .. n -> D] :
         /\ p = [k \in 1 .. n |-> txs[l[k]]]
         /\ \A j, k \in 1 .. n : j < k => <<l[j], l[k]>> \in Sorted(txs)
         /\ \A i \in D :
              \/ \E k \in 1 .. n : l[k] = i
              \/ n = Limit /\ \A k \in 1 .. Limit : <<l[k], i>> \in Sorted(txs)
  BY <1>9 DEF IsPage
<1>12. n \in 0 .. Limit
  BY <1>9 DEF IsPage
<1> HIDE DEF n
<1>13. n \in Nat /\ n <= Limit
  BY <1>12
<1>14. IsSeq(its) /\ Len(its) = n
  <2>1. its = [k \in 1 .. n |-> its[k]]
    BY <1>10
  <2> QED BY <1>13, <2>1, SeqMade
<1>15. ASSUME NEW k \in 1 .. n
       PROVE  /\ l[k] \in D /\ l[k] \in 1 .. Len(txs)
              /\ its[k] = parseTxResult(txs[l[k]])
              /\ its[k].txhash = txs[l[k]].hash /\ its[k].height = txs[l[k]].height
  <2>1. its[k] = parseTxResult(txs[l[k]])
    BY <1>10, <1>11
  <2> QED BY <1>6, <1>11, <2>1, ParseKeys
<1>16. AreItems(its)
  <2>1. ASSUME NEW k \in 1 .. n
        PROVE  \E i \in 1 .. Len(chain) : its[k] = parseTxResult(chain[i])
    BY <1>3, <1>15
  <2>2. ASSUME NEW j \in 1 .. n, NEW k \in 1 .. n, its[j].txhash = its[k].txhash
        PROVE  j = k
    <3>1. l[j] = l[k]
      BY <1>6, <1>15, <2>2
    <3> QED BY ONLY <1>8, <1>11, <1>13, <3>1, PageInjective
  <2> QED BY <1>13, <1>14, <2>1, <2>2 DEF AreItems
<1>17. ASSUME NEW j \in 1 .. n, NEW k \in 1 .. n, j < k
       PROVE  its[j].height >= its[k].height
  <2>1. <<l[j], l[k]>> \in Sorted(txs)
    BY <1>11, <1>17
  <2>2. txs[l[j]].height >= txs[l[k]].height
    BY <1>8, <2>1
  <2> QED BY <1>15, <2>2
<1>18. \A k \in 1 .. Len(txs) : txs[k].height \in Nat
  BY <1>5 DEF IsTx
<1>19. ASSUME NEW i \in 1 .. begun, NEW q \in Queries, Matches(chain[i], q)
       PROVE  \/ \E k \in 1 .. n : its[k].txhash = chain[i].hash
              \/ n = Limit /\ its[Limit].height >= chain[i].height
  <2> DEFINE f == found[q].txs
  <2>1. \/ \E k \in 1 .. Len(f) : f[k] = chain[i]
        \/ Len(f) = Limit /\ \A k \in 1 .. Limit : f[k].height >= chain[i].height
    BY <1>19 DEF IsAnswer
  <2>2. i \in 1 .. Len(chain) /\ chain[i].height \in Nat
    <3>1. Len(chain) \in Nat /\ begun \in 0 .. Len(chain)
      BY SeqParts DEF ChainOK
    <3>2. i \in 1 .. Len(chain)
      BY <3>1
    <3> QED BY <3>2 DEF ChainOK, IsTx
  \* What a full page leaves out is not newer than its last transaction.
  <2>3. ASSUME NEW d \in D, txs[d].height >= chain[i].height,
               ~ \E k \in 1 .. n : l[k] = d
        PROVE  n = Limit /\ its[Limit].height >= chain[i].height
    <3>1. n = Limit /\ <<l[Limit], d>> \in Sorted(txs)
      BY <1>11, <2>3
    <3>2. Limit \in 1 .. n
      BY <3>1
    <3>3. txs[l[Limit]].height >= txs[d].height
      BY <1>8, <3>1
    <3>4. l[Limit] \in 1 .. Len(txs) /\ its[Limit].height = txs[l[Limit]].height
      BY <1>15, <3>2
    <3>5. txs[l[Limit]].height \in Nat /\ txs[d].height \in Nat
      BY <1>6, <1>18, <3>4
    <3> QED BY <2>2, <2>3, <3>1, <3>3, <3>4, <3>5
  <2>4. CASE \E k \in 1 .. Len(f) : f[k] = chain[i]
    <3>1. PICK d \in D : txs[d] = chain[i]
      <4>1. PICK m \in 1 .. Len(f) : f[m] = chain[i]
        BY <2>4
      <4>2. PICK k \in 1 .. Len(txs) : txs[k] = f[m]
        BY <1>4
      <4> QED BY <1>7, <4>1, <4>2
    <3>2. CASE \E k \in 1 .. n : l[k] = d
      BY <1>15, <3>1, <3>2
    <3>3. CASE ~ \E k \in 1 .. n : l[k] = d
      <4>1. txs[d].height >= chain[i].height
        BY <2>2, <3>1
      <4> QED BY <2>3, <3>3, <4>1
    <3> QED BY <3>2, <3>3
  <2>5. CASE Len(f) = Limit /\ \A k \in 1 .. Limit : f[k].height >= chain[i].height
    <3> DEFINE g == [m \in 1 .. Limit |-> CHOOSE d \in D : txs[d] = f[m]]
    <3>1. ASSUME NEW m \in 1 .. Limit
          PROVE  g[m] \in D /\ txs[g[m]] = f[m] /\ txs[g[m]].height >= chain[i].height
      <4>1. m \in 1 .. Len(f)
        BY <2>5
      <4>2. \E d \in D : txs[d] = f[m]
        BY <1>4, <1>7, <4>1
      <4>3. g[m] = CHOOSE d \in D : txs[d] = f[m]
        OBVIOUS
      <4>4. g[m] \in D /\ txs[g[m]] = f[m]
        <5> HIDE DEF g
        <5> QED BY <4>2, <4>3
      <4> QED BY <2>5, <4>4
    <3>2. g \in [1 .. Limit -> D]
      BY <3>1
    <3> HIDE DEF g
    <3>3. \A j, k \in 1 .. Len(f) : f[j] = f[k] => j = k
      BY DEF IsAnswer
    <3>4. g \in Injection(1 .. Limit, D)
      <4>1. ASSUME NEW j \in 1 .. Limit, NEW k \in 1 .. Limit, g[j] = g[k] PROVE j = k
        BY <2>5, <3>1, <3>3, <4>1
      <4> QED BY <3>2, <4>1 DEF Injection, IsInjective
    <3>5. CASE \A m \in 1 .. Limit : \E k \in 1 .. n : l[k] = g[m]
      <4>1. n = Limit /\ \E m \in 1 .. Limit : g[m] = l[Limit]
        <5>1. l \in [1 .. n -> D]
          BY <1>11
        <5> QED BY ONLY <1>12, <5>1, <3>4, <3>5, FullPage, SMTT(60)
      <4>2. PICK m \in 1 .. Limit : g[m] = l[Limit]
        BY <4>1
      <4>3. Limit \in 1 .. n
        BY <4>1
      <4> QED BY <1>15, <3>1, <4>1, <4>2, <4>3
    <3>6. CASE \E m \in 1 .. Limit : ~ \E k \in 1 .. n : l[k] = g[m]
      BY <2>3, <3>1, <3>6
    <3> QED BY <3>5, <3>6
  <2> QED BY <2>1, <2>4, <2>5
<1>20. AreNewest(its)
  BY <1>14, <1>17, <1>19 DEF AreNewest
<1> QED BY <1>16, <1>20 DEF its

-----------------------------------------------------------------------------
(***************************************************************************)
(* The steps.                                                              *)
(***************************************************************************)
\* Queries and parsing read a transaction, not the state, so what held of the
\* transactions of the chain holds when one more is executed.
LEMMA ExecuteKeeps ==
  ASSUME HistoryInv, NEW b, IsBody(b), NEW hash \in Hashes, Execute(b, hash)
  PROVE  HistoryInv'
<1> DEFINE n == Len(chain)
<1>1. PICK height \in {Height, Height + 1} :
        /\ \A k \in 1 .. n : chain[k].hash # hash
        /\ chain' = Append(chain, Tx(b, hash, height))
        /\ UNCHANGED <<typed, phase, answers, items, begun>>
  BY DEF Execute
<1> DEFINE tx == Tx(b, hash, height)
<1>2. n \in Nat /\ IsSeq(chain) /\ begun \in 0 .. n
  BY SeqParts DEF HistoryInv, ChainOK
<1>3. /\ IsSeq(chain') /\ Len(chain') = n + 1 /\ chain'[n + 1] = tx
      /\ \A k \in 1 .. n : chain'[k] = chain[k]
  <2> HIDE DEF tx
  <2>1. chain' = Append(chain, tx)
    BY <1>1 DEF tx
  <2> QED BY <1>2, <2>1, SeqAppended
<1>4. Height \in Nat /\ \A k \in 1 .. n : chain[k].height <= Height
  <2>1. \A k \in 1 .. n : chain[k].height \in Nat
    BY DEF HistoryInv, ChainOK, IsTx
  <2>2. CASE n = 0
    <3>1. chain = <<>>
      BY <1>2, <2>2 DEF IsSeq
    <3> QED BY <2>2, <3>1 DEF Height
  <2>3. CASE n # 0
    <3>1. chain # <<>> /\ n \in 1 .. n
      BY <1>2, <2>3, NoneIsSeq
    <3>2. Height = chain[n].height
      BY <3>1 DEF Height
    <3>3. \A k \in 1 .. n : chain[k].height <= chain[n].height
      BY <1>2, <3>1 DEF HistoryInv, ChainOK
    <3> QED BY <2>1, <3>1, <3>2, <3>3
  <2> QED BY <2>2, <2>3
<1>5. tx.hash = hash /\ tx.height = height /\ IsTx(tx)
  <2>1. tx.hash = hash /\ tx.height = height /\ tx.events = Transfers(b)
    BY DEF Tx
  <2>2. hash \in Nat /\ height \in Nat
    BY <1>4 DEF Hashes
  <2> QED BY <2>1, <2>2, TransfersAre DEF IsTx
<1> HIDE DEF tx
<1>6. ChainOK'
  <2>1. ASSUME NEW i \in 1 .. n + 1 PROVE IsTx(chain'[i])
    BY <1>2, <1>3, <1>5, <2>1 DEF HistoryInv, ChainOK
  <2>2. ASSUME NEW i \in 1 .. n + 1, NEW j \in 1 .. n + 1,
               chain'[i].hash = chain'[j].hash
        PROVE  i = j
    <3>1. CASE i \in 1 .. n /\ j \in 1 .. n
      BY <1>3, <2>2, <3>1 DEF HistoryInv, ChainOK
    <3>2. CASE i = n + 1 /\ j \in 1 .. n
      BY <1>1, <1>3, <1>5, <2>2, <3>2
    <3>3. CASE i \in 1 .. n /\ j = n + 1
      BY <1>1, <1>3, <1>5, <2>2, <3>3
    <3>4. i \in 1 .. n \/ i = n + 1
      BY <1>2
    <3>5. j \in 1 .. n \/ j = n + 1
      BY <1>2
    <3> QED BY <3>1, <3>2, <3>3, <3>4, <3>5
  <2>3. ASSUME NEW i \in 1 .. n + 1, NEW j \in 1 .. n + 1, i <= j
        PROVE  chain'[i].height <= chain'[j].height
    <3>1. CASE j \in 1 .. n
      <4>1. i \in 1 .. n
        BY <1>2, <2>3, <3>1
      <4> QED BY <1>3, <2>3, <3>1, <4>1 DEF HistoryInv, ChainOK
    <3>2. CASE j = n + 1 /\ i = n + 1
      BY <1>3, <1>4, <1>5, <3>2
    <3>3. CASE j = n + 1 /\ i \in 1 .. n
      <4>1. chain'[i].height = chain[i].height /\ chain'[j].height = height
        BY <1>3, <1>5, <3>3
      <4>2. chain[i].height \in Nat /\ chain[i].height <= Height
        BY <1>4, <3>3 DEF HistoryInv, ChainOK, IsTx
      <4>3. height >= Height
        BY <1>4
      <4> QED BY <1>4, <4>1, <4>2, <4>3
    <3> QED BY <1>2, <3>1, <3>2, <3>3
  <2>4. begun' \in 0 .. n + 1
    BY <1>1, <1>2
  <2> QED BY <1>3, <2>1, <2>2, <2>3, <2>4 DEF ChainOK
<1>7. AnswersOK'
  <2>1. DOMAIN answers' = Queries
    BY <1>1 DEF HistoryInv, AnswersOK
  <2>2. ASSUME NEW q \in Queries, answers[q] # Pending
        PROVE  IsAnswer(q, answers[q])'
    <3>1. PICK a : a = answers[q]
      OBVIOUS
    <3>2. IsAnswer(q, a)
      BY <2>2, <3>1 DEF HistoryInv, AnswersOK
    <3>3. a.len \in begun' .. Len(chain')
      BY <1>1, <1>2, <1>3, <3>2 DEF IsAnswer
    <3>4. ASSUME NEW k \in 1 .. Len(a.txs)
          PROVE  \E i \in 1 .. Len(chain') : a.txs[k] = chain'[i]
      <4>1. PICK i \in 1 .. n : a.txs[k] = chain[i]
        BY <3>2 DEF IsAnswer
      <4>2. i \in 1 .. Len(chain') /\ a.txs[k] = chain'[i]
        BY <1>2, <1>3, <4>1
      <4> QED BY <4>2
    <3>5. \A i \in 1 .. begun' : i \in 1 .. begun /\ chain'[i] = chain[i]
      BY <1>1, <1>2, <1>3
    <3>6. IsAnswer(q, a)'
      <4>1. ASSUME NEW i \in 1 .. begun', Matches(chain'[i], q)
            PROVE  \/ \E k \in 1 .. Len(a.txs) : a.txs[k] = chain'[i]
                   \/ /\ Len(a.txs) = Limit
                      /\ \A k \in 1 .. Limit : a.txs[k].height >= chain'[i].height
        <5>1. PICK y : y = chain[i]
          OBVIOUS
        <5>2. chain'[i] = y /\ i \in 1 .. begun /\ Matches(y, q)
          BY ONLY <3>5, <4>1, <5>1, i \in 1 .. begun'
        <5>3. \/ \E k \in 1 .. Len(a.txs) : a.txs[k] = y
              \/ /\ Len(a.txs) = Limit
                 /\ \A k \in 1 .. Limit : a.txs[k].height >= y.height
          BY ONLY <3>2, <5>1, <5>2 DEF IsAnswer
        <5> QED BY ONLY <5>2, <5>3
      <4>2. /\ IsSeq(a.txs) /\ Len(a.txs) <= Limit
            /\ \A j, k \in 1 .. Len(a.txs) : a.txs[j] = a.txs[k] => j = k
        BY <3>2 DEF IsAnswer
      <4>3. \A i \in 1 .. begun' : Matches(chain[i], q)' <=> Matches(chain'[i], q)
        BY DEF Matches
      <4> QED BY ONLY <3>3, <3>4, <4>1, <4>2, <4>3 DEF IsAnswer
    <3> QED BY <1>1, <3>1, <3>6
  <2> QED BY <1>1, <2>1, <2>2 DEF AnswersOK
<1>8. AreItems(items)'
  <2>1. ASSUME NEW k \in 1 .. Len(items)
        PROVE  \E i \in 1 .. Len(chain') : items[k] = parseTxResult(chain'[i])
    <3>1. PICK i \in 1 .. n : items[k] = parseTxResult(chain[i])
      BY DEF HistoryInv, AreItems
    <3>2. i \in 1 .. Len(chain') /\ chain'[i] = chain[i]
      BY <1>2, <1>3
    <3> QED BY <3>1, <3>2
  <2> QED BY <1>1, <2>1 DEF HistoryInv, AreItems
<1>9. AreNewest(items) => AreNewest(items)'
  <2>1. \A i \in 1 .. begun' : i \in 1 .. begun /\ chain'[i] = chain[i]
    BY <1>1, <1>2, <1>3
  <2>2. ASSUME AreNewest(items), NEW i \in 1 .. begun',
               \E q \in Queries : Matches(chain'[i], q)
        PROVE  \/ \E k \in 1 .. Len(items) : items[k].txhash = chain'[i].hash
               \/ /\ Len(items) = Limit
                  /\ items[Limit].height >= chain'[i].height
    BY <2>1, <2>2 DEF AreNewest
  <2> QED BY <1>1, <2>2 DEF AreNewest
<1> QED BY <1>1, <1>6, <1>7, <1>8, <1>9 DEF HistoryInv

\* Answers stay what they are while the chain does.
LEMMA AnswerKept ==
  ASSUME NEW q, NEW a, IsAnswer(q, a), chain' = chain, begun' = begun
  PROVE  IsAnswer(q, a)'
<1>1. a.len \in begun' .. Len(chain')
  BY DEF IsAnswer
<1>2. \A k \in 1 .. Len(a.txs) : \E i \in 1 .. Len(chain') : a.txs[k] = chain'[i]
  <2>1. \A k \in 1 .. Len(a.txs) : \E i \in 1 .. Len(chain) : a.txs[k] = chain[i]
    BY DEF IsAnswer
  <2> QED BY ONLY <2>1, chain' = chain
<1>3. \A i \in 1 .. begun' : chain'[i] = chain[i] /\ i \in 1 .. begun
  BY ONLY chain' = chain, begun' = begun
<1>4. ASSUME NEW i \in 1 .. begun', Matches(chain'[i], q)
      PROVE  \/ \E k \in 1 .. Len(a.txs) : a.txs[k] = chain'[i]
             \/ /\ Len(a.txs) = Limit
                /\ \A k \in 1 .. Limit : a.txs[k].height >= chain'[i].height
  <2>1. PICK tx : tx = chain[i]
    OBVIOUS
  <2>2. chain'[i] = tx /\ i \in 1 .. begun /\ Matches(tx, q)
    BY ONLY <1>3, <1>4, <2>1, i \in 1 .. begun'
  <2>3. \/ \E k \in 1 .. Len(a.txs) : a.txs[k] = tx
        \/ /\ Len(a.txs) = Limit
           /\ \A k \in 1 .. Limit : a.txs[k].height >= tx.height
    BY ONLY <2>1, <2>2, IsAnswer(q, a) DEF IsAnswer
  <2> QED BY ONLY <2>2, <2>3
<1>5. /\ IsSeq(a.txs) /\ Len(a.txs) <= Limit
      /\ \A j, k \in 1 .. Len(a.txs) : a.txs[j] = a.txs[k] => j = k
  BY DEF IsAnswer
<1>6. \A i \in 1 .. begun' : Matches(chain[i], q)' <=> Matches(chain'[i], q)
  BY DEF Matches
<1> QED BY ONLY <1>1, <1>2, <1>4, <1>5, <1>6 DEF IsAnswer

\* So do all of them.
LEMMA AnswersKept ==
  ASSUME AnswersOK, answers' = answers, chain' = chain, begun' = begun
  PROVE  AnswersOK'
<1>1. DOMAIN answers' = Queries
  BY DEF AnswersOK
<1>2. ASSUME NEW q \in Queries, answers[q] # Pending PROVE IsAnswer(q, answers[q])'
  <2>1. PICK a : a = answers[q]
    OBVIOUS
  <2>2. IsAnswer(q, a)
    BY <1>2, <2>1 DEF AnswersOK
  <2>3. IsAnswer(q, a)'
    BY ONLY <2>2, AnswerKept, chain' = chain, begun' = begun
  <2>4. a = answers[q]'
    BY <2>1
  <2> QED BY <2>3, <2>4
<1>3. \A q \in Queries : answers'[q] = Pending \/ IsAnswer(q, answers[q])'
  BY <1>2
<1> QED BY ONLY <1>1, <1>3 DEF AnswersOK

\* Before the first fetch nothing is shown.
LEMMA HistoryInit == Init => HistoryInv
<1> SUFFICES ASSUME Init PROVE HistoryInv
  OBVIOUS
<1>1. phase = "idle" /\ chain = <<>> /\ items = <<>> /\ begun = 0
  BY DEF Init
<1>2. IsSeq(<<>>) /\ Len(<<>>) = 0
  BY NoneIsSeq
<1>3. ChainOK
  BY <1>1, <1>2 DEF ChainOK
<1>4. AnswersOK
  BY DEF Init, AnswersOK
<1>5. AreItems(items)
  BY <1>1, <1>2 DEF AreItems
<1> QED BY <1>1, <1>3, <1>4, <1>5 DEF HistoryInv

\* A fetch forgets the answers of the one before.
LEMMA FetchKeeps == HistoryInv /\ Fetch => HistoryInv'
<1> SUFFICES ASSUME HistoryInv, Fetch PROVE HistoryInv'
  OBVIOUS
<1>1. /\ phase' = "searching" /\ begun' = Len(chain)
      /\ answers' = [q \in Queries |-> Pending]
      /\ chain' = chain /\ items' = items
  BY DEF Fetch
<1>2. ChainOK'
  <2>1. begun' \in 0 .. Len(chain)
    BY <1>1, SeqParts DEF HistoryInv, ChainOK
  <2> QED BY <1>1, <2>1 DEF HistoryInv, ChainOK
<1>3. AnswersOK'
  BY <1>1 DEF AnswersOK
<1>4. AreItems(items)'
  BY <1>1 DEF HistoryInv, AreItems
<1> QED BY <1>1, <1>2, <1>3, <1>4 DEF HistoryInv

\* A search is answered from the chain of that moment.
LEMMA AnswerKeeps ==
  ASSUME HistoryInv, NEW q \in Queries, Answer(q)
  PROVE  HistoryInv'
<1>1. /\ phase = "searching" /\ phase' = phase
      /\ answers' = [answers EXCEPT ![q] = [len |-> Len(chain), txs |-> Search(q)]]
      /\ chain' = chain /\ items' = items /\ begun' = begun
  BY DEF Answer
<1>2. IsAnswer(q, [len |-> Len(chain), txs |-> Search(q)])
  BY SearchAnswers DEF HistoryInv
<1>3. AnswersOK'
  <2>1. DOMAIN answers' = Queries
    BY <1>1 DEF HistoryInv, AnswersOK
  <2>2. ASSUME NEW r \in Queries, answers'[r] # Pending PROVE IsAnswer(r, answers'[r])
    <3>1. CASE r = q
      BY <1>1, <1>2, <3>1 DEF HistoryInv, AnswersOK
    <3>2. CASE r # q
      BY <1>1, <2>2, <3>2 DEF HistoryInv, AnswersOK
    <3> QED BY <3>1, <3>2
  <2>3. ASSUME NEW r \in Queries, IsAnswer(r, answers'[r]) PROVE IsAnswer(r, answers[r])'
    <3>1. PICK a : a = answers'[r]
      OBVIOUS
    <3>2. IsAnswer(r, a)'
      BY <1>1, <2>3, <3>1, AnswerKept
    <3> QED BY <3>1, <3>2
  <2> QED BY <2>1, <2>2, <2>3 DEF AnswersOK
<1> QED BY <1>1, <1>3 DEF HistoryInv, ChainOK, AreItems

\* A failed search leaves the history as it was.
LEMMA RejectKeeps ==
  ASSUME HistoryInv, NEW q \in Queries, Reject(q)
  PROVE  HistoryInv'
<1>1. /\ phase' = "failed" /\ answers' = answers
      /\ chain' = chain /\ items' = items /\ begun' = begun
  BY DEF Reject
<1>2. AnswersOK'
  <2>1. AnswersOK
    BY DEF HistoryInv
  <2> QED BY ONLY <1>1, <2>1, AnswersKept
<1> QED BY <1>1, <1>2 DEF HistoryInv, ChainOK, AreItems

\* Two answers are merged and shown.
LEMMA ShowKeeps == HistoryInv /\ Show => HistoryInv'
<1> SUFFICES ASSUME HistoryInv, Show PROVE HistoryInv'
  OBVIOUS
<1>1. /\ \A q \in Queries : answers[q] # Pending
      /\ items' = Merge(answers) /\ phase' = "done"
      /\ chain' = chain /\ answers' = answers /\ begun' = begun
  BY DEF Show
<1>2. AreItems(Merge(answers)) /\ AreNewest(Merge(answers))
  <2>1. \A q \in Queries : IsAnswer(q, answers[q])
    BY <1>1 DEF HistoryInv, AnswersOK
  <2> QED BY <2>1, MergeShows DEF HistoryInv
<1>3. AnswersOK'
  <2>1. AnswersOK
    BY DEF HistoryInv
  <2> QED BY ONLY <1>1, <2>1, AnswersKept
<1>4. AreItems(items)'
  BY <1>1, <1>2 DEF AreItems
<1>5. AreNewest(items)'
  BY <1>1, <1>2 DEF AreNewest, Matches
<1> QED BY <1>1, <1>3, <1>4, <1>5 DEF HistoryInv, ChainOK

\* Every step keeps the invariant.
LEMMA HistoryStep == HistoryInv /\ [Next]_vars => HistoryInv'
<1> SUFFICES ASSUME HistoryInv, [Next]_vars PROVE HistoryInv'
  OBVIOUS
<1>1. CASE ExecuteOther
  BY <1>1, BodiesAre, ExecuteKeeps DEF ExecuteOther
<1>2. CASE HandleSend
  <2>1. /\ parseStbToUstb(typed.text) \in Nat
        /\ \E to \in {Me, "other"}, hash \in Hashes : Execute(SendBody(to), hash)
    BY <1>2 DEF HandleSend
  <2>2. PICK to \in {Me, "other"}, hash \in Hashes : Execute(SendBody(to), hash)
    BY <2>1
  <2>3. IsBody(SendBody(to))
    BY <2>1, SendIsBody
  <2> QED BY <2>2, <2>3, ExecuteKeeps
<1>3. CASE Fetch
  BY <1>3, FetchKeeps
<1>4. CASE \E q \in Queries : Answer(q) \/ Reject(q)
  BY <1>4, AnswerKeeps, RejectKeeps
<1>5. CASE Show
  BY <1>5, ShowKeeps
<1>6. CASE UNCHANGED vars
  <2>1. /\ phase' = phase /\ chain' = chain /\ answers' = answers
        /\ items' = items /\ begun' = begun
    BY <1>6 DEF vars
  <2>2. ChainOK' /\ AreItems(items)' /\ (AreNewest(items) => AreNewest(items)')
    BY <2>1 DEF HistoryInv, ChainOK, AreItems, AreNewest, Matches
  <2>3. AnswersOK'
    <3>1. AnswersOK
      BY DEF HistoryInv
    <3> QED BY ONLY <2>1, <3>1, AnswersKept
  <2> QED BY <2>1, <2>2, <2>3 DEF HistoryInv
<1> QED BY <1>1, <1>2, <1>3, <1>4, <1>5, <1>6 DEF Next

\* The invariant holds in every reachable state.
LEMMA HistoryHolds == Spec => []HistoryInv
BY HistoryInit, HistoryStep, PTL DEF Spec

-----------------------------------------------------------------------------
\* The history is a list of at most Limit different transactions of the chain
\* (fetchTxHistory).
THEOREM HistoryType == Spec => []TypeOK
<1>1. HistoryInv => TypeOK
  <2> SUFFICES ASSUME HistoryInv PROVE TypeOK
    OBVIOUS
  <2>1. ASSUME NEW k \in 1 .. Len(items)
        PROVE  /\ items[k].kind \in {"send", "receive", "other"}
               /\ \E tx \in Range(chain) :
                    tx.hash = items[k].txhash /\ tx.height = items[k].height
    <3>1. PICK i \in 1 .. Len(chain) : items[k] = parseTxResult(chain[i])
      BY DEF HistoryInv, AreItems
    <3>2. chain[i] \in Range(chain)
      BY SeqParts DEF HistoryInv, ChainOK
    <3> QED BY <3>1, <3>2, ParseKeys
  <2> QED BY <2>1 DEF HistoryInv, AreItems, TypeOK
<1> QED BY <1>1, HistoryHolds, PTL

\* The newest transactions are shown, the newest first, although the searches
\* are answered at different moments and each is cut before they are merged.
THEOREM HistoryIsNewest == Spec => []Newest
<1>1. HistoryInv => Newest
  BY DEF HistoryInv, AreNewest, Newest
<1> QED BY <1>1, HistoryHolds, PTL

\* Of a transaction that moved ustb by its messages the largest of these
\* transfers is shown and never the fee (parseTxResult).
THEOREM HistoryShowsLargest == Spec => []LargestShown
<1>1. HistoryInv => LargestShown
  <2> SUFFICES ASSUME HistoryInv, NEW k \in 1 .. Len(items),
                      Moved(TxOf(items[k])) # {}
               PROVE  \E tr \in Moved(TxOf(items[k])) :
                        /\ items[k].amountUstb = <<UstbPart(tr)>>
                        /\ items[k].kind = (IF tr.sender = Me THEN "send" ELSE "receive")
                        /\ items[k].counterparty =
                             <<IF tr.sender = Me THEN tr.recipient ELSE tr.sender>>
                        /\ \A other \in Moved(TxOf(items[k])) :
                             UstbAmount(other) <= UstbAmount(tr)
    BY DEF LargestShown, Moved
  <2>1. PICK i \in 1 .. Len(chain) : items[k] = parseTxResult(chain[i])
    BY DEF HistoryInv, AreItems
  <2>2. PICK tx : tx = chain[i]
    OBVIOUS
  <2>3. TxOf(items[k]) = tx
    <3>1. items[k].txhash = tx.hash
      BY <2>1, <2>2, ParseKeys
    <3>2. tx \in Range(chain)
      BY <2>2, SeqParts DEF HistoryInv, ChainOK
    <3>3. ASSUME NEW y \in Range(chain), y.hash = tx.hash PROVE y = tx
      <4>1. \E j \in 1 .. Len(chain) : y = chain[j]
        BY SeqParts DEF HistoryInv, ChainOK
      <4> QED BY <2>2, <3>3, <4>1, SameTx DEF HistoryInv
    <3> QED BY <3>1, <3>2, <3>3 DEF TxOf
  <2>4. IsTx(tx)
    BY <2>2 DEF HistoryInv, ChainOK
  <2>5. /\ Candidates(tx) # {} /\ Pick(tx) \in Moved(tx)
        /\ \A other \in Moved(tx) : UstbAmount(other) <= UstbAmount(Pick(tx))
    BY <2>3, <2>4, LargestPicked
  <2>6. PICK tr : tr = Pick(tx)
    OBVIOUS
  <2>7. items[k] = IF tr.sender = Me
                   THEN Item(tx, "send", <<UstbPart(tr)>>, <<tr.recipient>>)
                   ELSE Item(tx, "receive", <<UstbPart(tr)>>, <<tr.sender>>)
    BY <2>1, <2>2, <2>5, <2>6 DEF parseTxResult
  <2>8. /\ items[k].amountUstb = <<UstbPart(tr)>>
        /\ items[k].kind = (IF tr.sender = Me THEN "send" ELSE "receive")
        /\ items[k].counterparty =
             <<IF tr.sender = Me THEN tr.recipient ELSE tr.sender>>
    BY <2>7 DEF Item
  <2> QED BY <2>3, <2>5, <2>6, <2>8
<1> QED BY <1>1, HistoryHolds, PTL

HIDE HistoryAssumption

-----------------------------------------------------------------------------
(***************************************************************************)
(* Powers and quotients.                                                   *)
(***************************************************************************)
\* The powers of b.
ArePowers(p, b) ==
  p[0] = 1 /\ \A n \in Nat : p[n] \in Nat \ {0} /\ p[n + 1] = b * p[n]

\* The recursive definition of powers has a solution.
LEMMA PowersExist ==
  ASSUME NEW b \in Nat \ {0}
  PROVE  \E f : f = [n \in Nat |-> IF n = 0 THEN 1 ELSE b * f[n - 1]]
<1>1. PICK S, F, z : S = Nat /\ F = [n \in Nat |-> [x \in Nat |-> b * x]] /\ z = 1
  OBVIOUS
<1>2. PICK f \in [Nat -> Nat] :
        \A n \in Nat : f[n] = IF n = 0 THEN z ELSE F[n][f[n - 1]]
  <2>1. z \in S /\ F \in [Nat -> [S -> S]]
    BY <1>1
  <2>2. \E f \in [Nat -> S] :
          \A n \in Nat : f[n] = IF n = 0 THEN z ELSE F[n][f[n - 1]]
    BY <2>1, RecursionExists
  <2> QED BY <1>1, <2>2
<1>3. ASSUME NEW n \in Nat PROVE f[n] = IF n = 0 THEN 1 ELSE b * f[n - 1]
  <2>1. CASE n = 0
    BY <1>1, <1>2, <2>1
  <2>2. CASE n # 0
    <3>1. PICK x \in Nat : x = f[n - 1]
      BY <2>2
    <3>2. F[n][x] = b * x
      BY <1>1
    <3>3. f[n] = F[n][f[n - 1]]
      BY <1>2, <2>2
    <3> QED BY <2>2, <3>1, <3>2, <3>3
  <2> QED BY <2>1, <2>2
<1>4. f = [n \in Nat |-> IF n = 0 THEN 1 ELSE b * f[n - 1]]
  BY <1>3
<1> QED BY <1>4

\* A solution consists of the powers.
LEMMA PowersGiven ==
  ASSUME NEW b \in Nat \ {0}, NEW f,
         f = [n \in Nat |-> IF n = 0 THEN 1 ELSE b * f[n - 1]]
  PROVE  ArePowers(f, b)
<1> DEFINE P == {n \in Nat : f[n] \in Nat \ {0}}
<1>1. \A n \in Nat : f[n] = IF n = 0 THEN 1 ELSE b * f[n - 1]
  OBVIOUS
<1>2. \A n \in Nat : n + 1 # 0 /\ (n + 1) - 1 = n
  OBVIOUS
<1>3. f[0] = 1 /\ \A n \in Nat : f[n + 1] = b * f[n]
  BY ONLY <1>1, <1>2, 0 \in Nat, \A n \in Nat : n + 1 \in Nat
<1>4. \A x \in Nat \ {0} : b * x \in Nat \ {0}
  OBVIOUS
<1>5. 0 \in P /\ \A n \in Nat : n \in P => n + 1 \in P
  BY ONLY <1>3, <1>4, 0 \in Nat, 1 \in Nat \ {0}, \A n \in Nat : n + 1 \in Nat
<1>6. Nat \subseteq P
  <2> HIDE DEF P
  <2> QED BY <1>5, NatSetInduction
<1> QED BY <1>3, <1>6 DEF ArePowers

\* Pow10 and Pow2 are powers by the equations that define them.
LEMMA Pow10Powers == ArePowers(Pow10, 10)
<1>1. PICK f : f = [n \in Nat |-> IF n = 0 THEN 1 ELSE 10 * f[n - 1]]
  <2>1. 10 \in Nat \ {0}
    OBVIOUS
  <2> QED BY ONLY <2>1, PowersExist
<1>2. Pow10 = [n \in Nat |-> IF n = 0 THEN 1 ELSE 10 * Pow10[n - 1]]
  BY ONLY <1>1 DEF Pow10
<1>3. 10 \in Nat \ {0}
  OBVIOUS
<1> QED BY ONLY <1>2, <1>3, PowersGiven

\* The same of Pow2.
LEMMA Pow2Powers == ArePowers(Pow2, 2)
<1>1. PICK f : f = [n \in Nat |-> IF n = 0 THEN 1 ELSE 2 * f[n - 1]]
  <2>1. 2 \in Nat \ {0}
    OBVIOUS
  <2> QED BY ONLY <2>1, PowersExist
<1>2. Pow2 = [n \in Nat |-> IF n = 0 THEN 1 ELSE 2 * Pow2[n - 1]]
  BY ONLY <1>1 DEF Pow2
<1>3. 2 \in Nat \ {0}
  OBVIOUS
<1> QED BY ONLY <1>2, <1>3, PowersGiven

\* Products of numbers.
LEMMA Products ==
  \A a, b, c \in Int : /\ a * b \in Int /\ a * b = b * a /\ a * (b * c) = (a * b) * c
                       /\ a * (b + c) = a * b + a * c /\ a * 1 = a /\ a * 0 = 0
OBVIOUS

\* Products of naturals keep the order.
LEMMA ProductOrder ==
  ASSUME NEW a \in Nat, NEW b \in Nat, NEW c \in Nat, a <= b
  PROVE  a * c <= b * c
<1>1. PICK d \in Nat : b = a + d
  <2>1. b - a \in Nat /\ b = a + (b - a)
    OBVIOUS
  <2> QED BY <2>1
<1>2. b * c = a * c + d * c /\ a * c \in Nat /\ d * c \in Nat
  BY <1>1
<1> QED BY <1>2

\* A quotient and its rest.
LEMMA Quotient ==
  ASSUME NEW a \in Nat, NEW d \in Nat \ {0}
  PROVE  /\ a \div d \in Nat /\ a % d \in 0 .. d - 1
         /\ a = d * (a \div d) + (a % d)
OBVIOUS

\* There is only one quotient.
LEMMA QuotientIs ==
  ASSUME NEW d \in Nat \ {0}, NEW q \in Int, NEW r \in 0 .. d - 1, NEW a \in Nat,
         a = d * q + r
  PROVE  a \div d = q /\ a % d = r
OBVIOUS

\* Powers of a base of at least two rise, and are larger than the exponent.
LEMMA PowersRise ==
  ASSUME NEW b \in Nat, b >= 2, NEW p, ArePowers(p, b), NEW m \in Nat, NEW n \in Nat
  PROVE  /\ n < p[n]
         /\ m <= n => p[m] <= p[n]
         /\ p[m + n] = p[m] * p[n]
<1>0. /\ p[0] = 1
      /\ \A i \in Nat : p[i] \in Nat \ {0} /\ p[i + 1] = b * p[i]
  BY DEF ArePowers
<1>1. ASSUME NEW i \in Nat PROVE p[i] \in Nat \ {0} /\ p[i + 1] \in Nat /\ p[i + 1] >= p[i] + p[i]
  <2>1. PICK x \in Nat \ {0} : x = p[i]
    BY <1>0
  <2>2. 2 * x <= b * x
    <3>1. 2 \in Nat /\ b \in Nat /\ x \in Nat /\ 2 <= b
      OBVIOUS
    <3> QED BY ONLY <3>1, ProductOrder
  <2>3. p[i + 1] = b * x
    BY <1>0, <2>1
  <2>4. 2 * x = x + x /\ b * x \in Nat
    OBVIOUS
  <2> QED BY ONLY <2>1, <2>2, <2>3, <2>4
<1> DEFINE A == {i \in Nat : i < p[i]}
           R == {i \in Nat : p[m] <= p[m + i]}
           T == {i \in Nat : p[m + i] = p[m] * p[i]}
<1>2. 0 \in A /\ \A i \in Nat : i \in A => i + 1 \in A
  <2>1. ASSUME NEW i \in Nat, i \in A PROVE i + 1 \in A
    <3>1. p[i + 1] >= p[i] + p[i] /\ p[i] \in Nat \ {0} /\ p[i + 1] \in Nat
      BY ONLY <1>1, i \in Nat
    <3>2. i < p[i]
      BY <2>1
    <3> QED BY ONLY <3>1, <3>2, i \in Nat
  <2>2. 0 \in A
    BY ONLY <1>0, 0 < 1, 0 \in Nat
  <2> QED BY <2>1, <2>2
<1>3. 0 \in R /\ \A i \in Nat : i \in R => i + 1 \in R
  <2>1. ASSUME NEW i \in Nat, i \in R PROVE i + 1 \in R
    <3>1. m + i \in Nat /\ m + (i + 1) = (m + i) + 1
      OBVIOUS
    <3>2. /\ p[(m + i) + 1] >= p[m + i] + p[m + i]
          /\ p[m + i] \in Nat \ {0} /\ p[(m + i) + 1] \in Nat /\ p[m] \in Nat
      BY ONLY <1>1, <3>1, m \in Nat
    <3>3. p[m] <= p[m + i]
      BY <2>1
    <3>4. p[m] <= p[(m + i) + 1]
      BY ONLY <3>2, <3>3
    <3> QED BY <3>1, <3>4
  <2>2. m + 0 = m /\ p[m] \in Nat
    BY <1>1
  <2> QED BY <2>1, <2>2
<1>4. 0 \in T /\ \A i \in Nat : i \in T => i + 1 \in T
  <2>1. ASSUME NEW i \in Nat, i \in T PROVE i + 1 \in T
    <3>1. m + i \in Nat /\ m + (i + 1) = (m + i) + 1
      OBVIOUS
    <3>2. PICK x \in Nat, y \in Nat : x = p[m] /\ y = p[i]
      BY <1>0
    <3>3. p[(m + i) + 1] = b * p[m + i] /\ p[i + 1] = b * y
      BY <1>0, <3>1, <3>2
    <3>4. p[m + i] = x * y
      BY <2>1, <3>2
    <3>5. b * (x * y) = x * (b * y)
      BY Products
    <3> QED BY <3>1, <3>2, <3>3, <3>4, <3>5
  <2>2. m + 0 = m
    OBVIOUS
  <2>3. PICK x \in Nat : x = p[m]
    BY <1>0
  <2>4. x * 1 = x
    OBVIOUS
  <2> QED BY <1>0, <2>1, <2>2, <2>3, <2>4
<1>5. Nat \subseteq A /\ Nat \subseteq R /\ Nat \subseteq T
  <2> HIDE DEF A, R, T
  <2> QED BY <1>2, <1>3, <1>4, NatSetInduction
<1>6. ASSUME m <= n PROVE p[m] <= p[n]
  <2>1. n - m \in Nat /\ m + (n - m) = n
    BY <1>6
  <2> QED BY <1>5, <2>1
<1> QED BY <1>5, <1>6

\* A decimal more.
LEMMA QuotientTwice ==
  ASSUME NEW n \in Nat, NEW d \in Nat \ {0}
  PROVE  /\ n \div d \in Nat /\ n \div (10 * d) \in Nat /\ (n \div d) % 10 \in 0 .. 9
         /\ n \div d = 10 * (n \div (10 * d)) + ((n \div d) % 10)
<1>1. PICK q \in Nat : q = n \div d
  BY Quotient
<1>2. PICK r \in 0 .. d - 1 : n = d * q + r
  <2>1. n % d \in 0 .. d - 1 /\ n = d * (n \div d) + (n % d)
    BY Quotient
  <2> QED BY <1>1, <2>1
<1>3. PICK a \in Nat, c \in 0 .. 9 : a = q \div 10 /\ c = q % 10 /\ q = 10 * a + c
  OBVIOUS
<1>4. PICK e \in Nat : e = 10 * d
  OBVIOUS
<1>5. PICK x \in Nat : x = d * c + r
  OBVIOUS
<1>6. x \in 0 .. e - 1
  <2>1. d * c <= d * 9
    <3>1. c \in Nat /\ 9 \in Nat /\ d \in Nat /\ c <= 9
      OBVIOUS
    <3>2. c * d <= 9 * d
      BY ONLY <3>1, ProductOrder
    <3>3. c * d = d * c /\ 9 * d = d * 9
      BY ONLY <3>1, Products
    <3> QED BY ONLY <3>2, <3>3
  <2>2. d * c \in Nat
    OBVIOUS
  <2> QED BY ONLY <1>4, <1>5, <2>1, <2>2, d \in Nat, r \in 0 .. d - 1, x \in Nat
<1>7. n = e * a + x
  <2>1. d * (10 * a + c) = d * (10 * a) + d * c /\ d * (10 * a) = (d * 10) * a
    BY Products
  <2>2. d * 10 = e /\ e * a \in Nat /\ d * c \in Nat
    BY <1>4
  <2> QED BY ONLY <1>2, <1>3, <1>5, <2>1, <2>2, r \in 0 .. d - 1, d \in Nat
<1>8. n \div e = a
  <2>1. e \in Nat \ {0} /\ a \in Int /\ x \in 0 .. e - 1 /\ n \in Nat
    BY <1>4, <1>6
  <2> QED BY ONLY <1>7, <2>1, QuotientIs
<1> QED BY <1>1, <1>3, <1>4, <1>8

-----------------------------------------------------------------------------
(***************************************************************************)
(* Numerals.                                                               *)
(***************************************************************************)
\* The last l decimal digits of n.
Figures(n, l) == [k \in 1 .. l |-> (n \div Pow10[l - k]) % 10]

\* The value of digits is read from left to right.
LEMMA NumberIs ==
  ASSUME NEW n \in Nat, NEW ds, Len(ds) = n, NEW v,
         v = [k \in 0 .. n |-> IF k = 0 THEN 0 ELSE 10 * v[k - 1] + ds[k]]
  PROVE  Number(ds) = v[n]
<1>1. PICK g : /\ g = [k \in 0 .. n |-> IF k = 0 THEN 0 ELSE 10 * g[k - 1] + ds[k]]
               /\ Number(ds) = g[n]
  BY DEF Number
<1>2. ASSUME NEW f, f = [k \in 0 .. n |-> IF k = 0 THEN 0 ELSE 10 * f[k - 1] + ds[k]],
             NEW k \in Nat
      PROVE  /\ f[0] = 0
             /\ k + 1 \in 0 .. n => f[k + 1] = 10 * f[k] + ds[k + 1]
  <2>1. \A i \in 0 .. n : f[i] = IF i = 0 THEN 0 ELSE 10 * f[i - 1] + ds[i]
    BY ONLY <1>2
  <2>2. 0 \in 0 .. n /\ k + 1 # 0 /\ (k + 1) - 1 = k
    OBVIOUS
  <2> QED BY ONLY <2>1, <2>2
<1> DEFINE P == {k \in Nat : k \in 0 .. n => g[k] = v[k]}
<1>3. 0 \in P
  BY <1>1, <1>2
<1>4. ASSUME NEW k \in Nat, k \in P PROVE k + 1 \in P
  <2>1. ASSUME k + 1 \in 0 .. n PROVE g[k + 1] = v[k + 1]
    <3>1. k \in 0 .. n
      BY <2>1
    <3>2. g[k] = v[k]
      BY <1>4, <3>1
    <3>3. g[k + 1] = 10 * g[k] + ds[k + 1]
      BY <1>1, <1>2, <2>1
    <3>4. v[k + 1] = 10 * v[k] + ds[k + 1]
      BY <1>2, <2>1
    <3> QED BY ONLY <3>2, <3>3, <3>4
  <2> QED BY <2>1
<1>5. Nat \subseteq P
  <2> HIDE DEF P
  <2> QED BY <1>3, <1>4, NatSetInduction
<1>6. g[n] = v[n]
  <2>1. n \in P /\ n \in 0 .. n
    BY <1>5
  <2> QED BY <2>1
<1> QED BY <1>1, <1>6

\* Read as digits, the digits of a number are the number.
LEMMA FiguresRead ==
  ASSUME NEW n \in Nat, NEW l \in Nat, n < Pow10[l]
  PROVE  /\ Figures(n, l) \in [1 .. l -> 0 .. 9]
         /\ Number(Figures(n, l)) = n
<1>1. /\ Pow10[0] = 1
      /\ \A k \in Nat : Pow10[k] \in Nat \ {0} /\ Pow10[k + 1] = 10 * Pow10[k]
  BY Pow10Powers DEF ArePowers
<1>2. PICK v : v = [k \in 0 .. l |-> n \div Pow10[l - k]]
  OBVIOUS
<1>3. PICK ds : ds = Figures(n, l)
  OBVIOUS
<1>4. ASSUME NEW k \in 1 .. l
      PROVE  ds[k] \in 0 .. 9 /\ v[k] = 10 * v[k - 1] + ds[k]
  <2>1. PICK d \in Nat \ {0} : d = Pow10[l - k]
    BY <1>1
  <2>2. Pow10[l - (k - 1)] = 10 * d
    <3>1. l - k \in Nat /\ l - (k - 1) = (l - k) + 1
      OBVIOUS
    <3> QED BY ONLY <1>1, <2>1, <3>1
  <2>3. v[k] = n \div d /\ v[k - 1] = n \div (10 * d) /\ ds[k] = (n \div d) % 10
    <3>1. k \in 0 .. l /\ k - 1 \in 0 .. l
      OBVIOUS
    <3> QED BY <1>2, <1>3, <2>1, <2>2, <3>1 DEF Figures
  <2> QED BY ONLY <2>3, QuotientTwice, n \in Nat, d \in Nat \ {0}
<1>5. ds = [k \in 1 .. l |-> ds[k]] /\ Len(ds) = l
  BY <1>3 DEF Figures
<1>6. v[0] = 0 /\ v[l] = n
  <2>1. v[0] = n \div Pow10[l] /\ v[l] = n \div 1
    <3>1. 0 \in 0 .. l /\ l \in 0 .. l /\ l - 0 = l /\ l - l = 0
      OBVIOUS
    <3> QED BY ONLY <1>1, <1>2, <3>1
  <2>2. PICK d \in Nat \ {0} : d = Pow10[l]
    BY <1>1
  <2>3. n = d * 0 + n /\ n \in 0 .. d - 1 /\ 0 \in Int
    BY <2>2
  <2>4. n \div d = 0
    BY ONLY <2>3, QuotientIs, n \in Nat, d \in Nat \ {0}
  <2> QED BY <2>1, <2>2, <2>4
<1>7. v = [k \in 0 .. l |-> IF k = 0 THEN 0 ELSE 10 * v[k - 1] + ds[k]]
  <2>1. v = [k \in 0 .. l |-> v[k]]
    BY <1>2
  <2>2. \A k \in 0 .. l : k = 0 \/ k \in 1 .. l
    OBVIOUS
  <2>3. \A k \in 0 .. l : v[k] = IF k = 0 THEN 0 ELSE 10 * v[k - 1] + ds[k]
    BY ONLY <1>4, <1>6, <2>2
  <2> QED BY ONLY <2>1, <2>3
<1>8. Number(ds) = v[l]
  BY ONLY <1>5, <1>7, NumberIs, l \in Nat
<1>9. ds \in [1 .. l -> 0 .. 9]
  BY ONLY <1>4, <1>5
<1> QED BY <1>3, <1>6, <1>8, <1>9

\* The digits of n without leading zeros.
LEMMA NumeralIs ==
  ASSUME NEW n \in Nat
  PROVE  \E l \in Nat \ {0} :
           /\ n < Pow10[l] /\ (l = 1 \/ Pow10[l - 1] <= n)
           /\ Numeral(n) = Figures(n, l)
<1> DEFINE S == {l \in 1 .. n + 1 : n < Pow10[l]}
<1>1. n + 1 \in S
  <2>1. n + 1 \in Nat /\ 10 \in Nat /\ 10 >= 2 /\ 0 \in Nat
    OBVIOUS
  <2>2. n + 1 < Pow10[n + 1]
    BY ONLY <2>1, Pow10Powers, PowersRise
  <2>3. Pow10[n + 1] \in Nat
    BY <2>1, Pow10Powers DEF ArePowers
  <2> QED BY <2>2, <2>3
<1>2. PICK m \in S : \A k \in S : m <= k
  <2>1. S \in SUBSET Nat /\ S # {}
    BY <1>1
  <2> HIDE DEF S
  <2> QED BY ONLY <2>1, LeastOf
<1>3. m = 1 \/ Pow10[m - 1] <= n
  <2>1. CASE m # 1
    <3>1. m - 1 \in 1 .. n + 1 /\ ~ (m <= m - 1)
      BY <2>1
    <3>2. ~ (n < Pow10[m - 1])
      BY <1>2, <3>1
    <3>3. Pow10[m - 1] \in Nat
      BY <3>1, Pow10Powers DEF ArePowers
    <3> QED BY <3>2, <3>3
  <2> QED BY <2>1
<1>4. PICK l : l = CHOOSE x \in 1 .. n + 1 : n < Pow10[x] /\ (x = 1 \/ Pow10[x - 1] <= n)
  OBVIOUS
<1>5. l \in 1 .. n + 1 /\ n < Pow10[l] /\ (l = 1 \/ Pow10[l - 1] <= n)
  BY ONLY <1>2, <1>3, <1>4
<1>6. Numeral(n) = Figures(n, l)
  BY <1>4 DEF Numeral, Figures
<1>7. l \in Nat \ {0}
  BY <1>5
<1> QED BY <1>5, <1>6, <1>7

\* The fraction is padded to the decimals of STB.
LEMMA PaddedIs ==
  ASSUME NEW r \in Nat, r < Scale
  PROVE  PadStart(Numeral(r)) = Figures(r, Decimals)
<1>1. PICK l \in Nat \ {0} : /\ r < Pow10[l] /\ (l = 1 \/ Pow10[l - 1] <= r)
                             /\ Numeral(r) = Figures(r, l)
  BY NumeralIs
<1>2. \A k \in Nat : Pow10[k] \in Nat \ {0}
  BY Pow10Powers DEF ArePowers
<1>3. \A j, k \in Nat : j <= k => Pow10[j] <= Pow10[k]
  <2>1. 10 \in Nat /\ 10 >= 2
    OBVIOUS
  <2> QED BY ONLY <2>1, Pow10Powers, PowersRise
<1>4. PICK d \in Nat \ {0} : d = Decimals
  BY HistoryAssumption
<1>5. l <= d
  <2>1. ASSUME d < l PROVE FALSE
    <3>1. l - 1 \in Nat /\ d <= l - 1 /\ l # 1
      BY <2>1
    <3>2. Pow10[d] <= Pow10[l - 1] /\ Pow10[l - 1] <= r /\ r < Pow10[d]
      BY <1>1, <1>3, <1>4, <3>1 DEF Scale
    <3> QED BY <1>2, <3>1, <3>2
  <2> QED BY <2>1
<1>6. PICK z, s, c : z = [k \in 1 .. d - l |-> 0] /\ s = Figures(r, l) /\ c = z \o s
  OBVIOUS
<1>7. IsSeq(z) /\ Len(z) = d - l /\ IsSeq(s) /\ Len(s) = l
  <2>1. d - l \in Nat /\ z = [k \in 1 .. d - l |-> z[k]]
    BY <1>5, <1>6
  <2>2. s = [k \in 1 .. l |-> s[k]]
    BY <1>6 DEF Figures
  <2> QED BY <2>1, <2>2, SeqMade
<1>8. PadStart(Numeral(r)) = c
  BY <1>1, <1>4, <1>6, <1>7 DEF PadStart
<1>9. /\ IsSeq(c) /\ Len(c) = (d - l) + l
      /\ \A k \in 1 .. d - l : c[k] = z[k]
      /\ \A k \in 1 .. l : c[(d - l) + k] = s[k]
  <2>1. /\ IsSeq(c) /\ Len(c) = Len(z) + Len(s)
        /\ \A k \in 1 .. Len(z) : c[k] = z[k]
        /\ \A k \in 1 .. Len(s) : c[Len(z) + k] = s[k]
    <3>1. IsSeq(z) /\ IsSeq(s) /\ c = z \o s
      BY <1>6, <1>7
    <3> QED BY ONLY <3>1, SeqJoined
  <2> QED BY ONLY <1>7, <2>1
<1>10. c = [k \in 1 .. d |-> c[k]]
  <2>1. (d - l) + l = d
    OBVIOUS
  <2> QED BY ONLY <1>9, <2>1, SeqParts
<1>11. ASSUME NEW k \in 1 .. d PROVE c[k] = (r \div Pow10[d - k]) % 10
  <2>1. CASE k <= d - l
    <3>1. c[k] = 0
      BY <1>5, <1>6, <1>9, <2>1
    <3>2. PICK x \in Nat \ {0} : x = Pow10[d - k]
      BY <1>2
    <3>3. r < x
      <4>1. d - k \in Nat /\ l \in Nat /\ l <= d - k
        BY <2>1
      <4>2. Pow10[l] <= x
        BY ONLY <1>3, <3>2, <4>1
      <4> QED BY <1>1, <1>2, <4>2
    <3>4. r = x * 0 + r /\ r \in 0 .. x - 1 /\ 0 \in Int
      BY <3>3
    <3>5. r \div x = 0
      BY ONLY <3>4, QuotientIs, r \in Nat, x \in Nat \ {0}
    <3> QED BY <3>1, <3>2, <3>5
  <2>2. CASE ~ (k <= d - l)
    <3>1. PICK j \in 1 .. l : j = k - (d - l)
      BY <1>5, <2>2
    <3>2. (d - l) + j = k /\ l - j = d - k
      BY <3>1
    <3>3. s[j] = (r \div Pow10[l - j]) % 10
      BY <1>6 DEF Figures
    <3> QED BY <1>9, <3>1, <3>2, <3>3
  <2> QED BY <2>1, <2>2
<1> QED BY ONLY <1>4, <1>8, <1>10, <1>11 DEF Figures

-----------------------------------------------------------------------------
(***************************************************************************)
(* Doubles.                                                                *)
(***************************************************************************)
\* 2 ** (m + n)
LEMMA Pow2Sum ==
  ASSUME NEW m \in Nat, NEW n \in Nat
  PROVE  Pow2[m + n] = Pow2[m] * Pow2[n]
<1>1. 2 \in Nat /\ 2 >= 2
  OBVIOUS
<1> QED BY ONLY <1>1, Pow2Powers, PowersRise, m \in Nat, n \in Nat

\* The binary place of a number that is no fraction.
LEMMA PlaceIs ==
  ASSUME NEW a \in Nat, NEW b \in Nat \ {0}, b <= a
  PROVE  /\ Place(a, b) \in Nat
         /\ b * Pow2[Place(a, b)] <= a /\ a < b * Pow2[Place(a, b) + 1]
<1> DEFINE S == {e \in 0 .. a : a < b * Pow2[e + 1]}
<1>1. Pow2[0] = 1 /\ \A k \in Nat : Pow2[k] \in Nat \ {0} /\ Pow2[k + 1] = 2 * Pow2[k]
  BY Pow2Powers DEF ArePowers
<1>2. a \in S
  <2>1. PICK p \in Nat \ {0} : p = Pow2[a + 1]
    BY <1>1
  <2>2. a + 1 < p
    <3>1. 2 \in Nat /\ 2 >= 2 /\ a + 1 \in Nat
      OBVIOUS
    <3> QED BY ONLY <2>1, <3>1, Pow2Powers, PowersRise
  <2>3. 1 * p <= b * p /\ 1 * p = p /\ b * p \in Nat
    <3>1. 1 \in Nat /\ b \in Nat /\ p \in Nat /\ 1 <= b
      OBVIOUS
    <3> QED BY ONLY <3>1, ProductOrder, Products
  <2>4. a < b * p
    BY ONLY <2>2, <2>3, a \in Nat, p \in Nat \ {0}
  <2> QED BY <2>1, <2>4
<1>3. PICK e \in S : \A k \in S : e <= k
  <2>1. S \in SUBSET Nat /\ S # {}
    BY <1>2
  <2> HIDE DEF S
  <2> QED BY ONLY <2>1, LeastOf
<1>4. b * Pow2[e] <= a
  <2>1. CASE e = 0
    BY <1>1, <2>1
  <2>2. CASE e # 0
    <3>1. e - 1 \in 0 .. a /\ (e - 1) + 1 = e /\ ~ (e <= e - 1)
      BY <2>2
    <3>2. ~ (a < b * Pow2[e])
      BY <1>3, <3>1
    <3>3. PICK p \in Nat : p = Pow2[e]
      BY <1>1
    <3>4. b * p \in Nat
      OBVIOUS
    <3> QED BY ONLY <3>2, <3>3, <3>4, a \in Nat
  <2> QED BY <2>1, <2>2
<1>5. PICK x : x = CHOOSE y \in 0 .. a : b * Pow2[y] <= a /\ a < b * Pow2[y + 1]
  OBVIOUS
<1>6. x \in 0 .. a /\ b * Pow2[x] <= a /\ a < b * Pow2[x + 1]
  <2>1. e \in 0 .. a /\ a < b * Pow2[e + 1]
    OBVIOUS
  <2> QED BY ONLY <1>4, <1>5, <2>1
<1>7. x = Place(a, b)
  BY <1>5 DEF Place
<1> QED BY <1>6, <1>7

\* A quotient is rounded to a multiple of u below the next one, if it is far
\* enough from it.
LEMMA RoundBelow ==
  ASSUME NEW a \in Nat, NEW b \in Nat \ {0}, NEW u \in Nat \ {0}, NEW q \in Nat,
         b * (u * q) <= a, 2 * a + b < 2 * (b * (u * q + u))
  PROVE  RoundDiv(a, b) \div u = q
<1>1. PICK t \in Nat : t = u * q
  OBVIOUS
<1>2. PICK x \in Nat, r \in 0 .. b - 1 : x = a \div b /\ r = a % b /\ a = b * x + r
  BY Quotient
<1>3. t <= x
  <2>1. ASSUME x + 1 <= t PROVE FALSE
    <3>1. (x + 1) * b <= t * b
      <4>1. x + 1 \in Nat
        OBVIOUS
      <4> QED BY ONLY <2>1, <4>1, ProductOrder, t \in Nat, b \in Nat \ {0}
    <3>2. (x + 1) * b = b * x + b /\ t * b = b * t /\ b * x \in Nat /\ b * t \in Nat
      OBVIOUS
    <3>3. b * t <= a
      BY <1>1
    <3> QED BY ONLY <1>2, <3>1, <3>2, <3>3, r \in 0 .. b - 1, b \in Nat \ {0}
  <2> QED BY ONLY <2>1, x \in Nat, t \in Nat
<1>4. PICK w \in Nat : w = b * x
  OBVIOUS
<1>5. 2 * a + b < 2 * (b * (t + u))
  BY <1>1
<1>6. ASSUME t + u <= x + 1 PROVE x + 1 = t + u /\ 2 * r < b
  <2>1. (t + u) * b <= (x + 1) * b
    <3>1. x + 1 \in Nat /\ t + u \in Nat
      OBVIOUS
    <3> QED BY ONLY <1>6, <3>1, ProductOrder, b \in Nat \ {0}
  <2>2. (t + u) * b = b * (t + u) /\ (x + 1) * b = w + b /\ b * (t + u) \in Nat
    BY <1>4
  <2>3. 2 * r < b
    BY ONLY <1>2, <1>4, <1>5, <2>1, <2>2, r \in 0 .. b - 1, b \in Nat \ {0}, w \in Nat
  <2>4. ASSUME t + u <= x PROVE FALSE
    <3>1. (t + u) * b <= x * b
      <4>1. t + u \in Nat
        OBVIOUS
      <4> QED BY ONLY <2>4, <4>1, ProductOrder, b \in Nat \ {0}, x \in Nat
    <3>2. x * b = w
      BY <1>4
    <3> QED BY ONLY <1>2, <1>4, <1>5, <2>2, <3>1, <3>2, r \in 0 .. b - 1,
                    b \in Nat \ {0}, w \in Nat
  <2> QED BY ONLY <1>6, <2>3, <2>4, x \in Nat, t \in Nat, u \in Nat \ {0}
<1>7. PICK y \in Nat : y = RoundDiv(a, b)
  BY <1>2 DEF RoundDiv
<1>8. y = x \/ (y = x + 1 /\ 2 * r >= b)
  BY <1>2, <1>7 DEF RoundDiv
<1>9. t <= y /\ y < t + u
  BY ONLY <1>3, <1>6, <1>8, x \in Nat, y \in Nat, t \in Nat, u \in Nat \ {0},
          r \in 0 .. b - 1, b \in Nat \ {0}
<1>10. y = u * q + (y - t) /\ y - t \in 0 .. u - 1
  BY ONLY <1>1, <1>9, y \in Nat, t \in Nat, u \in Nat \ {0}
<1>11. y \div u = q
  BY ONLY <1>10, QuotientIs, u \in Nat \ {0}, q \in Nat, y \in Nat, Nat \subseteq Int
<1> QED BY <1>7, <1>11

\* Where the doubles are at most two apart, none of a quotient's neighbours but
\* the one below is an integer.
LEMMA FloorKept ==
  ASSUME NEW n \in Nat, NEW b \in Nat \ {0}, NEW u \in Nat \ {0}, b < 2 * u
  PROVE  RoundDiv(n * u, b) \div u = n \div b
<1>1. PICK q \in Nat, r \in 0 .. b - 1 : q = n \div b /\ n = b * q + r
  BY Quotient
<1>2. PICK a \in Nat : a = n * u
  OBVIOUS
<1>3. b * (u * q) <= a
  <2>1. (b * q) * u <= n * u
    <3>1. b * q \in Nat /\ b * q <= n
      BY <1>1
    <3> QED BY ONLY <3>1, ProductOrder, n \in Nat, u \in Nat \ {0}
  <2>2. (b * q) * u = b * (u * q)
    <3>1. q * u = u * q /\ b * (q * u) = (b * q) * u
      BY Products
    <3> QED BY <3>1
  <2> QED BY ONLY <1>2, <2>1, <2>2
<1>4. a + u <= b * (u * q + u)
  <2>1. (n + 1) * u <= (b * q + b) * u
    <3>1. n + 1 \in Nat /\ b * q + b \in Nat /\ n + 1 <= b * q + b
      BY <1>1
    <3> QED BY ONLY <3>1, ProductOrder, u \in Nat \ {0}
  <2>2. (n + 1) * u = a + u
    BY <1>2
  <2>3. (b * q + b) * u = b * (u * q + u)
    <3>1. /\ (b * q + b) * u = u * (b * q + b)
          /\ u * (b * q + b) = u * (b * q) + u * b
          /\ u * (b * q) = (u * b) * q /\ b * (u * q) = (b * u) * q
          /\ b * (u * q + u) = b * (u * q) + b * u /\ u * b = b * u
      <4>1. b * q \in Int /\ u * q \in Int /\ b * q + b \in Int
        OBVIOUS
      <4> QED BY ONLY <4>1, Products, b \in Int, u \in Int, q \in Int
    <3> QED BY ONLY <3>1
  <2> QED BY ONLY <2>1, <2>2, <2>3
<1>5. 2 * a + b < 2 * (b * (u * q + u))
  <2>1. PICK w \in Nat : w = b * (u * q + u)
    OBVIOUS
  <2> QED BY ONLY <1>4, <2>1, a \in Nat, b \in Nat \ {0}, u \in Nat \ {0}, b < 2 * u
<1> QED BY ONLY <1>1, <1>2, <1>3, <1>5, RoundBelow, a \in Nat, b \in Nat \ {0},
                u \in Nat \ {0}, q \in Nat

\* Below the precision of a double the floor of a quotient is exact.
LEMMA FloorIs ==
  ASSUME NEW n \in Nat, n < Pow2[Precision], NEW b \in Nat \ {0}
  PROVE  FloorQuotient(n, b) = n \div b
<1>1. Pow2[0] = 1 /\ \A k \in Nat : Pow2[k] \in Nat \ {0} /\ Pow2[k + 1] = 2 * Pow2[k]
  BY Pow2Powers DEF ArePowers
<1>2. PICK p \in Nat : p = Precision
  BY HistoryAssumption
<1>3. CASE n < b
  <2>1. PICK u \in Nat \ {0} : u = Pow2[p]
    BY <1>1
  <2>2. FloorQuotient(n, b) = RoundDiv(n * u, b) \div u
    <3>1. -1 < p /\ p - 1 - (-1) = p
      OBVIOUS
    <3> QED BY <1>2, <1>3, <2>1, <3>1 DEF FloorQuotient
  <2>3. CASE b < 2 * u
    BY <2>2, <2>3, FloorKept
  <2>4. CASE 2 * u <= b
    <3>1. n \div b = 0
      <4>1. n = b * 0 + n /\ n \in 0 .. b - 1 /\ 0 \in Int
        BY <1>3
      <4> QED BY ONLY <4>1, QuotientIs, n \in Nat, b \in Nat \ {0}
    <3>2. PICK a \in Nat, w \in Nat : a = n * u /\ w = b * u
      OBVIOUS
    <3>3. 2 * (a + u) <= w
      <4>1. (2 * (n + 1)) * u <= b * u
        <5>1. 2 * (n + 1) \in Nat /\ 2 * (n + 1) <= b
          BY <1>2, <2>1, <2>4
        <5> QED BY ONLY <5>1, ProductOrder, b \in Nat \ {0}, u \in Nat \ {0}
      <4>2. (2 * (n + 1)) * u = 2 * (n * u + u)
        OBVIOUS
      <4> QED BY <3>2, <4>1, <4>2
    <3>4. b <= w
      <4>1. 1 * b <= u * b
        <5>1. 1 \in Nat /\ 1 <= u
          OBVIOUS
        <5> QED BY ONLY <5>1, ProductOrder, b \in Nat \ {0}, u \in Nat \ {0}
      <4>2. u * b = b * u
        OBVIOUS
      <4> QED BY <3>2, <4>1, <4>2
    <3>5. b * (u * 0) <= a /\ 2 * a + b < 2 * (b * (u * 0 + u))
      <4>1. b * (u * 0) = 0 /\ b * (u * 0 + u) = w
        BY <3>2
      <4> QED BY ONLY <3>3, <3>4, <4>1, a \in Nat, w \in Nat, u \in Nat \ {0}, b \in Nat \ {0}
    <3>6. RoundDiv(a, b) \div u = 0
      BY ONLY <3>5, RoundBelow, a \in Nat, b \in Nat \ {0}, u \in Nat \ {0}, 0 \in Nat
    <3> QED BY <2>2, <3>1, <3>2, <3>6
  <2> QED BY <2>3, <2>4
<1>4. CASE b <= n
  <2>1. PICK e \in Nat : /\ e = Place(n, b) /\ b * Pow2[e] <= n
    BY <1>4, PlaceIs
  <2>2. PICK x \in Nat \ {0} : x = Pow2[e]
    BY <1>1
  <2>3. e < p
    <3>1. ASSUME p <= e PROVE FALSE
      <4>1. Pow2[p] <= x
        <5>1. 2 \in Nat /\ 2 >= 2
          OBVIOUS
        <5> QED BY ONLY <2>2, <3>1, <5>1, Pow2Powers, PowersRise, p \in Nat, e \in Nat
      <4>2. 1 * x <= b * x
        <5>1. 1 \in Nat /\ 1 <= b
          OBVIOUS
        <5> QED BY ONLY <5>1, ProductOrder, b \in Nat \ {0}, x \in Nat \ {0}
      <4>3. PICK y \in Nat, w \in Nat : y = Pow2[p] /\ w = b * x
        BY <1>1
      <4> QED BY ONLY <1>2, <2>1, <2>2, <4>1, <4>2, <4>3, n < Pow2[Precision], n \in Nat,
                      x \in Nat \ {0}, y \in Nat, w \in Nat
    <3> QED BY <3>1
  <2>4. PICK j \in Nat : j = p - 1 - e
    BY <2>3
  <2>5. PICK u \in Nat \ {0} : u = Pow2[j]
    BY <1>1
  <2>6. Pow2[p] = x * (2 * u)
    <3>1. e + (j + 1) = p /\ j + 1 \in Nat
      BY <2>4
    <3>2. Pow2[e + (j + 1)] = Pow2[e] * Pow2[j + 1]
      BY ONLY <3>1, Pow2Sum, e \in Nat
    <3>3. Pow2[j + 1] = 2 * u
      BY <1>1, <2>5
    <3> QED BY ONLY <2>2, <3>1, <3>2, <3>3
  <2>7. b < 2 * u
    <3>1. ASSUME 2 * u <= b PROVE FALSE
      <4>1. (2 * u) * x <= b * x
        <5>1. 2 * u \in Nat
          OBVIOUS
        <5> QED BY ONLY <3>1, <5>1, ProductOrder, b \in Nat \ {0}, x \in Nat \ {0}
      <4>2. (2 * u) * x = x * (2 * u) /\ x * (2 * u) \in Nat /\ b * x \in Nat
        OBVIOUS
      <4> QED BY ONLY <1>2, <2>1, <2>2, <2>6, <4>1, <4>2, n < Pow2[Precision], n \in Nat
    <3> QED BY <3>1
  <2>8. FloorQuotient(n, b) = RoundDiv(n * u, b) \div u
    <3>1. ~ (n < b)
      BY <1>4
    <3> QED BY ONLY <1>2, <2>1, <2>3, <2>4, <2>5, <3>1 DEF FloorQuotient
  <2> QED BY <2>7, <2>8, FloorKept
<1> QED BY <1>3, <1>4

-----------------------------------------------------------------------------
(***************************************************************************)
(* Texts.                                                                  *)
(***************************************************************************)
\* The least and the greatest element.
LEMMA MinIs ==
  ASSUME NEW S \in SUBSET Nat, NEW m \in S, \A k \in S : m <= k
  PROVE  Min(S) = m
<1>1. PICK e : e = CHOOSE x \in S : \A y \in S : x =< y
  OBVIOUS
<1>2. e \in S /\ \A y \in S : e =< y
  BY <1>1
<1>3. e = m
  BY <1>2
<1> QED BY <1>1, <1>3 DEF Min

\* The same of the greatest.
LEMMA MaxIs ==
  ASSUME NEW S \in SUBSET Nat, NEW m \in S, \A k \in S : k <= m
  PROVE  Max(S) = m
<1>1. PICK e : e = CHOOSE x \in S : \A y \in S : x >= y
  OBVIOUS
<1>2. e \in S /\ \A y \in S : e >= y
  BY <1>1
<1>3. e = m
  BY <1>2
<1> QED BY <1>1, <1>3 DEF Max

\* Sequences with the same elements are the same.
LEMMA SeqsEqual ==
  ASSUME NEW s, NEW t, IsSeq(s), IsSeq(t), Len(s) = Len(t),
         \A k \in 1 .. Len(s) : s[k] = t[k]
  PROVE  s = t
<1>1. s = [k \in 1 .. Len(s) |-> s[k]] /\ t = [k \in 1 .. Len(t) |-> t[k]]
  BY ONLY SeqParts, IsSeq(s), IsSeq(t)
<1> QED BY ONLY <1>1, Len(s) = Len(t), \A k \in 1 .. Len(s) : s[k] = t[k]

\* The elements of a part of a sequence.
LEMMA CutIs ==
  ASSUME NEW s, IsSeq(s), NEW i \in Nat \ {0}, NEW j \in Nat, i <= j + 1, j <= Len(s)
  PROVE  /\ IsSeq(SubSeq(s, i, j)) /\ Len(SubSeq(s, i, j)) = j + 1 - i
         /\ \A k \in 1 .. j + 1 - i : SubSeq(s, i, j)[k] = s[(i - 1) + k]
<1>1. PICK n, t : n = j + 1 - i /\ t = SubSeq(s, i, j)
  OBVIOUS
<1> n \in Nat
  BY <1>1
<1>2. Len(s) \in Nat /\ s \in Seq(Range(s))
  BY SeqParts DEF IsSeq
<1>3. t = [k \in 1 .. n |-> s[(i - 1) + k]]
  <2>1. t = [k \in 1 .. n |-> s[i + k - 1]]
    BY <1>1, <1>2
  <2>2. \A k \in 1 .. n : i + k - 1 = (i - 1) + k
    OBVIOUS
  <2> QED BY ONLY <2>1, <2>2
<1>4. t = [k \in 1 .. n |-> t[k]] /\ \A k \in 1 .. n : t[k] = s[(i - 1) + k]
  BY <1>3
<1>5. IsSeq(t) /\ Len(t) = n
  BY ONLY <1>4, SeqMade, n \in Nat
<1> QED BY <1>1, <1>4, <1>5

\* Digits that nothing but other characters follows.
LEMMA DigitsAre ==
  ASSUME NEW s, IsSeq(s), NEW m \in 0 .. Len(s),
         \A k \in 1 .. Len(s) : s[k] \in 0 .. 9 <=> k <= m
  PROVE  Digits(s) = SubSeq(s, 1, m)
<1>1. PICK n \in Nat : n = Len(s)
  BY SeqParts
<1> DEFINE Solves(f) ==
             f = [k \in 0 .. n |->
                    IF k = 0 THEN <<>>
                    ELSE IF s[k] \in 0 .. 9 THEN Append(f[k - 1], s[k]) ELSE f[k - 1]]
           U == Range(s)
           cut(k) == SubSeq(s, 1, IF k <= m THEN k ELSE m)
           v == [k \in 0 .. n |-> cut(k)]
<1>2. ASSUME NEW f, Solves(f), NEW k \in Nat
      PROVE  /\ f[0] = <<>>
             /\ k + 1 \in 0 .. n =>
                  f[k + 1] = IF s[k + 1] \in 0 .. 9 THEN Append(f[k], s[k + 1]) ELSE f[k]
  <2>1. \A i \in 0 .. n : f[i] = IF i = 0 THEN <<>>
                                 ELSE IF s[i] \in 0 .. 9 THEN Append(f[i - 1], s[i])
                                 ELSE f[i - 1]
    BY ONLY <1>2
  <2>2. 0 \in 0 .. n /\ k + 1 # 0 /\ (k + 1) - 1 = k
    OBVIOUS
  <2> QED BY ONLY <2>1, <2>2
<1>3. ASSUME NEW k \in 0 .. n
      PROVE  /\ IsSeq(cut(k)) /\ Len(cut(k)) = IF k <= m THEN k ELSE m
             /\ \A i \in 1 .. (IF k <= m THEN k ELSE m) : cut(k)[i] = s[i]
  <2>1. PICK j \in Nat : j = IF k <= m THEN k ELSE m
    OBVIOUS
  <2>2. 1 \in Nat \ {0} /\ 1 <= j + 1 /\ j <= Len(s) /\ j + 1 - 1 = j
        /\ \A i \in 1 .. j : (1 - 1) + i = i
    BY <1>1, <2>1
  <2>3. /\ IsSeq(SubSeq(s, 1, j)) /\ Len(SubSeq(s, 1, j)) = j + 1 - 1
        /\ \A i \in 1 .. j + 1 - 1 : SubSeq(s, 1, j)[i] = s[(1 - 1) + i]
    BY ONLY <2>2, CutIs, IsSeq(s), j \in Nat
  <2> QED BY ONLY <2>1, <2>2, <2>3
<1>4. cut(0) = <<>>
  <2>1. IsSeq(cut(0)) /\ Len(cut(0)) = 0
    <3>1. 0 \in 0 .. n /\ (IF 0 <= m THEN 0 ELSE m) = 0
      OBVIOUS
    <3> HIDE DEF cut
    <3> QED BY ONLY <1>3, <3>1
  <2> HIDE DEF cut
  <2>2. \A k \in 1 .. 0 : cut(0)[k] = <<>>[k]
    OBVIOUS
  <2> QED BY ONLY <2>1, <2>2, NoneIsSeq, SeqsEqual
<1>5. ASSUME NEW k \in 1 .. n
      PROVE  cut(k) = IF s[k] \in 0 .. 9 THEN Append(cut(k - 1), s[k]) ELSE cut(k - 1)
  <2>1. s[k] \in 0 .. 9 <=> k <= m
    BY <1>1
  <2>2. CASE k <= m
    <3>1. /\ k \in 0 .. n /\ k - 1 \in 0 .. n /\ k - 1 <= m /\ (k - 1) + 1 = k
      BY <2>2
    <3> HIDE DEF cut
    <3>2. PICK c, d : c = cut(k) /\ d = cut(k - 1)
      OBVIOUS
    <3>3. /\ IsSeq(c) /\ Len(c) = k /\ \A i \in 1 .. k : c[i] = s[i]
          /\ IsSeq(d) /\ Len(d) = k - 1 /\ \A i \in 1 .. k - 1 : d[i] = s[i]
      BY ONLY <1>3, <2>2, <3>1, <3>2
    <3>4. /\ IsSeq(Append(d, s[k])) /\ Len(Append(d, s[k])) = Len(d) + 1
          /\ Append(d, s[k])[Len(d) + 1] = s[k]
          /\ \A i \in 1 .. Len(d) : Append(d, s[k])[i] = d[i]
      BY ONLY <3>3, SeqAppended
    <3>5. \A i \in 1 .. k : i \in 1 .. k - 1 \/ i = k
      OBVIOUS
    <3>6. c = Append(d, s[k])
      BY ONLY <3>1, <3>3, <3>4, <3>5, SeqsEqual
    <3> QED BY <2>1, <2>2, <3>2, <3>6
  <2>3. CASE ~ (k <= m)
    <3>1. (IF k <= m THEN k ELSE m) = m /\ (IF k - 1 <= m THEN k - 1 ELSE m) = m
      BY <2>3
    <3> QED BY <2>1, <2>3, <3>1
  <2> QED BY <2>2, <2>3
<1>6. Solves(v)
  <2>1. \A k \in 0 .. n : v[k] = cut(k)
    BY DEF v
  <2>2. \A k \in 1 .. n : k \in 0 .. n /\ k - 1 \in 0 .. n
    OBVIOUS
  <2>3. v = [k \in 0 .. n |-> v[k]]
    BY DEF v
  <2>4. \A k \in 0 .. n : k = 0 \/ k \in 1 .. n
    OBVIOUS
  <2> HIDE DEF v, cut
  <2>5. \A k \in 0 .. n : v[k] = IF k = 0 THEN <<>>
                                 ELSE IF s[k] \in 0 .. 9 THEN Append(v[k - 1], s[k])
                                 ELSE v[k - 1]
    BY ONLY <1>4, <1>5, <2>1, <2>2, <2>4
  <2> QED BY ONLY <2>3, <2>5
<1>7. PICK g : Solves(g) /\ Digits(s) = g[n]
  <2> HIDE DEF v
  <2> QED BY ONLY <1>1, <1>6 DEF Digits
<1> DEFINE P == {k \in Nat : k \in 0 .. n => g[k] = v[k]}
<1>8. 0 \in P
  <2> HIDE DEF Solves, v
  <2> QED BY <1>2, <1>6, <1>7
<1>9. ASSUME NEW k \in Nat, k \in P PROVE k + 1 \in P
  <2>1. ASSUME k + 1 \in 0 .. n PROVE g[k + 1] = v[k + 1]
    <3>1. k \in 0 .. n
      BY <2>1
    <3> HIDE DEF v, Solves
    <3>2. g[k] = v[k]
      BY <1>9, <3>1
    <3>3. /\ g[k + 1] = IF s[k + 1] \in 0 .. 9 THEN Append(g[k], s[k + 1]) ELSE g[k]
          /\ v[k + 1] = IF s[k + 1] \in 0 .. 9 THEN Append(v[k], s[k + 1]) ELSE v[k]
      BY ONLY <1>2, <1>6, <1>7, <2>1, k \in Nat
    <3> QED BY ONLY <3>2, <3>3
  <2> HIDE DEF v
  <2> QED BY <2>1
<1>10. Nat \subseteq P
  <2> HIDE DEF P
  <2> QED BY <1>8, <1>9, NatSetInduction
<1>11. g[n] = v[n]
  <2>1. n \in P /\ n \in 0 .. n
    <3> HIDE DEF P
    <3> QED BY <1>10
  <2> HIDE DEF v
  <2> QED BY <2>1
<1>12. v[n] = SubSeq(s, 1, m)
  <2>1. (IF n <= m THEN n ELSE m) = m /\ n \in 0 .. n
    BY <1>1
  <2> QED BY <2>1 DEF v, cut
<1> QED BY <1>7, <1>11, <1>12

\* Blanks around a text are dropped.
LEMMA TrimIs ==
  ASSUME NEW s, IsSeq(s), NEW i \in 1 .. Len(s), NEW j \in i .. Len(s),
         s[i] # Space, s[j] # Space,
         \A k \in 1 .. Len(s) : k < i \/ k > j => s[k] = Space
  PROVE  Trim(s) = SubSeq(s, i, j)
<1>1. PICK n \in Nat : n = Len(s)
  BY SeqParts
<1> DEFINE ink == {k \in 1 .. Len(s) : s[k] # Space}
<1>2. ink \in SUBSET Nat /\ i \in ink /\ j \in ink
  BY <1>1
<1>3. \A k \in ink : i <= k /\ k <= j
  BY <1>1
<1> HIDE DEF ink
<1>4. Min(ink) = i /\ Max(ink) = j
  BY ONLY <1>2, <1>3, MinIs, MaxIs
<1>5. ink # {}
  BY <1>2
<1> QED BY <1>4, <1>5 DEF Trim, ink

\* The part before the first point.
LEMMA WholeIs ==
  ASSUME NEW s, IsSeq(s), NEW i \in 1 .. Len(s) + 1,
         \A k \in 1 .. Len(s) : k < i => s[k] # Point,
         i <= Len(s) => s[i] = Point
  PROVE  WholePart(s) = SubSeq(s, 1, i - 1)
<1>1. PICK n \in Nat : n = Len(s)
  BY SeqParts
<1> DEFINE points == {k \in 1 .. Len(s) : s[k] = Point}
<1>2. CASE i <= n
  <2>1. points \in SUBSET Nat /\ i \in points /\ \A k \in points : i <= k
    BY <1>1, <1>2
  <2> HIDE DEF points
  <2>2. Min(points) = i /\ points # {}
    BY ONLY <2>1, MinIs
  <2> QED BY <2>2 DEF WholePart, points
<1>3. CASE i = n + 1
  <2>1. points = {}
    BY <1>1, <1>3
  <2>2. WholePart(s) = s
    BY <2>1 DEF WholePart
  <2>3. /\ 1 \in Nat \ {0} /\ 1 <= n + 1 /\ n <= Len(s) /\ n + 1 - 1 = n /\ i - 1 = n
        /\ \A k \in 1 .. n : (1 - 1) + k = k
    BY <1>1, <1>3
  <2>4. /\ IsSeq(SubSeq(s, 1, n)) /\ Len(SubSeq(s, 1, n)) = n + 1 - 1
        /\ \A k \in 1 .. n + 1 - 1 : SubSeq(s, 1, n)[k] = s[(1 - 1) + k]
    BY ONLY <2>3, CutIs, IsSeq(s), n \in Nat
  <2>5. SubSeq(s, 1, n) = s
    BY ONLY <1>1, <2>3, <2>4, SeqsEqual, IsSeq(s)
  <2> QED BY <2>2, <2>3, <2>5
<1> QED BY <1>1, <1>2, <1>3

\* A point or a comma at the place i becomes a point.
LEMMA PointedIs ==
  ASSUME NEW s, IsSeq(s), NEW i \in 1 .. Len(s) + 1,
         \A k \in 1 .. Len(s) : s[k] = Comma => k = i,
         i <= Len(s) => s[i] \in {Point, Comma}
  PROVE  /\ IsSeq(WithPoint(s)) /\ Len(WithPoint(s)) = Len(s)
         /\ i <= Len(s) => WithPoint(s)[i] = Point
         /\ \A k \in 1 .. Len(s) : k # i => WithPoint(s)[k] = s[k]
<1>1. PICK n \in Nat : n = Len(s)
  BY SeqParts
<1>2. s = [k \in 1 .. n |-> s[k]]
  BY <1>1, SeqParts
<1> DEFINE commas == {k \in 1 .. Len(s) : s[k] = Comma}
<1>3. CASE i <= n /\ s[i] = Comma
  <2>1. commas = {i} /\ i \in 1 .. n
    BY <1>1, <1>3
  <2>2. Min(commas) = i /\ commas # {}
    <3>1. commas \in SUBSET Nat /\ i \in commas /\ \A k \in commas : i <= k
      BY <2>1
    <3> HIDE DEF commas
    <3> QED BY ONLY <3>1, MinIs
  <2>3. PICK w : w = [s EXCEPT ![i] = Point]
    OBVIOUS
  <2>4. WithPoint(s) = w
    BY <2>2, <2>3 DEF WithPoint
  <2>5. /\ w = [k \in 1 .. n |-> w[k]] /\ w[i] = Point
        /\ \A k \in 1 .. n : k # i => w[k] = s[k]
    BY ONLY <1>2, <2>1, <2>3
  <2>6. IsSeq(w) /\ Len(w) = n
    BY ONLY <2>5, SeqMade, n \in Nat
  <2> QED BY ONLY <1>1, <2>4, <2>5, <2>6
<1>4. CASE ~ (i <= n /\ s[i] = Comma)
  <2>1. commas = {}
    BY <1>1, <1>4
  <2>2. WithPoint(s) = s
    BY <2>1 DEF WithPoint
  <2>3. i <= n => s[i] = Point
    BY <1>1, <1>4
  <2> QED BY <1>1, <2>2, <2>3
<1> QED BY <1>3, <1>4

\* Digits after the point are cut or filled up with zeros.
LEMMA PaddedEnd ==
  ASSUME NEW d, IsSeq(d)
  PROVE  PadEnd(Slice(d)) = [k \in 1 .. Decimals |-> IF k <= Len(d) THEN d[k] ELSE 0]
<1>1. PICK n \in Nat, m \in Nat \ {0} : n = Len(d) /\ m = Decimals
  BY SeqParts, HistoryAssumption
<1>2. PICK j \in Nat : j = IF n < m THEN n ELSE m
  OBVIOUS
<1>3. PICK c, z, p : c = SubSeq(d, 1, j) /\ z = [k \in 1 .. m - j |-> 0] /\ p = c \o z
  OBVIOUS
<1>4. /\ 1 \in Nat \ {0} /\ 1 <= j + 1 /\ j <= Len(d) /\ j + 1 - 1 = j /\ m - j \in Nat
      /\ \A k \in 1 .. j : (1 - 1) + k = k
  BY <1>1, <1>2
<1>5. IsSeq(c) /\ Len(c) = j /\ \A k \in 1 .. j : c[k] = d[k]
  <2>1. /\ IsSeq(SubSeq(d, 1, j)) /\ Len(SubSeq(d, 1, j)) = j + 1 - 1
        /\ \A k \in 1 .. j + 1 - 1 : SubSeq(d, 1, j)[k] = d[(1 - 1) + k]
    BY ONLY <1>4, CutIs, IsSeq(d), j \in Nat
  <2> QED BY ONLY <1>3, <1>4, <2>1
<1>6. IsSeq(z) /\ Len(z) = m - j /\ \A k \in 1 .. m - j : z[k] = 0
  <2>1. z = [k \in 1 .. m - j |-> z[k]] /\ \A k \in 1 .. m - j : z[k] = 0
    BY <1>3
  <2> QED BY ONLY <1>4, <2>1, SeqMade
<1>7. PadEnd(Slice(d)) = p
  <2>1. Slice(d) = c
    BY ONLY <1>1, <1>2, <1>3 DEF Slice
  <2> QED BY ONLY <1>1, <1>3, <1>5, <2>1 DEF PadEnd
<1>8. /\ IsSeq(p) /\ Len(p) = m
      /\ \A k \in 1 .. j : p[k] = d[k]
      /\ \A k \in 1 .. m - j : p[j + k] = 0
  <2>1. /\ IsSeq(p) /\ Len(p) = Len(c) + Len(z)
        /\ \A k \in 1 .. Len(c) : p[k] = c[k]
        /\ \A k \in 1 .. Len(z) : p[Len(c) + k] = z[k]
    <3>1. IsSeq(c) /\ IsSeq(z) /\ p = c \o z
      BY <1>3, <1>5, <1>6
    <3> QED BY ONLY <3>1, SeqJoined
  <2>2. j + (m - j) = m
    OBVIOUS
  <2> QED BY ONLY <1>5, <1>6, <2>1, <2>2
<1>9. ASSUME NEW k \in 1 .. m PROVE p[k] = IF k <= n THEN d[k] ELSE 0
  <2>1. CASE k <= j
    <3>1. k \in 1 .. j /\ k <= n
      BY <1>2, <2>1
    <3> QED BY ONLY <1>8, <3>1
  <2>2. CASE ~ (k <= j)
    <3>1. k - j \in 1 .. m - j /\ j + (k - j) = k /\ ~ (k <= n)
      BY <1>2, <2>2
    <3> QED BY ONLY <1>8, <3>1
  <2> QED BY <2>1, <2>2
<1>10. p = [k \in 1 .. m |-> p[k]]
  BY ONLY <1>8, SeqParts
<1> QED BY ONLY <1>1, <1>7, <1>9, <1>10

\* The text s consists of digits, a point or a comma at the place i, digits up
\* to the place m, and other characters.
IsText(s, i, m) ==
  /\ IsSeq(s) /\ s # <<>>
  /\ i \in 1 .. Len(s) + 1 /\ m \in 0 .. Len(s)
  /\ i <= Len(s) => i <= m
  /\ i > Len(s) => m = Len(s)
  /\ \A k \in 1 .. Len(s) :
       s[k] \in IF k < i THEN 0 .. 9 ELSE IF k = i THEN {Point, Comma}
               ELSE IF k <= m THEN 0 .. 9 ELSE {Space, Letter}

\* What is read of such a text with blanks around it.
LEMMA ParseIs ==
  ASSUME NEW text, NEW s, Trim(text) = s, NEW i, NEW m, IsText(s, i, m)
  PROVE  parseStbToUstb(text)
           = Number(SubSeq(s, 1, i - 1)) * Scale
               + Number([k \in 1 .. Decimals |-> IF i + k <= m THEN s[i + k] ELSE 0])
<1>0. /\ IsSeq(s) /\ s # <<>>
      /\ i \in 1 .. Len(s) + 1 /\ m \in 0 .. Len(s)
      /\ i <= Len(s) => i <= m
      /\ i > Len(s) => m = Len(s)
      /\ \A k \in 1 .. Len(s) :
           s[k] \in IF k < i THEN 0 .. 9 ELSE IF k = i THEN {Point, Comma}
                   ELSE IF k <= m THEN 0 .. 9 ELSE {Space, Letter}
  BY DEF IsText
<1> USE <1>0
<1>1. PICK n \in Nat : n = Len(s)
  BY SeqParts
<1>2. /\ \A k \in 1 .. n : k < i => s[k] \in 0 .. 9
      /\ i <= n => s[i] \in {Point, Comma} /\ s[i] \notin 0 .. 9
      /\ \A k \in 1 .. n : i < k /\ k <= m => s[k] \in 0 .. 9
      /\ \A k \in 1 .. n : i < k /\ m < k => s[k] \notin 0 .. 9
      /\ \A k \in 1 .. n : k # i => s[k] # Point /\ s[k] # Comma
  <2>1. \A x \in 0 .. 9 : x # Point /\ x # Comma
    BY DEF Point, Comma
  <2>2. \A x \in {Space, Letter} : x # Point /\ x # Comma /\ x \notin 0 .. 9
    BY DEF Point, Comma, Space, Letter
  <2>3. \A x \in {Point, Comma} : x \notin 0 .. 9
    BY DEF Point, Comma
  <2>4. \A k \in 1 .. n : s[k] \in IF k < i THEN 0 .. 9 ELSE IF k = i THEN {Point, Comma}
                                   ELSE IF k <= m THEN 0 .. 9 ELSE {Space, Letter}
    BY <1>1
  <2>5. ASSUME NEW k \in 1 .. n, k < i PROVE s[k] \in 0 .. 9
    BY <2>4, <2>5
  <2>6. ASSUME i <= n PROVE s[i] \in {Point, Comma}
    BY <1>1, <2>4, <2>6
  <2>7. ASSUME NEW k \in 1 .. n, i < k, k <= m PROVE s[k] \in 0 .. 9
    BY <2>4, <2>7
  <2>8. ASSUME NEW k \in 1 .. n, i < k, m < k PROVE s[k] \in {Space, Letter}
    BY <2>4, <2>8
  <2>9. ASSUME NEW k \in 1 .. n, k # i PROVE s[k] \in 0 .. 9 \/ s[k] \in {Space, Letter}
    BY <2>5, <2>7, <2>8, <2>9
  <2> QED BY <2>1, <2>2, <2>3, <2>5, <2>6, <2>7, <2>8, <2>9
<1>3. PICK w : w = WithPoint(s)
  OBVIOUS
<1>4. /\ IsSeq(w) /\ Len(w) = n /\ (i <= n => w[i] = Point)
      /\ \A k \in 1 .. n : k # i => w[k] = s[k]
  <2>1. /\ i \in 1 .. Len(s) + 1 /\ \A k \in 1 .. Len(s) : s[k] = Comma => k = i
        /\ i <= Len(s) => s[i] \in {Point, Comma}
    BY <1>1, <1>2
  <2> QED BY ONLY <1>1, <1>3, <2>1, PointedIs, <1>0
<1>5. PICK a : a = SubSeq(w, 1, i - 1)
  OBVIOUS
<1>6. /\ IsSeq(a) /\ Len(a) = i - 1
      /\ \A k \in 1 .. i - 1 : a[k] = s[k]
  <2>1. /\ 1 \in Nat \ {0} /\ i - 1 \in Nat /\ 1 <= (i - 1) + 1 /\ i - 1 <= Len(w)
        /\ (i - 1) + 1 - 1 = i - 1
        /\ \A k \in 1 .. i - 1 : (1 - 1) + k = k /\ k \in 1 .. n /\ k # i
    BY <1>1, <1>4
  <2>2. /\ IsSeq(a) /\ Len(a) = (i - 1) + 1 - 1
        /\ \A k \in 1 .. (i - 1) + 1 - 1 : a[k] = w[(1 - 1) + k]
    BY ONLY <1>4, <1>5, <2>1, CutIs
  <2> QED BY ONLY <1>4, <2>1, <2>2
<1>7. WholePart(w) = a
  <2>1. /\ i \in 1 .. Len(w) + 1 /\ \A k \in 1 .. Len(w) : k < i => w[k] # Point
        /\ i <= Len(w) => w[i] = Point
    BY <1>1, <1>2, <1>4
  <2> QED BY ONLY <1>4, <1>5, <2>1, WholeIs
<1>8. a = SubSeq(s, 1, i - 1)
  <2>1. /\ 1 \in Nat \ {0} /\ i - 1 \in Nat /\ 1 <= (i - 1) + 1 /\ i - 1 <= Len(s)
        /\ (i - 1) + 1 - 1 = i - 1
        /\ \A k \in 1 .. i - 1 : (1 - 1) + k = k
    BY <1>1
  <2>2. PICK t : t = SubSeq(s, 1, i - 1)
    OBVIOUS
  <2>3. /\ IsSeq(t) /\ Len(t) = (i - 1) + 1 - 1
        /\ \A k \in 1 .. (i - 1) + 1 - 1 : t[k] = s[(1 - 1) + k]
    BY ONLY <2>1, <2>2, CutIs, <1>0
  <2>4. a = t
    BY ONLY <1>6, <2>1, <2>3, SeqsEqual
  <2> QED BY <2>2, <2>4
<1>9. Digits(a) = a
  <2>1. /\ i - 1 \in 0 .. Len(a)
        /\ \A k \in 1 .. Len(a) : a[k] \in 0 .. 9 <=> k <= i - 1
    BY <1>1, <1>2, <1>6
  <2>2. Digits(a) = SubSeq(a, 1, i - 1)
    BY ONLY <1>6, <2>1, DigitsAre
  <2>3. PICK t : t = SubSeq(a, 1, i - 1)
    OBVIOUS
  <2>4. /\ 1 \in Nat \ {0} /\ i - 1 \in Nat /\ 1 <= (i - 1) + 1 /\ i - 1 <= Len(a)
        /\ (i - 1) + 1 - 1 = i - 1
        /\ \A k \in 1 .. i - 1 : (1 - 1) + k = k
    BY <1>6
  <2>5. /\ IsSeq(t) /\ Len(t) = (i - 1) + 1 - 1
        /\ \A k \in 1 .. (i - 1) + 1 - 1 : t[k] = a[(1 - 1) + k]
    BY ONLY <1>6, <2>3, <2>4, CutIs
  <2>6. t = a
    BY ONLY <1>6, <2>4, <2>5, SeqsEqual
  <2> QED BY <2>2, <2>3, <2>6
<1>10. PICK l \in Nat : l = IF i <= n THEN n - i ELSE 0
  <2>1. CASE i <= n
    <3>1. n - i \in Nat
      BY <2>1
    <3> QED BY <2>1, <3>1
  <2>2. CASE ~ (i <= n)
    BY <2>2
  <2> QED BY <2>1, <2>2
<1>11. PICK r : r = SubSeq(w, i + 1, n)
  OBVIOUS
<1>12. /\ IsSeq(r) /\ Len(r) = l /\ \A k \in 1 .. l : r[k] = s[i + k] /\ i + k \in 1 .. n
  <2>1. CASE i <= n
    <3>1. /\ i + 1 \in Nat \ {0} /\ i + 1 <= n + 1 /\ n <= Len(w) /\ n + 1 - (i + 1) = l
          /\ \A k \in 1 .. l : /\ ((i + 1) - 1) + k = i + k
                               /\ i + k \in 1 .. n /\ i + k # i
      BY <1>4, <1>10, <2>1
    <3>2. /\ IsSeq(r) /\ Len(r) = n + 1 - (i + 1)
          /\ \A k \in 1 .. n + 1 - (i + 1) : r[k] = w[((i + 1) - 1) + k]
      <4>1. IsSeq(w) /\ i + 1 \in Nat \ {0} /\ n \in Nat /\ i + 1 <= n + 1 /\ n <= Len(w)
        BY <1>4, <3>1
      <4> QED BY ONLY <1>11, <4>1, CutIs
    <3> QED BY ONLY <1>4, <3>1, <3>2
  <2>2. CASE ~ (i <= n)
    <3>1. i = n + 1 /\ l = 0
      BY <1>1, <1>10, <2>2
    <3>2. r = <<>>
      <4>1. w \in Seq(Range(w))
        BY <1>4 DEF IsSeq
      <4>2. r = [k \in 1 .. n + 1 - (i + 1) |-> w[(i + 1) + k - 1]]
        BY <1>11, <4>1
      <4>3. n + 1 - (i + 1) = -1 /\ 1 .. -1 = {}
        BY <3>1
      <4>4. DOMAIN r = {} /\ DOMAIN <<>> = {}
        BY <4>2, <4>3
      <4>5. r = [k \in {} |-> 0] /\ <<>> = [k \in {} |-> 0]
        BY <4>2, <4>3
      <4> QED BY <4>5
    <3> QED BY <3>1, <3>2, NoneIsSeq
  <2> QED BY <2>1, <2>2
<1>13. FracPart(w) = r
  <2>1. FracPart(w) = WholePart(r)
    <3>1. Len(a) + 2 = i + 1
      BY <1>6
    <3> QED BY <1>4, <1>7, <1>11, <3>1 DEF FracPart
  <2>2. /\ l + 1 \in 1 .. Len(r) + 1 /\ (l + 1) - 1 = l
        /\ \A k \in 1 .. Len(r) : k < l + 1 => r[k] # Point
        /\ l + 1 <= Len(r) => r[l + 1] = Point
    <3>1. ASSUME NEW k \in 1 .. l PROVE r[k] # Point
      <4>1. i + k \in 1 .. n /\ r[k] = s[i + k]
        BY <1>12
      <4>2. i + k # i
        BY <1>1
      <4> QED BY ONLY <1>2, <4>1, <4>2
    <3>2. /\ l + 1 \in 1 .. l + 1 /\ (l + 1) - 1 = l /\ ~ (l + 1 <= l)
      OBVIOUS
    <3> QED BY ONLY <1>12, <3>1, <3>2
  <2>3. WholePart(r) = SubSeq(r, 1, l)
    BY ONLY <1>12, <2>2, WholeIs
  <2>4. PICK t : t = SubSeq(r, 1, l)
    OBVIOUS
  <2>5. /\ 1 \in Nat \ {0} /\ 1 <= l + 1 /\ l <= Len(r) /\ l + 1 - 1 = l
        /\ \A k \in 1 .. l : (1 - 1) + k = k
    BY <1>12
  <2>6. /\ IsSeq(t) /\ Len(t) = l + 1 - 1
        /\ \A k \in 1 .. l + 1 - 1 : t[k] = r[(1 - 1) + k]
    BY ONLY <1>12, <2>4, <2>5, CutIs, l \in Nat
  <2>7. t = r
    BY ONLY <1>12, <2>5, <2>6, SeqsEqual
  <2> QED BY <2>1, <2>3, <2>4, <2>7
<1>14. PICK j \in Nat : j = IF i <= n THEN m - i ELSE 0
  <2>1. CASE i <= n
    <3>1. m - i \in Nat
      BY <1>1, <2>1
    <3> QED BY <2>1, <3>1
  <2>2. CASE ~ (i <= n)
    BY <2>2
  <2> QED BY <2>1, <2>2
<1>15. PICK d : d = Digits(r)
  OBVIOUS
<1>16. IsSeq(d) /\ Len(d) = j /\ \A k \in 1 .. j : d[k] = s[i + k]
  <2>1. j \in 0 .. l /\ \A k \in 1 .. l : k <= j <=> i + k <= m
    BY <1>1, <1>10, <1>14
  <2>2. /\ j \in 0 .. Len(r)
        /\ \A k \in 1 .. Len(r) : r[k] \in 0 .. 9 <=> k <= j
    <3>1. ASSUME NEW k \in 1 .. l PROVE r[k] \in 0 .. 9 <=> k <= j
      <4>1. r[k] = s[i + k] /\ i + k \in 1 .. n /\ i < i + k
        BY <1>12
      <4>2. i + k <= m \/ m < i + k
        OBVIOUS
      <4>3. k <= j <=> i + k <= m
        BY <2>1
      <4>4. (i + k <= m => s[i + k] \in 0 .. 9) /\ (m < i + k => s[i + k] \notin 0 .. 9)
        BY <1>2, <4>1
      <4>5. ~ (i + k <= m /\ m < i + k)
        OBVIOUS
      <4> QED BY ONLY <4>1, <4>2, <4>3, <4>4, <4>5
    <3> QED BY ONLY <1>12, <2>1, <3>1
  <2>3. d = SubSeq(r, 1, j)
    BY ONLY <1>12, <1>15, <2>2, DigitsAre
  <2>4. /\ 1 \in Nat \ {0} /\ 1 <= j + 1 /\ j <= Len(r) /\ j + 1 - 1 = j
        /\ \A k \in 1 .. j : (1 - 1) + k = k /\ k \in 1 .. l
    BY <1>12, <2>1
  <2>5. /\ IsSeq(d) /\ Len(d) = j + 1 - 1
        /\ \A k \in 1 .. j + 1 - 1 : d[k] = r[(1 - 1) + k]
    <3>1. IsSeq(r) /\ 1 \in Nat \ {0} /\ j \in Nat /\ 1 <= j + 1 /\ j <= Len(r)
      BY <1>12, <2>4
    <3> QED BY ONLY <2>3, <3>1, CutIs
  <2> QED BY ONLY <1>12, <2>4, <2>5
<1>17. PadEnd(Slice(d)) = [k \in 1 .. Decimals |-> IF i + k <= m THEN s[i + k] ELSE 0]
  <2>1. PadEnd(Slice(d)) = [k \in 1 .. Decimals |-> IF k <= Len(d) THEN d[k] ELSE 0]
    BY ONLY <1>16, PaddedEnd
  <2>2. ASSUME NEW k \in 1 .. Decimals
        PROVE  (IF k <= Len(d) THEN d[k] ELSE 0) = IF i + k <= m THEN s[i + k] ELSE 0
    <3>1. k \in Nat /\ k >= 1
      BY HistoryAssumption
    <3>2. k <= j <=> i + k <= m
      BY <1>1, <1>14, <3>1
    <3>3. k <= j => d[k] = s[i + k]
      BY ONLY <1>16, <3>1, j \in Nat
    <3> QED BY ONLY <1>16, <3>2, <3>3
  <2> QED BY ONLY <2>1, <2>2
<1>18. w # <<>>
  <2>1. n # 0
    <3>1. ASSUME n = 0 PROVE FALSE
      <4>1. \A k \in 1 .. Len(s) : s[k] = <<>>[k]
        BY <1>1, <3>1
      <4>2. s = <<>>
        BY ONLY <1>1, <3>1, <4>1, NoneIsSeq, SeqsEqual, <1>0
      <4> QED BY <4>2
    <3> QED BY <3>1
  <2> QED BY <1>4, <2>1, NoneIsSeq
<1>19. parseStbToUstb(text) = Number(a) * Scale + Number(PadEnd(Slice(d)))
  BY ONLY <1>3, <1>7, <1>9, <1>13, <1>15, <1>18, Trim(text) = s DEF parseStbToUstb
<1> QED BY ONLY <1>8, <1>17, <1>19

\* A text that means an amount is read as this amount.
LEMMA MeantIsRead ==
  ASSUME NEW s \in Seq(0 .. Letter), NEW n \in Nat, IsAmount(s, n)
  PROVE  parseStbToUstb(s) = n
<1>0. IsSeq(s)
  BY SeqTyped
<1>1. PICK l \in Nat : l = Len(s)
  BY <1>0, SeqParts
<1>2. PICK from \in 1 .. l + 1, to \in 1 .. l + 1 :
        \E sep \in from .. to : AmountAt(s, n, from, sep, to)
  BY <1>1 DEF IsAmount
<1>3. PICK sep \in from .. to : AmountAt(s, n, from, sep, to)
  BY <1>2
<1>4. /\ from < to
      /\ \A k \in 1 .. l :
           s[k] \in IF k < from \/ k >= to THEN {Space}
                   ELSE IF k = sep THEN {Point, Comma} ELSE 0 .. 9
      /\ n = Number(SubSeq(s, from, sep - 1)) * Scale
               + Number([k \in 1 .. Decimals |-> IF sep + k < to THEN s[sep + k] ELSE 0])
  BY <1>1, <1>3 DEF AmountAt
<1>5. PICK t, m, i : t = SubSeq(s, from, to - 1) /\ m = to - from /\ i = sep - from + 1
  OBVIOUS
<1>6. /\ m \in Nat \ {0} /\ i \in 1 .. m + 1
      /\ from \in Nat \ {0} /\ to - 1 \in Nat /\ from <= (to - 1) + 1 /\ to - 1 <= l
      /\ (to - 1) + 1 - from = m
      /\ \A k \in 1 .. m : /\ (from - 1) + k \in from .. to - 1
                           /\ (from - 1) + k = sep <=> k = i
      /\ \A k \in 1 .. m : (from - 1) + k \in 1 .. l
  BY <1>4, <1>5
<1>7. /\ IsSeq(t) /\ Len(t) = m
      /\ \A k \in 1 .. m : t[k] = s[(from - 1) + k]
  <2>1. /\ IsSeq(t) /\ Len(t) = (to - 1) + 1 - from
        /\ \A k \in 1 .. (to - 1) + 1 - from : t[k] = s[(from - 1) + k]
    BY ONLY <1>0, <1>1, <1>5, <1>6, CutIs
  <2> QED BY ONLY <1>6, <2>1
<1>8. ASSUME NEW k \in 1 .. m PROVE t[k] \in IF k = i THEN {Point, Comma} ELSE 0 .. 9
  <2>1. PICK j : j = (from - 1) + k
    OBVIOUS
  <2>2. j \in 1 .. l /\ ~ (j < from \/ j >= to) /\ (j = sep <=> k = i)
    <3>1. j \in 1 .. l /\ j \in from .. to - 1 /\ (j = sep <=> k = i)
      BY ONLY <1>6, <2>1, k \in 1 .. m
    <3> QED BY ONLY <1>4, <3>1
  <2>3. s[j] \in IF j = sep THEN {Point, Comma} ELSE 0 .. 9
    BY ONLY <1>4, <2>2
  <2> QED BY ONLY <1>7, <2>1, <2>2, <2>3, k \in 1 .. m
<1>9. Trim(s) = t
  <2>1. /\ from \in 1 .. Len(s) /\ to - 1 \in from .. Len(s)
        /\ \A k \in 1 .. Len(s) : k < from \/ k > to - 1 => s[k] = Space
    BY <1>1, <1>4
  <2>2. ASSUME NEW j \in from .. to - 1 PROVE s[j] # Space
    <3>1. j \in 1 .. l /\ ~ (j < from \/ j >= to)
      BY <1>4
    <3>2. s[j] \in IF j = sep THEN {Point, Comma} ELSE 0 .. 9
      BY ONLY <1>4, <3>1
    <3>3. \A x \in 0 .. 9 : x # Space
      BY DEF Space
    <3>4. Point # Space /\ Comma # Space
      BY DEF Point, Comma, Space
    <3> QED BY ONLY <3>2, <3>3, <3>4
  <2>3. s[from] # Space /\ s[to - 1] # Space
    BY <1>4, <2>2
  <2> QED BY ONLY <1>0, <1>5, <2>1, <2>3, TrimIs
<1>10. /\ i \in 1 .. Len(t) + 1 /\ m \in 0 .. Len(t)
       /\ i <= Len(t) => i <= m
       /\ i > Len(t) => m = Len(t)
       /\ t # <<>>
  BY <1>6, <1>7, NoneIsSeq
<1>11. \A k \in 1 .. Len(t) :
        t[k] \in IF k < i THEN 0 .. 9 ELSE IF k = i THEN {Point, Comma}
                 ELSE IF k <= m THEN 0 .. 9 ELSE {Space, Letter}
  <2>1. ASSUME NEW k \in 1 .. m
        PROVE  t[k] \in IF k < i THEN 0 .. 9 ELSE IF k = i THEN {Point, Comma}
                        ELSE IF k <= m THEN 0 .. 9 ELSE {Space, Letter}
    <3>1. k <= m /\ (k < i => k # i)
      BY <1>6
    <3> QED BY ONLY <1>8, <3>1, k \in 1 .. m
  <2> QED BY ONLY <1>7, <2>1
<1>12. parseStbToUstb(s)
         = Number(SubSeq(t, 1, i - 1)) * Scale
             + Number([k \in 1 .. Decimals |-> IF i + k <= m THEN t[i + k] ELSE 0])
  <2>1. IsText(t, i, m)
    <3>1. IsSeq(t) /\ t # <<>>
      BY <1>7, <1>10
    <3> QED BY ONLY <1>10, <1>11, <3>1, Zenon DEF IsText
  <2> QED BY ONLY <1>9, <2>1, ParseIs
<1>13. SubSeq(t, 1, i - 1) = SubSeq(s, from, sep - 1)
  <2>1. PICK a, b : a = SubSeq(t, 1, i - 1) /\ b = SubSeq(s, from, sep - 1)
    OBVIOUS
  <2>2. /\ 1 \in Nat \ {0} /\ i - 1 \in Nat /\ 1 <= (i - 1) + 1 /\ i - 1 <= Len(t)
        /\ (i - 1) + 1 - 1 = i - 1
        /\ sep - 1 \in Nat /\ from <= (sep - 1) + 1 /\ sep - 1 <= Len(s)
        /\ (sep - 1) + 1 - from = i - 1
        /\ \A k \in 1 .. i - 1 : (1 - 1) + k = k /\ k \in 1 .. m
    BY <1>1, <1>4, <1>5, <1>6, <1>7
  <2>3. /\ IsSeq(a) /\ Len(a) = (i - 1) + 1 - 1
        /\ \A k \in 1 .. (i - 1) + 1 - 1 : a[k] = t[(1 - 1) + k]
    BY ONLY <1>7, <2>1, <2>2, CutIs
  <2>4. /\ IsSeq(b) /\ Len(b) = (sep - 1) + 1 - from
        /\ \A k \in 1 .. (sep - 1) + 1 - from : b[k] = s[(from - 1) + k]
    BY ONLY <1>0, <1>6, <2>1, <2>2, CutIs
  <2>5. Len(a) = i - 1 /\ Len(b) = i - 1 /\ \A k \in 1 .. i - 1 : a[k] = b[k]
    <3>1. \A k \in 1 .. (i - 1) + 1 - 1 : a[k] = t[(1 - 1) + k]
      BY <2>3
    <3>2. \A k \in 1 .. i - 1 : a[k] = t[k] /\ t[k] = s[(from - 1) + k]
      BY ONLY <1>7, <2>2, <3>1
    <3>3. \A k \in 1 .. i - 1 : b[k] = s[(from - 1) + k]
      BY ONLY <2>2, <2>4
    <3>4. Len(a) = i - 1 /\ Len(b) = i - 1
      BY ONLY <2>2, <2>3, <2>4
    <3> QED BY ONLY <3>2, <3>3, <3>4
  <2>6. a = b
    BY ONLY <2>3, <2>4, <2>5, SeqsEqual
  <2> QED BY <2>1, <2>6
<1>14. ASSUME NEW k \in 1 .. Decimals
       PROVE  (IF i + k <= m THEN t[i + k] ELSE 0) = IF sep + k < to THEN s[sep + k] ELSE 0
  <2>1. k \in Nat /\ k >= 1
    BY HistoryAssumption
  <2>2. /\ i + k <= m <=> sep + k < to
        /\ (from - 1) + (i + k) = sep + k
        /\ i + k <= m => i + k \in 1 .. m
    BY <1>4, <1>5, <1>6, <2>1
  <2> QED BY ONLY <1>7, <2>2
<1> QED BY ONLY <1>4, <1>12, <1>13, <1>14

\* The text of the digits a and the decimals b, and the word "STB".
WithUnit(a, b) == a \o <<Point>> \o b \o <<Space, Letter, Letter, Letter>>

\* What such a text consists of.
LEMMA ShownText ==
  ASSUME NEW l \in Nat \ {0}, NEW d \in Nat \ {0},
         NEW a \in [1 .. l -> 0 .. 9], NEW r \in [1 .. d -> 0 .. 9],
         NEW s, s = WithUnit(a, r)
  PROVE  /\ IsText(s, l + 1, l + 1 + d) /\ Trim(s) = s
         /\ l + 1 + d <= Len(s)
         /\ \A k \in 1 .. l : s[k] = a[k]
         /\ \A k \in 1 .. d : s[l + 1 + k] = r[k]
<1>1. PICK p, w : p = <<Point>> /\ w = <<Space, Letter, Letter, Letter>>
  OBVIOUS
<1>2. /\ IsSeq(p) /\ Len(p) = 1 /\ p[1] = Point
      /\ IsSeq(w) /\ Len(w) = 4 /\ \A k \in 1 .. 4 : w[k] \in {Space, Letter}
      /\ w[4] = Letter
  <2>1. p \in Seq({Point}) /\ w \in Seq({Space, Letter})
    BY <1>1
  <2>2. /\ Len(p) = 1 /\ p[1] = Point /\ Len(w) = 4
        /\ w[1] = Space /\ w[2] = Letter /\ w[3] = Letter /\ w[4] = Letter
    BY <1>1
  <2>3. \A k \in 1 .. 4 : k = 1 \/ k = 2 \/ k = 3 \/ k = 4
    OBVIOUS
  <2> QED BY <2>1, <2>2, <2>3, SeqTyped
<1>3. IsSeq(a) /\ Len(a) = l /\ IsSeq(r) /\ Len(r) = d
  <2>1. a = [k \in 1 .. l |-> a[k]] /\ r = [k \in 1 .. d |-> r[k]] /\ l \in Nat /\ d \in Nat
    OBVIOUS
  <2> QED BY ONLY <2>1, SeqMade
<1>4. PICK t, u : t = a \o p /\ u = t \o r
  OBVIOUS
<1>5. s = u \o w
  BY <1>1, <1>4 DEF WithUnit
<1>6. /\ IsSeq(t) /\ Len(t) = l + 1
      /\ \A k \in 1 .. l : t[k] = a[k]
      /\ t[l + 1] = Point
  <2>1. /\ IsSeq(t) /\ Len(t) = Len(a) + Len(p)
        /\ \A k \in 1 .. Len(a) : t[k] = a[k]
        /\ \A k \in 1 .. Len(p) : t[Len(a) + k] = p[k]
    <3>1. IsSeq(a) /\ IsSeq(p) /\ t = a \o p
      BY ONLY <1>2, <1>3, <1>4
    <3> QED BY ONLY <3>1, SeqJoined
  <2>2. 1 \in 1 .. 1
    OBVIOUS
  <2> QED BY ONLY <1>2, <1>3, <2>1, <2>2
<1>7. /\ IsSeq(u) /\ Len(u) = l + 1 + d
      /\ \A k \in 1 .. l + 1 : u[k] = t[k]
      /\ \A k \in 1 .. d : u[l + 1 + k] = r[k]
  <2>1. /\ IsSeq(u) /\ Len(u) = Len(t) + Len(r)
        /\ \A k \in 1 .. Len(t) : u[k] = t[k]
        /\ \A k \in 1 .. Len(r) : u[Len(t) + k] = r[k]
    <3>1. IsSeq(t) /\ IsSeq(r) /\ u = t \o r
      BY ONLY <1>3, <1>6, <1>4
    <3> QED BY ONLY <3>1, SeqJoined
  <2> QED BY ONLY <1>3, <1>6, <2>1
<1>8. /\ IsSeq(s) /\ Len(s) = l + 1 + d + 4
      /\ \A k \in 1 .. l + 1 + d : s[k] = u[k]
      /\ \A k \in 1 .. 4 : s[l + 1 + d + k] = w[k]
  <2>1. /\ IsSeq(s) /\ Len(s) = Len(u) + Len(w)
        /\ \A k \in 1 .. Len(u) : s[k] = u[k]
        /\ \A k \in 1 .. Len(w) : s[Len(u) + k] = w[k]
    <3>1. IsSeq(u) /\ IsSeq(w) /\ s = u \o w
      BY ONLY <1>2, <1>7, <1>5
    <3> QED BY ONLY <3>1, SeqJoined
  <2> QED BY ONLY <1>2, <1>7, <2>1
<1>9. ASSUME NEW k \in 1 .. l PROVE s[k] = a[k] /\ s[k] \in 0 .. 9
  <2>1. k \in 1 .. l + 1 /\ k \in 1 .. l + 1 + d
    OBVIOUS
  <2> QED BY <1>6, <1>7, <1>8, <2>1
<1>10. s[l + 1] = Point
  <2>1. l + 1 \in 1 .. l + 1 /\ l + 1 \in 1 .. l + 1 + d
    OBVIOUS
  <2> QED BY ONLY <1>6, <1>7, <1>8, <2>1
<1>11. ASSUME NEW k \in 1 .. d PROVE s[l + 1 + k] = r[k] /\ s[l + 1 + k] \in 0 .. 9
  <2>1. l + 1 + k \in 1 .. l + 1 + d
    OBVIOUS
  <2> QED BY <1>7, <1>8, <2>1
<1>12. \A k \in 1 .. Len(s) :
         s[k] \in IF k < l + 1 THEN 0 .. 9 ELSE IF k = l + 1 THEN {Point, Comma}
                  ELSE IF k <= l + 1 + d THEN 0 .. 9 ELSE {Space, Letter}
  <2> SUFFICES ASSUME NEW k \in 1 .. Len(s)
               PROVE  s[k] \in IF k < l + 1 THEN 0 .. 9 ELSE IF k = l + 1 THEN {Point, Comma}
                               ELSE IF k <= l + 1 + d THEN 0 .. 9 ELSE {Space, Letter}
    OBVIOUS
  <2>1. \/ k \in 1 .. l /\ k < l + 1
        \/ k = l + 1 /\ ~ (k < l + 1)
        \/ /\ k - (l + 1) \in 1 .. d /\ l + 1 + (k - (l + 1)) = k
           /\ ~ (k < l + 1) /\ k # l + 1 /\ k <= l + 1 + d
        \/ /\ k - (l + 1 + d) \in 1 .. 4 /\ l + 1 + d + (k - (l + 1 + d)) = k
           /\ ~ (k < l + 1) /\ k # l + 1 /\ ~ (k <= l + 1 + d)
    BY <1>8
  <2>2. CASE k \in 1 .. l /\ k < l + 1
    BY ONLY <1>9, <2>2
  <2>3. CASE k = l + 1 /\ ~ (k < l + 1)
    BY ONLY <1>10, <2>3
  <2>4. CASE /\ k - (l + 1) \in 1 .. d /\ l + 1 + (k - (l + 1)) = k
             /\ ~ (k < l + 1) /\ k # l + 1 /\ k <= l + 1 + d
    <3>1. PICK j \in 1 .. d : l + 1 + j = k
      BY <2>4
    <3>2. s[k] \in 0 .. 9
      BY ONLY <1>11, <3>1
    <3> QED BY ONLY <2>4, <3>2
  <2>5. CASE /\ k - (l + 1 + d) \in 1 .. 4 /\ l + 1 + d + (k - (l + 1 + d)) = k
             /\ ~ (k < l + 1) /\ k # l + 1 /\ ~ (k <= l + 1 + d)
    <3>1. PICK j \in 1 .. 4 : l + 1 + d + j = k
      BY <2>5
    <3>2. s[k] \in {Space, Letter}
      BY ONLY <1>2, <1>8, <3>1
    <3> QED BY ONLY <2>5, <3>2
  <2> QED BY ONLY <2>1, <2>2, <2>3, <2>4, <2>5
<1>13. IsText(s, l + 1, l + 1 + d)
  <2>1. s # <<>>
    BY <1>8, NoneIsSeq
  <2>2. /\ l + 1 \in 1 .. Len(s) + 1 /\ l + 1 + d \in 0 .. Len(s)
        /\ l + 1 <= l + 1 + d /\ ~ (l + 1 > Len(s))
    <3>1. PICK n \in Nat : n = Len(s) /\ n = l + 1 + d + 4
      BY <1>8
    <3>2. /\ l + 1 \in 1 .. n + 1 /\ l + 1 + d \in 0 .. n
          /\ l + 1 <= l + 1 + d /\ ~ (l + 1 > n)
      BY <3>1
    <3> QED BY ONLY <3>1, <3>2
  <2> QED BY ONLY <1>8, <1>12, <2>1, <2>2 DEF IsText
<1>14. Trim(s) = s
  <2>1. PICK n \in Nat \ {0} : n = Len(s) /\ n = l + 1 + d + 4
    BY <1>8
  <2>2. s[1] # Space /\ s[n] # Space
    <3>1. s[1] \in 0 .. 9 /\ s[n] = Letter
      <4>1. 1 \in 1 .. l /\ 4 \in 1 .. 4
        OBVIOUS
      <4> QED BY ONLY <1>2, <1>8, <1>9, <2>1, <4>1
    <3>2. Letter # Space /\ \A x \in 0 .. 9 : x # Space
      BY DEF Space, Letter
    <3> QED BY ONLY <3>1, <3>2
  <2>3. 1 \in 1 .. Len(s) /\ n \in 1 .. Len(s) /\ \A k \in 1 .. Len(s) : ~ (k < 1 \/ k > n)
    BY <2>1
  <2>4. Trim(s) = SubSeq(s, 1, n)
    BY ONLY <1>8, <2>2, <2>3, TrimIs
  <2>5. PICK v : v = SubSeq(s, 1, n)
    OBVIOUS
  <2>6. IsSeq(v) /\ Len(v) = n + 1 - 1 /\ \A k \in 1 .. n + 1 - 1 : v[k] = s[(1 - 1) + k]
    <3>1. 1 \in Nat \ {0} /\ n \in Nat /\ 1 <= n + 1 /\ n <= Len(s)
      BY <2>1
    <3> QED BY ONLY <1>8, <2>5, <3>1, CutIs
  <2>7. Len(v) = Len(s) /\ \A k \in 1 .. Len(v) : v[k] = s[k]
    <3>1. n + 1 - 1 = n /\ \A k \in 1 .. n : (1 - 1) + k = k
      BY <2>1
    <3> QED BY ONLY <2>1, <2>6, <3>1
  <2>8. v = s
    BY ONLY <1>8, <2>6, <2>7, SeqsEqual
  <2> QED BY <2>4, <2>5, <2>8
<1>15. l + 1 + d <= Len(s)
  BY <1>8
<1> QED BY ONLY <1>9, <1>11, <1>13, <1>14, <1>15

\* An amount below the precision of a double is shown so that typing what is
\* shown gives it again.
LEMMA ShownIsRead ==
  ASSUME NEW n \in Nat, n < Pow2[Precision]
  PROVE  parseStbToUstb(formatUstb(Coin("ustb", n))) = n
<1>1. PICK q, r, d : q = n \div Scale /\ r = n % Scale /\ d = Decimals
  OBVIOUS
<1>2. Scale \in Nat \ {0} /\ Scale = Pow10[d] /\ d \in Nat \ {0}
  BY <1>1, Pow10Powers, HistoryAssumption DEF Scale, ArePowers
<1>3. q \in Nat /\ r \in Nat /\ r < Scale /\ n = q * Scale + r
  <2>1. q \in Nat /\ r \in 0 .. Scale - 1 /\ n = Scale * q + r
    BY ONLY <1>1, <1>2, Quotient, n \in Nat
  <2>2. Scale * q = q * Scale
    BY <1>2, <2>1, Products
  <2> QED BY <1>2, <2>1, <2>2
<1>4. PICK l \in Nat \ {0} : q < Pow10[l] /\ Numeral(q) = Figures(q, l)
  BY ONLY <1>3, NumeralIs
<1>5. PICK a, b : a = Figures(q, l) /\ b = Figures(r, d)
  OBVIOUS
<1>6. a \in [1 .. l -> 0 .. 9] /\ Number(a) = q
  BY ONLY <1>3, <1>4, <1>5, FiguresRead, l \in Nat \ {0}, Nat \ {0} \subseteq Nat
<1>7. b \in [1 .. d -> 0 .. 9] /\ Number(b) = r
  <2>1. d \in Nat
    BY <1>2
  <2> QED BY ONLY <1>2, <1>3, <1>5, <2>1, FiguresRead
<1>8. PICK s : s = formatUstb(Coin("ustb", n))
  OBVIOUS
<1>9. s = a \o <<Point>> \o b \o <<Space, Letter, Letter, Letter>>
  <2>1. Double(n) = n
    BY DEF Double
  <2>2. FloorQuotient(n, Scale) = q
    BY ONLY <1>1, <1>2, FloorIs, n \in Nat, n < Pow2[Precision]
  <2>3. PadStart(Numeral(r)) = b
    BY ONLY <1>1, <1>3, <1>5, PaddedIs
  <2>4. Coin("ustb", n).n = n /\ Coin("ustb", n).denom = "ustb"
    BY DEF Coin
  <2> QED BY ONLY <1>1, <1>4, <1>5, <1>8, <2>1, <2>2, <2>3, <2>4 DEF formatUstb
<1>10. PICK i, m : i = l + 1 /\ m = l + 1 + d
  OBVIOUS
<1>11. /\ IsText(s, i, m) /\ Trim(s) = s /\ m <= Len(s)
       /\ \A k \in 1 .. l : s[k] = a[k]
       /\ \A k \in 1 .. d : s[i + k] = b[k]
  <2>1. /\ IsText(s, l + 1, l + 1 + d) /\ Trim(s) = s
        /\ l + 1 + d <= Len(s)
        /\ \A k \in 1 .. l : s[k] = a[k]
        /\ \A k \in 1 .. d : s[l + 1 + k] = b[k]
    <3>1. /\ l \in Nat \ {0} /\ d \in Nat \ {0}
          /\ a \in [1 .. l -> 0 .. 9] /\ b \in [1 .. d -> 0 .. 9]
          /\ s = WithUnit(a, b)
      BY <1>2, <1>6, <1>7, <1>9 DEF WithUnit
    <3> QED BY ONLY <3>1, ShownText
  <2> QED BY ONLY <1>10, <2>1
<1>12. parseStbToUstb(s)
         = Number(SubSeq(s, 1, i - 1)) * Scale
             + Number([k \in 1 .. Decimals |-> IF i + k <= m THEN s[i + k] ELSE 0])
  BY ONLY <1>11, ParseIs
<1>13. SubSeq(s, 1, i - 1) = a
  <2>1. PICK c : c = SubSeq(s, 1, i - 1)
    OBVIOUS
  <2>2. IsSeq(s) /\ Len(s) \in Nat
    BY <1>11, SeqParts DEF IsText
  <2>3. i - 1 = l /\ 1 \in Nat \ {0} /\ l \in Nat /\ 1 <= l + 1 /\ l <= Len(s)
    BY <1>2, <1>10, <1>11, <2>2
  <2>4. IsSeq(c) /\ Len(c) = l + 1 - 1 /\ \A k \in 1 .. l + 1 - 1 : c[k] = s[(1 - 1) + k]
    BY ONLY <2>1, <2>2, <2>3, CutIs
  <2>5. l + 1 - 1 = l /\ \A k \in 1 .. l : (1 - 1) + k = k
    OBVIOUS
  <2>6. IsSeq(a) /\ Len(a) = l
    <3>1. a = [k \in 1 .. l |-> a[k]]
      BY <1>6
    <3> QED BY ONLY <2>3, <3>1, SeqMade
  <2>7. Len(c) = l /\ \A k \in 1 .. l : c[k] = a[k]
    BY ONLY <1>11, <2>4, <2>5
  <2>8. c = a
    BY ONLY <2>4, <2>6, <2>7, SeqsEqual
  <2> QED BY <2>1, <2>8
<1>14. [k \in 1 .. Decimals |-> IF i + k <= m THEN s[i + k] ELSE 0] = b
  <2>1. \A k \in 1 .. d : i + k <= m
    BY <1>2, <1>10
  <2>2. b = [k \in 1 .. d |-> b[k]]
    BY <1>7
  <2> QED BY ONLY <1>1, <1>11, <2>1, <2>2
<1> QED BY ONLY <1>3, <1>6, <1>7, <1>8, <1>12, <1>13, <1>14

-----------------------------------------------------------------------------
(***************************************************************************)
(* The transaction sent from the form.                                     *)
(***************************************************************************)
\* By its messages the transaction moved nothing but n ustb, once.
MovesOnly(tx, n) ==
  Moved(tx) # {} /\ \A tr \in Moved(tx) : tr.amount = <<Coin("ustb", n)>>

\* The hash of the form's transaction is one of the chain, whose message moves
\* the amount read of what was typed.
SentInv ==
  /\ HistoryInv
  /\ typed \in Typed
  /\ \A i \in 1 .. Len(chain) : chain[i].hash # 0
  /\ sent # 0 =>
       /\ parseStbToUstb(typed.text) \in Nat
       /\ \E i \in 1 .. Len(chain) :
            /\ chain[i].hash = sent
            /\ MovesOnly(chain[i], parseStbToUstb(typed.text))

\* What the form sends moves the amount read of what was typed.
LEMMA SendMoves ==
  ASSUME NEW to, NEW hash, NEW height, NEW n \in Nat, n = parseStbToUstb(typed.text)
  PROVE  MovesOnly(Tx(SendBody(to), hash, height), n)
<1> DEFINE c == Coin("ustb", n)
           m == <<Me, to, <<c>>>>
           fee == Transfer(Me, FeeCollector, <<Coin("ustb", Fee)>>, FALSE)
           move == Transfer(Me, to, <<c>>, TRUE)
<1>1. PICK b : b = SendBody(to)
  OBVIOUS
<1>2. b.signer = Me /\ b.fee = Fee /\ b.ok = TRUE /\ b.moves = <<m>>
  BY <1>1 DEF SendBody
<1>3. m[1] = Me /\ m[2] = to /\ m[3] = <<c>>
  <2> HIDE DEF c
  <2> QED OBVIOUS
<1> HIDE DEF m
<1>4. Len(b.moves) = 1 /\ b.moves[1] = m
  BY <1>2
<1>5. PICK F : F = IF Fee = 0 THEN <<>> ELSE <<fee>>
  OBVIOUS
<1>6. PICK M : M = [k \in 1 .. 1 |-> move]
  OBVIOUS
<1>7. Transfers(b) = F \o M
  <2>1. F = IF b.fee = 0 THEN <<>>
            ELSE <<Transfer(b.signer, FeeCollector, <<Coin("ustb", b.fee)>>, FALSE)>>
    BY <1>2, <1>5
  <2>2. M = IF b.ok THEN [k \in 1 .. Len(b.moves) |->
                            Transfer(b.moves[k][1], b.moves[k][2], b.moves[k][3], TRUE)]
            ELSE <<>>
    <3>1. M = [k \in 1 .. Len(b.moves) |->
                 Transfer(b.moves[k][1], b.moves[k][2], b.moves[k][3], TRUE)]
      <4>1. \A k \in 1 .. 1 : k = 1
        OBVIOUS
      <4> HIDE DEF c
      <4> QED BY <1>3, <1>4, <1>6, <4>1
    <3> QED BY <1>2, <3>1
  <2> QED BY ONLY <2>1, <2>2 DEF Transfers
<1>8. fee.msg_index = FALSE
  BY DEF Transfer
<1>9. move.sender = Me /\ move.amount = <<c>> /\ move.msg_index = TRUE
  <2> HIDE DEF c
  <2> QED BY DEF Transfer
<1>10. c.denom = "ustb"
  BY DEF Coin
<1> HIDE DEF fee, move, c
<1>11. IsSeq(F) /\ \A x \in Range(F) : x = fee
  <2>1. IsSeq(<<fee>>) /\ Range(<<fee>>) = {fee} /\ Range(<<>>) = {}
    BY OneIsSeq DEF Range
  <2> QED BY <1>5, <2>1, NoneIsSeq
<1>12. IsSeq(M) /\ Len(M) = 1 /\ M[1] = move
  <2>1. M = [k \in 1 .. 1 |-> M[k]] /\ 1 \in Nat /\ M[1] = move
    BY <1>6
  <2> QED BY ONLY <2>1, SeqMade
<1>13. PICK E : E = F \o M
  OBVIOUS
<1>14. /\ IsSeq(E) /\ Len(E) = Len(F) + 1 /\ Len(F) \in Nat
       /\ E[Len(F) + 1] = move
  <2>1. /\ IsSeq(E) /\ Len(E) = Len(F) + Len(M)
        /\ \A k \in 1 .. Len(M) : E[Len(F) + k] = M[k]
    <3>1. IsSeq(F) /\ IsSeq(M)
      BY <1>11, <1>12
    <3>2. /\ IsSeq(F \o M) /\ Len(F \o M) = Len(F) + Len(M)
          /\ \A k \in 1 .. Len(M) : (F \o M)[Len(F) + k] = M[k]
      BY ONLY <3>1, SeqJoined
    <3> QED BY ONLY <1>13, <3>2
  <2>2. 1 \in 1 .. 1 /\ Len(F) \in Nat
    BY <1>11, SeqParts
  <2> QED BY ONLY <1>12, <2>1, <2>2
<1>15. \A x \in Range(E) : x = fee \/ x = move
  <2> SUFFICES ASSUME NEW k \in 1 .. Len(E) PROVE E[k] = fee \/ E[k] = move
    BY <1>14, SeqParts
  <2>1. \/ \E j \in 1 .. Len(F) : E[k] = F[j]
        \/ \E j \in 1 .. Len(M) : E[k] = M[j]
    <3>1. IsSeq(F) /\ IsSeq(M) /\ k \in 1 .. Len(F \o M)
      BY <1>11, <1>12, <1>13
    <3>2. \/ \E j \in 1 .. Len(F) : (F \o M)[k] = F[j]
          \/ \E j \in 1 .. Len(M) : (F \o M)[k] = M[j]
      BY ONLY <3>1, SeqJoinedFrom
    <3> QED BY ONLY <1>13, <3>2
  <2>2. \A j \in 1 .. Len(F) : F[j] = fee
    BY <1>11, SeqParts
  <2>3. \A j \in 1 .. Len(M) : M[j] = move
    <3>1. \A j \in 1 .. 1 : j = 1
      OBVIOUS
    <3> QED BY ONLY <1>12, <3>1
  <2> QED BY ONLY <2>1, <2>2, <2>3
<1>16. move \in Range(E)
  <2>1. Len(F) + 1 \in 1 .. Len(E)
    BY <1>14
  <2> QED BY <1>14, <2>1, SeqParts
<1>17. IsCandidate(move)
  <2>1. Len(move.amount) = 1 /\ move.amount[1] = c
    BY <1>9
  <2>2. 1 \in UstbPlaces(move)
    BY <1>10, <2>1, HistoryAssumption DEF UstbPlaces
  <2> QED BY <1>9, <2>2 DEF IsCandidate, Touching
<1>18. PICK tx : tx = Tx(SendBody(to), hash, height)
  OBVIOUS
<1>19. tx.events = E
  BY <1>1, <1>7, <1>13, <1>18 DEF Tx
<1>20. move \in Moved(tx) /\ \A tr \in Moved(tx) : tr = move
  BY <1>8, <1>9, <1>15, <1>16, <1>17, <1>19 DEF Moved
<1> QED BY <1>9, <1>18, <1>20 DEF MovesOnly, c

\* One more transaction on the chain.
LEMMA ExecuteAppends ==
  ASSUME SentInv, NEW b, NEW hash \in Hashes, Execute(b, hash)
  PROVE  /\ typed' = typed /\ Len(chain') = Len(chain) + 1 /\ Len(chain) \in Nat
         /\ \A i \in 1 .. Len(chain) : chain'[i] = chain[i]
         /\ \E height : chain'[Len(chain')] = Tx(b, hash, height)
         /\ \A i \in 1 .. Len(chain') : chain'[i].hash # 0
<1>1. PICK height : chain' = Append(chain, Tx(b, hash, height))
  BY DEF Execute
<1>2. typed' = typed
  BY DEF Execute
<1>3. IsSeq(chain) /\ Len(chain) \in Nat
  BY SeqParts DEF SentInv, HistoryInv, ChainOK
<1>4. PICK tx : tx = Tx(b, hash, height)
  OBVIOUS
<1>5. /\ Len(chain') = Len(chain) + 1
      /\ chain'[Len(chain) + 1] = tx
      /\ \A i \in 1 .. Len(chain) : chain'[i] = chain[i]
  <2>1. chain' = Append(chain, tx)
    BY <1>1, <1>4
  <2> QED BY ONLY <1>3, <2>1, SeqAppended
<1>6. tx.hash # 0
  <2>1. hash # 0
    BY HistoryAssumption DEF Hashes, SentInv
  <2> QED BY <1>4, <2>1 DEF Tx
<1>7. ASSUME NEW i \in 1 .. Len(chain') PROVE chain'[i].hash # 0
  <2>1. i \in 1 .. Len(chain) \/ i = Len(chain) + 1
    BY <1>3, <1>5
  <2> QED BY <1>5, <1>6, <2>1 DEF SentInv
<1> QED BY ONLY <1>2, <1>3, <1>4, <1>5, <1>7

\* Before anything is sent there is no hash.
LEMMA SentInit == Init => SentInv
<1> SUFFICES ASSUME Init PROVE SentInv
  OBVIOUS
<1>1. HistoryInv /\ typed \in Typed /\ sent = 0 /\ chain = <<>>
  BY HistoryInit DEF Init
<1>2. \A i \in 1 .. Len(chain) : chain[i].hash # 0
  BY <1>1, NoneIsSeq
<1> QED BY <1>1, <1>2 DEF SentInv

\* Every step keeps it.
LEMMA SentStep == SentInv /\ [Next]_vars => SentInv'
<1> SUFFICES ASSUME SentInv, [Next]_vars PROVE SentInv'
  OBVIOUS
<1>1. HistoryInv'
  BY HistoryStep DEF SentInv
<1>2. PICK n : n = parseStbToUstb(typed.text)
  OBVIOUS
<1>3. ASSUME typed' = typed PROVE parseStbToUstb(typed.text)' = n
  BY <1>2, <1>3
<1>4. CASE ExecuteOther
  <2>1. PICK b \in Bodies, hash \in Hashes : Execute(b, hash)
    BY <1>4 DEF ExecuteOther
  <2>2. /\ typed' = typed /\ Len(chain') = Len(chain) + 1 /\ Len(chain) \in Nat
        /\ \A i \in 1 .. Len(chain) : chain'[i] = chain[i]
        /\ \A i \in 1 .. Len(chain') : chain'[i].hash # 0
    BY ONLY <2>1, ExecuteAppends, SentInv
  <2>3. sent' = sent
    BY <1>4 DEF ExecuteOther
  <2>4. ASSUME sent' # 0
        PROVE  n \in Nat /\ \E i \in 1 .. Len(chain') :
                              chain'[i].hash = sent' /\ MovesOnly(chain'[i], n)
    <3>1. n \in Nat /\ \E i \in 1 .. Len(chain) :
                          chain[i].hash = sent /\ MovesOnly(chain[i], n)
      BY <1>2, <2>3, <2>4 DEF SentInv
    <3>2. PICK i \in 1 .. Len(chain) : chain[i].hash = sent /\ MovesOnly(chain[i], n)
      BY <3>1
    <3>3. i \in 1 .. Len(chain') /\ chain'[i] = chain[i]
      BY <2>2
    <3> QED BY <2>3, <3>1, <3>2, <3>3
  <2>5. typed' \in Typed
    BY <2>2 DEF SentInv
  <2> QED BY ONLY <1>1, <1>3, <2>2, <2>4, <2>5 DEF SentInv
<1>5. CASE HandleSend
  <2>1. /\ parseStbToUstb(typed.text) \in Nat \ {0}
        /\ \E to \in {Me, "other"}, hash \in Hashes :
             Execute(SendBody(to), hash) /\ sent' = hash
    BY <1>5 DEF HandleSend
  <2>2. PICK to \in {Me, "other"}, hash \in Hashes :
          Execute(SendBody(to), hash) /\ sent' = hash
    BY <2>1
  <2>3. PICK b : b = SendBody(to)
    OBVIOUS
  <2>4. /\ typed' = typed /\ Len(chain') = Len(chain) + 1 /\ Len(chain) \in Nat
        /\ \E height : chain'[Len(chain')] = Tx(b, hash, height)
        /\ \A i \in 1 .. Len(chain') : chain'[i].hash # 0
    <3>1. Execute(b, hash) /\ hash \in Hashes
      BY <2>2, <2>3
    <3> QED BY ONLY <3>1, ExecuteAppends, SentInv
  <2>5. PICK height : chain'[Len(chain')] = Tx(b, hash, height)
    BY <2>4
  <2>6. n \in Nat
    BY <1>2, <2>1
  <2>7. MovesOnly(chain'[Len(chain')], n)
    BY <1>2, <2>3, <2>5, <2>6, SendMoves
  <2>8. chain'[Len(chain')].hash = sent'
    BY <2>2, <2>5 DEF Tx
  <2>9. Len(chain') \in 1 .. Len(chain')
    BY <2>4
  <2>10. typed' \in Typed
    BY <2>4 DEF SentInv
  <2> QED BY ONLY <1>1, <1>3, <2>4, <2>6, <2>7, <2>8, <2>9, <2>10 DEF SentInv
<1>6. CASE UNCHANGED <<typed, sent, chain>>
  <2>1. /\ typed \in Typed /\ \A i \in 1 .. Len(chain) : chain[i].hash # 0
        /\ sent # 0 => n \in Nat /\ \E i \in 1 .. Len(chain) :
                                      chain[i].hash = sent /\ MovesOnly(chain[i], n)
    BY <1>2 DEF SentInv
  <2> QED BY ONLY <1>1, <1>3, <1>6, <2>1 DEF SentInv
<1>7. ExecuteOther \/ HandleSend \/ UNCHANGED <<typed, sent, chain>>
  BY DEF Next, Fetch, Answer, Reject, Show, vars
<1> QED BY <1>4, <1>5, <1>6, <1>7

\* What the history shows of the form's transaction.
LEMMA SentShown ==
  ASSUME SentInv, NEW k \in 1 .. Len(items), items[k].txhash = sent
  PROVE  /\ parseStbToUstb(typed.text) \in Nat
         /\ items[k].amountUstb[1] = Coin("ustb", parseStbToUstb(typed.text))
<1>1. PICK n : n = parseStbToUstb(typed.text)
  OBVIOUS
<1>2. PICK i \in 1 .. Len(chain) : items[k] = parseTxResult(chain[i])
  BY DEF SentInv, HistoryInv, AreItems
<1>3. PICK tx : tx = chain[i]
  OBVIOUS
<1>4. tx.hash = sent /\ sent # 0 /\ IsTx(tx)
  BY <1>2, <1>3, ParseKeys DEF SentInv, HistoryInv, ChainOK
<1>5. n \in Nat /\ MovesOnly(tx, n)
  <2>1. n \in Nat /\ \E j \in 1 .. Len(chain) :
                       chain[j].hash = sent /\ MovesOnly(chain[j], n)
    BY <1>1, <1>4 DEF SentInv
  <2>2. PICK j \in 1 .. Len(chain) : chain[j].hash = sent /\ MovesOnly(chain[j], n)
    BY <2>1
  <2>3. i = j
    BY <1>3, <1>4, <2>2 DEF SentInv, HistoryInv, ChainOK
  <2> QED BY <1>3, <2>1, <2>2, <2>3
<1>6. /\ Candidates(tx) # {} /\ Pick(tx) \in Moved(tx)
  BY <1>4, <1>5, LargestPicked DEF MovesOnly
<1>7. PICK tr : tr = Pick(tx)
  OBVIOUS
<1>8. tr.amount = <<Coin("ustb", n)>>
  BY <1>5, <1>6, <1>7 DEF MovesOnly
<1>9. PICK c : c = Coin("ustb", n)
  OBVIOUS
<1>10. UstbPart(tr) = c
  <2>1. Len(tr.amount) = 1 /\ tr.amount[1] = c
    BY <1>8, <1>9
  <2>2. c.denom \in LikeUstb
    BY <1>9, HistoryAssumption DEF Coin
  <2>3. UstbPlaces(tr) = {1}
    <3>1. \A j \in 1 .. 1 : j = 1
      OBVIOUS
    <3>2. 1 \in 1 .. 1
      OBVIOUS
    <3> QED BY <2>1, <2>2, <3>1, <3>2 DEF UstbPlaces
  <2>4. (CHOOSE j \in UstbPlaces(tr) : \A h \in UstbPlaces(tr) : j <= h) = 1
    BY <2>3
  <2> QED BY <2>1, <2>4 DEF UstbPart
<1>11. items[k] = IF tr.sender = Me
                  THEN Item(tx, "send", <<UstbPart(tr)>>, <<tr.recipient>>)
                  ELSE Item(tx, "receive", <<UstbPart(tr)>>, <<tr.sender>>)
  BY <1>2, <1>3, <1>6, <1>7 DEF parseTxResult
<1>12. items[k].amountUstb = <<UstbPart(tr)>>
  BY <1>11 DEF Item
<1>13. items[k].amountUstb[1] = c
  BY <1>10, <1>12
<1> QED BY <1>1, <1>5, <1>9, <1>13

\* The amount shown for a transaction sent from the form is the amount typed,
\* and typing what is shown gives it again, below the precision of a double
\* (parseStbToUstb, formatUstb, parseTxResult).
THEOREM HistoryShownAsTyped == Spec => []ShownAsTyped
<1>1. SentInv => ShownAsTyped
  <2> SUFFICES ASSUME SentInv, NEW k \in 1 .. Len(items), items[k].txhash = sent,
                      typed.means \in 0 .. Pow2[Precision] - 1
               PROVE  parseStbToUstb(formatUstb(items[k].amountUstb[1])) = typed.means
    BY DEF ShownAsTyped
  <2>1. PICK n \in Nat : n = typed.means /\ n < Pow2[Precision]
    <3>1. Pow2[Precision] \in Nat
      BY Pow2Powers, HistoryAssumption DEF ArePowers
    <3> QED BY <3>1
  <2>2. PICK s \in Seq(0 .. Letter) : s = typed.text /\ IsAmount(s, n)
    BY <2>1, TypedAssumption DEF SentInv
  <2>3. parseStbToUstb(s) = n
    BY ONLY <2>2, MeantIsRead, n \in Nat, s \in Seq(0 .. Letter)
  <2>4. items[k].amountUstb[1] = Coin("ustb", n)
    BY <2>2, <2>3, SentShown
  <2> QED BY <2>1, <2>4, ShownIsRead
<1> QED BY <1>1, SentInit, SentStep, PTL DEF Spec
=============================================================================

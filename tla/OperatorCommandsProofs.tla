----------------------- MODULE OperatorCommandsProofs -----------------------
(***************************************************************************)
(* What the operator's two commands leave, for all validators, accounts,   *)
(* lists and any history of the chain before them.                         *)
(***************************************************************************)
EXTENDS OperatorCommands, FiniteSums

(***************************************************************************)
(* Stores.                                                                 *)
(***************************************************************************)
StoreFields ==
  {"val", "power", "last", "queue", "del", "entry", "cur", "hist", "com", "out",
   "start", "slash", "pool", "held", "sign", "bal", "supply", "panic"}

IsStore(s) == DOMAIN s = StoreFields

\* Store x is s but for the fields F.
SameBut(s, x, F) == IsStore(x) /\ \A f \in StoreFields \ F : x[f] = s[f]

Ratio == [ratio : Nat, refs : 1 .. 3]
HistTyped(s) == IsStore(s) /\ \A key \in DOMAIN s.hist : s.hist[key] \in Ratio

(***************************************************************************)
(* Who refers to the ratio of a period: the current period, a delegation   *)
(* of K that starts there, a slash event.                                  *)
(***************************************************************************)
StartsAt(s, v, p, K) == \E k \in K : k[2] = v /\ s.start[k].prev = p
SlashedAt(s, v, p) == \E i \in 1 .. Len(s.slash[v]) : s.slash[v][i] = p
Count(s, v, p, K) ==
  (IF p = s.cur[v].period - 1 THEN 1 ELSE 0)
  + (IF StartsAt(s, v, p, K) THEN 1 ELSE 0)
  + (IF SlashedAt(s, v, p) THEN 1 ELSE 0)

PeriodOK(s, v) == s.cur[v] \in [rewards : Nat, period : Nat \ {0}]
CountOK(s, v, K) == \A p \in Nat : HistOf(s, v, p).refs = Count(s, v, p, K)
RatiosRise(s, v) ==
  \A p, q \in Nat :
    p <= q /\ HistOf(s, v, p).refs # 0 /\ HistOf(s, v, q).refs # 0 =>
      HistOf(s, v, p).ratio <= HistOf(s, v, q).ratio
StartsOK(s, v, K) ==
  \A k \in K : k[2] = v =>
    /\ s.start[k].prev \in 0 .. s.cur[v].period - 1
    /\ \A l \in K : l[2] = v /\ s.start[l].prev = s.start[k].prev => l = k
SlashesOK(s, v) ==
  /\ s.slash[v] \in Seq(0 .. s.cur[v].period - 1)
  /\ \A i, j \in 1 .. Len(s.slash[v]) : i < j => s.slash[v][i] < s.slash[v][j]

RefsOK(s, v, K) ==
  /\ PeriodOK(s, v)
  /\ CountOK(s, v, K)
  /\ RatiosRise(s, v)
  /\ StartsOK(s, v, K)
  /\ SlashesOK(s, v)

\* The records of the validators W, whose delegations K have been counted.
HistOK(s, W, K) == HistTyped(s) /\ \A v \in W : RefsOK(s, v, K)

(***************************************************************************)
(* The other stores of a chain that runs.                                  *)
(***************************************************************************)
ValType == [tokens : Nat, shares : Nat, jailed : BOOLEAN, height : 0 .. 1]
StartType == [prev : Nat, stake : Nat, height : 0 .. 1]

\* Every record is of a validator there is; of the delegations K have started.
Keyed(s, K) ==
  /\ IsStore(s) /\ s.panic = FALSE
  /\ DOMAIN s.val \subseteq Val
  /\ s.val \in [DOMAIN s.val -> ValType]
  /\ DOMAIN s.cur = DOMAIN s.val /\ DOMAIN s.com = DOMAIN s.val
  /\ DOMAIN s.out = DOMAIN s.val /\ DOMAIN s.sign = DOMAIN s.val
  /\ DOMAIN s.slash = Val /\ \A v \in Val \ DOMAIN s.val : s.slash[v] = <<>>
  /\ DOMAIN s.del \subseteq Account \X DOMAIN s.val
  /\ s.start \in [K -> StartType]

Indexed(s) ==
  /\ s.power = {v \in DOMAIN s.val : ~s.val[v].jailed}
  /\ s.last = s.power
  /\ s.queue = DOMAIN s.val \ s.power

\* The shares are those of the delegations, of which the operator's is one.
DelsOf(s, v) == {k \in DOMAIN s.del : k[2] = v}
SharedAt(s, v) ==
  /\ s.val[v].tokens > 0 /\ s.val[v].shares > 0
  /\ <<OperatorOf[v], v>> \in DOMAIN s.del /\ s.del[<<OperatorOf[v], v>>] > 0
  /\ SumFunctionOnSet(s.del, DelsOf(s, v)) = s.val[v].shares
DelTyped(s) == IsFiniteSet(DOMAIN s.del) /\ s.del \in [DOMAIN s.del -> Nat]
Shared(s) == DelTyped(s) /\ \A v \in DOMAIN s.val : SharedAt(s, v)

Coins(s) ==
  /\ s.com \in [DOMAIN s.val -> Nat] /\ s.out \in [DOMAIN s.val -> Int]
  /\ s.pool \in Int /\ s.held \in Int /\ s.supply \in Int
  /\ s.bal \in [Account -> Int]

HistIn(s, W) == DOMAIN s.hist \subseteq W \X Nat

\* A chain that runs, of whose delegations K have started.
RunningWith(s, K) ==
  /\ Keyed(s, K) /\ Indexed(s) /\ Shared(s) /\ Coins(s)
  /\ HistIn(s, DOMAIN s.val)
  /\ HistOK(s, DOMAIN s.val, K)
Running(s) == RunningWith(s, DOMAIN s.del)

-----------------------------------------------------------------------------
(***************************************************************************)
(* Historical ratios and their reference counts.                           *)
(***************************************************************************)
NoRatio == [ratio |-> 0, refs |-> 0]

\* What is read after a ratio is set,
LEMMA HistSet ==
  ASSUME NEW s, NEW x, NEW v, NEW p, NEW r, x.hist = Put(s.hist, <<v, p>>, r)
  PROVE  \A w, q : HistOf(x, w, q) = IF w = v /\ q = p THEN r ELSE HistOf(s, w, q)
<1> TAKE w, q
<1>1. CASE w = v /\ q = p
  BY <1>1 DEF HistOf, Put
<1>2. CASE ~(w = v /\ q = p)
  <2>1. <<w, q>> # <<v, p>>
    BY <1>2
  <2> QED BY <1>2, <2>1 DEF HistOf, Put
<1> QED BY <1>1, <1>2

\* and after one is deleted.
LEMMA HistDropped ==
  ASSUME NEW s, NEW x, NEW v, NEW p, x.hist = Drop(s.hist, <<v, p>>)
  PROVE  \A w, q : HistOf(x, w, q) =
                     IF w = v /\ q = p THEN NoRatio ELSE HistOf(s, w, q)
<1> TAKE w, q
<1>1. CASE w = v /\ q = p
  BY <1>1 DEF HistOf, Drop, NoRatio
<1>2. CASE ~(w = v /\ q = p)
  <2>1. <<w, q>> # <<v, p>>
    BY <1>2
  <2> QED BY <1>2, <2>1 DEF HistOf, Drop, NoRatio
<1> QED BY <1>1, <1>2

\* A ratio that is read is there, or is none.
LEMMA HistRead ==
  ASSUME NEW s, HistTyped(s), NEW v, NEW p
  PROVE  /\ HistOf(s, v, p) \in Ratio \/ HistOf(s, v, p) = NoRatio
         /\ HistOf(s, v, p).ratio \in Nat /\ HistOf(s, v, p).refs \in 0 .. 3
         /\ <<v, p>> \in DOMAIN s.hist <=> HistOf(s, v, p).refs # 0
<1>1. CASE <<v, p>> \in DOMAIN s.hist
  BY <1>1 DEF HistOf, HistTyped, Ratio
<1>2. CASE <<v, p>> \notin DOMAIN s.hist
  BY <1>2 DEF HistOf, NoRatio
<1> QED BY <1>1, <1>2

\* A reference that is given up.
LEMMA Decrement ==
  ASSUME NEW s, HistTyped(s), NEW v, NEW p, NEW h, h = HistOf(s, v, p), h.refs # 0,
         NEW x, x = decrementReferenceCount(s, v, p)
  PROVE  /\ HistTyped(x) /\ SameBut(s, x, {"hist"})
         /\ DOMAIN x.hist \subseteq DOMAIN s.hist
         /\ \A w, q : HistOf(x, w, q) =
              IF w = v /\ q = p
              THEN IF h.refs = 1 THEN NoRatio ELSE [ratio |-> h.ratio, refs |-> h.refs - 1]
              ELSE HistOf(s, w, q)
<1>1. /\ <<v, p>> \in DOMAIN s.hist /\ h = s.hist[<<v, p>>] /\ h \in Ratio
      /\ IsStore(s)
  BY HistRead DEF HistOf, HistTyped
<1>2. CASE h.refs = 1
  <2>1. x = [s EXCEPT !.hist = Drop(s.hist, <<v, p>>)]
    BY <1>2 DEF decrementReferenceCount
  <2>2. x.hist = Drop(s.hist, <<v, p>>) /\ SameBut(s, x, {"hist"})
    BY <1>1, <2>1 DEF IsStore, SameBut, StoreFields
  <2>3. HistTyped(x) /\ DOMAIN x.hist \subseteq DOMAIN s.hist
    BY <2>2 DEF HistTyped, SameBut, Drop
  <2>4. \A w, q : HistOf(x, w, q) =
                     IF w = v /\ q = p THEN NoRatio ELSE HistOf(s, w, q)
    BY <2>2, HistDropped
  <2> QED BY <1>2, <2>2, <2>3, <2>4
<1>3. CASE h.refs # 1
  <2>0. PICK r : r = [ratio |-> h.ratio, refs |-> h.refs - 1]
    OBVIOUS
  <2>1. x = [s EXCEPT !.hist[<<v, p>>].refs = h.refs - 1]
    BY <1>3 DEF decrementReferenceCount
  <2>2. x.hist = [s.hist EXCEPT ![<<v, p>>] = [h EXCEPT !.refs = h.refs - 1]]
    BY <1>1, <2>1 DEF IsStore, StoreFields
  <2>3. SameBut(s, x, {"hist"})
    BY <1>1, <2>1 DEF IsStore, SameBut, StoreFields
  <2>4. [h EXCEPT !.refs = h.refs - 1] = r /\ r \in Ratio
    BY <1>1, <1>3, <2>0 DEF Ratio
  <2>5. \A key \in DOMAIN x.hist : x.hist[key] = IF key = <<v, p>> THEN r ELSE s.hist[key]
    BY <2>2, <2>4
  <2>6. DOMAIN x.hist = DOMAIN s.hist
    BY <2>2
  <2>7. HistTyped(x)
    BY <2>3, <2>4, <2>5, <2>6 DEF HistTyped, SameBut
  <2>8. ASSUME NEW w, NEW q
        PROVE  HistOf(x, w, q) = IF w = v /\ q = p THEN r ELSE HistOf(s, w, q)
    <3>1. CASE w = v /\ q = p
      BY <1>1, <2>5, <2>6, <3>1 DEF HistOf
    <3>2. CASE ~(w = v /\ q = p)
      <4>1. <<w, q>> # <<v, p>>
        BY <3>2
      <4> QED BY <2>5, <2>6, <3>2, <4>1 DEF HistOf
    <3> QED BY <3>1, <3>2
  <2> QED BY <1>3, <2>0, <2>3, <2>6, <2>7, <2>8
<1> QED BY <1>2, <1>3

\* A reference that is added.
LEMMA Increment ==
  ASSUME NEW s, HistTyped(s), NEW v, NEW p, NEW h, h = HistOf(s, v, p), h.refs <= 2,
         NEW x, x = incrementReferenceCount(s, v, p)
  PROVE  /\ HistTyped(x) /\ SameBut(s, x, {"hist"})
         /\ DOMAIN x.hist = DOMAIN s.hist \cup {<<v, p>>}
         /\ \A w, q : HistOf(x, w, q) =
              IF w = v /\ q = p THEN [ratio |-> h.ratio, refs |-> h.refs + 1]
              ELSE HistOf(s, w, q)
<1>1. PICK r : r = [ratio |-> h.ratio, refs |-> h.refs + 1]
  OBVIOUS
<1>0. h.ratio \in Nat /\ h.refs \in 0 .. 2
  <2>1. h.ratio \in Nat /\ h.refs \in 0 .. 3
    BY HistRead
  <2> QED BY <2>1
<1>2. r \in Ratio
  BY <1>0, <1>1 DEF Ratio
<1>3. x = [s EXCEPT !.hist = Put(s.hist, <<v, p>>, r)]
  BY <1>0, <1>1 DEF incrementReferenceCount
<1>4. x.hist = Put(s.hist, <<v, p>>, r) /\ SameBut(s, x, {"hist"})
  BY <1>3 DEF HistTyped, IsStore, SameBut, StoreFields
<1>5. IsStore(x)
  BY <1>4 DEF SameBut
<1>6. \A w, q : HistOf(x, w, q) = IF w = v /\ q = p THEN r ELSE HistOf(s, w, q)
  BY <1>4, HistSet
<1>7. HistTyped(x) /\ DOMAIN x.hist = DOMAIN s.hist \cup {<<v, p>>}
  BY <1>2, <1>4, <1>5 DEF HistTyped, Put
<1> QED BY <1>1, <1>4, <1>6, <1>7

\* What a period adds to the ratio.
Growth(s, v) ==
  IF s.val[v].tokens = 0 THEN 0 ELSE s.cur[v].rewards \div s.val[v].tokens

\* A period can end: where nobody has tokens there are no rewards.
MayEnd(s, v) ==
  /\ s.val[v].tokens \in Nat
  /\ s.val[v].tokens = 0 =>
       /\ s.cur[v].rewards = 0
       /\ s.out \in [DOMAIN s.out -> Int] /\ v \in DOMAIN s.out /\ s.pool \in Int

\* It can where there are tokens.
LEMMA TokensMayEnd == \A s, v : s.val[v].tokens \in Nat \ {0} => MayEnd(s, v)
BY DEF MayEnd

\* What the end of validator v's period makes of the ratio of a period.
Ended(s, v, w, q) ==
  LET c == s.cur[v]
      h == HistOf(s, v, c.period - 1)
  IN  IF w = v /\ q = c.period
      THEN [ratio |-> h.ratio + Growth(s, v), refs |-> 1]
      ELSE IF w = v /\ q = c.period - 1
      THEN IF h.refs = 1 THEN NoRatio ELSE [ratio |-> h.ratio, refs |-> h.refs - 1]
      ELSE HistOf(s, w, q)

\* The growth is a number.
LEMMA GrowthType ==
  ASSUME NEW s, NEW v, PeriodOK(s, v), MayEnd(s, v)
  PROVE  Growth(s, v) \in Nat
<1>1. PICK a, t : a = s.cur[v].rewards /\ t = s.val[v].tokens
  OBVIOUS
<1>2. a \in Nat /\ t \in Nat
  BY <1>1 DEF PeriodOK, MayEnd
<1>3. t # 0 => a \div t \in Nat
  BY <1>2
<1> QED BY <1>1, <1>3 DEF Growth

\* The end of a period.
LEMMA PeriodEnds ==
  ASSUME NEW s, HistTyped(s), NEW v, v \in DOMAIN s.cur, PeriodOK(s, v),
         MayEnd(s, v), HistOf(s, v, s.cur[v].period - 1).refs # 0,
         NEW x, x = IncrementValidatorPeriod(s, v)
  PROVE  /\ HistTyped(x) /\ SameBut(s, x, {"hist", "cur"})
         /\ DOMAIN x.hist \subseteq DOMAIN s.hist \cup {<<v, s.cur[v].period>>}
         /\ x.cur = [s.cur EXCEPT ![v] = [rewards |-> 0, period |-> s.cur[v].period + 1]]
         /\ \A w, q : HistOf(x, w, q) = Ended(s, v, w, q)
<1>1. PICK c : c = s.cur[v]
  OBVIOUS
<1>2. /\ c.period \in Nat /\ c.period # 0 /\ c.rewards \in Nat
      /\ c.period - 1 # c.period
  BY <1>1 DEF PeriodOK
<1>3. PICK h : h = HistOf(s, v, c.period - 1)
  OBVIOUS
<1>4. h.ratio \in Nat /\ h.refs # 0
  <2>1. h.ratio \in Nat
    BY <1>3, HistRead
  <2> QED BY <1>1, <1>3, <2>1
<1>5. PICK g : g = Growth(s, v)
  OBVIOUS
<1>6. PICK r : r = [ratio |-> h.ratio + g, refs |-> 1]
  OBVIOUS
<1>7. r \in Ratio
  <2>1. g \in Nat
    BY <1>5, GrowthType
  <2> QED BY <1>4, <1>6, <2>1 DEF Ratio
<1>8. PICK t : t = s.val[v].tokens
  OBVIOUS
<1>9. PICK y : y = IF t > 0 THEN s ELSE [s EXCEPT !.pool = s.pool + c.rewards,
                                                   !.out[v] = s.out[v] - c.rewards]
  OBVIOUS
<1>10. SameBut(s, y, {})
  <2>1. CASE t > 0
    BY <1>9, <2>1 DEF SameBut, HistTyped
  <2>2. CASE ~(t > 0)
    <3>1. t = 0
      BY <1>8, <2>2 DEF MayEnd
    <3>2. c.rewards = 0 /\ s.out \in [DOMAIN s.out -> Int] /\ v \in DOMAIN s.out
          /\ s.pool \in Int
      BY <1>1, <1>8, <3>1 DEF MayEnd
    <3>3. s.pool + c.rewards = s.pool /\ [s.out EXCEPT ![v] = s.out[v] - c.rewards] = s.out
      BY <3>2
    <3>4. y = [s EXCEPT !.pool = s.pool, !.out = s.out]
      BY <1>9, <2>2, <3>3
    <3> QED BY <3>4 DEF SameBut, HistTyped, IsStore, StoreFields
  <2> QED BY <2>1, <2>2
<1>11. y.hist = s.hist /\ y.cur = s.cur
  BY <1>10 DEF SameBut, StoreFields
<1>12. HistTyped(y)
  BY <1>10, <1>11 DEF HistTyped, SameBut
<1>13. \A w, q : HistOf(y, w, q) = HistOf(s, w, q)
  BY <1>11 DEF HistOf
<1>14. PICK f : f = decrementReferenceCount(y, v, c.period - 1)
  OBVIOUS
<1>15. PICK m : m = c.period - 1
  OBVIOUS
<1>16. h = HistOf(y, v, m) /\ h.refs # 0 /\ f = decrementReferenceCount(y, v, m)
  BY <1>3, <1>4, <1>14, <1>13, <1>15
<1>17. /\ HistTyped(f) /\ SameBut(y, f, {"hist"})
       /\ DOMAIN f.hist \subseteq DOMAIN y.hist
       /\ \A w, q : HistOf(f, w, q) =
            IF w = v /\ q = m
            THEN IF h.refs = 1 THEN NoRatio ELSE [ratio |-> h.ratio, refs |-> h.refs - 1]
            ELSE HistOf(y, w, q)
  BY <1>12, <1>16, Decrement
<1>18. /\ HistTyped(f) /\ SameBut(s, f, {"hist"})
      /\ DOMAIN f.hist \subseteq DOMAIN s.hist
      /\ \A w, q : HistOf(f, w, q) =
           IF w = v /\ q = c.period - 1
           THEN IF h.refs = 1 THEN NoRatio ELSE [ratio |-> h.ratio, refs |-> h.refs - 1]
           ELSE HistOf(s, w, q)
  BY <1>10, <1>11, <1>13, <1>15, <1>17 DEF SameBut, StoreFields
<1>19. x = [f EXCEPT !.hist = Put(f.hist, <<v, c.period>>, r),
                     !.cur[v] = [rewards |-> 0, period |-> c.period + 1]]
  BY <1>1, <1>3, <1>5, <1>6, <1>14, <1>8, <1>9, Zenon DEF IncrementValidatorPeriod, Growth
<1>20. /\ x.hist = Put(f.hist, <<v, c.period>>, r)
       /\ x.cur = [f.cur EXCEPT ![v] = [rewards |-> 0, period |-> c.period + 1]]
       /\ SameBut(f, x, {"hist", "cur"})
  BY <1>18, <1>19 DEF HistTyped, IsStore, SameBut, StoreFields
<1>21. SameBut(s, x, {"hist", "cur"}) /\ f.cur = s.cur
  BY <1>18, <1>20 DEF SameBut, StoreFields
<1>22. \A w, q : HistOf(x, w, q) = IF w = v /\ q = c.period THEN r ELSE HistOf(f, w, q)
  <2>1. PICK n : n = c.period
    OBVIOUS
  <2>2. x.hist = Put(f.hist, <<v, n>>, r)
    BY <1>20, <2>1
  <2>3. \A w, q : HistOf(x, w, q) = IF w = v /\ q = n THEN r ELSE HistOf(f, w, q)
    BY ONLY <2>2, HistSet
  <2> QED BY <2>1, <2>3
<1>23. HistTyped(x) /\ DOMAIN x.hist \subseteq DOMAIN s.hist \cup {<<v, c.period>>}
  <2>1. HistTyped(x) /\ DOMAIN x.hist = DOMAIN f.hist \cup {<<v, c.period>>}
    BY <1>7, <1>18, <1>20 DEF HistTyped, Put, SameBut
  <2> QED BY <1>18, <2>1
<1>24. ASSUME NEW w, NEW q PROVE HistOf(x, w, q) = Ended(s, v, w, q)
  <2>1. CASE w = v /\ q = c.period
    <3>1. HistOf(x, w, q) = r
      BY <1>22, <2>1
    <3> QED BY <1>1, <1>3, <1>5, <1>6, <2>1, <3>1 DEF Ended
  <2>2. CASE ~(w = v /\ q = c.period)
    <3>1. HistOf(x, w, q) = HistOf(f, w, q)
      BY <1>22, <2>2
    <3> QED BY <1>1, <1>3, <1>18, <2>2, <3>1 DEF Ended
  <2> QED BY <2>1, <2>2
<1> QED BY <1>1, <1>20, <1>21, <1>23, <1>24

\* The members of a sequence.
LEMMA InSeq ==
  ASSUME NEW S, NEW c \in Seq(S)
  PROVE  Len(c) \in Nat /\ \A i \in 1 .. Len(c) : c[i] \in S
OBVIOUS

\* The members of a sequence with one more.
LEMMA Appended ==
  ASSUME NEW S, NEW c \in Seq(S), NEW p \in S, NEW e, e = Append(c, p)
  PROVE  /\ e \in Seq(S) /\ Len(c) \in Nat /\ Len(e) = Len(c) + 1
         /\ e[Len(c) + 1] = p /\ \A i \in 1 .. Len(c) : e[i] = c[i] /\ c[i] \in S
OBVIOUS

\* A sequence over a set is one over a larger set.
LEMMA SeqWider ==
  ASSUME NEW S, NEW T, S \subseteq T, NEW c \in Seq(S)
  PROVE  c \in Seq(T)
OBVIOUS

\* What RefsOK of a validator reads.
SameAt(s, x, w, K, L) ==
  /\ x.cur[w] = s.cur[w] /\ x.slash[w] = s.slash[w]
  /\ \A k \in K \cup L : k[2] = w => k \in K /\ k \in L /\ x.start[k] = s.start[k]
  /\ \A p \in Nat : HistOf(x, w, p) = HistOf(s, w, p)

\* RefsOK depends on nothing else.
LEMMA RefsSame ==
  ASSUME NEW s, NEW x, NEW w, NEW K, NEW L, SameAt(s, x, w, K, L), RefsOK(s, w, K)
  PROVE  RefsOK(x, w, L)
<1>1. PeriodOK(x, w)
  BY DEF SameAt, RefsOK, PeriodOK
<1>2. ASSUME NEW p \in Nat PROVE HistOf(x, w, p).refs = Count(x, w, p, L)
  <2>1. StartsAt(x, w, p, L) <=> StartsAt(s, w, p, K)
    BY DEF SameAt, StartsAt
  <2>2. SlashedAt(x, w, p) <=> SlashedAt(s, w, p)
    BY DEF SameAt, SlashedAt
  <2> QED BY <2>1, <2>2 DEF SameAt, RefsOK, CountOK, Count
<1>3. RatiosRise(x, w)
  BY DEF SameAt, RefsOK, RatiosRise
<1>4. StartsOK(x, w, L)
  BY DEF SameAt, RefsOK, StartsOK
<1>5. SlashesOK(x, w)
  BY DEF SameAt, RefsOK, SlashesOK
<1> QED BY <1>1, <1>2, <1>3, <1>4, <1>5 DEF RefsOK, CountOK

\* A period whose ratio is kept, because its end was the last.
LEMMA LastKept ==
  ASSUME NEW s, NEW v, NEW K, RefsOK(s, v, K)
  PROVE  /\ s.cur[v].period \in Nat \ {0} /\ s.cur[v].rewards \in Nat
         /\ HistOf(s, v, s.cur[v].period - 1).refs # 0
         /\ \A p \in Nat : p >= s.cur[v].period => HistOf(s, v, p).refs = 0
<1>1. PICK n : n = s.cur[v].period
  OBVIOUS
<1>2. n \in Nat /\ n # 0 /\ n - 1 \in Nat /\ s.cur[v].rewards \in Nat
  BY <1>1 DEF RefsOK, PeriodOK
<1>3. HistOf(s, v, n - 1).refs = Count(s, v, n - 1, K)
  BY <1>2 DEF RefsOK, CountOK
<1>4. Count(s, v, n - 1, K) # 0
  BY <1>1, <1>2 DEF Count
<1>5. ASSUME NEW p \in Nat, p >= n PROVE HistOf(s, v, p).refs = 0
  <2>1. ~StartsAt(s, v, p, K)
    BY <1>1, <1>2, <1>5 DEF RefsOK, StartsOK, StartsAt
  <2>2. ~SlashedAt(s, v, p)
    <3>1. PICK c : c = s.slash[v]
      OBVIOUS
    <3>2. c \in Seq(0 .. n - 1)
      BY <1>1, <3>1 DEF RefsOK, SlashesOK
    <3>3. \A i \in 1 .. Len(c) : c[i] \in 0 .. n - 1
      BY <3>2, InSeq
    <3> QED BY <1>2, <1>5, <3>1, <3>3 DEF SlashedAt
  <2>3. p # n - 1
    BY <1>2, <1>5
  <2> QED BY <1>1, <2>1, <2>2, <2>3 DEF Count, RefsOK, CountOK
<1> QED BY <1>1, <1>2, <1>3, <1>4, <1>5

\* The ratios of a validator still rise when its period has ended.
LEMMA EndedRises ==
  ASSUME NEW s, HistTyped(s), NEW v, NEW K, RefsOK(s, v, K), MayEnd(s, v),
         NEW x, \A q : HistOf(x, v, q) = Ended(s, v, v, q)
  PROVE  RatiosRise(x, v)
<1>1. PICK n : n = s.cur[v].period
  OBVIOUS
<1>2. PICK h : h = HistOf(s, v, n - 1)
  OBVIOUS
<1>3. PICK r : r = Growth(s, v)
  OBVIOUS
<1>4. n \in Nat /\ n # 0 /\ n - 1 \in Nat /\ n - 1 # n /\ h.ratio \in Nat /\ h.refs # 0
  <2>1. n \in Nat \ {0} /\ HistOf(s, v, s.cur[v].period - 1).refs # 0
    BY <1>1, LastKept
  <2>2. h.refs # 0
    BY <1>1, <1>2, <2>1
  <2>3. h.ratio \in Nat
    BY <1>2, HistRead
  <2> QED BY <2>1, <2>2, <2>3
<1>5. r \in Nat
  BY <1>3, GrowthType DEF RefsOK
<1>6. HistOf(x, v, n).ratio = h.ratio + r
  BY <1>1, <1>2, <1>3 DEF Ended
<1>7. ASSUME NEW q \in Nat, HistOf(x, v, q).refs # 0, q # n
      PROVE  /\ q < n /\ HistOf(s, v, q).refs # 0
             /\ HistOf(x, v, q).ratio = HistOf(s, v, q).ratio
  <2>1. CASE q = n - 1
    <3>1. HistOf(x, v, q) = IF h.refs = 1 THEN NoRatio
                            ELSE [ratio |-> h.ratio, refs |-> h.refs - 1]
      BY <1>1, <1>2, <1>4, <2>1 DEF Ended
    <3>2. HistOf(x, v, q).ratio = h.ratio
      BY <1>7, <3>1 DEF NoRatio
    <3> QED BY <1>2, <1>4, <2>1, <3>2
  <2>2. CASE q # n - 1
    <3>1. HistOf(x, v, q) = HistOf(s, v, q)
      BY <1>1, <1>7, <2>2 DEF Ended
    <3>2. ~(q >= n)
      BY <1>1, <1>7, <3>1, LastKept
    <3> QED BY <1>4, <1>7, <3>1, <3>2
  <2> QED BY <2>1, <2>2
<1>8. SUFFICES ASSUME NEW p \in Nat, NEW q \in Nat, p <= q,
                      HistOf(x, v, p).refs # 0, HistOf(x, v, q).refs # 0
               PROVE  HistOf(x, v, p).ratio <= HistOf(x, v, q).ratio
  BY DEF RatiosRise
<1>9. CASE q # n
  <2>1. q < n /\ HistOf(s, v, q).refs # 0 /\ HistOf(x, v, q).ratio = HistOf(s, v, q).ratio
    BY <1>7, <1>8, <1>9
  <2>2. p # n
    BY <1>4, <1>8, <2>1
  <2>3. HistOf(s, v, p).refs # 0 /\ HistOf(x, v, p).ratio = HistOf(s, v, p).ratio
    BY <1>7, <1>8, <2>2
  <2> QED BY <1>8, <2>1, <2>3 DEF RefsOK, RatiosRise
<1>10. CASE q = n /\ p # n
  <2>1. p < n /\ HistOf(s, v, p).refs # 0 /\ HistOf(x, v, p).ratio = HistOf(s, v, p).ratio
    BY <1>7, <1>8, <1>10
  <2>2. p <= n - 1
    BY <1>4, <2>1
  <2>3. HistOf(s, v, p).ratio <= h.ratio
    BY <1>2, <1>4, <2>1, <2>2 DEF RefsOK, RatiosRise
  <2>4. HistOf(s, v, p).ratio \in Nat
    BY HistRead
  <2> QED BY <1>4, <1>5, <1>6, <1>10, <2>1, <2>3, <2>4
<1>11. CASE q = n /\ p = n
  BY <1>4, <1>5, <1>6, <1>11
<1> QED BY <1>9, <1>10, <1>11

\* No reference is made to a period that has not ended.
LEMMA NoneLater ==
  ASSUME NEW s, NEW v, NEW K, RefsOK(s, v, K), NEW p \in Nat, p >= s.cur[v].period
  PROVE  ~StartsAt(s, v, p, K) /\ ~SlashedAt(s, v, p)
<1>1. PICK n : n = s.cur[v].period
  OBVIOUS
<1>2. n \in Nat /\ n # 0
  BY <1>1 DEF RefsOK, PeriodOK
<1>3. ~StartsAt(s, v, p, K)
  BY <1>1, <1>2 DEF RefsOK, StartsOK, StartsAt
<1>4. ~SlashedAt(s, v, p)
  <2>1. PICK c : c = s.slash[v]
    OBVIOUS
  <2>2. c \in Seq(0 .. n - 1)
    BY <1>1, <2>1 DEF RefsOK, SlashesOK
  <2>3. \A i \in 1 .. Len(c) : c[i] \in 0 .. n - 1
    BY <2>2, InSeq
  <2> QED BY <1>1, <1>2, <2>1, <2>3 DEF SlashedAt
<1> QED BY <1>3, <1>4

\* The end of a period keeps all references, and its own is the only one to
\* the new ratio.
LEMMA PeriodRefs ==
  ASSUME NEW s, HistTyped(s), NEW v, v \in DOMAIN s.cur, NEW K, RefsOK(s, v, K),
         MayEnd(s, v), NEW x, x = IncrementValidatorPeriod(s, v)
  PROVE  /\ HistTyped(x) /\ SameBut(s, x, {"hist", "cur"})
         /\ DOMAIN x.hist \subseteq DOMAIN s.hist \cup {<<v, s.cur[v].period>>}
         /\ x.cur = [s.cur EXCEPT ![v] = [rewards |-> 0, period |-> s.cur[v].period + 1]]
         /\ \A w, q : HistOf(x, w, q) = Ended(s, v, w, q)
         /\ RefsOK(x, v, K)
         /\ HistOf(x, v, s.cur[v].period).refs = 1
<1>1. PICK n : n = s.cur[v].period
  OBVIOUS
<1>2. n \in Nat /\ n # 0 /\ n - 1 \in Nat /\ n - 1 # n
  BY <1>1, LastKept
<1>3. /\ HistTyped(x) /\ SameBut(s, x, {"hist", "cur"})
      /\ DOMAIN x.hist \subseteq DOMAIN s.hist \cup {<<v, n>>}
      /\ x.cur = [s.cur EXCEPT ![v] = [rewards |-> 0, period |-> n + 1]]
      /\ \A w, q : HistOf(x, w, q) = Ended(s, v, w, q)
  <2>1. PeriodOK(s, v) /\ HistOf(s, v, s.cur[v].period - 1).refs # 0
    BY LastKept DEF RefsOK
  <2> QED BY <1>1, <2>1, PeriodEnds
<1>4. x.cur[v] = [rewards |-> 0, period |-> n + 1]
  BY <1>3
<1>5. x.cur[v].period = n + 1 /\ x.cur[v].period - 1 = n
  BY <1>2, <1>4
<1>6. x.start = s.start /\ x.slash = s.slash
  BY <1>3 DEF SameBut, StoreFields
<1>7. PeriodOK(x, v)
  BY <1>2, <1>4 DEF PeriodOK
<1>8. HistOf(x, v, n).refs = 1
  BY <1>1, <1>3 DEF Ended
<1>9. ASSUME NEW p \in Nat PROVE HistOf(x, v, p).refs = Count(x, v, p, K)
  <2>1. /\ StartsAt(x, v, p, K) <=> StartsAt(s, v, p, K)
        /\ SlashedAt(x, v, p) <=> SlashedAt(s, v, p)
    BY <1>6 DEF StartsAt, SlashedAt
  <2>2. HistOf(s, v, p).refs = Count(s, v, p, K)
    BY DEF RefsOK, CountOK
  <2>3. CASE p = n
    <3>1. ~StartsAt(s, v, p, K) /\ ~SlashedAt(s, v, p)
      BY <1>1, <1>2, <2>3, NoneLater
    <3> QED BY <1>5, <1>8, <2>1, <2>3, <3>1 DEF Count
  <2>4. CASE p = n - 1
    <3>1. PICK h : h = HistOf(s, v, p)
      OBVIOUS
    <3>2. h.refs \in 0 .. 3 /\ h.refs # 0
      <4>1. h.refs \in 0 .. 3
        BY <3>1, HistRead
      <4> QED BY <1>1, <2>4, <3>1, <4>1, LastKept
    <3>3. HistOf(x, v, p) = IF h.refs = 1 THEN NoRatio
                            ELSE [ratio |-> h.ratio, refs |-> h.refs - 1]
      BY <1>1, <1>2, <1>3, <2>4, <3>1 DEF Ended
    <3>4. HistOf(x, v, p).refs = h.refs - 1
      BY <3>2, <3>3 DEF NoRatio
    <3>5. PICK a, b : /\ a = (IF StartsAt(s, v, p, K) THEN 1 ELSE 0)
                      /\ b = (IF SlashedAt(s, v, p) THEN 1 ELSE 0)
      OBVIOUS
    <3>6. a \in 0 .. 1 /\ b \in 0 .. 1
      BY <3>5
    <3>7. Count(s, v, p, K) = 1 + a + b
      BY <1>1, <2>4, <3>5 DEF Count
    <3>8. Count(x, v, p, K) = 0 + a + b
      BY <1>2, <1>5, <2>1, <2>4, <3>5 DEF Count
    <3> QED BY <2>2, <3>1, <3>4, <3>6, <3>7, <3>8
  <2>5. CASE p # n /\ p # n - 1
    <3>1. HistOf(x, v, p) = HistOf(s, v, p)
      BY <1>1, <1>3, <2>5 DEF Ended
    <3>2. Count(x, v, p, K) = Count(s, v, p, K)
      BY <1>1, <1>5, <2>1, <2>5 DEF Count
    <3> QED BY <2>2, <3>1, <3>2
  <2> QED BY <2>3, <2>4, <2>5
<1>10. RatiosRise(x, v)
  BY <1>3, EndedRises
<1>11. StartsOK(x, v, K)
  <2>1. StartsOK(s, v, K)
    BY DEF RefsOK
  <2> QED BY <1>1, <1>2, <1>5, <1>6, <2>1 DEF StartsOK
<1>12. SlashesOK(x, v)
  <2>1. PICK c : c = s.slash[v]
    OBVIOUS
  <2>2. c \in Seq(0 .. n - 1) /\ \A i, j \in 1 .. Len(c) : i < j => c[i] < c[j]
    BY <1>1, <2>1 DEF RefsOK, SlashesOK
  <2>3. 0 .. n - 1 \subseteq 0 .. n
    BY <1>2
  <2>4. c \in Seq(0 .. n)
    BY <2>2, <2>3, SeqWider
  <2> QED BY <1>5, <1>6, <2>1, <2>2, <2>4 DEF SlashesOK
<1> QED BY <1>1, <1>3, <1>7, <1>8, <1>9, <1>10, <1>11, <1>12 DEF RefsOK, CountOK

\* A period to which only its own end refers.
LEMMA OnlyCurrent ==
  ASSUME NEW s, NEW v, NEW K, RefsOK(s, v, K), NEW p, p = s.cur[v].period - 1,
         HistOf(s, v, p).refs = 1
  PROVE  p \in Nat /\ ~StartsAt(s, v, p, K) /\ ~SlashedAt(s, v, p)
<1>1. p \in Nat
  BY LastKept
<1>2. Count(s, v, p, K) = 1
  BY <1>1 DEF RefsOK, CountOK
<1> QED BY <1>1, <1>2 DEF Count

\* A delegation that starts refers to the last period.
LEMMA StartRefs ==
  ASSUME NEW s, HistTyped(s), NEW v, NEW K, RefsOK(s, v, K), K \subseteq DOMAIN s.start,
         NEW d, <<d, v>> \notin K,
         NEW p, p = s.cur[v].period - 1, HistOf(s, v, p).refs = 1,
         NEW height, NEW x, x = AfterDelegationModified(s, d, v, height)
  PROVE  /\ HistTyped(x) /\ SameBut(s, x, {"hist", "start"})
         /\ DOMAIN x.hist = DOMAIN s.hist
         /\ x.start = Put(s.start, <<d, v>>,
                          [prev |-> p, stake |-> Stake(s, d, v), height |-> height])
         /\ \A w, q : HistOf(x, w, q) =
              IF w = v /\ q = p THEN [ratio |-> HistOf(s, v, p).ratio, refs |-> 2]
              ELSE HistOf(s, w, q)
         /\ RefsOK(x, v, K \cup {<<d, v>>})
<1>1. PICK h : h = HistOf(s, v, p)
  OBVIOUS
<1>2. PICK k : k = <<d, v>>
  OBVIOUS
<1>3. PICK a : a = [prev |-> p, stake |-> Stake(s, d, v), height |-> height]
  OBVIOUS
<1>4. PICK y : y = incrementReferenceCount(s, v, p)
  OBVIOUS
<1>5. /\ HistTyped(y) /\ SameBut(s, y, {"hist"})
      /\ DOMAIN y.hist = DOMAIN s.hist \cup {<<v, p>>}
      /\ \A w, q : HistOf(y, w, q) =
           IF w = v /\ q = p THEN [ratio |-> h.ratio, refs |-> h.refs + 1]
           ELSE HistOf(s, w, q)
  <2>1. h.refs <= 2
    BY <1>1
  <2> QED BY <1>1, <1>4, <2>1, Increment
<1>6. x = [y EXCEPT !.start = Put(s.start, k, a)]
  BY <1>2, <1>3, <1>4 DEF AfterDelegationModified
<1>7. /\ x.start = Put(s.start, k, a) /\ x.hist = y.hist
      /\ SameBut(s, x, {"hist", "start"})
  BY <1>5, <1>6 DEF SameBut, IsStore, StoreFields
<1>8. HistTyped(x) /\ DOMAIN x.hist = DOMAIN s.hist
  <2>1. <<v, p>> \in DOMAIN s.hist
    BY HistRead
  <2>2. HistTyped(x)
    BY <1>5, <1>7 DEF HistTyped, SameBut
  <2> QED BY <1>5, <1>7, <2>1, <2>2
<1>9. \A w, q : HistOf(x, w, q) =
        IF w = v /\ q = p THEN [ratio |-> h.ratio, refs |-> 2] ELSE HistOf(s, w, q)
  <2>1. \A w, q : HistOf(x, w, q) = HistOf(y, w, q)
    BY <1>7 DEF HistOf
  <2>2. h.refs + 1 = 2
    BY <1>1
  <2> QED BY <1>5, <2>1, <2>2
<1>10. x.cur = s.cur /\ x.slash = s.slash
  BY <1>7 DEF SameBut, StoreFields
<1>11. x.start[k] = a /\ \A l \in K : x.start[l] = s.start[l]
  <2>1. x.start[k] = a
    BY <1>7 DEF Put
  <2>2. ASSUME NEW l \in K PROVE x.start[l] = s.start[l]
    <3>1. l # k
      BY <1>2
    <3>2. x.start = [j \in DOMAIN s.start \cup {k} |-> IF j = k THEN a ELSE s.start[j]]
      BY <1>7 DEF Put
    <3>3. l \in DOMAIN s.start \cup {k}
      BY <2>2
    <3> QED BY ONLY <3>1, <3>2, <3>3
  <2> QED BY <2>1, <2>2
<1>12. p \in Nat /\ ~StartsAt(s, v, p, K) /\ ~SlashedAt(s, v, p)
  BY OnlyCurrent
<1>13. PICK n : n = s.cur[v].period
  OBVIOUS
<1>14. n \in Nat /\ p = n - 1 /\ p \in 0 .. n - 1
  BY <1>12, <1>13, LastKept
<1>15. k[2] = v /\ a.prev = p
  BY <1>2, <1>3
<1>16. ASSUME NEW q \in Nat PROVE HistOf(x, v, q).refs = Count(x, v, q, K \cup {k})
  <2>1. HistOf(s, v, q).refs = Count(s, v, q, K)
    BY DEF RefsOK, CountOK
  <2>2. SlashedAt(x, v, q) <=> SlashedAt(s, v, q)
    BY <1>10 DEF SlashedAt
  <2>3. CASE q = p
    <3>1. StartsAt(x, v, q, K \cup {k})
      BY <1>11, <1>15, <2>3 DEF StartsAt
    <3>2. HistOf(x, v, q).refs = 2
      BY <1>9, <2>3
    <3> QED BY <1>10, <1>12, <2>2, <2>3, <3>1, <3>2 DEF Count
  <2>4. CASE q # p
    <3>1. StartsAt(x, v, q, K \cup {k}) <=> StartsAt(s, v, q, K)
      BY <1>11, <1>15, <2>4 DEF StartsAt
    <3>2. HistOf(x, v, q) = HistOf(s, v, q)
      BY <1>9, <2>4
    <3> QED BY <1>10, <2>1, <2>2, <3>1, <3>2 DEF Count
  <2> QED BY <2>3, <2>4
<1>17. RatiosRise(x, v)
  <2>1. \A q \in Nat : /\ HistOf(x, v, q).ratio = HistOf(s, v, q).ratio
                       /\ HistOf(x, v, q).refs # 0 => HistOf(s, v, q).refs # 0
    BY <1>1, <1>9
  <2> QED BY <2>1 DEF RatiosRise, RefsOK
<1>18. StartsOK(x, v, K \cup {k})
  <2>1. \A l \in K : l[2] = v => s.start[l].prev # p
    BY <1>12 DEF StartsAt
  <2>2. StartsOK(s, v, K)
    BY DEF RefsOK
  <2>3. ASSUME NEW l \in K \cup {k}, l[2] = v
        PROVE  /\ x.start[l].prev \in 0 .. n - 1
               /\ \A m \in K \cup {k} :
                    m[2] = v /\ x.start[m].prev = x.start[l].prev => m = l
    <3>1. CASE l = k
      BY <1>11, <1>14, <1>15, <2>1, <3>1
    <3>2. CASE l # k
      <4>1. l \in K /\ x.start[l].prev = s.start[l].prev
        BY <1>11, <2>3, <3>2
      <4>2. s.start[l].prev # p /\ s.start[l].prev \in 0 .. n - 1
        BY <1>13, <2>1, <2>2, <2>3, <4>1 DEF StartsOK
      <4>3. ASSUME NEW m \in K \cup {k}, m[2] = v, x.start[m].prev = s.start[l].prev
            PROVE  m = l
        <5>1. m # k
          BY <1>11, <1>15, <4>2, <4>3
        <5>2. m \in K /\ s.start[m].prev = s.start[l].prev
          BY <1>11, <4>3, <5>1
        <5> QED BY <2>2, <2>3, <4>1, <4>3, <5>2 DEF StartsOK
      <4> QED BY <4>1, <4>2, <4>3
    <3> QED BY <3>1, <3>2
  <2> QED BY <1>10, <1>13, <2>3 DEF StartsOK
<1>19. PeriodOK(x, v) /\ SlashesOK(x, v)
  BY <1>10 DEF RefsOK, PeriodOK, SlashesOK
<1>20. RefsOK(x, v, K \cup {k})
  BY <1>16, <1>17, <1>18, <1>19 DEF RefsOK, CountOK
<1> QED BY <1>1, <1>2, <1>3, <1>7, <1>8, <1>9, <1>20

\* A delegation whose start is given up.
LEMMA ReleaseRefs ==
  ASSUME NEW s, HistTyped(s), NEW v, NEW K, RefsOK(s, v, K), K \subseteq DOMAIN s.start,
         NEW k \in K, k[2] = v, NEW p, p = s.start[k].prev,
         NEW y, y = decrementReferenceCount(s, v, p),
         NEW x, x.start = Drop(s.start, k), SameBut(y, x, {"start"})
  PROVE  /\ HistTyped(x) /\ SameBut(s, x, {"hist", "start"})
         /\ DOMAIN x.hist \subseteq DOMAIN s.hist
         /\ x.start = Drop(s.start, k)
         /\ p \in 0 .. s.cur[v].period - 1
         /\ \A w, q : ~(w = v /\ q = p) => HistOf(x, w, q) = HistOf(s, w, q)
         /\ HistOf(x, v, p).refs # 0 => HistOf(x, v, p).ratio = HistOf(s, v, p).ratio
         /\ RefsOK(x, v, K \ {k})
<1>1. PICK h : h = HistOf(s, v, p)
  OBVIOUS
<1>2. PICK n : n = s.cur[v].period
  OBVIOUS
<1>4. n \in Nat /\ p \in 0 .. n - 1 /\ p \in Nat
  <2>1. n \in Nat
    BY <1>2, LastKept
  <2>2. p \in 0 .. n - 1
    BY <1>2 DEF RefsOK, StartsOK
  <2> QED BY <2>1, <2>2
<1>5. StartsAt(s, v, p, K)
  BY DEF StartsAt
<1>6. h.refs = Count(s, v, p, K)
  BY <1>1, <1>4 DEF RefsOK, CountOK
<1>7. h.refs # 0 /\ h.refs \in 0 .. 3 /\ h.ratio \in Nat
  <2>1. h.refs \in 0 .. 3 /\ h.ratio \in Nat
    BY <1>1, HistRead
  <2> QED BY <1>5, <1>6, <2>1 DEF Count
<1>8. /\ HistTyped(y) /\ SameBut(s, y, {"hist"})
      /\ DOMAIN y.hist \subseteq DOMAIN s.hist
      /\ \A w, q : HistOf(y, w, q) =
           IF w = v /\ q = p
           THEN IF h.refs = 1 THEN NoRatio ELSE [ratio |-> h.ratio, refs |-> h.refs - 1]
           ELSE HistOf(s, w, q)
  BY <1>1, <1>7, Decrement
<1>10. /\ x.start = Drop(s.start, k) /\ x.hist = y.hist
       /\ SameBut(s, x, {"hist", "start"})
  BY <1>8 DEF SameBut, IsStore, StoreFields
<1>11. HistTyped(x) /\ DOMAIN x.hist \subseteq DOMAIN s.hist
  BY <1>8, <1>10 DEF HistTyped, SameBut
<1>12. \A w, q : HistOf(x, w, q) = HistOf(y, w, q)
  BY <1>10 DEF HistOf
<1>13. \A w, q : ~(w = v /\ q = p) => HistOf(x, w, q) = HistOf(s, w, q)
  BY <1>8, <1>12
<1>14. /\ HistOf(x, v, p).refs = h.refs - 1
       /\ HistOf(x, v, p).refs # 0 => HistOf(x, v, p).ratio = h.ratio
  <2>1. HistOf(x, v, p) = IF h.refs = 1 THEN NoRatio
                          ELSE [ratio |-> h.ratio, refs |-> h.refs - 1]
    BY <1>8, <1>12
  <2> QED BY <1>7, <2>1 DEF NoRatio
<1>15. x.cur = s.cur /\ x.slash = s.slash
  BY <1>10 DEF SameBut, StoreFields
<1>16. ASSUME NEW l \in K \ {k} PROVE x.start[l] = s.start[l]
  <2>1. x.start = [j \in DOMAIN s.start \ {k} |-> s.start[j]]
    BY <1>10 DEF Drop
  <2>2. l \in DOMAIN s.start \ {k}
    BY <1>16
  <2> QED BY ONLY <2>1, <2>2
<1>17. \A l \in K : l[2] = v /\ s.start[l].prev = p => l = k
  BY DEF RefsOK, StartsOK
<1>18. ASSUME NEW q \in Nat PROVE HistOf(x, v, q).refs = Count(x, v, q, K \ {k})
  <2>1. HistOf(s, v, q).refs = Count(s, v, q, K)
    BY DEF RefsOK, CountOK
  <2>2. SlashedAt(x, v, q) <=> SlashedAt(s, v, q)
    BY <1>15 DEF SlashedAt
  <2>3. CASE q = p
    <3>1. ~StartsAt(x, v, q, K \ {k})
      BY <1>16, <1>17, <2>3 DEF StartsAt
    <3>2. PICK a, b : /\ a = (IF q = s.cur[v].period - 1 THEN 1 ELSE 0)
                      /\ b = (IF SlashedAt(s, v, q) THEN 1 ELSE 0)
      OBVIOUS
    <3>3. a \in 0 .. 1 /\ b \in 0 .. 1
      BY <3>2
    <3>4. Count(s, v, q, K) = a + 1 + b
      BY <1>5, <2>3, <3>2 DEF Count
    <3>5. Count(x, v, q, K \ {k}) = a + 0 + b
      BY <1>15, <2>2, <3>1, <3>2 DEF Count
    <3> QED BY <1>6, <1>14, <2>3, <3>3, <3>4, <3>5
  <2>4. CASE q # p
    <3>1. StartsAt(x, v, q, K \ {k}) <=> StartsAt(s, v, q, K)
      BY <1>16, <2>4 DEF StartsAt
    <3>2. HistOf(x, v, q) = HistOf(s, v, q)
      BY <1>13, <2>4
    <3> QED BY <1>15, <2>1, <2>2, <3>1, <3>2 DEF Count
  <2> QED BY <2>3, <2>4
<1>19. RatiosRise(x, v)
  <2>1. ASSUME NEW q \in Nat, HistOf(x, v, q).refs # 0
        PROVE  HistOf(x, v, q).ratio = HistOf(s, v, q).ratio /\ HistOf(s, v, q).refs # 0
    <3>1. CASE q = p
      BY <1>1, <1>7, <1>14, <2>1, <3>1
    <3>2. CASE q # p
      BY <1>13, <2>1, <3>2
    <3> QED BY <3>1, <3>2
  <2> QED BY <2>1 DEF RatiosRise, RefsOK
<1>20. StartsOK(x, v, K \ {k})
  BY <1>15, <1>16 DEF RefsOK, StartsOK
<1>21. PeriodOK(x, v) /\ SlashesOK(x, v)
  BY <1>15 DEF RefsOK, PeriodOK, SlashesOK
<1>22. RefsOK(x, v, K \ {k})
  BY <1>18, <1>19, <1>20, <1>21 DEF RefsOK, CountOK
<1> QED BY <1>1, <1>2, <1>4, <1>10, <1>11, <1>13, <1>14, <1>22

\* A slash event refers to the last period.
LEMMA SlashRefs ==
  ASSUME NEW s, HistTyped(s), NEW v, NEW K, RefsOK(s, v, K), v \in DOMAIN s.slash,
         NEW p, p = s.cur[v].period - 1, HistOf(s, v, p).refs = 1,
         NEW y, y = incrementReferenceCount(s, v, p),
         NEW x, x.slash = [s.slash EXCEPT ![v] = Append(s.slash[v], p)],
         SameBut(y, x, {"slash"})
  PROVE  /\ HistTyped(x) /\ SameBut(s, x, {"hist", "slash"})
         /\ DOMAIN x.hist = DOMAIN s.hist
         /\ x.slash = [s.slash EXCEPT ![v] = Append(s.slash[v], p)]
         /\ \A w, q : HistOf(x, w, q) =
              IF w = v /\ q = p THEN [ratio |-> HistOf(s, v, p).ratio, refs |-> 2]
              ELSE HistOf(s, w, q)
         /\ RefsOK(x, v, K)
<1>1. PICK h : h = HistOf(s, v, p)
  OBVIOUS
<1>2. PICK c, e : c = s.slash[v] /\ e = Append(c, p)
  OBVIOUS
<1>3. PICK n : n = s.cur[v].period
  OBVIOUS
<1>5. /\ HistTyped(y) /\ SameBut(s, y, {"hist"})
      /\ DOMAIN y.hist = DOMAIN s.hist \cup {<<v, p>>}
      /\ \A w, q : HistOf(y, w, q) =
           IF w = v /\ q = p THEN [ratio |-> h.ratio, refs |-> h.refs + 1]
           ELSE HistOf(s, w, q)
  <2>1. h.refs <= 2
    BY <1>1
  <2> QED BY <1>1, <2>1, Increment
<1>7. /\ x.slash = [s.slash EXCEPT ![v] = e] /\ x.hist = y.hist
      /\ SameBut(s, x, {"hist", "slash"})
  BY <1>2, <1>5 DEF SameBut, StoreFields
<1>8. HistTyped(x) /\ DOMAIN x.hist = DOMAIN s.hist
  <2>1. <<v, p>> \in DOMAIN s.hist
    BY HistRead
  <2>2. HistTyped(x)
    BY <1>5, <1>7 DEF HistTyped, SameBut
  <2> QED BY <1>5, <1>7, <2>1, <2>2
<1>9. \A w, q : HistOf(x, w, q) =
        IF w = v /\ q = p THEN [ratio |-> h.ratio, refs |-> 2] ELSE HistOf(s, w, q)
  <2>1. \A w, q : HistOf(x, w, q) = HistOf(y, w, q)
    BY <1>7 DEF HistOf
  <2>2. [ratio |-> h.ratio, refs |-> h.refs + 1] = [ratio |-> h.ratio, refs |-> 2]
    BY <1>1
  <2> QED BY ONLY <1>5, <2>1, <2>2
<1>10. x.cur = s.cur /\ x.start = s.start /\ x.slash[v] = e
  BY <1>7 DEF SameBut, StoreFields
<1>11. p \in Nat /\ ~StartsAt(s, v, p, K) /\ ~SlashedAt(s, v, p)
  BY OnlyCurrent
<1>12. n \in Nat /\ p = n - 1 /\ p \in 0 .. n - 1
  BY <1>3, <1>11, LastKept
<1>13. c \in Seq(0 .. n - 1) /\ \A i, j \in 1 .. Len(c) : i < j => c[i] < c[j]
  BY <1>2, <1>3 DEF RefsOK, SlashesOK
<1>14. /\ e \in Seq(0 .. n - 1) /\ Len(c) \in Nat /\ Len(e) = Len(c) + 1
       /\ e[Len(c) + 1] = p /\ \A i \in 1 .. Len(c) : e[i] = c[i] /\ c[i] \in 0 .. n - 1
  BY <1>2, <1>12, <1>13, Appended
<1>15. \A q : SlashedAt(x, v, q) <=> SlashedAt(s, v, q) \/ q = p
  BY <1>2, <1>10, <1>14 DEF SlashedAt
<1>16. ASSUME NEW q \in Nat PROVE HistOf(x, v, q).refs = Count(x, v, q, K)
  <2>1. HistOf(s, v, q).refs = Count(s, v, q, K)
    BY DEF RefsOK, CountOK
  <2>2. StartsAt(x, v, q, K) <=> StartsAt(s, v, q, K)
    BY <1>10 DEF StartsAt
  <2>3. CASE q = p
    <3>1. HistOf(x, v, q) = [ratio |-> h.ratio, refs |-> 2]
      BY ONLY <1>9, <2>3
    <3>2. HistOf(x, v, q).refs = 2
      BY <3>1
    <3>3. SlashedAt(x, v, q) /\ ~StartsAt(x, v, q, K)
      BY <1>11, <1>15, <2>2, <2>3
    <3>4. x.cur[v].period - 1 = q
      BY <1>10, <2>3
    <3> QED BY ONLY <3>2, <3>3, <3>4 DEF Count
  <2>4. CASE q # p
    <3>1. HistOf(x, v, q) = HistOf(s, v, q)
      BY <1>9, <2>4
    <3> QED BY <1>10, <1>15, <2>1, <2>2, <2>4, <3>1 DEF Count
  <2> QED BY <2>3, <2>4
<1>17. RatiosRise(x, v)
  <2>1. \A q \in Nat : /\ HistOf(x, v, q).ratio = HistOf(s, v, q).ratio
                       /\ HistOf(x, v, q).refs # 0 => HistOf(s, v, q).refs # 0
    BY <1>1, <1>9
  <2> QED BY <2>1 DEF RatiosRise, RefsOK
<1>18. StartsOK(x, v, K) /\ PeriodOK(x, v)
  BY <1>10 DEF RefsOK, StartsOK, PeriodOK
<1>19. SlashesOK(x, v)
  <2>1. \A i \in 1 .. Len(c) : c[i] < p
    <3>1. \A i \in 1 .. Len(c) : c[i] # p
      BY <1>2, <1>11 DEF SlashedAt
    <3> QED BY <1>12, <1>14, <3>1
  <2>2. ASSUME NEW i \in 1 .. Len(e), NEW j \in 1 .. Len(e), i < j PROVE e[i] < e[j]
    <3>1. i \in 1 .. Len(c)
      BY <1>14, <2>2
    <3>2. CASE j = Len(c) + 1
      BY <1>14, <2>1, <3>1, <3>2
    <3>3. CASE j # Len(c) + 1
      <4>1. j \in 1 .. Len(c)
        BY <1>14, <3>3
      <4> QED BY <1>13, <1>14, <2>2, <3>1, <4>1
    <3> QED BY <3>2, <3>3
  <2> QED BY <1>3, <1>10, <1>14, <2>2 DEF SlashesOK
<1>20. RefsOK(x, v, K)
  BY <1>16, <1>17, <1>18, <1>19 DEF RefsOK, CountOK
<1> QED BY <1>1, <1>2, <1>7, <1>8, <1>9, <1>20

\* No delegation of K is to v.
NoneOf(K, v) == \A k \in K : k[2] # v

\* A validator's first period.
LEMMA CreateRefs ==
  ASSUME NEW s, HistTyped(s), NEW v, \A p \in Nat : HistOf(s, v, p).refs = 0,
         s.slash[v] = <<>>, NEW K, NoneOf(K, v),
         NEW x, x = AfterValidatorCreated(s, v)
  PROVE  /\ HistTyped(x) /\ SameBut(s, x, {"hist", "cur", "com", "out"})
         /\ DOMAIN x.hist = DOMAIN s.hist \cup {<<v, 0>>}
         /\ \A w, q : HistOf(x, w, q) =
              IF w = v /\ q = 0 THEN [ratio |-> 0, refs |-> 1] ELSE HistOf(s, w, q)
         /\ x.cur = Put(s.cur, v, [rewards |-> 0, period |-> 1])
         /\ x.com = Put(s.com, v, 0) /\ x.out = Put(s.out, v, 0)
         /\ RefsOK(x, v, K)
<1>1. PICK r : r = [ratio |-> 0, refs |-> 1]
  OBVIOUS
<1>2. PICK c : c = [rewards |-> 0, period |-> 1]
  OBVIOUS
<1>3. x = [s EXCEPT !.hist = Put(s.hist, <<v, 0>>, r), !.cur = Put(s.cur, v, c),
                    !.com = Put(s.com, v, 0), !.out = Put(s.out, v, 0)]
  BY <1>1, <1>2 DEF AfterValidatorCreated
<1>4. /\ SameBut(s, x, {"hist", "cur", "com", "out"})
      /\ x.hist = Put(s.hist, <<v, 0>>, r) /\ x.cur = Put(s.cur, v, c)
      /\ x.com = Put(s.com, v, 0) /\ x.out = Put(s.out, v, 0)
  BY <1>3 DEF HistTyped, SameBut, IsStore, StoreFields
<1>5. HistTyped(x) /\ DOMAIN x.hist = DOMAIN s.hist \cup {<<v, 0>>}
  BY <1>1, <1>4 DEF HistTyped, SameBut, Put, Ratio
<1>6. \A w, q : HistOf(x, w, q) = IF w = v /\ q = 0 THEN r ELSE HistOf(s, w, q)
  <2>1. x.hist = Put(s.hist, <<v, 0>>, r)
    BY <1>4
  <2> QED BY ONLY <2>1, HistSet
<1>7. x.slash[v] = <<>> /\ x.cur[v] = c
  BY <1>4 DEF SameBut, StoreFields, Put
<1>8. PeriodOK(x, v) /\ x.cur[v].period = 1
  BY <1>2, <1>7 DEF PeriodOK
<1>9. ASSUME NEW q \in Nat PROVE HistOf(x, v, q).refs = Count(x, v, q, K)
  <2>1. ~StartsAt(x, v, q, K) /\ ~SlashedAt(x, v, q)
    BY <1>7 DEF NoneOf, StartsAt, SlashedAt
  <2>2. HistOf(x, v, q).refs = IF q = 0 THEN 1 ELSE 0
    BY <1>1, <1>6
  <2> QED BY <1>8, <2>1, <2>2 DEF Count
<1>10. RatiosRise(x, v)
  <2>1. \A q \in Nat : HistOf(x, v, q).refs # 0 => q = 0
    BY <1>6
  <2>2. HistOf(x, v, 0).ratio = 0
    BY <1>1, <1>6
  <2> QED BY <2>1, <2>2 DEF RatiosRise
<1>11. StartsOK(x, v, K) /\ SlashesOK(x, v)
  BY <1>7 DEF NoneOf, StartsOK, SlashesOK
<1>12. RefsOK(x, v, K)
  BY <1>8, <1>9, <1>10, <1>11 DEF RefsOK, CountOK
<1> QED BY <1>1, <1>2, <1>4, <1>5, <1>6, <1>12

-----------------------------------------------------------------------------
(***************************************************************************)
(* Withdrawals.                                                            *)
(***************************************************************************)
\* What a withdrawal takes from the outstanding rewards.
Reward(s, d, v) ==
  Least(Rewards(IncrementValidatorPeriod(s, v), d, v, s.cur[v].period), s.out[v])

\* The coins move from the validator's outstanding rewards to the delegator,
\* what is no whole coin to the community pool.
Paid(s, x, d, v) ==
  LET reward == Reward(s, d, v)
      coins  == reward \div Unit
  IN  /\ x.held = s.held - coins * Unit
      /\ x.bal = [s.bal EXCEPT ![d] = s.bal[d] + coins]
      /\ x.out = [s.out EXCEPT ![v] = s.out[v] - reward]
      /\ x.pool = s.pool + (reward % Unit)

\* No delegation refers to a period that has not ended or to a higher ratio.
LEMMA NoRewardsPanic ==
  ASSUME NEW s, HistTyped(s), NEW v, NEW K, RefsOK(s, v, K), NEW d, <<d, v>> \in K,
         NEW p, p = s.cur[v].period - 1
  PROVE  ~RewardsPanic(s, d, v, p)
<1>1. PICK k : k = <<d, v>>
  OBVIOUS
<1>2. PICK n, q : n = s.cur[v].period /\ q = s.start[k].prev
  OBVIOUS
<1>3. n \in Nat /\ p \in Nat /\ p = n - 1 /\ HistOf(s, v, p).refs # 0
  BY <1>2, LastKept
<1>4. k \in K /\ k[2] = v
  BY <1>1
<1>5. q \in 0 .. n - 1
  BY <1>2, <1>4 DEF RefsOK, StartsOK
<1>6. q \in Nat /\ q <= p
  BY <1>3, <1>5
<1>7. HistOf(s, v, q).refs # 0
  <2>1. StartsAt(s, v, q, K)
    BY <1>2, <1>4 DEF StartsAt
  <2>2. HistOf(s, v, q).refs = Count(s, v, q, K)
    BY <1>6 DEF RefsOK, CountOK
  <2> QED BY <2>1, <2>2 DEF Count
<1>8. HistOf(s, v, q).ratio <= HistOf(s, v, p).ratio
  BY <1>3, <1>6, <1>7 DEF RefsOK, RatiosRise
<1>9. HistOf(s, v, q).ratio \in Nat /\ HistOf(s, v, p).ratio \in Nat
  BY HistRead
<1>10. ~(q > p) /\ ~(HistOf(s, v, q).ratio > HistOf(s, v, p).ratio)
  BY <1>3, <1>6, <1>8, <1>9
<1> QED BY <1>1, <1>2, <1>10 DEF RewardsPanic

\* The ratios of v that x keeps are those of s after the period has ended.
EndedRatios(s, x, v) ==
  \A p : HistOf(x, v, p).refs # 0 =>
          HistOf(x, v, p).ratio = HistOf(IncrementValidatorPeriod(s, v), v, p).ratio

\* What a withdrawal from validator v does, of whose delegations K have started.
Withdrawn(s, x, d, v, n, K) ==
  /\ HistTyped(x)
  /\ SameBut(s, x, {"hist", "cur", "start", "held", "bal", "out", "pool"})
  /\ DOMAIN x.hist \subseteq DOMAIN s.hist \cup {<<v, n>>}
  /\ x.cur = [s.cur EXCEPT ![v] = [rewards |-> 0, period |-> n + 1]]
  /\ x.start = Drop(s.start, <<d, v>>)
  /\ Paid(s, x, d, v)
  /\ \A w, q : w # v => HistOf(x, w, q) = HistOf(s, w, q)
  /\ RefsOK(x, v, K \ {<<d, v>>})
  /\ HistOf(x, v, n).refs = 1
  /\ EndedRatios(s, x, v)

\* A withdrawal ends the period and gives up the start.
LEMMA WithdrawRefs ==
  ASSUME NEW s, HistTyped(s), NEW v, v \in DOMAIN s.cur, NEW K, RefsOK(s, v, K),
         K \subseteq DOMAIN s.start, s.val[v].tokens \in Nat \ {0},
         NEW d, <<d, v>> \in K, NEW n, n = s.cur[v].period,
         NEW x, x = Withdraw(s, d, v)
  PROVE  Withdrawn(s, x, d, v, n, K)
<1>1. PICK k : k = <<d, v>>
  OBVIOUS
<1>2. k \in K /\ k[2] = v
  BY <1>1
<1>3. PICK e : e = IncrementValidatorPeriod(s, v)
  OBVIOUS
<1>4. /\ HistTyped(e) /\ SameBut(s, e, {"hist", "cur"})
      /\ DOMAIN e.hist \subseteq DOMAIN s.hist \cup {<<v, n>>}
      /\ e.cur = [s.cur EXCEPT ![v] = [rewards |-> 0, period |-> n + 1]]
      /\ \A w, q : HistOf(e, w, q) = Ended(s, v, w, q)
      /\ RefsOK(e, v, K)
      /\ HistOf(e, v, n).refs = 1
  BY <1>3, PeriodRefs, TokensMayEnd
<1>5. n \in Nat /\ e.cur[v].period = n + 1 /\ n = e.cur[v].period - 1
  <2>1. n \in Nat
    BY LastKept
  <2>2. e.cur[v] = [rewards |-> 0, period |-> n + 1]
    BY <1>4
  <2>3. e.cur[v].period = n + 1
    BY <2>2
  <2> QED BY <2>1, <2>3
<1>6. PICK r, c : r = Reward(s, d, v) /\ c = r \div Unit
  OBVIOUS
<1>7. e.out = s.out /\ e.held = s.held /\ e.bal = s.bal /\ e.pool = s.pool
      /\ e.start = s.start /\ e.slash = s.slash
  BY <1>4 DEF SameBut, StoreFields
<1>8. PICK y : y = [e EXCEPT !.held = e.held - c * Unit, !.bal[d] = e.bal[d] + c,
                             !.out[v] = e.out[v] - r, !.pool = e.pool + (r % Unit)]
  OBVIOUS
<1>9. PICK p : p = s.start[k].prev
  OBVIOUS
<1>10. ~RewardsPanic(e, d, v, n)
  BY <1>1, <1>2, <1>4, <1>5, NoRewardsPanic
<1>11. x = [decrementReferenceCount(y, v, p) EXCEPT !.start = Drop(s.start, k)]
  BY <1>1, <1>3, <1>6, <1>7, <1>8, <1>9, <1>10 DEF Withdraw, Reward
<1>12. /\ SameBut(e, y, {"held", "bal", "out", "pool"})
       /\ y.held = e.held - c * Unit /\ y.bal = [e.bal EXCEPT ![d] = e.bal[d] + c]
       /\ y.out = [e.out EXCEPT ![v] = e.out[v] - r] /\ y.pool = e.pool + (r % Unit)
  BY <1>4, <1>8 DEF SameBut, IsStore, StoreFields
<1>13. y.hist = e.hist /\ y.cur = e.cur /\ y.slash = e.slash /\ y.start = e.start
  BY <1>12 DEF SameBut, StoreFields
<1>14. \A w, q : HistOf(y, w, q) = HistOf(e, w, q)
  BY <1>13 DEF HistOf
<1>15. HistTyped(y)
  BY <1>4, <1>12, <1>13 DEF HistTyped, SameBut
<1>16. RefsOK(y, v, K)
  <2>1. SameAt(e, y, v, K, K)
    BY <1>13, <1>14 DEF SameAt
  <2> QED BY <1>4, <2>1, RefsSame
<1>17. PICK z : z = decrementReferenceCount(y, v, p)
  OBVIOUS
<1>26. K \subseteq DOMAIN y.start /\ p = y.start[k].prev
  BY <1>7, <1>9, <1>13
<1>27. IsStore(z)
  <2>1. CASE z = Panic(y)
    BY <1>12, <2>1 DEF Panic, SameBut, IsStore
  <2>2. CASE z # Panic(y)
    BY <1>12, <1>17, <2>2 DEF decrementReferenceCount, SameBut, IsStore
  <2> QED BY <2>1, <2>2
<1>28. x.start = Drop(y.start, k) /\ SameBut(z, x, {"start"})
  BY <1>7, <1>11, <1>13, <1>17, <1>27 DEF SameBut, IsStore, StoreFields
<1>18. /\ HistTyped(x) /\ SameBut(y, x, {"hist", "start"})
       /\ DOMAIN x.hist \subseteq DOMAIN y.hist
       /\ x.start = Drop(y.start, k)
       /\ p \in 0 .. y.cur[v].period - 1
       /\ \A w, q : ~(w = v /\ q = p) => HistOf(x, w, q) = HistOf(y, w, q)
       /\ HistOf(x, v, p).refs # 0 => HistOf(x, v, p).ratio = HistOf(y, v, p).ratio
       /\ RefsOK(x, v, K \ {k})
  BY ONLY <1>2, <1>15, <1>16, <1>17, <1>26, <1>28, ReleaseRefs, Z3
<1>19. SameBut(s, x, {"hist", "cur", "start", "held", "bal", "out", "pool"})
  BY <1>4, <1>12, <1>18 DEF SameBut, StoreFields
<1>20. /\ x.held = y.held /\ x.bal = y.bal /\ x.out = y.out /\ x.pool = y.pool
       /\ x.cur = y.cur
  BY <1>18 DEF SameBut, StoreFields
<1>21. Paid(s, x, d, v)
  BY <1>6, <1>7, <1>12, <1>20 DEF Paid
<1>22. p # n
  <2>1. p \in 0 .. s.cur[v].period - 1
    BY <1>2, <1>9 DEF RefsOK, StartsOK
  <2> QED BY <1>5, <2>1
<1>23. HistOf(x, v, n).refs = 1
  <2>1. HistOf(x, v, n) = HistOf(y, v, n)
    BY <1>18, <1>22
  <2> QED BY <1>4, <1>14, <2>1
<1>24. ASSUME NEW w, NEW q, w # v PROVE HistOf(x, w, q) = HistOf(s, w, q)
  <2>1. HistOf(x, w, q) = HistOf(e, w, q)
    BY <1>14, <1>18, <1>24
  <2>2. HistOf(e, w, q) = Ended(s, v, w, q)
    BY <1>4
  <2> QED BY <1>24, <2>1, <2>2 DEF Ended
<1>25. /\ DOMAIN x.hist \subseteq DOMAIN s.hist \cup {<<v, n>>}
       /\ x.cur = [s.cur EXCEPT ![v] = [rewards |-> 0, period |-> n + 1]]
       /\ x.start = Drop(s.start, k)
  BY <1>4, <1>7, <1>13, <1>18, <1>20
<1>29. EndedRatios(s, x, v)
  <2> SUFFICES ASSUME NEW q, HistOf(x, v, q).refs # 0
               PROVE  HistOf(x, v, q).ratio = HistOf(e, v, q).ratio
    BY <1>3 DEF EndedRatios
  <2>1. CASE q = p
    BY <1>14, <1>18, <2>1
  <2>2. CASE q # p
    BY <1>14, <1>18, <2>2
  <2> QED BY <2>1, <2>2
<1> QED BY <1>1, <1>3, <1>18, <1>19, <1>21, <1>23, <1>24, <1>25, <1>29 DEF Withdrawn

\* The stretches of a delegation: the rewards of those that ended, and where
\* and with which stake the present one began.
Stretch == [sum : Int, prev : Nat, stake : Nat]

\* Slash event i ends stretch b of a delegation that started with a.
NextStretch(s, v, a, b, i) ==
  IF s.slash[v][i] <= a.prev THEN b
  ELSE [sum |-> UpTo(s, v, b, s.slash[v][i]), prev |-> s.slash[v][i],
        stake |-> b.stake \div 2]

\* A product of two numbers is a number.
LEMMA ProductType == \A a, b \in Int : a * b \in Int
OBVIOUS

\* What a stretch is worth is a number.
LEMMA UpToType ==
  ASSUME NEW s, HistTyped(s), NEW v, NEW b, b \in Stretch, NEW p
  PROVE  UpTo(s, v, b, p) \in Int
<1>1. PICK x, y : x = HistOf(s, v, p).ratio /\ y = HistOf(s, v, b.prev).ratio
  OBVIOUS
<1>2. x \in Nat /\ y \in Nat
  BY <1>1, HistRead
<1>3. b.sum \in Int /\ b.stake \in Int /\ x - y \in Int
  BY <1>2 DEF Stretch
<1>4. b.stake * (x - y) \in Int
  BY <1>3, ProductType
<1> QED BY <1>1, <1>3, <1>4 DEF UpTo

\* A slash event begins a stretch.
LEMMA NextStretchType ==
  ASSUME NEW s, HistTyped(s), NEW v, NEW a, NEW b, b \in Stretch, NEW i, s.slash[v][i] \in Nat
  PROVE  NextStretch(s, v, a, b, i) \in Stretch
<1>1. PICK p, u, h : p = s.slash[v][i] /\ u = UpTo(s, v, b, p) /\ h = b.stake \div 2
  OBVIOUS
<1>2. p \in Nat /\ u \in Int /\ h \in Nat
  <2>1. u \in Int
    BY <1>1, UpToType
  <2>2. b.stake \in Nat
    BY DEF Stretch
  <2> QED BY <1>1, <2>1, <2>2
<1>3. [sum |-> u, prev |-> p, stake |-> h] \in Stretch
  BY <1>2 DEF Stretch
<1> QED BY <1>1, <1>3 DEF NextStretch

\* The stretches of a delegation that started as a says, of n slash events.
StretchesAre(s, d, v, a, n, f) ==
  /\ HistTyped(s) /\ s.slash[v] \in Seq(Nat)
  /\ a = s.start[<<d, v>>] /\ a.prev \in Nat /\ a.stake \in Nat
  /\ n = Len(s.slash[v]) /\ f = Stretches(s, d, v)

\* From the start on, each event is followed by its stretch.
Stretched(s, v, a, n, f) ==
  /\ f[0] = [sum |-> 0, prev |-> a.prev, stake |-> a.stake]
  /\ \A i \in 1 .. n : f[i] = NextStretch(s, v, a, f[i - 1], i)

\* The recursive definition of Stretches has a solution.
LEMMA StretchesGiven ==
  ASSUME NEW s, NEW d, NEW v, NEW a, NEW n, NEW f, StretchesAre(s, d, v, a, n, f)
  PROVE  n \in Nat /\ f \in [0 .. n -> Stretch] /\ Stretched(s, v, a, n, f)
<1> DEFINE first == [sum |-> 0, prev |-> a.prev, stake |-> a.stake]
           step(g) == [i \in 0 .. n |-> IF i = 0 THEN first
                                        ELSE NextStretch(s, v, a, g[i - 1], i)]
<1> HistTyped(s) /\ s.slash[v] \in Seq(Nat) /\ a.prev \in Nat /\ a.stake \in Nat
  BY DEF StretchesAre
<1> a = s.start[<<d, v>>] /\ n = Len(s.slash[v]) /\ f = Stretches(s, d, v)
  BY DEF StretchesAre
<1>1. n \in Nat /\ \A i \in 1 .. n : s.slash[v][i] \in Nat
  BY InSeq
<1>2. PICK z, F : /\ z = first
                  /\ F = [i \in 1 .. n |-> [b \in Stretch |-> NextStretch(s, v, a, b, i)]]
  OBVIOUS
<1>3. z \in Stretch
  BY <1>2 DEF Stretch
<1>4. F \in [1 .. n -> [Stretch -> Stretch]]
  <2>1. \A i \in 1 .. n, b \in Stretch : NextStretch(s, v, a, b, i) \in Stretch
    BY <1>1, NextStretchType
  <2> QED BY <1>2, <2>1
<1>5. f = CHOOSE g : g = step(g)
  BY DEF Stretches, NextStretch
<1>6. PICK g \in [0 .. n -> Stretch] :
             \A k \in 0 .. n : g[k] = IF k = 0 THEN z ELSE F[k][g[k - 1]]
  <2>1. PICK S : S = Stretch
    OBVIOUS
  <2>2. n \in Nat /\ z \in S /\ F \in [1 .. n -> [S -> S]]
    BY <1>1, <1>3, <1>4, <2>1
  <2>3. \E g \in [0 .. n -> S] :
           \A k \in 0 .. n : g[k] = IF k = 0 THEN z ELSE F[k][g[k - 1]]
    BY ONLY <2>2, RecursionUpTo
  <2> QED BY <2>1, <2>3
<1>7. g = step(g)
  <2>1. ASSUME NEW k \in 0 .. n
        PROVE  g[k] = IF k = 0 THEN first ELSE NextStretch(s, v, a, g[k - 1], k)
    <3>1. CASE k = 0
      BY <1>2, <1>6, <3>1
    <3>2. CASE k # 0
      <4>1. k \in 1 .. n /\ k - 1 \in 0 .. n
        BY <1>1, <3>2
      <4>2. PICK b \in Stretch : b = g[k - 1]
        BY <4>1
      <4>3. F[k][b] = NextStretch(s, v, a, b, k)
        BY <1>2, <4>1
      <4> QED BY <1>6, <3>2, <4>2, <4>3
    <3> QED BY <3>1, <3>2
  <2> HIDE DEF first
  <2>2. g = [k \in 0 .. n |-> g[k]]
    OBVIOUS
  <2> QED BY <2>1, <2>2
<1>8. f = step(f)
  <2>1. \E e : e = step(e)
    BY <1>7
  <2> HIDE DEF step
  <2> QED BY <1>5, <2>1
<1>9. \A k \in 0 .. n : f[k] = IF k = 0 THEN first ELSE NextStretch(s, v, a, f[k - 1], k)
  <2> HIDE DEF first
  <2>1. \A e : e = step(f) =>
          \A k \in 0 .. n : e[k] = IF k = 0 THEN first ELSE NextStretch(s, v, a, f[k - 1], k)
    OBVIOUS
  <2> QED BY <1>8, <2>1
<1>10. \A k \in 0 .. n : f[k] \in Stretch
  <2>1. PICK K : K = {k \in Nat : k <= n => f[k] \in Stretch}
    OBVIOUS
  <2>2. 0 \in K
    BY <1>1, <1>2, <1>3, <1>9, <2>1
  <2>3. ASSUME NEW k \in Nat, k \in K PROVE k + 1 \in K
    <3>1. SUFFICES ASSUME k + 1 <= n PROVE f[k + 1] \in Stretch
      BY <2>1
    <3>2. k + 1 \in 1 .. n /\ k + 1 \in 0 .. n /\ k + 1 # 0 /\ (k + 1) - 1 = k
      BY <1>1, <3>1
    <3>3. f[k] \in Stretch
      BY <1>1, <2>1, <2>3, <3>1
    <3>4. f[k + 1] = NextStretch(s, v, a, f[k], k + 1)
      <4> HIDE DEF first
      <4> QED BY <1>9, <3>2
    <3> QED BY <1>1, <3>2, <3>3, <3>4, NextStretchType
  <2>4. Nat \subseteq K
    BY <2>2, <2>3, NatSetInduction
  <2> QED BY <1>1, <2>1, <2>4
<1>11. f = [k \in 0 .. n |-> f[k]]
  BY <1>8
<1>12. f \in [0 .. n -> Stretch]
  BY <1>10, <1>11
<1>13. f[0] = first /\ \A i \in 1 .. n : f[i] = NextStretch(s, v, a, f[i - 1], i)
  <2> HIDE DEF first
  <2>1. 0 \in 0 .. n /\ \A i \in 1 .. n : i \in 0 .. n /\ i # 0
    BY <1>1
  <2> QED BY <1>9, <2>1
<1> QED BY <1>1, <1>12, <1>13 DEF Stretched

-----------------------------------------------------------------------------
(***************************************************************************)
(* The records of all validators.                                          *)
(***************************************************************************)
\* A step that changes the records of one validator only.
LEMMA HistLift ==
  ASSUME NEW s, NEW x, NEW W, NEW K, NEW L, NEW v, HistOK(s, W, K), HistTyped(x),
         RefsOK(x, v, L), \A w \in W : w # v => SameAt(s, x, w, K, L)
  PROVE  HistOK(x, W \cup {v}, L)
<1>1. ASSUME NEW w \in W \cup {v} PROVE RefsOK(x, w, L)
  <2>1. CASE w = v
    BY <2>1
  <2>2. CASE w # v
    <3>1. RefsOK(s, w, K) /\ SameAt(s, x, w, K, L)
      BY <1>1, <2>2 DEF HistOK
    <3> QED BY <3>1, RefsSame
  <2> QED BY <2>1, <2>2
<1> QED BY <1>1 DEF HistOK

\* A step that changes no record.
LEMMA HistFrame ==
  ASSUME NEW s, NEW x, NEW W, NEW K, HistOK(s, W, K), IsStore(x),
         x.hist = s.hist, x.start = s.start, x.slash = s.slash,
         \A w \in W : x.cur[w] = s.cur[w]
  PROVE  HistOK(x, W, K)
<1>1. \A w, q : HistOf(x, w, q) = HistOf(s, w, q)
  BY DEF HistOf
<1>2. ASSUME NEW w \in W PROVE RefsOK(x, w, K)
  <2>1. SameAt(s, x, w, K, K)
    BY <1>1 DEF SameAt
  <2>2. RefsOK(s, w, K)
    BY DEF HistOK
  <2> QED BY <2>1, <2>2, RefsSame
<1> QED BY <1>2 DEF HistOK, HistTyped

\* The end of a period,
LEMMA PeriodHist ==
  ASSUME NEW s, NEW W, NEW K, HistOK(s, W, K), W \subseteq DOMAIN s.cur, NEW v \in W,
         MayEnd(s, v), NEW n, n = s.cur[v].period,
         NEW x, x = IncrementValidatorPeriod(s, v)
  PROVE  /\ HistOK(x, W, K) /\ SameBut(s, x, {"hist", "cur"})
         /\ DOMAIN x.hist \subseteq DOMAIN s.hist \cup {<<v, n>>}
         /\ x.cur = [s.cur EXCEPT ![v] = [rewards |-> 0, period |-> n + 1]]
         /\ HistOf(x, v, n).refs = 1
         /\ n \in Nat /\ x.cur[v].period - 1 = n
         /\ \A w, q : HistOf(x, w, q) = Ended(s, v, w, q)
<1>1. HistTyped(s) /\ RefsOK(s, v, K) /\ v \in DOMAIN s.cur
  BY DEF HistOK
<1>2. /\ HistTyped(x) /\ SameBut(s, x, {"hist", "cur"})
      /\ DOMAIN x.hist \subseteq DOMAIN s.hist \cup {<<v, n>>}
      /\ x.cur = [s.cur EXCEPT ![v] = [rewards |-> 0, period |-> n + 1]]
      /\ \A w, q : HistOf(x, w, q) = Ended(s, v, w, q)
      /\ RefsOK(x, v, K) /\ HistOf(x, v, n).refs = 1
  BY <1>1, PeriodRefs
<1>3. n \in Nat /\ x.cur[v].period - 1 = n
  <2>1. n \in Nat
    BY <1>1, LastKept
  <2>2. x.cur[v] = [rewards |-> 0, period |-> n + 1]
    BY <1>1, <1>2
  <2>3. x.cur[v].period = n + 1
    BY <2>2
  <2> QED BY <2>1, <2>3
<1>4. x.start = s.start /\ x.slash = s.slash
  BY <1>2 DEF SameBut, StoreFields
<1>5. ASSUME NEW w \in W, w # v PROVE SameAt(s, x, w, K, K)
  <2>1. x.cur[w] = s.cur[w]
    BY <1>2, <1>5
  <2>2. \A p \in Nat : HistOf(x, w, p) = HistOf(s, w, p)
    BY <1>2, <1>5 DEF Ended
  <2> QED BY <1>4, <2>1, <2>2 DEF SameAt
<1>6. HistOK(x, W \cup {v}, K)
  BY <1>2, <1>5, HistLift
<1>7. W \cup {v} = W
  OBVIOUS
<1> QED BY <1>2, <1>3, <1>6, <1>7

\* a delegation that starts,
LEMMA StartHist ==
  ASSUME NEW s, NEW W, NEW K, HistOK(s, W, K), NEW v \in W, NEW d,
         <<d, v>> \notin K, K \subseteq DOMAIN s.start,
         NEW p, p = s.cur[v].period - 1, HistOf(s, v, p).refs = 1,
         NEW height, NEW x, x = AfterDelegationModified(s, d, v, height)
  PROVE  /\ HistOK(x, W, K \cup {<<d, v>>}) /\ SameBut(s, x, {"hist", "start"})
         /\ DOMAIN x.hist = DOMAIN s.hist
         /\ x.start = Put(s.start, <<d, v>>,
                          [prev |-> p, stake |-> Stake(s, d, v), height |-> height])
         /\ \A w, q : HistOf(x, w, q) =
              IF w = v /\ q = p THEN [ratio |-> HistOf(s, v, p).ratio, refs |-> 2]
              ELSE HistOf(s, w, q)
<1>1. HistTyped(s) /\ RefsOK(s, v, K)
  BY DEF HistOK
<1>2. PICK k, a : /\ k = <<d, v>>
                  /\ a = [prev |-> p, stake |-> Stake(s, d, v), height |-> height]
  OBVIOUS
<1>3. /\ HistTyped(x) /\ SameBut(s, x, {"hist", "start"})
      /\ DOMAIN x.hist = DOMAIN s.hist
      /\ x.start = Put(s.start, k, a)
      /\ \A w, q : HistOf(x, w, q) =
           IF w = v /\ q = p THEN [ratio |-> HistOf(s, v, p).ratio, refs |-> 2]
           ELSE HistOf(s, w, q)
      /\ RefsOK(x, v, K \cup {k})
  BY <1>1, <1>2, StartRefs
<1>4. x.cur = s.cur /\ x.slash = s.slash
  BY <1>3 DEF SameBut, StoreFields
<1>5. ASSUME NEW w \in W, w # v PROVE SameAt(s, x, w, K, K \cup {k})
  <2>1. \A q \in Nat : HistOf(x, w, q) = HistOf(s, w, q)
    BY <1>3, <1>5
  <2>2. ASSUME NEW l \in K \cup {k}, l[2] = w PROVE l \in K /\ x.start[l] = s.start[l]
    <3>1. l # k
      BY <1>2, <1>5, <2>2
    <3>2. l \in K /\ l \in DOMAIN s.start \cup {k}
      BY <2>2, <3>1
    <3>3. x.start = [j \in DOMAIN s.start \cup {k} |-> IF j = k THEN a ELSE s.start[j]]
      BY <1>3 DEF Put
    <3> QED BY ONLY <3>1, <3>2, <3>3
  <2> QED BY <1>4, <2>1, <2>2 DEF SameAt
<1>6. HistOK(x, W \cup {v}, K \cup {k})
  BY <1>3, <1>5, HistLift
<1>7. W \cup {v} = W
  OBVIOUS
<1> QED BY <1>2, <1>3, <1>6, <1>7

\* a slash,
LEMMA SlashHist ==
  ASSUME NEW s, NEW W, NEW K, HistOK(s, W, K), W \subseteq DOMAIN s.cur, NEW v \in W,
         v \in DOMAIN s.slash, s.val[v].tokens \in Nat \ {0}, NEW n, n = s.cur[v].period,
         NEW x, x = BeforeValidatorSlashed(s, v)
  PROVE  /\ HistOK(x, W, K) /\ SameBut(s, x, {"hist", "cur", "slash"})
         /\ DOMAIN x.hist \subseteq DOMAIN s.hist \cup {<<v, n>>}
         /\ x.cur = [s.cur EXCEPT ![v] = [rewards |-> 0, period |-> n + 1]]
         /\ x.slash = [s.slash EXCEPT ![v] = Append(s.slash[v], n)]
         /\ n \in Nat
         /\ \A w, q : HistOf(x, w, q).ratio = Ended(s, v, w, q).ratio
         /\ \A w, q : w # v => HistOf(x, w, q) = HistOf(s, w, q)
<1>1. PICK e : e = IncrementValidatorPeriod(s, v)
  OBVIOUS
<1>2. /\ HistOK(e, W, K) /\ SameBut(s, e, {"hist", "cur"})
      /\ DOMAIN e.hist \subseteq DOMAIN s.hist \cup {<<v, n>>}
      /\ e.cur = [s.cur EXCEPT ![v] = [rewards |-> 0, period |-> n + 1]]
      /\ HistOf(e, v, n).refs = 1
      /\ n \in Nat /\ e.cur[v].period - 1 = n
      /\ \A w, q : HistOf(e, w, q) = Ended(s, v, w, q)
  BY <1>1, PeriodHist, TokensMayEnd
<1>3. e.slash = s.slash
  BY <1>2 DEF SameBut, StoreFields
<1>4. HistTyped(e) /\ RefsOK(e, v, K) /\ v \in DOMAIN e.slash
  BY <1>2, <1>3 DEF HistOK
<1>5. PICK y : y = incrementReferenceCount(e, v, n)
  OBVIOUS
<1>6. IsStore(y) /\ y.slash = e.slash
  <2>1. PICK h : h = HistOf(e, v, n)
    OBVIOUS
  <2>2. h.refs <= 2
    BY <1>2, <2>1
  <2>3. SameBut(e, y, {"hist"})
    BY <1>4, <1>5, <2>1, <2>2, Increment
  <2> QED BY <2>3 DEF SameBut, StoreFields
<1>7. /\ x.slash = [e.slash EXCEPT ![v] = Append(e.slash[v], n)]
      /\ SameBut(y, x, {"slash"})
  <2>1. x = [y EXCEPT !.slash[v] = Append(e.slash[v], n)]
    BY <1>1, <1>3, <1>5 DEF BeforeValidatorSlashed
  <2> QED BY <1>6, <2>1 DEF IsStore, SameBut, StoreFields
<1>8. /\ HistTyped(x) /\ SameBut(e, x, {"hist", "slash"})
      /\ DOMAIN x.hist = DOMAIN e.hist
      /\ x.slash = [e.slash EXCEPT ![v] = Append(e.slash[v], n)]
      /\ \A w, q : HistOf(x, w, q) =
           IF w = v /\ q = n THEN [ratio |-> HistOf(e, v, n).ratio, refs |-> 2]
           ELSE HistOf(e, w, q)
      /\ RefsOK(x, v, K)
  BY <1>2, <1>4, <1>5, <1>7, SlashRefs
<1>9. x.cur = e.cur /\ x.start = e.start
  BY <1>8 DEF SameBut, StoreFields
<1>10. ASSUME NEW w \in W, w # v PROVE SameAt(e, x, w, K, K)
  <2>1. \A q \in Nat : HistOf(x, w, q) = HistOf(e, w, q)
    BY <1>8, <1>10
  <2>2. x.slash[w] = e.slash[w]
    BY <1>8, <1>10
  <2> QED BY <1>9, <2>1, <2>2 DEF SameAt
<1>11. HistOK(x, W \cup {v}, K)
  BY <1>2, <1>8, <1>10, HistLift
<1>12. W \cup {v} = W
  OBVIOUS
<1>13. SameBut(s, x, {"hist", "cur", "slash"})
  BY <1>2, <1>8 DEF SameBut, StoreFields
<1>14. ASSUME NEW w, NEW q PROVE HistOf(x, w, q).ratio = Ended(s, v, w, q).ratio
  <2>1. HistOf(e, w, q) = Ended(s, v, w, q)
    BY <1>2
  <2>2. HistOf(x, w, q).ratio = HistOf(e, w, q).ratio
    BY <1>8
  <2> QED BY <2>1, <2>2
<1>15. ASSUME NEW w, NEW q, w # v PROVE HistOf(x, w, q) = HistOf(s, w, q)
  <2>1. HistOf(e, w, q) = HistOf(s, w, q)
    BY <1>2, <1>15 DEF Ended
  <2>2. HistOf(x, w, q) = HistOf(e, w, q)
    BY <1>8, <1>15
  <2> QED BY <2>1, <2>2
<1> QED BY <1>2, <1>3, <1>8, <1>9, <1>11, <1>12, <1>13, <1>14, <1>15

\* and a new validator.
LEMMA CreateHist ==
  ASSUME NEW s, NEW W, NEW K, HistOK(s, W, K), HistIn(s, W), W \subseteq DOMAIN s.cur,
         NEW v, v \notin W, s.slash[v] = <<>>, \A k \in K : k[2] \in W,
         NEW x, x = AfterValidatorCreated(s, v)
  PROVE  /\ HistOK(x, W \cup {v}, K) /\ HistIn(x, W \cup {v})
         /\ SameBut(s, x, {"hist", "cur", "com", "out"})
         /\ x.cur = Put(s.cur, v, [rewards |-> 0, period |-> 1])
         /\ x.com = Put(s.com, v, 0) /\ x.out = Put(s.out, v, 0)
         /\ HistOf(x, v, 0).refs = 1
<1>1. HistTyped(s)
  BY DEF HistOK
<1>2. \A p \in Nat : HistOf(s, v, p).refs = 0
  BY DEF HistIn, HistOf
<1>3. NoneOf(K, v)
  BY DEF NoneOf
<1>4. /\ HistTyped(x) /\ SameBut(s, x, {"hist", "cur", "com", "out"})
      /\ DOMAIN x.hist = DOMAIN s.hist \cup {<<v, 0>>}
      /\ \A w, q : HistOf(x, w, q) =
           IF w = v /\ q = 0 THEN [ratio |-> 0, refs |-> 1] ELSE HistOf(s, w, q)
      /\ x.cur = Put(s.cur, v, [rewards |-> 0, period |-> 1])
      /\ x.com = Put(s.com, v, 0) /\ x.out = Put(s.out, v, 0)
      /\ RefsOK(x, v, K)
  BY <1>1, <1>2, <1>3, CreateRefs
<1>5. x.start = s.start /\ x.slash = s.slash
  BY <1>4 DEF SameBut, StoreFields
<1>6. ASSUME NEW w \in W, w # v PROVE SameAt(s, x, w, K, K)
  <2>1. \A q \in Nat : HistOf(x, w, q) = HistOf(s, w, q)
    BY <1>4, <1>6
  <2>2. x.cur[w] = s.cur[w]
    BY <1>4, <1>6 DEF Put
  <2> QED BY <1>5, <2>1, <2>2 DEF SameAt
<1>7. HistOK(x, W \cup {v}, K)
  BY <1>4, <1>6, HistLift
<1>8. HistIn(x, W \cup {v})
  BY <1>4 DEF HistIn
<1>9. HistOf(x, v, 0).refs = 1
  BY <1>4
<1> QED BY <1>4, <1>7, <1>8, <1>9

-----------------------------------------------------------------------------
(***************************************************************************)
(* The operations on a chain that runs.                                    *)
(***************************************************************************)
\* A stake is a number.
LEMMA StakeType ==
  ASSUME NEW s, NEW d, NEW v, s.del[<<d, v>>] \in Nat, s.val[v].tokens \in Nat,
         s.val[v].shares \in Nat \ {0}
  PROVE  Stake(s, d, v) \in Nat
<1>1. PICK a, b, c : /\ a = s.del[<<d, v>>] /\ b = s.val[v].tokens
                     /\ c = s.val[v].shares
  OBVIOUS
<1>2. a \in Nat /\ b \in Nat /\ c \in Nat /\ c > 0
  BY <1>1
<1>3. PICK n : n = a * b
  OBVIOUS
<1>4. n \in Nat
  BY <1>2, <1>3
<1>5. n \div c \in Nat
  BY <1>2, <1>4
<1> QED BY <1>1, <1>3, <1>5 DEF Stake

\* Where validators and delegations are the same, so are indexes and shares.
LEMMA StakeFrame ==
  ASSUME NEW s, NEW x, x.val = s.val, x.del = s.del, x.power = s.power,
         x.last = s.last, x.queue = s.queue, Indexed(s), Shared(s)
  PROVE  Indexed(x) /\ Shared(x)
<1>1. \A v : DelsOf(x, v) = DelsOf(s, v)
  BY DEF DelsOf
<1> QED BY <1>1 DEF Indexed, Shared, SharedAt, DelTyped

\* A validator's parts of a chain that runs.
LEMMA RunningAt ==
  ASSUME NEW s, NEW K, RunningWith(s, K), NEW v \in DOMAIN s.val
  PROVE  /\ s.val[v].tokens \in Nat \ {0} /\ s.val[v].shares \in Nat \ {0}
         /\ v \in DOMAIN s.cur /\ v \in Val /\ v \in DOMAIN s.slash
         /\ IsStore(s) /\ HistTyped(s) /\ RefsOK(s, v, K)
<1>1. s.val[v] \in ValType
  BY DEF RunningWith, Keyed
<1>2. s.val[v].tokens > 0 /\ s.val[v].shares > 0
  BY DEF RunningWith, Shared, SharedAt
<1> QED BY <1>1, <1>2 DEF ValType, RunningWith, Keyed, HistOK

\* A delegation starts.
LEMMA StartRunning ==
  ASSUME NEW s, NEW K, RunningWith(s, K), NEW d, NEW v \in DOMAIN s.val,
         NEW k, k = <<d, v>>, k \in DOMAIN s.del, k \notin K,
         HistOf(s, v, s.cur[v].period - 1).refs = 1,
         NEW height \in 0 .. 1, NEW x, x = AfterDelegationModified(s, d, v, height)
  PROVE  /\ RunningWith(x, K \cup {k}) /\ SameBut(s, x, {"hist", "start"})
         /\ x.start[k].height = height
         /\ \A l \in K : x.start[l] = s.start[l]
<1>1. /\ s.val[v].tokens \in Nat \ {0} /\ s.val[v].shares \in Nat \ {0}
      /\ v \in DOMAIN s.cur
  BY RunningAt
<1>2. PICK p : p = s.cur[v].period - 1
  OBVIOUS
<1>3. HistOK(s, DOMAIN s.val, K) /\ K = DOMAIN s.start
  BY DEF RunningWith, Keyed
<1>4. PICK a : a = [prev |-> p, stake |-> Stake(s, d, v), height |-> height]
  OBVIOUS
<1>5. /\ HistOK(x, DOMAIN s.val, K \cup {k}) /\ SameBut(s, x, {"hist", "start"})
      /\ DOMAIN x.hist = DOMAIN s.hist
      /\ x.start = Put(s.start, k, a)
  BY <1>2, <1>3, <1>4, StartHist
<1>6. /\ x.val = s.val /\ x.del = s.del /\ x.power = s.power /\ x.last = s.last
      /\ x.queue = s.queue /\ x.cur = s.cur /\ x.com = s.com /\ x.out = s.out
      /\ x.sign = s.sign /\ x.slash = s.slash /\ x.panic = s.panic /\ x.pool = s.pool
      /\ x.held = s.held /\ x.supply = s.supply /\ x.bal = s.bal /\ IsStore(x)
  BY <1>5 DEF SameBut, StoreFields
<1>7. a \in StartType
  <2>1. p \in Nat
    <3>1. s.cur[v].period \in Nat \ {0}
      BY <1>3, LastKept DEF HistOK
    <3> QED BY <1>2, <3>1
  <2>2. Stake(s, d, v) \in Nat
    <3>1. s.del[k] \in Nat
      BY DEF RunningWith, Shared, DelTyped
    <3> QED BY <1>1, <3>1, StakeType
  <2> QED BY <1>4, <2>1, <2>2 DEF StartType
<1>8. /\ x.start \in [K \cup {k} -> StartType] /\ x.start[k] = a
      /\ \A l \in K : x.start[l] = s.start[l]
  <2>1. s.start \in [K -> StartType]
    BY DEF RunningWith, Keyed
  <2> QED BY <1>5, <1>7, <2>1 DEF Put
<1>9. Keyed(x, K \cup {k})
  BY <1>6, <1>8 DEF RunningWith, Keyed
<1>10. Indexed(x) /\ Shared(x)
  BY <1>6, StakeFrame DEF RunningWith
<1>11. Coins(x) /\ HistIn(x, DOMAIN x.val)
  BY <1>5, <1>6 DEF RunningWith, Coins, HistIn
<1> QED BY <1>4, <1>5, <1>6, <1>8, <1>9, <1>10, <1>11 DEF RunningWith

\* A reward is a number.
LEMMA RewardType ==
  ASSUME NEW s, NEW K, RunningWith(s, K), NEW d, NEW v \in DOMAIN s.val, <<d, v>> \in K
  PROVE  Reward(s, d, v) \in Int
<1>1. PICK k, a : k = <<d, v>> /\ a = s.start[k]
  OBVIOUS
<1>2. a.prev \in Nat /\ a.stake \in Nat
  <2>1. a \in StartType
    BY <1>1 DEF RunningWith, Keyed
  <2> QED BY <2>1 DEF StartType
<1>3. /\ s.val[v].tokens \in Nat \ {0} /\ v \in DOMAIN s.cur
      /\ HistTyped(s) /\ RefsOK(s, v, K)
  BY RunningAt
<1>4. PICK e : e = IncrementValidatorPeriod(s, v)
  OBVIOUS
<1>5. HistTyped(e) /\ SameBut(s, e, {"hist", "cur"}) /\ RefsOK(e, v, K)
  BY <1>3, <1>4, PeriodRefs, TokensMayEnd
<1>6. e.start = s.start
  BY <1>5 DEF SameBut, StoreFields
<1>7. PICK c, n : c = e.slash[v] /\ n = e.cur[v].period
  OBVIOUS
<1>8. c \in Seq(Nat)
  <2>1. c \in Seq(0 .. n - 1)
    BY <1>5, <1>7 DEF RefsOK, SlashesOK
  <2>2. n \in Nat
    BY <1>5, <1>7, LastKept
  <2>3. 0 .. n - 1 \subseteq Nat
    BY <2>2
  <2> QED BY <2>1, <2>3, SeqWider
<1>9. PICK f, l : f = Stretches(e, d, v) /\ l = Len(c)
  OBVIOUS
<1>10. l \in Nat /\ f \in [0 .. l -> Stretch]
  <2>1. e.slash[v] \in Seq(Nat) /\ a = e.start[<<d, v>>] /\ l = Len(e.slash[v])
    BY <1>1, <1>6, <1>7, <1>8, <1>9
  <2>2. StretchesAre(e, d, v, a, l, f)
    BY <1>2, <1>5, <1>9, <2>1 DEF StretchesAre
  <2> QED BY <2>2, StretchesGiven
<1>11. PICK b : b = f[l]
  OBVIOUS
<1>12. b \in Stretch
  BY <1>10, <1>11
<1>13. \A p : UpTo(e, v, b, p) \in Int
  BY <1>5, <1>12, UpToType
<1>14. \A p : Rewards(e, d, v, p) \in Int
  BY <1>7, <1>9, <1>11, <1>13 DEF Rewards
<1>15. s.out[v] \in Int
  BY DEF RunningWith, Coins
<1> QED BY <1>4, <1>14, <1>15 DEF Reward, Least

\* A delegation's rewards are withdrawn; it has not started again.
LEMMA WithdrawRunning ==
  ASSUME NEW s, NEW K, RunningWith(s, K), NEW d \in Account, NEW v \in DOMAIN s.val,
         NEW k, k = <<d, v>>, k \in K, NEW x, x = Withdraw(s, d, v)
  PROVE  /\ RunningWith(x, K \ {k})
         /\ SameBut(s, x, {"hist", "cur", "start", "held", "bal", "out", "pool"})
         /\ HistOf(x, v, x.cur[v].period - 1).refs = 1
         /\ \A l \in K \ {k} : x.start[l] = s.start[l]
         /\ Paid(s, x, d, v)
<1>1. /\ s.val[v].tokens \in Nat \ {0} /\ v \in DOMAIN s.cur
      /\ HistTyped(s) /\ RefsOK(s, v, K)
  BY RunningAt
<1>2. K = DOMAIN s.start /\ HistOK(s, DOMAIN s.val, K)
  BY DEF RunningWith, Keyed
<1>3. PICK n : n = s.cur[v].period
  OBVIOUS
<1>4. n \in Nat
  BY <1>1, <1>3, LastKept
<1>5. /\ HistTyped(x)
      /\ SameBut(s, x, {"hist", "cur", "start", "held", "bal", "out", "pool"})
      /\ DOMAIN x.hist \subseteq DOMAIN s.hist \cup {<<v, n>>}
      /\ x.cur = [s.cur EXCEPT ![v] = [rewards |-> 0, period |-> n + 1]]
      /\ x.start = Drop(s.start, k)
      /\ Paid(s, x, d, v)
      /\ \A w, q : w # v => HistOf(x, w, q) = HistOf(s, w, q)
      /\ RefsOK(x, v, K \ {k})
      /\ HistOf(x, v, n).refs = 1
  <2>1. K \subseteq DOMAIN s.start /\ <<d, v>> \in K
    BY <1>2
  <2>2. Withdrawn(s, x, d, v, n, K)
    BY ONLY <1>1, <1>3, <2>1, x = Withdraw(s, d, v), WithdrawRefs
  <2> QED BY <2>2 DEF Withdrawn
<1>6. /\ x.val = s.val /\ x.del = s.del /\ x.power = s.power /\ x.last = s.last
      /\ x.queue = s.queue /\ x.com = s.com /\ x.sign = s.sign /\ x.slash = s.slash
      /\ x.panic = s.panic /\ x.supply = s.supply /\ IsStore(x)
  BY <1>5 DEF SameBut, StoreFields
<1>7. x.cur[v].period = n + 1 /\ x.cur[v].period - 1 = n
  <2>1. x.cur[v] = [rewards |-> 0, period |-> n + 1]
    BY <1>1, <1>5
  <2>2. x.cur[v].period = n + 1
    BY <2>1
  <2> QED BY <1>4, <2>2
<1>8. /\ x.start \in [K \ {k} -> StartType]
      /\ \A l \in K \ {k} : x.start[l] = s.start[l]
  <2>1. s.start \in [K -> StartType]
    BY DEF RunningWith, Keyed
  <2> QED BY <1>5, <2>1 DEF Drop
<1>9. Keyed(x, K \ {k})
  <2>1. DOMAIN x.cur = DOMAIN s.cur /\ DOMAIN x.out = DOMAIN s.out
    BY <1>5 DEF Paid
  <2> QED BY <1>6, <1>8, <2>1 DEF RunningWith, Keyed
<1>10. Indexed(x) /\ Shared(x)
  BY <1>6, StakeFrame DEF RunningWith
<1>11. Coins(x)
  <2>1. PICK r : r = Reward(s, d, v)
    OBVIOUS
  <2>2. r \in Int
    BY <1>2, <2>1, RewardType
  <2>3. Unit \in Nat \ {0}
    BY StakingAssumption
  <2>4. PICK c, m, u : c = r \div Unit /\ m = r % Unit /\ u = c * Unit
    OBVIOUS
  <2>5. c \in Int /\ m \in Int /\ u \in Int
    BY <2>2, <2>3, <2>4, ProductType
  <2>6. /\ x.held = s.held - u /\ x.bal = [s.bal EXCEPT ![d] = s.bal[d] + c]
        /\ x.out = [s.out EXCEPT ![v] = s.out[v] - r] /\ x.pool = s.pool + m
    BY <1>5, <2>1, <2>4 DEF Paid
  <2>7. /\ s.out \in [DOMAIN s.val -> Int] /\ s.pool \in Int /\ s.held \in Int
        /\ s.supply \in Int /\ s.bal \in [Account -> Int]
        /\ s.com \in [DOMAIN s.val -> Nat]
    BY DEF RunningWith, Coins
  <2>8. x.out \in [DOMAIN x.val -> Int] /\ x.bal \in [Account -> Int]
    BY <1>6, <2>2, <2>5, <2>6, <2>7
  <2> QED BY <1>6, <2>5, <2>6, <2>7, <2>8 DEF Coins
<1>12. HistIn(x, DOMAIN x.val)
  BY <1>4, <1>5, <1>6 DEF RunningWith, HistIn
<1>13. HistOK(x, DOMAIN x.val, K \ {k})
  <2>1. ASSUME NEW w \in DOMAIN s.val, w # v PROVE SameAt(s, x, w, K, K \ {k})
    <3>1. x.cur[w] = s.cur[w]
      BY <1>5, <2>1
    <3>2. \A l \in K : l[2] = w => l # k
      BY <2>1
    <3> QED BY <1>5, <1>6, <1>8, <2>1, <3>1, <3>2 DEF SameAt
  <2>2. HistOK(x, DOMAIN s.val \cup {v}, K \ {k})
    BY <1>2, <1>5, <2>1, HistLift
  <2>3. DOMAIN s.val \cup {v} = DOMAIN x.val
    BY <1>6
  <2> QED BY <2>2, <2>3
<1> QED BY <1>5, <1>7, <1>8, <1>9, <1>10, <1>11, <1>12, <1>13 DEF RunningWith

\* A period ends.
LEMMA EndRunning ==
  ASSUME NEW s, NEW K, RunningWith(s, K), NEW v \in DOMAIN s.val,
         NEW x, x = IncrementValidatorPeriod(s, v)
  PROVE  /\ RunningWith(x, K) /\ SameBut(s, x, {"hist", "cur"})
         /\ HistOf(x, v, x.cur[v].period - 1).refs = 1
<1>1. s.val[v].tokens \in Nat \ {0} /\ MayEnd(s, v)
  BY RunningAt, TokensMayEnd
<1>2. HistOK(s, DOMAIN s.val, K) /\ DOMAIN s.val \subseteq DOMAIN s.cur
  BY DEF RunningWith, Keyed
<1>3. PICK n : n = s.cur[v].period
  OBVIOUS
<1>4. /\ HistOK(x, DOMAIN s.val, K) /\ SameBut(s, x, {"hist", "cur"})
      /\ DOMAIN x.hist \subseteq DOMAIN s.hist \cup {<<v, n>>}
      /\ x.cur = [s.cur EXCEPT ![v] = [rewards |-> 0, period |-> n + 1]]
      /\ HistOf(x, v, n).refs = 1
      /\ n \in Nat /\ x.cur[v].period - 1 = n
  BY <1>1, <1>2, <1>3, PeriodHist
<1>5. /\ x.val = s.val /\ x.del = s.del /\ x.power = s.power /\ x.last = s.last
      /\ x.queue = s.queue /\ x.com = s.com /\ x.out = s.out
      /\ x.sign = s.sign /\ x.slash = s.slash /\ x.panic = s.panic /\ x.pool = s.pool
      /\ x.held = s.held /\ x.supply = s.supply /\ x.bal = s.bal /\ IsStore(x)
      /\ x.start = s.start
  BY <1>4 DEF SameBut, StoreFields
<1>6. Keyed(x, K)
  <2>1. DOMAIN x.cur = DOMAIN s.cur
    BY <1>4
  <2> QED BY <1>5, <2>1 DEF RunningWith, Keyed
<1>7. Indexed(x) /\ Shared(x)
  BY <1>5, StakeFrame DEF RunningWith
<1>8. Coins(x) /\ HistIn(x, DOMAIN x.val)
  BY <1>4, <1>5 DEF RunningWith, Coins, HistIn
<1> QED BY <1>4, <1>5, <1>6, <1>7, <1>8 DEF RunningWith

\* A delegation's rewards are withdrawn and it starts again.
LEMMA WithdrawRewardsRunning ==
  ASSUME NEW s, Running(s), NEW k \in DOMAIN s.del, NEW height \in 0 .. 1,
         NEW x, x = WithdrawDelegationRewards(s, k[1], k[2], height)
  PROVE  /\ Running(x)
         /\ SameBut(s, x, {"hist", "cur", "start", "held", "bal", "out", "pool"})
         /\ x.del = s.del
<1>1. PICK d \in Account, v \in DOMAIN s.val : k = <<d, v>>
  BY DEF Running, RunningWith, Keyed
<1>2. k[1] = d /\ k[2] = v /\ <<d, v>> \in DOMAIN s.del /\ <<d, v>> \in DOMAIN s.start
  BY <1>1 DEF Running, RunningWith, Keyed
<1>3. PICK w : w = Withdraw(s, d, v)
  OBVIOUS
<1>4. PICK K : K = DOMAIN s.del
  OBVIOUS
<1>5. /\ RunningWith(w, K \ {k})
      /\ SameBut(s, w, {"hist", "cur", "start", "held", "bal", "out", "pool"})
      /\ HistOf(w, v, w.cur[v].period - 1).refs = 1
  <2>1. RunningWith(s, K) /\ k \in K
    BY <1>4 DEF Running
  <2> QED BY <1>1, <1>3, <2>1, WithdrawRunning
<1>6. w.del = s.del /\ w.val = s.val /\ ~w.panic
  BY <1>5 DEF SameBut, StoreFields, RunningWith, Keyed
<1>7. x = AfterDelegationModified(w, d, v, height)
  BY <1>2, <1>3, <1>6 DEF WithdrawDelegationRewards
<1>8. v \in DOMAIN w.val /\ k \in DOMAIN w.del /\ k \notin K \ {k}
  BY <1>6
<1>9. /\ RunningWith(x, (K \ {k}) \cup {k}) /\ SameBut(w, x, {"hist", "start"})
  BY ONLY <1>1, <1>5, <1>7, <1>8, height \in 0 .. 1, StartRunning
<1>10. (K \ {k}) \cup {k} = K
  BY <1>4
<1>11. SameBut(s, x, {"hist", "cur", "start", "held", "bal", "out", "pool"})
       /\ x.del = s.del
  BY <1>5, <1>9 DEF SameBut, StoreFields
<1> QED BY <1>4, <1>9, <1>10, <1>11 DEF Running

\* The shares of a validator whose delegations stay are what they were.
LEMMA SharedSame ==
  ASSUME NEW s, NEW x, NEW u, DelTyped(s), SharedAt(s, u), x.val[u] = s.val[u],
         DelsOf(x, u) = DelsOf(s, u), \A k \in DelsOf(s, u) : x.del[k] = s.del[k]
  PROVE  SharedAt(x, u)
<1>1. PICK S, f, e : S = DelsOf(s, u) /\ f = s.del /\ e = x.del
  OBVIOUS
<1>2. IsFiniteSet(S) /\ \A k \in S : f[k] \in Int /\ e[k] = f[k]
  <2>1. S \subseteq DOMAIN s.del
    BY <1>1 DEF DelsOf
  <2> QED BY <1>1, <2>1, FS_Subset DEF DelTyped
<1>3. SumFunctionOnSet(e, S) = SumFunctionOnSet(f, S)
  BY ONLY <1>2, SumSame
<1>4. PICK op : op = <<OperatorOf[u], u>>
  OBVIOUS
<1>5. op \in DelsOf(s, u) /\ op \in DelsOf(x, u)
  BY <1>4 DEF SharedAt, DelsOf
<1> QED BY <1>1, <1>3, <1>4, <1>5 DEF SharedAt, DelsOf

\* After the hook of a delegation of d to v, which is made or increased next.
Opened(s, d, v) ==
  /\ Keyed(s, DOMAIN s.del \ {<<d, v>>}) /\ Indexed(s) /\ DelTyped(s) /\ Coins(s)
  /\ HistIn(s, DOMAIN s.val)
  /\ HistOK(s, DOMAIN s.val, DOMAIN s.del \ {<<d, v>>})
  /\ HistOf(s, v, s.cur[v].period - 1).refs = 1
  /\ \A w \in DOMAIN s.val : w # v => SharedAt(s, w)
  /\ SumFunctionOnSet(s.del, DelsOf(s, v)) = s.val[v].shares
  /\ \/ SharedAt(s, v)
     \/ s.val[v].shares = 0 /\ d = OperatorOf[v]

\* Delegation k to v, of h shares or none, is given a more.
Adds(s, x, v, k, h, a) ==
  /\ DelTyped(s) /\ k[2] = v /\ a \in Nat
  /\ h = (IF k \in DOMAIN s.del THEN s.del[k] ELSE 0)
  /\ x.del = Put(s.del, k, h + a)

\* The shares of the delegations when one is made or increased.
LEMMA SharesAdded ==
  ASSUME NEW s, NEW x, NEW v, NEW k, NEW h, NEW a, Adds(s, x, v, k, h, a)
  PROVE  /\ DelTyped(x) /\ DOMAIN x.del = DOMAIN s.del \cup {k}
         /\ x.del[k] = h + a /\ h \in Nat
         /\ \A l \in DOMAIN s.del : l # k => x.del[l] = s.del[l]
         /\ SumFunctionOnSet(x.del, DelsOf(x, v)) = SumFunctionOnSet(s.del, DelsOf(s, v)) + a
<1> DelTyped(s) /\ k[2] = v /\ a \in Nat /\ x.del = Put(s.del, k, h + a)
  BY DEF Adds
<1> h = (IF k \in DOMAIN s.del THEN s.del[k] ELSE 0)
  BY DEF Adds
<1>1. h \in Nat
  BY DEF DelTyped
<1>2. DOMAIN x.del = DOMAIN s.del \cup {k}
  BY DEF Put
<1>3. x.del[k] = h + a /\ \A l \in DOMAIN s.del : l # k => x.del[l] = s.del[l]
  BY DEF Put
<1>4. DelTyped(x)
  <2>1. IsFiniteSet(DOMAIN x.del)
    BY <1>2, FS_AddElement DEF DelTyped
  <2>2. x.del = [j \in DOMAIN x.del |-> x.del[j]]
    BY DEF Put
  <2>3. \A j \in DOMAIN x.del : x.del[j] \in Nat
    BY <1>1, <1>2, <1>3 DEF DelTyped
  <2> QED BY <2>1, <2>2, <2>3 DEF DelTyped
<1>5. PICK S, f, e : S = DelsOf(s, v) /\ f = s.del /\ e = x.del
  OBVIOUS
<1>6. DelsOf(x, v) = S \cup {k}
  BY <1>2, <1>5 DEF DelsOf
<1>7. IsFiniteSet(S) /\ \A l \in S : f[l] \in Int
  <2>1. S \subseteq DOMAIN s.del
    BY <1>5 DEF DelsOf
  <2> QED BY <1>5, <2>1, FS_Subset DEF DelTyped
<1>8. IsFiniteSet(S \cup {k}) /\ \A l \in S \cup {k} : e[l] \in Int
  <2>1. S \cup {k} \subseteq DOMAIN x.del
    BY <1>2, <1>5 DEF DelsOf
  <2> QED BY <1>4, <1>5, <2>1, FS_Subset DEF DelTyped
<1>9. SumFunctionOnSet(f, S) \in Int
  BY ONLY <1>7, SumRemove
<1>10. CASE k \in DOMAIN s.del
  <2>1. k \in S /\ S \cup {k} = S /\ h = f[k]
    BY <1>5, <1>10 DEF DelsOf
  <2>2. \A l \in S : f[l] \in Int /\ e[l] \in Int
    BY <1>7, <1>8
  <2>3. \A l \in S \ {k} : e[l] = f[l]
    BY <1>3, <1>5 DEF DelsOf
  <2>4. SumFunctionOnSet(e, S) = SumFunctionOnSet(f, S) + (e[k] - f[k])
    <3>1. IsFiniteSet(S) /\ k \in S
      BY <1>7, <2>1
    <3> QED BY ONLY <3>1, <2>2, <2>3, SumChanged
  <2>5. e[k] - f[k] = a
    BY <1>1, <1>3, <1>5, <2>1
  <2> QED BY <1>2, <1>3, <1>1, <1>4, <1>5, <1>6, <2>1, <2>4, <2>5
<1>11. CASE k \notin DOMAIN s.del
  <2>1. k \notin S /\ (S \cup {k}) \ {k} = S /\ h = 0
    BY <1>5, <1>11 DEF DelsOf
  <2>2. PICK T : T = S \cup {k}
    OBVIOUS
  <2>3. k \in T /\ T \ {k} = S /\ IsFiniteSet(T) /\ \A l \in T : e[l] \in Int
    BY <1>8, <2>1, <2>2
  <2>4. SumFunctionOnSet(e, T) = e[k] + SumFunctionOnSet(e, T \ {k})
    BY ONLY <2>3, SumRemove
  <2>5. \A l \in S : f[l] \in Int /\ e[l] = f[l]
    BY <1>3, <1>5, <1>7, <2>1 DEF DelsOf
  <2>6. SumFunctionOnSet(e, S) = SumFunctionOnSet(f, S)
    BY ONLY <1>7, <2>5, SumSame
  <2>7. e[k] = a
    BY <1>3, <1>5, <2>1
  <2>8. SumFunctionOnSet(e, T) = SumFunctionOnSet(f, S) + a
    <3>1. SumFunctionOnSet(e, T) = a + SumFunctionOnSet(f, S)
      BY <2>3, <2>4, <2>6, <2>7
    <3>2. PICK n : n = SumFunctionOnSet(f, S)
      OBVIOUS
    <3> QED BY <1>9, <3>1, <3>2
  <2> QED BY <1>1, <1>2, <1>3, <1>4, <1>5, <1>6, <2>2, <2>8
<1> QED BY <1>10, <1>11

\* Store x is s in which delegation k of d to v, of h shares, has been given a
\* more; b is the validator's record.
Delegated(s, x, d, v, k, b, h, a) ==
  /\ k = <<d, v>> /\ b = s.val[v]
  /\ a = (IF b.shares = 0 THEN 4 ELSE (4 * b.shares) \div b.tokens)
  /\ h = (IF k \in DOMAIN s.del THEN s.del[k] ELSE 0)
  /\ x = [s EXCEPT !.del = Put(s.del, k, h + a),
                   !.val[v].tokens = b.tokens + 4,
                   !.val[v].shares = b.shares + a]

\* A delegation is made or increased after its hook.
LEMMA DelegatedRunning ==
  ASSUME NEW s, NEW x, NEW d, d \in Account, NEW v, v \in DOMAIN s.val, Opened(s, d, v),
         NEW k, NEW b, NEW h, NEW a, Delegated(s, x, d, v, k, b, h, a)
  PROVE  /\ RunningWith(x, DOMAIN s.del \ {k}) /\ DOMAIN x.del = DOMAIN s.del \cup {k}
         /\ HistOf(x, v, x.cur[v].period - 1).refs = 1
         /\ v \in DOMAIN x.val
<1>a. k = <<d, v>> /\ b = s.val[v]
  BY DEF Delegated
<1>b. a = (IF b.shares = 0 THEN 4 ELSE (4 * b.shares) \div b.tokens)
  BY DEF Delegated
<1>c. h = (IF k \in DOMAIN s.del THEN s.del[k] ELSE 0)
  BY DEF Delegated
<1>d. x = [s EXCEPT !.del = Put(s.del, k, h + a),
                   !.val[v].tokens = b.tokens + 4,
                   !.val[v].shares = b.shares + a]
  BY DEF Delegated
<1>1. b \in ValType /\ b.tokens \in Nat /\ b.shares \in Nat
  BY <1>a DEF Opened, Keyed, ValType
<1>2. a \in Nat /\ b.shares + a > 0 /\ (b.shares = 0 => a = 4)
  <2>1. CASE b.shares = 0
    BY <1>1, <1>b, <2>1
  <2>2. CASE b.shares # 0
    <3>1. b.tokens > 0
      BY <1>a, <2>2 DEF Opened, SharedAt
    <3>2. PICK n, m : n = 4 * b.shares /\ m = b.tokens
      OBVIOUS
    <3>3. n \in Nat /\ m \in Nat /\ m > 0
      BY <1>1, <3>1, <3>2
    <3>4. n \div m \in Nat
      BY <3>3
    <3> QED BY <1>1, <1>b, <2>2, <3>2, <3>4
  <2> QED BY <2>1, <2>2
<1>3. PICK c : c = [b EXCEPT !.tokens = b.tokens + 4, !.shares = b.shares + a]
  OBVIOUS
<1>4. c \in ValType /\ c.tokens = b.tokens + 4 /\ c.shares = b.shares + a
      /\ c.jailed = b.jailed
  <2>1. PICK m, n : m = b.tokens + 4 /\ n = b.shares + a
    OBVIOUS
  <2>2. m \in Nat /\ n \in Nat
    BY <1>1, <1>2, <2>1
  <2> QED BY <1>1, <1>3, <2>1, <2>2 DEF ValType
<1>5. IsStore(s)
  BY DEF Opened, Keyed
<1>6. /\ SameBut(s, x, {"del", "val"}) /\ x.del = Put(s.del, k, h + a)
      /\ x.val = [s.val EXCEPT ![v] = c]
  <2>1. x.del = Put(s.del, k, h + a) /\ SameBut(s, x, {"del", "val"})
    BY <1>5, <1>d DEF SameBut, IsStore, StoreFields
  <2>2. x.val = [[s.val EXCEPT ![v].tokens = b.tokens + 4] EXCEPT ![v].shares = b.shares + a]
    BY <1>5, <1>d DEF IsStore, StoreFields
  <2>3. s.val \in [DOMAIN s.val -> ValType]
    BY DEF Opened, Keyed
  <2> QED BY <1>3, <1>a, <2>1, <2>2, <2>3
<1>7. /\ x.power = s.power /\ x.last = s.last /\ x.hist = s.hist /\ x.start = s.start
      /\ x.queue = s.queue /\ x.cur = s.cur /\ x.com = s.com /\ x.out = s.out
      /\ x.sign = s.sign /\ x.slash = s.slash /\ x.panic = s.panic /\ x.pool = s.pool
      /\ x.held = s.held /\ x.supply = s.supply /\ x.bal = s.bal /\ IsStore(x)
  BY <1>6 DEF SameBut, StoreFields
<1>8. /\ DOMAIN x.val = DOMAIN s.val /\ x.val \in [DOMAIN x.val -> ValType]
      /\ x.val[v] = c /\ \A u \in DOMAIN s.val : u # v => x.val[u] = s.val[u]
  <2>1. s.val \in [DOMAIN s.val -> ValType]
    BY DEF Opened, Keyed
  <2> QED BY ONLY <1>4, <1>6, <2>1, v \in DOMAIN s.val
<1>9. PICK S, T : S = SumFunctionOnSet(s.del, DelsOf(s, v))
                  /\ T = SumFunctionOnSet(x.del, DelsOf(x, v))
  OBVIOUS
<1>10. /\ DelTyped(x) /\ DOMAIN x.del = DOMAIN s.del \cup {k}
       /\ x.del[k] = h + a /\ h \in Nat
       /\ \A l \in DOMAIN s.del : l # k => x.del[l] = s.del[l]
       /\ T = S + a
  <2>1. Adds(s, x, v, k, h, a)
    BY <1>2, <1>6, <1>a, <1>c DEF Opened, Adds
  <2> QED BY ONLY <1>9, <2>1, SharesAdded
<1>11. SharedAt(x, v)
  <2>1. T = x.val[v].shares /\ x.val[v].shares > 0 /\ x.val[v].tokens > 0
    <3>1. S = b.shares
      BY <1>9, <1>a DEF Opened
    <3>2. x.val[v].tokens = b.tokens + 4 /\ x.val[v].shares = b.shares + a
      BY <1>4, <1>8
    <3>3. T = b.shares + a
      BY <1>10, <3>1
    <3> QED BY ONLY <1>1, <1>2, <3>2, <3>3
  <2>2. PICK op : op = <<OperatorOf[v], v>>
    OBVIOUS
  <2>3. op \in DOMAIN x.del /\ x.del[op] > 0
    <3>1. CASE SharedAt(s, v)
      <4>1. op \in DOMAIN s.del /\ s.del[op] > 0
        BY <2>2, <3>1 DEF SharedAt
      <4>2. h > 0 \/ op # k
        BY <1>c, <4>1
      <4> QED BY ONLY <1>2, <1>10, <4>1, <4>2
    <3>2. CASE ~SharedAt(s, v)
      <4>1. b.shares = 0 /\ op = k
        BY <1>a, <2>2, <3>2 DEF Opened
      <4> QED BY <1>2, <1>10, <4>1
    <3> QED BY <3>1, <3>2
  <2> QED BY <1>9, <2>1, <2>2, <2>3 DEF SharedAt
<1>12. ASSUME NEW u \in DOMAIN x.val PROVE SharedAt(x, u)
  <2>1. CASE u = v
    BY <1>11, <2>1
  <2>2. CASE u # v
    <3>1. DelTyped(s) /\ SharedAt(s, u) /\ x.val[u] = s.val[u]
      BY <1>8, <1>12, <2>2 DEF Opened
    <3>2. k[2] # u
      BY <1>a, <2>2
    <3>3. DelsOf(x, u) = DelsOf(s, u)
      BY <1>10, <3>2 DEF DelsOf
    <3>4. \A l \in DelsOf(s, u) : x.del[l] = s.del[l]
      BY <1>10, <3>2 DEF DelsOf
    <3> QED BY <3>1, <3>3, <3>4, SharedSame
  <2> QED BY <2>1, <2>2
<1>13. Shared(x)
  BY <1>10, <1>12 DEF Shared
<1>14. Indexed(x)
  <2>1. \A u \in DOMAIN s.val : x.val[u].jailed = s.val[u].jailed
    BY <1>4, <1>8, <1>a
  <2>2. Indexed(s)
    BY DEF Opened
  <2>3. {u \in DOMAIN x.val : ~x.val[u].jailed} = {u \in DOMAIN s.val : ~s.val[u].jailed}
    BY <1>8, <2>1
  <2> QED BY <1>7, <1>8, <2>2, <2>3 DEF Indexed
<1>15. Keyed(x, DOMAIN s.del \ {k})
  <2>1. DOMAIN x.del \subseteq Account \X DOMAIN x.val
    <3>1. DOMAIN s.del \subseteq Account \X DOMAIN s.val
      BY DEF Opened, Keyed
    <3>2. k \in Account \X DOMAIN s.val
      BY <1>a
    <3> QED BY <1>8, <1>10, <3>1, <3>2
  <2>2. Keyed(s, DOMAIN s.del \ {k})
    BY <1>a DEF Opened
  <2> QED BY <1>7, <1>8, <2>1, <2>2 DEF Keyed
<1>16. Coins(x) /\ HistIn(x, DOMAIN x.val)
  BY <1>7, <1>8 DEF Opened, Coins, HistIn
<1>17. HistOK(x, DOMAIN x.val, DOMAIN s.del \ {k})
  BY <1>7, <1>8, <1>a, HistFrame DEF Opened
<1>18. HistOf(x, v, x.cur[v].period - 1).refs = 1
  BY <1>7 DEF Opened, HistOf
<1> QED BY <1>8, <1>10, <1>13, <1>14, <1>15, <1>16, <1>17, <1>18 DEF RunningWith

\* A chain that runs is open to a delegation when its hook has run.
LEMMA RunningOpened ==
  ASSUME NEW s, NEW d, NEW v \in DOMAIN s.val,
         RunningWith(s, DOMAIN s.del \ {<<d, v>>}),
         HistOf(s, v, s.cur[v].period - 1).refs = 1
  PROVE  Opened(s, d, v)
<1>1. DelTyped(s) /\ \A w \in DOMAIN s.val : SharedAt(s, w)
  BY DEF RunningWith, Shared
<1>2. SumFunctionOnSet(s.del, DelsOf(s, v)) = s.val[v].shares
  BY <1>1 DEF SharedAt
<1> QED BY <1>1, <1>2 DEF RunningWith, Opened

\* A delegation, from its hook on.
LEMMA DelegateOpened ==
  ASSUME NEW s, NEW d \in Account, NEW v \in DOMAIN s.val, NEW height \in 0 .. 1,
         NEW w, w = IF <<d, v>> \in DOMAIN s.del THEN Withdraw(s, d, v)
                    ELSE BeforeDelegationCreated(s, v),
         w.val = s.val, w.del = s.del, Opened(w, d, v),
         NEW x, x = Delegate(s, d, v, height)
  PROVE  Running(x)
<1>1. PICK k : k = <<d, v>>
  OBVIOUS
<1>2. PICK b : b = w.val[v]
  OBVIOUS
<1>3. PICK a, h : /\ a = (IF b.shares = 0 THEN 4 ELSE (4 * b.shares) \div b.tokens)
                  /\ h = (IF k \in DOMAIN w.del THEN w.del[k] ELSE 0)
  OBVIOUS
<1>4. PICK y : y = [w EXCEPT !.del = Put(w.del, k, h + a),
                             !.val[v].tokens = b.tokens + 4,
                             !.val[v].shares = b.shares + a]
  OBVIOUS
<1>5. x = AfterDelegationModified(y, d, v, height)
  BY <1>1, <1>2, <1>3, <1>4, Zenon DEF Delegate
<1>6. /\ RunningWith(y, DOMAIN w.del \ {k}) /\ DOMAIN y.del = DOMAIN w.del \cup {k}
      /\ HistOf(y, v, y.cur[v].period - 1).refs = 1
      /\ v \in DOMAIN y.val
  <2>1. v \in DOMAIN w.val /\ d \in Account /\ Opened(w, d, v)
    OBVIOUS
  <2>2. Delegated(w, y, d, v, k, b, h, a)
    BY <1>1, <1>2, <1>3, <1>4 DEF Delegated
  <2> QED BY ONLY <2>1, <2>2, DelegatedRunning
<1>7. PICK K : K = DOMAIN w.del \ {k}
  OBVIOUS
<1>8. K \cup {k} = DOMAIN y.del /\ k \notin K /\ k \in DOMAIN y.del
  BY <1>6, <1>7
<1>9. RunningWith(y, K)
  BY <1>6, <1>7
<1>10. RunningWith(x, K \cup {k}) /\ SameBut(y, x, {"hist", "start"})
  BY ONLY <1>1, <1>5, <1>6, <1>8, <1>9, height \in 0 .. 1, StartRunning
<1>11. x.del = y.del
  BY <1>10 DEF SameBut, StoreFields
<1> QED BY <1>8, <1>10, <1>11 DEF Running

\* A delegation is made or increased.
LEMMA DelegateRunning ==
  ASSUME NEW s, Running(s), NEW d \in Account, NEW v \in DOMAIN s.val,
         NEW height \in 0 .. 1, NEW x, x = Delegate(s, d, v, height)
  PROVE  Running(x)
<1>1. PICK k, K : k = <<d, v>> /\ K = DOMAIN s.del
  OBVIOUS
<1>2. PICK w : w = IF k \in K THEN Withdraw(s, d, v) ELSE BeforeDelegationCreated(s, v)
  OBVIOUS
<1>3. /\ RunningWith(w, K \ {k}) /\ w.val = s.val /\ w.del = s.del
      /\ HistOf(w, v, w.cur[v].period - 1).refs = 1
  <2>1. RunningWith(s, K)
    BY <1>1 DEF Running
  <2>2. CASE k \in K
    <3>1. /\ RunningWith(w, K \ {k})
          /\ SameBut(s, w, {"hist", "cur", "start", "held", "bal", "out", "pool"})
          /\ HistOf(w, v, w.cur[v].period - 1).refs = 1
      <4>1. k = <<d, v>> /\ w = Withdraw(s, d, v)
        BY <1>1, <1>2, <2>2
      <4> QED BY <2>1, <2>2, <4>1, WithdrawRunning
    <3> QED BY <3>1 DEF SameBut, StoreFields
  <2>3. CASE k \notin K
    <3>1. w = IncrementValidatorPeriod(s, v)
      BY <1>2, <2>3 DEF BeforeDelegationCreated
    <3>2. /\ RunningWith(w, K) /\ SameBut(s, w, {"hist", "cur"})
          /\ HistOf(w, v, w.cur[v].period - 1).refs = 1
      BY <2>1, <3>1, EndRunning
    <3>3. K \ {k} = K
      BY <2>3
    <3> QED BY <3>2, <3>3 DEF SameBut, StoreFields
  <2> QED BY <2>2, <2>3
<1>4. Opened(w, d, v)
  <2>1. RunningWith(w, DOMAIN w.del \ {<<d, v>>}) /\ v \in DOMAIN w.val
    BY <1>1, <1>3
  <2> QED BY <1>3, <2>1, RunningOpened
<1> QED BY <1>1, <1>2, <1>3, <1>4, DelegateOpened

\* Store m is s with a new validator v, before its operator's delegation.
Entered(s, m, v, height) ==
  m = AfterValidatorCreated(
        [s EXCEPT !.val = Put(s.val, v, [tokens |-> 0, shares |-> 0,
                                         jailed |-> FALSE, height |-> 0]),
                  !.power = s.power \cup {v}, !.last = s.last \cup {v},
                  !.sign = Put(s.sign, v, height)],
        v)

\* What is new in m, and in w when the hook of the delegation has run.
EnteredOpen(s, m, w, v) ==
  /\ v \in DOMAIN m.val /\ w.val = m.val /\ w.del = m.del /\ Opened(w, OperatorOf[v], v)
  /\ w.del = s.del /\ w.start = s.start /\ w.slash = s.slash
  /\ DOMAIN w.val = DOMAIN s.val \cup {v} /\ w.val[v].shares = 0
  /\ \A u \in DOMAIN s.val : w.val[u] = s.val[u]
  /\ w.com = Put(s.com, v, 0) /\ w.out = Put(s.out, v, 0)
  /\ \A u \in DOMAIN s.val : w.cur[u] = s.cur[u]
  /\ w.cur[v].rewards = 0
  /\ \A u, p : u # v => HistOf(w, u, p) = HistOf(s, u, p)

\* A new validator is open to its operator's delegation.
LEMMA EnteredOpened ==
  ASSUME NEW s, Running(s), NEW v \in Val, v \notin DOMAIN s.val,
         NEW height \in 0 .. 1, NEW m, Entered(s, m, v, height),
         NEW w, w = IncrementValidatorPeriod(m, v)
  PROVE  EnteredOpen(s, m, w, v)
<1>1. PICK b : b = [tokens |-> 0, shares |-> 0, jailed |-> FALSE, height |-> 0]
  OBVIOUS
<1>2. b \in ValType /\ b.tokens = 0 /\ b.shares = 0 /\ b.jailed = FALSE
  BY <1>1 DEF ValType
<1>3. PICK n : n = [s EXCEPT !.val = Put(s.val, v, b), !.power = s.power \cup {v},
                            !.last = s.last \cup {v}, !.sign = Put(s.sign, v, height)]
  OBVIOUS
<1>4. PICK d, k : d = OperatorOf[v] /\ k = <<d, v>>
  OBVIOUS
<1>5. d \in Account
  BY <1>4, StakingAssumption
<1>6. m = AfterValidatorCreated(n, v)
  BY <1>1, <1>3 DEF Entered
<1>8. /\ Keyed(s, DOMAIN s.del) /\ Indexed(s) /\ Shared(s) /\ Coins(s) /\ IsStore(s)
      /\ HistIn(s, DOMAIN s.val) /\ HistOK(s, DOMAIN s.val, DOMAIN s.del)
  BY DEF Running, RunningWith, Keyed
<1>9. /\ SameBut(s, n, {"val", "power", "last", "sign"}) /\ n.val = Put(s.val, v, b)
      /\ n.power = s.power \cup {v} /\ n.last = s.last \cup {v}
      /\ n.sign = Put(s.sign, v, height)
  BY <1>3, <1>8 DEF IsStore, SameBut, StoreFields
<1>10. /\ n.hist = s.hist /\ n.start = s.start /\ n.slash = s.slash /\ n.cur = s.cur
       /\ n.del = s.del /\ n.com = s.com /\ n.out = s.out /\ n.queue = s.queue
       /\ n.panic = s.panic /\ n.pool = s.pool /\ n.held = s.held
       /\ n.supply = s.supply /\ n.bal = s.bal /\ IsStore(n)
  BY <1>9 DEF SameBut, StoreFields
<1>11. PICK W, K : W = DOMAIN s.val /\ K = DOMAIN s.del
  OBVIOUS
<1>12. /\ HistOK(m, W \cup {v}, K) /\ HistIn(m, W \cup {v})
       /\ SameBut(n, m, {"hist", "cur", "com", "out"})
       /\ m.cur = Put(s.cur, v, [rewards |-> 0, period |-> 1])
       /\ m.com = Put(s.com, v, 0) /\ m.out = Put(s.out, v, 0)
       /\ HistOf(m, v, 0).refs = 1
  <2>1. HistOK(n, W, K)
    BY <1>8, <1>10, <1>11, HistFrame
  <2>2. HistIn(n, W) /\ W \subseteq DOMAIN n.cur
    BY <1>8, <1>10, <1>11 DEF HistIn, Keyed
  <2>3. n.slash[v] = <<>> /\ v \notin W
    BY <1>8, <1>10, <1>11 DEF Keyed
  <2>4. \A l \in K : l[2] \in W
    BY <1>8, <1>11 DEF Keyed
  <2> QED BY <1>6, <1>10, <2>1, <2>2, <2>3, <2>4, CreateHist
<1>13. /\ m.val = Put(s.val, v, b) /\ m.power = s.power \cup {v} /\ m.last = s.last \cup {v}
       /\ m.sign = Put(s.sign, v, height) /\ m.queue = s.queue /\ m.del = s.del
       /\ m.start = s.start /\ m.slash = s.slash /\ m.panic = s.panic /\ m.pool = s.pool
       /\ m.held = s.held /\ m.supply = s.supply /\ m.bal = s.bal /\ IsStore(m)
  BY <1>9, <1>10, <1>12 DEF SameBut, StoreFields
<1>14. /\ DOMAIN m.val = W \cup {v} /\ m.val[v] = b /\ \A u \in W : m.val[u] = s.val[u]
       /\ m.val \in [W \cup {v} -> ValType]
  <2>1. s.val \in [W -> ValType] /\ v \notin W
    BY <1>8, <1>11 DEF Keyed
  <2> QED BY <1>2, <1>13, <2>1 DEF Put
<1>15. m.cur[v] = [rewards |-> 0, period |-> 1] /\ v \in DOMAIN m.cur
  BY <1>12 DEF Put
<1>16. /\ DOMAIN m.cur = W \cup {v} /\ DOMAIN m.com = W \cup {v}
       /\ DOMAIN m.out = W \cup {v} /\ DOMAIN m.sign = W \cup {v}
       /\ m.com \in [W \cup {v} -> Nat] /\ m.out \in [W \cup {v} -> Int]
  BY <1>8, <1>11, <1>12, <1>13 DEF Put, Keyed, Coins
<1>18. /\ HistOK(w, W \cup {v}, K) /\ SameBut(m, w, {"hist", "cur"})
       /\ DOMAIN w.hist \subseteq DOMAIN m.hist \cup {<<v, 1>>}
       /\ w.cur = [m.cur EXCEPT ![v] = [rewards |-> 0, period |-> 2]]
       /\ HistOf(w, v, 1).refs = 1
       /\ w.cur[v].period - 1 = 1
      /\ \A u, q : HistOf(w, u, q) = Ended(m, v, u, q)
  <2>1. MayEnd(m, v)
    BY <1>2, <1>8, <1>13, <1>14, <1>15, <1>16 DEF MayEnd, Coins
  <2>2. PICK p : p = m.cur[v].period
    OBVIOUS
  <2>3. p = 1
    BY <1>15, <2>2
  <2>4. W \cup {v} \subseteq DOMAIN m.cur /\ v \in W \cup {v}
    BY <1>16
  <2>5. /\ HistOK(w, W \cup {v}, K) /\ SameBut(m, w, {"hist", "cur"})
        /\ DOMAIN w.hist \subseteq DOMAIN m.hist \cup {<<v, p>>}
        /\ w.cur = [m.cur EXCEPT ![v] = [rewards |-> 0, period |-> p + 1]]
        /\ HistOf(w, v, p).refs = 1
        /\ w.cur[v].period - 1 = p
        /\ \A u, q : HistOf(w, u, q) = Ended(m, v, u, q)
    BY <1>12, <2>1, <2>2, <2>4, PeriodHist
  <2> QED BY <2>3, <2>5
<1>19. /\ w.val = m.val /\ w.del = s.del /\ w.power = m.power /\ w.last = m.last
       /\ w.queue = s.queue /\ w.com = m.com /\ w.out = m.out /\ w.sign = m.sign
       /\ w.slash = s.slash /\ w.panic = s.panic /\ w.pool = s.pool /\ w.held = s.held
       /\ w.supply = s.supply /\ w.bal = s.bal /\ w.start = s.start /\ IsStore(w)
  BY <1>13, <1>18 DEF SameBut, StoreFields
<1>20. k \notin K /\ K \ {k} = K
  BY <1>4, <1>8, <1>11 DEF Keyed
<1>21. Keyed(w, K)
  <2>1. DOMAIN w.cur = DOMAIN m.cur
    BY <1>18
  <2>2. DOMAIN w.del \subseteq Account \X DOMAIN w.val
    BY <1>8, <1>11, <1>14, <1>19 DEF Keyed
  <2>3. /\ w.panic = FALSE /\ w.start \in [K -> StartType] /\ DOMAIN w.slash = Val
        /\ W \subseteq Val /\ \A u \in Val \ W : w.slash[u] = <<>>
    BY <1>8, <1>11, <1>19 DEF Keyed
  <2> QED BY <1>14, <1>16, <1>19, <2>1, <2>2, <2>3 DEF Keyed
<1>22. Indexed(w)
  <2>1. v \notin W /\ s.power = {u \in W : ~s.val[u].jailed}
        /\ s.last = s.power /\ s.queue = W \ s.power
    BY <1>8, <1>11 DEF Indexed
  <2>2. {u \in DOMAIN w.val : ~w.val[u].jailed} = s.power \cup {v}
    BY <1>2, <1>14, <1>19, <2>1
  <2>3. DOMAIN w.val \ (s.power \cup {v}) = s.queue
    BY <1>14, <1>19, <2>1
  <2> QED BY <1>13, <1>19, <2>1, <2>2, <2>3 DEF Indexed
<1>23. DelTyped(w)
  BY <1>8, <1>19 DEF Shared, DelTyped
<1>24. ASSUME NEW u \in DOMAIN w.val, u # v PROVE SharedAt(w, u)
  <2>1. u \in W /\ w.val[u] = s.val[u]
    BY <1>14, <1>19, <1>24
  <2>2. DelTyped(s) /\ SharedAt(s, u)
    BY <1>8, <1>11, <2>1 DEF Shared
  <2>3. DelsOf(w, u) = DelsOf(s, u)
    BY <1>19 DEF DelsOf
  <2> QED BY <1>19, <2>1, <2>2, <2>3, SharedSame
<1>25. SumFunctionOnSet(w.del, DelsOf(w, v)) = 0
  <2>1. DelsOf(w, v) = {}
    BY <1>8, <1>11, <1>19 DEF DelsOf, Keyed
  <2> QED BY <2>1, SumEmpty
<1>26. Coins(w) /\ HistIn(w, DOMAIN w.val)
  <2>1. Coins(w)
    BY <1>8, <1>14, <1>16, <1>19 DEF Coins
  <2>2. HistIn(w, DOMAIN w.val)
    BY <1>12, <1>14, <1>18, <1>19 DEF HistIn
  <2> QED BY <2>1, <2>2
<1>27. Opened(w, d, v)
  <2>1. w.val[v].shares = 0
    BY <1>2, <1>14, <1>19
  <2>2. HistOK(w, DOMAIN w.val, K) /\ HistOf(w, v, w.cur[v].period - 1).refs = 1
    BY <1>14, <1>18, <1>19
  <2>3. DOMAIN w.del \ {<<d, v>>} = K
    BY <1>4, <1>11, <1>19, <1>20
  <2> QED BY <1>4, <1>21, <1>22, <1>23, <1>24, <1>25, <1>26, <2>1, <2>2, <2>3 DEF Opened
<1>28. \A u, p : u # v => HistOf(w, u, p) = HistOf(s, u, p)
  <2>1. m.hist = Put(n.hist, <<v, 0>>, [ratio |-> 0, refs |-> 1])
    BY <1>6, <1>10 DEF AfterValidatorCreated, IsStore, StoreFields
  <2>2. \A u, p : HistOf(m, u, p) =
          IF u = v /\ p = 0 THEN [ratio |-> 0, refs |-> 1] ELSE HistOf(n, u, p)
    BY <2>1, HistSet
  <2> QED BY <1>10, <1>18, <2>2 DEF Ended, HistOf
<1>29. v \in DOMAIN m.val /\ w.val = m.val /\ w.del = m.del
  BY <1>13, <1>14, <1>19
<1>30. /\ w.cur[v].rewards = 0 /\ w.val[v].shares = 0
       /\ \A u \in W : w.cur[u] = s.cur[u] /\ w.val[u] = s.val[u]
  <2>1. v \notin W /\ DOMAIN s.cur = W
    BY <1>8, <1>11 DEF Keyed
  <2>2. \A u \in W : m.cur[u] = s.cur[u]
    BY <1>12, <2>1 DEF Put
  <2> QED BY <1>2, <1>14, <1>16, <1>18, <1>19, <2>1, <2>2
<1> QED BY <1>4, <1>11, <1>12, <1>14, <1>19, <1>27, <1>28, <1>29, <1>30 DEF EnteredOpen

\* A validator is created, with its operator's delegation.
LEMMA CreateRunning ==
  ASSUME NEW s, Running(s), NEW v \in Val, v \notin DOMAIN s.val,
         NEW height \in 0 .. 1, NEW x, x = CreateValidator(s, v, height)
  PROVE  Running(x)
<1>1. PICK m : Entered(s, m, v, height) /\ x = Delegate(m, OperatorOf[v], v, height)
  BY DEF CreateValidator, Entered
<1>2. PICK d, w : d = OperatorOf[v] /\ w = IncrementValidatorPeriod(m, v)
  OBVIOUS
<1>3. EnteredOpen(s, m, w, v)
  BY <1>1, <1>2, EnteredOpened
<1>4. /\ v \in DOMAIN m.val /\ w.val = m.val /\ w.del = m.del /\ Opened(w, d, v)
      /\ w.del = s.del
  BY <1>2, <1>3 DEF EnteredOpen
<1>5. d \in Account /\ <<d, v>> \notin DOMAIN m.del
  BY <1>2, <1>4, StakingAssumption DEF Running, RunningWith, Keyed
<1>6. w = IF <<d, v>> \in DOMAIN m.del THEN Withdraw(m, d, v)
          ELSE BeforeDelegationCreated(m, v)
  BY <1>2, <1>5 DEF BeforeDelegationCreated
<1> QED BY <1>1, <1>2, <1>4, <1>5, <1>6, DelegateOpened

\* Products rise.
LEMMA ProductRises ==
  ASSUME NEW a \in Nat, NEW b \in Nat, NEW c \in Nat, a <= b
  PROVE  a * c <= b * c
<1>1. PICK e : e = b - a
  OBVIOUS
<1>2. e \in Nat /\ b = a + e
  BY <1>1
<1>3. b * c = a * c + e * c
  BY <1>2
<1>4. e * c \in Nat /\ a * c \in Nat
  BY <1>2
<1> QED BY <1>3, <1>4

\* Less than all the shares is a stake of less than all the tokens.
LEMMA StakeLess ==
  ASSUME NEW a \in Nat, NEW b \in Nat \ {0}, NEW c \in Nat, a < c
  PROVE  (a * b) \div c \in 0 .. b - 1
<1>1. PICK n, q : n = a * b /\ q = n \div c
  OBVIOUS
<1>2. n \in Nat /\ c > 0
  BY <1>1
<1>3. q \in Nat /\ q * c <= n
  <2>1. q \in Nat
    BY <1>1, <1>2
  <2>2. c * q <= n
    BY <1>1, <1>2
  <2> QED BY <2>1, <2>2
<1>4. n < b * c
  <2>1. a + 1 <= c /\ a + 1 \in Nat
    OBVIOUS
  <2>2. (a + 1) * b <= c * b
    BY <2>1, ProductRises
  <2>3. (a + 1) * b = n + b
    BY <1>1
  <2>4. PICK m : m = c * b
    OBVIOUS
  <2>5. m \in Nat /\ m = b * c
    BY <2>4
  <2> QED BY <1>2, <2>2, <2>3, <2>4, <2>5
<1>5. q < b
  <2>1. SUFFICES ASSUME b <= q PROVE FALSE
    BY <1>3
  <2>2. b * c <= q * c
    BY <1>3, <2>1, ProductRises
  <2>3. PICK m, l : m = b * c /\ l = q * c
    OBVIOUS
  <2>4. m \in Nat /\ l \in Nat
    BY <1>3, <2>3
  <2> QED BY <1>2, <1>3, <1>4, <2>2, <2>3, <2>4
<1> QED BY <1>1, <1>3, <1>5

\* Delegation k to v, which is not its operator's, ends.
Removes(s, x, v, k) ==
  /\ DelTyped(s) /\ SharedAt(s, v)
  /\ k \in DOMAIN s.del /\ k[2] = v /\ k # <<OperatorOf[v], v>>
  /\ x.del = Drop(s.del, k)

\* The shares of the other delegations when one ends.
LEMMA SharesRemoved ==
  ASSUME NEW s, NEW x, NEW v, NEW k, Removes(s, x, v, k)
  PROVE  /\ DelTyped(x) /\ DOMAIN x.del = DOMAIN s.del \ {k}
         /\ \A l \in DOMAIN x.del : x.del[l] = s.del[l]
         /\ s.del[k] \in Nat /\ s.val[v].shares - s.del[k] > 0
         /\ SumFunctionOnSet(x.del, DelsOf(x, v)) = s.val[v].shares - s.del[k]
<1> /\ DelTyped(s) /\ SharedAt(s, v)
    /\ k \in DOMAIN s.del /\ k[2] = v /\ k # <<OperatorOf[v], v>>
    /\ x.del = Drop(s.del, k)
  BY DEF Removes
<1>1. /\ DOMAIN x.del = DOMAIN s.del \ {k}
      /\ \A l \in DOMAIN x.del : x.del[l] = s.del[l]
  BY DEF Drop
<1>2. DelTyped(x)
  <2>1. IsFiniteSet(DOMAIN x.del)
    BY <1>1, FS_Subset DEF DelTyped
  <2>2. x.del = [l \in DOMAIN x.del |-> s.del[l]]
    BY DEF Drop
  <2> QED BY <1>1, <2>1, <2>2 DEF DelTyped
<1>3. PICK S, f, e : S = DelsOf(s, v) /\ f = s.del /\ e = x.del
  OBVIOUS
<1>4. PICK op : op = <<OperatorOf[v], v>>
  OBVIOUS
<1>5. /\ IsFiniteSet(S) /\ \A l \in S : f[l] \in Int /\ f[l] \in Nat
      /\ k \in S /\ op \in S /\ op # k /\ f[op] > 0
  <2>1. S \subseteq DOMAIN s.del
    BY <1>3 DEF DelsOf
  <2> QED BY <1>3, <1>4, <2>1, FS_Subset DEF DelTyped, DelsOf, SharedAt
<1>6. PICK T : T = S \ {k}
  OBVIOUS
<1>7. DelsOf(x, v) = T
  BY <1>1, <1>3, <1>6 DEF DelsOf
<1>8. IsFiniteSet(T) /\ \A l \in T : f[l] \in Int /\ f[l] \in Nat /\ e[l] = f[l]
  <2>1. T \subseteq S /\ T \subseteq DOMAIN x.del
    BY <1>1, <1>3, <1>6 DEF DelsOf
  <2> QED BY <1>1, <1>3, <1>5, <2>1, FS_Subset
<1>9. SumFunctionOnSet(f, S) = f[k] + SumFunctionOnSet(f, S \ {k})
  <2>1. IsFiniteSet(S) /\ k \in S /\ \A l \in S : f[l] \in Int
    BY <1>5
  <2> QED BY ONLY <2>1, SumRemove
<1>10. SumFunctionOnSet(e, T) = SumFunctionOnSet(f, T)
  BY ONLY <1>8, SumSame
<1>11. SumFunctionOnSet(f, T) = f[op] + SumFunctionOnSet(f, T \ {op})
  <2>1. IsFiniteSet(T) /\ op \in T /\ \A l \in T : f[l] \in Int
    BY <1>5, <1>6, <1>8
  <2> QED BY ONLY <2>1, SumRemove
<1>12. SumFunctionOnSet(f, T \ {op}) \in Nat
  <2>1. PICK R : R = T \ {op}
    OBVIOUS
  <2>2. IsFiniteSet(R) /\ \A l \in R : f[l] \in Nat
    BY <1>8, <2>1, FS_Subset
  <2>3. SumFunctionOnSet(f, R) \in Nat
    BY ONLY <2>2, SumNatural
  <2> QED BY <2>1, <2>3
<1>13. PICK c, n, m : c = s.val[v].shares /\ n = SumFunctionOnSet(f, T)
                      /\ m = SumFunctionOnSet(f, T \ {op})
  OBVIOUS
<1>14. c = f[k] + n /\ n = f[op] + m /\ m \in Nat
  <2>1. c = SumFunctionOnSet(f, S)
    BY <1>3, <1>13 DEF SharedAt
  <2> QED BY ONLY <1>6, <1>9, <1>11, <1>12, <1>13, <2>1
<1>15. f[k] \in Nat /\ f[op] \in Nat
  BY <1>5
<1>16. n > 0 /\ c - f[k] = n
  BY ONLY <1>5, <1>14, <1>15
<1> QED BY <1>1, <1>2, <1>3, <1>7, <1>10, <1>13, <1>15, <1>16

\* A delegation that is not the operator's ends.
LEMMA UndelegateRunning ==
  ASSUME NEW s, Running(s), NEW d \in Account, NEW v \in DOMAIN s.val,
         NEW k, k = <<d, v>>, k \in DOMAIN s.del, d # OperatorOf[v],
         NEW height, NEW x, x = Undelegate(s, d, v, height)
  PROVE  Running(x)
<1>1. PICK K, w : K = DOMAIN s.del /\ w = Withdraw(s, d, v)
  OBVIOUS
<1>2. /\ RunningWith(w, K \ {k})
      /\ SameBut(s, w, {"hist", "cur", "start", "held", "bal", "out", "pool"})
  <2>1. RunningWith(s, K) /\ k \in K
    BY <1>1 DEF Running
  <2> QED BY <1>1, <2>1, WithdrawRunning
<1>3. w.val = s.val /\ w.del = s.del /\ w.entry = s.entry
  BY <1>2 DEF SameBut, StoreFields
<1>4. PICK b, a, t : b = s.val[v] /\ a = s.del[k] /\ t = Stake(s, d, v)
  OBVIOUS
<1>5. /\ Keyed(w, K \ {k}) /\ Indexed(w) /\ Shared(w) /\ Coins(w) /\ IsStore(w)
      /\ HistIn(w, DOMAIN w.val) /\ HistOK(w, DOMAIN w.val, K \ {k})
      /\ DelTyped(w) /\ SharedAt(w, v) /\ v \in DOMAIN w.val
  BY <1>2, <1>3 DEF RunningWith, Keyed, Shared
<1>6. b \in ValType /\ b.tokens \in Nat \ {0} /\ b.shares \in Nat
  <2>1. w.val[v] \in ValType /\ w.val[v].tokens > 0
    BY <1>5 DEF Keyed, SharedAt
  <2> QED BY <1>3, <1>4, <2>1 DEF ValType
<1>7. x = [w EXCEPT !.val[v].tokens = b.tokens - t, !.val[v].shares = b.shares - a,
                    !.del = Drop(s.del, k), !.entry = Put(s.entry, k, height)]
  BY <1>1, <1>4, Zenon DEF Undelegate
<1>8. PICK c : c = [b EXCEPT !.tokens = b.tokens - t, !.shares = b.shares - a]
  OBVIOUS
<1>9. /\ SameBut(w, x, {"val", "del", "entry"}) /\ x.del = Drop(w.del, k)
      /\ x.val = [w.val EXCEPT ![v] = c]
  <2>0. IsStore(w)
    BY <1>5
  <2>1. SameBut(w, x, {"val", "del", "entry"}) /\ x.del = Drop(s.del, k)
    BY ONLY <2>0, <1>7 DEF SameBut, IsStore, StoreFields
  <2>2. x.val = [[w.val EXCEPT ![v].tokens = b.tokens - t] EXCEPT ![v].shares = b.shares - a]
    BY <1>5, <1>7 DEF IsStore, StoreFields
  <2>3. w.val \in [DOMAIN w.val -> ValType]
    BY <1>5 DEF Keyed
  <2>4. w.val[v] = b /\ v \in DOMAIN w.val
    BY <1>3, <1>4
  <2>5. c = [[b EXCEPT !.tokens = b.tokens - t] EXCEPT !.shares = b.shares - a]
    BY ONLY <1>6, <1>8 DEF ValType
  <2>6. x.val = [w.val EXCEPT ![v] = c]
    BY ONLY <2>2, <2>3, <2>4, <2>5
  <2>7. x.del = Drop(w.del, k)
    BY ONLY <1>3, <2>1
  <2> QED BY ONLY <2>1, <2>6, <2>7
<1>10. /\ x.power = w.power /\ x.last = w.last /\ x.hist = w.hist /\ x.start = w.start
       /\ x.queue = w.queue /\ x.cur = w.cur /\ x.com = w.com /\ x.out = w.out
       /\ x.sign = w.sign /\ x.slash = w.slash /\ x.panic = w.panic /\ x.pool = w.pool
       /\ x.held = w.held /\ x.supply = w.supply /\ x.bal = w.bal /\ IsStore(x)
  BY <1>9 DEF SameBut, StoreFields
<1>11. /\ DelTyped(x) /\ DOMAIN x.del = DOMAIN w.del \ {k}
       /\ \A l \in DOMAIN x.del : x.del[l] = w.del[l]
       /\ w.del[k] \in Nat /\ w.val[v].shares - w.del[k] > 0
       /\ SumFunctionOnSet(x.del, DelsOf(x, v)) = w.val[v].shares - w.del[k]
  <2>1. k \in DOMAIN w.del /\ k[2] = v /\ k # <<OperatorOf[v], v>>
    BY <1>3
  <2>2. Removes(w, x, v, k)
    BY <1>5, <1>9, <2>1 DEF Removes
  <2> QED BY ONLY <2>2, SharesRemoved
<1>12. a \in Nat /\ b.shares - a > 0
  BY <1>3, <1>4, <1>11
<1>13. t \in 0 .. b.tokens - 1
  <2>1. PICK m, n : m = b.tokens /\ n = b.shares
    OBVIOUS
  <2>2. a \in Nat /\ m \in Nat \ {0} /\ n \in Nat /\ a < n
    BY <1>6, <1>12, <2>1
  <2>3. (a * m) \div n \in 0 .. m - 1
    BY ONLY <2>2, StakeLess
  <2> QED BY <1>4, <2>1, <2>3 DEF Stake
<1>14. /\ c \in ValType /\ c.jailed = b.jailed
       /\ c.tokens > 0 /\ c.shares > 0 /\ c.shares = b.shares - a
  <2>1. PICK m, n : m = b.tokens - t /\ n = b.shares - a
    OBVIOUS
  <2>2. m \in Nat /\ n \in Nat /\ m > 0 /\ n > 0
    BY <1>6, <1>12, <1>13, <2>1
  <2>3. c = [b EXCEPT !.tokens = m, !.shares = n]
    BY <1>8, <2>1
  <2> QED BY <1>6, <2>1, <2>2, <2>3 DEF ValType
<1>15. /\ DOMAIN x.val = DOMAIN w.val /\ x.val \in [DOMAIN x.val -> ValType]
       /\ x.val[v] = c /\ \A u \in DOMAIN w.val : u # v => x.val[u] = w.val[u]
  <2>1. w.val \in [DOMAIN w.val -> ValType]
    BY <1>5 DEF Keyed
  <2> QED BY ONLY <1>5, <1>9, <1>14, <2>1
<1>16. SharedAt(x, v)
  <2>1. PICK op : op = <<OperatorOf[v], v>>
    OBVIOUS
  <2>2. op \in DOMAIN w.del /\ w.del[op] > 0 /\ op # k
    BY <1>5, <2>1 DEF SharedAt
  <2>3. op \in DOMAIN x.del /\ x.del[op] > 0
    BY <1>11, <2>2
  <2>4. SumFunctionOnSet(x.del, DelsOf(x, v)) = x.val[v].shares
    BY <1>3, <1>4, <1>11, <1>14, <1>15
  <2> QED BY <1>14, <1>15, <2>1, <2>3, <2>4 DEF SharedAt
<1>17. ASSUME NEW u \in DOMAIN x.val PROVE SharedAt(x, u)
  <2>1. CASE u = v
    BY <1>16, <2>1
  <2>2. CASE u # v
    <3>1. SharedAt(w, u) /\ x.val[u] = w.val[u]
      BY <1>5, <1>15, <1>17, <2>2 DEF Shared
    <3>2. k[2] # u
      BY <2>2
    <3>3. DelsOf(x, u) = DelsOf(w, u) /\ \A l \in DelsOf(w, u) : x.del[l] = w.del[l]
      BY <1>11, <3>2 DEF DelsOf
    <3> QED BY <1>5, <3>1, <3>3, SharedSame
  <2> QED BY <2>1, <2>2
<1>18. Shared(x)
  BY <1>11, <1>17 DEF Shared
<1>19. Indexed(x)
  <2>1. {u \in DOMAIN x.val : ~x.val[u].jailed} = {u \in DOMAIN w.val : ~w.val[u].jailed}
    <3>1. \A u \in DOMAIN w.val : x.val[u].jailed = w.val[u].jailed
      BY <1>3, <1>4, <1>14, <1>15
    <3> QED BY <1>15, <3>1
  <2> QED BY <1>5, <1>10, <1>15, <2>1 DEF Indexed
<1>20. DOMAIN x.del = K \ {k}
  BY <1>1, <1>3, <1>11
<1>21. Keyed(x, K \ {k})
  <2>1. DOMAIN x.del \subseteq Account \X DOMAIN x.val
    BY <1>5, <1>11, <1>15 DEF Keyed
  <2> QED BY <1>5, <1>10, <1>15, <2>1 DEF Keyed
<1>22. Coins(x) /\ HistIn(x, DOMAIN x.val)
  BY <1>5, <1>10, <1>15 DEF Coins, HistIn
<1>23. HistOK(x, DOMAIN x.val, K \ {k})
  <2>1. HistOK(x, DOMAIN w.val, K \ {k})
    BY <1>5, <1>10, HistFrame
  <2> QED BY <1>15, <2>1
<1> QED BY <1>18, <1>19, <1>20, <1>21, <1>22, <1>23 DEF RunningWith, Running

\* Rewards do not refer to a ratio.
LEMMA HistRewarded ==
  ASSUME NEW s, NEW x, NEW W, NEW K, HistOK(s, W, K), IsStore(x),
         x.hist = s.hist, x.start = s.start, x.slash = s.slash,
         \A w \in W : PeriodOK(x, w) /\ x.cur[w].period = s.cur[w].period
  PROVE  HistOK(x, W, K)
<1>1. \A w, q : HistOf(x, w, q) = HistOf(s, w, q)
  BY DEF HistOf
<1>2. ASSUME NEW w \in W PROVE RefsOK(x, w, K)
  <2>1. RefsOK(s, w, K) /\ PeriodOK(x, w) /\ x.cur[w].period = s.cur[w].period
    BY DEF HistOK
  <2>2. ASSUME NEW p \in Nat PROVE HistOf(x, w, p).refs = Count(x, w, p, K)
    <3>1. HistOf(s, w, p).refs = Count(s, w, p, K)
      BY <2>1 DEF RefsOK, CountOK
    <3>2. Count(x, w, p, K) = Count(s, w, p, K)
      BY <2>1 DEF Count, StartsAt, SlashedAt
    <3> QED BY <1>1, <3>1, <3>2
  <2>3. RatiosRise(x, w)
    BY <1>1, <2>1 DEF RefsOK, RatiosRise
  <2>4. StartsOK(x, w, K)
    BY <2>1 DEF RefsOK, StartsOK
  <2>5. SlashesOK(x, w)
    BY <2>1 DEF RefsOK, SlashesOK
  <2> QED BY <2>1, <2>2, <2>3, <2>4, <2>5 DEF RefsOK, CountOK
<1> QED BY <1>2 DEF HistOK, HistTyped

\* A block's reward.
LEMMA AllocateRunning ==
  ASSUME NEW s, Running(s), NEW v \in DOMAIN s.val, NEW x, x = AllocateTokens(s, v, 1)
  PROVE  Running(x)
<1>1. PICK K : K = DOMAIN s.del
  OBVIOUS
<1>2. /\ Keyed(s, K) /\ Indexed(s) /\ Shared(s) /\ Coins(s) /\ IsStore(s)
      /\ HistIn(s, DOMAIN s.val) /\ HistOK(s, DOMAIN s.val, K)
  BY <1>1 DEF Running, RunningWith, Keyed
<1>3. PICK q, r, u : q = Unit \div 4 /\ u = Unit - q /\ r = 1 * Unit
  OBVIOUS
<1>4. r = Unit /\ Unit \in Nat /\ q \in Nat /\ u \in Nat
  BY <1>3, StakingAssumption
<1>5. x = [s EXCEPT !.com[v] = s.com[v] + q, !.cur[v].rewards = s.cur[v].rewards + u,
                    !.out[v] = s.out[v] + Unit, !.held = s.held + Unit,
                    !.supply = s.supply + 1]
  BY <1>3, <1>4 DEF AllocateTokens
<1>6. /\ SameBut(s, x, {"com", "cur", "out", "held", "supply"})
      /\ x.com = [s.com EXCEPT ![v] = s.com[v] + q]
      /\ x.cur = [s.cur EXCEPT ![v].rewards = s.cur[v].rewards + u]
      /\ x.out = [s.out EXCEPT ![v] = s.out[v] + Unit]
      /\ x.held = s.held + Unit /\ x.supply = s.supply + 1
  BY ONLY <1>2, <1>5 DEF SameBut, IsStore, StoreFields
<1>7. /\ x.val = s.val /\ x.del = s.del /\ x.power = s.power /\ x.last = s.last
      /\ x.queue = s.queue /\ x.sign = s.sign /\ x.slash = s.slash /\ x.panic = s.panic
      /\ x.pool = s.pool /\ x.bal = s.bal /\ x.start = s.start /\ x.hist = s.hist
      /\ IsStore(x)
  BY <1>6 DEF SameBut, StoreFields
<1>8. Keyed(x, K)
  <2>1. /\ DOMAIN x.cur = DOMAIN s.cur /\ DOMAIN x.com = DOMAIN s.com
        /\ DOMAIN x.out = DOMAIN s.out
    BY <1>6
  <2> QED BY <1>2, <1>7, <2>1 DEF Keyed
<1>9. Indexed(x) /\ Shared(x)
  BY <1>2, <1>7, StakeFrame
<1>10. Coins(x)
  <2>1. /\ s.com \in [DOMAIN s.val -> Nat] /\ s.out \in [DOMAIN s.val -> Int]
        /\ s.held \in Int /\ s.supply \in Int
    BY <1>2 DEF Coins
  <2>2. x.com \in [DOMAIN s.val -> Nat] /\ x.out \in [DOMAIN s.val -> Int]
    BY <1>4, <1>6, <2>1
  <2> QED BY <1>2, <1>4, <1>6, <1>7, <2>1, <2>2 DEF Coins
<1>11. HistIn(x, DOMAIN x.val)
  BY <1>2, <1>7 DEF HistIn
<1>12. HistOK(x, DOMAIN x.val, K)
  <2>1. ASSUME NEW w \in DOMAIN s.val
        PROVE  PeriodOK(x, w) /\ x.cur[w].period = s.cur[w].period
    <3>1. s.cur[w] \in [rewards : Nat, period : Nat \ {0}] /\ w \in DOMAIN s.cur
      BY <1>2 DEF HistOK, RefsOK, PeriodOK, Keyed
    <3>2. x.cur[w] = IF w = v THEN [s.cur[v] EXCEPT !.rewards = s.cur[v].rewards + u]
                     ELSE s.cur[w]
      BY <1>6, <3>1
    <3> QED BY <1>4, <3>1, <3>2 DEF PeriodOK
  <2> QED BY <1>2, <1>7, <2>1, HistRewarded
<1> QED BY <1>1, <1>7, <1>8, <1>9, <1>10, <1>11, <1>12 DEF Running, RunningWith

\* A validator is slashed and jailed.
LEMMA SlashRunning ==
  ASSUME NEW s, Running(s), NEW v \in s.last, s.val[v].tokens % 2 = 0,
         NEW height \in 0 .. 1, NEW x, x = SlashAndJail(s, v, height)
  PROVE  Running(x)
<1>1. PICK K : K = DOMAIN s.del
  OBVIOUS
<1>2. /\ Keyed(s, K) /\ Indexed(s) /\ Shared(s) /\ Coins(s) /\ IsStore(s)
      /\ HistIn(s, DOMAIN s.val) /\ HistOK(s, DOMAIN s.val, K) /\ RunningWith(s, K)
  BY <1>1 DEF Running, RunningWith, Keyed
<1>3. v \in DOMAIN s.val /\ v \in s.power /\ s.last = s.power
  BY <1>2 DEF Indexed
<1>4. /\ s.val[v].tokens \in Nat \ {0} /\ DOMAIN s.val \subseteq DOMAIN s.cur
      /\ v \in DOMAIN s.slash
  BY <1>2, <1>3, RunningAt DEF Keyed
<1>5. PICK y, n : y = BeforeValidatorSlashed(s, v) /\ n = s.cur[v].period
  OBVIOUS
<1>6. /\ HistOK(y, DOMAIN s.val, K) /\ SameBut(s, y, {"hist", "cur", "slash"})
      /\ DOMAIN y.hist \subseteq DOMAIN s.hist \cup {<<v, n>>}
      /\ y.cur = [s.cur EXCEPT ![v] = [rewards |-> 0, period |-> n + 1]]
      /\ y.slash = [s.slash EXCEPT ![v] = Append(s.slash[v], n)]
      /\ n \in Nat
  BY <1>2, <1>3, <1>4, <1>5, SlashHist
<1>7. PICK b, h : b = s.val[v] /\ h = b.tokens \div 2
  OBVIOUS
<1>8. PICK c : c = [b EXCEPT !.tokens = h, !.jailed = TRUE, !.height = height]
  OBVIOUS
<1>9. c \in ValType /\ c.jailed = TRUE /\ c.shares = b.shares /\ c.tokens > 0
  <2>1. h \in Nat /\ h > 0
    BY <1>4, <1>7
  <2>2. b \in ValType
    BY <1>2, <1>3, <1>7 DEF Keyed
  <2> QED BY <1>8, <2>1, <2>2 DEF ValType
<1>10. /\ y.val = s.val /\ y.power = s.power /\ y.last = s.last /\ y.queue = s.queue
       /\ IsStore(y)
  BY <1>6 DEF SameBut, StoreFields
<1>11. x = [y EXCEPT !.val[v] = c, !.power = s.power \ {v}, !.last = s.last \ {v},
                     !.queue = s.queue \cup {v}]
  BY <1>5, <1>7, <1>8 DEF SlashAndJail
<1>12. /\ SameBut(y, x, {"val", "power", "last", "queue"})
       /\ x.val = [s.val EXCEPT ![v] = c] /\ x.power = s.power \ {v}
       /\ x.last = s.last \ {v} /\ x.queue = s.queue \cup {v}
  BY ONLY <1>10, <1>11 DEF SameBut, IsStore, StoreFields
<1>13. /\ x.del = s.del /\ x.com = s.com /\ x.out = s.out /\ x.sign = s.sign
       /\ x.panic = s.panic /\ x.pool = s.pool /\ x.held = s.held
       /\ x.supply = s.supply /\ x.bal = s.bal /\ x.start = s.start /\ IsStore(x)
       /\ x.hist = y.hist /\ x.slash = y.slash /\ x.cur = y.cur /\ x.start = y.start
  BY <1>6, <1>12 DEF SameBut, StoreFields
<1>14. /\ DOMAIN x.val = DOMAIN s.val /\ x.val \in [DOMAIN x.val -> ValType]
       /\ x.val[v] = c /\ \A u \in DOMAIN s.val : u # v => x.val[u] = s.val[u]
  <2>1. s.val \in [DOMAIN s.val -> ValType]
    BY <1>2 DEF Keyed
  <2> QED BY ONLY <1>3, <1>9, <1>12, <2>1
<1>15. Keyed(x, K)
  <2>1. DOMAIN x.cur = DOMAIN s.cur
    BY <1>6, <1>13
  <2>2. DOMAIN x.slash = Val /\ \A u \in Val \ DOMAIN x.val : x.slash[u] = <<>>
    BY <1>2, <1>3, <1>6, <1>13, <1>14 DEF Keyed
  <2> QED BY <1>2, <1>13, <1>14, <2>1, <2>2 DEF Keyed
<1>16. Indexed(x)
  <2>1. s.power = {u \in DOMAIN s.val : ~s.val[u].jailed} /\ s.queue = DOMAIN s.val \ s.power
    BY <1>2 DEF Indexed
  <2>2. {u \in DOMAIN x.val : ~x.val[u].jailed} = s.power \ {v}
    BY <1>9, <1>14, <2>1
  <2>3. DOMAIN x.val \ (s.power \ {v}) = s.queue \cup {v}
    BY <1>3, <1>14, <2>1
  <2> QED BY <1>3, <1>12, <2>2, <2>3 DEF Indexed
<1>17. Shared(x)
  <2>1. \A u : DelsOf(x, u) = DelsOf(s, u)
    BY <1>13 DEF DelsOf
  <2>2. \A u \in DOMAIN x.val : x.val[u].shares = s.val[u].shares /\ x.val[u].tokens > 0
    <3>1. \A u \in DOMAIN s.val : s.val[u].tokens > 0
      BY <1>2 DEF Shared, SharedAt
    <3> QED BY <1>7, <1>9, <1>14, <3>1
  <2>3. DelTyped(x)
    BY <1>2, <1>13 DEF Shared, DelTyped
  <2>4. ASSUME NEW u \in DOMAIN x.val PROVE SharedAt(x, u)
    <3>1. SharedAt(s, u)
      BY <1>2, <1>14, <2>4 DEF Shared
    <3> QED BY <1>13, <2>1, <2>2, <3>1 DEF SharedAt
  <2> QED BY <2>3, <2>4 DEF Shared
<1>18. Coins(x)
  BY <1>2, <1>13, <1>14 DEF Coins
<1>19. HistIn(x, DOMAIN x.val)
  BY <1>2, <1>3, <1>6, <1>13, <1>14 DEF HistIn
<1>20. HistOK(x, DOMAIN x.val, K)
  <2>1. HistOK(x, DOMAIN s.val, K)
    BY <1>6, <1>13, HistFrame
  <2> QED BY <1>14, <2>1
<1> QED BY <1>1, <1>13, <1>15, <1>16, <1>17, <1>18, <1>19, <1>20 DEF Running, RunningWith

\* A validator returns.
LEMMA UnjailRunning ==
  ASSUME NEW s, Running(s), NEW v \in s.queue, NEW x, x = Unjail(s, v)
  PROVE  Running(x)
<1>1. PICK K : K = DOMAIN s.del
  OBVIOUS
<1>2. /\ Keyed(s, K) /\ Indexed(s) /\ Shared(s) /\ Coins(s) /\ IsStore(s)
      /\ HistIn(s, DOMAIN s.val) /\ HistOK(s, DOMAIN s.val, K)
  BY <1>1 DEF Running, RunningWith, Keyed
<1>3. v \in DOMAIN s.val /\ v \notin s.power /\ s.last = s.power
  BY <1>2 DEF Indexed
<1>4. PICK b, c : b = s.val[v] /\ c = [b EXCEPT !.jailed = FALSE]
  OBVIOUS
<1>5. c \in ValType /\ c.jailed = FALSE /\ c.shares = b.shares /\ c.tokens = b.tokens
  <2>1. b \in ValType
    BY <1>2, <1>3, <1>4 DEF Keyed
  <2> QED BY <1>4, <2>1 DEF ValType
<1>6. x = [s EXCEPT !.val[v] = c, !.power = s.power \cup {v}, !.last = s.last \cup {v},
                    !.queue = s.queue \ {v}]
  BY <1>4 DEF Unjail
<1>7. /\ SameBut(s, x, {"val", "power", "last", "queue"})
      /\ x.val = [s.val EXCEPT ![v] = c] /\ x.power = s.power \cup {v}
      /\ x.last = s.last \cup {v} /\ x.queue = s.queue \ {v}
  BY ONLY <1>2, <1>6 DEF SameBut, IsStore, StoreFields
<1>8. /\ x.del = s.del /\ x.com = s.com /\ x.out = s.out /\ x.sign = s.sign
      /\ x.panic = s.panic /\ x.pool = s.pool /\ x.held = s.held
      /\ x.supply = s.supply /\ x.bal = s.bal /\ x.start = s.start /\ IsStore(x)
      /\ x.hist = s.hist /\ x.slash = s.slash /\ x.cur = s.cur
  BY <1>7 DEF SameBut, StoreFields
<1>9. /\ DOMAIN x.val = DOMAIN s.val /\ x.val \in [DOMAIN x.val -> ValType]
      /\ x.val[v] = c /\ \A u \in DOMAIN s.val : u # v => x.val[u] = s.val[u]
  <2>1. s.val \in [DOMAIN s.val -> ValType]
    BY <1>2 DEF Keyed
  <2> QED BY ONLY <1>3, <1>5, <1>7, <2>1
<1>10. Keyed(x, K)
  BY <1>2, <1>8, <1>9 DEF Keyed
<1>11. Indexed(x)
  <2>1. s.power = {u \in DOMAIN s.val : ~s.val[u].jailed} /\ s.queue = DOMAIN s.val \ s.power
    BY <1>2 DEF Indexed
  <2>2. {u \in DOMAIN x.val : ~x.val[u].jailed} = s.power \cup {v}
    BY <1>3, <1>5, <1>9, <2>1
  <2>3. DOMAIN x.val \ (s.power \cup {v}) = s.queue \ {v}
    BY <1>9, <2>1
  <2> QED BY <1>3, <1>7, <2>2, <2>3 DEF Indexed
<1>12. Shared(x)
  <2>1. \A u : DelsOf(x, u) = DelsOf(s, u)
    BY <1>8 DEF DelsOf
  <2>2. \A u \in DOMAIN x.val : /\ x.val[u].shares = s.val[u].shares
                                /\ x.val[u].tokens = s.val[u].tokens
    BY <1>4, <1>5, <1>9
  <2>3. DelTyped(x)
    BY <1>2, <1>8 DEF Shared, DelTyped
  <2>4. ASSUME NEW u \in DOMAIN x.val PROVE SharedAt(x, u)
    <3>1. SharedAt(s, u)
      BY <1>2, <1>9, <2>4 DEF Shared
    <3> QED BY <1>8, <2>1, <2>2, <3>1 DEF SharedAt
  <2> QED BY <2>3, <2>4 DEF Shared
<1>13. Coins(x) /\ HistIn(x, DOMAIN x.val)
  BY <1>2, <1>8, <1>9 DEF Coins, HistIn
<1>14. HistOK(x, DOMAIN x.val, K)
  <2>1. HistOK(x, DOMAIN s.val, K)
    BY <1>2, <1>8, HistFrame
  <2> QED BY <1>9, <2>1
<1> QED BY <1>1, <1>8, <1>10, <1>11, <1>12, <1>13, <1>14 DEF Running, RunningWith

\* A validator's commission is withdrawn.
LEMMA CommissionRunning ==
  ASSUME NEW s, Running(s), NEW v \in DOMAIN s.val, NEW x, x = WithdrawValidatorCommission(s, v)
  PROVE  Running(x) /\ SameBut(s, x, {"com", "out", "held", "bal"})
<1>1. PICK K : K = DOMAIN s.del
  OBVIOUS
<1>2. /\ Keyed(s, K) /\ Indexed(s) /\ Shared(s) /\ Coins(s) /\ IsStore(s)
      /\ HistIn(s, DOMAIN s.val) /\ HistOK(s, DOMAIN s.val, K)
  BY <1>1 DEF Running, RunningWith, Keyed
<1>3. PICK a, c, u, m : /\ a = OperatorOf[v] /\ c = s.com[v] \div Unit
                        /\ u = c * Unit /\ m = s.com[v] % Unit
  OBVIOUS
<1>4. /\ c \in Int /\ m \in Nat /\ u \in Int /\ a \in Account
  <2>1. PICK n : n = s.com[v]
    OBVIOUS
  <2>2. n \in Nat /\ Unit \in Nat \ {0}
    BY <1>2, <2>1, StakingAssumption DEF Coins
  <2>3. c \in Int /\ m \in Nat
    BY <1>3, <2>1, <2>2
  <2>4. v \in Val
    BY <1>2 DEF Keyed
  <2> QED BY <1>3, <2>2, <2>3, <2>4, ProductType, StakingAssumption
<1>5. x = [s EXCEPT !.com[v] = m, !.out[v] = s.out[v] - u, !.held = s.held - u,
                    !.bal[a] = s.bal[a] + c]
  BY <1>3 DEF WithdrawValidatorCommission
<1>6. /\ SameBut(s, x, {"com", "out", "held", "bal"})
      /\ x.com = [s.com EXCEPT ![v] = m] /\ x.out = [s.out EXCEPT ![v] = s.out[v] - u]
      /\ x.held = s.held - u /\ x.bal = [s.bal EXCEPT ![a] = s.bal[a] + c]
  BY ONLY <1>2, <1>5 DEF SameBut, IsStore, StoreFields
<1>7. /\ x.val = s.val /\ x.del = s.del /\ x.power = s.power /\ x.last = s.last
      /\ x.queue = s.queue /\ x.sign = s.sign /\ x.slash = s.slash /\ x.panic = s.panic
      /\ x.pool = s.pool /\ x.supply = s.supply /\ x.start = s.start /\ x.hist = s.hist
      /\ x.cur = s.cur /\ IsStore(x)
  BY <1>6 DEF SameBut, StoreFields
<1>8. Keyed(x, K)
  <2>1. DOMAIN x.com = DOMAIN s.com /\ DOMAIN x.out = DOMAIN s.out
    BY <1>6
  <2> QED BY <1>2, <1>7, <2>1 DEF Keyed
<1>9. Indexed(x) /\ Shared(x)
  BY <1>2, <1>7, StakeFrame
<1>10. Coins(x)
  <2>1. /\ s.com \in [DOMAIN s.val -> Nat] /\ s.out \in [DOMAIN s.val -> Int]
        /\ s.held \in Int /\ s.bal \in [Account -> Int]
    BY <1>2 DEF Coins
  <2>2. /\ x.com \in [DOMAIN s.val -> Nat] /\ x.out \in [DOMAIN s.val -> Int]
        /\ x.bal \in [Account -> Int]
    BY <1>4, <1>6, <2>1
  <2> QED BY <1>2, <1>4, <1>6, <1>7, <2>1, <2>2 DEF Coins
<1>11. HistIn(x, DOMAIN x.val) /\ HistOK(x, DOMAIN x.val, K)
  BY <1>2, <1>7, HistFrame DEF HistIn
<1> QED BY <1>1, <1>6, <1>7, <1>8, <1>9, <1>10, <1>11 DEF Running, RunningWith

\* A chain without validators runs.
LEMMA EmptyRunning == Running(Empty)
<1>1. PICK s : s = Empty
  OBVIOUS
<1>2. /\ s.val = <<>> /\ s.power = {} /\ s.last = {} /\ s.queue = {} /\ s.del = <<>>
      /\ s.cur = <<>> /\ s.hist = <<>> /\ s.com = <<>> /\ s.out = <<>> /\ s.start = <<>>
      /\ s.slash = [v \in Val |-> <<>>] /\ s.pool = 0 /\ s.held = 0 /\ s.sign = <<>>
      /\ s.bal = [a \in Account |-> 0] /\ s.supply = 0 /\ s.panic = FALSE
      /\ IsStore(s)
  BY <1>1 DEF Empty, IsStore, StoreFields
<1>3. DOMAIN <<>> = {} /\ \A S : <<>> \in [{} -> S]
  OBVIOUS
<1>4. Keyed(s, DOMAIN s.del)
  BY <1>2, <1>3 DEF Keyed
<1>5. Indexed(s)
  BY <1>2, <1>3 DEF Indexed
<1>6. Shared(s) /\ Coins(s)
  BY <1>2, <1>3, FS_EmptySet DEF Shared, DelTyped, Coins
<1>7. HistIn(s, DOMAIN s.val) /\ HistOK(s, DOMAIN s.val, DOMAIN s.del)
  BY <1>2, <1>3 DEF HistIn, HistOK, HistTyped
<1> QED BY <1>1, <1>4, <1>5, <1>6, <1>7 DEF Running, RunningWith

-----------------------------------------------------------------------------
(***************************************************************************)
(* Coins of the distribution account and of everyone.                      *)
(***************************************************************************)
MoneyTyped(s) ==
  /\ IsFiniteSet(DOMAIN s.out) /\ s.out \in [DOMAIN s.out -> Int]
  /\ s.pool \in Int /\ s.held \in Int /\ s.supply \in Int
  /\ s.bal \in [Account -> Int]
Outstanding(s) == SumFunctionOnSet(s.out, DOMAIN s.out)
Exact(s) == s.held = Outstanding(s) + s.pool
Minted(s) == SumFunctionOnSet(s.bal, Account) * Unit + s.held = s.supply * Unit
Books(s) == MoneyTyped(s) /\ Exact(s) /\ Minted(s)

\* No validator owes more than it was given, and neither does the pool.
NoDebts(s) == s.pool >= 0 /\ \A v \in DOMAIN s.out : s.out[v] >= 0

SameMoney(s, x) ==
  /\ IsStore(x)
  /\ x.out = s.out /\ x.pool = s.pool /\ x.held = s.held
  /\ x.bal = s.bal /\ x.supply = s.supply

\* Nothing but the books matters to the books.
LEMMA BooksSame ==
  ASSUME NEW s, NEW x, SameMoney(s, x)
  PROVE  /\ MoneyTyped(x) <=> MoneyTyped(s)
         /\ Outstanding(x) = Outstanding(s)
         /\ Exact(x) <=> Exact(s)
         /\ Minted(x) <=> Minted(s)
         /\ Books(x) <=> Books(s)
         /\ NoDebts(x) <=> NoDebts(s)
<1>1. /\ x.out = s.out /\ x.pool = s.pool /\ x.held = s.held
      /\ x.bal = s.bal /\ x.supply = s.supply
  BY DEF SameMoney
<1>2. /\ MoneyTyped(x) <=> MoneyTyped(s)
      /\ Outstanding(x) = Outstanding(s)
  BY <1>1 DEF MoneyTyped, Outstanding
<1>3. /\ Exact(x) <=> Exact(s)
      /\ Minted(x) <=> Minted(s)
  BY <1>1, <1>2 DEF Exact, Minted
<1>4. NoDebts(x) <=> NoDebts(s)
  BY <1>1 DEF NoDebts
<1> QED BY <1>2, <1>3, <1>4 DEF Books

\* Term v of the integers f on a finite set changes by r.
Moved(S, f, e, v, r) ==
  /\ IsFiniteSet(S) /\ f \in [S -> Int] /\ v \in S /\ r \in Int
  /\ e = [f EXCEPT ![v] = f[v] + r]

\* Then the sum does.
LEMMA SumMoved ==
  ASSUME NEW S, NEW f, NEW e, NEW v, NEW r, Moved(S, f, e, v, r)
  PROVE  /\ e \in [S -> Int]
         /\ SumFunctionOnSet(e, S) = SumFunctionOnSet(f, S) + r
         /\ SumFunctionOnSet(f, S) \in Int
<1>1. /\ e \in [S -> Int]
      /\ \A y \in S : f[y] \in Int /\ e[y] \in Int
      /\ \A y \in S \ {v} : e[y] = f[y]
      /\ e[v] = f[v] + r /\ f[v] \in Int /\ r \in Int
  BY DEF Moved
<1>2. IsFiniteSet(S) /\ v \in S
  BY DEF Moved
<1>3. SumFunctionOnSet(e, S) = SumFunctionOnSet(f, S) + (e[v] - f[v])
  BY ONLY <1>1, <1>2, SumChanged
<1>4. SumFunctionOnSet(f, S) \in Int
  BY <1>1, <1>2, SumRemove
<1> QED BY <1>1, <1>3, <1>4

\* A movement of money: v's outstanding rewards, the pool, what is held, the
\* coins of account a, the supply.
Moves(s, x, v, r, p, h, a, c, u) ==
  /\ x.out = [s.out EXCEPT ![v] = s.out[v] + r]
  /\ x.pool = s.pool + p /\ x.held = s.held + h
  /\ x.bal = [s.bal EXCEPT ![a] = s.bal[a] + c]
  /\ x.supply = s.supply + u

\* Coins stay minted.
LEMMA MintedMoved ==
  ASSUME NEW s, MoneyTyped(s), Minted(s), NEW x, NEW a \in Account,
         NEW c \in Int, NEW h \in Int, NEW u \in Int, c * Unit + h = u * Unit,
         x.bal = [s.bal EXCEPT ![a] = s.bal[a] + c],
         x.held = s.held + h, x.supply = s.supply + u
  PROVE  Minted(x)
<1>1. PICK A, B, H, S : /\ A = SumFunctionOnSet(s.bal, Account)
                        /\ B = SumFunctionOnSet(x.bal, Account)
                        /\ H = s.held /\ S = s.supply
  OBVIOUS
<1>2. B = A + c /\ A \in Int
  <2>1. PICK f, e : f = s.bal /\ e = x.bal
    OBVIOUS
  <2>2. Moved(Account, f, e, a, c)
    BY <2>1, StakingAssumption DEF MoneyTyped, Moved
  <2>3. /\ SumFunctionOnSet(e, Account) = SumFunctionOnSet(f, Account) + c
        /\ SumFunctionOnSet(f, Account) \in Int
    BY ONLY <2>2, SumMoved
  <2> QED BY <1>1, <2>1, <2>3
<1>3. H \in Int /\ S \in Int /\ Unit \in Int
  BY <1>1, StakingAssumption DEF MoneyTyped
<1>4. /\ (A + c) * Unit = A * Unit + c * Unit /\ A * Unit \in Int /\ c * Unit \in Int
      /\ (S + u) * Unit = S * Unit + u * Unit /\ S * Unit \in Int /\ u * Unit \in Int
  BY <1>2, <1>3, ProductAdds
<1>5. A * Unit + H = S * Unit
  BY <1>1 DEF Minted
<1>6. PICK i, j, k, l, m, n : /\ i = A * Unit /\ j = c * Unit /\ k = S * Unit
                              /\ l = u * Unit /\ m = B * Unit /\ n = (S + u) * Unit
  OBVIOUS
<1>7. m + (H + h) = n
  BY <1>2, <1>3, <1>4, <1>5, <1>6
<1> QED BY <1>1, <1>6, <1>7 DEF Minted

\* The books stay right when what leaves the account was outstanding or in the
\* pool and is paid out, or comes with new coins.
LEMMA BooksMoved ==
  ASSUME NEW s, Books(s), NEW x, NEW v \in DOMAIN s.out, NEW a \in Account,
         NEW r \in Int, NEW p \in Int, NEW h \in Int, NEW c \in Int, NEW u \in Int,
         Moves(s, x, v, r, p, h, a, c, u), h = r + p, c * Unit + h = u * Unit
  PROVE  Books(x)
<1>1. MoneyTyped(s) /\ Exact(s) /\ Minted(s)
  BY DEF Books
<1>2. /\ x.out = [s.out EXCEPT ![v] = s.out[v] + r]
      /\ x.pool = s.pool + p /\ x.held = s.held + h
      /\ x.bal = [s.bal EXCEPT ![a] = s.bal[a] + c] /\ x.supply = s.supply + u
  BY DEF Moves
<1>3. /\ DOMAIN x.out = DOMAIN s.out /\ x.out \in [DOMAIN x.out -> Int]
      /\ Outstanding(x) = Outstanding(s) + r /\ Outstanding(s) \in Int
  <2>1. PICK S, f, e : S = DOMAIN s.out /\ f = s.out /\ e = x.out
    OBVIOUS
  <2>2. Moved(S, f, e, v, r)
    BY <1>1, <1>2, <2>1 DEF MoneyTyped, Moved
  <2>3. /\ e \in [S -> Int] /\ SumFunctionOnSet(f, S) \in Int
        /\ SumFunctionOnSet(e, S) = SumFunctionOnSet(f, S) + r
    BY ONLY <2>2, SumMoved
  <2>4. DOMAIN e = S
    BY <2>3
  <2> QED BY <2>1, <2>3, <2>4 DEF Outstanding
<1>4. x.bal \in [Account -> Int]
  BY <1>1, <1>2 DEF MoneyTyped
<1>5. Minted(x)
  BY <1>1, <1>2, MintedMoved
<1>6. s.pool \in Int /\ s.held \in Int /\ s.supply \in Int /\ IsFiniteSet(DOMAIN s.out)
  BY <1>1 DEF MoneyTyped
<1>7. s.held = Outstanding(s) + s.pool
  BY <1>1 DEF Exact
<1>8. Exact(x)
  BY <1>2, <1>3, <1>6, <1>7 DEF Exact
<1>9. MoneyTyped(x)
  BY <1>2, <1>3, <1>4, <1>6 DEF MoneyTyped
<1> QED BY <1>5, <1>8, <1>9 DEF Books

-----------------------------------------------------------------------------
(***************************************************************************)
(* The operations.                                                         *)
(***************************************************************************)
\* Counts and starts are no money.
LEMMA CountsNoMoney ==
  ASSUME NEW s, IsStore(s), NEW v, NEW p
  PROVE  /\ SameMoney(s, Panic(s))
         /\ SameMoney(s, decrementReferenceCount(s, v, p))
         /\ SameMoney(s, incrementReferenceCount(s, v, p))
<1>1. ASSUME NEW h PROVE SameMoney(s, [s EXCEPT !.hist = h])
  BY DEF SameMoney, IsStore, StoreFields
<1>2. SameMoney(s, Panic(s))
  BY DEF SameMoney, Panic, IsStore, StoreFields
<1>3. SameMoney(s, decrementReferenceCount(s, v, p))
  <2>1. PICK n : n = HistOf(s, v, p).refs
    OBVIOUS
  <2>2. CASE n = 0
    BY <1>2, <2>1, <2>2 DEF decrementReferenceCount
  <2>3. CASE n = 1
    BY <1>1, <2>1, <2>3 DEF decrementReferenceCount
  <2>4. CASE n # 0 /\ n # 1
    <3>1. decrementReferenceCount(s, v, p) = [s EXCEPT !.hist[<<v, p>>].refs = n - 1]
      BY <2>1, <2>4 DEF decrementReferenceCount
    <3> QED BY <3>1 DEF SameMoney, IsStore, StoreFields
  <2> QED BY <2>2, <2>3, <2>4
<1>4. SameMoney(s, incrementReferenceCount(s, v, p))
  <2>1. PICK n : n = (HistOf(s, v, p).refs > 2)
    OBVIOUS
  <2>2. CASE n
    BY <1>2, <2>1, <2>2 DEF incrementReferenceCount
  <2>3. CASE ~n
    BY <1>1, <2>1, <2>3 DEF incrementReferenceCount
  <2> QED BY <2>2, <2>3
<1> QED BY <1>2, <1>3, <1>4

\* A period that ends moves no money while the validator has tokens, or nothing
\* to give.
LEMMA EndNoMoney ==
  ASSUME NEW s, IsStore(s), NEW v,
         \/ s.val[v].tokens > 0
         \/ /\ MoneyTyped(s) /\ v \in DOMAIN s.out /\ s.cur[v].rewards = 0
  PROVE  SameMoney(s, IncrementValidatorPeriod(s, v))
<1>1. PICK c, q, y, e : /\ c = s.cur[v] /\ q = c.period - 1
                        /\ y = IF s.val[v].tokens > 0 THEN s
                               ELSE [s EXCEPT !.pool = s.pool + c.rewards,
                                              !.out[v] = s.out[v] - c.rewards]
                        /\ e = decrementReferenceCount(y, v, q)
  OBVIOUS
<1>2. SameMoney(s, y)
  <2>1. CASE s.val[v].tokens > 0
    BY <1>1, <2>1 DEF SameMoney
  <2>2. CASE ~(s.val[v].tokens > 0)
    <3>1. y = [s EXCEPT !.pool = s.pool + 0, !.out[v] = s.out[v] - 0]
      BY <1>1, <2>2
    <3>2. s.pool + 0 = s.pool /\ s.out[v] - 0 = s.out[v]
      BY <2>2 DEF MoneyTyped
    <3>3. [s.out EXCEPT ![v] = s.out[v]] = s.out
      BY <2>2 DEF MoneyTyped
    <3> QED BY <3>1, <3>2, <3>3 DEF SameMoney, IsStore, StoreFields
  <2> QED BY <2>1, <2>2
<1>3. SameMoney(y, e)
  <2>1. IsStore(y)
    BY <1>2 DEF SameMoney
  <2> QED BY <1>1, <2>1, CountsNoMoney
<1>4. PICK h, w : IncrementValidatorPeriod(s, v) = [e EXCEPT !.hist = h, !.cur[v] = w]
  BY <1>1 DEF IncrementValidatorPeriod
<1>5. SameMoney(e, IncrementValidatorPeriod(s, v))
  BY <1>3, <1>4 DEF SameMoney, IsStore, StoreFields
<1> QED BY <1>2, <1>3, <1>5 DEF SameMoney

\* A delegation starts without money.
LEMMA StartNoMoney ==
  ASSUME NEW s, IsStore(s), NEW d, NEW v, NEW height
  PROVE  SameMoney(s, AfterDelegationModified(s, d, v, height))
<1>1. PICK p, k : p = s.cur[v].period - 1 /\ k = incrementReferenceCount(s, v, p)
  OBVIOUS
<1>2. SameMoney(s, k)
  BY <1>1, CountsNoMoney
<1>3. PICK h : AfterDelegationModified(s, d, v, height) = [k EXCEPT !.start = h]
  BY <1>1 DEF AfterDelegationModified
<1> QED BY <1>2, <1>3 DEF SameMoney, IsStore, StoreFields

\* Two steps without money are one.
LEMMA NoMoneyTwice ==
  \A s, x, y : SameMoney(s, x) /\ SameMoney(x, y) => SameMoney(s, y)
BY DEF SameMoney

\* The books of a chain that runs.
Sound(s) == Books(s) /\ NoDebts(s)

\* They are as sound as those of a store with the same money.
LEMMA SoundSame ==
  ASSUME NEW s, Sound(s), NEW x, SameMoney(s, x)
  PROVE  Sound(x)
BY BooksSame DEF Sound

\* A withdrawal pays from what is outstanding, and no more.
LEMMA WithdrawSound ==
  ASSUME NEW s, Books(s), NEW K, RunningWith(s, K), NEW d \in Account, NEW v \in DOMAIN s.val,
         <<d, v>> \in K, NEW x, x = Withdraw(s, d, v)
  PROVE  Books(x) /\ IsStore(x) /\ (NoDebts(s) => NoDebts(x))
<1>1. Paid(s, x, d, v) /\ SameBut(s, x, {"hist", "cur", "start", "held", "bal", "out", "pool"})
  BY WithdrawRunning
<1>2. PICK r : r = Reward(s, d, v)
  OBVIOUS
<1>3. r \in Int /\ Unit \in Nat \ {0}
  BY <1>2, RewardType, StakingAssumption
<1>4. PICK c, m, u : c = r \div Unit /\ m = r % Unit /\ u = c * Unit
  OBVIOUS
<1>5. /\ x.held = s.held - u /\ x.bal = [s.bal EXCEPT ![d] = s.bal[d] + c]
      /\ x.out = [s.out EXCEPT ![v] = s.out[v] - r] /\ x.pool = s.pool + m
  BY <1>1, <1>2, <1>4 DEF Paid
<1>6. c \in Int /\ m \in Int /\ u \in Int /\ r = u + m
  <2>1. c \in Int /\ m \in Int
    BY <1>3, <1>4
  <2>2. r = Unit * (r \div Unit) + (r % Unit)
    BY <1>3
  <2>3. u = Unit * c /\ u \in Int
    BY <1>3, <1>4, <2>1, ProductType
  <2> QED BY <1>4, <2>1, <2>2, <2>3
<1>7. v \in DOMAIN s.out /\ s.out \in [DOMAIN s.out -> Int] /\ s.held \in Int
      /\ s.supply \in Int /\ x.supply = s.supply /\ IsStore(x)
  BY <1>1 DEF RunningWith, Keyed, Books, MoneyTyped, SameBut, StoreFields
<1>8. s.out[v] \in Int
  BY <1>7
<1>9. Books(x)
  <2>1. PICK a, b, z : a = -r /\ b = -u /\ z = 0
    OBVIOUS
  <2>2. Moves(s, x, v, a, m, b, d, c, z)
    BY <1>3, <1>5, <1>6, <1>7, <1>8, <2>1 DEF Moves
  <2>3. /\ a \in Int /\ b \in Int /\ z \in Int /\ b = a + m /\ c * Unit + b = z * Unit
    BY <1>3, <1>4, <1>6, <2>1
  <2> QED BY ONLY <1>6, <1>7, <2>2, <2>3, d \in Account, Books(s), BooksMoved
<1>10. ASSUME NoDebts(s) PROVE NoDebts(x)
  <2>1. r <= s.out[v]
    <3>1. PICK w : w = Rewards(IncrementValidatorPeriod(s, v), d, v, s.cur[v].period)
      OBVIOUS
    <3>2. r = Least(w, s.out[v])
      BY <1>2, <3>1 DEF Reward
    <3> QED BY <1>3, <1>8, <3>2 DEF Least
  <2>2. \A w \in DOMAIN x.out : x.out[w] = IF w = v THEN s.out[v] - r ELSE s.out[w]
    BY <1>5, <1>7
  <2>3. DOMAIN x.out = DOMAIN s.out
    BY <1>5
  <2>4. x.pool >= 0
    <3>1. m >= 0
      BY <1>3, <1>4
    <3>2. s.pool >= 0 /\ s.pool \in Int
      BY <1>10 DEF NoDebts, Books, MoneyTyped
    <3> QED BY <1>5, <1>6, <3>1, <3>2
  <2> QED BY <1>3, <1>8, <1>10, <2>1, <2>2, <2>3, <2>4 DEF NoDebts
<1> QED BY <1>7, <1>9, <1>10

\* Rewards are withdrawn and the delegation starts again.
LEMMA RewardsSound ==
  ASSUME NEW s, Books(s), Running(s), NEW k \in DOMAIN s.del, NEW height,
         NEW x, x = WithdrawDelegationRewards(s, k[1], k[2], height)
  PROVE  Books(x) /\ (NoDebts(s) => NoDebts(x))
<1>1. PICK d \in Account, v \in DOMAIN s.val : k = <<d, v>>
  BY DEF Running, RunningWith, Keyed
<1>2. PICK w : w = Withdraw(s, d, v)
  OBVIOUS
<1>3. Books(w) /\ IsStore(w) /\ (NoDebts(s) => NoDebts(w))
  <2>1. RunningWith(s, DOMAIN s.del) /\ <<d, v>> \in DOMAIN s.del
    BY <1>1 DEF Running
  <2> QED BY <1>2, <2>1, WithdrawSound
<1>4. x = s \/ x = w \/ x = AfterDelegationModified(w, d, v, height)
  BY <1>1, <1>2 DEF WithdrawDelegationRewards
<1>5. CASE x = AfterDelegationModified(w, d, v, height)
  BY <1>3, <1>5, StartNoMoney, BooksSame
<1> QED BY <1>3, <1>4, <1>5

\* A delegation moves no money but that of its hook.
LEMMA DelegateMoney ==
  ASSUME NEW s, NEW d, NEW v, NEW height,
         NEW w, w = IF <<d, v>> \in DOMAIN s.del THEN Withdraw(s, d, v)
                    ELSE BeforeDelegationCreated(s, v),
         IsStore(w)
  PROVE  SameMoney(w, Delegate(s, d, v, height))
<1>1. PICK f, t, n, y : /\ y = [w EXCEPT !.del = f, !.val[v].tokens = t, !.val[v].shares = n]
                        /\ Delegate(s, d, v, height) = AfterDelegationModified(y, d, v, height)
  BY Zenon DEF Delegate
<1>2. SameMoney(w, y)
  BY <1>1 DEF SameMoney, IsStore, StoreFields
<1>3. SameMoney(y, Delegate(s, d, v, height))
  <2>1. IsStore(y)
    BY <1>2 DEF SameMoney
  <2> QED BY <1>1, <2>1, StartNoMoney
<1> QED BY <1>2, <1>3 DEF SameMoney

\* A delegation is made or increased.
LEMMA DelegateSound ==
  ASSUME NEW s, Sound(s), Running(s), NEW d \in Account, NEW v \in DOMAIN s.val, NEW height
  PROVE  Sound(Delegate(s, d, v, height))
<1>1. PICK w : w = IF <<d, v>> \in DOMAIN s.del THEN Withdraw(s, d, v)
                   ELSE BeforeDelegationCreated(s, v)
  OBVIOUS
<1>2. RunningWith(s, DOMAIN s.del) /\ IsStore(s) /\ s.val[v].tokens > 0
  BY DEF Running, RunningWith, Keyed, Shared, SharedAt
<1>3. Sound(w) /\ IsStore(w)
  <2>1. CASE <<d, v>> \in DOMAIN s.del
    <3>1. w = Withdraw(s, d, v)
      BY <1>1, <2>1
    <3> QED BY <1>2, <2>1, <3>1, WithdrawSound DEF Sound
  <2>2. CASE <<d, v>> \notin DOMAIN s.del
    <3>1. SameMoney(s, w)
      BY <1>1, <1>2, <2>2, EndNoMoney DEF BeforeDelegationCreated
    <3> QED BY <3>1, SoundSame DEF SameMoney
  <2> QED BY <2>1, <2>2
<1>4. SameMoney(w, Delegate(s, d, v, height))
  BY <1>1, <1>3, DelegateMoney
<1> QED BY <1>3, <1>4, SoundSame

\* The records of a validator begin with nothing outstanding.
LEMMA OpeningBooks ==
  ASSUME NEW s, Books(s), IsStore(s), NEW v, v \notin DOMAIN s.out,
         NEW x, x = AfterValidatorCreated(s, v)
  PROVE  /\ Books(x) /\ IsStore(x) /\ (NoDebts(s) => NoDebts(x))
         /\ v \in DOMAIN x.out /\ x.cur[v].rewards = 0
<1>1. /\ x.out = Put(s.out, v, 0) /\ x.cur = Put(s.cur, v, [rewards |-> 0, period |-> 1])
      /\ x.pool = s.pool /\ x.held = s.held /\ x.bal = s.bal /\ x.supply = s.supply
      /\ IsStore(x)
  BY DEF AfterValidatorCreated, IsStore, StoreFields
<1>2. PICK S, f, e : S = DOMAIN s.out /\ f = s.out /\ e = x.out
  OBVIOUS
<1>3. IsFiniteSet(S) /\ f \in [S -> Int] /\ v \notin S /\ e = Put(f, v, 0)
  BY <1>1, <1>2 DEF Books, MoneyTyped
<1>4. /\ DOMAIN e = S \cup {v} /\ e \in [S \cup {v} -> Int] /\ e[v] = 0
      /\ \A y \in S : f[y] \in Int /\ e[y] = f[y]
  BY <1>3 DEF Put
<1>5. IsFiniteSet(S \cup {v}) /\ (S \cup {v}) \ {v} = S
  BY <1>3, FS_AddElement
<1>6. SumFunctionOnSet(e, S \cup {v}) = SumFunctionOnSet(f, S)
  <2>1. \A y \in S \cup {v} : e[y] \in Int
    BY <1>4
  <2>2. SumFunctionOnSet(e, S \cup {v}) = e[v] + SumFunctionOnSet(e, (S \cup {v}) \ {v})
    BY <1>5, <2>1, SumRemove
  <2>3. SumFunctionOnSet(e, S) = SumFunctionOnSet(f, S)
    BY ONLY <1>3, <1>4, SumSame
  <2>4. SumFunctionOnSet(f, S) \in Int
    BY <1>3, <1>4, SumRemove
  <2>5. PICK i, j, k : /\ i = SumFunctionOnSet(e, S \cup {v})
                       /\ j = SumFunctionOnSet(e, S) /\ k = SumFunctionOnSet(f, S)
    OBVIOUS
  <2>6. i = 0 + j
    BY <1>4, <1>5, <2>2, <2>5
  <2> QED BY <2>3, <2>4, <2>5, <2>6
<1>7. MoneyTyped(x) /\ Outstanding(x) = Outstanding(s)
  BY <1>1, <1>2, <1>4, <1>5, <1>6 DEF Books, MoneyTyped, Outstanding
<1>8. Exact(x) /\ Minted(x)
  BY <1>1, <1>7 DEF Books, Exact, Minted
<1>9. NoDebts(s) => NoDebts(x)
  BY <1>1, <1>2, <1>4 DEF NoDebts
<1>10. x.cur[v] = [rewards |-> 0, period |-> 1]
  BY <1>1 DEF Put
<1> QED BY <1>1, <1>2, <1>4, <1>7, <1>8, <1>9, <1>10 DEF Books

\* A validator is created, with its operator's delegation.
LEMMA CreateSound ==
  ASSUME NEW s, Sound(s), Running(s), NEW v \in Val, v \notin DOMAIN s.val, NEW height
  PROVE  Sound(CreateValidator(s, v, height))
<1>1. PICK n, m, d : /\ n = [s EXCEPT
                          !.val = Put(s.val, v, [tokens |-> 0, shares |-> 0,
                                                 jailed |-> FALSE, height |-> 0]),
                          !.power = s.power \cup {v}, !.last = s.last \cup {v},
                          !.sign = Put(s.sign, v, height)]
                     /\ m = AfterValidatorCreated(n, v) /\ d = OperatorOf[v]
  OBVIOUS
<1>2. CreateValidator(s, v, height) = Delegate(m, d, v, height)
  BY <1>1 DEF CreateValidator
<1>3. IsStore(s) /\ v \notin DOMAIN s.out /\ <<d, v>> \notin DOMAIN s.del
  BY DEF Running, RunningWith, Keyed
<1>4. SameMoney(s, n) /\ n.del = s.del
  BY <1>1, <1>3 DEF SameMoney, IsStore, StoreFields
<1>5. Books(n) /\ NoDebts(n) /\ IsStore(n) /\ v \notin DOMAIN n.out
  BY <1>3, <1>4, SoundSame DEF Sound, SameMoney
<1>6. Sound(m) /\ IsStore(m) /\ v \in DOMAIN m.out /\ m.cur[v].rewards = 0
  BY <1>1, <1>5, OpeningBooks DEF Sound
<1>7. <<d, v>> \notin DOMAIN m.del
  <2>1. m.del = n.del
    BY <1>1, <1>5 DEF AfterValidatorCreated, IsStore, StoreFields
  <2> QED BY <1>3, <1>4, <2>1
<1>8. PICK w : w = IncrementValidatorPeriod(m, v)
  OBVIOUS
<1>9. SameMoney(m, w)
  BY <1>6, <1>8, EndNoMoney DEF Sound, Books
<1>10. Sound(w) /\ IsStore(w)
  BY <1>6, <1>9, SoundSame DEF SameMoney
<1>11. SameMoney(w, Delegate(m, d, v, height))
  <2>1. w = IF <<d, v>> \in DOMAIN m.del THEN Withdraw(m, d, v)
            ELSE BeforeDelegationCreated(m, v)
    BY <1>7, <1>8 DEF BeforeDelegationCreated
  <2> QED BY <1>10, <2>1, DelegateMoney
<1> QED BY <1>2, <1>10, <1>11, SoundSame

\* A delegation ends, after its withdrawal.
LEMMA UndelegateSound ==
  ASSUME NEW s, Sound(s), Running(s), NEW d \in Account, NEW v \in DOMAIN s.val,
         <<d, v>> \in DOMAIN s.del, NEW height
  PROVE  Sound(Undelegate(s, d, v, height))
<1>1. PICK w : w = Withdraw(s, d, v)
  OBVIOUS
<1>2. Sound(w) /\ IsStore(w)
  <2>1. RunningWith(s, DOMAIN s.del)
    BY DEF Running
  <2> QED BY <1>1, <2>1, WithdrawSound DEF Sound
<1>3. PICK t, n, f, g : Undelegate(s, d, v, height) =
                          [w EXCEPT !.val[v].tokens = t, !.val[v].shares = n,
                                    !.del = f, !.entry = g]
  BY <1>1, Zenon DEF Undelegate
<1>4. SameMoney(w, Undelegate(s, d, v, height))
  BY <1>2, <1>3 DEF SameMoney, IsStore, StoreFields
<1> QED BY <1>2, <1>4, SoundSame

\* A slash burns tokens and moves no reward; a validator's return moves nothing.
LEMMA SlashSound ==
  ASSUME NEW s, Sound(s), Running(s), NEW v \in DOMAIN s.val, NEW height
  PROVE  Sound(SlashAndJail(s, v, height)) /\ Sound(Unjail(s, v))
<1>1. IsStore(s) /\ s.val[v].tokens > 0
  BY DEF Running, RunningWith, Keyed, Shared, SharedAt
<1>2. PICK e, p, i, y : /\ e = IncrementValidatorPeriod(s, v) /\ p = s.cur[v].period
                        /\ i = incrementReferenceCount(e, v, p)
                        /\ y = BeforeValidatorSlashed(s, v)
  OBVIOUS
<1>3. SameMoney(s, e)
  BY <1>1, <1>2, EndNoMoney
<1>4. SameMoney(e, i)
  <2>1. IsStore(e)
    BY <1>3 DEF SameMoney
  <2> QED BY <1>2, <2>1, CountsNoMoney
<1>5. SameMoney(i, y)
  BY <1>2, <1>4 DEF BeforeValidatorSlashed, SameMoney, IsStore, StoreFields
<1>6. SameMoney(s, y)
  BY <1>3, <1>4, <1>5 DEF SameMoney
<1>7. SameMoney(y, SlashAndJail(s, v, height))
  <2>1. PICK c, a, b, g : SlashAndJail(s, v, height) =
               [y EXCEPT !.val[v] = c, !.power = a, !.last = b, !.queue = g]
    BY <1>2, Zenon DEF SlashAndJail
  <2> QED BY <1>6, <2>1 DEF SameMoney, IsStore, StoreFields
<1>8. SameMoney(s, Unjail(s, v))
  BY <1>1 DEF Unjail, SameMoney, IsStore, StoreFields
<1> QED BY <1>6, <1>7, <1>8, SoundSame

\* A block's reward is minted, held and outstanding.
LEMMA AllocateSound ==
  ASSUME NEW s, Sound(s), Running(s), NEW v \in DOMAIN s.val,
         NEW x, x = AllocateTokens(s, v, 1)
  PROVE  Sound(x)
<1>1. IsStore(s) /\ v \in DOMAIN s.out /\ v \in Val /\ Books(s) /\ NoDebts(s)
  BY DEF Running, RunningWith, Keyed, Sound
<1>2. PICK r : r = Unit
  OBVIOUS
<1>3. r \in Nat /\ 1 * Unit = r
  BY <1>2, StakingAssumption
<1>4. /\ x.out = [s.out EXCEPT ![v] = s.out[v] + r] /\ x.held = s.held + r
      /\ x.supply = s.supply + 1 /\ x.pool = s.pool /\ x.bal = s.bal
  BY <1>1, <1>3 DEF AllocateTokens, IsStore, StoreFields
<1>5. PICK a, z, o : a = OperatorOf[v] /\ z = 0 /\ o = 1
  OBVIOUS
<1>6. a \in Account
  BY <1>1, <1>5, StakingAssumption
<1>7. /\ s.pool \in Int /\ s.bal \in [Account -> Int] /\ s.out \in [DOMAIN s.out -> Int]
  BY <1>1 DEF Books, MoneyTyped
<1>8. Moves(s, x, v, r, z, r, a, z, o)
  <2>1. x.pool = s.pool + z /\ s.bal[a] + z = s.bal[a]
    BY <1>4, <1>5, <1>6, <1>7
  <2>2. [s.bal EXCEPT ![a] = s.bal[a]] = s.bal
    BY <1>7
  <2> QED BY <1>4, <1>5, <2>1, <2>2 DEF Moves
<1>9. r \in Int /\ z \in Int /\ o \in Int /\ r = r + z /\ z * Unit + r = o * Unit
  BY <1>2, <1>3, <1>5
<1>10. Books(x)
  BY ONLY <1>1, <1>6, <1>8, <1>9, BooksMoved
<1>11. NoDebts(x)
  <2>1. DOMAIN x.out = DOMAIN s.out
        /\ \A w \in DOMAIN s.out : x.out[w] = IF w = v THEN s.out[v] + r ELSE s.out[w]
    BY <1>1, <1>4, <1>7
  <2>2. \A w \in DOMAIN s.out : s.out[w] \in Int /\ s.out[w] >= 0
    BY <1>1, <1>7 DEF NoDebts
  <2>3. x.pool >= 0
    BY <1>1, <1>4 DEF NoDebts
  <2> QED BY <1>1, <1>3, <2>1, <2>2, <2>3 DEF NoDebts
<1> QED BY <1>10, <1>11 DEF Sound

\* Commission is paid in whole coins.
LEMMA CommissionBooks ==
  ASSUME NEW s, Books(s), Running(s), NEW v \in DOMAIN s.val,
         NEW x, x = WithdrawValidatorCommission(s, v)
  PROVE  Books(x)
<1>1. IsStore(s) /\ v \in DOMAIN s.out /\ v \in Val /\ s.com[v] \in Nat
  BY DEF Running, RunningWith, Keyed, Coins
<1>2. PICK n, c, u, a : n = s.com[v] /\ c = n \div Unit /\ u = c * Unit /\ a = OperatorOf[v]
  OBVIOUS
<1>3. c \in Int /\ u \in Int /\ a \in Account
  <2>1. c \in Int
    BY <1>1, <1>2, StakingAssumption
  <2> QED BY <1>1, <1>2, <2>1, ProductType, StakingAssumption
<1>4. /\ x.out = [s.out EXCEPT ![v] = s.out[v] - u] /\ x.held = s.held - u
      /\ x.bal = [s.bal EXCEPT ![a] = s.bal[a] + c]
      /\ x.supply = s.supply /\ x.pool = s.pool
  BY <1>1, <1>2 DEF WithdrawValidatorCommission, IsStore, StoreFields
<1>5. /\ s.pool \in Int /\ s.held \in Int /\ s.supply \in Int
      /\ s.out \in [DOMAIN s.out -> Int] /\ s.out[v] \in Int
  BY <1>1 DEF Books, MoneyTyped
<1>6. PICK b, z : b = -u /\ z = 0
  OBVIOUS
<1>7. Moves(s, x, v, b, z, b, a, c, z)
  BY <1>3, <1>4, <1>5, <1>6 DEF Moves
<1>8. b \in Int /\ z \in Int /\ b = b + z /\ c * Unit + b = z * Unit
  BY <1>2, <1>3, <1>6, StakingAssumption
<1> QED BY ONLY <1>1, <1>3, <1>7, <1>8, Books(s), BooksMoved

\* What is outstanding is donated to the pool, and the records begin anew.
LEMMA DonatedBooks ==
  ASSUME NEW s, Books(s), IsStore(s), NEW v \in DOMAIN s.out, v \in Val,
         NEW x, x = AfterValidatorCreated([s EXCEPT !.pool = s.pool + s.out[v]], v)
  PROVE  Books(x)
<1>1. PICK r, a, z, b : r = s.out[v] /\ a = OperatorOf[v] /\ z = 0 /\ b = -r
  OBVIOUS
<1>2. /\ s.pool \in Int /\ s.held \in Int /\ s.supply \in Int /\ r \in Int /\ b \in Int
      /\ s.out \in [DOMAIN s.out -> Int] /\ s.bal \in [Account -> Int] /\ a \in Account
  BY <1>1, StakingAssumption DEF Books, MoneyTyped
<1>3. /\ x.out = Put(s.out, v, 0) /\ x.pool = s.pool + r /\ x.held = s.held
      /\ x.bal = s.bal /\ x.supply = s.supply
  BY <1>1 DEF AfterValidatorCreated, IsStore, StoreFields
<1>4. x.out = [s.out EXCEPT ![v] = s.out[v] + b]
  <2>1. s.out[v] + b = 0
    BY <1>1, <1>2
  <2>2. Put(s.out, v, 0) = [s.out EXCEPT ![v] = 0]
    BY <1>2 DEF Put
  <2> QED BY <1>3, <2>1, <2>2
<1>5. Moves(s, x, v, b, r, z, a, z, z)
  <2>1. /\ s.held + z = s.held /\ s.supply + z = s.supply /\ s.bal[a] + z = s.bal[a]
    BY <1>1, <1>2
  <2>2. [s.bal EXCEPT ![a] = s.bal[a]] = s.bal
    BY <1>2
  <2> QED BY <1>3, <1>4, <2>1, <2>2 DEF Moves
<1>6. z \in Int /\ z = b + r /\ z * Unit + z = z * Unit
  BY <1>1, <1>2, StakingAssumption
<1> QED BY ONLY <1>2, <1>5, <1>6, v \in DOMAIN s.out, Books(s), BooksMoved

\* An empty store has sound books.
LEMMA EmptySound == Sound(Empty)
<1>1. PICK s : s = Empty
  OBVIOUS
<1>2. s.out = <<>> /\ s.pool = 0 /\ s.held = 0 /\ s.supply = 0 /\ s.bal = [a \in Account |-> 0]
  BY <1>1 DEF Empty
<1>3. DOMAIN <<>> = {} /\ <<>> \in [{} -> Int]
  OBVIOUS
<1>4. MoneyTyped(s) /\ NoDebts(s)
  BY <1>2, <1>3, FS_EmptySet DEF MoneyTyped, NoDebts
<1>5. Exact(s)
  BY <1>2, <1>3, SumEmpty DEF Exact, Outstanding
<1>6. Minted(s)
  <2>1. \A a \in Account : s.bal[a] = 0
    BY <1>2
  <2>2. SumFunctionOnSet(s.bal, Account) = 0
    BY ONLY <2>1, StakingAssumption, SumZero
  <2> QED BY <1>2, <2>2, StakingAssumption DEF Minted
<1> QED BY <1>1, <1>4, <1>5, <1>6 DEF Sound, Books

-----------------------------------------------------------------------------
-----------------------------------------------------------------------------
(***************************************************************************)
(* The stretches of a delegation depend on its start, on the slash events  *)
(* and on the ratios these refer to.                                       *)
(***************************************************************************)
DelsTo(K, v) == {k \in K : k[2] = v}
LastOf(s, k) == Stretches(s, k[1], k[2])[Len(s.slash[k[2]])]

\* What k is owed for the periods that have ended.
Owed(s, k) == UpTo(s, k[2], LastOf(s, k), s.cur[k[2]].period - 1)

\* Ratios that are kept do not change.
RatiosKept(s, x, v) ==
  \A p \in Nat : HistOf(s, v, p).refs # 0 /\ HistOf(x, v, p).refs # 0 =>
                   HistOf(x, v, p).ratio = HistOf(s, v, p).ratio

\* The slash events of v in s are the first of those in x.
SlashedFirst(s, x, v) ==
  /\ Len(s.slash[v]) <= Len(x.slash[v])
  /\ \A i \in 1 .. Len(s.slash[v]) : x.slash[v][i] = s.slash[v][i]

\* The records of v and of the delegations K to it.
Recorded(s, v, K) ==
  /\ HistTyped(s) /\ RefsOK(s, v, K)
  /\ \A k \in DelsTo(K, v) : k = <<k[1], v>> /\ s.start[k] \in StartType

\* Stretches of the same beginning over the same events and ratios are equal.
LEMMA StretchesAgree ==
  ASSUME NEW s, NEW x, NEW d, NEW v, NEW a, NEW n, NEW m, NEW f, NEW g,
         StretchesAre(s, d, v, a, n, f), StretchesAre(x, d, v, a, m, g),
         SlashedFirst(s, x, v), NEW Q, a.prev \in Q,
         \A i \in 1 .. n : s.slash[v][i] \in Q,
         \A p \in Q : HistOf(x, v, p).ratio = HistOf(s, v, p).ratio
  PROVE  \A i \in 0 .. n : g[i] = f[i] /\ f[i].prev \in Q
<1>1. n \in Nat /\ Stretched(s, v, a, n, f)
  BY ONLY StretchesAre(s, d, v, a, n, f), StretchesGiven
<1>2. m \in Nat /\ Stretched(x, v, a, m, g)
  BY ONLY StretchesAre(x, d, v, a, m, g), StretchesGiven
<1>3. n <= m /\ \A i \in 1 .. n : x.slash[v][i] = s.slash[v][i]
  BY DEF SlashedFirst, StretchesAre
<1>4. PICK S : S = {i \in Nat : i <= n => g[i] = f[i] /\ f[i].prev \in Q}
  OBVIOUS
<1>5. 0 \in S
  BY <1>1, <1>2, <1>4 DEF Stretched
<1>6. ASSUME NEW i \in Nat, i \in S PROVE i + 1 \in S
  <2>1. SUFFICES ASSUME i + 1 <= n PROVE g[i + 1] = f[i + 1] /\ f[i + 1].prev \in Q
    BY <1>4
  <2>2. i + 1 \in 1 .. n /\ i + 1 \in 1 .. m /\ (i + 1) - 1 = i /\ i <= n
    BY <1>1, <1>2, <1>3, <2>1
  <2>3. PICK b, p : b = f[i] /\ p = s.slash[v][i + 1]
    OBVIOUS
  <2>4. g[i] = b /\ b.prev \in Q /\ p \in Q /\ x.slash[v][i + 1] = p
    BY <1>3, <1>4, <1>6, <2>2, <2>3
  <2>5. f[i + 1] = NextStretch(s, v, a, b, i + 1) /\ g[i + 1] = NextStretch(x, v, a, b, i + 1)
    BY <1>1, <1>2, <2>2, <2>3, <2>4 DEF Stretched
  <2>6. UpTo(x, v, b, p) = UpTo(s, v, b, p)
    BY <2>4 DEF UpTo
  <2> QED BY <2>3, <2>4, <2>5, <2>6 DEF NextStretch
<1>7. Nat \subseteq S
  BY <1>5, <1>6, NatSetInduction
<1> QED BY <1>1, <1>4, <1>7

\* A start and a slash event refer to a ratio that is kept.
LEMMA ReferredKept ==
  ASSUME NEW s, NEW v, NEW K, RefsOK(s, v, K), NEW p \in Nat,
         StartsAt(s, v, p, K) \/ SlashedAt(s, v, p)
  PROVE  HistOf(s, v, p).refs # 0
<1>1. HistOf(s, v, p).refs = Count(s, v, p, K)
  BY DEF RefsOK, CountOK
<1> QED BY <1>1 DEF Count

\* The stretches of a recorded delegation.
LEMMA RecordedStretches ==
  ASSUME NEW s, NEW v, NEW K, Recorded(s, v, K), NEW k \in DelsTo(K, v),
         NEW f, f = Stretches(s, k[1], v)
  PROVE  /\ StretchesAre(s, k[1], v, s.start[k], Len(s.slash[v]), f)
         /\ Len(s.slash[v]) \in Nat
         /\ \A i \in 1 .. Len(s.slash[v]) : s.slash[v][i] \in Nat
         /\ HistOf(s, v, s.start[k].prev).refs # 0
         /\ \A i \in 1 .. Len(s.slash[v]) : HistOf(s, v, s.slash[v][i]).refs # 0
<1>1. k = <<k[1], v>> /\ s.start[k].prev \in Nat /\ s.start[k].stake \in Nat
  BY DEF Recorded, StartType
<1>2. s.slash[v] \in Seq(Nat)
  <2>1. s.slash[v] \in Seq(0 .. s.cur[v].period - 1) /\ s.cur[v].period \in Nat
    BY DEF Recorded, RefsOK, SlashesOK, PeriodOK
  <2>2. 0 .. s.cur[v].period - 1 \subseteq Nat
    BY <2>1
  <2> QED BY <2>1, <2>2, SeqWider
<1>3. Len(s.slash[v]) \in Nat /\ \A i \in 1 .. Len(s.slash[v]) : s.slash[v][i] \in Nat
  BY <1>2, InSeq
<1>4. RefsOK(s, v, K) /\ k = <<k[1], v>> /\ StartsAt(s, v, s.start[k].prev, K)
      /\ \A i \in 1 .. Len(s.slash[v]) : SlashedAt(s, v, s.slash[v][i])
  BY DEF Recorded, StartsAt, SlashedAt, DelsTo
<1> QED BY <1>1, <1>2, <1>3, <1>4, ReferredKept DEF Recorded, StretchesAre

\* A delegation that starts where it did has the same last stretch, when what
\* is still referred to keeps its ratio; later events only add to it.
LEMMA LastWas ==
  ASSUME NEW s, NEW x, NEW v, NEW K, NEW L, Recorded(s, v, K), Recorded(x, v, L),
         NEW k \in DelsTo(K, v), k \in L, x.start[k] = s.start[k],
         RatiosKept(s, x, v), SlashedFirst(s, x, v)
  PROVE  /\ Stretches(x, k[1], v)[Len(s.slash[v])] = LastOf(s, k)
         /\ LastOf(s, k) \in Stretch
         /\ HistOf(s, v, LastOf(s, k).prev).refs # 0
         /\ HistOf(x, v, LastOf(s, k).prev).ratio = HistOf(s, v, LastOf(s, k).prev).ratio
<1>1. PICK d, a, n, m, f, g : /\ d = k[1] /\ a = s.start[k] /\ n = Len(s.slash[v])
                              /\ m = Len(x.slash[v])
                              /\ f = Stretches(s, d, v) /\ g = Stretches(x, d, v)
  OBVIOUS
<1>2. k \in DelsTo(L, v) /\ k[2] = v
  BY DEF DelsTo
<1>3. StretchesAre(s, d, v, a, n, f) /\ StretchesAre(x, d, v, a, m, g)
  BY <1>1, <1>2, RecordedStretches
<1>4. PICK Q : Q = {p \in Nat : HistOf(s, v, p).refs # 0 /\ HistOf(x, v, p).refs # 0}
  OBVIOUS
<1>5. a.prev \in Q
  <2>1. a.prev \in Nat
    BY <1>3 DEF StretchesAre
  <2> QED BY <1>1, <1>2, <1>4, <2>1, RecordedStretches
<1>6. \A i \in 1 .. n : s.slash[v][i] \in Q
  <2> TAKE i \in 1 .. n
  <2>1. s.slash[v][i] \in Nat /\ HistOf(s, v, s.slash[v][i]).refs # 0 /\ n \in Nat
    BY <1>1, RecordedStretches
  <2>2. i \in 1 .. m /\ x.slash[v][i] = s.slash[v][i]
    <3>1. m \in Nat /\ n <= m
      BY <1>1, <1>2, RecordedStretches DEF SlashedFirst
    <3> QED BY <1>1, <2>1, <3>1 DEF SlashedFirst
  <2>3. HistOf(x, v, x.slash[v][i]).refs # 0
    BY <1>1, <1>2, <2>2, RecordedStretches
  <2> QED BY <1>4, <2>1, <2>2, <2>3
<1>7. \A p \in Q : HistOf(x, v, p).ratio = HistOf(s, v, p).ratio
  BY <1>4 DEF RatiosKept
<1>8. \A i \in 0 .. n : g[i] = f[i] /\ f[i].prev \in Q
  BY ONLY <1>3, <1>5, <1>6, <1>7, SlashedFirst(s, x, v), StretchesAgree
<1>9. n \in 0 .. n /\ f \in [0 .. n -> Stretch]
  <2>1. n \in Nat /\ f \in [0 .. n -> Stretch]
    BY ONLY <1>3, StretchesGiven
  <2> QED BY <2>1
<1>10. LastOf(s, k) = f[n]
  BY <1>1, <1>2 DEF LastOf
<1> QED BY <1>1, <1>4, <1>7, <1>8, <1>9, <1>10

\* A delegation that is recorded keeps what it is owed while its start, the slash
\* events and the period are the same.
LEMMA OwedKept ==
  ASSUME NEW s, NEW x, NEW v, NEW K, NEW L, Recorded(s, v, K), Recorded(x, v, L),
         NEW k \in DelsTo(K, v), k \in L, x.start[k] = s.start[k],
         RatiosKept(s, x, v), x.slash[v] = s.slash[v], x.cur[v].period = s.cur[v].period
  PROVE  LastOf(x, k) = LastOf(s, k) /\ Owed(x, k) = Owed(s, k)
<1>1. k[2] = v
  BY DEF DelsTo
<1>2. SlashedFirst(s, x, v)
  <2>1. Len(s.slash[v]) \in Nat
    BY RecordedStretches
  <2> QED BY <2>1 DEF SlashedFirst
<1>3. /\ Stretches(x, k[1], v)[Len(s.slash[v])] = LastOf(s, k)
      /\ HistOf(x, v, LastOf(s, k).prev).ratio = HistOf(s, v, LastOf(s, k).prev).ratio
  BY <1>2, LastWas
<1>4. LastOf(x, k) = LastOf(s, k)
  BY <1>1, <1>3 DEF LastOf
<1>5. PICK p : p = s.cur[v].period - 1
  OBVIOUS
<1>6. HistOf(x, v, p).ratio = HistOf(s, v, p).ratio
  <2>1. p \in Nat /\ x.cur[v].period - 1 = p
    BY <1>5 DEF Recorded, RefsOK, PeriodOK
  <2>2. HistOf(s, v, p).refs # 0 /\ HistOf(x, v, p).refs # 0
    BY <1>5, <2>1, LastKept DEF Recorded
  <2> QED BY <2>1, <2>2 DEF RatiosKept
<1>7. Owed(x, k) = UpTo(x, v, LastOf(s, k), p) /\ Owed(s, k) = UpTo(s, v, LastOf(s, k), p)
  BY <1>1, <1>4, <1>5 DEF Owed
<1> QED BY <1>3, <1>4, <1>6, <1>7 DEF UpTo

\* What a recorded delegation is owed is a number.
LEMMA OwedType ==
  ASSUME NEW s, NEW v, NEW K, Recorded(s, v, K), NEW k \in DelsTo(K, v)
  PROVE  LastOf(s, k) \in Stretch /\ Owed(s, k) \in Int
<1>1. SlashedFirst(s, s, v)
  <2>1. Len(s.slash[v]) \in Nat
    BY RecordedStretches
  <2> QED BY <2>1 DEF SlashedFirst
<1>2. RatiosKept(s, s, v) /\ k \in K /\ k[2] = v
  BY DEF RatiosKept, DelsTo
<1>3. LastOf(s, k) \in Stretch
  BY <1>1, <1>2, LastWas
<1> QED BY <1>2, <1>3, UpToType DEF Owed, Recorded

\* The end of a period gives each recorded delegation its stake times what the
\* ratio grows.
LEMMA OwedEnds ==
  ASSUME NEW s, NEW v, NEW K, Recorded(s, v, K), v \in DOMAIN s.cur, MayEnd(s, v),
         NEW x, x = IncrementValidatorPeriod(s, v)
  PROVE  /\ Recorded(x, v, K) /\ RatiosKept(s, x, v)
         /\ \A k \in DelsTo(K, v) :
              /\ LastOf(x, k) = LastOf(s, k)
              /\ Owed(x, k) = Owed(s, k) + LastOf(s, k).stake * Growth(s, v)
<1>1. PICK n : n = s.cur[v].period
  OBVIOUS
<1>2. RefsOK(s, v, K) /\ HistTyped(s)
  BY DEF Recorded
<1>3. /\ HistTyped(x) /\ SameBut(s, x, {"hist", "cur"})
      /\ x.cur = [s.cur EXCEPT ![v] = [rewards |-> 0, period |-> n + 1]]
      /\ \A w, q : HistOf(x, w, q) = Ended(s, v, w, q)
      /\ RefsOK(x, v, K)
  BY <1>1, <1>2, PeriodRefs
<1>4. n \in Nat \ {0} /\ x.cur[v].period = n + 1 /\ x.start = s.start /\ x.slash = s.slash
  BY <1>1, <1>2, <1>3, LastKept DEF SameBut, StoreFields
<1>5. Recorded(x, v, K)
  BY <1>3, <1>4 DEF Recorded
<1>6. RatiosKept(s, x, v)
  <2> SUFFICES ASSUME NEW p \in Nat, HistOf(s, v, p).refs # 0, HistOf(x, v, p).refs # 0
               PROVE  HistOf(x, v, p).ratio = HistOf(s, v, p).ratio
    BY DEF RatiosKept
  <2>1. p # n
    BY <1>1, <1>2, <1>4, LastKept
  <2>2. HistOf(x, v, p) = IF p = n - 1
          THEN IF HistOf(s, v, p).refs = 1 THEN NoRatio
               ELSE [ratio |-> HistOf(s, v, p).ratio, refs |-> HistOf(s, v, p).refs - 1]
          ELSE HistOf(s, v, p)
    BY <1>1, <1>3, <2>1 DEF Ended
  <2> QED BY <2>2 DEF NoRatio
<1>7. ASSUME NEW k \in DelsTo(K, v)
      PROVE  /\ LastOf(x, k) = LastOf(s, k)
             /\ Owed(x, k) = Owed(s, k) + LastOf(s, k).stake * Growth(s, v)
  <2>1. SlashedFirst(s, x, v)
    <3>1. Len(s.slash[v]) \in Nat
      BY RecordedStretches
    <3> QED BY <1>4, <3>1 DEF SlashedFirst
  <2>2. k \in K /\ k[2] = v
    BY DEF DelsTo
  <2>3. PICK b : b = LastOf(s, k)
    OBVIOUS
  <2>4. /\ Stretches(x, k[1], v)[Len(s.slash[v])] = b
        /\ HistOf(x, v, b.prev).ratio = HistOf(s, v, b.prev).ratio
        /\ b \in Stretch
    BY <1>4, <1>5, <1>6, <2>1, <2>2, <2>3, LastWas
  <2>5. LastOf(x, k) = b
    BY <1>4, <2>2, <2>4 DEF LastOf
  <2>6. PICK t, q, r, g : /\ t = b.stake /\ q = HistOf(s, v, b.prev).ratio
                          /\ r = HistOf(s, v, n - 1).ratio /\ g = Growth(s, v)
    OBVIOUS
  <2>7. t \in Int /\ q \in Int /\ r \in Int /\ g \in Int /\ b.sum \in Int
    <3>1. b.stake \in Nat /\ b.sum \in Int
      BY <2>4 DEF Stretch
    <3>2. q \in Nat /\ r \in Nat
      BY <1>2, <2>6, HistRead
    <3>3. g \in Nat
      BY <1>2, <2>6, GrowthType DEF RefsOK
    <3> QED BY <2>6, <3>1, <3>2, <3>3
  <2>8. HistOf(x, v, n).ratio = r + g
    BY <1>1, <1>3, <2>6 DEF Ended
  <2>9. Owed(x, k) = b.sum + t * ((r + g) - q)
    BY <1>4, <2>2, <2>4, <2>5, <2>6, <2>8 DEF Owed, UpTo
  <2>10. Owed(s, k) = b.sum + t * (r - q)
    BY <1>1, <2>2, <2>3, <2>6 DEF Owed, UpTo
  <2>11. t * ((r + g) - q) = t * (r - q) + t * g /\ t * (r - q) \in Int /\ t * g \in Int
    <3>1. (r + g) - q = (r - q) + g /\ r - q \in Int
      BY <2>7
    <3>2. PICK y : y = r - q
      OBVIOUS
    <3>3. (y + g) * t = y * t + g * t /\ y * t \in Int /\ g * t \in Int
      BY <2>7, <3>1, <3>2, ProductAdds
    <3>4. t * (y + g) = (y + g) * t /\ t * y = y * t /\ t * g = g * t
      BY <2>7, <3>1, <3>2
    <3> QED BY <3>1, <3>2, <3>3, <3>4
  <2>12. Owed(x, k) = Owed(s, k) + t * g
    <3>1. PICK i, j, h : i = t * ((r + g) - q) /\ j = t * (r - q) /\ h = t * g
      OBVIOUS
    <3> QED BY <2>7, <2>9, <2>10, <2>11, <3>1
  <2> QED BY <2>3, <2>5, <2>6, <2>12
<1> QED BY <1>5, <1>6, <1>7
\* Where no slash event is later than the start there is one stretch.
LEMMA OneStretch ==
  ASSUME NEW s, NEW d, NEW v, NEW a, NEW n, NEW f, StretchesAre(s, d, v, a, n, f),
         \A i \in 1 .. n : s.slash[v][i] <= a.prev
  PROVE  f[n] = [sum |-> 0, prev |-> a.prev, stake |-> a.stake]
<1>1. n \in Nat /\ Stretched(s, v, a, n, f)
  BY ONLY StretchesAre(s, d, v, a, n, f), StretchesGiven
<1>2. PICK z : z = [sum |-> 0, prev |-> a.prev, stake |-> a.stake]
  OBVIOUS
<1>3. PICK S : S = {i \in Nat : i <= n => f[i] = z}
  OBVIOUS
<1>4. 0 \in S
  BY <1>1, <1>2, <1>3 DEF Stretched
<1>5. ASSUME NEW i \in Nat, i \in S PROVE i + 1 \in S
  <2>1. SUFFICES ASSUME i + 1 <= n PROVE f[i + 1] = z
    BY <1>3
  <2>2. i + 1 \in 1 .. n /\ (i + 1) - 1 = i /\ i <= n
    BY <1>1, <2>1
  <2>3. f[i + 1] = NextStretch(s, v, a, f[i], i + 1) /\ f[i] = z
    BY <1>1, <1>3, <1>5, <2>2 DEF Stretched
  <2> QED BY <2>2, <2>3 DEF NextStretch
<1>6. Nat \subseteq S
  BY <1>4, <1>5, NatSetInduction
<1> QED BY <1>1, <1>2, <1>3, <1>6

\* A product by zero.
LEMMA ProductZero == \A a \in Int : a * 0 = 0
OBVIOUS

\* A delegation that has just started is owed nothing.
LEMMA OwedStarts ==
  ASSUME NEW s, NEW v, NEW K, Recorded(s, v, K), NEW k \in DelsTo(K, v),
         s.start[k].prev = s.cur[v].period - 1
  PROVE  LastOf(s, k).stake = s.start[k].stake /\ Owed(s, k) = 0
<1>1. PICK d, a, n, f : /\ d = k[1] /\ a = s.start[k] /\ n = Len(s.slash[v])
                        /\ f = Stretches(s, d, v)
  OBVIOUS
<1>2. StretchesAre(s, d, v, a, n, f) /\ n \in Nat /\ k[2] = v
  BY <1>1, RecordedStretches DEF DelsTo
<1>3. \A i \in 1 .. n : s.slash[v][i] <= a.prev
  <2> TAKE i \in 1 .. n
  <2>1. s.slash[v] \in Seq(0 .. a.prev)
    BY <1>1 DEF Recorded, RefsOK, SlashesOK
  <2>2. a.prev \in Nat
    BY <1>2 DEF StretchesAre
  <2>3. s.slash[v][i] \in 0 .. a.prev
    BY <1>1, <2>1, InSeq
  <2> QED BY <2>2, <2>3
<1>4. f[n] = [sum |-> 0, prev |-> a.prev, stake |-> a.stake]
  BY ONLY <1>2, <1>3, OneStretch
<1>5. LastOf(s, k) = [sum |-> 0, prev |-> a.prev, stake |-> a.stake]
  BY <1>1, <1>2, <1>4 DEF LastOf
<1>6. PICK r, t : r = HistOf(s, v, a.prev).ratio /\ t = a.stake
  OBVIOUS
<1>7. r \in Nat /\ t \in Nat
  BY <1>2, <1>6, HistRead DEF Recorded, StretchesAre
<1>8. Owed(s, k) = 0 + t * (r - r)
  BY <1>1, <1>2, <1>5, <1>6 DEF Owed, UpTo
<1>9. r - r = 0 /\ t * 0 = 0
  BY <1>7, ProductZero
<1> QED BY <1>1, <1>5, <1>8, <1>9

\* A slash event halves the stake and takes nothing of what was owed.
LEMMA OwedSlashed ==
  ASSUME NEW s, NEW x, NEW v, NEW K, Recorded(s, v, K), Recorded(x, v, K),
         NEW k \in DelsTo(K, v), x.start[k] = s.start[k], RatiosKept(s, x, v),
         NEW n \in Nat, x.slash[v] = Append(s.slash[v], n),
         s.cur[v].period - 1 = n, x.cur[v].period - 1 = n, s.start[k].prev < n
  PROVE  LastOf(x, k).stake = LastOf(s, k).stake \div 2 /\ Owed(x, k) = Owed(s, k)
<1>1. PICK d, a, l, m, f, b : /\ d = k[1] /\ a = x.start[k] /\ l = Len(s.slash[v])
                              /\ m = Len(x.slash[v]) /\ f = Stretches(x, d, v)
                              /\ b = LastOf(s, k)
  OBVIOUS
<1>2. k \in K /\ k[2] = v
  BY DEF DelsTo
<1>3. l \in Nat /\ m = l + 1 /\ x.slash[v][m] = n /\ SlashedFirst(s, x, v)
  <2>1. s.slash[v] \in Seq(Nat)
    BY RecordedStretches DEF StretchesAre
  <2> QED BY <1>1, <2>1, Appended DEF SlashedFirst
<1>4. f[l] = b /\ b \in Stretch /\ HistOf(x, v, b.prev).ratio = HistOf(s, v, b.prev).ratio
  BY <1>1, <1>2, <1>3, LastWas
<1>5. StretchesAre(x, d, v, a, m, f)
  BY <1>1, RecordedStretches
<1>6. f[m] = NextStretch(x, v, a, b, m)
  <2>1. Stretched(x, v, a, m, f)
    BY ONLY <1>5, StretchesGiven
  <2>2. m \in 1 .. m /\ m - 1 = l
    BY <1>3
  <2> QED BY <1>4, <2>1, <2>2 DEF Stretched
<1>7. a.prev \in Nat /\ a.prev < n
  BY <1>1, <1>5 DEF StretchesAre
<1>8. f[m] = [sum |-> UpTo(x, v, b, n), prev |-> n, stake |-> b.stake \div 2]
  BY <1>3, <1>6, <1>7 DEF NextStretch
<1>9. LastOf(x, k) = f[m]
  BY <1>1, <1>2 DEF LastOf
<1>10. PICK r, t, u : /\ r = HistOf(x, v, n).ratio /\ t = b.stake \div 2
                      /\ u = UpTo(x, v, b, n)
  OBVIOUS
<1>11. r \in Nat /\ t \in Nat /\ u \in Int
  <2>1. HistTyped(x)
    BY DEF Recorded
  <2>2. b.stake \in Nat
    BY <1>4 DEF Stretch
  <2>3. r \in Nat
    BY <1>10, <2>1, HistRead
  <2>4. u \in Int
    BY <1>4, <1>10, <2>1, UpToType
  <2> QED BY <1>10, <2>2, <2>3, <2>4
<1>12. Owed(x, k) = u + t * (r - r)
  BY <1>2, <1>8, <1>9, <1>10 DEF Owed, UpTo
<1>13. r - r = 0 /\ t * 0 = 0
  BY <1>11, ProductZero
<1>14. u = Owed(s, k)
  <2>1. HistOf(x, v, n).ratio = HistOf(s, v, n).ratio
    <3>1. HistOf(s, v, n).refs # 0 /\ HistOf(x, v, n).refs # 0
      BY LastKept DEF Recorded
    <3> QED BY <3>1 DEF RatiosKept
  <2> QED BY <1>1, <1>2, <1>4, <1>10, <2>1 DEF Owed, UpTo
<1> QED BY <1>1, <1>8, <1>9, <1>11, <1>12, <1>13, <1>14
-----------------------------------------------------------------------------
(***************************************************************************)
(* Solvency.                                                               *)
(***************************************************************************)
\* What k is owed is not negative, and its stake is no more than its share of
\* the validator's tokens.
Fair(s, k) ==
  /\ Owed(s, k) >= 0
  /\ LastOf(s, k).stake * s.val[k[2]].shares <= s.del[k] * s.val[k[2]].tokens

\* The commission, the rewards of the current period and what the delegations K
\* are owed are covered by the outstanding rewards.
OwedBy(s, v, K) ==
  SumFunctionOnSet([k \in DelsTo(K, v) |-> Owed(s, k)], DelsTo(K, v))
Covered(s, v, K) == s.com[v] + s.cur[v].rewards + OwedBy(s, v, K) <= s.out[v]
SolventAt(s, v, K) == Covered(s, v, K) /\ \A k \in DelsTo(K, v) : Fair(s, k)
Solvent(s, K) == \A v \in DOMAIN s.val : SolventAt(s, v, K)

\* What the solvency of v reads outside the records, but for its commission and
\* outstanding rewards.
StakedSame(s, x, v, K) ==
  /\ x.val[v].tokens = s.val[v].tokens /\ x.val[v].shares = s.val[v].shares
  /\ \A k \in DelsTo(K, v) : x.del[k] = s.del[k]

\* Solvency depends on nothing else.
LEMMA SolventSame ==
  ASSUME NEW s, NEW x, NEW w, NEW K, NEW L, Recorded(s, w, K), SameAt(s, x, w, K, L),
         HistTyped(x), x.com[w] = s.com[w], x.out[w] = s.out[w], StakedSame(s, x, w, K),
         SolventAt(s, w, K)
  PROVE  SolventAt(x, w, L) /\ Recorded(x, w, L)
<1>1. DelsTo(L, w) = DelsTo(K, w)
      /\ \A k \in DelsTo(K, w) : k \in L /\ x.start[k] = s.start[k] /\ k[2] = w
  BY DEF SameAt, DelsTo
<1>2. Recorded(x, w, L)
  <2>1. RefsOK(x, w, L)
    BY RefsSame DEF Recorded
  <2> QED BY <1>1, <2>1 DEF Recorded
<1>3. ASSUME NEW k \in DelsTo(K, w)
      PROVE  LastOf(x, k) = LastOf(s, k) /\ Owed(x, k) = Owed(s, k)
  <2>1. RatiosKept(s, x, w) /\ x.slash[w] = s.slash[w] /\ x.cur[w].period = s.cur[w].period
    BY DEF RatiosKept, SameAt
  <2> QED BY <1>1, <1>2, <2>1, OwedKept
<1>4. OwedBy(x, w, L) = OwedBy(s, w, K)
  BY <1>1, <1>3 DEF OwedBy
<1>5. Covered(x, w, L)
  BY <1>4 DEF Covered, SolventAt, SameAt
<1>6. \A k \in DelsTo(L, w) : Fair(x, k)
  BY <1>1, <1>3 DEF Fair, SolventAt, StakedSame
<1> QED BY <1>2, <1>5, <1>6 DEF SolventAt
\* A validator whose shares are those of its delegations.
Sharing(s, v) ==
  /\ s.val[v].tokens \in Nat \ {0} /\ s.val[v].shares \in Nat \ {0}
  /\ s.com[v] \in Nat /\ s.out[v] \in Int
  /\ v \in DOMAIN s.cur /\ DelTyped(s) /\ SharedAt(s, v)

\* Together the delegations to v have no more stake than v has tokens.
LEMMA StakesFit ==
  ASSUME NEW s, NEW v, Sharing(s, v), NEW D, D = DelsTo(DOMAIN s.del, v),
         Recorded(s, v, DOMAIN s.del), \A k \in D : Fair(s, k),
         NEW t, t = [k \in D |-> LastOf(s, k).stake]
  PROVE  IsFiniteSet(D) /\ SumFunctionOnSet(t, D) \in 0 .. s.val[v].tokens
<1>1. PICK m, n : m = s.val[v].shares /\ n = s.val[v].tokens
  OBVIOUS
<1>2. m \in Nat \ {0} /\ n \in Nat \ {0}
  BY <1>1 DEF Sharing
<1>3. IsFiniteSet(D) /\ \A k \in D : s.del[k] \in Nat /\ k[2] = v
  <2>1. IsFiniteSet(DOMAIN s.del) /\ s.del \in [DOMAIN s.del -> Nat]
    BY DEF Sharing, DelTyped
  <2>2. D \subseteq DOMAIN s.del
    BY DEF DelsTo
  <2> QED BY <2>1, <2>2, FS_Subset DEF DelsTo
<1>4. \A k \in D : t[k] \in Nat
  BY OwedType DEF Stretch
<1>5. \A k \in D : t[k] * m <= s.del[k] * n
  BY <1>1, <1>3 DEF Fair
<1>6. SumFunctionOnSet(t, D) * m <= SumFunctionOnSet(s.del, D) * n
  <2>1. \A k \in D : t[k] \in Int /\ s.del[k] \in Int /\ t[k] * m <= s.del[k] * n
    BY <1>3, <1>4, <1>5
  <2>2. m \in Int /\ n \in Int
    BY <1>2
  <2>3. PICK e : e = s.del
    OBVIOUS
  <2> QED BY ONLY <1>3, <2>1, <2>2, <2>3, SumScaled
<1>7. SumFunctionOnSet(s.del, D) = m
  <2>1. D = DelsOf(s, v)
    BY DEF DelsTo, DelsOf
  <2> QED BY <1>1, <2>1 DEF Sharing, SharedAt
<1>8. PICK g : g = SumFunctionOnSet(t, D)
  OBVIOUS
<1>9. g \in Nat
  BY <1>3, <1>4, <1>8, SumNatural
<1>10. g <= n
  <2>1. g * m <= m * n
    BY <1>6, <1>7, <1>8
  <2>2. ASSUME g > n PROVE FALSE
    <3>1. PICK e \in Nat \ {0} : g = n + e
      <4>1. g - n \in Nat \ {0} /\ g = n + (g - n)
        BY <1>2, <1>9, <2>2
      <4> QED BY <4>1
    <3>2. (n + e) * m = n * m + e * m /\ n * m \in Int /\ e * m \in Int /\ m * n = n * m
      BY <1>2, ProductAdds
    <3>3. e * m > 0
      BY <1>2
    <3> QED BY <2>1, <3>1, <3>2, <3>3
  <2> QED BY <1>2, <1>9, <2>2
<1> QED BY <1>1, <1>2, <1>3, <1>8, <1>9, <1>10
\* When a period ends its rewards cover what the delegations are given.
LEMMA EndSolvent ==
  ASSUME NEW s, NEW v, Sharing(s, v), Recorded(s, v, DOMAIN s.del),
         SolventAt(s, v, DOMAIN s.del), NEW x, x = IncrementValidatorPeriod(s, v)
  PROVE  /\ SolventAt(x, v, DOMAIN s.del) /\ Recorded(x, v, DOMAIN s.del)
         /\ x.cur[v].rewards = 0 /\ SameBut(s, x, {"hist", "cur"})
<1>1. PICK D, n, g, r : /\ D = DelsTo(DOMAIN s.del, v) /\ n = s.val[v].tokens
                        /\ g = Growth(s, v) /\ r = s.cur[v].rewards
  OBVIOUS
<1>2. n \in Nat \ {0} /\ MayEnd(s, v) /\ v \in DOMAIN s.cur
  BY <1>1, TokensMayEnd DEF Sharing
<1>3. /\ HistTyped(s) /\ RefsOK(s, v, DOMAIN s.del) /\ PeriodOK(s, v)
  BY DEF Recorded, RefsOK
<1>4. /\ SameBut(s, x, {"hist", "cur"})
      /\ x.cur = [s.cur EXCEPT ![v] = [rewards |-> 0, period |-> s.cur[v].period + 1]]
  BY <1>2, <1>3, PeriodRefs
<1>5. x.cur[v].rewards = 0 /\ x.com = s.com /\ x.out = s.out /\ x.val = s.val /\ x.del = s.del
  BY <1>2, <1>4 DEF SameBut, StoreFields
<1>6. Recorded(x, v, DOMAIN s.del)
      /\ \A k \in D : /\ LastOf(x, k) = LastOf(s, k)
                      /\ Owed(x, k) = Owed(s, k) + LastOf(s, k).stake * g
  BY <1>1, <1>2, OwedEnds
<1>7. g \in Nat /\ r \in Nat /\ g = r \div n
  BY <1>1, <1>2, <1>3, GrowthType DEF Growth, PeriodOK
<1>8. PICK f, e, t : /\ f = [k \in D |-> Owed(s, k)] /\ e = [k \in D |-> Owed(x, k)]
                     /\ t = [k \in D |-> LastOf(s, k).stake]
  OBVIOUS
<1>9. \A k \in D : Fair(s, k)
  BY <1>1 DEF SolventAt
<1>10. IsFiniteSet(D) /\ SumFunctionOnSet(t, D) \in 0 .. n
  BY <1>1, <1>8, <1>9, StakesFit
<1>11. \A k \in D : f[k] \in Int /\ t[k] \in Nat /\ e[k] = f[k] + t[k] * g
  <2>1. \A k \in D : LastOf(s, k) \in Stretch /\ Owed(s, k) \in Int
    BY <1>1, OwedType
  <2> QED BY <1>6, <1>8, <2>1 DEF Stretch
<1>12. SumFunctionOnSet(e, D) = SumFunctionOnSet(f, D) + SumFunctionOnSet(t, D) * g
       /\ SumFunctionOnSet(f, D) \in Int
  <2>1. \A k \in D : f[k] \in Int /\ t[k] \in Int /\ e[k] = f[k] + t[k] * g
    BY <1>11
  <2>2. g \in Int
    BY <1>7
  <2>3. SumFunctionOnSet(f, D) \in Int
    BY <1>10, <2>1, SumRemove
  <2>4. SumFunctionOnSet(e, D) = SumFunctionOnSet(f, D) + SumFunctionOnSet(t, D) * g
    BY ONLY <1>10, <2>1, <2>2, SumGrown
  <2> QED BY <2>3, <2>4
<1>13. PICK a, b, q : a = SumFunctionOnSet(f, D) /\ b = SumFunctionOnSet(t, D) /\ q = b * g
  OBVIOUS
<1>14. q \in Int /\ q <= r
  <2>1. b \in Nat /\ n - b \in Nat
    BY <1>2, <1>10, <1>13
  <2>2. n * g <= r
    BY <1>2, <1>7
  <2>3. PICK c \in Nat : n = b + c
    <3>1. n = b + (n - b)
      BY <1>2, <2>1
    <3> QED BY <2>1, <3>1
  <2>4. (b + c) * g = b * g + c * g /\ b * g \in Int /\ c * g \in Int
    BY <1>7, <2>1, ProductAdds
  <2>5. c * g >= 0
    BY <1>7
  <2>6. PICK y : y = c * g
    OBVIOUS
  <2>7. n * g = q + y /\ q \in Int /\ y \in Int /\ y >= 0
    BY <1>13, <2>3, <2>4, <2>5, <2>6
  <2> QED BY <1>7, <2>2, <2>7
<1>15. Covered(x, v, DOMAIN s.del)
  <2>1. OwedBy(s, v, DOMAIN s.del) = a /\ OwedBy(x, v, DOMAIN s.del) = a + q /\ a \in Int
    BY <1>1, <1>8, <1>12, <1>13 DEF OwedBy
  <2>2. s.com[v] + r + a <= s.out[v]
    BY <1>1, <2>1 DEF SolventAt, Covered
  <2>3. s.com[v] \in Int /\ s.out[v] \in Int
    BY DEF Sharing
  <2>4. s.com[v] + 0 + (a + q) <= s.out[v]
    BY <1>7, <1>14, <2>1, <2>2, <2>3
  <2> QED BY <1>5, <2>1, <2>4 DEF Covered
<1>16. ASSUME NEW k \in D PROVE Fair(x, k)
  <2>1. PICK o, u, z : o = Owed(s, k) /\ u = LastOf(s, k).stake /\ z = u * g
    OBVIOUS
  <2>2. o \in Int /\ u \in Nat /\ o >= 0 /\ Owed(x, k) = o + z
    BY <1>6, <1>8, <1>9, <1>11, <2>1 DEF Fair
  <2>3. z \in Int /\ z >= 0
    <3>1. z \in Int
      BY <1>7, <2>1, <2>2, ProductType
    <3>2. u * g >= 0
      BY <1>7, <2>2
    <3> QED BY <2>1, <3>1, <3>2
  <2>4. Owed(x, k) >= 0
    BY <2>2, <2>3
  <2> QED BY <1>5, <1>6, <1>9, <2>4 DEF Fair
<1> QED BY <1>1, <1>4, <1>5, <1>6, <1>15, <1>16 DEF SolventAt
\* What a withdrawal would give k now.
Full(s, k) == Owed(IncrementValidatorPeriod(s, k[2]), k)

\* It is what the end of the period leaves it with.
LEMMA FullRewards ==
  ASSUME NEW s, NEW v, NEW d, s.cur[v].period \in Nat, NEW k, k = <<d, v>>,
         NEW y, y = IncrementValidatorPeriod(s, v),
         y.cur[v].period = s.cur[v].period + 1
  PROVE  Full(s, k) = Owed(y, k) /\ Rewards(y, d, v, s.cur[v].period) = Full(s, k)
<1>1. k[1] = d /\ k[2] = v /\ y.cur[v].period - 1 = s.cur[v].period
  OBVIOUS
<1>2. Full(s, k) = Owed(y, k)
  BY <1>1 DEF Full
<1> QED BY <1>1, <1>2 DEF Rewards, Owed, LastOf

\* A withdrawal gives all that is owed, and what it leaves covers the others.
LEMMA WithdrawSolvent ==
  ASSUME NEW s, NEW v, Sharing(s, v), NEW K, K = DOMAIN s.del, K \subseteq DOMAIN s.start,
         Recorded(s, v, K), SolventAt(s, v, K), NEW d, NEW k, k = <<d, v>>, k \in K,
         v \in DOMAIN s.out, NEW x, x = Withdraw(s, d, v)
  PROVE  /\ Reward(s, d, v) = Full(s, k)
         /\ SolventAt(x, v, K \ {k}) /\ Recorded(x, v, K \ {k})
         /\ \A l \in DelsTo(K \ {k}, v) : Owed(x, l) = Full(s, l)
         /\ x.cur[v].rewards = 0
<1>1. PICK n, y, D, E : /\ n = s.cur[v].period /\ y = IncrementValidatorPeriod(s, v)
                        /\ D = DelsTo(K, v) /\ E = DelsTo(K \ {k}, v)
  OBVIOUS
<1>2. v \in DOMAIN s.cur /\ s.val[v].tokens \in Nat \ {0} /\ MayEnd(s, v)
      /\ s.com[v] \in Nat /\ s.out[v] \in Int /\ DelTyped(s)
  BY TokensMayEnd DEF Sharing
<1>3. HistTyped(s) /\ RefsOK(s, v, K) /\ n \in Nat
  BY <1>1, LastKept DEF Recorded
<1>4. /\ SolventAt(y, v, K) /\ Recorded(y, v, K) /\ SameBut(s, y, {"hist", "cur"})
      /\ y.cur[v].rewards = 0
  BY <1>1, EndSolvent
<1>5. y.cur = [s.cur EXCEPT ![v] = [rewards |-> 0, period |-> n + 1]]
  BY <1>1, <1>2, <1>3, PeriodRefs
<1>6. y.cur[v].period = n + 1 /\ y.com = s.com /\ y.out = s.out /\ y.slash = s.slash
      /\ y.start = s.start /\ y.val = s.val /\ y.del = s.del
  BY <1>2, <1>4, <1>5 DEF SameBut, StoreFields
<1>7. \A l \in D : l = <<l[1], v>> /\ Full(s, l) = Owed(y, l)
  <2> TAKE l \in D
  <2>1. l = <<l[1], v>> /\ l[2] = v
    BY <1>1, <1>4 DEF Recorded, DelsTo
  <2> QED BY <1>1, <2>1 DEF Full
<1>8. Rewards(y, d, v, n) = Full(s, k)
  BY <1>1, <1>3, <1>6, FullRewards
<1>9. Withdrawn(s, x, d, v, n, K)
  BY ONLY <1>1, <1>2, <1>3, k = <<d, v>>, k \in K, K \subseteq DOMAIN s.start,
          x = Withdraw(s, d, v), WithdrawRefs
<1>10. /\ HistTyped(x) /\ RefsOK(x, v, K \ {k}) /\ x.cur = y.cur /\ Paid(s, x, d, v)
       /\ x.start = Drop(s.start, k) /\ EndedRatios(s, x, v)
  BY <1>5, <1>9 DEF Withdrawn
<1>11. x.com = s.com /\ x.slash = y.slash /\ x.val = s.val /\ x.del = s.del
  BY <1>6, <1>9 DEF Withdrawn, SameBut, StoreFields
<1>12. E = D \ {k} /\ k \in D
  BY <1>1 DEF DelsTo
<1>13. \A l \in E : x.start[l] = y.start[l] /\ l \in K \ {k}
  <2>1. \A l \in E : l \in K /\ l # k
    BY <1>1 DEF DelsTo
  <2> QED BY <1>6, <1>10, <2>1 DEF Drop
<1>14. Recorded(x, v, K \ {k})
  BY <1>1, <1>4, <1>10, <1>12, <1>13 DEF Recorded
<1>15. RatiosKept(y, x, v)
  BY <1>1, <1>10 DEF EndedRatios, RatiosKept
<1>16. ASSUME NEW l \in E PROVE LastOf(x, l) = LastOf(y, l) /\ Owed(x, l) = Owed(y, l)
  <2>1. l \in DelsTo(K, v) /\ l \in K \ {k} /\ x.start[l] = y.start[l]
    BY <1>1, <1>12, <1>13
  <2> QED BY <1>4, <1>10, <1>11, <1>14, <1>15, <2>1, OwedKept
<1>17. PICK f, e : f = [l \in D |-> Owed(y, l)] /\ e = [l \in E |-> Owed(x, l)]
  OBVIOUS
<1>18. IsFiniteSet(D) /\ IsFiniteSet(E) /\ \A l \in D : f[l] \in Nat
  <2>1. IsFiniteSet(D)
    <3>1. D \subseteq K /\ IsFiniteSet(K)
      BY <1>1, <1>2 DEF DelsTo, DelTyped
    <3> QED BY <3>1, FS_Subset
  <2>2. ASSUME NEW l \in D PROVE f[l] \in Nat
    <3>1. Owed(y, l) \in Int /\ Owed(y, l) >= 0
      BY <1>1, <1>4, OwedType DEF SolventAt, Fair
    <3> QED BY <1>17, <3>1
  <2>3. IsFiniteSet(E)
    BY <1>12, <2>1, FS_Subset
  <2> QED BY <2>1, <2>2, <2>3
<1>19. PICK a, o, w : /\ a = SumFunctionOnSet(f, E) /\ o = Owed(y, k)
                      /\ w = SumFunctionOnSet(f, D)
  OBVIOUS
<1>20. a \in Nat /\ o \in Nat /\ w = o + a
  <2>1. \A l \in E : f[l] \in Nat
    BY <1>12, <1>18
  <2>2. a \in Nat
    BY <1>18, <1>19, <2>1, SumNatural
  <2>3. \A l \in D : f[l] \in Int
    BY <1>18
  <2>4. SumFunctionOnSet(f, D) = f[k] + SumFunctionOnSet(f, D \ {k})
    BY <1>12, <1>18, <2>3, SumRemove
  <2>5. f[k] = o /\ f[k] \in Nat
    BY <1>12, <1>17, <1>18, <1>19
  <2> QED BY <1>12, <1>19, <2>2, <2>4, <2>5
<1>21. s.com[v] + o + a <= s.out[v]
  <2>1. OwedBy(y, v, K) = w
    BY <1>1, <1>17, <1>19 DEF OwedBy
  <2>2. s.com[v] + 0 + w <= s.out[v]
    BY <1>4, <1>6, <2>1 DEF SolventAt, Covered
  <2> QED BY <1>2, <1>20, <2>2
<1>22. Reward(s, d, v) = o /\ o = Full(s, k)
  <2>1. o = Full(s, k)
    BY <1>7, <1>12, <1>19
  <2>2. Reward(s, d, v) = Least(o, s.out[v])
    BY <1>1, <1>8, <2>1 DEF Reward
  <2>3. o <= s.out[v]
    BY <1>2, <1>20, <1>21
  <2> QED BY <2>1, <2>2, <2>3 DEF Least
<1>23. x.out[v] = s.out[v] - o
  <2>1. x.out = [s.out EXCEPT ![v] = s.out[v] - o]
    BY <1>10, <1>22 DEF Paid
  <2> QED BY <2>1
<1>24. Covered(x, v, K \ {k})
  <2>1. OwedBy(x, v, K \ {k}) = a
    <3>1. \A l \in E : f[l] \in Int /\ e[l] = f[l]
      BY <1>12, <1>16, <1>17, <1>18
    <3>2. SumFunctionOnSet(e, E) = SumFunctionOnSet(f, E)
      BY ONLY <1>18, <3>1, SumSame
    <3> QED BY <1>1, <1>17, <1>19, <3>2 DEF OwedBy
  <2>2. x.cur[v].rewards = 0
    BY <1>4, <1>10
  <2>3. s.com[v] + 0 + a <= s.out[v] - o
    BY <1>2, <1>20, <1>21
  <2> QED BY <1>11, <1>23, <2>1, <2>2, <2>3 DEF Covered
<1>25. ASSUME NEW l \in E PROVE Fair(x, l) /\ Owed(x, l) = Full(s, l)
  <2>1. l \in D /\ Fair(y, l)
    BY <1>1, <1>4, <1>12 DEF SolventAt
  <2> QED BY <1>6, <1>7, <1>11, <1>16, <2>1 DEF Fair
<1> QED BY <1>1, <1>4, <1>10, <1>14, <1>22, <1>24, <1>25 DEF SolventAt
\* A delegation starts with no more than its share.
LEMMA StartFair ==
  ASSUME NEW a \in Nat, NEW b \in Nat, NEW c \in Nat \ {0}
  PROVE  (a * b) \div c \in Nat /\ ((a * b) \div c) * c <= a * b
<1>1. PICK p : p = a * b
  OBVIOUS
<1>2. p \in Nat
  BY <1>1
<1>3. p \div c \in Nat /\ (p \div c) * c <= p
  BY <1>2
<1> QED BY <1>1, <1>3

\* A delegation that starts is owed nothing, and the others what they were.
LEMMA StartSolvent ==
  ASSUME NEW s, NEW v, NEW K, Recorded(s, v, K), SolventAt(s, v, K), IsFiniteSet(K),
         K \subseteq DOMAIN s.start, NEW d, NEW k, k = <<d, v>>, k \notin K,
         s.del[k] \in Nat, s.val[v].tokens \in Nat, s.val[v].shares \in Nat \ {0},
         HistOf(s, v, s.cur[v].period - 1).refs = 1,
         NEW height \in 0 .. 1, NEW x, x = AfterDelegationModified(s, d, v, height)
  PROVE  /\ SolventAt(x, v, K \cup {k}) /\ Recorded(x, v, K \cup {k})
         /\ \A l \in DelsTo(K, v) : Owed(x, l) = Owed(s, l)
         /\ SameBut(s, x, {"hist", "start"})
<1>1. PICK p, t, D, E : /\ p = s.cur[v].period - 1 /\ t = Stake(s, d, v)
                        /\ D = DelsTo(K, v) /\ E = DelsTo(K \cup {k}, v)
  OBVIOUS
<1>2. HistTyped(s) /\ RefsOK(s, v, K) /\ p \in Nat
  BY <1>1 DEF Recorded, RefsOK, PeriodOK
<1>3. /\ HistTyped(x) /\ SameBut(s, x, {"hist", "start"})
      /\ x.start = Put(s.start, k, [prev |-> p, stake |-> t, height |-> height])
      /\ \A w, q : HistOf(x, w, q) =
           IF w = v /\ q = p THEN [ratio |-> HistOf(s, v, p).ratio, refs |-> 2]
           ELSE HistOf(s, w, q)
      /\ RefsOK(x, v, K \cup {k})
  BY ONLY <1>1, <1>2, k = <<d, v>>, k \notin K, K \subseteq DOMAIN s.start,
     HistOf(s, v, s.cur[v].period - 1).refs = 1,
     x = AfterDelegationModified(s, d, v, height), StartRefs
<1>4. /\ x.cur = s.cur /\ x.slash = s.slash /\ x.val = s.val /\ x.del = s.del
      /\ x.com = s.com /\ x.out = s.out
  BY <1>3 DEF SameBut, StoreFields
<1>5. E = D \cup {k} /\ k \notin D /\ k \in E /\ k[2] = v
  BY <1>1 DEF DelsTo
<1>6. t \in Nat /\ t * s.val[v].shares <= s.del[k] * s.val[v].tokens
  BY <1>1, StartFair DEF Stake
<1>7. x.start[k] = [prev |-> p, stake |-> t, height |-> height]
      /\ \A l \in D : x.start[l] = s.start[l] /\ l \in K
  BY <1>1, <1>3, <1>5 DEF Put, DelsTo
<1>8. Recorded(x, v, K \cup {k})
  <2>1. x.start[k] \in StartType
    BY <1>2, <1>6, <1>7 DEF StartType
  <2>2. ASSUME NEW l \in E PROVE l = <<l[1], v>> /\ x.start[l] \in StartType
    <3>1. CASE l = k
      BY <2>1, <3>1
    <3>2. CASE l \in D
      BY <1>1, <1>7, <3>2 DEF Recorded
    <3> QED BY <1>5, <3>1, <3>2
  <2> QED BY <1>1, <1>3, <2>2 DEF Recorded
<1>9. RatiosKept(s, x, v)
  BY <1>3 DEF RatiosKept
<1>10. ASSUME NEW l \in D PROVE LastOf(x, l) = LastOf(s, l) /\ Owed(x, l) = Owed(s, l)
  <2>1. l \in DelsTo(K, v) /\ l \in K \cup {k} /\ x.start[l] = s.start[l]
    BY <1>1, <1>7
  <2> QED BY <1>4, <1>8, <1>9, <2>1, OwedKept
<1>11. LastOf(x, k).stake = t /\ Owed(x, k) = 0
  <2>1. k \in DelsTo(K \cup {k}, v) /\ x.start[k].prev = x.cur[v].period - 1
    BY <1>1, <1>4, <1>5, <1>7
  <2> QED BY <1>7, <1>8, <2>1, OwedStarts
<1>12. PICK f, e : f = [l \in D |-> Owed(s, l)] /\ e = [l \in E |-> Owed(x, l)]
  OBVIOUS
<1>13. IsFiniteSet(E) /\ \A l \in E : e[l] \in Int
  <2>1. E \subseteq K \cup {k} /\ IsFiniteSet(K \cup {k})
    BY <1>1, FS_AddElement DEF DelsTo
  <2>2. IsFiniteSet(E)
    BY <2>1, FS_Subset
  <2>3. \A l \in E : Owed(x, l) \in Int
    BY <1>1, <1>8, OwedType
  <2> QED BY <1>12, <2>2, <2>3
<1>14. SumFunctionOnSet(e, E) = SumFunctionOnSet(f, D)
  <2>1. SumFunctionOnSet(e, E) = e[k] + SumFunctionOnSet(e, E \ {k})
    BY <1>5, <1>13, SumRemove
  <2>2. E \ {k} = D /\ e[k] = 0 /\ IsFiniteSet(D)
    BY <1>5, <1>11, <1>12, <1>13, FS_Subset
  <2>3. \A l \in D : f[l] \in Int /\ e[l] = f[l]
    BY <1>5, <1>10, <1>12, <1>13
  <2>4. SumFunctionOnSet(e, D) = SumFunctionOnSet(f, D)
    BY ONLY <2>2, <2>3, SumSame
  <2>5. SumFunctionOnSet(e, D) \in Int
    BY <1>5, <1>13, <2>2, SumRemove
  <2>6. SumFunctionOnSet(e, E) = 0 + SumFunctionOnSet(e, D)
    BY ONLY <2>1, <2>2
  <2>7. PICK w : w = SumFunctionOnSet(e, D)
    OBVIOUS
  <2>8. w = SumFunctionOnSet(f, D) /\ w \in Int
    BY ONLY <2>4, <2>5, <2>7
  <2>9. SumFunctionOnSet(e, E) = w
    BY ONLY <2>6, <2>7, <2>8
  <2> QED BY ONLY <2>8, <2>9
<1>15. Covered(x, v, K \cup {k})
  <2>1. OwedBy(x, v, K \cup {k}) = OwedBy(s, v, K)
    BY <1>1, <1>12, <1>14 DEF OwedBy
  <2> QED BY <1>4, <2>1 DEF SolventAt, Covered
<1>16. ASSUME NEW l \in E PROVE Fair(x, l)
  <2>1. CASE l = k
    BY <1>4, <1>5, <1>6, <1>11, <2>1 DEF Fair
  <2>2. CASE l \in D
    BY <1>1, <1>4, <1>10, <2>2 DEF Fair, SolventAt
  <2> QED BY <1>5, <2>1, <2>2
<1> QED BY <1>1, <1>3, <1>8, <1>10, <1>15, <1>16 DEF SolventAt

-----------------------------------------------------------------------------
(***************************************************************************)
(* What a step leaves of the solvency of a validator.                      *)
(***************************************************************************)
\* The records of v and of its delegations, K in s and L in x, are the same but
\* for who else refers to a ratio.
Kept(s, x, v, K, L) ==
  /\ Recorded(s, v, K) /\ Recorded(x, v, L) /\ DelsTo(L, v) = DelsTo(K, v)
  /\ \A k \in DelsTo(K, v) : x.start[k] = s.start[k]
  /\ RatiosKept(s, x, v)
  /\ x.slash[v] = s.slash[v] /\ x.cur[v].period = s.cur[v].period

\* Then what is owed is the same.
LEMMA OwedSame ==
  ASSUME NEW s, NEW x, NEW v, NEW K, NEW L, Kept(s, x, v, K, L)
  PROVE  /\ \A k \in DelsTo(K, v) : LastOf(x, k) = LastOf(s, k) /\ Owed(x, k) = Owed(s, k)
         /\ OwedBy(x, v, L) = OwedBy(s, v, K)
<1>1. ASSUME NEW k \in DelsTo(K, v)
      PROVE  LastOf(x, k) = LastOf(s, k) /\ Owed(x, k) = Owed(s, k)
  <2>1. k \in L /\ x.start[k] = s.start[k]
    BY DEF Kept, DelsTo
  <2> QED BY <2>1, OwedKept DEF Kept
<1>2. DelsTo(L, v) = DelsTo(K, v)
  BY DEF Kept
<1> QED BY <1>1, <1>2 DEF OwedBy

\* What v owes is a number.
LEMMA OwedByType ==
  ASSUME NEW s, NEW v, NEW K, Recorded(s, v, K), IsFiniteSet(K)
  PROVE  /\ OwedBy(s, v, K) \in Int
         /\ (\A k \in DelsTo(K, v) : Fair(s, k)) => OwedBy(s, v, K) >= 0
<1>1. PICK D, f : D = DelsTo(K, v) /\ f = [k \in D |-> Owed(s, k)]
  OBVIOUS
<1>2. IsFiniteSet(D)
  <2>1. D \subseteq K
    BY <1>1 DEF DelsTo
  <2> QED BY <2>1, FS_Subset
<1>3. OwedBy(s, v, K) = SumFunctionOnSet(f, D)
  BY <1>1 DEF OwedBy
<1>4. \A k \in D : f[k] \in Int
  BY <1>1, OwedType
<1>5. SumFunctionOnSet(f, D) \in Int
  BY <1>2, <1>4, SumRemove
<1>6. ASSUME \A k \in DelsTo(K, v) : Fair(s, k) PROVE OwedBy(s, v, K) >= 0
  <2>1. \A k \in D : f[k] \in Nat
    BY <1>1, <1>4, <1>6 DEF Fair
  <2>2. SumFunctionOnSet(f, D) \in Nat
    BY <1>2, <2>1, SumNatural
  <2> QED BY <1>3, <2>2
<1> QED BY <1>3, <1>5, <1>6

\* What comes in or goes out is commission or rewards, and the stakes stay within
\* their shares.
LEMMA SolventShift ==
  ASSUME NEW s, NEW x, NEW v, NEW K, NEW L, Kept(s, x, v, K, L), SolventAt(s, v, K),
         IsFiniteSet(K), s.com[v] \in Int, s.out[v] \in Int,
         NEW c \in Int, NEW r \in Int,
         x.com[v] = s.com[v] + c, x.cur[v].rewards = s.cur[v].rewards + r,
         x.out[v] = s.out[v] + (c + r),
         \A k \in DelsTo(K, v) :
           LastOf(s, k).stake * x.val[v].shares <= x.del[k] * x.val[v].tokens
  PROVE  SolventAt(x, v, L)
<1>1. s.cur[v].rewards \in Int
  BY DEF Kept, Recorded, RefsOK, PeriodOK
<1>2. PICK a, b, e, w : a = s.com[v] /\ b = s.cur[v].rewards /\ e = s.out[v]
                        /\ w = OwedBy(s, v, K)
  OBVIOUS
<1>3. w \in Int /\ a \in Int /\ b \in Int /\ e \in Int
  BY <1>1, <1>2, OwedByType DEF Kept
<1>4. OwedBy(x, v, L) = w
  BY <1>2, OwedSame
<1>5. a + b + w <= e
  BY <1>2 DEF SolventAt, Covered
<1>6. (a + c) + (b + r) + w <= e + (c + r)
  BY <1>3, <1>5
<1>7. Covered(x, v, L)
  BY <1>2, <1>4, <1>6 DEF Covered
<1>8. ASSUME NEW k \in DelsTo(L, v) PROVE Fair(x, k)
  <2>1. k \in DelsTo(K, v) /\ k[2] = v
    BY DEF Kept, DelsTo
  <2>2. LastOf(x, k) = LastOf(s, k) /\ Owed(x, k) = Owed(s, k)
    BY <2>1, OwedSame
  <2>3. Owed(s, k) >= 0
    BY <2>1 DEF SolventAt, Fair
  <2> QED BY <2>1, <2>2, <2>3 DEF Fair
<1> QED BY <1>7, <1>8 DEF SolventAt

\* Outstanding rewards that cover what is owed are not negative.
LEMMA SolventOut ==
  ASSUME NEW s, NEW v, NEW K, Recorded(s, v, K), IsFiniteSet(K), SolventAt(s, v, K),
         s.com[v] \in Nat, s.out[v] \in Int
  PROVE  s.out[v] >= s.com[v]
<1>1. PICK b, w : b = s.cur[v].rewards /\ w = OwedBy(s, v, K)
  OBVIOUS
<1>2. b \in Nat
  BY <1>1 DEF Recorded, RefsOK, PeriodOK
<1>3. w \in Int /\ w >= 0
  BY <1>1, OwedByType DEF SolventAt
<1>4. s.com[v] + b + w <= s.out[v]
  BY <1>1 DEF SolventAt, Covered
<1> QED BY <1>2, <1>3, <1>4

\* What a withdrawal would give is what is owed and what the period has gained.
LEMMA FullIs ==
  ASSUME NEW s, NEW v, NEW K, Recorded(s, v, K), v \in DOMAIN s.cur, MayEnd(s, v),
         NEW k \in DelsTo(K, v)
  PROVE  Full(s, k) = Owed(s, k) + LastOf(s, k).stake * Growth(s, v)
<1>1. k[2] = v
  BY DEF DelsTo
<1> QED BY <1>1, OwedEnds DEF Full

\* It depends on the records, the rewards and the tokens only.
LEMMA FullSame ==
  ASSUME NEW s, NEW x, NEW v, NEW K, NEW L, Kept(s, x, v, K, L),
         v \in DOMAIN s.cur, MayEnd(s, v), v \in DOMAIN x.cur, MayEnd(x, v),
         x.cur[v].rewards = s.cur[v].rewards, x.val[v].tokens = s.val[v].tokens,
         NEW k \in DelsTo(K, v)
  PROVE  Full(x, k) = Full(s, k)
<1>1. Full(s, k) = Owed(s, k) + LastOf(s, k).stake * Growth(s, v)
  BY FullIs DEF Kept
<1>2. k \in DelsTo(L, v)
  BY DEF Kept
<1>3. Full(x, k) = Owed(x, k) + LastOf(x, k).stake * Growth(x, v)
  BY <1>2, FullIs DEF Kept
<1>4. Growth(x, v) = Growth(s, v)
  BY DEF Growth
<1> QED BY <1>1, <1>3, <1>4, OwedSame

\* A step at v leaves the other validators of W and the delegations of K to them.
Elsewhere(s, x, v, W, K) ==
  /\ HistTyped(x)
  /\ \A w \in W : w # v =>
       /\ x.cur[w] = s.cur[w] /\ x.slash[w] = s.slash[w]
       /\ x.com[w] = s.com[w] /\ x.out[w] = s.out[w]
       /\ x.val[w].tokens = s.val[w].tokens /\ x.val[w].shares = s.val[w].shares
       /\ \A p \in Nat : HistOf(x, w, p) = HistOf(s, w, p)
  /\ \A k \in K : k[2] # v => x.start[k] = s.start[k] /\ x.del[k] = s.del[k]

\* Two steps at v do.
LEMMA ElsewhereTwice ==
  ASSUME NEW s, NEW y, NEW x, NEW v, NEW W, NEW K,
         Elsewhere(s, y, v, W, K), Elsewhere(y, x, v, W, K)
  PROVE  Elsewhere(s, x, v, W, K)
BY DEF Elsewhere

\* The records of the others are kept.
LEMMA ElsewhereKept ==
  ASSUME NEW s, NEW x, NEW v, NEW W, NEW K, Elsewhere(s, x, v, W, K),
         NEW w \in W, w # v, Recorded(s, w, K),
         NEW L, DelsTo(L, w) = DelsTo(K, w)
  PROVE  SameAt(s, x, w, K, L) /\ StakedSame(s, x, w, K) /\ Kept(s, x, w, K, L)
<1>1. SameAt(s, x, w, K, L)
  BY DEF SameAt, Elsewhere, DelsTo
<1>2. StakedSame(s, x, w, K)
  BY DEF StakedSame, Elsewhere, DelsTo
<1>3. RefsOK(x, w, L)
  BY <1>1, RefsSame DEF Recorded
<1>4. Recorded(x, w, L)
  BY <1>1, <1>3 DEF Recorded, SameAt, DelsTo, Elsewhere
<1>5. RatiosKept(s, x, w)
  BY <1>1 DEF RatiosKept, SameAt
<1> QED BY <1>1, <1>2, <1>4, <1>5 DEF Kept, SameAt, DelsTo

\* The others stay solvent.
LEMMA ElsewhereSolvent ==
  ASSUME NEW s, NEW x, NEW v, NEW W, NEW K, Elsewhere(s, x, v, W, K),
         NEW w \in W, w # v, Recorded(s, w, K), SolventAt(s, w, K),
         NEW L, DelsTo(L, w) = DelsTo(K, w)
  PROVE  SolventAt(x, w, L)
<1>1. SameAt(s, x, w, K, L) /\ StakedSame(s, x, w, K)
  BY ElsewhereKept
<1>2. HistTyped(x) /\ x.com[w] = s.com[w] /\ x.out[w] = s.out[w]
  BY DEF Elsewhere
<1> QED BY <1>1, <1>2, SolventSame

\* They are owed what they were.
LEMMA ElsewhereFull ==
  ASSUME NEW s, NEW x, NEW v, NEW W, NEW K, Elsewhere(s, x, v, W, K),
         NEW w \in W, w # v, Recorded(s, w, K), NEW L, DelsTo(L, w) = DelsTo(K, w),
         w \in DOMAIN s.cur, MayEnd(s, w), w \in DOMAIN x.cur, MayEnd(x, w),
         NEW k \in DelsTo(K, w)
  PROVE  Full(x, k) = Full(s, k)
<1>1. Kept(s, x, w, K, L)
  BY ElsewhereKept
<1>2. x.cur[w].rewards = s.cur[w].rewards /\ x.val[w].tokens = s.val[w].tokens
  BY DEF Elsewhere
<1> QED BY <1>1, <1>2, FullSame

\* A period that ends.
LEMMA EndElsewhere ==
  ASSUME NEW s, HistTyped(s), NEW v, v \in DOMAIN s.cur, NEW K, RefsOK(s, v, K), MayEnd(s, v),
         NEW W, W \subseteq DOMAIN s.cur, NEW x, x = IncrementValidatorPeriod(s, v)
  PROVE  Elsewhere(s, x, v, W, K)
<1>1. /\ HistTyped(x) /\ SameBut(s, x, {"hist", "cur"})
      /\ x.cur = [s.cur EXCEPT ![v] = [rewards |-> 0, period |-> s.cur[v].period + 1]]
      /\ \A w, q : HistOf(x, w, q) = Ended(s, v, w, q)
  BY PeriodRefs
<1>2. \A w \in W : w # v => x.cur[w] = s.cur[w]
  BY <1>1
<1>3. \A w, q : w # v => HistOf(x, w, q) = HistOf(s, w, q)
  BY <1>1 DEF Ended
<1>4. x.slash = s.slash /\ x.com = s.com /\ x.out = s.out /\ x.val = s.val
      /\ x.start = s.start /\ x.del = s.del
  BY <1>1 DEF SameBut, StoreFields
<1> QED BY <1>1, <1>2, <1>3, <1>4 DEF Elsewhere

\* A delegation that starts.
LEMMA StartElsewhere ==
  ASSUME NEW s, HistTyped(s), NEW v, NEW K, RefsOK(s, v, K), K \subseteq DOMAIN s.start,
         NEW d, NEW k, k = <<d, v>>, k \notin K, NEW L, L \subseteq DOMAIN s.start \cup {k},
         HistOf(s, v, s.cur[v].period - 1).refs = 1,
         NEW height, NEW W, NEW x, x = AfterDelegationModified(s, d, v, height)
  PROVE  Elsewhere(s, x, v, W, L)
<1>1. PICK p, t : p = s.cur[v].period - 1 /\ t = Stake(s, d, v)
  OBVIOUS
<1>2. /\ HistTyped(x) /\ SameBut(s, x, {"hist", "start"})
      /\ x.start = Put(s.start, k, [prev |-> p, stake |-> t, height |-> height])
      /\ \A w, q : HistOf(x, w, q) =
           IF w = v /\ q = p THEN [ratio |-> HistOf(s, v, p).ratio, refs |-> 2]
           ELSE HistOf(s, w, q)
      /\ RefsOK(x, v, K \cup {k})
  BY ONLY <1>1, HistTyped(s), RefsOK(s, v, K), k = <<d, v>>, k \notin K, K \subseteq DOMAIN s.start,
     HistOf(s, v, s.cur[v].period - 1).refs = 1,
     x = AfterDelegationModified(s, d, v, height), StartRefs
<1>3. \A l \in L : l[2] # v => x.start[l] = s.start[l]
  BY <1>2 DEF Put
<1>4. x.slash = s.slash /\ x.com = s.com /\ x.out = s.out /\ x.val = s.val
      /\ x.cur = s.cur /\ x.del = s.del
  BY <1>2 DEF SameBut, StoreFields
<1> QED BY <1>2, <1>3, <1>4 DEF Elsewhere

\* A withdrawal.
LEMMA WithdrawElsewhere ==
  ASSUME NEW s, HistTyped(s), NEW v, v \in DOMAIN s.cur, NEW K, RefsOK(s, v, K),
         K \subseteq DOMAIN s.start, s.val[v].tokens \in Nat \ {0},
         NEW d, <<d, v>> \in K, NEW W, W \subseteq DOMAIN s.cur, W \subseteq DOMAIN s.out,
         NEW x, x = Withdraw(s, d, v)
  PROVE  Elsewhere(s, x, v, W, K)
<1>1. PICK n : n = s.cur[v].period
  OBVIOUS
<1>2. Withdrawn(s, x, d, v, n, K)
  BY <1>1, WithdrawRefs
<1>3. \A w \in W : w # v => x.cur[w] = s.cur[w]
  BY <1>2 DEF Withdrawn
<1>4. \A w \in W : w # v => x.out[w] = s.out[w]
  <2>1. PICK r : x.out = [s.out EXCEPT ![v] = r]
    BY <1>2 DEF Withdrawn, Paid
  <2> QED BY <2>1
<1>5. \A k \in K : k[2] # v => x.start[k] = s.start[k]
  BY <1>2 DEF Withdrawn, Drop
<1>6. x.slash = s.slash /\ x.com = s.com /\ x.val = s.val /\ x.del = s.del
  BY <1>2 DEF Withdrawn, SameBut, StoreFields
<1>7. HistTyped(x) /\ \A w, q : w # v => HistOf(x, w, q) = HistOf(s, w, q)
  BY <1>2 DEF Withdrawn
<1> QED BY <1>3, <1>4, <1>5, <1>6, <1>7 DEF Elsewhere

-----------------------------------------------------------------------------
(***************************************************************************)
(* A chain that runs stays solvent.                                        *)
(***************************************************************************)
\* The records of a chain that runs.
LEMMA RunningRecorded ==
  ASSUME NEW s, NEW K, RunningWith(s, K), K \subseteq DOMAIN s.del, NEW v \in DOMAIN s.val
  PROVE  /\ Recorded(s, v, K) /\ MayEnd(s, v) /\ Sharing(s, v)
         /\ v \in DOMAIN s.out /\ v \in DOMAIN s.slash
         /\ IsFiniteSet(K) /\ K \subseteq DOMAIN s.start
<1>1. /\ s.val[v].tokens \in Nat \ {0} /\ s.val[v].shares \in Nat \ {0}
      /\ v \in DOMAIN s.cur /\ v \in DOMAIN s.slash /\ HistTyped(s) /\ RefsOK(s, v, K)
  BY RunningAt
<1>2. DelTyped(s) /\ SharedAt(s, v)
  BY DEF RunningWith, Shared
<1>3. s.com[v] \in Nat /\ s.out[v] \in Int /\ v \in DOMAIN s.out
  BY DEF RunningWith, Coins
<1>4. s.start \in [K -> StartType] /\ \A k \in K : k = <<k[1], k[2]>>
  BY DEF RunningWith, Keyed
<1>5. Recorded(s, v, K)
  BY <1>1, <1>4 DEF Recorded, DelsTo
<1>6. IsFiniteSet(K)
  BY <1>2, FS_Subset DEF DelTyped
<1> QED BY <1>1, <1>2, <1>3, <1>4, <1>5, <1>6, TokensMayEnd DEF Sharing

\* A chain that runs and can pay what it owes.
Settled(s) == Running(s) /\ Solvent(s, DOMAIN s.del)

\* It can after a step at v, if v can.
LEMMA SolventStep ==
  ASSUME NEW s, Settled(s), NEW x, NEW v, Elsewhere(s, x, v, DOMAIN s.val, DOMAIN s.del),
         DOMAIN x.val \subseteq DOMAIN s.val \cup {v},
         \A w \in DOMAIN s.val : w # v => DelsTo(DOMAIN x.del, w) = DelsTo(DOMAIN s.del, w),
         SolventAt(x, v, DOMAIN x.del)
  PROVE  Solvent(x, DOMAIN x.del)
<1>1. ASSUME NEW w \in DOMAIN s.val, w # v PROVE SolventAt(x, w, DOMAIN x.del)
  <2>1. Recorded(s, w, DOMAIN s.del) /\ SolventAt(s, w, DOMAIN s.del)
    BY RunningRecorded DEF Settled, Running, Solvent
  <2>2. DelsTo(DOMAIN x.del, w) = DelsTo(DOMAIN s.del, w)
    BY <1>1
  <2> QED BY <1>1, <2>1, <2>2, ElsewhereSolvent
<1> QED BY <1>1 DEF Solvent

\* Where the current period has no rewards, a withdrawal gives what is owed.
LEMMA FullOwed ==
  ASSUME NEW s, NEW v, NEW K, Recorded(s, v, K), v \in DOMAIN s.cur,
         s.val[v].tokens \in Nat \ {0}, s.cur[v].rewards = 0, NEW k \in DelsTo(K, v)
  PROVE  Full(s, k) = Owed(s, k)
<1>1. PICK t, g : t = LastOf(s, k).stake /\ g = Growth(s, v)
  OBVIOUS
<1>2. g = 0
  BY <1>1 DEF Growth
<1>3. t \in Int /\ Owed(s, k) \in Int
  BY <1>1, OwedType DEF Stretch
<1>4. t * g = 0
  BY <1>2, <1>3, ProductZero
<1>5. Full(s, k) = Owed(s, k) + t * g
  BY <1>1, TokensMayEnd, FullIs
<1> QED BY <1>3, <1>4, <1>5

\* A withdrawal gives a delegation all that it is owed, and the others are owed
\* what they were.
LEMMA RewardsSolvent ==
  ASSUME NEW s, Settled(s), NEW k \in DOMAIN s.del, NEW height \in 0 .. 1,
         NEW x, x = WithdrawDelegationRewards(s, k[1], k[2], height)
  PROVE  /\ Settled(x)
         /\ \A l \in DOMAIN s.del \ {k} : Full(x, l) = Full(s, l)
         /\ x.bal = [s.bal EXCEPT ![k[1]] = s.bal[k[1]] + Full(s, k) \div Unit]
<1>1. PICK d \in Account, v \in DOMAIN s.val : k = <<d, v>>
  BY DEF Settled, Running, RunningWith, Keyed
<1>2. k[1] = d /\ k[2] = v /\ <<d, v>> \in DOMAIN s.del /\ <<d, v>> \in DOMAIN s.start
  BY <1>1 DEF Settled, Running, RunningWith, Keyed
<1>3. PICK w, K, L : w = Withdraw(s, d, v) /\ K = DOMAIN s.del /\ L = K \ {k}
  OBVIOUS
<1>4. RunningWith(s, K) /\ k \in K /\ k = <<d, v>>
  BY <1>1, <1>3 DEF Settled, Running
<1>5. /\ RunningWith(w, L) /\ Paid(s, w, d, v)
      /\ SameBut(s, w, {"hist", "cur", "start", "held", "bal", "out", "pool"})
      /\ HistOf(w, v, w.cur[v].period - 1).refs = 1
  BY <1>3, <1>4, WithdrawRunning
<1>6. w.del = s.del /\ w.val = s.val /\ ~w.panic /\ DOMAIN w.start = L
  BY <1>5 DEF SameBut, StoreFields, RunningWith, Keyed
<1>7. x = AfterDelegationModified(w, d, v, height)
  BY <1>2, <1>3, <1>6 DEF WithdrawDelegationRewards
<1>8. Running(x) /\ x.del = s.del
  BY WithdrawRewardsRunning DEF Settled
<1>9. /\ Recorded(s, v, K) /\ Sharing(s, v) /\ v \in DOMAIN s.out
      /\ K \subseteq DOMAIN s.start /\ IsFiniteSet(K) /\ SolventAt(s, v, K)
  BY <1>3, <1>4, RunningRecorded DEF Settled, Solvent
<1>10. /\ Reward(s, d, v) = Full(s, k)
       /\ SolventAt(w, v, L) /\ Recorded(w, v, L)
       /\ \A l \in DelsTo(L, v) : Owed(w, l) = Full(s, l)
       /\ w.cur[v].rewards = 0
  BY <1>3, <1>4, <1>9, WithdrawSolvent
<1>11. L \cup {k} = K /\ k \notin L /\ L \subseteq DOMAIN w.start /\ IsFiniteSet(L)
  BY <1>3, <1>4, <1>6, <1>9, FS_Subset
<1>12. w.del[k] \in Nat /\ w.val[v].tokens \in Nat /\ w.val[v].shares \in Nat \ {0}
  BY <1>3, <1>4, <1>6, <1>9 DEF Sharing, DelTyped
<1>13. /\ SolventAt(x, v, L \cup {k}) /\ Recorded(x, v, L \cup {k})
       /\ \A l \in DelsTo(L, v) : Owed(x, l) = Owed(w, l)
       /\ SameBut(w, x, {"hist", "start"})
  <2>1. /\ Recorded(w, v, L) /\ SolventAt(w, v, L) /\ IsFiniteSet(L)
        /\ L \subseteq DOMAIN w.start /\ k = <<d, v>> /\ k \notin L
        /\ w.del[k] \in Nat /\ w.val[v].tokens \in Nat /\ w.val[v].shares \in Nat \ {0}
        /\ HistOf(w, v, w.cur[v].period - 1).refs = 1
    BY <1>4, <1>5, <1>10, <1>11, <1>12
  <2> QED BY ONLY <2>1, <1>7, height \in 0 .. 1, StartSolvent
<1>14. x.cur = w.cur /\ x.val = s.val /\ x.bal = w.bal
  BY <1>6, <1>13 DEF SameBut, StoreFields
<1>15. Elsewhere(s, x, v, DOMAIN s.val, K)
  <2>1. DOMAIN s.cur = DOMAIN s.val /\ DOMAIN s.out = DOMAIN s.val
    BY <1>4 DEF RunningWith, Keyed
  <2>2. Elsewhere(s, w, v, DOMAIN s.val, K)
    <3>1. HistTyped(s) /\ RefsOK(s, v, K) /\ v \in DOMAIN s.cur /\ s.val[v].tokens \in Nat \ {0}
      BY <1>9 DEF Recorded, Sharing
    <3> QED BY <1>3, <1>4, <1>9, <2>1, <3>1, WithdrawElsewhere
  <2>3. Elsewhere(w, x, v, DOMAIN s.val, K)
    <3>1. HistTyped(w) /\ RefsOK(w, v, L) /\ K \subseteq DOMAIN w.start \cup {k}
      BY <1>6, <1>10, <1>11 DEF Recorded
    <3> QED BY ONLY <1>4, <1>5, <1>7, <1>11, <3>1, StartElsewhere
  <2> QED BY <2>2, <2>3, ElsewhereTwice
<1>16. Settled(x)
  <2>1. SolventAt(x, v, DOMAIN x.del)
    BY <1>3, <1>8, <1>11, <1>13
  <2> QED BY <1>3, <1>8, <1>14, <1>15, <2>1, SolventStep DEF Settled
<1>17. ASSUME NEW l \in L PROVE Full(x, l) = Full(s, l)
  <2>1. PICK u \in DOMAIN s.val : l[2] = u
    BY <1>3, <1>4 DEF RunningWith, Keyed
  <2>2. RunningWith(x, K) /\ u \in DOMAIN x.val /\ K \subseteq DOMAIN x.del
        /\ l \in DelsTo(K, u)
    BY <1>3, <1>8, <1>14, <2>1 DEF Running, DelsTo
  <2>3. Recorded(s, u, K) /\ MayEnd(s, u) /\ u \in DOMAIN s.cur
    BY <1>3, <1>4, RunningRecorded DEF Sharing
  <2>4. Recorded(x, u, K) /\ MayEnd(x, u) /\ u \in DOMAIN x.cur /\ Sharing(x, u)
    BY <2>2, RunningRecorded DEF Sharing
  <2>5. CASE u = v
    <3>1. l \in DelsTo(L, v)
      BY <2>1, <2>5 DEF DelsTo
    <3>2. Owed(x, l) = Full(s, l)
      BY <1>10, <1>13, <3>1
    <3>3. Full(x, l) = Owed(x, l)
      BY <1>10, <1>14, <2>2, <2>4, <2>5, FullOwed DEF Sharing
    <3> QED BY <3>2, <3>3
  <2>6. CASE u # v
    BY <1>15, <2>2, <2>3, <2>4, <2>6, ElsewhereFull
  <2> QED BY <2>5, <2>6
<1>18. x.bal = [s.bal EXCEPT ![d] = s.bal[d] + Full(s, k) \div Unit]
  BY <1>5, <1>10, <1>14 DEF Paid
<1> QED BY <1>2, <1>3, <1>16, <1>17, <1>18

-----------------------------------------------------------------------------
(***************************************************************************)
(* Stakes and shares.                                                      *)
(***************************************************************************)
\* Products are numbers, and can be rearranged.
LEMMA Products ==
  \A a, b, c \in Int :
    /\ a * b \in Int /\ a * b = b * a /\ (a * b) * c = a * (b * c)
    /\ (a + b) * c = a * c + b * c /\ a * (b + c) = a * b + a * c
    /\ a * (b - c) = a * b - a * c
OBVIOUS

\* A product with a positive number is no smaller when a factor is no smaller.
LEMMA ProductOrder ==
  ASSUME NEW a \in Int, NEW b \in Int, NEW c \in Nat, a <= b
  PROVE  a * c <= b * c
<1>1. PICK e \in Nat : b = a + e
  <2>1. b - a \in Nat /\ b = a + (b - a)
    OBVIOUS
  <2> QED BY <2>1
<1>2. e * c \in Nat
  OBVIOUS
<1>3. (a + e) * c = a * c + e * c /\ a * c \in Int
  BY ProductAdds
<1>4. PICK p, q : p = a * c /\ q = e * c
  OBVIOUS
<1>5. p <= p + q
  BY <1>2, <1>3, <1>4
<1> QED BY <1>1, <1>3, <1>4, <1>5

\* And the other way.
LEMMA ProductCancel ==
  ASSUME NEW a \in Int, NEW b \in Int, NEW c \in Nat \ {0}, a * c <= b * c
  PROVE  a <= b
<1>1. SUFFICES ASSUME b < a PROVE FALSE
  OBVIOUS
<1>2. b + 1 <= a
  BY <1>1
<1>3. (b + 1) * c <= a * c
  BY <1>2, ProductOrder
<1>4. (b + 1) * c = b * c + 1 * c /\ b * c \in Int /\ 1 * c = c
  BY ProductAdds
<1>5. PICK p, q : p = b * c /\ q = a * c
  OBVIOUS
<1>6. p + c <= q /\ q <= p /\ p \in Int
  BY <1>3, <1>4, <1>5
<1>7. q \in Int
  BY <1>5, ProductAdds
<1> QED BY <1>6, <1>7

\* A stake t of a delegation of q among m shares of n tokens, when four more
\* tokens come with the shares they buy.
LEMMA MoreShares ==
  ASSUME NEW t \in Nat, NEW q \in Nat, NEW m \in Nat, NEW n \in Nat \ {0}, t * m <= q * n,
         NEW a, a = (4 * m) \div n
  PROVE  a \in Nat /\ t * (m + a) <= q * (n + 4)
<1>1. a \in Nat /\ a * n <= 4 * m
  <2>1. PICK p : p = 4 * m
    OBVIOUS
  <2>2. p \in Nat /\ p \div n \in Nat /\ (p \div n) * n <= p
    BY <2>1
  <2> QED BY <2>1, <2>2
<1>2. t * a <= q * 4
  <2>1. (a * n) * t <= (4 * m) * t
    BY <1>1, ProductOrder, Products
  <2>2. (t * m) * 4 <= (q * n) * 4
    BY ProductOrder, Products
  <2>3. (a * n) * t = (t * a) * n /\ (4 * m) * t = (t * m) * 4 /\ (q * n) * 4 = (q * 4) * n
    BY <1>1, Products
  <2>4. PICK x, y, z : x = (t * a) * n /\ y = (t * m) * 4 /\ z = (q * 4) * n
    OBVIOUS
  <2>5. x \in Int /\ y \in Int /\ z \in Int
    BY <1>1, <2>4, Products
  <2>6. x <= z
    BY <2>1, <2>2, <2>3, <2>4, <2>5
  <2>7. (t * a) \in Int /\ (q * 4) \in Int /\ (t * a) * n <= (q * 4) * n
    BY <1>1, <2>4, <2>6, Products
  <2>8. PICK u, w : u = t * a /\ w = q * 4
    OBVIOUS
  <2> QED BY <2>7, <2>8, ProductCancel
<1>3. t * (m + a) = t * m + t * a /\ q * (n + 4) = q * n + q * 4
  BY <1>1, Products
<1>4. PICK x, y, z, w : x = t * m /\ y = q * n /\ z = t * a /\ w = q * 4
  OBVIOUS
<1>5. x \in Int /\ y \in Int /\ z \in Int /\ w \in Int
  BY <1>1, <1>4, Products
<1>6. x + z <= y + w
  BY <1>2, <1>4, <1>5
<1> QED BY <1>1, <1>3, <1>4, <1>6

\* When g shares go with their tokens e.
LEMMA FewerShares ==
  ASSUME NEW t \in Nat, NEW q \in Nat, NEW m \in Nat \ {0}, NEW n \in Nat, t * m <= q * n,
         NEW g \in 0 .. m, NEW e \in Nat, e * m <= g * n
  PROVE  t * (m - g) <= q * (n - e)
<1>1. PICK h \in Nat : h = m - g
  OBVIOUS
<1>2. PICK u, w, x, y, z :
        u = t * m /\ w = q * n /\ x = e * m /\ y = g * n /\ z = n * m
  OBVIOUS
<1>3. u \in Int /\ w \in Int /\ x \in Int /\ y \in Int /\ z \in Int /\ g \in Int
      /\ u <= w /\ x <= y
  BY <1>2, Products
<1>4. u * h <= w * h /\ x * q <= y * q
  BY <1>1, <1>3, ProductOrder
<1>5. w * h = q * z - q * y
  <2>1. w * h = w * m - w * g
    BY <1>1, <1>3, Products
  <2>2. w * m = q * z /\ w * g = q * y
    BY <1>2, <1>3, Products
  <2> QED BY <2>1, <2>2
<1>6. (q * (n - e)) * m = q * z - q * x
  <2>1. (q * (n - e)) * m = q * (m * (n - e))
    BY Products
  <2>2. m * (n - e) = m * n - m * e
    BY Products
  <2>3. m * n = z /\ m * e = x
    BY <1>2, Products
  <2> QED BY <1>3, <2>1, <2>2, <2>3, Products
<1>7. (t * h) * m = u * h
  BY <1>1, <1>2, Products
<1>8. (t * h) * m <= (q * (n - e)) * m
  <2>1. PICK i, j, k, l : i = u * h /\ j = q * z /\ k = q * y /\ l = q * x
    OBVIOUS
  <2>2. i \in Int /\ j \in Int /\ k \in Int /\ l \in Int /\ x * q = l /\ y * q = k
    BY <1>1, <1>3, <2>1, Products
  <2>3. i <= j - l
    BY <1>4, <1>5, <2>1, <2>2
  <2> QED BY <1>6, <1>7, <2>1, <2>3
<1>9. PICK i, j : i = t * h /\ j = q * (n - e)
  OBVIOUS
<1>10. i \in Int /\ j \in Int /\ i * m <= j * m
  BY <1>1, <1>8, <1>9, Products
<1>11. i <= j
  BY <1>10, ProductCancel
<1> QED BY <1>1, <1>9, <1>11

\* When half the tokens and half the stake are gone.
LEMMA HalfStake ==
  ASSUME NEW t \in Nat, NEW q \in Nat, NEW m \in Nat, NEW n \in Nat, t * m <= q * n, n % 2 = 0
  PROVE  (t \div 2) * m <= q * (n \div 2)
<1>1. PICK u, w : u = t \div 2 /\ w = n \div 2
  OBVIOUS
<1>2. u \in Nat /\ w \in Nat /\ u * 2 <= t /\ w * 2 = n
  BY <1>1
<1>3. (u * 2) * m <= t * m
  BY <1>2, ProductOrder
<1>4. (u * 2) * m = (u * m) * 2 /\ q * (w * 2) = (q * w) * 2
  BY <1>2, Products
<1>5. PICK x, y, z : x = u * m /\ y = q * w /\ z = t * m
  OBVIOUS
<1>6. x \in Int /\ y \in Int /\ z \in Int
  BY <1>2, <1>5, Products
<1>7. x * 2 <= z /\ z <= y * 2
  BY <1>2, <1>3, <1>4, <1>5
<1>8. x <= y
  BY <1>6, <1>7
<1> QED BY <1>1, <1>5, <1>8

\* Nothing but v's record and delegation k has changed; b was the record.
Raised(s, y, v, k, b, a) ==
  /\ SameBut(s, y, {"del", "val"}) /\ DOMAIN y.val = DOMAIN s.val
  /\ y.val[v].tokens = b.tokens + 4 /\ y.val[v].shares = b.shares + a
  /\ \A u \in DOMAIN s.val : u # v => y.val[u] = s.val[u]
  /\ \A l \in DOMAIN s.del : l # k => y.del[l] = s.del[l]

\* The fields of a store in which a delegation has been given more.
LEMMA DelegatedFields ==
  ASSUME NEW s, NEW y, NEW d, NEW v \in DOMAIN s.val, IsStore(s),
         s.val \in [DOMAIN s.val -> ValType],
         NEW k, NEW b, NEW h, NEW a, Delegated(s, y, d, v, k, b, h, a)
  PROVE  Raised(s, y, v, k, b, a)
<1> y = [s EXCEPT !.del = Put(s.del, k, h + a),
                 !.val[v].tokens = b.tokens + 4,
                 !.val[v].shares = b.shares + a]
  BY DEF Delegated
<1>1. y.del = Put(s.del, k, h + a) /\ SameBut(s, y, {"del", "val"})
  BY DEF SameBut, IsStore, StoreFields
<1>2. y.val = [[s.val EXCEPT ![v].tokens = b.tokens + 4] EXCEPT ![v].shares = b.shares + a]
  BY DEF IsStore, StoreFields
<1>3. /\ DOMAIN y.val = DOMAIN s.val
      /\ y.val[v].tokens = b.tokens + 4 /\ y.val[v].shares = b.shares + a
      /\ \A u \in DOMAIN s.val : u # v => y.val[u] = s.val[u]
  BY <1>2 DEF ValType
<1>4. \A l \in DOMAIN s.del : l # k => y.del[l] = s.del[l]
  BY <1>1 DEF Put
<1> QED BY <1>1, <1>3, <1>4 DEF Raised

\* A delegation is made or increased after its hook.
LEMMA DelegatedSolvent ==
  ASSUME NEW s, NEW d \in Account, NEW v \in DOMAIN s.val, Opened(s, d, v),
         NEW y, NEW k, NEW b, NEW h, NEW a, Delegated(s, y, d, v, k, b, h, a),
         NEW K, K = DOMAIN s.del \ {k}, SolventAt(s, v, K),
         s.val[v].shares = 0 => DelsTo(K, v) = {},
         NEW height \in 0 .. 1, NEW x, x = AfterDelegationModified(y, d, v, height)
  PROVE  /\ SolventAt(x, v, DOMAIN x.del) /\ DOMAIN x.del = DOMAIN s.del \cup {k}
         /\ DOMAIN x.val = DOMAIN s.val
         /\ Elsewhere(s, x, v, DOMAIN s.val, DOMAIN s.del)
<1>1. /\ RunningWith(y, K) /\ DOMAIN y.del = DOMAIN s.del \cup {k}
      /\ HistOf(y, v, y.cur[v].period - 1).refs = 1 /\ v \in DOMAIN y.val
  <2>1. v \in DOMAIN s.val /\ d \in Account /\ Opened(s, d, v)
    OBVIOUS
  <2>2. Delegated(s, y, d, v, k, b, h, a)
    OBVIOUS
  <2>3. /\ RunningWith(y, DOMAIN s.del \ {k}) /\ DOMAIN y.del = DOMAIN s.del \cup {k}
        /\ HistOf(y, v, y.cur[v].period - 1).refs = 1 /\ v \in DOMAIN y.val
    BY ONLY <2>1, <2>2, DelegatedRunning
  <2> QED BY <2>3
<1>2. k = <<d, v>> /\ b = s.val[v]
      /\ a = (IF b.shares = 0 THEN 4 ELSE (4 * b.shares) \div b.tokens)
  BY DEF Delegated
<1>3. /\ IsStore(s) /\ s.val \in [DOMAIN s.val -> ValType] /\ HistOK(s, DOMAIN s.val, K)
      /\ Keyed(s, K) /\ DelTyped(s) /\ Coins(s) /\ (b.shares # 0 => b.tokens > 0)
  BY <1>2 DEF Opened, Keyed, SharedAt
<1>4. /\ SameBut(s, y, {"del", "val"}) /\ DOMAIN y.val = DOMAIN s.val
      /\ y.val[v].tokens = b.tokens + 4 /\ y.val[v].shares = b.shares + a
      /\ \A u \in DOMAIN s.val : u # v => y.val[u] = s.val[u]
      /\ \A l \in DOMAIN s.del : l # k => y.del[l] = s.del[l]
  <2>1. IsStore(s) /\ s.val \in [DOMAIN s.val -> ValType] /\ v \in DOMAIN s.val
        /\ Delegated(s, y, d, v, k, b, h, a)
    BY <1>3
  <2>2. Raised(s, y, v, k, b, a)
    BY ONLY <2>1, DelegatedFields
  <2> QED BY <2>2 DEF Raised
<1>5. /\ y.hist = s.hist /\ y.start = s.start /\ y.slash = s.slash /\ y.cur = s.cur
      /\ y.com = s.com /\ y.out = s.out
  BY <1>4 DEF SameBut, StoreFields
<1>6. \A w, p : HistOf(y, w, p) = HistOf(s, w, p)
  BY <1>5 DEF HistOf
<1>7. K \cup {k} = DOMAIN y.del /\ k \notin K /\ K \subseteq DOMAIN y.del
  BY <1>1
<1>8. /\ Recorded(y, v, K) /\ IsFiniteSet(K) /\ K \subseteq DOMAIN y.start
      /\ Sharing(y, v)
  BY <1>1, <1>7, RunningRecorded
<1>9. Recorded(s, v, K)
  <2>1. \A l \in K : l = <<l[1], l[2]>> /\ s.start[l] \in StartType
    BY <1>3 DEF Keyed
  <2> QED BY <1>3, <2>1 DEF Recorded, HistOK, DelsTo
<1>10. Kept(s, y, v, K, K)
  BY <1>5, <1>6, <1>8, <1>9 DEF Kept, RatiosKept
<1>11. ASSUME NEW l \in DelsTo(K, v)
       PROVE  LastOf(s, l).stake * y.val[v].shares <= y.del[l] * y.val[v].tokens
  <2>1. b.shares # 0
    BY <1>2
  <2>2. PICK t, q, m, n : t = LastOf(s, l).stake /\ q = s.del[l] /\ m = b.shares /\ n = b.tokens
    OBVIOUS
  <2>3. t \in Nat
    BY <1>9, <2>2, OwedType DEF Stretch
  <2>4. l \in DOMAIN s.del /\ l # k /\ l[2] = v
    BY DEF DelsTo
  <2>5. q \in Nat /\ m \in Nat /\ n \in Nat \ {0}
    BY <1>2, <1>3, <2>1, <2>2, <2>4 DEF DelTyped, ValType
  <2>6. t * m <= q * n
    BY <1>2, <2>2, <2>4 DEF SolventAt, Fair
  <2>7. a = (4 * m) \div n
    BY <1>2, <2>1, <2>2
  <2>8. t * (m + a) <= q * (n + 4)
    BY <2>3, <2>5, <2>6, <2>7, MoreShares
  <2> QED BY <1>4, <2>2, <2>4, <2>8
<1>12. SolventAt(y, v, K)
  <2>1. s.com[v] \in Nat /\ s.out[v] \in Int /\ y.cur[v].rewards \in Nat
    BY <1>3, <1>8 DEF Coins, Recorded, RefsOK, PeriodOK
  <2>2. PICK c : c = 0
    OBVIOUS
  <2>3. y.com[v] = s.com[v] + c /\ y.cur[v].rewards = s.cur[v].rewards + c
        /\ y.out[v] = s.out[v] + (c + c) /\ c \in Int
    BY <1>5, <2>1, <2>2
  <2>4. Kept(s, y, v, K, K) /\ SolventAt(s, v, K) /\ IsFiniteSet(K)
    BY <1>8, <1>10
  <2>5. s.com[v] \in Int /\ s.out[v] \in Int
    BY <2>1
  <2> QED BY ONLY <1>11, <2>3, <2>4, <2>5, SolventShift
<1>13. y.del[k] \in Nat
  BY <1>1, <1>8 DEF Sharing, DelTyped
<1>14. SolventAt(x, v, K \cup {k}) /\ SameBut(y, x, {"hist", "start"})
  <2>1. y.val[v].tokens \in Nat /\ y.val[v].shares \in Nat \ {0}
    BY <1>8 DEF Sharing
  <2> QED BY <1>1, <1>2, <1>7, <1>8, <1>12, <1>13, <2>1, StartSolvent
<1>15. x.del = y.del /\ x.val = y.val
  BY <1>14 DEF SameBut, StoreFields
<1>16. Elsewhere(s, y, v, DOMAIN s.val, DOMAIN s.del)
  <2>1. HistTyped(y)
    BY <1>8 DEF Recorded
  <2> QED BY <1>2, <1>4, <1>5, <1>6, <2>1 DEF Elsewhere
<1>17. Elsewhere(y, x, v, DOMAIN s.val, DOMAIN s.del)
  <2>1. HistTyped(y) /\ RefsOK(y, v, K) /\ DOMAIN s.del \subseteq DOMAIN y.start \cup {k}
    BY <1>8 DEF Recorded
  <2>2. /\ k = <<d, v>> /\ k \notin K /\ K \subseteq DOMAIN y.start
        /\ HistOf(y, v, y.cur[v].period - 1).refs = 1
    BY <1>1, <1>2, <1>7, <1>8
  <2> QED BY ONLY <2>1, <2>2, x = AfterDelegationModified(y, d, v, height), StartElsewhere
<1> QED BY <1>1, <1>4, <1>7, <1>14, <1>15, <1>16, <1>17, ElsewhereTwice

\* After the hook of a delegation k of d to v, the validator is open to it, and
\* covers the others.
Hooked(s, w, d, v, k, K) ==
  /\ d \in Account /\ v \in DOMAIN s.val
  /\ w = (IF <<d, v>> \in DOMAIN s.del THEN Withdraw(s, d, v)
          ELSE BeforeDelegationCreated(s, v))
  /\ w.val = s.val /\ w.del = s.del /\ Opened(w, d, v)
  /\ k = <<d, v>> /\ K = DOMAIN w.del \ {k} /\ SolventAt(w, v, K)
  /\ w.val[v].shares = 0 => DelsTo(K, v) = {}

\* After delegation k to v, the validator covers that too; the others are left.
Joined(w, x, v, k) ==
  /\ SolventAt(x, v, DOMAIN x.del) /\ DOMAIN x.del = DOMAIN w.del \cup {k}
  /\ DOMAIN x.val = DOMAIN w.val
  /\ Elsewhere(w, x, v, DOMAIN w.val, DOMAIN w.del)

\* A delegation, from its hook on.
LEMMA OpenedSolvent ==
  ASSUME NEW s, NEW w, NEW d, NEW v, NEW k, NEW K, Hooked(s, w, d, v, k, K),
         NEW height \in 0 .. 1, NEW x, x = Delegate(s, d, v, height)
  PROVE  Joined(w, x, v, k)
<1> /\ d \in Account /\ v \in DOMAIN s.val
    /\ w.val = s.val /\ w.del = s.del /\ Opened(w, d, v)
    /\ k = <<d, v>> /\ K = DOMAIN w.del \ {k} /\ SolventAt(w, v, K)
    /\ w.val[v].shares = 0 => DelsTo(K, v) = {}
  BY DEF Hooked
<1>1. PICK b : b = w.val[v]
  OBVIOUS
<1>2. PICK a, h : /\ a = (IF b.shares = 0 THEN 4 ELSE (4 * b.shares) \div b.tokens)
                  /\ h = (IF k \in DOMAIN w.del THEN w.del[k] ELSE 0)
  OBVIOUS
<1>3. PICK y : y = [w EXCEPT !.del = Put(w.del, k, h + a),
                             !.val[v].tokens = b.tokens + 4,
                             !.val[v].shares = b.shares + a]
  OBVIOUS
<1>4. x = AfterDelegationModified(y, d, v, height)
  BY <1>1, <1>2, <1>3, Zenon DEF Delegate, Hooked
<1>5. v \in DOMAIN w.val /\ Opened(w, d, v) /\ d \in Account /\ height \in 0 .. 1
  OBVIOUS
<1>6. Delegated(w, y, d, v, k, b, h, a)
  BY <1>1, <1>2, <1>3 DEF Delegated
<1>7. /\ K = DOMAIN w.del \ {k} /\ SolventAt(w, v, K)
      /\ (w.val[v].shares = 0 => DelsTo(K, v) = {})
  OBVIOUS
<1>8. /\ SolventAt(x, v, DOMAIN x.del) /\ DOMAIN x.del = DOMAIN w.del \cup {k}
      /\ DOMAIN x.val = DOMAIN w.val
      /\ Elsewhere(w, x, v, DOMAIN w.val, DOMAIN w.del)
  BY ONLY <1>4, <1>5, <1>6, <1>7, DelegatedSolvent
<1> QED BY <1>8 DEF Joined

\* A delegation that is made or increased.
LEMMA DelegateSolvent ==
  ASSUME NEW s, Settled(s), NEW d \in Account, NEW v \in DOMAIN s.val,
         NEW height \in 0 .. 1, NEW x, x = Delegate(s, d, v, height)
  PROVE  Settled(x)
<1>1. PICK k, K, L, W : k = <<d, v>> /\ K = DOMAIN s.del /\ L = K \ {k} /\ W = DOMAIN s.val
  OBVIOUS
<1>2. PICK w : w = IF k \in K THEN Withdraw(s, d, v) ELSE BeforeDelegationCreated(s, v)
  OBVIOUS
<1>3. RunningWith(s, K) /\ SolventAt(s, v, K) /\ DOMAIN s.cur = W /\ DOMAIN s.out = W
  BY <1>1 DEF Settled, Running, Solvent, RunningWith, Keyed
<1>4. /\ Recorded(s, v, K) /\ MayEnd(s, v) /\ Sharing(s, v) /\ v \in DOMAIN s.out
      /\ K \subseteq DOMAIN s.start
  BY <1>1, <1>3, RunningRecorded
<1>5. /\ HistTyped(s) /\ RefsOK(s, v, K) /\ v \in DOMAIN s.cur
      /\ s.val[v].tokens \in Nat \ {0}
  BY <1>4 DEF Recorded, Sharing
<1>6. /\ RunningWith(w, L) /\ w.val = s.val /\ w.del = s.del
      /\ HistOf(w, v, w.cur[v].period - 1).refs = 1
      /\ SolventAt(w, v, L) /\ Elsewhere(s, w, v, W, K)
  <2>1. CASE k \in K
    <3>1. k = <<d, v>> /\ w = Withdraw(s, d, v)
      BY <1>1, <1>2, <2>1
    <3>2. /\ RunningWith(w, L)
          /\ SameBut(s, w, {"hist", "cur", "start", "held", "bal", "out", "pool"})
          /\ HistOf(w, v, w.cur[v].period - 1).refs = 1
      BY <1>1, <1>3, <2>1, <3>1, WithdrawRunning
    <3>3. SolventAt(w, v, L)
      BY <1>1, <1>3, <1>4, <2>1, <3>1, WithdrawSolvent
    <3>4. Elsewhere(s, w, v, W, K)
      BY <1>1, <1>3, <1>4, <1>5, <2>1, <3>1, WithdrawElsewhere
    <3> QED BY <3>2, <3>3, <3>4 DEF SameBut, StoreFields
  <2>2. CASE k \notin K
    <3>1. w = IncrementValidatorPeriod(s, v) /\ L = K
      BY <1>1, <1>2, <2>2 DEF BeforeDelegationCreated
    <3>2. /\ RunningWith(w, K) /\ SameBut(s, w, {"hist", "cur"})
          /\ HistOf(w, v, w.cur[v].period - 1).refs = 1
      BY <1>3, <3>1, EndRunning
    <3>3. SolventAt(w, v, L)
      BY <1>1, <1>3, <1>4, <3>1, EndSolvent
    <3>4. Elsewhere(s, w, v, W, K)
      BY <1>3, <1>4, <1>5, <3>1, EndElsewhere
    <3> QED BY <3>1, <3>2, <3>3, <3>4 DEF SameBut, StoreFields
  <2> QED BY <2>1, <2>2
<1>7. Opened(w, d, v)
  <2>1. RunningWith(w, DOMAIN w.del \ {<<d, v>>}) /\ v \in DOMAIN w.val
    BY <1>1, <1>6
  <2> QED BY <1>6, <2>1, RunningOpened
<1>8. w.val[v].shares # 0
  BY <1>4, <1>6 DEF Sharing
<1>9. Joined(w, x, v, k)
  <2>1. w = (IF <<d, v>> \in DOMAIN s.del THEN Withdraw(s, d, v)
             ELSE BeforeDelegationCreated(s, v))
    BY <1>1, <1>2
  <2>2. Hooked(s, w, d, v, k, L)
    BY <1>1, <1>6, <1>7, <1>8, <2>1 DEF Hooked
  <2> QED BY ONLY <2>2, height \in 0 .. 1, x = Delegate(s, d, v, height), OpenedSolvent
<1>10. /\ SolventAt(x, v, DOMAIN x.del) /\ DOMAIN x.del = K \cup {k}
       /\ DOMAIN x.val = W /\ Elsewhere(w, x, v, W, K)
  BY <1>1, <1>6, <1>9 DEF Joined
<1>11. Elsewhere(s, x, v, W, K)
  BY <1>6, <1>10, ElsewhereTwice
<1>12. \A u \in W : u # v => DelsTo(DOMAIN x.del, u) = DelsTo(K, u)
  BY <1>1, <1>10 DEF DelsTo
<1>13. Running(x)
  <2>1. Running(s)
    BY DEF Settled
  <2> QED BY ONLY <2>1, d \in Account, v \in DOMAIN s.val, height \in 0 .. 1,
                  x = Delegate(s, d, v, height), DelegateRunning
<1> QED BY <1>1, <1>10, <1>11, <1>12, <1>13, SolventStep DEF Settled

\* A validator that is created, with its operator's delegation.
LEMMA CreateSolvent ==
  ASSUME NEW s, Settled(s), NEW v \in Val, v \notin DOMAIN s.val,
         NEW height \in 0 .. 1, NEW x, x = CreateValidator(s, v, height)
  PROVE  Settled(x)
<1>1. PICK m : Entered(s, m, v, height) /\ x = Delegate(m, OperatorOf[v], v, height)
  BY DEF CreateValidator, Entered
<1>2. PICK d, w, k, K, W : /\ d = OperatorOf[v] /\ w = IncrementValidatorPeriod(m, v)
                           /\ k = <<d, v>> /\ K = DOMAIN s.del /\ W = DOMAIN s.val
  OBVIOUS
<1>3. EnteredOpen(s, m, w, v)
  BY <1>1, <1>2, EnteredOpened DEF Settled
<1>4. d \in Account /\ v \notin W /\ DOMAIN s.com = W /\ DOMAIN s.out = W
      /\ \A l \in K : l[2] \in W
  BY <1>2, StakingAssumption DEF Settled, Running, RunningWith, Keyed
<1>5. k \notin K /\ K \ {k} = K /\ DelsTo(K, v) = {}
  BY <1>2, <1>4 DEF DelsTo
<1>6. SolventAt(w, v, K)
  <2>1. w.com[v] = 0 /\ w.out[v] = 0 /\ w.cur[v].rewards = 0
    BY <1>3 DEF EnteredOpen, Put
  <2>2. OwedBy(w, v, K) = 0
    BY <1>5, SumEmpty DEF OwedBy
  <2> QED BY <1>5, <2>1, <2>2 DEF SolventAt, Covered
<1>7. Elsewhere(s, w, v, W, K)
  <2>1. HistTyped(w)
    BY <1>3 DEF EnteredOpen, Opened, HistOK
  <2>2. \A u \in W : w.com[u] = s.com[u] /\ w.out[u] = s.out[u]
    BY <1>3, <1>4 DEF EnteredOpen, Put
  <2> QED BY <1>2, <1>3, <2>1, <2>2 DEF EnteredOpen, Elsewhere
<1>8. Joined(w, x, v, k)
  <2>1. w = (IF <<d, v>> \in DOMAIN m.del THEN Withdraw(m, d, v)
             ELSE BeforeDelegationCreated(m, v))
    BY <1>2, <1>3, <1>5 DEF EnteredOpen, BeforeDelegationCreated
  <2>2. Hooked(m, w, d, v, k, K)
    BY <1>2, <1>3, <1>4, <1>5, <1>6, <2>1 DEF Hooked, EnteredOpen
  <2>3. x = Delegate(m, d, v, height)
    BY <1>1, <1>2
  <2> QED BY ONLY <2>2, <2>3, height \in 0 .. 1, OpenedSolvent
<1>9. /\ SolventAt(x, v, DOMAIN x.del) /\ DOMAIN x.del = K \cup {k}
      /\ DOMAIN x.val = W \cup {v} /\ Elsewhere(w, x, v, W \cup {v}, K)
  BY <1>2, <1>3, <1>8 DEF Joined, EnteredOpen
<1>10. Elsewhere(s, x, v, W, K)
  <2>1. Elsewhere(w, x, v, W, K)
    BY <1>9 DEF Elsewhere
  <2> QED BY <1>7, <2>1, ElsewhereTwice
<1>11. \A u \in W : u # v => DelsTo(DOMAIN x.del, u) = DelsTo(K, u)
  BY <1>2, <1>9 DEF DelsTo
<1>12. Running(x)
  BY CreateRunning DEF Settled
<1>13. Solvent(x, DOMAIN x.del)
  <2>1. /\ Elsewhere(s, x, v, DOMAIN s.val, DOMAIN s.del)
        /\ DOMAIN x.val \subseteq DOMAIN s.val \cup {v}
        /\ \A u \in DOMAIN s.val : u # v => DelsTo(DOMAIN x.del, u) = DelsTo(DOMAIN s.del, u)
        /\ SolventAt(x, v, DOMAIN x.del)
    BY <1>2, <1>9, <1>10, <1>11
  <2> QED BY ONLY Settled(s), <2>1, SolventStep
<1> QED BY <1>12, <1>13 DEF Settled

\* The fields of a store w after a withdrawal, when delegation k to v has ended.
UndelegatedFrom(w, x, v, k, b, a, t) ==
  /\ SameBut(w, x, {"val", "del", "entry"}) /\ DOMAIN x.val = DOMAIN w.val
  /\ x.val[v].tokens = b.tokens - t /\ x.val[v].shares = b.shares - a
  /\ \A u \in DOMAIN w.val : u # v => x.val[u] = w.val[u]
  /\ DOMAIN x.del = DOMAIN w.del \ {k} /\ \A l \in DOMAIN x.del : x.del[l] = w.del[l]

\* It has when a delegation ends.
LEMMA UndelegateFields ==
  ASSUME NEW s, NEW w, NEW d, NEW v \in DOMAIN s.val, w = Withdraw(s, d, v),
         IsStore(w), w.val = s.val, w.del = s.del, w.val \in [DOMAIN w.val -> ValType],
         NEW k, k = <<d, v>>, NEW b, b = s.val[v], NEW a, a = s.del[k],
         NEW t, t = Stake(s, d, v),
         NEW height, NEW x, x = Undelegate(s, d, v, height)
  PROVE  UndelegatedFrom(w, x, v, k, b, a, t)
<1>1. x = [w EXCEPT !.val[v].tokens = b.tokens - t, !.val[v].shares = b.shares - a,
                    !.del = Drop(s.del, k), !.entry = Put(s.entry, k, height)]
  BY Zenon DEF Undelegate
<1>2. SameBut(w, x, {"val", "del", "entry"}) /\ x.del = Drop(s.del, k)
  BY ONLY IsStore(w), <1>1 DEF SameBut, IsStore, StoreFields
<1>3. x.val = [[w.val EXCEPT ![v].tokens = b.tokens - t] EXCEPT ![v].shares = b.shares - a]
  BY <1>1 DEF IsStore, StoreFields
<1>4. /\ DOMAIN x.val = DOMAIN w.val
      /\ x.val[v].tokens = b.tokens - t /\ x.val[v].shares = b.shares - a
      /\ \A u \in DOMAIN w.val : u # v => x.val[u] = w.val[u]
  BY <1>3 DEF ValType
<1>5. DOMAIN x.del = DOMAIN w.del \ {k} /\ \A l \in DOMAIN x.del : x.del[l] = w.del[l]
  BY <1>2 DEF Drop
<1> QED BY <1>2, <1>4, <1>5 DEF UndelegatedFrom

\* A delegation that ends takes no more tokens than its shares are worth.
LEMMA UndelegateSolvent ==
  ASSUME NEW s, Settled(s), NEW d \in Account, NEW v \in DOMAIN s.val,
         NEW k, k = <<d, v>>, k \in DOMAIN s.del, d # OperatorOf[v],
         NEW height, NEW x, x = Undelegate(s, d, v, height)
  PROVE  Settled(x)
<1>1. PICK K, L, W, w : /\ K = DOMAIN s.del /\ L = K \ {k} /\ W = DOMAIN s.val
                        /\ w = Withdraw(s, d, v)
  OBVIOUS
<1>2. /\ RunningWith(s, K) /\ SolventAt(s, v, K) /\ k \in K
      /\ DOMAIN s.cur = W /\ DOMAIN s.out = W
  BY <1>1 DEF Settled, Running, Solvent, RunningWith, Keyed
<1>3. /\ Recorded(s, v, K) /\ Sharing(s, v) /\ v \in DOMAIN s.out
      /\ K \subseteq DOMAIN s.start /\ IsFiniteSet(K)
  BY <1>1, <1>2, RunningRecorded
<1>4. /\ RunningWith(w, L)
      /\ SameBut(s, w, {"hist", "cur", "start", "held", "bal", "out", "pool"})
  BY <1>1, <1>2, WithdrawRunning
<1>5. w.val = s.val /\ w.del = s.del /\ IsStore(w)
  BY <1>4 DEF SameBut, StoreFields
<1>6. SolventAt(w, v, L) /\ Recorded(w, v, L)
  BY <1>1, <1>2, <1>3, WithdrawSolvent
<1>7. Elsewhere(s, w, v, W, K)
  <2>1. HistTyped(s) /\ RefsOK(s, v, K) /\ v \in DOMAIN s.cur /\ s.val[v].tokens \in Nat \ {0}
    BY <1>3 DEF Recorded, Sharing
  <2> QED BY <1>1, <1>2, <1>3, <2>1, WithdrawElsewhere
<1>8. PICK b, a, t : b = s.val[v] /\ a = s.del[k] /\ t = Stake(s, d, v)
  OBVIOUS
<1>9. UndelegatedFrom(w, x, v, k, b, a, t)
  <2>1. w.val \in [DOMAIN w.val -> ValType]
    BY <1>4 DEF RunningWith, Keyed
  <2>2. w = Withdraw(s, d, v) /\ v \in DOMAIN s.val /\ k = <<d, v>>
    BY <1>1
  <2> QED BY ONLY <1>5, <1>8, <2>1, <2>2, x = Undelegate(s, d, v, height), UndelegateFields
<1>10. /\ DOMAIN x.val = W /\ DOMAIN x.del = L
       /\ x.val[v].tokens = b.tokens - t /\ x.val[v].shares = b.shares - a
       /\ \A u \in W : u # v => x.val[u] = s.val[u]
       /\ \A l \in L : x.del[l] = s.del[l]
  BY <1>1, <1>5, <1>9 DEF UndelegatedFrom
<1>11. /\ x.hist = w.hist /\ x.start = w.start /\ x.slash = w.slash /\ x.cur = w.cur
       /\ x.com = w.com /\ x.out = w.out
  BY <1>9 DEF UndelegatedFrom, SameBut, StoreFields
<1>12. \A u, p : HistOf(x, u, p) = HistOf(w, u, p)
  BY <1>11 DEF HistOf
<1>13. Running(x)
  BY UndelegateRunning DEF Settled
<1>14. Recorded(x, v, L) /\ IsFiniteSet(L) /\ Sharing(x, v)
  <2>1. RunningWith(x, L) /\ L \subseteq DOMAIN x.del /\ v \in DOMAIN x.val
    BY <1>1, <1>10, <1>13 DEF Running
  <2> QED BY <2>1, RunningRecorded
<1>15. Kept(w, x, v, L, L)
  BY <1>6, <1>11, <1>12, <1>14 DEF Kept, RatiosKept
<1>16. ASSUME NEW l \in DelsTo(L, v)
       PROVE  LastOf(w, l).stake * x.val[v].shares <= x.del[l] * x.val[v].tokens
  <2>1. PICK r, q, m, n : r = LastOf(w, l).stake /\ q = s.del[l] /\ m = b.shares /\ n = b.tokens
    OBVIOUS
  <2>2. r \in Nat
    BY <1>6, <2>1, OwedType DEF Stretch
  <2>3. l \in L /\ l \in K /\ l[2] = v
    BY <1>1 DEF DelsTo
  <2>4. q \in Nat /\ m \in Nat \ {0} /\ n \in Nat /\ a \in Nat
    BY <1>1, <1>2, <1>3, <1>8, <2>1, <2>3 DEF Sharing, DelTyped
  <2>5. r * m <= q * n
    BY <1>5, <1>6, <1>8, <2>1, <2>3 DEF SolventAt, Fair
  <2>6. t \in Nat /\ t * m <= a * n
    BY <1>8, <2>1, <2>4, StartFair DEF Stake
  <2>7. x.val[v].shares \in Nat
    BY <1>14 DEF Sharing
  <2>8. a \in 0 .. m
    BY <1>10, <2>1, <2>4, <2>7
  <2>9. r * (m - a) <= q * (n - t)
    BY <2>2, <2>4, <2>5, <2>6, <2>8, FewerShares
  <2> QED BY <1>10, <2>1, <2>3, <2>9
<1>17. SolventAt(x, v, L)
  <2>1. w.com[v] \in Nat /\ w.out[v] \in Int /\ w.cur[v].rewards \in Nat
    BY <1>4, <1>5, <1>6 DEF RunningWith, Coins, Recorded, RefsOK, PeriodOK
  <2>2. PICK c : c = 0
    OBVIOUS
  <2>3. x.com[v] = w.com[v] + c /\ x.cur[v].rewards = w.cur[v].rewards + c
        /\ x.out[v] = w.out[v] + (c + c) /\ c \in Int
    BY <1>11, <2>1, <2>2
  <2>4. w.com[v] \in Int /\ w.out[v] \in Int
    BY <2>1
  <2> QED BY ONLY <1>6, <1>14, <1>15, <1>16, <2>3, <2>4, SolventShift
<1>18. Elsewhere(s, x, v, W, L)
  <2>1. HistTyped(x) /\ HistTyped(w)
    BY <1>6, <1>14 DEF Recorded
  <2>2. Elsewhere(w, x, v, W, L)
    BY <1>5, <1>10, <1>11, <1>12, <2>1 DEF Elsewhere
  <2>3. Elsewhere(s, w, v, W, L)
    BY <1>1, <1>7 DEF Elsewhere
  <2> QED BY <2>2, <2>3, ElsewhereTwice
<1>19. Elsewhere(s, x, v, W, K)
  BY <1>1, <1>18 DEF Elsewhere
<1>20. Solvent(x, DOMAIN x.del)
  <2>1. \A u \in W : u # v => DelsTo(DOMAIN x.del, u) = DelsTo(K, u)
    BY <1>1, <1>10 DEF DelsTo
  <2>2. /\ Elsewhere(s, x, v, DOMAIN s.val, DOMAIN s.del)
        /\ DOMAIN x.val \subseteq DOMAIN s.val \cup {v}
        /\ \A u \in DOMAIN s.val : u # v => DelsTo(DOMAIN x.del, u) = DelsTo(DOMAIN s.del, u)
        /\ SolventAt(x, v, DOMAIN x.del)
    BY <1>1, <1>10, <1>17, <1>19, <2>1
  <2> QED BY ONLY Settled(s), <2>2, SolventStep
<1> QED BY <1>13, <1>20 DEF Settled

\* Money comes to v, or leaves it: c of commission, r of rewards.  All else that
\* solvency reads is the same.
Shifted(s, x, v, c, r) ==
  /\ c \in Int /\ r \in Int
  /\ x.hist = s.hist /\ x.start = s.start /\ x.slash = s.slash /\ x.del = s.del
  /\ DOMAIN x.val = DOMAIN s.val
  /\ \A w \in DOMAIN s.val :
       x.val[w].tokens = s.val[w].tokens /\ x.val[w].shares = s.val[w].shares
  /\ \A w \in DOMAIN s.val : w # v =>
       x.cur[w] = s.cur[w] /\ x.com[w] = s.com[w] /\ x.out[w] = s.out[w]
  /\ x.cur[v].period = s.cur[v].period /\ x.cur[v].rewards = s.cur[v].rewards + r
  /\ x.com[v] = s.com[v] + c /\ x.out[v] = s.out[v] + (c + r)

\* As much is outstanding as before but for what came or left.
LEMMA ShiftSolvent ==
  ASSUME NEW s, Settled(s), NEW v \in DOMAIN s.val, NEW x, Running(x),
         NEW c, NEW r, Shifted(s, x, v, c, r)
  PROVE  /\ Settled(x)
         /\ r = 0 => \A l \in DOMAIN s.del : Full(x, l) = Full(s, l)
<1>1. PICK K, W : K = DOMAIN s.del /\ W = DOMAIN s.val
  OBVIOUS
<1>2. RunningWith(s, K) /\ RunningWith(x, K) /\ DOMAIN x.del = K /\ DOMAIN x.val = W
  BY <1>1 DEF Settled, Running, Shifted
<1>3. \A w \in W : /\ Recorded(s, w, K) /\ MayEnd(s, w) /\ w \in DOMAIN s.cur
                   /\ Recorded(x, w, K) /\ MayEnd(x, w) /\ w \in DOMAIN x.cur
                   /\ Sharing(s, w) /\ IsFiniteSet(K)
  BY <1>1, <1>2, RunningRecorded DEF Sharing
<1>4. \A w, p : HistOf(x, w, p) = HistOf(s, w, p)
  BY DEF Shifted, HistOf
<1>5. Kept(s, x, v, K, K)
  BY <1>1, <1>3, <1>4 DEF Kept, RatiosKept, Shifted
<1>6. SolventAt(x, v, K)
  <2>1. SolventAt(s, v, K) /\ IsFiniteSet(K) /\ s.com[v] \in Int /\ s.out[v] \in Int
    BY <1>1, <1>3 DEF Settled, Solvent, Sharing
  <2>2. \A l \in DelsTo(K, v) :
          LastOf(s, l).stake * x.val[v].shares <= x.del[l] * x.val[v].tokens
    BY <2>1 DEF SolventAt, Fair, DelsTo, Shifted
  <2>3. /\ c \in Int /\ r \in Int /\ x.com[v] = s.com[v] + c
        /\ x.cur[v].rewards = s.cur[v].rewards + r /\ x.out[v] = s.out[v] + (c + r)
    BY DEF Shifted
  <2> QED BY ONLY <1>5, <2>1, <2>2, <2>3, SolventShift
<1>7. Elsewhere(s, x, v, W, K)
  <2>1. HistTyped(x)
    BY <1>1, <1>3 DEF Recorded
  <2> QED BY <1>1, <1>4, <2>1 DEF Elsewhere, Shifted
<1>8. Solvent(x, DOMAIN x.del)
  <2>1. /\ Elsewhere(s, x, v, DOMAIN s.val, DOMAIN s.del)
        /\ DOMAIN x.val \subseteq DOMAIN s.val \cup {v}
        /\ \A u \in DOMAIN s.val : u # v => DelsTo(DOMAIN x.del, u) = DelsTo(DOMAIN s.del, u)
        /\ SolventAt(x, v, DOMAIN x.del)
    BY <1>1, <1>2, <1>6, <1>7
  <2> QED BY ONLY Settled(s), <2>1, SolventStep
<1>9. ASSUME r = 0, NEW l \in K PROVE Full(x, l) = Full(s, l)
  <2>1. PICK u : u = l[2]
    OBVIOUS
  <2>2. u \in W /\ l \in DelsTo(K, u)
    BY <1>1, <1>2, <2>1 DEF RunningWith, Keyed, DelsTo
  <2>3. CASE u = v
    <3>1. s.cur[v].rewards \in Nat
      BY <1>1, <1>3 DEF Recorded, RefsOK, PeriodOK
    <3>2. x.cur[v].rewards = s.cur[v].rewards /\ x.val[v].tokens = s.val[v].tokens
      BY <1>9, <3>1 DEF Shifted
    <3> QED BY <1>3, <1>5, <2>2, <2>3, <3>2, FullSame
  <2>4. CASE u # v
    BY <1>3, <1>7, <2>2, <2>4, ElsewhereFull
  <2> QED BY <2>3, <2>4
<1> QED BY <1>1, <1>8, <1>9 DEF Settled

\* Commission is paid in whole coins; what is owed to the delegations stays.
LEMMA CommissionSolvent ==
  ASSUME NEW s, Settled(s), NEW v \in DOMAIN s.val,
         NEW x, x = WithdrawValidatorCommission(s, v),
         NEW a, a = OperatorOf[v], NEW n, n = s.com[v] \div Unit
  PROVE  /\ Settled(x) /\ n \in Int
         /\ \A l \in DOMAIN s.del : Full(x, l) = Full(s, l)
         /\ \A w \in DOMAIN s.val : w # v => x.com[w] = s.com[w]
         /\ x.bal = [s.bal EXCEPT ![a] = s.bal[a] + n]
         /\ x.pool = s.pool
<1>1. IsStore(s) /\ v \in DOMAIN s.com /\ v \in DOMAIN s.out
      /\ DOMAIN s.com = DOMAIN s.val /\ DOMAIN s.out = DOMAIN s.val
      /\ s.com[v] \in Nat /\ s.out[v] \in Int
  BY DEF Settled, Running, RunningWith, Keyed, Coins
<1>2. PICK u, m, e : u = n * Unit /\ m = s.com[v] % Unit /\ e = s.com[v]
  OBVIOUS
<1>3. n \in Int /\ u \in Int /\ m = e + (0 - u)
  <2>1. e \in Nat /\ Unit \in Nat \ {0}
    BY <1>1, <1>2, StakingAssumption
  <2>2. /\ e = Unit * (e \div Unit) + (e % Unit)
        /\ e \div Unit \in Int /\ e % Unit \in Int /\ Unit \in Int
    <3>1. PICK w : w = Unit
      OBVIOUS
    <3>2. \A b \in Nat \ {0} : /\ e = b * (e \div b) + (e % b)
                               /\ e \div b \in Int /\ e % b \in Int
      BY <2>1
    <3> QED BY <2>1, <3>2
  <2>4. Unit * (e \div Unit) = (e \div Unit) * Unit
    BY <2>2, Products
  <2>3. u \in Int
    BY <1>2, <2>1, <2>2, ProductType
  <2> QED BY <1>2, <2>1, <2>2, <2>3, <2>4
<1>4. x = [s EXCEPT !.com[v] = m, !.out[v] = s.out[v] - u, !.held = s.held - u,
                    !.bal[a] = s.bal[a] + n]
  BY <1>2 DEF WithdrawValidatorCommission
<1>5. /\ SameBut(s, x, {"com", "out", "held", "bal"})
      /\ x.com = [s.com EXCEPT ![v] = m] /\ x.out = [s.out EXCEPT ![v] = s.out[v] - u]
      /\ x.bal = [s.bal EXCEPT ![a] = s.bal[a] + n]
  BY ONLY <1>1, <1>4 DEF SameBut, IsStore, StoreFields
<1>6. /\ x.val = s.val /\ x.del = s.del /\ x.slash = s.slash /\ x.start = s.start
      /\ x.hist = s.hist /\ x.cur = s.cur /\ x.pool = s.pool
  BY <1>5 DEF SameBut, StoreFields
<1>7. PICK c, r : c = 0 - u /\ r = 0
  OBVIOUS
<1>8. /\ \A w \in DOMAIN s.val : w # v => x.com[w] = s.com[w] /\ x.out[w] = s.out[w]
      /\ x.com[v] = s.com[v] + c /\ x.out[v] = s.out[v] + (c + r)
      /\ c \in Int /\ r \in Int
  BY <1>1, <1>2, <1>3, <1>5, <1>7
<1>9. s.cur[v].rewards \in Nat
  BY RunningRecorded DEF Settled, Running, Recorded, RefsOK, PeriodOK
<1>10. Shifted(s, x, v, c, r)
  BY <1>6, <1>7, <1>8, <1>9 DEF Shifted
<1>11. Running(x)
  BY CommissionRunning DEF Settled
<1> QED BY <1>3, <1>5, <1>6, <1>7, <1>8, <1>10, <1>11, ShiftSolvent

\* A block's reward is outstanding, a part of it as commission.
LEMMA AllocateSolvent ==
  ASSUME NEW s, Settled(s), NEW v \in DOMAIN s.val, NEW x, x = AllocateTokens(s, v, 1)
  PROVE  Settled(x)
<1>1. IsStore(s) /\ DOMAIN s.com = DOMAIN s.val /\ DOMAIN s.out = DOMAIN s.val
      /\ DOMAIN s.cur = DOMAIN s.val
  BY DEF Settled, Running, RunningWith, Keyed
<1>2. PICK c, r : c = Unit \div 4 /\ r = Unit - c
  OBVIOUS
<1>3. c \in Int /\ r \in Int /\ c + r = Unit /\ 1 * Unit = Unit
  BY <1>2, StakingAssumption
<1>4. x = [s EXCEPT !.com[v] = s.com[v] + c, !.cur[v].rewards = s.cur[v].rewards + r,
                    !.out[v] = s.out[v] + Unit, !.held = s.held + Unit,
                    !.supply = s.supply + 1]
  BY <1>2, <1>3 DEF AllocateTokens
<1>5. /\ SameBut(s, x, {"com", "cur", "out", "held", "supply"})
      /\ x.com = [s.com EXCEPT ![v] = s.com[v] + c]
      /\ x.cur = [s.cur EXCEPT ![v].rewards = s.cur[v].rewards + r]
      /\ x.out = [s.out EXCEPT ![v] = s.out[v] + Unit]
  BY ONLY <1>1, <1>4 DEF SameBut, IsStore, StoreFields
<1>6. /\ x.val = s.val /\ x.del = s.del /\ x.slash = s.slash /\ x.start = s.start
      /\ x.hist = s.hist
  BY <1>5 DEF SameBut, StoreFields
<1>7. s.cur[v] \in [rewards : Nat, period : Nat \ {0}]
  BY RunningRecorded DEF Settled, Running, Recorded, RefsOK, PeriodOK
<1>8. x.cur[v].period = s.cur[v].period /\ x.cur[v].rewards = s.cur[v].rewards + r
  BY <1>1, <1>5, <1>7
<1>9. /\ \A w \in DOMAIN s.val : w # v =>
           x.cur[w] = s.cur[w] /\ x.com[w] = s.com[w] /\ x.out[w] = s.out[w]
      /\ x.com[v] = s.com[v] + c /\ x.out[v] = s.out[v] + (c + r)
  BY <1>1, <1>3, <1>5
<1>10. Shifted(s, x, v, c, r)
  BY <1>3, <1>6, <1>8, <1>9 DEF Shifted
<1>11. Running(x)
  BY AllocateRunning DEF Settled
<1> QED BY <1>10, <1>11, ShiftSolvent

\* A validator that returns owes what it did.
LEMMA UnjailSolvent ==
  ASSUME NEW s, Settled(s), NEW v \in s.queue, NEW x, x = Unjail(s, v)
  PROVE  Settled(x)
<1>1. /\ IsStore(s) /\ v \in DOMAIN s.val /\ s.val \in [DOMAIN s.val -> ValType]
      /\ s.com[v] \in Nat /\ s.out[v] \in Int
  BY DEF Settled, Running, RunningWith, Keyed, Indexed, Coins
<1>2. SameBut(s, x, {"val", "power", "last", "queue"})
      /\ x.val = [s.val EXCEPT ![v].jailed = FALSE]
  BY <1>1 DEF Unjail, SameBut, IsStore, StoreFields
<1>3. /\ x.del = s.del /\ x.slash = s.slash /\ x.start = s.start /\ x.hist = s.hist
      /\ x.cur = s.cur /\ x.com = s.com /\ x.out = s.out
  BY <1>2 DEF SameBut, StoreFields
<1>4. /\ DOMAIN x.val = DOMAIN s.val
      /\ \A w \in DOMAIN s.val :
           x.val[w].tokens = s.val[w].tokens /\ x.val[w].shares = s.val[w].shares
  BY <1>1, <1>2 DEF ValType
<1>5. s.cur[v].rewards \in Nat
  BY <1>1, RunningRecorded DEF Settled, Running, Recorded, RefsOK, PeriodOK
<1>6. Shifted(s, x, v, 0, 0)
  BY <1>1, <1>3, <1>4, <1>5 DEF Shifted
<1>7. Running(x)
  BY UnjailRunning DEF Settled
<1> QED BY <1>1, <1>6, <1>7, ShiftSolvent

\* A slash halves the tokens and the stakes.
LEMMA SlashSolvent ==
  ASSUME NEW s, Settled(s), NEW v \in s.last, s.val[v].tokens % 2 = 0,
         NEW height \in 0 .. 1, NEW x, x = SlashAndJail(s, v, height)
  PROVE  Settled(x)
<1>1. PICK K : K = DOMAIN s.del
  OBVIOUS
<1>2. /\ Running(s) /\ RunningWith(s, K) /\ K \subseteq DOMAIN s.del /\ Solvent(s, K)
      /\ IsStore(s) /\ v \in DOMAIN s.val /\ DOMAIN s.cur = DOMAIN s.val
      /\ HistOK(s, DOMAIN s.val, K) /\ DOMAIN s.slash = Val /\ v \in Val
  BY <1>1 DEF Settled, Running, RunningWith, Keyed, Indexed
<1>3. /\ Recorded(s, v, K) /\ MayEnd(s, v) /\ Sharing(s, v) /\ SolventAt(s, v, K)
      /\ IsFiniteSet(K)
  BY <1>2, RunningRecorded DEF Solvent
<1>4. PICK y, z, n : /\ y = IncrementValidatorPeriod(s, v) /\ n = s.cur[v].period
                     /\ z = BeforeValidatorSlashed(s, v)
  OBVIOUS
<1>5. /\ SolventAt(y, v, K) /\ Recorded(y, v, K) /\ y.cur[v].rewards = 0
      /\ SameBut(s, y, {"hist", "cur"})
  BY <1>1, <1>3, <1>4, EndSolvent
<1>6. /\ y.cur = [s.cur EXCEPT ![v] = [rewards |-> 0, period |-> n + 1]]
      /\ \A w, q : HistOf(y, w, q) = Ended(s, v, w, q)
  <2>1. DOMAIN s.val \subseteq DOMAIN s.cur
    BY <1>2
  <2> QED BY <1>2, <1>3, <1>4, <2>1, PeriodHist
<1>7. /\ HistOK(z, DOMAIN s.val, K) /\ SameBut(s, z, {"hist", "cur", "slash"})
      /\ DOMAIN z.hist \subseteq DOMAIN s.hist \cup {<<v, n>>}
      /\ z.cur = [s.cur EXCEPT ![v] = [rewards |-> 0, period |-> n + 1]]
      /\ z.slash = [s.slash EXCEPT ![v] = Append(s.slash[v], n)]
      /\ n \in Nat
      /\ \A w, q : HistOf(z, w, q).ratio = Ended(s, v, w, q).ratio
      /\ \A w, q : w # v => HistOf(z, w, q) = HistOf(s, w, q)
  <2>1. DOMAIN s.val \subseteq DOMAIN s.cur /\ v \in DOMAIN s.slash
        /\ s.val[v].tokens \in Nat \ {0}
    BY <1>2, <1>3 DEF Sharing
  <2> QED BY <1>2, <1>4, <2>1, SlashHist
<1>8. PICK b, h : b = s.val[v] /\ h = b.tokens \div 2
  OBVIOUS
<1>9. PICK c : c = [b EXCEPT !.tokens = h, !.jailed = TRUE, !.height = height]
  OBVIOUS
<1>10. c.shares = b.shares /\ c.tokens = h
  <2>1. b \in ValType
    BY <1>2, <1>8 DEF RunningWith, Keyed
  <2> QED BY <1>9, <2>1 DEF ValType
<1>11. /\ z.val = s.val /\ z.power = s.power /\ z.last = s.last /\ z.queue = s.queue
       /\ IsStore(z) /\ z.del = s.del /\ z.com = s.com /\ z.out = s.out /\ z.start = s.start
  BY <1>2, <1>7 DEF SameBut, StoreFields
<1>12. x = [z EXCEPT !.val[v] = c, !.power = s.power \ {v}, !.last = s.last \ {v},
                     !.queue = s.queue \cup {v}]
  BY <1>4, <1>8, <1>9 DEF SlashAndJail
<1>13. SameBut(z, x, {"val", "power", "last", "queue"}) /\ x.val = [s.val EXCEPT ![v] = c]
  BY ONLY <1>11, <1>12 DEF SameBut, IsStore, StoreFields
<1>14. /\ x.del = s.del /\ x.com = s.com /\ x.out = s.out /\ x.start = s.start
       /\ x.hist = z.hist /\ x.slash = z.slash /\ x.cur = z.cur
  BY <1>11, <1>13 DEF SameBut, StoreFields
<1>15. /\ DOMAIN x.val = DOMAIN s.val /\ x.val[v].shares = b.shares /\ x.val[v].tokens = h
       /\ \A u \in DOMAIN s.val : u # v => x.val[u] = s.val[u]
  BY <1>2, <1>10, <1>13
<1>16. Running(x)
  BY <1>2, SlashRunning
<1>17. Recorded(x, v, K)
  BY <1>1, <1>2, <1>14, <1>15, <1>16, RunningRecorded DEF Running
<1>18. /\ y.start = s.start /\ y.slash = s.slash /\ y.val = s.val /\ y.del = s.del
       /\ y.com = s.com /\ y.out = s.out
  BY <1>5 DEF SameBut, StoreFields
<1>19. /\ x.cur[v].rewards = 0 /\ x.cur[v].period = n + 1 /\ y.cur[v].period = n + 1
       /\ x.slash[v] = Append(y.slash[v], n)
  BY <1>2, <1>6, <1>7, <1>14, <1>18
<1>20. \A w, q : HistOf(x, w, q) = HistOf(z, w, q)
  BY <1>14 DEF HistOf
<1>21. RatiosKept(y, x, v)
  BY <1>6, <1>7, <1>20 DEF RatiosKept
<1>22. ASSUME NEW k \in DelsTo(K, v)
       PROVE  LastOf(x, k).stake = LastOf(y, k).stake \div 2 /\ Owed(x, k) = Owed(y, k)
  <2>1. y.start[k].prev < n
    <3>1. s.start[k].prev \in 0 .. n - 1
      BY <1>3, <1>4, <1>22 DEF DelsTo, Recorded, RefsOK, StartsOK
    <3> QED BY <1>7, <1>18, <3>1
  <2>2. y.cur[v].period - 1 = n /\ x.cur[v].period - 1 = n /\ x.start[k] = y.start[k]
    BY <1>7, <1>14, <1>18, <1>19
  <2>3. Recorded(y, v, K) /\ Recorded(x, v, K) /\ RatiosKept(y, x, v) /\ n \in Nat
    BY <1>5, <1>7, <1>17, <1>21
  <2> QED BY ONLY <1>19, <1>22, <2>1, <2>2, <2>3, OwedSlashed
<1>23. ASSUME NEW k \in DelsTo(K, v) PROVE Fair(x, k)
  <2>1. PICK t, q : t = LastOf(y, k).stake /\ q = s.del[k]
    OBVIOUS
  <2>2. k[2] = v /\ k \in K
    BY <1>23 DEF DelsTo
  <2>3. Fair(y, k)
    BY <1>5, <1>23 DEF SolventAt
  <2>4. t * b.shares <= q * b.tokens /\ Owed(y, k) >= 0
    BY <1>8, <1>18, <2>1, <2>2, <2>3 DEF Fair
  <2>5. t \in Nat
    BY <1>5, <1>23, <2>1, OwedType DEF Stretch
  <2>6. q \in Nat
    BY <1>1, <1>3, <2>1, <2>2 DEF Sharing, DelTyped
  <2>7. b.shares \in Nat /\ b.tokens \in Nat /\ b.tokens % 2 = 0
    BY <1>3, <1>8 DEF Sharing
  <2>8. (t \div 2) * b.shares <= q * h
    BY <1>8, <2>4, <2>5, <2>6, <2>7, HalfStake
  <2> QED BY <1>14, <1>15, <1>22, <1>23, <2>1, <2>2, <2>4, <2>8 DEF Fair
<1>24. Covered(x, v, K)
  <2>1. [k \in DelsTo(K, v) |-> Owed(x, k)] = [k \in DelsTo(K, v) |-> Owed(y, k)]
    BY <1>22
  <2>2. OwedBy(x, v, K) = OwedBy(y, v, K)
    BY <2>1 DEF OwedBy
  <2> QED BY <1>5, <1>14, <1>18, <1>19, <2>2 DEF SolventAt, Covered
<1>25. Elsewhere(s, x, v, DOMAIN s.val, DOMAIN s.del)
  <2>1. HistTyped(x)
    BY <1>17 DEF Recorded
  <2>2. \A w \in DOMAIN s.val : w # v => x.cur[w] = s.cur[w] /\ x.slash[w] = s.slash[w]
    BY <1>2, <1>7, <1>14
  <2> QED BY <1>7, <1>14, <1>15, <1>20, <2>1, <2>2 DEF Elsewhere
<1>26. SolventAt(x, v, DOMAIN x.del)
  BY <1>1, <1>14, <1>23, <1>24 DEF SolventAt
<1>27. Solvent(x, DOMAIN x.del)
  BY <1>14, <1>15, <1>25, <1>26, SolventStep
<1> QED BY <1>16, <1>27 DEF Settled

-----------------------------------------------------------------------------
(***************************************************************************)
(* The inductive invariant, by the part of the command.                    *)
(***************************************************************************)
Export == {"commission", "rewards", "clear", "validators", "delegations",
           "heights", "jail", "apply", "signing", "exported"}
InPlace == {"remove", "create", "fund", "started", "exited"}

ArgsOK ==
  /\ args.op \in Val \cup {BadAddr}
  /\ pc \in {"create", "fund", "started"} => args.op # BadAddr
  /\ args.accounts \in Seq(Account \cup {BadAddr})

\* Paying leaves the staking records.
Staked == {"val", "power", "last", "queue", "del", "entry", "slash", "sign", "supply", "panic"}
PayingOK ==
  pc \in {"commission", "rewards", "clear"} =>
    /\ Running(st)
    /\ \A f \in Staked : st[f] = old[f]
    /\ pc = "commission" => work \subseteq DOMAIN st.val
    /\ pc = "rewards" => work \subseteq DOMAIN st.del
    /\ pc = "clear" => work = {}

Cleaned(s) == \A v \in Val : s.slash[v] = <<>>
\* Commission is not negative, ratios have referrers, only delegations start.
Formed(s) ==
  /\ \A v \in DOMAIN s.out : s.com[v] >= 0
  /\ \A k \in DOMAIN s.hist : s.hist[k].refs \in 1 .. 3
  /\ DOMAIN s.start \subseteq DOMAIN s.del
RebuiltOK ==
  /\ pc = "validators" =>
       /\ Keyed(st, DOMAIN st.del) /\ Shared(st) /\ Coins(st) /\ Indexed(st)
       /\ Cleaned(st) /\ st.power = old.power
       /\ work \subseteq DOMAIN st.val
       /\ HistIn(st, DOMAIN st.val \ work) /\ HistOK(st, DOMAIN st.val \ work, {})
       /\ \A v \in DOMAIN st.val \ work : st.out[v] = 0
  /\ pc \in {"delegations", "heights", "jail", "apply", "signing", "exported"} =>
       /\ Keyed(st, DOMAIN st.del) /\ Shared(st) /\ Coins(st)
       /\ Cleaned(st) /\ st.power = old.power
       /\ \A v \in DOMAIN st.val : st.out[v] = 0
       /\ HistIn(st, DOMAIN st.val)
  /\ pc = "delegations" =>
       /\ Indexed(st)
       /\ work \subseteq DOMAIN st.del
       /\ HistOK(st, DOMAIN st.val, DOMAIN st.del \ work)
       /\ \A k \in DOMAIN st.del \ work : st.start[k].height = 0
  /\ pc \in {"heights", "jail", "apply", "signing", "exported"} =>
       /\ work = {}
       /\ HistOK(st, DOMAIN st.val, DOMAIN st.del)
       /\ \A k \in DOMAIN st.del : st.start[k].height = 0
  /\ pc \in {"heights", "jail"} => Indexed(st)
  /\ pc \in {"jail", "apply", "signing", "exported"} =>
       \A k \in DOMAIN st.entry : st.entry[k] = 0
  /\ pc \in {"apply", "signing", "exported"} =>
       /\ \A v \in DOMAIN st.val : st.val[v].height = 0
       /\ st.power \cup st.last \subseteq DOMAIN st.val
       /\ \A v \in st.power : st.val[v].jailed =>
            args.allowed # {} /\ v \notin args.allowed
  /\ pc \in {"signing", "exported"} => \A v \in st.power : ~st.val[v].jailed
  /\ pc = "exported" => \A v \in DOMAIN st.sign : st.sign[v] = 0
  /\ pc = "panicked" => Formed(st)

Counted == DOMAIN st.cur \ (IF Reused THEN {args.op} ELSE {})
PlacedOK ==
  /\ pc = "remove" => st = old
  /\ pc \in {"create", "fund", "started"} =>
       /\ IsStore(st) /\ st.panic = FALSE
       /\ \A f \in {"start", "del", "slash"} : st[f] = old[f]
       /\ HistOK(st, Counted, DOMAIN st.start)
       /\ st.bal \in [Account -> Int] /\ st.supply \in Int
       /\ DOMAIN st.cur = DOMAIN old.cur \cup (IF pc = "create" THEN {} ELSE {args.op})
  /\ pc = "create" => st = Removed(old)
  /\ pc \in {"fund", "started"} =>
       /\ DOMAIN st.val = {args.op} /\ ~st.val[args.op].jailed
       /\ st.power = {args.op} /\ st.last = {args.op} /\ st.queue = {}
       /\ work \subseteq 1 .. Len(args.accounts)
       /\ \A a \in Account :
            st.bal[a] = old.bal[a] + Grant *
              Cardinality({k \in (1 .. Len(args.accounts)) \ work : args.accounts[k] = a})
       /\ \A v \in DOMAIN st.out : st.com[v] >= 0
  /\ pc = "started" => work = {}
  /\ pc = "exited" => st = old

CommandInv ==
  /\ pc \in {"chain", "panicked"} \cup Export \cup InPlace
  /\ pc = "chain" => Running(st)
  /\ pc # "chain" => Running(old)
  /\ ArgsOK
  /\ PayingOK
  /\ RebuiltOK
  /\ PlacedOK
  /\ PanicExplained

\* Records of a kind each are formed.
LEMMA KeyedFormed ==
  ASSUME NEW s, NEW K, Keyed(s, K), K \subseteq DOMAIN s.del, Coins(s), HistTyped(s)
  PROVE  Formed(s) /\ s.panic = FALSE
<1>1. \A v \in DOMAIN s.out : s.com[v] >= 0
  BY DEF Keyed, Coins
<1>2. \A k \in DOMAIN s.hist : s.hist[k].refs \in 1 .. 3
  BY DEF HistTyped, Ratio
<1> QED BY <1>1, <1>2 DEF Formed, Keyed

-----------------------------------------------------------------------------
(***************************************************************************)
(* CommandInv is inductive: the beginning and the chain.                   *)
(***************************************************************************)
\* The chain begins with one validator.
LEMMA InitInv == Init => CommandInv
<1>1. SUFFICES ASSUME Init PROVE CommandInv
  OBVIOUS
<1>2. Running(st)
  <2>1. PICK v \in Val : st = CreateValidator(Empty, v, 1)
    BY <1>1 DEF Init, Height
  <2>2. v \notin DOMAIN Empty.val
    BY DEF Empty
  <2>3. 1 \in 0 .. 1
    OBVIOUS
  <2> QED BY <2>1, <2>2, <2>3, EmptyRunning, CreateRunning
<1>3. pc = "chain" /\ args = NoArgs
  BY <1>1 DEF Init
<1>4. ArgsOK
  <2>1. args.op = BadAddr /\ args.accounts = <<>>
    BY <1>3 DEF NoArgs
  <2> QED BY <1>3, <2>1 DEF ArgsOK
<1>5. PayingOK /\ RebuiltOK /\ PlacedOK /\ PanicExplained
  BY <1>3 DEF PayingOK, RebuiltOK, PlacedOK, PanicExplained
<1> QED BY <1>2, <1>3, <1>4, <1>5 DEF CommandInv

\* A step of the chain.
LEMMA ChainRuns ==
  ASSUME Running(st), Chain
  PROVE  /\ Running(st') /\ pc = "chain"
         /\ UNCHANGED <<pc, work, args, old>>
<1>1. 1 \in 0 .. 1
  OBVIOUS
<1>2. CASE \E v \in Val \ DOMAIN st.val : Block(CreateValidator(st, v, Height))
  BY <1>1, <1>2, CreateRunning DEF Block, Height
<1>3. CASE \E v \in DOMAIN st.val, d \in Account : Block(Delegate(st, d, v, Height))
  BY <1>1, <1>3, DelegateRunning DEF Block, Height
<1>4. CASE \E k \in DOMAIN st.del : Block(WithdrawDelegationRewards(st, k[1], k[2], Height))
  BY <1>1, <1>4, WithdrawRewardsRunning DEF Block, Height
<1>5. CASE \E k \in DOMAIN st.del :
             k[1] # OperatorOf[k[2]] /\ Block(Undelegate(st, k[1], k[2], Height))
  <2>1. PICK k \in DOMAIN st.del :
             k[1] # OperatorOf[k[2]] /\ Block(Undelegate(st, k[1], k[2], Height))
    BY <1>5
  <2>2. PICK d \in Account, v \in DOMAIN st.val : k = <<d, v>>
    BY DEF Running, RunningWith, Keyed
  <2>3. d # OperatorOf[v] /\ st' = Undelegate(st, d, v, Height)
    BY <2>1, <2>2 DEF Block
  <2>4. Running(st')
    BY <2>2, <2>3, UndelegateRunning
  <2> QED BY <2>1, <2>4 DEF Block
<1>6. CASE \E v \in st.last : Block(AllocateTokens(st, v, 1))
  <2>1. st.last \subseteq DOMAIN st.val
    BY DEF Running, RunningWith, Indexed
  <2> QED BY <1>6, <2>1, AllocateRunning DEF Block
<1>7. CASE \E v \in st.last : /\ st.val[v].tokens % 2 = 0
                              /\ Block(SlashAndJail(st, v, Height))
  BY <1>1, <1>7, SlashRunning DEF Block, Height
<1>8. CASE \E v \in st.queue : Block(Unjail(st, v))
  BY <1>8, UnjailRunning DEF Block
<1> QED BY <1>2, <1>3, <1>4, <1>5, <1>6, <1>7, <1>8 DEF Chain

\* The chain's steps.
LEMMA ChainInv ==
  ASSUME CommandInv, Chain
  PROVE  CommandInv'
<1>1. pc = "chain"
  BY DEF Chain, Block
<1>2. Running(st') /\ UNCHANGED <<pc, work, args, old>>
  BY <1>1, ChainRuns DEF CommandInv
<1>3. ArgsOK'
  BY <1>2 DEF CommandInv, ArgsOK
<1>4. PayingOK' /\ RebuiltOK' /\ PlacedOK' /\ PanicExplained'
  BY <1>1, <1>2 DEF PayingOK, RebuiltOK, PlacedOK, PanicExplained
<1>5. pc' = "chain"
  BY <1>1, <1>2
<1> QED BY <1>2, <1>3, <1>4, <1>5 DEF CommandInv

\* The export begins.
LEMMA BeginExportInv ==
  ASSUME CommandInv, BeginExport
  PROVE  CommandInv'
<1>1. PICK allowed \in AllowedLists :
        /\ args' = [NoArgs EXCEPT !.allowed = allowed]
        /\ pc' = IF BadAddr \in allowed THEN "panicked" ELSE "commission"
  BY DEF BeginExport
<1>2. pc = "chain" /\ work' = DOMAIN st.val /\ old' = st /\ st' = st
  BY DEF BeginExport
<1>3. args'.allowed = allowed /\ args'.op = BadAddr /\ args'.accounts = <<>>
  BY <1>1 DEF NoArgs
<1>4. Running(st') /\ Running(old')
  BY <1>2 DEF CommandInv
<1>5. ArgsOK'
  <2>1. <<>> \in Seq(Account \cup {BadAddr})
    OBVIOUS
  <2>2. pc' \notin {"create", "fund", "started"}
    BY <1>1
  <2> QED BY <1>3, <2>1, <2>2 DEF ArgsOK
<1>6. PayingOK'
  BY <1>1, <1>2, <1>4 DEF PayingOK
<1>7. RebuiltOK' /\ PlacedOK'
  <2>1. Formed(st')
    BY <1>4, KeyedFormed DEF Running, RunningWith, HistOK
  <2> QED BY <1>1, <2>1 DEF RebuiltOK, PlacedOK
<1>8. PanicExplained'
  BY <1>1, <1>3 DEF PanicExplained
<1>9. pc' \in {"commission", "panicked"}
  BY <1>1
<1> QED BY <1>4, <1>5, <1>6, <1>7, <1>8, <1>9 DEF CommandInv, Export

\* The in-place command begins.
LEMMA BeginInPlaceInv ==
  ASSUME CommandInv, BeginInPlace
  PROVE  CommandInv'
<1>1. PICK op \in Val \cup {BadAddr}, list \in FundLists :
        args' = [NoArgs EXCEPT !.op = op, !.accounts = Split(list)]
  BY DEF BeginInPlace
<1>2. pc = "chain" /\ pc' = "remove" /\ old' = st /\ st' = st
  BY DEF BeginInPlace
<1>3. args'.op = op /\ args'.accounts = Split(list)
  BY <1>1 DEF NoArgs
<1>4. Running(old')
  BY <1>2 DEF CommandInv
<1>5. ArgsOK'
  <2>1. list \in Seq(Account \cup {BadAddr})
    BY OperatorAssumption
  <2>2. <<BadAddr>> \in Seq(Account \cup {BadAddr})
    OBVIOUS
  <2>3. Split(list) \in Seq(Account \cup {BadAddr})
    BY <2>1, <2>2, Zenon DEF Split
  <2> QED BY <1>2, <1>3, <2>3 DEF ArgsOK
<1>6. PayingOK' /\ RebuiltOK' /\ PlacedOK' /\ PanicExplained'
  BY <1>2 DEF PayingOK, RebuiltOK, PlacedOK, PanicExplained
<1> QED BY <1>2, <1>4, <1>5, <1>6 DEF CommandInv, InPlace

-----------------------------------------------------------------------------
(***************************************************************************)
(* The export.                                                             *)
(***************************************************************************)
\* What no step of a command changes, and what depends only on that.
LEMMA CommandFrame ==
  ASSUME CommandInv, pc # "chain", UNCHANGED <<args, old>>,
         pc' \in {"panicked"} \cup Export, PayingOK', RebuiltOK', PanicExplained'
  PROVE  CommandInv'
<1>1. Running(old)'
  BY DEF CommandInv
<1>2. pc' \notin {"remove", "create", "fund", "started", "exited", "chain"}
  BY DEF Export
<1>3. ArgsOK'
  BY <1>2 DEF CommandInv, ArgsOK
<1>4. PlacedOK'
  BY <1>2 DEF PlacedOK
<1> QED BY <1>1, <1>2, <1>3, <1>4 DEF CommandInv

\* While it pays, nothing is rebuilt.
LEMMA PayingFrame ==
  ASSUME CommandInv, pc \in {"commission", "rewards"}, UNCHANGED <<args, old>>,
         pc' \in {"commission", "rewards", "clear"}, Running(st'),
         \A f \in Staked : st'[f] = st[f],
         pc' = "commission" => work' \subseteq DOMAIN st'.val,
         pc' = "rewards" => work' \subseteq DOMAIN st'.del,
         pc' = "clear" => work' = {}
  PROVE  CommandInv'
<1>1. PayingOK'
  BY DEF CommandInv, PayingOK
<1>2. pc' # "panicked" /\ pc' \in Export
  BY DEF Export
<1>3. RebuiltOK'
  BY DEF RebuiltOK
<1>4. PanicExplained'
  BY <1>2 DEF PanicExplained
<1>5. pc # "chain"
  OBVIOUS
<1> QED BY <1>1, <1>2, <1>3, <1>4, <1>5, CommandFrame

\* A pass that pays commission.
LEMMA WithdrawCommissionInv ==
  ASSUME CommandInv, WithdrawCommission
  PROVE  CommandInv'
<1>1. CASE \E v \in work : Pass("commission", v, WithdrawValidatorCommission(st, v))
  <2>1. PICK v \in work : Pass("commission", v, WithdrawValidatorCommission(st, v))
    BY <1>1
  <2>2. /\ pc = "commission" /\ st' = WithdrawValidatorCommission(st, v)
        /\ work' = work \ {v} /\ UNCHANGED <<args, old>>
        /\ pc' = IF st'.panic THEN "panicked" ELSE pc
    BY <2>1 DEF Pass
  <2>3. Running(st) /\ work \subseteq DOMAIN st.val
    BY <2>2 DEF CommandInv, PayingOK
  <2>4. Running(st') /\ SameBut(st, st', {"com", "out", "held", "bal"})
    BY <2>2, <2>3, CommissionRunning
  <2>5. (\A f \in Staked : st'[f] = st[f]) /\ st'.val = st.val /\ ~st'.panic
    BY <2>4 DEF SameBut, StoreFields, Staked, Running, RunningWith, Keyed
  <2>6. pc' = "commission"
    BY <2>2, <2>5
  <2>7. work' \subseteq DOMAIN st'.val
    BY <2>2, <2>3, <2>5
  <2> QED BY <2>2, <2>4, <2>5, <2>6, <2>7, PayingFrame
<1>2. CASE Go("commission", "rewards", st, DOMAIN st.del)
  <2>1. /\ pc = "commission" /\ st' = st /\ work' = DOMAIN st.del /\ UNCHANGED <<args, old>>
        /\ pc' = IF st.panic THEN "panicked" ELSE "rewards"
    BY <1>2 DEF Go
  <2>2. Running(st)
    BY <2>1 DEF CommandInv, PayingOK
  <2>3. pc' = "rewards"
    BY <2>1, <2>2 DEF Running, RunningWith, Keyed
  <2> QED BY <2>1, <2>2, <2>3, PayingFrame
<1> QED BY <1>1, <1>2 DEF WithdrawCommission

\* A pass that pays a delegation.
LEMMA WithdrawRewardsInv ==
  ASSUME CommandInv, WithdrawRewards
  PROVE  CommandInv'
<1>1. CASE \E k \in work :
             Pass("rewards", k, WithdrawDelegationRewards(st, k[1], k[2], Height))
  <2>1. PICK k \in work :
             Pass("rewards", k, WithdrawDelegationRewards(st, k[1], k[2], Height))
    BY <1>1
  <2>2. /\ pc = "rewards" /\ st' = WithdrawDelegationRewards(st, k[1], k[2], 1)
        /\ work' = work \ {k} /\ UNCHANGED <<args, old>>
        /\ pc' = IF st'.panic THEN "panicked" ELSE pc
    BY <2>1 DEF Pass, Height
  <2>3. Running(st) /\ work \subseteq DOMAIN st.del
    BY <2>2 DEF CommandInv, PayingOK
  <2>4. /\ Running(st')
        /\ SameBut(st, st', {"hist", "cur", "start", "held", "bal", "out", "pool"})
    <3>1. 1 \in 0 .. 1 /\ k \in DOMAIN st.del
      BY <2>3
    <3> QED BY <2>2, <2>3, <3>1, WithdrawRewardsRunning
  <2>5. (\A f \in Staked : st'[f] = st[f]) /\ st'.del = st.del /\ ~st'.panic
    BY <2>4 DEF SameBut, StoreFields, Staked, Running, RunningWith, Keyed
  <2>6. pc' = "rewards"
    BY <2>2, <2>5
  <2>7. work' \subseteq DOMAIN st'.del
    BY <2>2, <2>3, <2>5
  <2> QED BY <2>2, <2>4, <2>5, <2>6, <2>7, PayingFrame
<1>2. CASE Go("rewards", "clear", st, {})
  <2>1. /\ pc = "rewards" /\ st' = st /\ work' = {} /\ UNCHANGED <<args, old>>
        /\ pc' = IF st.panic THEN "panicked" ELSE "clear"
    BY <1>2 DEF Go
  <2>2. Running(st)
    BY <2>1 DEF CommandInv, PayingOK
  <2>3. pc' = "clear"
    BY <2>1, <2>2 DEF Running, RunningWith, Keyed
  <2> QED BY <2>1, <2>2, <2>3, PayingFrame
<1> QED BY <1>1, <1>2 DEF WithdrawRewards

\* While it rebuilds, nothing is paid.
LEMMA RebuildingFrame ==
  ASSUME CommandInv, pc # "chain", UNCHANGED <<args, old>>, RebuiltOK',
         pc' \in Export \ {"commission", "rewards", "clear"}
  PROVE  CommandInv'
<1>1. PayingOK'
  BY DEF PayingOK
<1>2. pc' # "panicked" /\ pc' \in Export
  BY DEF Export
<1>3. PanicExplained'
  BY <1>2 DEF PanicExplained
<1> QED BY <1>1, <1>2, <1>3, CommandFrame

\* Slash events and ratios are gone.
LEMMA ClearInv ==
  ASSUME CommandInv, Clear
  PROVE  CommandInv'
<1>1. PICK x : x = Cleared(st)
  OBVIOUS
<1>2. /\ pc = "clear" /\ st' = x /\ work' = DOMAIN st.val /\ UNCHANGED <<args, old>>
      /\ pc' = IF x.panic THEN "panicked" ELSE "validators"
  BY <1>1 DEF Clear, Go
<1>3. /\ Running(st) /\ \A f \in Staked : st[f] = old[f]
      /\ Keyed(st, DOMAIN st.del) /\ Indexed(st) /\ Shared(st) /\ Coins(st) /\ IsStore(st)
  BY <1>2 DEF CommandInv, PayingOK, Running, RunningWith, Keyed
<1>4. st.power = old.power
  BY <1>3 DEF Staked
<1>5. /\ SameBut(st, x, {"slash", "hist"}) /\ x.slash = [v \in Val |-> <<>>]
      /\ x.hist = <<>>
  BY <1>1, <1>3 DEF Cleared, SameBut, IsStore, StoreFields
<1>6. /\ x.val = st.val /\ x.del = st.del /\ x.power = st.power /\ x.last = st.last
      /\ x.queue = st.queue /\ x.com = st.com /\ x.out = st.out /\ x.cur = st.cur
      /\ x.sign = st.sign /\ x.start = st.start /\ x.panic = st.panic /\ x.pool = st.pool
      /\ x.held = st.held /\ x.supply = st.supply /\ x.bal = st.bal /\ IsStore(x)
  BY <1>5 DEF SameBut, StoreFields
<1>7. Keyed(x, DOMAIN x.del)
  BY <1>3, <1>5, <1>6 DEF Keyed
<1>8. Indexed(x) /\ Shared(x)
  BY <1>3, <1>6, StakeFrame
<1>9. Coins(x) /\ Cleaned(x)
  BY <1>3, <1>5, <1>6 DEF Coins, Cleaned
<1>10. pc' = "validators"
  BY <1>2, <1>7 DEF Keyed
<1>11. DOMAIN x.val \ work' = {}
  BY <1>2, <1>6
<1>12. HistIn(x, {}) /\ HistOK(x, {}, {})
  BY <1>5, <1>6 DEF HistIn, HistOK, HistTyped
<1>13. RebuiltOK'
  BY <1>2, <1>4, <1>6, <1>7, <1>8, <1>9, <1>10, <1>11, <1>12 DEF RebuiltOK
<1> QED BY <1>2, <1>10, <1>13, RebuildingFrame DEF Export

\* A pass that initializes a validator counts it.
LEMMA ReinitializeValidatorsInv ==
  ASSUME CommandInv, ReinitializeValidators
  PROVE  CommandInv'
<1>1. PICK W, K : W = DOMAIN st.val \ work /\ K = DOMAIN st.del
  OBVIOUS
<1>2. pc = "validators" /\ UNCHANGED <<args, old>>
  BY DEF ReinitializeValidators, Pass, Go
<1>3. /\ Keyed(st, K) /\ Shared(st) /\ Coins(st) /\ Indexed(st) /\ Cleaned(st)
      /\ st.power = old.power /\ work \subseteq DOMAIN st.val /\ IsStore(st)
      /\ HistIn(st, W) /\ HistOK(st, W, {}) /\ \A v \in W : st.out[v] = 0
  BY <1>1, <1>2 DEF CommandInv, RebuiltOK, Keyed
<1>4. CASE \E v \in work : Pass("validators", v, Reinitialize(st, v))
  <2>1. PICK v \in work : Pass("validators", v, Reinitialize(st, v))
    BY <1>4
  <2>2. PICK x, n, e : /\ x = Reinitialize(st, v) /\ e = st.out[v]
                       /\ n = [st EXCEPT !.pool = st.pool + e]
    OBVIOUS
  <2>3. /\ st' = x /\ work' = work \ {v}
        /\ pc' = IF x.panic THEN "panicked" ELSE pc
    BY <2>1, <2>2 DEF Pass
  <2>4. x = AfterValidatorCreated(n, v)
    BY <2>2 DEF Reinitialize
  <2>5. /\ SameBut(st, n, {"pool"}) /\ n.pool = st.pool + e
    BY <1>3, <2>2 DEF IsStore, SameBut, StoreFields
  <2>6. /\ n.hist = st.hist /\ n.start = st.start /\ n.slash = st.slash /\ n.cur = st.cur
        /\ n.com = st.com /\ n.out = st.out /\ IsStore(n)
    BY <2>5 DEF SameBut, StoreFields
  <2>7. v \in DOMAIN st.val /\ v \in Val /\ v \notin W /\ e \in Int
    BY <1>1, <1>3, <2>2 DEF Keyed, Coins
  <2>8. /\ HistOK(x, W \cup {v}, {}) /\ HistIn(x, W \cup {v})
        /\ SameBut(n, x, {"hist", "cur", "com", "out"})
        /\ x.cur = Put(st.cur, v, [rewards |-> 0, period |-> 1])
        /\ x.com = Put(st.com, v, 0) /\ x.out = Put(st.out, v, 0)
    <3>1. HistOK(n, W, {})
      BY <1>3, <2>6, HistFrame
    <3>2. HistIn(n, W) /\ W \subseteq DOMAIN n.cur /\ n.slash[v] = <<>>
      BY <1>1, <1>3, <2>6, <2>7 DEF HistIn, Keyed, Cleaned
    <3>3. \A k \in {} : k[2] \in W
      OBVIOUS
    <3> QED BY <2>4, <2>6, <2>7, <3>1, <3>2, <3>3, CreateHist
  <2>9. /\ x.val = st.val /\ x.del = st.del /\ x.power = st.power /\ x.last = st.last
        /\ x.queue = st.queue /\ x.start = st.start /\ x.slash = st.slash
        /\ x.panic = st.panic /\ x.held = st.held /\ x.supply = st.supply
        /\ x.bal = st.bal /\ x.sign = st.sign /\ x.pool = st.pool + e /\ IsStore(x)
    BY <2>5, <2>8 DEF SameBut, StoreFields
  <2>10. /\ DOMAIN x.cur = DOMAIN st.val /\ DOMAIN x.com = DOMAIN st.val
         /\ DOMAIN x.out = DOMAIN st.val
         /\ x.com \in [DOMAIN st.val -> Nat] /\ x.out \in [DOMAIN st.val -> Int]
         /\ x.out[v] = 0 /\ \A u \in W : x.out[u] = st.out[u]
    BY <1>1, <1>3, <2>7, <2>8 DEF Put, Keyed, Coins
  <2>11. Keyed(x, K)
    BY <1>3, <2>9, <2>10 DEF Keyed
  <2>12. Indexed(x) /\ Shared(x)
    BY <1>3, <2>9, StakeFrame
  <2>13. Coins(x)
    BY <1>3, <2>7, <2>9, <2>10 DEF Coins
  <2>14. Cleaned(x)
    BY <1>3, <2>9 DEF Cleaned
  <2>15. DOMAIN x.val \ work' = W \cup {v} /\ work' \subseteq DOMAIN x.val
    BY <1>1, <1>3, <2>3, <2>7, <2>9
  <2>16. \A u \in W \cup {v} : x.out[u] = 0
    BY <1>3, <2>10
  <2>17. pc' = "validators"
    BY <1>2, <2>3, <2>11 DEF Keyed
  <2>18. RebuiltOK'
    BY <1>1, <1>2, <1>3, <2>3, <2>8, <2>9, <2>11, <2>12, <2>13, <2>14, <2>15, <2>16,
       <2>17 DEF RebuiltOK
  <2> QED BY <1>2, <2>17, <2>18, RebuildingFrame DEF Export
<1>5. CASE Go("validators", "delegations", st, DOMAIN st.del)
  <2>1. /\ work = {} /\ st' = st /\ work' = DOMAIN st.del
        /\ pc' = IF st.panic THEN "panicked" ELSE "delegations"
    BY <1>5 DEF Go
  <2>2. W = DOMAIN st.val /\ pc' = "delegations" /\ DOMAIN st.del \ work' = {}
    BY <1>1, <1>3, <2>1 DEF Keyed
  <2>3. RebuiltOK'
    BY <1>1, <1>2, <1>3, <2>1, <2>2 DEF RebuiltOK
  <2> QED BY <1>2, <2>2, <2>3, RebuildingFrame DEF Export
<1> QED BY <1>4, <1>5 DEF ReinitializeValidators

\* A pass that starts a delegation counts it.
LEMMA ReinitializeDelegationsInv ==
  ASSUME CommandInv, ReinitializeDelegations
  PROVE  CommandInv'
<1>1. PICK W, K, D : W = DOMAIN st.val /\ D = DOMAIN st.del /\ K = D \ work
  OBVIOUS
<1>2. pc = "delegations" /\ UNCHANGED <<args, old>>
  BY DEF ReinitializeDelegations, Pass, Go
<1>3. /\ Keyed(st, D) /\ Shared(st) /\ Coins(st) /\ Indexed(st) /\ Cleaned(st)
      /\ st.power = old.power /\ work \subseteq D /\ IsStore(st)
      /\ HistIn(st, W) /\ HistOK(st, W, K) /\ \A v \in W : st.out[v] = 0
      /\ \A k \in K : st.start[k].height = 0
  BY <1>1, <1>2 DEF CommandInv, RebuiltOK, Keyed
<1>4. CASE \E k \in work :
             Pass("delegations", k, AfterDelegationModified(
               BeforeDelegationCreated(st, k[2]), k[1], k[2], HooksHeight))
  <2>1. PICK k \in work :
             Pass("delegations", k, AfterDelegationModified(
               BeforeDelegationCreated(st, k[2]), k[1], k[2], HooksHeight))
    BY <1>4
  <2>2. PICK d \in Account, v \in W : k = <<d, v>>
    BY <1>1, <1>3 DEF Keyed
  <2>3. PICK w, x, n : /\ w = IncrementValidatorPeriod(st, v)
                       /\ x = AfterDelegationModified(w, d, v, 0)
                       /\ n = st.cur[v].period
    OBVIOUS
  <2>4. /\ st' = x /\ work' = work \ {k}
        /\ pc' = IF x.panic THEN "panicked" ELSE pc
    BY <2>1, <2>2, <2>3 DEF Pass, BeforeDelegationCreated, HooksHeight
  <2>5. st.val[v].tokens \in Nat \ {0} /\ st.val[v].shares \in Nat \ {0}
    <3>1. st.val[v] \in ValType /\ SharedAt(st, v)
      BY <1>1, <1>3 DEF Shared, Keyed
    <3> QED BY <3>1 DEF SharedAt, ValType
  <2>6. /\ HistOK(w, W, K) /\ SameBut(st, w, {"hist", "cur"})
        /\ DOMAIN w.hist \subseteq DOMAIN st.hist \cup {<<v, n>>}
        /\ w.cur = [st.cur EXCEPT ![v] = [rewards |-> 0, period |-> n + 1]]
        /\ HistOf(w, v, n).refs = 1
        /\ n \in Nat /\ w.cur[v].period - 1 = n
    <3>1. W \subseteq DOMAIN st.cur /\ MayEnd(st, v)
      BY <1>1, <1>3, <2>5, TokensMayEnd DEF Keyed
    <3> QED BY <1>3, <2>3, <3>1, PeriodHist
  <2>7. /\ w.val = st.val /\ w.del = st.del /\ w.start = st.start /\ IsStore(w)
    BY <2>6 DEF SameBut, StoreFields
  <2>8. k \in D /\ k \notin K /\ K \subseteq DOMAIN w.start
    BY <1>1, <1>3, <2>7 DEF Keyed
  <2>9. PICK h : h = [prev |-> n, stake |-> Stake(w, d, v), height |-> 0]
    OBVIOUS
  <2>10. /\ HistOK(x, W, K \cup {k}) /\ SameBut(w, x, {"hist", "start"})
         /\ DOMAIN x.hist = DOMAIN w.hist /\ x.start = Put(st.start, k, h)
    <3>1. /\ HistOK(x, W, K \cup {<<d, v>>}) /\ SameBut(w, x, {"hist", "start"})
          /\ DOMAIN x.hist = DOMAIN w.hist
          /\ x.start = Put(w.start, <<d, v>>,
                           [prev |-> n, stake |-> Stake(w, d, v), height |-> 0])
      BY <2>2, <2>3, <2>6, <2>8, StartHist
    <3> QED BY <2>2, <2>7, <2>9, <3>1
  <2>11. h \in StartType
    <3>1. st.del[<<d, v>>] \in Nat
      BY <1>1, <1>3, <2>2, <2>8 DEF Shared, DelTyped
    <3>2. Stake(w, d, v) \in Nat
      BY <2>5, <2>7, <3>1, StakeType
    <3> QED BY <2>6, <2>9, <3>2 DEF StartType
  <2>12. /\ x.val = st.val /\ x.del = st.del /\ x.power = st.power /\ x.last = st.last
         /\ x.queue = st.queue /\ x.com = st.com /\ x.out = st.out /\ x.sign = st.sign
         /\ x.slash = st.slash /\ x.panic = st.panic /\ x.pool = st.pool
         /\ x.held = st.held /\ x.supply = st.supply /\ x.bal = st.bal
         /\ DOMAIN x.cur = DOMAIN st.cur /\ IsStore(x)
    BY <2>6, <2>10 DEF SameBut, StoreFields
  <2>13. /\ x.start \in [D -> StartType] /\ x.start[k].height = 0
         /\ \A l \in K : x.start[l] = st.start[l]
    <3>1. st.start \in [D -> StartType] /\ h.height = 0
      BY <1>3, <2>9 DEF Keyed
    <3>2. x.start = Put(st.start, k, h) /\ k \in D /\ k \notin K /\ K \subseteq D
      BY <1>1, <2>8, <2>10
    <3> QED BY <2>11, <3>1, <3>2 DEF Put
  <2>14. Keyed(x, D)
    BY <1>3, <2>12, <2>13 DEF Keyed
  <2>15. Indexed(x) /\ Shared(x)
    BY <1>3, <2>12, StakeFrame
  <2>16. Coins(x) /\ Cleaned(x)
    BY <1>3, <2>12 DEF Coins, Cleaned
  <2>17. HistIn(x, W)
    BY <1>3, <2>2, <2>6, <2>10 DEF HistIn
  <2>18. D \ work' = K \cup {k} /\ work' \subseteq D
    BY <1>1, <1>3, <2>4, <2>8
  <2>19. \A l \in K \cup {k} : x.start[l].height = 0
    BY <1>3, <2>13
  <2>20. pc' = "delegations"
    BY <1>2, <2>4, <2>14 DEF Keyed
  <2>21. RebuiltOK'
    BY <1>1, <1>2, <1>3, <2>4, <2>10, <2>12, <2>14, <2>15, <2>16, <2>17, <2>18, <2>19,
       <2>20 DEF RebuiltOK
  <2> QED BY <1>2, <2>20, <2>21, RebuildingFrame DEF Export
<1>5. CASE Go("delegations", "heights", st, {})
  <2>1. /\ work = {} /\ st' = st /\ work' = {}
        /\ pc' = IF st.panic THEN "panicked" ELSE "heights"
    BY <1>5 DEF Go
  <2>2. K = DOMAIN st.del /\ pc' = "heights"
    BY <1>1, <1>3, <2>1 DEF Keyed
  <2>3. RebuiltOK'
    BY <1>1, <1>2, <1>3, <2>1, <2>2 DEF RebuiltOK
  <2> QED BY <1>2, <2>2, <2>3, RebuildingFrame DEF Export
<1> QED BY <1>4, <1>5 DEF ReinitializeDelegations

\* The heights of entries.
LEMMA ResetEntriesInv ==
  ASSUME CommandInv, ResetEntries
  PROVE  CommandInv'
<1>1. PICK x : x = [st EXCEPT !.entry = [k \in DOMAIN st.entry |-> 0]]
  OBVIOUS
<1>2. /\ pc = "heights" /\ st' = x /\ work' = {} /\ UNCHANGED <<args, old>>
      /\ pc' = IF x.panic THEN "panicked" ELSE "jail"
  BY <1>1 DEF ResetEntries, Go
<1>3. /\ Keyed(st, DOMAIN st.del) /\ Shared(st) /\ Coins(st) /\ Indexed(st) /\ Cleaned(st)
      /\ st.power = old.power /\ IsStore(st) /\ HistIn(st, DOMAIN st.val)
      /\ HistOK(st, DOMAIN st.val, DOMAIN st.del)
      /\ \A v \in DOMAIN st.val : st.out[v] = 0
      /\ \A k \in DOMAIN st.del : st.start[k].height = 0
  BY <1>2 DEF CommandInv, RebuiltOK, Keyed
<1>4. SameBut(st, x, {"entry"}) /\ x.entry = [k \in DOMAIN st.entry |-> 0]
  BY <1>1, <1>3 DEF IsStore, SameBut, StoreFields
<1>5. /\ x.val = st.val /\ x.del = st.del /\ x.power = st.power /\ x.last = st.last
      /\ x.queue = st.queue /\ x.com = st.com /\ x.out = st.out /\ x.cur = st.cur
      /\ x.sign = st.sign /\ x.start = st.start /\ x.slash = st.slash
      /\ x.hist = st.hist /\ x.panic = st.panic /\ x.pool = st.pool
      /\ x.held = st.held /\ x.supply = st.supply /\ x.bal = st.bal /\ IsStore(x)
  BY <1>4 DEF SameBut, StoreFields
<1>6. Keyed(x, DOMAIN x.del)
  BY <1>3, <1>5 DEF Keyed
<1>7. Indexed(x) /\ Shared(x)
  BY <1>3, <1>5, StakeFrame
<1>8. Coins(x) /\ Cleaned(x) /\ HistIn(x, DOMAIN x.val)
  BY <1>3, <1>5 DEF Coins, Cleaned, HistIn
<1>9. HistOK(x, DOMAIN x.val, DOMAIN x.del)
  BY <1>3, <1>5, HistFrame
<1>10. pc' = "jail"
  BY <1>2, <1>6 DEF Keyed
<1>11. RebuiltOK'
  BY <1>2, <1>3, <1>4, <1>5, <1>6, <1>7, <1>8, <1>9, <1>10 DEF RebuiltOK
<1> QED BY <1>2, <1>10, <1>11, RebuildingFrame DEF Export

\* The validators' heights, and who is jailed.
LEMMA ResetValidatorsInv ==
  ASSUME CommandInv, ResetValidators
  PROVE  CommandInv'
<1>1. PICK W, f : /\ W = DOMAIN st.val
                  /\ f = [v \in W |-> [st.val[v] EXCEPT !.height = 0, !.jailed = Jailed(v)]]
  OBVIOUS
<1>2. PICK x : x = [st EXCEPT !.val = f]
  OBVIOUS
<1>3. /\ pc = "jail" /\ st' = x /\ work' = {} /\ UNCHANGED <<args, old>>
      /\ pc' = IF x.panic THEN "panicked" ELSE "apply"
  BY <1>1, <1>2 DEF ResetValidators, Go
<1>4. /\ Keyed(st, DOMAIN st.del) /\ Shared(st) /\ Coins(st) /\ Indexed(st) /\ Cleaned(st)
      /\ st.power = old.power /\ IsStore(st) /\ HistIn(st, W)
      /\ HistOK(st, W, DOMAIN st.del)
      /\ \A v \in W : st.out[v] = 0
      /\ \A k \in DOMAIN st.del : st.start[k].height = 0
      /\ \A k \in DOMAIN st.entry : st.entry[k] = 0
  BY <1>1, <1>3 DEF CommandInv, RebuiltOK, Keyed
<1>5. SameBut(st, x, {"val"}) /\ x.val = f
  BY <1>2, <1>4 DEF IsStore, SameBut, StoreFields
<1>6. /\ x.del = st.del /\ x.power = st.power /\ x.last = st.last
      /\ x.queue = st.queue /\ x.com = st.com /\ x.out = st.out /\ x.cur = st.cur
      /\ x.sign = st.sign /\ x.start = st.start /\ x.slash = st.slash /\ x.entry = st.entry
      /\ x.hist = st.hist /\ x.panic = st.panic /\ x.pool = st.pool
      /\ x.held = st.held /\ x.supply = st.supply /\ x.bal = st.bal /\ IsStore(x)
  BY <1>5 DEF SameBut, StoreFields
<1>7. /\ DOMAIN x.val = W /\ x.val \in [W -> ValType]
      /\ \A v \in W : /\ x.val[v].tokens = st.val[v].tokens
                      /\ x.val[v].shares = st.val[v].shares
                      /\ x.val[v].height = 0 /\ x.val[v].jailed = Jailed(v)
  <2>1. \A v \in W : st.val[v] \in ValType
    BY <1>1, <1>4 DEF Keyed
  <2>2. \A v \in W : Jailed(v) \in BOOLEAN
    BY <2>1 DEF Jailed, ValType
  <2>3. ASSUME NEW v \in W
        PROVE  /\ f[v] \in ValType /\ f[v].tokens = st.val[v].tokens
               /\ f[v].shares = st.val[v].shares
               /\ f[v].height = 0 /\ f[v].jailed = Jailed(v)
    <3>1. PICK r, j : r = st.val[v] /\ j = Jailed(v)
      OBVIOUS
    <3>2. r \in ValType /\ j \in BOOLEAN
      BY <2>1, <2>2, <3>1
    <3>3. f[v] = [r EXCEPT !.height = 0, !.jailed = j]
      BY <1>1, <3>1
    <3>4. /\ f[v] \in ValType /\ f[v].tokens = r.tokens /\ f[v].shares = r.shares
          /\ f[v].height = 0 /\ f[v].jailed = j
      <4>1. PICK t, h : t = r.tokens /\ h = r.shares
        OBVIOUS
      <4>2. t \in Nat /\ h \in Nat
        BY <3>2, <4>1 DEF ValType
      <4>3. f[v] = [tokens |-> t, shares |-> h, jailed |-> j, height |-> 0]
        BY ONLY <3>2, <3>3, <4>1 DEF ValType
      <4>4. [tokens |-> t, shares |-> h, jailed |-> j, height |-> 0] \in ValType
        BY ONLY <3>2, <4>2 DEF ValType
      <4> QED BY <4>1, <4>3, <4>4
    <3> QED BY <3>1, <3>4
  <2>4. DOMAIN f = W /\ f \in [W -> ValType]
    BY <1>1, <2>3
  <2> QED BY <1>5, <2>3, <2>4
<1>8. Keyed(x, DOMAIN x.del)
  BY <1>1, <1>4, <1>6, <1>7 DEF Keyed
<1>9. Shared(x)
  <2>1. DelTyped(x) /\ \A v : DelsOf(x, v) = DelsOf(st, v)
    BY <1>4, <1>6 DEF Shared, DelTyped, DelsOf
  <2>2. \A v \in W : SharedAt(x, v)
    <3> TAKE v \in W
    <3>1. SharedAt(st, v)
      BY <1>1, <1>4 DEF Shared
    <3>2. x.val[v].tokens = st.val[v].tokens /\ x.val[v].shares = st.val[v].shares
      BY <1>7
    <3> QED BY <1>6, <2>1, <3>1, <3>2 DEF SharedAt
  <2> QED BY <1>7, <2>1, <2>2 DEF Shared
<1>10. Coins(x) /\ Cleaned(x) /\ HistIn(x, DOMAIN x.val)
  BY <1>1, <1>4, <1>6, <1>7 DEF Coins, Cleaned, HistIn
<1>11. HistOK(x, DOMAIN x.val, DOMAIN x.del)
  BY <1>4, <1>6, <1>7, HistFrame
<1>12. /\ x.power \cup x.last \subseteq DOMAIN x.val
       /\ \A v \in x.power : x.val[v].jailed => args.allowed # {} /\ v \notin args.allowed
  <2>1. st.power = {v \in W : ~st.val[v].jailed} /\ st.last = st.power
    BY <1>1, <1>4 DEF Indexed
  <2> QED BY <1>6, <1>7, <2>1 DEF Jailed
<1>13. pc' = "apply"
  BY <1>3, <1>8 DEF Keyed
<1>14. RebuiltOK'
  BY <1>3, <1>4, <1>6, <1>7, <1>8, <1>9, <1>10, <1>11, <1>12, <1>13 DEF RebuiltOK
<1> QED BY <1>3, <1>13, <1>14, RebuildingFrame DEF Export

\* The validator set is computed, or the list has left out a validator of the
\* power index.
LEMMA ApplyInv ==
  ASSUME CommandInv, Apply
  PROVE  CommandInv'
<1>1. PICK x : x = ApplyAndReturnValidatorSetUpdates(st)
  OBVIOUS
<1>2. /\ pc = "apply" /\ st' = x /\ work' = {} /\ UNCHANGED <<args, old>>
      /\ pc' = IF x.panic THEN "panicked" ELSE "signing"
  BY <1>1 DEF Apply, Go
<1>3. /\ Keyed(st, DOMAIN st.del) /\ Shared(st) /\ Coins(st) /\ Cleaned(st)
      /\ st.power = old.power /\ IsStore(st) /\ HistIn(st, DOMAIN st.val)
      /\ HistOK(st, DOMAIN st.val, DOMAIN st.del)
      /\ \A v \in DOMAIN st.val : st.out[v] = 0 /\ st.val[v].height = 0
      /\ \A k \in DOMAIN st.del : st.start[k].height = 0
      /\ \A k \in DOMAIN st.entry : st.entry[k] = 0
      /\ st.power \cup st.last \subseteq DOMAIN st.val
      /\ \A v \in st.power : st.val[v].jailed => args.allowed # {} /\ v \notin args.allowed
  BY <1>2 DEF CommandInv, RebuiltOK, Keyed
<1>4. CASE \E v \in st.power : st.val[v].jailed
  <2>1. x = [st EXCEPT !.panic = TRUE]
    BY <1>1, <1>4 DEF ApplyAndReturnValidatorSetUpdates, Panic
  <2>2. x.panic = TRUE
    BY <1>3, <2>1 DEF IsStore, StoreFields
  <2>3. pc' = "panicked"
    BY <1>2, <2>2
  <2>4. PanicExplained'
    BY <1>2, <1>3, <1>4 DEF PanicExplained
  <2>5. PayingOK' /\ RebuiltOK'
    <3>1. /\ x.out = st.out /\ x.com = st.com /\ x.hist = st.hist /\ x.start = st.start
          /\ x.del = st.del
      BY <1>3, <2>1 DEF IsStore, StoreFields
    <3>2. Formed(st)
      BY <1>3, KeyedFormed DEF HistOK
    <3>3. Formed(st')
      BY <1>2, <3>1, <3>2 DEF Formed
    <3> QED BY <2>3, <3>3 DEF PayingOK, RebuiltOK
  <2> QED BY <1>2, <2>3, <2>4, <2>5, CommandFrame
<1>5. CASE \A v \in st.power : ~st.val[v].jailed
  <2>1. PICK l : l = {v \in st.power : st.val[v].tokens > 0}
    OBVIOUS
  <2>2. x = [st EXCEPT !.last = l]
    BY <1>1, <1>3, <1>5, <2>1 DEF ApplyAndReturnValidatorSetUpdates
  <2>3. SameBut(st, x, {"last"}) /\ x.last = l
    BY <1>3, <2>2 DEF IsStore, SameBut, StoreFields
  <2>4. /\ x.val = st.val /\ x.del = st.del /\ x.power = st.power /\ x.entry = st.entry
        /\ x.com = st.com /\ x.out = st.out /\ x.cur = st.cur
        /\ x.sign = st.sign /\ x.start = st.start /\ x.slash = st.slash
        /\ x.hist = st.hist /\ x.panic = st.panic /\ x.pool = st.pool
        /\ x.held = st.held /\ x.supply = st.supply /\ x.bal = st.bal /\ IsStore(x)
    BY <2>3 DEF SameBut, StoreFields
  <2>5. Keyed(x, DOMAIN x.del)
    BY <1>3, <2>4 DEF Keyed
  <2>6. Shared(x) /\ Coins(x) /\ Cleaned(x) /\ HistIn(x, DOMAIN x.val)
    <3>1. \A v : DelsOf(x, v) = DelsOf(st, v)
      BY <2>4 DEF DelsOf
    <3>2. Shared(x)
      BY <1>3, <2>4, <3>1 DEF Shared, SharedAt, DelTyped
    <3> QED BY <1>3, <2>4, <3>2 DEF Coins, Cleaned, HistIn
  <2>7. HistOK(x, DOMAIN x.val, DOMAIN x.del)
    BY <1>3, <2>4, HistFrame
  <2>8. x.power \cup x.last \subseteq DOMAIN x.val
    BY <1>3, <2>1, <2>3, <2>4
  <2>9. pc' = "signing"
    BY <1>2, <2>5 DEF Keyed
  <2>10. RebuiltOK'
    BY <1>2, <1>3, <1>5, <2>4, <2>5, <2>6, <2>7, <2>8, <2>9 DEF RebuiltOK
  <2> QED BY <1>2, <2>9, <2>10, RebuildingFrame DEF Export
<1> QED BY <1>4, <1>5

\* The start heights of the signing infos.
LEMMA ResetSigningInv ==
  ASSUME CommandInv, ResetSigning
  PROVE  CommandInv'
<1>1. PICK x : x = [st EXCEPT !.sign = [v \in DOMAIN st.sign |-> 0]]
  OBVIOUS
<1>2. /\ pc = "signing" /\ st' = x /\ work' = {} /\ UNCHANGED <<args, old>>
      /\ pc' = IF x.panic THEN "panicked" ELSE "exported"
  BY <1>1 DEF ResetSigning, Go
<1>3. /\ Keyed(st, DOMAIN st.del) /\ Shared(st) /\ Coins(st) /\ Cleaned(st)
      /\ st.power = old.power /\ IsStore(st) /\ HistIn(st, DOMAIN st.val)
      /\ HistOK(st, DOMAIN st.val, DOMAIN st.del)
      /\ \A v \in DOMAIN st.val : st.out[v] = 0 /\ st.val[v].height = 0
      /\ \A k \in DOMAIN st.del : st.start[k].height = 0
      /\ \A k \in DOMAIN st.entry : st.entry[k] = 0
      /\ st.power \cup st.last \subseteq DOMAIN st.val
      /\ \A v \in st.power : ~st.val[v].jailed
  BY <1>2 DEF CommandInv, RebuiltOK, Keyed
<1>4. SameBut(st, x, {"sign"}) /\ x.sign = [v \in DOMAIN st.sign |-> 0]
  BY <1>1, <1>3 DEF IsStore, SameBut, StoreFields
<1>5. /\ x.val = st.val /\ x.del = st.del /\ x.power = st.power /\ x.entry = st.entry
      /\ x.com = st.com /\ x.out = st.out /\ x.cur = st.cur /\ x.last = st.last
      /\ x.start = st.start /\ x.slash = st.slash
      /\ x.hist = st.hist /\ x.panic = st.panic /\ x.pool = st.pool
      /\ x.held = st.held /\ x.supply = st.supply /\ x.bal = st.bal /\ IsStore(x)
  BY <1>4 DEF SameBut, StoreFields
<1>6. DOMAIN x.sign = DOMAIN st.sign /\ \A v \in DOMAIN x.sign : x.sign[v] = 0
  BY <1>4
<1>7. Keyed(x, DOMAIN x.del)
  BY <1>3, <1>5, <1>6 DEF Keyed
<1>8. Shared(x) /\ Coins(x) /\ Cleaned(x) /\ HistIn(x, DOMAIN x.val)
  <2>1. \A v : DelsOf(x, v) = DelsOf(st, v)
    BY <1>5 DEF DelsOf
  <2>2. Shared(x)
    BY <1>3, <1>5, <2>1 DEF Shared, SharedAt, DelTyped
  <2> QED BY <1>3, <1>5, <2>2 DEF Coins, Cleaned, HistIn
<1>9. HistOK(x, DOMAIN x.val, DOMAIN x.del)
  BY <1>3, <1>5, HistFrame
<1>10. pc' = "exported"
  BY <1>2, <1>7 DEF Keyed
<1>11. RebuiltOK'
  BY <1>2, <1>3, <1>5, <1>6, <1>7, <1>8, <1>9, <1>10 DEF RebuiltOK
<1> QED BY <1>2, <1>10, <1>11, RebuildingFrame DEF Export

-----------------------------------------------------------------------------
(***************************************************************************)
(* The in-place test network.                                              *)
(***************************************************************************)
\* What no step of the command changes, and what does not depend on it.
LEMMA PlacingFrame ==
  ASSUME CommandInv, pc # "chain", UNCHANGED <<args, old>>, PlacedOK', pc' \in InPlace,
         pc' \in {"create", "fund", "started"} => args.op # BadAddr
  PROVE  CommandInv'
<1>1. pc' # "panicked" /\ pc' \notin Export /\ pc' # "chain"
  BY DEF InPlace, Export
<1>2. PayingOK' /\ RebuiltOK' /\ PanicExplained'
  BY <1>1 DEF PayingOK, RebuiltOK, PanicExplained, Export
<1>3. Running(old)'
  BY DEF CommandInv
<1>4. ArgsOK'
  BY DEF CommandInv, ArgsOK
<1> QED BY <1>1, <1>2, <1>3, <1>4 DEF CommandInv

\* The process ends.
LEMMA ExitInv ==
  ASSUME CommandInv, pc # "chain", Exit
  PROVE  CommandInv'
<1>1. PlacedOK'
  BY DEF Exit, PlacedOK
<1> QED BY <1>1, PlacingFrame DEF Exit, InPlace

\* The stores of the validators are emptied.
LEMMA RemoveValidatorsInv ==
  ASSUME CommandInv, RemoveValidators
  PROVE  CommandInv'
<1>1. CASE args.op = BadAddr
  BY <1>1, ExitInv DEF RemoveValidators
<1>2. CASE args.op # BadAddr
  <2>1. PICK x : x = Removed(st)
    OBVIOUS
  <2>2. /\ pc = "remove" /\ st' = x /\ work' = {} /\ UNCHANGED <<args, old>>
        /\ pc' = IF x.panic THEN "panicked" ELSE "create"
    BY <1>2, <2>1 DEF RemoveValidators, Go
  <2>3. st = old /\ Running(old)
    BY <2>2 DEF CommandInv, PlacedOK
  <2>4. /\ Keyed(old, DOMAIN old.del) /\ Coins(old) /\ IsStore(old)
        /\ HistOK(old, DOMAIN old.val, DOMAIN old.del)
    BY <2>3 DEF Running, RunningWith, Keyed
  <2>5. SameBut(old, x, {"power", "last", "val", "queue"})
    BY <2>1, <2>3, <2>4 DEF Removed, IsStore, SameBut, StoreFields
  <2>6. /\ x.start = old.start /\ x.del = old.del /\ x.slash = old.slash
        /\ x.cur = old.cur /\ x.hist = old.hist /\ x.panic = old.panic
        /\ x.bal = old.bal /\ x.supply = old.supply /\ IsStore(x)
    BY <2>5 DEF SameBut, StoreFields
  <2>7. pc' = "create"
    BY <2>2, <2>4, <2>6 DEF Keyed
  <2>8. DOMAIN x.cur = DOMAIN old.val /\ DOMAIN x.start = DOMAIN old.del
    BY <2>4, <2>6 DEF Keyed
  <2>9. HistOK(x, DOMAIN old.val, DOMAIN old.del)
    BY <2>4, <2>6, HistFrame
  <2>10. Counted' = DOMAIN old.val
    BY <2>2, <2>7, <2>8 DEF Counted, Reused
  <2>11. x = Removed(old)
    BY <2>1, <2>3
  <2>12. PlacedOK'
    BY <2>2, <2>4, <2>6, <2>7, <2>8, <2>9, <2>10, <2>11 DEF PlacedOK, Coins
  <2> QED BY <1>2, <2>2, <2>7, <2>12, PlacingFrame DEF InPlace
<1> QED BY <1>1, <1>2

\* A validator's first period leaves the records of the others.
LEMMA CreatedFrame ==
  ASSUME NEW s, NEW W, NEW K, HistOK(s, W, K), W \subseteq DOMAIN s.cur, NEW v,
         NEW x, x = AfterValidatorCreated(s, v)
  PROVE  /\ HistOK(x, W \ {v}, K) /\ SameBut(s, x, {"hist", "cur", "com", "out"})
         /\ x.cur = Put(s.cur, v, [rewards |-> 0, period |-> 1])
<1>1. PICK r : r = [ratio |-> 0, refs |-> 1]
  OBVIOUS
<1>2. PICK c : c = [rewards |-> 0, period |-> 1]
  OBVIOUS
<1>3. x = [s EXCEPT !.hist = Put(s.hist, <<v, 0>>, r), !.cur = Put(s.cur, v, c),
                    !.com = Put(s.com, v, 0), !.out = Put(s.out, v, 0)]
  BY <1>1, <1>2 DEF AfterValidatorCreated
<1>4. /\ SameBut(s, x, {"hist", "cur", "com", "out"})
      /\ x.hist = Put(s.hist, <<v, 0>>, r) /\ x.cur = Put(s.cur, v, c)
  BY <1>3 DEF HistOK, HistTyped, SameBut, IsStore, StoreFields
<1>5. HistTyped(x) /\ x.start = s.start /\ x.slash = s.slash
  BY <1>1, <1>4 DEF HistOK, HistTyped, SameBut, StoreFields, Put, Ratio
<1>6. \A w, q : HistOf(x, w, q) = IF w = v /\ q = 0 THEN r ELSE HistOf(s, w, q)
  <2>1. x.hist = Put(s.hist, <<v, 0>>, r)
    BY <1>4
  <2> QED BY ONLY <2>1, HistSet
<1>7. ASSUME NEW w \in W \ {v} PROVE RefsOK(x, w, K)
  <2>1. RefsOK(s, w, K)
    BY DEF HistOK
  <2>2. \A q \in Nat : HistOf(x, w, q) = HistOf(s, w, q)
    BY <1>6
  <2>3. x.cur[w] = s.cur[w]
    BY <1>4 DEF Put
  <2>4. SameAt(s, x, w, K, K)
    BY <1>5, <2>2, <2>3 DEF SameAt
  <2> QED BY <2>1, <2>4, RefsSame
<1>8. HistOK(x, W \ {v}, K)
  BY <1>5, <1>7 DEF HistOK
<1> QED BY <1>2, <1>4, <1>8

\* The new validator takes the place of those the chain had.
LEMMA CreateInv ==
  ASSUME CommandInv, Create
  PROVE  CommandInv'
<1>1. PICK op, x : op = args.op /\ x = Created(st, op)
  OBVIOUS
<1>2. /\ pc = "create" /\ st' = x /\ work' = 1 .. Len(args.accounts)
      /\ UNCHANGED <<args, old>> /\ pc' = IF x.panic THEN "panicked" ELSE "fund"
  BY <1>1 DEF Create, Go
<1>3. PICK W, K : W = DOMAIN old.val /\ K = DOMAIN old.del
  OBVIOUS
<1>4. /\ Keyed(old, K) /\ Coins(old) /\ HistIn(old, W) /\ IsStore(old)
      /\ HistOK(old, W, K)
  BY <1>2, <1>3 DEF CommandInv, Running, RunningWith, Keyed
<1>5. /\ st = Removed(old) /\ op \in Val /\ op # BadAddr
  BY <1>1, <1>2 DEF CommandInv, PlacedOK, ArgsOK
<1>6. /\ SameBut(old, st, {"power", "last", "val", "queue"})
      /\ st.power = {} /\ st.last = {} /\ st.val = <<>> /\ st.queue = {}
  BY <1>4, <1>5 DEF Removed, IsStore, SameBut, StoreFields
<1>7. PICK b : b = [tokens |-> VotingPower, shares |-> 1, jailed |-> FALSE, height |-> 0]
  OBVIOUS
<1>8. PICK n : n = [st EXCEPT !.val = Put(st.val, op, b), !.power = st.power \cup {op},
                              !.last = st.last \cup {op},
                              !.sign = Put(st.sign, op, 0)]
  OBVIOUS
<1>9. x = AfterValidatorCreated(n, op)
  BY <1>1, <1>7, <1>8 DEF Created, Height
<1>10. /\ SameBut(st, n, {"val", "power", "last", "sign"}) /\ n.val = Put(st.val, op, b)
       /\ n.power = {op} /\ n.last = {op}
  BY <1>6, <1>8 DEF IsStore, SameBut, StoreFields
<1>11. /\ n.hist = old.hist /\ n.start = old.start /\ n.slash = old.slash
       /\ n.cur = old.cur /\ n.del = old.del /\ n.queue = {} /\ n.panic = FALSE
       /\ n.supply = old.supply /\ n.bal = old.bal /\ IsStore(n)
  BY <1>4, <1>6, <1>10 DEF SameBut, StoreFields, Keyed
<1>12. HistOK(n, W, K) /\ W = DOMAIN n.cur
  BY <1>3, <1>4, <1>11, HistFrame DEF Keyed
<1>13. /\ HistOK(x, W \ {op}, K) /\ SameBut(n, x, {"hist", "cur", "com", "out"})
       /\ DOMAIN x.cur = W \cup {op}
  <2>1. x.cur = Put(n.cur, op, [rewards |-> 0, period |-> 1])
    BY <1>9, <1>12, CreatedFrame
  <2>2. DOMAIN x.cur = W \cup {op}
    BY <1>12, <2>1 DEF Put
  <2> QED BY <1>9, <1>12, <2>2, CreatedFrame
<1>14. op \notin W => HistOK(x, W \cup {op}, K)
  <2>1. SUFFICES ASSUME op \notin W PROVE HistOK(x, W \cup {op}, K)
    OBVIOUS
  <2>2. HistIn(n, W)
    BY <1>4, <1>11 DEF HistIn
  <2>3. n.slash[op] = <<>> /\ \A k \in K : k[2] \in W
    BY <1>3, <1>4, <1>5, <1>11, <2>1 DEF Keyed
  <2> QED BY <1>9, <1>12, <2>1, <2>2, <2>3, CreateHist
<1>15. /\ x.val = n.val /\ x.power = n.power /\ x.last = n.last /\ x.queue = n.queue
       /\ x.del = n.del /\ x.start = n.start /\ x.slash = n.slash /\ x.panic = n.panic
       /\ x.supply = n.supply /\ x.bal = n.bal /\ IsStore(x)
  BY <1>13 DEF SameBut, StoreFields
<1>16. DOMAIN x.val = {op} /\ ~x.val[op].jailed
  <2>1. DOMAIN st.val = {}
    BY <1>6
  <2> QED BY <1>7, <1>10, <1>15, <2>1 DEF Put
<1>17. pc' = "fund"
  BY <1>2, <1>11, <1>15
<1>18. HistOK(x, Counted', DOMAIN x.start)
  <2>1. DOMAIN x.start = K
    BY <1>3, <1>4, <1>11, <1>15 DEF Keyed
  <2>2. Counted' = IF op \in W THEN W \ {op} ELSE W \cup {op}
    BY <1>1, <1>2, <1>3, <1>13, <1>17 DEF Counted, Reused
  <2> QED BY <1>13, <1>14, <2>1, <2>2
<1>19. \A a \in Account :
         x.bal[a] = old.bal[a] + Grant *
           Cardinality({k \in (1 .. Len(args.accounts)) \ (1 .. Len(args.accounts)) :
                          args.accounts[k] = a})
  <2>1. TAKE a \in Account
  <2>2. {k \in (1 .. Len(args.accounts)) \ (1 .. Len(args.accounts)) :
           args.accounts[k] = a} = {}
    OBVIOUS
  <2>3. Grant * Cardinality({}) = 0
    BY FS_EmptySet, OperatorAssumption
  <2>4. x.bal[a] = old.bal[a] /\ old.bal[a] \in Int
    BY <1>4, <1>11, <1>15 DEF Coins
  <2>5. x.bal[a] = old.bal[a] + Grant * Cardinality({})
    BY <2>3, <2>4
  <2> QED BY <2>2, <2>5
<1>20. x.bal \in [Account -> Int] /\ x.supply \in Int
  BY <1>4, <1>11, <1>15 DEF Coins
<1>21. DOMAIN x.cur = DOMAIN old.cur \cup {op}
  BY <1>3, <1>4, <1>13 DEF Keyed
<1>22. \A v \in DOMAIN x.out : x.com[v] >= 0
  <2>1. n.com = old.com /\ n.out = old.out
    BY <1>6, <1>10 DEF SameBut, StoreFields
  <2>2. x.com = Put(old.com, op, 0) /\ x.out = Put(old.out, op, 0)
    BY <1>9, <1>11, <2>1 DEF AfterValidatorCreated, IsStore, StoreFields
  <2>3. \A v \in DOMAIN old.out : v \in DOMAIN old.com /\ old.com[v] >= 0
    BY <1>4 DEF Coins
  <2> QED BY <2>2, <2>3 DEF Put
<1>23. PlacedOK'
  BY <1>1, <1>2, <1>10, <1>11, <1>15, <1>16, <1>17, <1>18, <1>19, <1>20, <1>21, <1>22
     DEF PlacedOK
<1> QED BY <1>1, <1>2, <1>5, <1>17, <1>23, PlacingFrame DEF InPlace

\* One more of what is counted.
LEMMA ProductNext == \A a \in Nat, b \in Nat : a * (b + 1) = a * b + a
OBVIOUS

\* A pass over the list gives its grant.
LEMMA FundInv ==
  ASSUME CommandInv, Fund
  PROVE  CommandInv'
<1>1. pc = "fund"
  BY DEF Fund, Go
<1>2. PICK I, f : I = 1 .. Len(args.accounts) /\ f = args.accounts
  OBVIOUS
<1>3. /\ IsStore(st) /\ st.panic = FALSE
      /\ \A g \in {"start", "del", "slash"} : st[g] = old[g]
      /\ HistOK(st, Counted, DOMAIN st.start)
      /\ st.bal \in [Account -> Int] /\ st.supply \in Int
      /\ DOMAIN st.cur = DOMAIN old.cur \cup {args.op}
      /\ DOMAIN st.val = {args.op} /\ ~st.val[args.op].jailed
      /\ st.power = {args.op} /\ st.last = {args.op} /\ st.queue = {}
      /\ work \subseteq I
      /\ \A a \in Account :
           st.bal[a] = old.bal[a] + Grant * Cardinality({k \in I \ work : f[k] = a})
      /\ args.op # BadAddr
      /\ \A v \in DOMAIN st.out : st.com[v] >= 0
  BY <1>1, <1>2 DEF CommandInv, PlacedOK, ArgsOK
<1>4. old.bal \in [Account -> Int] /\ Grant \in Nat
  BY <1>1, OperatorAssumption DEF CommandInv, Running, RunningWith, Coins
<1>5. f \in Seq(Account \cup {BadAddr}) /\ IsFiniteSet(I)
  <2>1. f \in Seq(Account \cup {BadAddr})
    BY <1>2 DEF CommandInv, ArgsOK
  <2>2. Len(f) \in Int
    BY <2>1, InSeq
  <2> QED BY <1>2, <2>1, <2>2, FS_Interval
<1>6. CASE \E k \in work : f[k] = BadAddr /\ Exit
  BY <1>1, <1>6, ExitInv
<1>7. CASE \E k \in work : /\ f[k] # BadAddr /\ st' = Granted(st, f[k])
                           /\ work' = work \ {k} /\ UNCHANGED <<pc, args, old>>
  <2>1. PICK k \in work : /\ f[k] # BadAddr /\ st' = Granted(st, f[k])
                          /\ work' = work \ {k} /\ UNCHANGED <<pc, args, old>>
    BY <1>7
  <2>2. PICK a, x : a = f[k] /\ x = Granted(st, a)
    OBVIOUS
  <2>3. a \in Account /\ k \in I
    BY <1>2, <1>3, <1>5, <2>1, <2>2, InSeq
  <2>4. x = [st EXCEPT !.supply = st.supply + Grant, !.bal[a] = st.bal[a] + Grant]
    BY <2>2 DEF Granted
  <2>5. /\ SameBut(st, x, {"supply", "bal"}) /\ x.supply = st.supply + Grant
        /\ x.bal = [st.bal EXCEPT ![a] = st.bal[a] + Grant]
    BY ONLY <1>3, <2>4 DEF IsStore, SameBut, StoreFields
  <2>6. /\ x.hist = st.hist /\ x.start = st.start /\ x.slash = st.slash
        /\ x.cur = st.cur /\ x.del = st.del /\ x.queue = st.queue /\ x.panic = FALSE
        /\ x.val = st.val /\ x.power = st.power /\ x.last = st.last /\ IsStore(x)
        /\ x.com = st.com /\ x.out = st.out
    BY <1>3, <2>5 DEF SameBut, StoreFields
  <2>7. Counted' = Counted
    BY <2>1, <2>2, <2>6 DEF Counted, Reused
  <2>8. HistOK(x, Counted', DOMAIN x.start)
    BY <1>3, <2>6, <2>7, HistFrame
  <2>9. x.bal \in [Account -> Int] /\ x.supply \in Int
    BY <1>3, <1>4, <2>3, <2>5
  <2>10. ASSUME NEW c \in Account
         PROVE  x.bal[c] = old.bal[c] + Grant * Cardinality({i \in I \ work' : f[i] = c})
    <3>1. PICK S, T : S = {i \in I \ work : f[i] = c} /\ T = {i \in I \ work' : f[i] = c}
      OBVIOUS
    <3>2. IsFiniteSet(S) /\ Cardinality(S) \in Nat /\ k \notin S
      BY <1>5, <2>1, <3>1, FS_Subset, FS_CardinalityType
    <3>3. st.bal[c] = old.bal[c] + Grant * Cardinality(S)
      BY <1>3, <3>1
    <3>4. CASE c = a
      <4>1. T = S \cup {k}
        BY <2>1, <2>2, <2>3, <3>1, <3>4
      <4>2. Cardinality(T) = Cardinality(S) + 1
        BY <3>2, <4>1, FS_AddElement
      <4>3. PICK m, u, o : m = Cardinality(S) /\ u = Grant * m /\ o = old.bal[c]
        OBVIOUS
      <4>4. Grant * (m + 1) = u + Grant /\ u \in Int
        BY <1>4, <3>2, <4>3, ProductNext, ProductType
      <4>5. x.bal[c] = st.bal[c] + Grant
        BY <1>3, <2>3, <2>5, <3>4
      <4>6. o \in Int
        BY <1>4, <4>3
      <4> QED BY <1>4, <3>1, <3>3, <4>2, <4>3, <4>4, <4>5, <4>6
    <3>5. CASE c # a
      <4>1. T = S
        BY <2>1, <2>2, <3>1, <3>5
      <4>2. x.bal[c] = st.bal[c]
        BY <1>3, <2>5, <3>5
      <4> QED BY <3>1, <3>3, <4>1, <4>2
    <3> QED BY <3>4, <3>5
  <2>11. PlacedOK'
    BY <1>1, <1>2, <1>3, <2>1, <2>2, <2>6, <2>8, <2>9, <2>10 DEF PlacedOK
  <2> QED BY <1>1, <1>3, <2>1, <2>11, PlacingFrame DEF InPlace
<1>8. CASE Go("fund", "started", st, {})
  <2>1. /\ work = {} /\ st' = st /\ work' = {} /\ UNCHANGED <<args, old>>
        /\ pc' = "started"
    BY <1>3, <1>8 DEF Go
  <2>2. Counted' = Counted
    BY <1>1, <2>1 DEF Counted, Reused
  <2>3. PlacedOK'
    BY <1>1, <1>2, <1>3, <2>1, <2>2 DEF PlacedOK
  <2> QED BY <1>1, <1>3, <2>1, <2>3, PlacingFrame DEF InPlace
<1> QED BY <1>2, <1>6, <1>7, <1>8 DEF Fund

-----------------------------------------------------------------------------
(***************************************************************************)
(* What holds in every state.                                              *)
(***************************************************************************)
\* Every step preserves the invariant.
LEMMA StepInv == CommandInv /\ [Next]_vars => CommandInv'
<1>1. SUFFICES ASSUME CommandInv, [Next]_vars PROVE CommandInv'
  OBVIOUS
<1>2. CASE UNCHANGED vars
  BY <1>1, <1>2 DEF vars, CommandInv, ArgsOK, PayingOK, RebuiltOK, PlacedOK, Counted,
     Reused, PanicExplained
<1>3. CASE Next
  BY <1>1, <1>3, ChainInv, BeginExportInv, WithdrawCommissionInv, WithdrawRewardsInv,
     ClearInv, ReinitializeValidatorsInv, ReinitializeDelegationsInv, ResetEntriesInv,
     ResetValidatorsInv, ApplyInv, ResetSigningInv, BeginInPlaceInv,
     RemoveValidatorsInv, CreateInv, FundInv DEF Next
<1> QED BY <1>1, <1>2, <1>3

\* The commands keep their invariant: a chain that runs, then the parts of the
\* command in their order, each with the records that it has rebuilt.
THEOREM CommandSafe == Spec => []CommandInv
<1>1. Init => CommandInv
  BY InitInv
<1>2. CommandInv /\ [Next]_vars => CommandInv'
  BY StepInv
<1> QED BY <1>1, <1>2, PTL DEF Spec

\* Where the references are right, they are as many as the model counts.
LEMMA CountedRefs ==
  ASSUME NEW s, NEW v, RefsOK(s, v, DOMAIN s.start), NEW p \in Nat
  PROVE  HistOf(s, v, p).refs =
           (IF p = s.cur[v].period - 1 THEN 1 ELSE 0)
           + Cardinality({k \in DOMAIN s.start : k[2] = v /\ s.start[k].prev = p})
           + Cardinality({i \in 1 .. Len(s.slash[v]) : s.slash[v][i] = p})
<1>1. PICK K, S, T : /\ K = DOMAIN s.start
                     /\ S = {k \in K : k[2] = v /\ s.start[k].prev = p}
                     /\ T = {i \in 1 .. Len(s.slash[v]) : s.slash[v][i] = p}
  OBVIOUS
<1>2. HistOf(s, v, p).refs = Count(s, v, p, K) /\ StartsOK(s, v, K) /\ SlashesOK(s, v)
  BY <1>1 DEF RefsOK, CountOK
<1>3. Cardinality(S) = IF StartsAt(s, v, p, K) THEN 1 ELSE 0
  <2>1. CASE StartsAt(s, v, p, K)
    <3>1. PICK k \in K : k[2] = v /\ s.start[k].prev = p
      BY <2>1 DEF StartsAt
    <3>2. S = {k}
      BY <1>1, <1>2, <3>1 DEF StartsOK
    <3> QED BY <2>1, <3>2, FS_Singleton
  <2>2. CASE ~StartsAt(s, v, p, K)
    <3>1. S = {}
      BY <1>1, <2>2 DEF StartsAt
    <3> QED BY <2>2, <3>1, FS_EmptySet
  <2> QED BY <2>1, <2>2
<1>4. Cardinality(T) = IF SlashedAt(s, v, p) THEN 1 ELSE 0
  <2>1. CASE SlashedAt(s, v, p)
    <3>1. PICK i \in 1 .. Len(s.slash[v]) : s.slash[v][i] = p
      BY <2>1 DEF SlashedAt
    <3>2. ASSUME NEW j \in T PROVE j = i
      <4>1. PICK c, n : c = s.slash[v] /\ n = Len(c)
        OBVIOUS
      <4>2. n \in Nat /\ \A m \in 1 .. n : c[m] \in Nat
        <5>1. PICK I : I = 0 .. s.cur[v].period - 1
          OBVIOUS
        <5>2. c \in Seq(I) /\ \A m \in I : m \in Nat
          BY <1>2, <4>1, <5>1 DEF SlashesOK
        <5> QED BY <4>1, <5>2, InSeq
      <4>3. j \in 1 .. n /\ i \in 1 .. n /\ c[j] = p /\ c[i] = p
        BY <1>1, <3>1, <4>1
      <4>4. \A l, m \in 1 .. n : l < m => c[l] < c[m]
        BY <1>2, <4>1 DEF SlashesOK
      <4> QED BY <4>2, <4>3, <4>4
    <3>3. T = {i}
      BY <1>1, <3>1, <3>2
    <3> QED BY <2>1, <3>3, FS_Singleton
  <2>2. CASE ~SlashedAt(s, v, p)
    <3>1. T = {}
      BY <1>1, <2>2 DEF SlashedAt
    <3> QED BY <2>2, <3>1, FS_EmptySet
  <2> QED BY <2>1, <2>2
<1> QED BY <1>1, <1>2, <1>3, <1>4 DEF Count

\* Each historical ratio is kept for exactly those that refer to it, while the
\* chain runs, where the export has come to its end, and in the in-place
\* network but for a reused address.
THEOREM ReferencesHold == Spec => []References
<1>1. ASSUME CommandInv PROVE References
  <2>1. SUFFICES ASSUME pc \in {"chain", "exported", "create", "started"},
                        NEW v, v \in DOMAIN st.cur, ~(Reused /\ v = args.op)
                 PROVE  RefsOK(st, v, DOMAIN st.start)
    <3>1. \A v, p : p \in 0 .. st.cur[v].period => p \in Nat
      OBVIOUS
    <3> QED BY <2>1, <3>1, CountedRefs DEF References
  <2>2. CASE pc = "chain"
    <3>1. Keyed(st, DOMAIN st.del) /\ HistOK(st, DOMAIN st.val, DOMAIN st.del)
      BY <1>1, <2>2 DEF CommandInv, Running, RunningWith
    <3> QED BY <2>1, <3>1 DEF Keyed, HistOK
  <2>3. CASE pc = "exported"
    <3>1. Keyed(st, DOMAIN st.del) /\ HistOK(st, DOMAIN st.val, DOMAIN st.del)
      BY <1>1, <2>3 DEF CommandInv, RebuiltOK
    <3> QED BY <2>1, <3>1 DEF Keyed, HistOK
  <2>4. CASE pc \in {"create", "started"}
    <3>1. HistOK(st, Counted, DOMAIN st.start)
      BY <1>1, <2>4 DEF CommandInv, PlacedOK
    <3>2. v \in Counted
      BY <2>1 DEF Counted
    <3> QED BY <3>1, <3>2 DEF HistOK
  <2> QED BY <2>1, <2>2, <2>3, <2>4
<1> QED BY <1>1, CommandSafe, PTL

\* The export panics only on a bad address or where its list leaves out a
\* validator of the power index.
THEOREM PanicIsExplained == Spec => []PanicExplained
<1>1. CommandInv => PanicExplained
  BY DEF CommandInv
<1> QED BY <1>1, CommandSafe, PTL

\* A withdrawal and the new start do not panic,
LEMMA WithdrawSafe ==
  ASSUME NEW s, HistTyped(s), NEW v, v \in DOMAIN s.cur, NEW K, RefsOK(s, v, K),
         K \subseteq DOMAIN s.start, s.val[v].tokens \in Nat \ {0}, s.panic = FALSE,
         NEW d, <<d, v>> \in K, NEW w, w = Withdraw(s, d, v),
         NEW x, x = AfterDelegationModified(w, d, v, 0)
  PROVE  w.panic = FALSE /\ x.panic = FALSE
<1>1. PICK n, L : n = s.cur[v].period /\ L = K \ {<<d, v>>}
  OBVIOUS
<1>2. n \in Nat
  BY <1>1, LastKept
<1>3. /\ HistTyped(w) /\ RefsOK(w, v, L)
      /\ SameBut(s, w, {"hist", "cur", "start", "held", "bal", "out", "pool"})
      /\ w.cur = [s.cur EXCEPT ![v] = [rewards |-> 0, period |-> n + 1]]
      /\ w.start = Drop(s.start, <<d, v>>) /\ HistOf(w, v, n).refs = 1
  <2>1. Withdrawn(s, w, d, v, n, K)
    BY <1>1, WithdrawRefs
  <2> QED BY <1>1, <2>1 DEF Withdrawn
<1>4. w.panic = FALSE
  BY <1>3 DEF SameBut, StoreFields
<1>5. n = w.cur[v].period - 1
  <2>1. w.cur[v] = [rewards |-> 0, period |-> n + 1]
    BY <1>3
  <2>2. w.cur[v].period = n + 1
    BY <2>1
  <2> QED BY <1>2, <2>2
<1>6. L \subseteq DOMAIN w.start /\ <<d, v>> \notin L
  BY <1>1, <1>3 DEF Drop
<1>7. SameBut(w, x, {"hist", "start"})
  BY <1>3, <1>5, <1>6, StartRefs
<1> QED BY <1>4, <1>7 DEF SameBut, StoreFields

\* and neither does a slash.
LEMMA SlashSafe ==
  ASSUME NEW s, NEW W, NEW K, HistOK(s, W, K), W \subseteq DOMAIN s.cur, NEW v \in W,
         v \in DOMAIN s.slash, s.val[v].tokens \in Nat \ {0}, s.panic = FALSE,
         NEW x, x = BeforeValidatorSlashed(s, v)
  PROVE  x.panic = FALSE
<1>1. PICK n : n = s.cur[v].period
  OBVIOUS
<1>2. SameBut(s, x, {"hist", "cur", "slash"})
  BY <1>1, SlashHist
<1> QED BY <1>2 DEF SameBut, StoreFields

\* A delegation of the exported chain can be withdrawn.
LEMMA ExportedWithdraws ==
  ASSUME NEW s, Keyed(s, DOMAIN s.del), Shared(s), HistOK(s, DOMAIN s.val, DOMAIN s.del),
         NEW k \in DOMAIN s.del
  PROVE  ~WithdrawDelegationRewards(s, k[1], k[2], 0).panic
<1>1. PICK d \in Account, v \in DOMAIN s.val : k = <<d, v>>
  BY DEF Keyed
<1>2. PICK w, x : w = Withdraw(s, d, v) /\ x = AfterDelegationModified(w, d, v, 0)
  OBVIOUS
<1>3. /\ HistTyped(s) /\ v \in DOMAIN s.cur /\ RefsOK(s, v, DOMAIN s.start)
      /\ <<d, v>> \in DOMAIN s.start /\ s.panic = FALSE
  BY <1>1 DEF Keyed, HistOK
<1>4. s.val[v].tokens \in Nat \ {0}
  <2>1. s.val[v] \in ValType /\ SharedAt(s, v)
    BY DEF Keyed, Shared
  <2> QED BY <2>1 DEF ValType, SharedAt
<1>5. w.panic = FALSE /\ x.panic = FALSE
  BY <1>2, <1>3, <1>4, WithdrawSafe
<1>6. WithdrawDelegationRewards(s, d, v, 0) = x
  BY <1>1, <1>2, <1>3, <1>5 DEF WithdrawDelegationRewards
<1> QED BY <1>1, <1>5, <1>6

\* What is exported can start at height 0: no record is of the old chain's
\* heights, and no withdrawal, no slash and no update of the set can panic.
THEOREM ExportRestarts == Spec => []Restartable
<1>1. ASSUME CommandInv PROVE Restartable
  <2>1. SUFFICES ASSUME pc = "exported"
                 PROVE  /\ \A k \in DOMAIN st.start : st.start[k].height = 0
                        /\ \A k \in DOMAIN st.entry : st.entry[k] = 0
                        /\ \A v \in DOMAIN st.val :
                             /\ st.val[v].height = 0 /\ st.sign[v] = 0
                             /\ st.out[v] = 0 /\ st.slash[v] = <<>>
                             /\ ~BeforeValidatorSlashed(st, v).panic
                        /\ DOMAIN st.start = DOMAIN st.del
                        /\ \A k \in DOMAIN st.del :
                             ~WithdrawDelegationRewards(st, k[1], k[2], 0).panic
                        /\ ~ApplyAndReturnValidatorSetUpdates(st).panic
    BY DEF Restartable
  <2>2. /\ Keyed(st, DOMAIN st.del) /\ Shared(st) /\ Cleaned(st) /\ IsStore(st)
        /\ HistOK(st, DOMAIN st.val, DOMAIN st.del)
        /\ \A v \in DOMAIN st.val : st.out[v] = 0 /\ st.val[v].height = 0
        /\ \A k \in DOMAIN st.del : st.start[k].height = 0
        /\ \A k \in DOMAIN st.entry : st.entry[k] = 0
        /\ \A v \in DOMAIN st.sign : st.sign[v] = 0
        /\ st.power \cup st.last \subseteq DOMAIN st.val
        /\ \A v \in st.power : ~st.val[v].jailed
    BY <1>1, <2>1 DEF CommandInv, RebuiltOK, Keyed
  <2>3. DOMAIN st.start = DOMAIN st.del /\ st.panic = FALSE
    BY <2>2 DEF Keyed
  <2>4. ASSUME NEW v \in DOMAIN st.val
        PROVE  /\ st.sign[v] = 0 /\ st.slash[v] = <<>>
               /\ ~BeforeValidatorSlashed(st, v).panic
    <3>1. st.sign[v] = 0 /\ st.slash[v] = <<>>
      BY <2>2 DEF Keyed, Cleaned
    <3>3. st.val[v].tokens \in Nat \ {0}
      <4>1. st.val[v] \in ValType /\ SharedAt(st, v)
        BY <2>2 DEF Keyed, Shared
      <4> QED BY <4>1 DEF ValType, SharedAt
    <3>4. DOMAIN st.val \subseteq DOMAIN st.cur /\ v \in DOMAIN st.slash
      BY <2>2 DEF Keyed
    <3>5. ~BeforeValidatorSlashed(st, v).panic
      BY <2>2, <2>3, <3>3, <3>4, SlashSafe
    <3> QED BY <3>1, <3>5
  <2>5. \A k \in DOMAIN st.del : ~WithdrawDelegationRewards(st, k[1], k[2], 0).panic
    BY <2>2, ExportedWithdraws
  <2>6. ~ApplyAndReturnValidatorSetUpdates(st).panic
    <3>1. PICK l : l = {v \in st.power : st.val[v].tokens > 0}
      OBVIOUS
    <3>2. ApplyAndReturnValidatorSetUpdates(st) = [st EXCEPT !.last = l]
      BY <2>2, <3>1 DEF ApplyAndReturnValidatorSetUpdates
    <3> QED BY <2>2, <2>3, <3>2 DEF IsStore, StoreFields
  <2> QED BY <2>2, <2>3, <2>4, <2>5, <2>6
<1> QED BY <1>1, CommandSafe, PTL

\* A test network has the one validator in every index, and the delegations to
\* the others refuse to be withdrawn.
THEOREM NetworkHasOne == Spec => []OneValidator
<1>1. ASSUME CommandInv PROVE OneValidator
  <2>1. SUFFICES ASSUME pc = "started"
                 PROVE  /\ DOMAIN st.val = {args.op}
                        /\ st.power = {args.op} /\ st.last = {args.op} /\ st.queue = {}
                        /\ ~ApplyAndReturnValidatorSetUpdates(st).panic
                        /\ \A k \in DOMAIN st.del : k[2] # args.op =>
                             WithdrawDelegationRewards(st, k[1], k[2], Height) = st
    BY DEF OneValidator
  <2>2. /\ DOMAIN st.val = {args.op} /\ ~st.val[args.op].jailed
        /\ st.power = {args.op} /\ st.last = {args.op} /\ st.queue = {}
        /\ IsStore(st) /\ st.panic = FALSE
    BY <1>1, <2>1 DEF CommandInv, PlacedOK
  <2>3. ~ApplyAndReturnValidatorSetUpdates(st).panic
    <3>1. PICK l : l = {v \in st.power : st.val[v].tokens > 0}
      OBVIOUS
    <3>2. ApplyAndReturnValidatorSetUpdates(st) = [st EXCEPT !.last = l]
      BY <2>2, <3>1 DEF ApplyAndReturnValidatorSetUpdates
    <3> QED BY <2>2, <3>2 DEF IsStore, StoreFields
  <2>4. \A k \in DOMAIN st.del : k[2] # args.op =>
          WithdrawDelegationRewards(st, k[1], k[2], Height) = st
    BY <2>2 DEF WithdrawDelegationRewards
  <2> QED BY <2>2, <2>3, <2>4
<1> QED BY <1>1, CommandSafe, PTL

\* Every listed account has its grant once for each time it is listed.
THEOREM AllFunded == Spec => []FundedOnce
<1>1. ASSUME CommandInv PROVE FundedOnce
  <2>1. SUFFICES ASSUME pc = "started", NEW a \in Account
                 PROVE  st.bal[a] = old.bal[a] + Grant *
                          Cardinality({k \in 1 .. Len(args.accounts) : args.accounts[k] = a})
    BY DEF FundedOnce
  <2>2. /\ work = {}
        /\ st.bal[a] = old.bal[a] + Grant * Cardinality(
             {k \in (1 .. Len(args.accounts)) \ work : args.accounts[k] = a})
    BY <1>1, <2>1 DEF CommandInv, PlacedOK
  <2>3. {k \in (1 .. Len(args.accounts)) \ work : args.accounts[k] = a} =
          {k \in 1 .. Len(args.accounts) : args.accounts[k] = a}
    BY <2>2
  <2> QED BY <2>2, <2>3
<1> QED BY <1>1, CommandSafe, PTL

-----------------------------------------------------------------------------
(***************************************************************************)
(* The books, by the part of the command.                                  *)
(***************************************************************************)
BooksInv ==
  /\ MoneyTyped(st) /\ Minted(st)
  /\ ~Reused => Exact(st)
  /\ st.held >= Outstanding(st) + st.pool
  /\ pc \in {"chain", "remove", "create"} => NoDebts(st)
  /\ pc # "chain" => Books(old)

\* On a chain, in the export and at an exit the books are exact.
LEMMA BooksExact ==
  ASSUME pc \notin {"fund", "started"}, Books(st),
         pc \in {"chain", "remove", "create"} => NoDebts(st),
         pc # "chain" => Books(old)
  PROVE  BooksInv
<1>1. st.held >= Outstanding(st) + st.pool
  <2>1. st.held \in Int /\ st.held = Outstanding(st) + st.pool
    BY DEF Books, MoneyTyped, Exact
  <2> QED BY <2>1
<1> QED BY <1>1 DEF BooksInv, Books

\* They are before the accounts are funded.
LEMMA ExactBooks == BooksInv /\ pc \notin {"fund", "started"} => Books(st)
BY DEF BooksInv, Books, Reused

\* The chain begins with sound books.
LEMMA InitBooks == Init => BooksInv
<1>1. SUFFICES ASSUME Init PROVE BooksInv
  OBVIOUS
<1>2. PICK v \in Val : st = CreateValidator(Empty, v, Height)
  BY <1>1 DEF Init
<1>3. v \notin DOMAIN Empty.val
  BY DEF Empty
<1>4. Sound(st)
  BY <1>2, <1>3, EmptySound, EmptyRunning, CreateSound
<1>5. pc = "chain"
  BY <1>1 DEF Init
<1> QED BY <1>4, <1>5, BooksExact DEF Sound

\* Blocks keep them sound.
LEMMA ChainBooks ==
  ASSUME CommandInv, BooksInv, Chain
  PROVE  BooksInv'
<1>1. pc = "chain" /\ UNCHANGED <<pc, work, args, old>>
  BY DEF Chain, Block
<1>2. Running(st) /\ Sound(st)
  BY <1>1, ExactBooks DEF CommandInv, BooksInv, Sound
<1>3. Sound(st')
  <2>1. CASE \E v \in Val \ DOMAIN st.val : Block(CreateValidator(st, v, Height))
    BY <1>2, <2>1, CreateSound DEF Block
  <2>2. CASE \E v \in DOMAIN st.val, d \in Account : Block(Delegate(st, d, v, Height))
    BY <1>2, <2>2, DelegateSound DEF Block
  <2>3. CASE \E k \in DOMAIN st.del : Block(WithdrawDelegationRewards(st, k[1], k[2], Height))
    BY <1>2, <2>3, RewardsSound DEF Block, Sound
  <2>4. CASE \E k \in DOMAIN st.del :
               k[1] # OperatorOf[k[2]] /\ Block(Undelegate(st, k[1], k[2], Height))
    <3>1. PICK k \in DOMAIN st.del : st' = Undelegate(st, k[1], k[2], Height)
      BY <2>4 DEF Block
    <3>2. PICK d \in Account, v \in DOMAIN st.val : k = <<d, v>>
      BY <1>2 DEF Running, RunningWith, Keyed
    <3>3. <<d, v>> \in DOMAIN st.del /\ st' = Undelegate(st, d, v, Height)
      BY <3>1, <3>2
    <3> QED BY <1>2, <3>3, UndelegateSound
  <2>5. CASE \E v \in st.last : Block(AllocateTokens(st, v, 1))
    <3>1. st.last \subseteq DOMAIN st.val
      BY <1>2 DEF Running, RunningWith, Indexed
    <3> QED BY <1>2, <2>5, <3>1, AllocateSound DEF Block
  <2>6. CASE \E v \in st.last : /\ st.val[v].tokens % 2 = 0
                                /\ Block(SlashAndJail(st, v, Height))
    <3>1. st.last \subseteq DOMAIN st.val
      BY <1>2 DEF Running, RunningWith, Indexed
    <3> QED BY <1>2, <2>6, <3>1, SlashSound DEF Block
  <2>7. CASE \E v \in st.queue : Block(Unjail(st, v))
    <3>1. st.queue \subseteq DOMAIN st.val
      BY <1>2 DEF Running, RunningWith, Indexed
    <3> QED BY <1>2, <2>7, <3>1, SlashSound DEF Block
  <2> QED BY <2>1, <2>2, <2>3, <2>4, <2>5, <2>6, <2>7 DEF Chain
<1>4. pc' = "chain" /\ Books(st)' /\ NoDebts(st)'
  BY <1>1, <1>3 DEF Sound
<1>5. BooksInv'
  <2>1. MoneyTyped(st)' /\ Exact(st)' /\ Minted(st)'
    BY <1>4 DEF Books
  <2>2. st'.held \in Int /\ st'.held = Outstanding(st') + st'.pool
    BY <2>1 DEF MoneyTyped, Exact
  <2>3. st'.held >= Outstanding(st') + st'.pool
    BY <2>2
  <2> QED BY <1>4, <2>1, <2>3 DEF BooksInv
<1> QED BY <1>5

\* A step of the export from right books to right books.
LEMMA ExportBooks ==
  ASSUME BooksInv, pc # "chain", old' = old, Books(st'), pc' \in Export \cup {"panicked", "exited"}
  PROVE  BooksInv'
<1>1. MoneyTyped(st') /\ Exact(st') /\ Minted(st')
  BY DEF Books
<1>2. st'.held \in Int /\ st'.held = Outstanding(st') + st'.pool
  BY <1>1 DEF MoneyTyped, Exact
<1>3. st'.held >= Outstanding(st') + st'.pool
  BY <1>2
<1>4. pc' \notin {"chain", "remove", "create"} /\ Books(old')
  BY DEF Export, BooksInv
<1> QED BY <1>1, <1>3, <1>4 DEF BooksInv

\* A loop of the export that leaves the money, or the end of one.
LEMMA GoBooks ==
  ASSUME BooksInv, NEW here, NEW there, NEW next, NEW visit, Go(here, there, next, visit),
         here \in Export, there \in Export, SameMoney(st, next)
  PROVE  BooksInv'
<1>1. pc \in Export /\ pc' \in Export \cup {"panicked"} /\ old' = old /\ st' = next
  BY DEF Go
<1>2. pc # "chain" /\ pc \notin {"fund", "started"}
  BY <1>1 DEF Export
<1>3. Books(st')
  BY <1>1, <1>2, ExactBooks, BooksSame
<1> QED BY <1>1, <1>2, <1>3, ExportBooks

\* A pass of a loop of the export.
LEMMA PassBooks ==
  ASSUME BooksInv, NEW here, NEW x, NEW next, Pass(here, x, next), here \in Export,
         Books(st) => Books(next)
  PROVE  BooksInv'
<1>1. pc \in Export /\ pc' \in Export \cup {"panicked"} /\ old' = old /\ st' = next
  BY DEF Pass
<1>2. pc # "chain" /\ pc \notin {"fund", "started"}
  BY <1>1 DEF Export
<1>3. Books(st')
  BY <1>1, <1>2, ExactBooks
<1> QED BY <1>1, <1>2, <1>3, ExportBooks

\* Both commands begin with the books of the chain.
LEMMA BeginBooks ==
  ASSUME BooksInv, BeginExport \/ BeginInPlace
  PROVE  BooksInv'
<1>1. /\ pc = "chain" /\ st' = st /\ old' = st
      /\ pc' \in {"panicked", "commission", "remove"}
  BY DEF BeginExport, BeginInPlace
<1>2. Books(st) /\ NoDebts(st)
  BY <1>1, ExactBooks DEF BooksInv
<1>3. MoneyTyped(st') /\ Exact(st') /\ Minted(st') /\ NoDebts(st')
  BY <1>1, <1>2 DEF Books
<1>4. st'.held \in Int /\ st'.held = Outstanding(st') + st'.pool
  BY <1>3 DEF MoneyTyped, Exact
<1>5. st'.held >= Outstanding(st') + st'.pool
  BY <1>4
<1>6. Books(old')
  BY <1>1, <1>2
<1> QED BY <1>3, <1>5, <1>6 DEF BooksInv

\* What is withdrawn is paid.
LEMMA PayingBooks ==
  ASSUME CommandInv, BooksInv, WithdrawCommission \/ WithdrawRewards
  PROVE  BooksInv'
<1>1. /\ pc \in {"commission", "rewards"} /\ pc \in Export /\ "clear" \in Export
      /\ Running(st) /\ IsStore(st)
      /\ pc = "commission" => work \subseteq DOMAIN st.val
      /\ pc = "rewards" => work \subseteq DOMAIN st.del
  BY DEF CommandInv, PayingOK, WithdrawCommission, WithdrawRewards, Pass, Go, Export,
         Running, RunningWith, Keyed
<1>2. SameMoney(st, st)
  BY <1>1 DEF SameMoney
<1>3. CASE \E v \in work : Pass("commission", v, WithdrawValidatorCommission(st, v))
  <2>1. PICK v \in work : Pass("commission", v, WithdrawValidatorCommission(st, v))
    BY <1>3
  <2>2. pc = "commission" /\ v \in DOMAIN st.val
    BY <1>1, <2>1 DEF Pass
  <2>3. Books(st) => Books(WithdrawValidatorCommission(st, v))
    BY <1>1, <2>2, CommissionBooks
  <2> QED BY <1>1, <2>1, <2>2, <2>3, PassBooks
<1>4. CASE \E k \in work : Pass("rewards", k, WithdrawDelegationRewards(st, k[1], k[2], Height))
  <2>1. PICK k \in work : Pass("rewards", k, WithdrawDelegationRewards(st, k[1], k[2], Height))
    BY <1>4
  <2>2. pc = "rewards" /\ k \in DOMAIN st.del
    BY <1>1, <2>1 DEF Pass
  <2>3. Books(st) => Books(WithdrawDelegationRewards(st, k[1], k[2], Height))
    BY <1>1, <2>2, RewardsSound
  <2> QED BY <1>1, <2>1, <2>2, <2>3, PassBooks
<1>5. CASE Go("commission", "rewards", st, DOMAIN st.del)
  BY <1>2, <1>5, GoBooks DEF Export
<1>6. CASE Go("rewards", "clear", st, {})
  BY <1>2, <1>6, GoBooks DEF Export
<1> QED BY <1>3, <1>4, <1>5, <1>6 DEF WithdrawCommission, WithdrawRewards

\* The steps of the export that move no money.
LEMMA QuietSteps ==
  ASSUME CommandInv,
         \/ Clear \/ ReinitializeDelegations
         \/ ResetEntries \/ ResetValidators \/ Apply \/ ResetSigning
  PROVE  /\ SameMoney(st, st') /\ old' = old
         /\ pc \in Export \ {"commission", "rewards"}
         /\ pc' \in (Export \ {"commission", "rewards"}) \cup {"panicked"}
<1>1. pc \in {"clear", "delegations", "heights", "jail", "apply", "signing"} /\ old' = old
      /\ pc' \in (Export \ {"commission", "rewards"}) \cup {"panicked"}
  BY DEF Clear, ReinitializeDelegations, ResetEntries, ResetValidators, Apply, ResetSigning,
         Pass, Go, Export
<1>2. Keyed(st, DOMAIN st.del) /\ Shared(st) /\ IsStore(st)
  BY <1>1 DEF CommandInv, PayingOK, RebuiltOK, Running, RunningWith, Keyed
<1>3. ASSUME NEW f
      PROVE  /\ SameMoney(st, [st EXCEPT !.entry = f]) /\ SameMoney(st, [st EXCEPT !.val = f])
             /\ SameMoney(st, [st EXCEPT !.last = f]) /\ SameMoney(st, [st EXCEPT !.sign = f])
             /\ SameMoney(st, Panic(st)) /\ SameMoney(st, Cleared(st)) /\ SameMoney(st, st)
  BY <1>2 DEF SameMoney, Panic, Cleared, IsStore, StoreFields
<1>4. CASE Clear \/ ResetEntries \/ ResetValidators \/ ResetSigning
  BY <1>1, <1>3, <1>4 DEF Clear, ResetEntries, ResetValidators, ResetSigning, Go, Export
<1>5. CASE Apply
  BY <1>1, <1>3, <1>5 DEF Apply, Go, ApplyAndReturnValidatorSetUpdates, Export
<1>6. CASE Go("delegations", "heights", st, {})
  BY <1>1, <1>3, <1>6 DEF Go, Export
<1>7. CASE \E k \in work :
             Pass("delegations", k,
                  AfterDelegationModified(BeforeDelegationCreated(st, k[2]), k[1], k[2],
                                          HooksHeight))
  <2>1. PICK k, e, y :
             /\ k \in work /\ e = IncrementValidatorPeriod(st, k[2])
             /\ y = AfterDelegationModified(e, k[1], k[2], HooksHeight)
             /\ Pass("delegations", k, y)
    BY <1>7 DEF BeforeDelegationCreated
  <2>2. pc = "delegations" /\ k \in DOMAIN st.del /\ st' = y
    BY <2>1 DEF Pass, CommandInv, RebuiltOK
  <2>3. st.val[k[2]].tokens > 0
    BY <1>2, <2>2 DEF Keyed, Shared, SharedAt
  <2>4. SameMoney(st, e) /\ IsStore(e)
    BY <1>2, <2>1, <2>3, EndNoMoney DEF SameMoney
  <2>5. SameMoney(e, y)
    BY <2>1, <2>4, StartNoMoney
  <2> QED BY <1>1, <2>2, <2>4, <2>5, NoMoneyTwice DEF Export
<1> QED BY <1>4, <1>5, <1>6, <1>7 DEF ReinitializeDelegations

\* They leave the books.
LEMMA QuietBooks ==
  ASSUME CommandInv, BooksInv,
         \/ Clear \/ ReinitializeDelegations
         \/ ResetEntries \/ ResetValidators \/ Apply \/ ResetSigning
  PROVE  BooksInv'
<1>1. /\ SameMoney(st, st') /\ old' = old /\ pc \notin {"chain", "fund", "started"}
      /\ pc' \in Export \cup {"panicked", "exited"}
  BY QuietSteps DEF Export
<1>2. Books(st')
  BY <1>1, ExactBooks, BooksSame
<1> QED BY <1>1, <1>2, ExportBooks

\* What is outstanding is donated.
LEMMA DonatingBooks ==
  ASSUME CommandInv, BooksInv, ReinitializeValidators
  PROVE  BooksInv'
<1>1. pc = "validators" /\ pc \in Export
  BY DEF ReinitializeValidators, Pass, Go, Export
<1>2. Keyed(st, DOMAIN st.del) /\ IsStore(st)
  BY <1>1 DEF CommandInv, RebuiltOK, Keyed
<1>3. CASE \E v \in work : Pass("validators", v, Reinitialize(st, v))
  <2>1. PICK v \in work : Pass("validators", v, Reinitialize(st, v))
    BY <1>3
  <2>2. v \in DOMAIN st.val
    BY <1>1 DEF CommandInv, RebuiltOK
  <2>3. v \in DOMAIN st.out /\ v \in Val
    BY <1>2, <2>2 DEF Keyed
  <2>4. Books(st) => Books(Reinitialize(st, v))
    BY <1>2, <2>3, DonatedBooks DEF Reinitialize
  <2> QED BY <1>1, <2>1, <2>4, PassBooks
<1>4. CASE Go("validators", "delegations", st, DOMAIN st.del)
  <2>1. SameMoney(st, st)
    BY <1>2 DEF SameMoney
  <2> QED BY <1>4, <2>1, GoBooks DEF Export
<1> QED BY <1>3, <1>4 DEF ReinitializeValidators

-----------------------------------------------------------------------------
(***************************************************************************)
(* The in-place network.                                                   *)
(***************************************************************************)
\* An exit leaves what was committed.
LEMMA ExitBooks ==
  ASSUME BooksInv, pc # "chain", Exit
  PROVE  BooksInv'
<1>1. st' = old /\ old' = old /\ pc' \in Export \cup {"panicked", "exited"} /\ Books(st')
  BY DEF Exit, BooksInv
<1> QED BY <1>1, ExportBooks

\* The validators are removed; the rewards are not.
LEMMA RemoveBooks ==
  ASSUME CommandInv, BooksInv, RemoveValidators
  PROVE  BooksInv'
<1>1. pc = "remove"
  BY DEF RemoveValidators, Go
<1>2. CASE args.op = BadAddr
  BY <1>1, <1>2, ExitBooks DEF RemoveValidators
<1>3. CASE args.op # BadAddr
  <2>1. /\ st' = Removed(st) /\ pc' \in {"panicked", "create"} /\ old' = old
    BY <1>3 DEF RemoveValidators, Go
  <2>2. IsStore(st)
    BY <1>1 DEF CommandInv, PlacedOK, Running, RunningWith, Keyed
  <2>3. SameMoney(st, st')
    BY <2>1, <2>2 DEF SameMoney, Removed, IsStore, StoreFields
  <2>4. Books(st') /\ NoDebts(st')
    BY <1>1, <2>3, ExactBooks, BooksSame DEF BooksInv
  <2>5. MoneyTyped(st') /\ Exact(st') /\ Minted(st')
    BY <2>4 DEF Books
  <2>6. st'.held \in Int /\ st'.held = Outstanding(st') + st'.pool
    BY <2>5 DEF MoneyTyped, Exact
  <2>7. st'.held >= Outstanding(st') + st'.pool
    BY <2>6
  <2>8. Books(old')
    BY <1>1, <2>1 DEF BooksInv
  <2> QED BY <2>1, <2>4, <2>5, <2>7, <2>8 DEF BooksInv
<1> QED BY <1>2, <1>3

\* The new validator's records begin with nothing outstanding.  What was
\* outstanding for a reused address stays with the distribution account.
LEMMA CreateBooks ==
  ASSUME CommandInv, BooksInv, Create
  PROVE  BooksInv'
<1>1. /\ pc = "create" /\ st' = Created(st, args.op) /\ old' = old /\ args' = args
      /\ pc' \in {"panicked", "fund"}
  BY DEF Create, Go
<1>2. IsStore(st) /\ st = Removed(old) /\ Running(old)
  BY <1>1 DEF CommandInv, PlacedOK
<1>3. Books(st) /\ NoDebts(st) /\ Books(old)
  BY <1>1, ExactBooks DEF BooksInv
<1>4. PICK v, y : /\ v = args.op
                  /\ y = [st EXCEPT !.val = Put(st.val, v, [tokens |-> VotingPower, shares |-> 1,
                                                            jailed |-> FALSE, height |-> 0]),
                                    !.power = st.power \cup {v},
                                    !.last = st.last \cup {v},
                                    !.sign = Put(st.sign, v, Height - 1)]
  OBVIOUS
<1>5. st' = AfterValidatorCreated(y, v)
  BY <1>1, <1>4 DEF Created
<1>6. SameMoney(st, y)
  BY <1>2, <1>4 DEF SameMoney, IsStore, StoreFields
<1>7. Books(y) /\ NoDebts(y) /\ IsStore(y)
  BY <1>3, <1>6, BooksSame DEF SameMoney
<1>8. DOMAIN y.out = DOMAIN old.val
  <2>1. st.out = old.out
    BY <1>2 DEF Removed, Running, RunningWith, Keyed, IsStore, StoreFields
  <2> QED BY <1>2, <1>6, <2>1 DEF SameMoney, Running, RunningWith, Keyed
<1>9. CASE v \notin DOMAIN y.out
  <2>1. Books(st')
    BY <1>5, <1>7, <1>9, OpeningBooks
  <2>2. MoneyTyped(st') /\ Exact(st') /\ Minted(st')
    BY <2>1 DEF Books
  <2>3. st'.held \in Int /\ st'.held = Outstanding(st') + st'.pool
    BY <2>2 DEF MoneyTyped, Exact
  <2>4. st'.held >= Outstanding(st') + st'.pool
    BY <2>3
  <2> QED BY <1>1, <1>3, <2>2, <2>4 DEF BooksInv
<1>10. CASE v \in DOMAIN y.out
  <2>1. Reused' \/ pc' = "panicked"
    BY <1>1, <1>4, <1>8, <1>10 DEF Reused
  <2>2. MoneyTyped(y) /\ Exact(y) /\ Minted(y)
    BY <1>7 DEF Books
  <2>3. /\ st'.out = Put(y.out, v, 0) /\ st'.pool = y.pool /\ st'.held = y.held
        /\ st'.bal = y.bal /\ st'.supply = y.supply /\ st'.panic = y.panic
    BY <1>5, <1>7 DEF AfterValidatorCreated, IsStore, StoreFields
  <2>4. PICK b : b = -y.out[v]
    OBVIOUS
  <2>5. y.out[v] \in Int /\ y.out[v] >= 0 /\ b \in Int /\ b <= 0 /\ y.out[v] + b = 0
    BY <1>7, <1>10, <2>2, <2>4 DEF MoneyTyped, NoDebts
  <2>6. st'.out = [y.out EXCEPT ![v] = y.out[v] + b]
    BY <1>10, <2>3, <2>5 DEF Put
  <2>7. PICK S, f, e : S = DOMAIN y.out /\ f = y.out /\ e = st'.out
    OBVIOUS
  <2>8. Moved(S, f, e, v, b)
    BY <1>10, <2>2, <2>5, <2>6, <2>7 DEF MoneyTyped, Moved
  <2>9. /\ e \in [S -> Int] /\ SumFunctionOnSet(e, S) = SumFunctionOnSet(f, S) + b
        /\ SumFunctionOnSet(f, S) \in Int
    BY ONLY <2>8, SumMoved
  <2>10. DOMAIN st'.out = S /\ Outstanding(st') = Outstanding(y) + b /\ Outstanding(y) \in Int
    BY <2>7, <2>9 DEF Outstanding
  <2>11. MoneyTyped(st') /\ Minted(st')
    BY <2>2, <2>3, <2>7, <2>9, <2>10 DEF MoneyTyped, Minted
  <2>12. st'.held >= Outstanding(st') + st'.pool
    <3>1. y.held = Outstanding(y) + y.pool /\ y.pool \in Int
      BY <2>2 DEF Exact, MoneyTyped
    <3> QED BY <2>3, <2>5, <2>10, <3>1
  <2>13. pc' = "fund"
    <3>1. y.panic = st.panic
      BY <1>2, <1>4 DEF IsStore, StoreFields
    <3>2. st.panic = FALSE
      BY <1>1 DEF CommandInv, PlacedOK
    <3>3. Created(st, args.op).panic = FALSE
      BY <1>1, <2>3, <3>1, <3>2
    <3> QED BY <3>3 DEF Create, Go
  <2> QED BY <1>1, <1>3, <2>1, <2>11, <2>12, <2>13 DEF BooksInv
<1> QED BY <1>9, <1>10

\* The accounts are funded with coins that are minted.
LEMMA FundBooks ==
  ASSUME CommandInv, BooksInv, Fund
  PROVE  BooksInv'
<1>1. pc = "fund" /\ IsStore(st) /\ ArgsOK
  BY DEF Fund, Go, CommandInv, PlacedOK
<1>2. CASE Exit
  BY <1>1, <1>2, ExitBooks
<1>3. ASSUME NEW a \in Account, st' = Granted(st, a), UNCHANGED <<pc, args, old>>
      PROVE  BooksInv'
  <2>1. PICK g, z : g = Grant /\ z = 0
    OBVIOUS
  <2>2. g \in Nat /\ z \in Int /\ g * Unit + z = g * Unit
    BY <2>1, OperatorAssumption, StakingAssumption
  <2>3. /\ st'.bal = [st.bal EXCEPT ![a] = st.bal[a] + g] /\ st'.supply = st.supply + g
        /\ st'.out = st.out /\ st'.pool = st.pool /\ st'.held = st.held
    BY <1>1, <1>3, <2>1 DEF Granted, IsStore, StoreFields
  <2>4. MoneyTyped(st) /\ Minted(st) /\ st.held + z = st.held
    BY <2>1 DEF BooksInv, MoneyTyped
  <2>5. st'.held = st.held + z
    BY <2>3, <2>4
  <2>6. g \in Int
    BY <2>2
  <2>7. PICK x : x = st'
    OBVIOUS
  <2>8. /\ x.bal = [st.bal EXCEPT ![a] = st.bal[a] + g] /\ x.supply = st.supply + g
        /\ x.held = st.held + z
    BY <2>3, <2>5, <2>7
  <2>9. Minted(x)
    BY ONLY <2>2, <2>4, <2>6, <2>8, a \in Account, MintedMoved
  <2>10. MoneyTyped(x)
    BY <2>2, <2>3, <2>4, <2>7 DEF MoneyTyped
  <2>11. Outstanding(x) = Outstanding(st) /\ (Exact(st) => Exact(x))
    BY <2>3, <2>7 DEF Outstanding, Exact
  <2>12. Reused' <=> Reused
    BY <1>3 DEF Reused
  <2> QED BY <1>1, <1>3, <2>3, <2>7, <2>9, <2>10, <2>11, <2>12 DEF BooksInv
<1>4. CASE Go("fund", "started", st, {})
  <2>1. st' = st /\ old' = old /\ args' = args /\ pc' \in {"panicked", "started"}
    BY <1>4 DEF Go
  <2>2. pc' = "started"
    BY <1>1, <1>4 DEF Go, CommandInv, PlacedOK
  <2>3. Reused' <=> Reused
    BY <1>1, <2>1, <2>2 DEF Reused
  <2> QED BY <1>1, <2>1, <2>2, <2>3 DEF BooksInv, MoneyTyped, Minted, Exact, Outstanding, Books
<1>5. CASE \E k \in work :
             LET a == args.accounts[k]
             IN  IF a = BadAddr THEN Exit
                 ELSE st' = Granted(st, a) /\ UNCHANGED <<pc, args, old>>
  <2>1. PICK k, a :
             /\ k \in work /\ a = args.accounts[k]
             /\ IF a = BadAddr THEN Exit ELSE st' = Granted(st, a) /\ UNCHANGED <<pc, args, old>>
    BY <1>5
  <2>2. a \in Account \cup {BadAddr}
    BY <1>1, <2>1 DEF CommandInv, PlacedOK, ArgsOK
  <2> QED BY <1>2, <1>3, <2>1, <2>2
<1> QED BY <1>4, <1>5 DEF Fund

\* Every step.
LEMMA StepBooks == CommandInv /\ BooksInv /\ [Next]_vars => BooksInv'
<1> SUFFICES ASSUME CommandInv, BooksInv, [Next]_vars PROVE BooksInv'
  OBVIOUS
<1>1. CASE UNCHANGED vars
  BY <1>1 DEF vars, BooksInv, Reused, MoneyTyped, Minted, Exact, Outstanding, NoDebts, Books
<1>2. CASE Next
  BY <1>2, ChainBooks, BeginBooks, PayingBooks, QuietBooks, DonatingBooks, RemoveBooks,
     CreateBooks, FundBooks DEF Next
<1> QED BY <1>1, <1>2

\* The distribution account is backed and all coins are minted, in whatever
\* order the loops make their passes.
THEOREM BooksBalance == Spec => []Backed
<1>1. BooksInv => Backed
  BY DEF BooksInv, Backed, Exact, Minted, Outstanding, MoneyTyped, SumFunction
<1>2. Spec => []BooksInv
  BY CommandSafe, InitBooks, StepBooks, PTL DEF Spec
<1> QED BY <1>1, <1>2, PTL

-----------------------------------------------------------------------------
-----------------------------------------------------------------------------
(***************************************************************************)
(* What the chain can pay, and what the export has paid.                   *)
(***************************************************************************)
\* The records are formed and nothing has panicked where the command goes on.
LEMMA AlwaysFormed ==
  ASSUME CommandInv
  PROVE  Formed(st) /\ (st.panic => pc = "panicked")
<1>1. ASSUME NEW s, Running(s) PROVE Formed(s) /\ s.panic = FALSE
  BY <1>1, KeyedFormed DEF Running, RunningWith, HistOK
<1>2. CASE pc \in {"chain", "commission", "rewards", "clear"}
  BY <1>1, <1>2 DEF CommandInv, PayingOK
<1>3. CASE pc \in {"validators", "delegations", "heights", "jail", "apply", "signing", "exported"}
  <2>1. Keyed(st, DOMAIN st.del) /\ Coins(st) /\ HistTyped(st)
    BY <1>3 DEF CommandInv, RebuiltOK, HistOK
  <2> QED BY <2>1, KeyedFormed
<1>4. CASE pc = "panicked"
  BY <1>4 DEF CommandInv, RebuiltOK
<1>5. CASE pc \in {"remove", "exited"}
  BY <1>1, <1>5 DEF CommandInv, PlacedOK
<1>6. CASE pc \in {"create", "fund", "started"}
  <2>1. /\ Running(old) /\ st.panic = FALSE /\ st.start = old.start /\ st.del = old.del
        /\ HistTyped(st)
    BY <1>6 DEF CommandInv, PlacedOK, HistOK
  <2>2. Formed(old)
    BY <1>1, <2>1
  <2>3. \A v \in DOMAIN st.out : st.com[v] >= 0
    <3>1. CASE pc = "create"
      <4>1. st = Removed(old) /\ IsStore(old)
        BY <2>1, <3>1 DEF CommandInv, PlacedOK, Running, RunningWith, Keyed
      <4>2. st.com = old.com /\ st.out = old.out
        BY <4>1 DEF Removed, IsStore, StoreFields
      <4> QED BY <2>2, <4>2 DEF Formed
    <3>2. CASE pc # "create"
      BY <1>6, <3>2 DEF CommandInv, PlacedOK
    <3> QED BY <3>1, <3>2
  <2>4. \A k \in DOMAIN st.hist : st.hist[k].refs \in 1 .. 3
    BY <2>1 DEF HistTyped, Ratio
  <2> QED BY <2>1, <2>2, <2>3, <2>4 DEF Formed
<1> QED BY <1>2, <1>3, <1>4, <1>5, <1>6 DEF CommandInv, Export, InPlace

\* A chain begins with what it can pay,
LEMMA InitSolvent == Init => Settled(st)
<1>1. SUFFICES ASSUME Init PROVE Settled(st)
  OBVIOUS
<1>2. PICK v \in Val : st = CreateValidator(Empty, v, 1)
  BY <1>1 DEF Init, Height
<1>3. v \notin DOMAIN Empty.val /\ DOMAIN Empty.val = {}
  BY DEF Empty
<1>4. Settled(Empty)
  BY <1>3, EmptyRunning DEF Settled, Solvent
<1>5. 1 \in 0 .. 1
  OBVIOUS
<1> QED BY <1>2, <1>3, <1>4, <1>5, CreateSolvent

\* and so it goes on.
LEMMA ChainSolvent ==
  ASSUME Settled(st), Chain
  PROVE  Settled(st')
<1>1. 1 \in 0 .. 1
  OBVIOUS
<1>2. /\ st.last \subseteq DOMAIN st.val
      /\ DOMAIN st.del \subseteq Account \X DOMAIN st.val
  BY DEF Settled, Running, RunningWith, Indexed, Keyed
<1>3. CASE \E v \in Val \ DOMAIN st.val : Block(CreateValidator(st, v, Height))
  BY <1>1, <1>3, CreateSolvent DEF Block, Height
<1>4. CASE \E v \in DOMAIN st.val, d \in Account : Block(Delegate(st, d, v, Height))
  <2>1. PICK v \in DOMAIN st.val, d \in Account : st' = Delegate(st, d, v, 1)
    BY <1>4 DEF Block, Height
  <2> QED BY <1>1, <2>1, DelegateSolvent
<1>5. CASE \E k \in DOMAIN st.del : Block(WithdrawDelegationRewards(st, k[1], k[2], Height))
  <2>1. PICK k \in DOMAIN st.del : st' = WithdrawDelegationRewards(st, k[1], k[2], 1)
    BY <1>5 DEF Block, Height
  <2>2. PICK x : x = st'
    OBVIOUS
  <2>3. Settled(x)
    BY <1>1, <2>1, <2>2, RewardsSolvent
  <2> QED BY <2>2, <2>3
<1>6. CASE \E k \in DOMAIN st.del :
             k[1] # OperatorOf[k[2]] /\ Block(Undelegate(st, k[1], k[2], Height))
  <2>1. PICK k \in DOMAIN st.del :
             k[1] # OperatorOf[k[2]] /\ Block(Undelegate(st, k[1], k[2], Height))
    BY <1>6
  <2>2. PICK d \in Account, v \in DOMAIN st.val : k = <<d, v>>
    BY <1>2
  <2>3. d # OperatorOf[v] /\ st' = Undelegate(st, d, v, Height)
    BY <2>1, <2>2 DEF Block
  <2> QED BY <2>2, <2>3, UndelegateSolvent
<1>7. CASE \E v \in st.last : Block(AllocateTokens(st, v, 1))
  BY <1>2, <1>7, AllocateSolvent DEF Block
<1>8. CASE \E v \in st.last : /\ st.val[v].tokens % 2 = 0
                              /\ Block(SlashAndJail(st, v, Height))
  BY <1>1, <1>8, SlashSolvent DEF Block, Height
<1>9. CASE \E v \in st.queue : Block(Unjail(st, v))
  BY <1>9, UnjailSolvent DEF Block
<1> QED BY <1>3, <1>4, <1>5, <1>6, <1>7, <1>8, <1>9 DEF Chain

\* What is outstanding of a settled chain is not negative.
LEMMA SettledOut ==
  ASSUME NEW s, Settled(s)
  PROVE  \A v \in DOMAIN s.out : s.out[v] >= 0
<1> TAKE v \in DOMAIN s.out
<1>1. PICK K : K = DOMAIN s.del
  OBVIOUS
<1>2. RunningWith(s, K) /\ K \subseteq DOMAIN s.del /\ v \in DOMAIN s.val
  BY <1>1 DEF Settled, Running, RunningWith, Keyed
<1>3. /\ Recorded(s, v, K) /\ IsFiniteSet(K) /\ SolventAt(s, v, K)
      /\ s.com[v] \in Nat /\ s.out[v] \in Int
  BY <1>1, <1>2, RunningRecorded DEF Settled, Solvent, Sharing
<1>4. s.out[v] >= s.com[v]
  BY <1>3, SolventOut
<1> QED BY <1>3, <1>4

\* The chain, and the export while it pays, can pay what is owed; at no time is
\* anything outstanding, or the pool, negative.
SolvInv ==
  /\ NoDebts(st)
  /\ pc # "chain" => NoDebts(old) /\ Settled(old)
  /\ pc \in {"chain", "commission", "rewards"} => Settled(st)

\* A part of a command that does not pay rewards.
LEMMA SolvFrame ==
  ASSUME SolvInv, pc # "chain", old' = old, NoDebts(st'),
         pc' \notin {"chain", "commission", "rewards"}
  PROVE  SolvInv'
BY DEF SolvInv

\* The chain and the beginning of a command.
LEMMA ChainSolv ==
  ASSUME CommandInv, BooksInv, SolvInv, Chain \/ BeginExport \/ BeginInPlace
  PROVE  SolvInv'
<1>1. pc = "chain" /\ Settled(st) /\ NoDebts(st)
  BY DEF Chain, Block, BeginExport, BeginInPlace, SolvInv
<1>2. CASE Chain
  <2>1. pc' = "chain" /\ Settled(st')
    BY <1>1, <1>2, ChainSolvent DEF Chain, Block
  <2>2. NoDebts(st')
    BY <1>2, <2>1, ChainBooks DEF BooksInv
  <2> QED BY <2>1, <2>2 DEF SolvInv
<1>3. CASE BeginExport \/ BeginInPlace
  <2>1. st' = st /\ old' = st
    BY <1>3 DEF BeginExport, BeginInPlace
  <2> QED BY <1>1, <2>1 DEF SolvInv
<1> QED BY <1>2, <1>3

\* A pass that pays leaves what covers the rest.
LEMMA PayingSolv ==
  ASSUME CommandInv, BooksInv, SolvInv, WithdrawCommission \/ WithdrawRewards
  PROVE  SolvInv'
<1>1. /\ pc \in {"commission", "rewards"} /\ old' = old /\ Settled(st) /\ NoDebts(st)
      /\ NoDebts(old) /\ Settled(old)
  BY DEF WithdrawCommission, WithdrawRewards, Pass, Go, SolvInv
<1>2. /\ pc = "commission" => work \subseteq DOMAIN st.val
      /\ pc = "rewards" => work \subseteq DOMAIN st.del
  BY DEF CommandInv, PayingOK
<1>3. CASE \E v \in work : Pass("commission", v, WithdrawValidatorCommission(st, v))
  <2>1. PICK v \in work : st' = WithdrawValidatorCommission(st, v) /\ v \in DOMAIN st.val
    BY <1>2, <1>3 DEF Pass
  <2>2. PICK x, n : x = st' /\ n = st.com[v] \div Unit
    OBVIOUS
  <2>3. Settled(x) /\ x.pool = st.pool
    BY <1>1, <2>1, <2>2, CommissionSolvent
  <2>4. NoDebts(st')
    BY <1>1, <2>2, <2>3, SettledOut DEF NoDebts
  <2> QED BY <1>1, <2>2, <2>3, <2>4 DEF SolvInv
<1>4. CASE \E k \in work : Pass("rewards", k, WithdrawDelegationRewards(st, k[1], k[2], Height))
  <2>1. PICK k \in work : /\ st' = WithdrawDelegationRewards(st, k[1], k[2], 1)
                          /\ k \in DOMAIN st.del /\ pc = "rewards"
    BY <1>2, <1>4 DEF Pass, Height
  <2>2. PICK x : x = st'
    OBVIOUS
  <2>3. 1 \in 0 .. 1
    OBVIOUS
  <2>4. Settled(x)
    BY <1>1, <2>1, <2>2, <2>3, RewardsSolvent
  <2>5. Books(st) /\ Running(st)
    BY <1>1, <2>1, ExactBooks DEF Settled
  <2>6. NoDebts(x)
    BY <1>1, <2>1, <2>2, <2>5, RewardsSound
  <2> QED BY <1>1, <2>2, <2>4, <2>6 DEF SolvInv
<1>5. CASE Go("commission", "rewards", st, DOMAIN st.del) \/ Go("rewards", "clear", st, {})
  BY <1>1, <1>5 DEF Go, SolvInv
<1> QED BY <1>3, <1>4, <1>5 DEF WithdrawCommission, WithdrawRewards

\* A pass that donates what is outstanding, or the end of that loop.
LEMMA DonatingStep ==
  ASSUME CommandInv, ReinitializeValidators
  PROVE  /\ pc = "validators" /\ old' = old /\ st'.bal = st.bal
         /\ pc' \in {"validators", "delegations", "panicked"}
         /\ NoDebts(st) => NoDebts(st')
<1>1. /\ pc = "validators" /\ old' = old /\ pc' \in {"validators", "delegations", "panicked"}
  BY DEF ReinitializeValidators, Pass, Go
<1>2. /\ IsStore(st) /\ work \subseteq DOMAIN st.val /\ DOMAIN st.out = DOMAIN st.val
      /\ st.pool \in Int /\ st.out \in [DOMAIN st.val -> Int]
  BY <1>1 DEF CommandInv, RebuiltOK, Keyed, Coins
<1>3. CASE Go("validators", "delegations", st, DOMAIN st.del)
  BY <1>1, <1>3 DEF Go
<1>4. CASE \E v \in work : Pass("validators", v, Reinitialize(st, v))
  <2>1. PICK v \in work : st' = Reinitialize(st, v)
    BY <1>4 DEF Pass
  <2>2. PICK e, n : e = st.out[v] /\ n = [st EXCEPT !.pool = st.pool + e]
    OBVIOUS
  <2>3. SameBut(st, n, {"pool"}) /\ n.pool = st.pool + e
    BY <1>2, <2>2 DEF IsStore, SameBut, StoreFields
  <2>4. n.out = st.out /\ n.bal = st.bal /\ IsStore(n)
    BY <2>3 DEF SameBut, StoreFields
  <2>5. st' = AfterValidatorCreated(n, v)
    BY <2>1, <2>2 DEF Reinitialize
  <2>6. st'.out = Put(st.out, v, 0) /\ st'.pool = st.pool + e /\ st'.bal = st.bal
    BY <2>3, <2>4, <2>5 DEF AfterValidatorCreated, IsStore, StoreFields
  <2>7. ASSUME NoDebts(st) PROVE NoDebts(st')
    <3>1. v \in DOMAIN st.out /\ e \in Int /\ e >= 0 /\ st.pool >= 0
      BY <1>2, <2>2, <2>7 DEF NoDebts
    <3>2. st'.pool >= 0
      BY <1>2, <2>6, <3>1
    <3>3. \A w \in DOMAIN st'.out : st'.out[w] >= 0
      BY <2>6, <2>7 DEF NoDebts, Put
    <3> QED BY <3>2, <3>3 DEF NoDebts
  <2> QED BY <1>1, <2>6, <2>7
<1> QED BY <1>3, <1>4 DEF ReinitializeValidators

\* The in-place command leaves or forgets what is outstanding.
LEMMA PlacingSolv ==
  ASSUME CommandInv, BooksInv, SolvInv, RemoveValidators \/ Create \/ Fund
  PROVE  SolvInv'
<1>1. /\ pc \in {"remove", "create", "fund"} /\ NoDebts(st) /\ NoDebts(old)
  BY DEF RemoveValidators, Exit, Create, Fund, Go, SolvInv
<1>2. IsStore(st)
  BY <1>1 DEF CommandInv, PlacedOK, Running, RunningWith, Keyed
<1>3. CASE Exit /\ pc' = "exited"
  BY <1>1, <1>3, SolvFrame DEF Exit
<1>4. CASE Go("remove", "create", Removed(st), {})
  <2>1. st' = Removed(st) /\ old' = old /\ pc' \in {"panicked", "create"}
    BY <1>4 DEF Go
  <2>2. st'.out = st.out /\ st'.pool = st.pool
    BY <1>2, <2>1 DEF Removed, IsStore, StoreFields
  <2> QED BY <1>1, <2>1, <2>2, SolvFrame DEF NoDebts
<1>5. CASE Create
  <2>1. st' = Created(st, args.op) /\ old' = old /\ pc' \in {"panicked", "fund"}
    BY <1>5 DEF Create, Go
  <2>2. PICK v, y : /\ v = args.op
                    /\ y = [st EXCEPT !.val = Put(st.val, v, [tokens |-> VotingPower,
                                                    shares |-> 1, jailed |-> FALSE, height |-> 0]),
                                      !.power = st.power \cup {v},
                                      !.last = st.last \cup {v},
                                      !.sign = Put(st.sign, v, Height - 1)]
    OBVIOUS
  <2>3. y.out = st.out /\ y.pool = st.pool /\ IsStore(y)
    BY <1>2, <2>2 DEF IsStore, StoreFields
  <2>4. st' = AfterValidatorCreated(y, v)
    BY <2>1, <2>2 DEF Created
  <2>5. st'.out = Put(st.out, v, 0) /\ st'.pool = st.pool
    BY <2>3, <2>4 DEF AfterValidatorCreated, IsStore, StoreFields
  <2>6. NoDebts(st')
    BY <1>1, <2>5 DEF NoDebts, Put
  <2> QED BY <1>1, <2>1, <2>6, SolvFrame
<1>6. CASE Go("fund", "started", st, {})
  BY <1>1, <1>6, SolvFrame DEF Go
<1>7. CASE \E a : st' = Granted(st, a) /\ UNCHANGED <<pc, args, old>>
  <2>1. PICK a : st' = Granted(st, a) /\ UNCHANGED <<pc, args, old>>
    BY <1>7
  <2>2. st'.out = st.out /\ st'.pool = st.pool
    BY <1>2, <2>1 DEF Granted, IsStore, StoreFields
  <2> QED BY <1>1, <2>1, <2>2, SolvFrame DEF NoDebts
<1>8. CASE RemoveValidators
  BY <1>3, <1>4, <1>8 DEF RemoveValidators, Exit
<1>9. CASE Fund
  BY <1>3, <1>6, <1>7, <1>9 DEF Fund, Exit
<1> QED BY <1>5, <1>8, <1>9

\* Every step.
LEMMA StepSolv == CommandInv /\ BooksInv /\ SolvInv /\ [Next]_vars => SolvInv'
<1> SUFFICES ASSUME CommandInv, BooksInv, SolvInv, [Next]_vars PROVE SolvInv'
  OBVIOUS
<1>1. CASE UNCHANGED vars
  BY <1>1 DEF vars, SolvInv
<1>2. CASE \/ Clear \/ ReinitializeDelegations
           \/ ResetEntries \/ ResetValidators \/ Apply \/ ResetSigning
  <2>1. /\ SameMoney(st, st') /\ old' = old
        /\ pc \in Export \ {"commission", "rewards"}
        /\ pc' \in (Export \ {"commission", "rewards"}) \cup {"panicked"}
    BY <1>2, QuietSteps
  <2>2. NoDebts(st')
    BY <2>1, BooksSame DEF SolvInv
  <2> QED BY <2>1, <2>2, SolvFrame DEF Export
<1>3. CASE ReinitializeValidators
  BY <1>3, DonatingStep, SolvFrame DEF SolvInv
<1> QED BY <1>1, <1>2, <1>3, ChainSolv, PayingSolv, PlacingSolv DEF Next

\* The chain can pay, and nothing is owed that is not covered, in every state.
LEMMA SolventAlways == Spec => [](CommandInv /\ BooksInv /\ SolvInv)
<1>1. Init => SolvInv
  <2>1. SUFFICES ASSUME Init PROVE SolvInv
    OBVIOUS
  <2>2. pc = "chain" /\ Settled(st) /\ NoDebts(st)
    BY <2>1, InitSolvent, InitBooks DEF Init, BooksInv
  <2> QED BY <2>2 DEF SolvInv
<1> QED BY <1>1, InitInv, StepInv, InitBooks, StepBooks, StepSolv, PTL DEF Spec

\* No quantity is negative, no ratio has more than three referrers, and no keeper
\* has panicked while the command goes on.
THEOREM CommandTypes == Spec => []TypeOK
<1>1. CommandInv /\ BooksInv /\ SolvInv => TypeOK
  <2>1. SUFFICES ASSUME CommandInv, BooksInv, SolvInv PROVE TypeOK
    OBVIOUS
  <2>2. Formed(st) /\ (st.panic => pc = "panicked")
    BY <2>1, AlwaysFormed
  <2>3. st.pool >= 0 /\ \A v \in DOMAIN st.out : st.out[v] >= 0
    BY <2>1 DEF SolvInv, NoDebts
  <2>4. Outstanding(st) \in Nat
    <3>1. IsFiniteSet(DOMAIN st.out) /\ \A v \in DOMAIN st.out : st.out[v] \in Nat
      BY <2>1, <2>3 DEF BooksInv, MoneyTyped
    <3> QED BY <3>1, SumNatural DEF Outstanding
  <2>5. st.held \in Int /\ st.pool \in Int /\ st.held >= Outstanding(st) + st.pool
    BY <2>1 DEF BooksInv, MoneyTyped
  <2>6. st.held >= 0
    BY <2>3, <2>4, <2>5
  <2> QED BY <2>2, <2>3, <2>6 DEF TypeOK, Formed
<1> QED BY <1>1, SolventAlways, PTL

\* One more of what has been paid.
LEMMA SumPaid ==
  ASSUME NEW S, IsFiniteSet(S), NEW f, \A x \in S : f[x] \in Int, NEW w, NEW y \in w
  PROVE  /\ SumFunctionOnSet(f, S \ (w \ {y})) =
              SumFunctionOnSet(f, S \ w) + (IF y \in S THEN f[y] ELSE 0)
         /\ SumFunctionOnSet(f, S \ w) \in Int
<1>1. PICK R, T : R = S \ w /\ T = S \ (w \ {y})
  OBVIOUS
<1>2. IsFiniteSet(R) /\ IsFiniteSet(T) /\ \A x \in T : f[x] \in Int
  BY <1>1, FS_Subset
<1>3. \A x \in R : f[x] \in Int
  BY <1>1
<1>4. SumFunctionOnSet(f, R) \in Int
  BY <1>2, <1>3, SumRemove
<1>5. CASE y \in S
  <2>1. y \in T /\ T \ {y} = R /\ f[y] \in Int
    BY <1>1, <1>5
  <2>2. SumFunctionOnSet(f, T) = f[y] + SumFunctionOnSet(f, R)
    BY <1>2, <2>1, SumRemove
  <2>3. PICK p, q : p = f[y] /\ q = SumFunctionOnSet(f, R)
    OBVIOUS
  <2>4. p + q = q + p
    BY <1>4, <2>1, <2>3
  <2> QED BY <1>1, <1>4, <1>5, <2>2, <2>3, <2>4
<1>6. CASE y \notin S
  <2>1. T = R
    BY <1>1, <1>6
  <2>2. PICK q : q = SumFunctionOnSet(f, R)
    OBVIOUS
  <2>3. q + 0 = q
    BY <1>4, <2>2
  <2> QED BY <1>1, <1>4, <1>6, <2>1, <2>2, <2>3
<1> QED BY <1>5, <1>6

\* What a settled chain owes to a delegation is a number, and is what Due counts.
LEMMA FullType ==
  ASSUME NEW s, Settled(s), NEW d, NEW v, NEW k, k = <<d, v>>, k \in DOMAIN s.del
  PROVE  /\ Full(s, k) \in Int /\ Full(s, k) \div Unit \in Int
         /\ Rewards(IncrementValidatorPeriod(s, v), d, v, s.cur[v].period) = Full(s, k)
<1>1. PICK K, y, n : K = DOMAIN s.del /\ y = IncrementValidatorPeriod(s, v) /\ n = s.cur[v].period
  OBVIOUS
<1>2. /\ RunningWith(s, K) /\ K \subseteq DOMAIN s.del /\ v \in DOMAIN s.val
      /\ DOMAIN s.cur = DOMAIN s.val /\ HistOK(s, DOMAIN s.val, K)
  BY <1>1 DEF Settled, Running, RunningWith, Keyed
<1>3. /\ Recorded(s, v, K) /\ SolventAt(s, v, K) /\ Sharing(s, v) /\ MayEnd(s, v)
  BY <1>1, <1>2, RunningRecorded DEF Settled, Solvent
<1>4. Recorded(y, v, K)
  BY <1>1, <1>3, EndSolvent
<1>5. k \in DelsTo(K, v)
  BY <1>1 DEF DelsTo
<1>6. Owed(y, k) \in Int
  BY <1>4, <1>5, OwedType
<1>7. n \in Nat /\ y.cur = [s.cur EXCEPT ![v] = [rewards |-> 0, period |-> n + 1]]
  <2>1. DOMAIN s.val \subseteq DOMAIN s.cur
    BY <1>2
  <2> QED BY <1>1, <1>2, <1>3, <2>1, PeriodHist
<1>8. y.cur[v].period = n + 1
  BY <1>2, <1>7
<1>9. Full(s, k) = Owed(y, k) /\ Rewards(y, d, v, n) = Full(s, k)
  BY <1>1, <1>7, <1>8, FullRewards
<1>10. PICK r, u : r = Full(s, k) /\ u = Unit
  OBVIOUS
<1>11. r \in Int /\ u \in Nat \ {0}
  BY <1>6, <1>9, <1>10, StakingAssumption
<1>12. r \div u \in Int
  BY <1>11
<1> QED BY <1>1, <1>9, <1>10, <1>11, <1>12

\* What the export owes account a when it begins: commission, rewards.
Commission(a) ==
  [v \in DOMAIN old.val |-> IF OperatorOf[v] = a THEN old.com[v] \div Unit ELSE 0]
Mine(a) == {k \in DOMAIN old.start : k[1] = a}
RewardsOf(a) == [k \in Mine(a) |-> Full(old, k) \div Unit]

\* They are finitely many numbers.
LEMMA OldTypes ==
  ASSUME BooksInv, SolvInv, pc # "chain"
  PROVE  /\ old.bal \in [Account -> Int] /\ old.com \in [DOMAIN old.val -> Nat]
         /\ DOMAIN old.val \subseteq Val /\ DOMAIN old.start = DOMAIN old.del
         /\ DOMAIN old.del \subseteq Account \X DOMAIN old.val
         /\ IsFiniteSet(DOMAIN old.val)
         /\ \A v \in DOMAIN old.val : old.com[v] \div Unit \in Int
         /\ \A a : \A v \in DOMAIN old.val : Commission(a)[v] \in Int
         /\ \A a : IsFiniteSet(Mine(a)) /\ \A k \in Mine(a) : RewardsOf(a)[k] \in Int
<1>1. Settled(old) /\ Books(old)
  BY DEF SolvInv, BooksInv
<1>2. /\ old.bal \in [Account -> Int] /\ old.com \in [DOMAIN old.val -> Nat]
      /\ DOMAIN old.val \subseteq Val /\ DOMAIN old.start = DOMAIN old.del
      /\ DOMAIN old.del \subseteq Account \X DOMAIN old.val
      /\ DOMAIN old.out = DOMAIN old.val /\ IsFiniteSet(DOMAIN old.del)
  BY <1>1 DEF Settled, Running, RunningWith, Keyed, Coins, Shared, DelTyped
<1>3. IsFiniteSet(DOMAIN old.val)
  BY <1>1, <1>2 DEF Books, MoneyTyped
<1>4. ASSUME NEW v \in DOMAIN old.val PROVE old.com[v] \div Unit \in Int
  <2>1. PICK c, u : c = old.com[v] /\ u = Unit
    OBVIOUS
  <2>2. c \in Nat /\ u \in Nat \ {0}
    BY <1>2, <2>1, StakingAssumption
  <2>3. c \div u \in Int
    BY <2>2
  <2> QED BY <2>1, <2>3
<1>5. \A a : \A v \in DOMAIN old.val : Commission(a)[v] \in Int
  BY <1>4 DEF Commission
<1>6. ASSUME NEW a PROVE IsFiniteSet(Mine(a)) /\ \A k \in Mine(a) : RewardsOf(a)[k] \in Int
  <2>1. IsFiniteSet(Mine(a))
    BY <1>2, FS_Subset DEF Mine
  <2>2. ASSUME NEW k \in Mine(a) PROVE RewardsOf(a)[k] \in Int
    <3>1. PICK d, v : k = <<d, v>> /\ k \in DOMAIN old.del
      BY <1>2, <2>2 DEF Mine
    <3>2. Full(old, k) \div Unit \in Int
      BY <1>1, <3>1, FullType
    <3> QED BY <2>2, <3>2 DEF RewardsOf
  <2> QED BY <2>1, <2>2
<1> QED BY <1>2, <1>3, <1>4, <1>5, <1>6

\* They are due.
LEMMA DueIs ==
  ASSUME BooksInv, SolvInv, pc # "chain", NEW a \in Account
  PROVE  Due(a) = SumFunctionOnSet(Commission(a), DOMAIN old.val)
                    + SumFunctionOnSet(RewardsOf(a), Mine(a))
<1>1. Settled(old) /\ DOMAIN old.start = DOMAIN old.del
      /\ DOMAIN old.del \subseteq Account \X DOMAIN old.val
  BY OldTypes DEF SolvInv
<1>2. PICK f : f = [k \in Mine(a) |->
                      Rewards(IncrementValidatorPeriod(old, k[2]), a, k[2],
                              old.cur[k[2]].period) \div Unit]
  OBVIOUS
<1>3. ASSUME NEW k \in Mine(a)
      PROVE  Rewards(IncrementValidatorPeriod(old, k[2]), a, k[2], old.cur[k[2]].period)
               = Full(old, k)
  <2>1. PICK v : k = <<a, v>> /\ k[2] = v /\ k \in DOMAIN old.del
    BY <1>1, <1>3 DEF Mine
  <2> QED BY <1>1, <2>1, FullType
<1>4. f = RewardsOf(a)
  BY <1>2, <1>3 DEF RewardsOf
<1>5. PICK c : c = Commission(a)
  OBVIOUS
<1>6. Due(a) = SumFunction(c) + SumFunction(f)
  BY <1>2, <1>5 DEF Due, Commission, Mine
<1>7. DOMAIN c = DOMAIN old.val /\ DOMAIN f = Mine(a)
  BY <1>2, <1>5 DEF Commission
<1> QED BY <1>4, <1>5, <1>6, <1>7 DEF SumFunction

\* The commission of the validators that have been visited is paid, the others'
\* is what it was; so with the rewards; then everyone has what was due.
PaidInv ==
  /\ pc = "commission" =>
       /\ \A v \in work : st.com[v] = old.com[v]
       /\ \A k \in DOMAIN old.del : Full(st, k) = Full(old, k)
       /\ \A a \in Account :
            st.bal[a] = old.bal[a] + SumFunctionOnSet(Commission(a), DOMAIN old.val \ work)
  /\ pc = "rewards" =>
       /\ \A k \in work : Full(st, k) = Full(old, k)
       /\ \A a \in Account :
            st.bal[a] = old.bal[a] + SumFunctionOnSet(Commission(a), DOMAIN old.val)
                          + SumFunctionOnSet(RewardsOf(a), Mine(a) \ work)
  /\ pc \in Export \ {"commission", "rewards"} =>
       \A a \in Account : st.bal[a] = old.bal[a] + Due(a)

\* What was due stays the same.
LEMMA OldSame ==
  ASSUME old' = old
  PROVE  /\ \A a : Commission(a)' = Commission(a)
         /\ \A a : Mine(a)' = Mine(a)
         /\ \A a : RewardsOf(a)' = RewardsOf(a)
         /\ \A a : Due(a)' = Due(a)
BY DEF Commission, Mine, RewardsOf, Due

\* The export begins with nothing paid.
LEMMA BeginPaid ==
  ASSUME CommandInv, BeginExport
  PROVE  PaidInv'
<1>1. /\ pc = "chain" /\ pc' \in {"commission", "panicked"}
      /\ work' = DOMAIN st.val /\ old' = st /\ st' = st
  BY DEF BeginExport
<1>2. st.bal \in [Account -> Int]
  BY <1>1 DEF CommandInv, Running, RunningWith, Coins
<1>3. DOMAIN old'.val \ work' = {}
  BY <1>1
<1>4. ASSUME NEW a \in Account
      PROVE  st'.bal[a] = old'.bal[a] + SumFunctionOnSet(Commission(a)', DOMAIN old'.val \ work')
  <2>1. SumFunctionOnSet(Commission(a)', {}) = 0
    BY SumEmpty
  <2>2. st.bal[a] = st.bal[a] + 0
    BY <1>2
  <2> QED BY <1>1, <1>3, <2>1, <2>2
<1> QED BY <1>1, <1>4 DEF PaidInv, Export

\* A pass pays the commission of one validator to its operator.
LEMMA CommissionPaid ==
  ASSUME CommandInv, BooksInv, SolvInv, PaidInv, NEW v \in work,
         Pass("commission", v, WithdrawValidatorCommission(st, v))
  PROVE  PaidInv'
<1>1. /\ pc = "commission" /\ old' = old /\ work' = work \ {v}
      /\ st' = WithdrawValidatorCommission(st, v)
      /\ pc' = IF st'.panic THEN "panicked" ELSE pc
  BY DEF Pass
<1>2. /\ Settled(st) /\ work \subseteq DOMAIN st.val /\ st.val = old.val /\ st.del = old.del
      /\ st.bal \in [Account -> Int]
  BY <1>1 DEF SolvInv, CommandInv, PayingOK, Staked, Running, RunningWith, Coins
<1>3. PICK x, o, n : x = st' /\ o = OperatorOf[v] /\ n = st.com[v] \div Unit
  OBVIOUS
<1>4. /\ Settled(x) /\ n \in Int
      /\ \A l \in DOMAIN st.del : Full(x, l) = Full(st, l)
      /\ \A w \in DOMAIN st.val : w # v => x.com[w] = st.com[w]
      /\ x.bal = [st.bal EXCEPT ![o] = st.bal[o] + n]
  <2>1. v \in DOMAIN st.val
    BY <1>2
  <2> QED BY <1>1, <1>2, <1>3, <2>1, CommissionSolvent
<1>5. pc' = "commission"
  BY <1>1, <1>3, <1>4 DEF Settled, Running, RunningWith, Keyed
<1>6. /\ \A w \in work' : x.com[w] = old.com[w]
      /\ \A k \in DOMAIN old.del : Full(x, k) = Full(old, k)
  BY <1>1, <1>2, <1>4 DEF PaidInv
<1>7. ASSUME NEW a \in Account
      PROVE  x.bal[a] = old.bal[a] + SumFunctionOnSet(Commission(a), DOMAIN old.val \ work')
  <2>1. PICK S, f : S = DOMAIN old.val /\ f = Commission(a)
    OBVIOUS
  <2>2. /\ IsFiniteSet(S) /\ \A w \in S : f[w] \in Int
        /\ old.bal[a] \in Int /\ v \in S
    BY <1>1, <1>2, <2>1, OldTypes
  <2>3. /\ SumFunctionOnSet(f, S \ work') = SumFunctionOnSet(f, S \ work) + f[v]
        /\ SumFunctionOnSet(f, S \ work) \in Int
    <3>1. PICK g : g = IF v \in S THEN f[v] ELSE 0
      OBVIOUS
    <3>2. g = f[v]
      BY <2>2, <3>1
    <3>3. /\ SumFunctionOnSet(f, S \ work') = SumFunctionOnSet(f, S \ work) + g
          /\ SumFunctionOnSet(f, S \ work) \in Int
      BY <1>1, <2>2, <3>1, SumPaid
    <3> QED BY <3>2, <3>3
  <2>4. st.bal[a] = old.bal[a] + SumFunctionOnSet(f, S \ work)
    BY <1>1, <2>1 DEF PaidInv
  <2>5. f[v] = IF o = a THEN n ELSE 0
    BY <1>1, <1>3, <2>1, <2>2 DEF Commission, PaidInv
  <2>6. x.bal[a] = st.bal[a] + f[v]
    BY <1>2, <1>4, <2>5
  <2>7. PICK p, q, r : p = old.bal[a] /\ q = SumFunctionOnSet(f, S \ work) /\ r = f[v]
    OBVIOUS
  <2>8. (p + q) + r = p + (q + r)
    BY <2>2, <2>3, <2>7
  <2> QED BY <2>1, <2>3, <2>4, <2>6, <2>7, <2>8
<1> QED BY <1>1, <1>3, <1>5, <1>6, <1>7, OldSame DEF PaidInv, Export

\* A pass pays a delegation to its delegator.
LEMMA RewardsPaid ==
  ASSUME CommandInv, BooksInv, SolvInv, PaidInv, NEW k \in work,
         Pass("rewards", k, WithdrawDelegationRewards(st, k[1], k[2], Height))
  PROVE  PaidInv'
<1>1. /\ pc = "rewards" /\ old' = old /\ work' = work \ {k}
      /\ st' = WithdrawDelegationRewards(st, k[1], k[2], 1)
      /\ pc' = IF st'.panic THEN "panicked" ELSE pc
  BY DEF Pass, Height
<1>2. /\ Settled(st) /\ work \subseteq DOMAIN st.del /\ st.del = old.del
      /\ st.bal \in [Account -> Int]
  BY <1>1 DEF SolvInv, CommandInv, PayingOK, Staked, Running, RunningWith, Coins
<1>3. PICK x, n, d : x = st' /\ n = Full(st, k) \div Unit /\ d = k[1]
  OBVIOUS
<1>4. /\ Settled(x)
      /\ \A l \in DOMAIN st.del \ {k} : Full(x, l) = Full(st, l)
      /\ x.bal = [st.bal EXCEPT ![d] = st.bal[d] + n]
  <2>1. k \in DOMAIN st.del /\ 1 \in 0 .. 1
    BY <1>2
  <2> QED BY <1>1, <1>2, <1>3, <2>1, RewardsSolvent
<1>5. pc' = "rewards"
  BY <1>1, <1>3, <1>4 DEF Settled, Running, RunningWith, Keyed
<1>6. \A l \in work' : Full(x, l) = Full(old, l)
  BY <1>1, <1>2, <1>4 DEF PaidInv
<1>7. ASSUME NEW a \in Account
      PROVE  x.bal[a] = old.bal[a] + SumFunctionOnSet(Commission(a), DOMAIN old.val)
                          + SumFunctionOnSet(RewardsOf(a), Mine(a) \ work')
  <2>1. PICK S, f, c : /\ S = Mine(a) /\ f = RewardsOf(a)
                       /\ c = SumFunctionOnSet(Commission(a), DOMAIN old.val)
    OBVIOUS
  <2>2. /\ IsFiniteSet(S) /\ \A l \in S : f[l] \in Int
        /\ old.bal[a] \in Int /\ DOMAIN old.start = DOMAIN old.del
    BY <1>1, <2>1, OldTypes
  <2>3. c \in Int
    BY <1>1, <2>1, OldTypes, SumRemove
  <2>4. PICK g : g = IF k \in S THEN f[k] ELSE 0
    OBVIOUS
  <2>5. /\ SumFunctionOnSet(f, S \ work') = SumFunctionOnSet(f, S \ work) + g
        /\ SumFunctionOnSet(f, S \ work) \in Int
    BY <1>1, <2>2, <2>4, SumPaid
  <2>6. st.bal[a] = old.bal[a] + c + SumFunctionOnSet(f, S \ work)
    BY <1>1, <2>1 DEF PaidInv
  <2>7. g = IF d = a THEN n ELSE 0
    BY <1>1, <1>2, <1>3, <2>1, <2>2, <2>4 DEF RewardsOf, Mine, PaidInv
  <2>8. g \in Int
    BY <2>2, <2>4
  <2>9. x.bal[a] = st.bal[a] + g
    BY <1>2, <1>4, <2>7
  <2>10. PICK p, q : p = old.bal[a] /\ q = SumFunctionOnSet(f, S \ work)
    OBVIOUS
  <2>11. p + c + q + g = p + c + (q + g)
    BY <2>2, <2>3, <2>5, <2>8, <2>10
  <2> QED BY <2>1, <2>5, <2>6, <2>9, <2>10, <2>11
<1> QED BY <1>1, <1>3, <1>5, <1>6, <1>7, OldSame DEF PaidInv, Export

\* The end of a loop that pays, and the steps after.
LEMMA PaidStays ==
  ASSUME CommandInv, BooksInv, SolvInv, PaidInv,
         \/ Go("commission", "rewards", st, DOMAIN st.del) \/ Go("rewards", "clear", st, {})
         \/ ReinitializeValidators
         \/ Clear \/ ReinitializeDelegations
         \/ ResetEntries \/ ResetValidators \/ Apply \/ ResetSigning
  PROVE  PaidInv'
<1>1. CASE Go("commission", "rewards", st, DOMAIN st.del)
  <2>1. /\ pc = "commission" /\ old' = old /\ work = {} /\ work' = DOMAIN st.del /\ st' = st
        /\ pc' \in {"rewards", "panicked"}
    BY <1>1 DEF Go
  <2>2. st.del = old.del
    BY <2>1 DEF CommandInv, PayingOK, Staked
  <2>3. \A k \in work' : Full(st', k) = Full(old, k)
    BY <2>1, <2>2 DEF PaidInv
  <2>4. ASSUME NEW a \in Account
        PROVE  st.bal[a] = old.bal[a] + SumFunctionOnSet(Commission(a), DOMAIN old.val)
                             + SumFunctionOnSet(RewardsOf(a), Mine(a) \ work')
    <3>1. Mine(a) \ work' = {} /\ DOMAIN old.val \ work = DOMAIN old.val
      BY <2>1, <2>2, OldTypes DEF Mine
    <3>2. SumFunctionOnSet(RewardsOf(a), {}) = 0
      BY SumEmpty
    <3>3. PICK p, c : p = old.bal[a] /\ c = SumFunctionOnSet(Commission(a), DOMAIN old.val)
      OBVIOUS
    <3>4. p \in Int /\ c \in Int
      <4>1. c \in Int
        BY <2>1, <3>3, OldTypes, SumRemove
      <4> QED BY <2>1, <3>3, <4>1, OldTypes
    <3>5. st.bal[a] = p + c /\ p + c = p + c + 0
      BY <2>1, <3>1, <3>3, <3>4 DEF PaidInv
    <3> QED BY <3>1, <3>2, <3>3, <3>5
  <2> QED BY <2>1, <2>3, <2>4, OldSame DEF PaidInv, Export
<1>2. CASE Go("rewards", "clear", st, {})
  <2>1. /\ pc = "rewards" /\ old' = old /\ work = {} /\ st' = st
        /\ pc' \in {"clear", "panicked"}
    BY <1>2 DEF Go
  <2>2. ASSUME NEW a \in Account PROVE st.bal[a] = old.bal[a] + Due(a)
    <3>1. Mine(a) \ work = Mine(a)
      BY <2>1
    <3>2. PICK p, c, q : /\ p = old.bal[a]
                         /\ c = SumFunctionOnSet(Commission(a), DOMAIN old.val)
                         /\ q = SumFunctionOnSet(RewardsOf(a), Mine(a))
      OBVIOUS
    <3>3. p \in Int /\ c \in Int /\ q \in Int
      <4>1. c \in Int
        BY <2>1, <3>2, OldTypes, SumRemove
      <4>2. q \in Int
        BY <2>1, <3>2, OldTypes, SumRemove
      <4> QED BY <2>1, <3>2, <4>1, <4>2, OldTypes
    <3>4. st.bal[a] = p + c + q /\ p + c + q = p + (c + q)
      BY <2>1, <3>1, <3>2, <3>3 DEF PaidInv
    <3>5. Due(a) = c + q
      BY <2>1, <3>2, DueIs
    <3> QED BY <3>2, <3>4, <3>5
  <2> QED BY <2>1, <2>2, OldSame DEF PaidInv, Export
<1>3. CASE \/ ReinitializeValidators
           \/ Clear \/ ReinitializeDelegations
           \/ ResetEntries \/ ResetValidators \/ Apply \/ ResetSigning
  <2>1. /\ st'.bal = st.bal /\ old' = old /\ pc \in Export \ {"commission", "rewards"}
        /\ pc' \in (Export \ {"commission", "rewards"}) \cup {"panicked"}
    BY <1>3, QuietSteps, DonatingStep DEF SameMoney, Export
  <2> QED BY <2>1, OldSame DEF PaidInv, Export
<1> QED BY <1>1, <1>2, <1>3

\* Every step.
LEMMA StepPaid == CommandInv /\ BooksInv /\ SolvInv /\ PaidInv /\ [Next]_vars => PaidInv'
<1> SUFFICES ASSUME CommandInv, BooksInv, SolvInv, PaidInv, [Next]_vars PROVE PaidInv'
  OBVIOUS
<1>1. CASE UNCHANGED vars
  BY <1>1, OldSame DEF vars, PaidInv
<1>2. CASE Chain \/ BeginInPlace \/ RemoveValidators \/ Create \/ Fund
  <2>1. pc' \notin Export
    BY <1>2 DEF Chain, Block, BeginInPlace, RemoveValidators, Create, Fund, Exit, Go, Export
  <2> QED BY <2>1 DEF PaidInv, Export
<1>3. CASE WithdrawCommission
  BY <1>3, CommissionPaid, PaidStays DEF WithdrawCommission
<1>4. CASE WithdrawRewards
  BY <1>4, RewardsPaid, PaidStays DEF WithdrawRewards
<1> QED BY <1>1, <1>2, <1>3, <1>4, BeginPaid, PaidStays DEF Next

\* The export has paid everyone what could have been withdrawn when it began,
\* in whatever order its loops visited the validators and the delegations.
THEOREM EveryonePaid == Spec => []AllPaid
<1>1. PaidInv => AllPaid
  BY DEF PaidInv, AllPaid, Export
<1>2. Init => PaidInv
  BY DEF Init, PaidInv, Export
<1> QED BY <1>1, <1>2, SolventAlways, StepPaid, PTL DEF Spec
=============================================================================

--------------------------- MODULE MCWalletHistory ---------------------------
(***************************************************************************)
(* Instance of WalletHistory for TLC.                                      *)
(***************************************************************************)
EXTENDS WalletHistory

Ustb(n) == <<[denom |-> "ustb", n |-> n]>>
Body(signer, senders, fee, ok, moves) ==
  [signer |-> signer, senders |-> senders, fee |-> fee, ok |-> ok, moves |-> moves]

\* Received, sent by another client, two messages (the larger one second),
\* minted by another account, burnt, failed, without a fee, with coins of
\* other denominations, none of mine.
MCBodies == {
  Body("other", {"other"}, 2, TRUE, <<<<"other", Me, Ustb(1)>>>>),
  Body(Me, {Me, "other"}, 2, TRUE,
       <<<<Me, "other", Ustb(1)>>, <<"other", Me, Ustb(3)>>>>),
  Body("other", {"other", Me}, 2, TRUE, <<<<Me, "module", Ustb(5)>>>>),
  Body(Me, {Me}, 2, FALSE, <<<<Me, "other", Ustb(5)>>>>),
  Body(Me, {Me}, 0, TRUE, <<<<Me, "other", <<[denom |-> "stake", n |-> 4]>>>>>>),
  Body(Me, {Me}, 2, TRUE, <<<<Me, "other", <<[denom |-> "austb", n |-> 4]>> \o Ustb(1)>>>>),
  Body("other", {"other"}, 2, TRUE, <<<<"other", "module", Ustb(1)>>>>)}

\* Every way to type an amount n, with two decimals.
Means(text, n) == [text |-> text, means |-> n]
Ways(n) ==
  LET w == Numeral(n \div 100)
      f == <<(n \div 10) % 10, n % 10>>
      forms == {w \o <<Point>> \o f, w \o <<Comma>> \o f, <<0>> \o w \o <<Point>> \o f,
                <<Space>> \o w \o <<Point>> \o f \o <<Space>>, w \o <<Point>> \o f \o <<9>>}
               \cup (IF f[2] = 0 THEN {w \o <<Point, f[1]>>} ELSE {})
               \cup (IF f = <<0, 0>> THEN {w, w \o <<Point>>} ELSE {})
               \cup (IF n < 100 THEN {<<Point>> \o f} ELSE {})
  IN  {Means(s, n) : s \in forms}

\* A sign, an exponent, thousands, nothing at all.
Odd == {Means(s, -1) : s \in {<<>>, <<Space>>, <<Letter, 1>>, <<1, Letter, 3>>,
        <<1, Comma, 0, 0, 0, Point, 5>>, <<1, Space, 0, Comma, 5>>, <<Point>>}}

\* One amount is typed in all histories; the others are sent alone.
Typical == Means(<<1>>, 100)
MCTyped == UNION {Ways(n) : n \in 0 .. 300} \cup Odd
MCMaxTxs(t) == IF t = Typical THEN 3 ELSE 1
=============================================================================

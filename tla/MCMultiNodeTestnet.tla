------------------------- MODULE MCMultiNodeTestnet -------------------------
(***************************************************************************)
(* Small instances of MultiNodeTestnet for TLC.                            *)
(***************************************************************************)
EXTENDS MultiNodeTestnet, TLC

\* Fewer, more, invalid, too large and negative stakes.
AllStakes == {<<2, 2, 2>>, <<BadItem, 3>>, <<2, 9>>, <<2, -1>>}
AllPorts == {<<>>, <<47222, 50434>>}
=============================================================================

-------------------------- MODULE MCOperatorCommands --------------------------
(***************************************************************************)
(* Instances of OperatorCommands for TLC.                                  *)
(***************************************************************************)
EXTENDS OperatorCommands, TLC

CONSTANTS v1, v2, a1, a2

MCOperatorOf == v1 :> a1 @@ v2 :> a2
NoList == {{}}
Lists == {{}, {v1}, {v1, v2}, {v1, BadAddr}}
Funds == {<<>>, <<a1>>, <<a1, a2, a1>>, <<a1, BadAddr>>}
OneFund == {<<a1>>}
=============================================================================

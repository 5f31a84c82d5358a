-------------------------- MODULE StablecoinLedger --------------------------
(***************************************************************************)
(* What x/stablecoin promises, seen from outside at transaction            *)
(* granularity: who is acting, how much is outstanding, how much of each   *)
(* denomination was issued, and under which parameters.                    *)
(***************************************************************************)
EXTENDS Bank

VARIABLES signers, params, outstanding, issued

ledgerVars == <<signers, params, outstanding, issued>>

Init ==
  /\ signers = {}
  /\ params \in Params \cup {Absent}
  /\ outstanding = 0
  /\ issued = [d \in Denom |-> 0]

Begin ==
  /\ signers = {}
  /\ signers' \in {{Gov}} \cup SUBSET (Acct \ {Gov})
  /\ UNCHANGED <<params, outstanding, issued>>

\* A transaction or proposal ends without touching the stablecoin.
End == signers' = {} /\ UNCHANGED <<params, outstanding, issued>>

\* A transaction of the issuer issues or redeems the net amount k.
Settle ==
  /\ params # Absent
  /\ AccAddressFromBech32(params.issuer) \in signers
  /\ ~params.paused
  /\ params.denom \in Denom
  /\ \E k \in -IntLimit .. IntLimit :
       /\ outstanding + k >= 0
       /\ k > 0 => outstanding + k <= NewIntFromString(params.max_supply)
       /\ outstanding' = outstanding + k
       /\ issued' = [issued EXCEPT ![params.denom] = @ + k]
  /\ signers' = {}
  /\ UNCHANGED params

\* A governance proposal replaces the parameters by valid ones.  It may hold
\* issuance messages too, under any parameters it sets on the way.
Govern ==
  /\ signers = {Gov}
  /\ params' = params \/ (params' \in Params /\ Validate(params'))
  /\ outstanding' \in 0 .. IntLimit
  /\ issued' \in [Denom -> Int]
  /\ signers' = {}

\* A chain started from an export keeps the parameters and counts anew.
Restart ==
  /\ signers = {}
  /\ params # Absent
  /\ outstanding' = 0
  /\ issued' = [d \in Denom |-> 0]
  /\ UNCHANGED <<signers, params>>

Next == Begin \/ End \/ Settle \/ Govern \/ Restart

Spec == Init /\ [][Next]_ledgerVars
=============================================================================

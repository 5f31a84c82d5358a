-------------------------- MODULE MultiNodeTestnet --------------------------
(***************************************************************************)
(* The command "multi-node": it writes the directories of a local test     *)
(* network, one node after the other, then a genesis file for all of them. *)
(* A run may fail or be killed at every step; it may be repeated, also     *)
(* with another number of validators, over what earlier runs left.         *)
(***************************************************************************)
EXTENDS Integers, Sequences, FiniteSets

CONSTANTS
  MaxNodes,      \* bound: validators of one run
  NodeCounts,    \* values of --v
  StakeLists,    \* values of --validators-stake-amount, as lists
  PortLists,     \* values of --list-ports, as lists; << >> when not given
  BadItem,       \* an item of the stake list that is no number
  DefaultStake,  \* TokensFromConsensusPower(100)
  Funds,         \* staking coins of every account: TokensFromConsensusPower(500)
  None,          \* a port that was not given, a setting not yet written
  MaxRuns        \* bound: runs of the command

\* With more than 1317 validators the API ports run out (see Port).
ASSUME TestnetAssumption ==
  /\ MaxNodes \in 1 .. 1317
  /\ NodeCounts \subseteq 1 .. MaxNodes
  /\ StakeLists \subseteq Seq(Int \cup {BadItem})
  /\ PortLists \subseteq Seq(Nat)
  /\ BadItem \notin Int /\ None \notin Int
  /\ DefaultStake \in Nat /\ Funds \in Nat /\ DefaultStake <= Funds
  /\ MaxRuns \in Nat

VARIABLES
  dir,   \* what is in the directory of each node
  run,   \* the running command
  most   \* history: the largest --v of a run that copied gentx files

vars == <<dir, run, most>>

Node == 0 .. MaxNodes - 1

-----------------------------------------------------------------------------
\* The default ports of node i.
RPCPort(i) == 26657 - 3 * i
P2PPort_Dense(i) == 26656 - i
P2PPort(i) == 26656 - 3 * i
Port(i) == [p2p        |-> P2PPort(i),
            proxy      |-> 26658 - 3 * i,
            prometheus |-> 26660 + i,
            grpc       |-> 9090 - 2 * i,
            api        |-> 1317 - i]

\* The ports the loop over the flag collects; the others are missing.
RPCPorts(list, n) ==
  [i \in 0 .. n - 1 |->
     IF list = <<>> THEN RPCPort(i)
     ELSE IF i < Len(list) THEN list[i + 1] ELSE None]

\* The loop over the stake list: an item that is no number is passed over and
\* the items after it move up.  sdk.NewCoin panics on a negative amount.
Stakes(list) == SelectSeq(list, LAMBDA x : x # BadItem)
StakePanics(list) == \E k \in 1 .. Len(list) : list[k] # BadItem /\ list[k] < 0
StakeOf(list, i) ==
  IF i < Len(Stakes(list)) THEN Stakes(list)[i + 1] ELSE DefaultStake

Gentx(i) == [node |-> i, run |-> run.id, stake |-> StakeOf(run.stakes, i)]

\* Writing a file replaces the file of that name.
Put_Append(files, g) == files \cup {g}
Put_KeepOld(files, g) ==
  IF \E h \in files : h.node = g.node THEN files ELSE files \cup {g}
Put(files, g) == {h \in files : h.node # g.node} \cup {g}

\* A directory that is empty, or that is not there.
NoFiles == [gentx |-> {}, genesis |-> {}, rpc |-> None]

Idle == [phase |-> "idle", result |-> "none", id |-> 0, n |-> 0, i |-> 0,
         file |-> 0, stakes |-> <<>>, ports |-> <<>>,
         appState |-> {}]

-----------------------------------------------------------------------------
Init ==
  /\ dir = [i \in Node |-> NoFiles]
  /\ run = Idle
  /\ most = 0

Start(n, stakes, ports) ==
  /\ run.phase = "idle"
  /\ run.id < MaxRuns
  /\ run' = IF StakePanics(stakes)
              THEN [Idle EXCEPT !.result = "panic", !.id = run.id + 1]
              ELSE [Idle EXCEPT !.phase = "nodes", !.result = "running",
                                !.id = run.id + 1, !.n = n,
                                !.stakes = stakes, !.ports = RPCPorts(ports, n)]
  /\ UNCHANGED <<dir, most>>

\* One pass of the loop of initTestnetFiles: keys, account, signed gentx.
InitNode ==
  LET i == run.i
  IN  /\ run.phase = "nodes"
      /\ dir' = [dir EXCEPT ![i].gentx = Put(@, Gentx(i))]
      /\ run' = [run EXCEPT
           !.i = IF i + 1 < run.n THEN i + 1 ELSE 0,
           !.phase = IF i + 1 < run.n THEN "nodes" ELSE "genfiles"]
      /\ UNCHANGED most

\* initGenFiles: the genesis of every node holds the accounts of this run and
\* no gentx yet.
InitGenFiles ==
  /\ run.phase = "genfiles"
  /\ dir' = [dir EXCEPT ![run.i].genesis = {}]
  /\ run' = [run EXCEPT
       !.i = IF run.i + 1 < run.n THEN run.i + 1 ELSE 0,
       !.phase = IF run.i + 1 < run.n THEN "genfiles" ELSE "copy"]
  /\ UNCHANGED most

\* The gentx of node file is copied to node i, unless it is i's own.
CopyGentx_OwnDirOnly(i, g) == dir
CopyGentx(i, g) ==
  IF g.node = i THEN dir ELSE [dir EXCEPT ![i].gentx = Put(@, g)]

Copy ==
  LET g    == CHOOSE h \in dir[run.file].gentx : h.node = run.file
      next == IF run.file + 1 < run.n
                THEN [run EXCEPT !.file = run.file + 1]
              ELSE IF run.i + 1 < run.n
                THEN [run EXCEPT !.file = 0, !.i = run.i + 1]
              ELSE [run EXCEPT !.file = 0, !.i = 0, !.phase = "collect"]
  IN  /\ run.phase = "copy"
      /\ dir' = CopyGentx(run.i, g)
      /\ run' = next
      /\ most' = IF run.n > most THEN run.n ELSE most

\* genutil.CollectTxs refuses a gentx of an account the genesis does not fund
\* or that does not hold what it delegates.
CollectOK(files) ==
  \A g \in files : g.run = run.id /\ g.stake <= Funds

\* One pass of the loop of collectGenFiles: the first node's state is written
\* into the genesis file of every node.
Collect ==
  LET i     == run.i
      files == dir[i].gentx
      state == IF run.appState = {} THEN files ELSE run.appState
  IN  /\ run.phase = "collect"
      /\ CollectOK(files)
      /\ dir' = [dir EXCEPT ![i].genesis = state,
                            ![i].rpc = run.ports[i]]
      /\ run' = [run EXCEPT
           !.appState = state,
           !.i = IF i + 1 < run.n THEN i + 1 ELSE 0,
           !.phase = IF i + 1 < run.n THEN "collect" ELSE "idle",
           !.result = IF i + 1 < run.n THEN "running" ELSE "ok"]
      /\ UNCHANGED most

CollectFails ==
  /\ run.phase = "collect"
  /\ ~CollectOK(dir[run.i].gentx)
  /\ run' = [run EXCEPT !.phase = "idle", !.result = "error"]
  /\ UNCHANGED <<dir, most>>

\* An error at any other place, or the end of the process: nothing is undone.
Abort ==
  /\ run.phase # "idle"
  /\ run' = [run EXCEPT !.phase = "idle", !.result = "error"]
  /\ UNCHANGED <<dir, most>>

\* An error while a directory, a node key or an account key is made removes
\* the output directory, with what earlier runs put there.
AbortAndRemove ==
  /\ run.phase = "nodes"
  /\ run' = [run EXCEPT !.phase = "idle", !.result = "error"]
  /\ dir' = [i \in Node |-> NoFiles]
  /\ most' = 0

Next ==
  \/ \E n \in NodeCounts, stakes \in StakeLists, ports \in PortLists :
        Start(n, stakes, ports)
  \/ InitNode
  \/ InitGenFiles
  \/ Copy
  \/ Collect
  \/ CollectFails
  \/ Abort
  \/ AbortAndRemove

Spec == Init /\ [][Next]_vars

-----------------------------------------------------------------------------
GentxType == [node : Node, run : 0 .. MaxRuns,
              stake : {StakeOf(list, i) : list \in StakeLists, i \in Node}]
Running == 0 .. run.n - 1
Succeeded == run.phase = "idle" /\ run.result = "ok"

\* The state has its type; no directory holds two gentx files of one node.
TypeOK ==
  /\ dir \in [Node -> [gentx : SUBSET GentxType, genesis : SUBSET GentxType,
                       rpc : Nat \cup {None}]]
  /\ \A i \in Node : \A g, h \in dir[i].gentx : g.node = h.node => g = h
  /\ run.phase \in {"idle", "nodes", "genfiles", "copy", "collect"}
  /\ run.result \in {"none", "running", "ok", "error", "panic"}
  /\ run.id \in 0 .. MaxRuns /\ run.n \in 0 .. MaxNodes
  /\ run.phase # "idle" => run.i \in Running /\ run.file \in Running
  /\ most \in 0 .. MaxNodes

\* A run that succeeds leaves one network: the same genesis in every node's
\* directory, with exactly one gentx of this run for each validator, whatever
\* earlier runs, failed, killed or with other arguments, had left there.
OneNetwork ==
  Succeeded =>
    \A i \in Running : dir[i].genesis = {Gentx(j) : j \in Running}

\* "They should not differ": once the first node's state is accepted as the
\* canonical one, every node's own gentx files give the same state.
CanonicalState ==
  run.phase = "collect" /\ run.i > 0 =>
    \A j \in Running : dir[j].gentx = run.appState

\* What earlier runs left disturbs a run only if one of them had more
\* validators: repeating a failed or killed command is safe.
StaleOnlyFromLarger ==
  run.phase = "collect" =>
    \A i \in Running : \A g \in dir[i].gentx :
      g.run # run.id => most > run.n

\* With the default ports no two servers of the network share a port.
Ports(i) == {<<"rpc", dir[i].rpc>>} \cup
            {<<k, Port(i)[k]>> : k \in DOMAIN Port(i)}
PortsDisjoint ==
  Succeeded /\ (\A i \in Running : run.ports[i] = RPCPort(i)) =>
    \A i, j \in Running : \A p \in Ports(i), q \in Ports(j) :
      p[2] = q[2] => i = j /\ p = q
=============================================================================

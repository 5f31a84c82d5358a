------------------------ MODULE MultiNodeTestnetProofs ------------------------
(***************************************************************************)
(* Theorems of MultiNodeTestnet, for every number of nodes and of runs and *)
(* every value of the flags.                                               *)
(*                                                                         *)
(* The argument: a gentx names its run, and a run writes gentx files of    *)
(* its own validators only (Origin); so what a loop has reached is known   *)
(* (Progress), and a file that is not of this run is of a node this run    *)
(* does not have.  Such a file got into a directory by a copy, and copies  *)
(* begin at node 0 (Spread): if node 0 is clean, all nodes are.            *)
(***************************************************************************)
EXTENDS MultiNodeTestnet, TLAPS

USE TestnetAssumption

PortMaps ==
  {<<>>} \cup {RPCPorts(list, n) : list \in PortLists, n \in NodeCounts}

RunType == [phase : {"idle", "nodes", "genfiles", "copy", "collect"},
            result : {"none", "running", "ok", "error", "panic"},
            id : 0 .. MaxRuns, n : 0 .. MaxNodes, i : Nat, file : Nat,
            stakes : StakeLists \cup {<<>>},
            ports : PortMaps,
            appState : SUBSET GentxType]

\* The gentx files of the running command.
All == {Gentx(j) : j \in Running}

\* A gentx is of this run or an earlier one, and of this run only as the run
\* writes it.
Origin ==
  \A i \in Node : \A g \in dir[i].gentx :
    /\ g.run <= run.id
    /\ g.run = run.id => g.node < run.n /\ g = Gentx(g.node)

\* A gentx of another node was copied, to node 0 as well.
Spread ==
  \A i \in Node : \A g \in dir[i].gentx :
    g.node # i => /\ g.node < most
                  /\ \E h \in dir[0].gentx : h.node = g.node

\* What the loops have written so far.
Progress ==
  /\ run.phase # "idle" =>
       /\ run.n \in NodeCounts /\ run.stakes \in StakeLists
       /\ run.ports \in [Running -> Nat \cup {None}]
       /\ run.i \in Running /\ run.file \in Running
  /\ run.phase \notin {"copy", "idle"} => run.file = 0
  /\ run.phase \in {"nodes", "genfiles", "copy"} => run.appState = {}
  /\ run.phase = "nodes" => \A j \in 0 .. run.i - 1 : Gentx(j) \in dir[j].gentx
  /\ run.phase \in {"genfiles", "copy", "collect"} =>
       \A j \in Running : Gentx(j) \in dir[j].gentx
  /\ run.phase = "copy" =>
       /\ \A i \in 0 .. run.i - 1, j \in Running : Gentx(j) \in dir[i].gentx
       /\ \A j \in 0 .. run.file - 1 : Gentx(j) \in dir[run.i].gentx
  /\ run.phase = "collect" =>
       /\ \A i \in Running, j \in Running : Gentx(j) \in dir[i].gentx
       /\ run.appState = (IF run.i = 0 THEN {} ELSE All)
       /\ \A j \in 0 .. run.i - 1 :
            /\ dir[j].gentx = All /\ dir[j].genesis = All
            /\ dir[j].rpc = run.ports[j]
  /\ Succeeded =>
       \A j \in Running : dir[j].genesis = All /\ dir[j].rpc = run.ports[j]

NetInv == TypeOK /\ run \in RunType /\ Origin /\ Spread /\ Progress

-----------------------------------------------------------------------------
(***************************************************************************)
(* Files.                                                                  *)
(***************************************************************************)
\* Facts about the nodes of a run.
LEMMA RunningNodes ==
  ASSUME run \in RunType
  PROVE  /\ run.n \in Nat /\ run.n <= MaxNodes
         /\ Running \subseteq Node
         /\ \A j \in Running : j \in Nat /\ j < run.n
BY DEF RunType, Running, Node

\* The gentx a run writes for a node.
LEMMA GentxFacts ==
  ASSUME run \in RunType, run.stakes \in StakeLists, NEW i \in Node
  PROVE  Gentx(i) \in GentxType /\ Gentx(i).node = i /\ Gentx(i).run = run.id
<1>1. run.id \in 0 .. MaxRuns
  BY DEF RunType
<1>2. StakeOf(run.stakes, i) \in {StakeOf(list, k) : list \in StakeLists, k \in Node}
  OBVIOUS
<1> QED BY <1>1, <1>2 DEF Gentx, GentxType

\* A command that has not been run.
LEMMA IdleRun == Idle \in RunType
<1>1. <<>> \in PortMaps
  BY DEF PortMaps
<1> QED BY <1>1 DEF Idle, RunType

\* Two runs with the same number and stakes write the same gentx.
LEMMA GentxSame ==
  ASSUME run'.id = run.id, run'.stakes = run.stakes
  PROVE  \A i : Gentx(i)' = Gentx(i)
BY DEF Gentx

\* A file replaces the one of its name and leaves the others alone.
LEMMA PutFacts ==
  ASSUME NEW files, NEW g
  PROVE  /\ g \in Put(files, g)
         /\ \A h \in Put(files, g) : h = g \/ (h \in files /\ h.node # g.node)
         /\ \A h \in files : h.node # g.node => h \in Put(files, g)
BY DEF Put

\* The directories hold gentx files, one of each node.
DirOK ==
  /\ dir \in [Node -> [gentx : SUBSET GentxType, genesis : SUBSET GentxType,
                       rpc : Nat \cup {None}]]
  /\ \A i \in Node : \A g, h \in dir[i].gentx : g.node = h.node => g = h

\* Writing the gentx of node k of the run into the directory of node i.
LEMMA WriteFacts ==
  ASSUME run \in RunType, run.stakes \in StakeLists, DirOK, Origin,
         NEW i \in Node, NEW k \in Running,
         dir' = [dir EXCEPT ![i].gentx = Put(@, Gentx(k))],
         run'.id = run.id, run'.n = run.n, run'.stakes = run.stakes
  PROVE  /\ DirOK' /\ Origin'
         /\ Gentx(k) \in dir'[i].gentx
         /\ \A a \in Node, j \in Running :
              Gentx(j) \in dir[a].gentx => Gentx(j) \in dir'[a].gentx
         /\ \A a \in Node : \A g \in dir'[a].gentx :
              g \in dir[a].gentx \/ (a = i /\ g = Gentx(k))
         /\ \A a \in Node : \A g \in dir[a].gentx :
              \E h \in dir'[a].gentx : h.node = g.node
<1> DEFINE G == Gentx(k)
<1>1. /\ k \in Node /\ k < run.n /\ G \in GentxType
      /\ G.node = k /\ G.run = run.id
  BY RunningNodes, GentxFacts
<1>2. \A j \in Running : Gentx(j).node = j
  BY RunningNodes, GentxFacts
<1>3. \A a : Gentx(a)' = Gentx(a)
  BY GentxSame
<1> HIDE DEF G
<1>4. dir' = [dir EXCEPT ![i].gentx = Put(@, G)]
  BY DEF G
<1>5. /\ \A a \in Node \ {i} : dir'[a] = dir[a]
      /\ dir'[i].gentx = Put(dir[i].gentx, G)
  BY <1>4 DEF DirOK
<1>6. /\ G \in dir'[i].gentx
      /\ \A h \in dir'[i].gentx : h = G \/ (h \in dir[i].gentx /\ h.node # k)
      /\ \A h \in dir[i].gentx : h.node # k => h \in dir'[i].gentx
  BY <1>1, <1>5, PutFacts
<1>7. DirOK'
  <2>1. Put(dir[i].gentx, G) \in SUBSET GentxType
    BY <1>1, PutFacts DEF DirOK
  <2>2. dir' \in [Node -> [gentx : SUBSET GentxType, genesis : SUBSET GentxType,
                           rpc : Nat \cup {None}]]
    BY <1>4, <2>1 DEF DirOK
  <2>3. \A a \in Node : \A g, h \in dir'[a].gentx : g.node = h.node => g = h
    BY <1>1, <1>5, <1>6 DEF DirOK
  <2> QED BY <2>2, <2>3 DEF DirOK
<1>8. \A a \in Node : \A g \in dir'[a].gentx : g \in dir[a].gentx \/ (a = i /\ g = G)
  BY <1>5, <1>6
<1>9. Origin'
  <2> SUFFICES ASSUME NEW a \in Node, NEW g \in dir'[a].gentx
               PROVE  /\ g.run <= run.id
                      /\ g.run = run.id => g.node < run.n /\ g = Gentx(g.node)
    BY <1>3 DEF Origin
  <2>1. CASE g \in dir[a].gentx
    BY <2>1 DEF Origin
  <2>2. CASE g = G
    <3>1. run.id <= run.id
      BY DEF RunType
    <3> QED BY <2>2, <3>1, <1>1 DEF G
  <2> QED BY <1>8, <2>1, <2>2
<1>10. \A a \in Node, j \in Running :
         Gentx(j) \in dir[a].gentx => Gentx(j) \in dir'[a].gentx
  BY <1>2, <1>5, <1>6 DEF G
<1>11. \A a \in Node : \A g \in dir[a].gentx : \E h \in dir'[a].gentx : h.node = g.node
  BY <1>1, <1>5, <1>6
<1> QED BY <1>6, <1>7, <1>8, <1>9, <1>10, <1>11 DEF G

-----------------------------------------------------------------------------
\* Initially there is nothing.
LEMMA NetInvInit == Init => NetInv
<1> SUFFICES ASSUME Init PROVE NetInv
  OBVIOUS
<1>1. run \in RunType
  BY IdleRun DEF Init
<1>2. \A i \in Node : dir[i].gentx = {}
  BY DEF Init, NoFiles
<1>3. TypeOK
  BY <1>2 DEF Init, TypeOK, Idle, NoFiles
<1>4. Progress
  BY DEF Init, Progress, Idle, Succeeded
<1> QED BY <1>1, <1>2, <1>3, <1>4 DEF NetInv, Origin, Spread

\* The invariant gives its parts.
LEMMA NetInvParts ==
  ASSUME NetInv
  PROVE  /\ run \in RunType /\ DirOK /\ most \in 0 .. MaxNodes
         /\ Origin /\ Spread /\ Progress
BY DEF NetInv, TypeOK, DirOK

\* The parts after a step give the invariant.
LEMMA NetInvNext ==
  ASSUME run' \in RunType, DirOK', most' \in 0 .. MaxNodes,
         Origin', Spread', Progress'
  PROVE  NetInv'
<1>1. /\ run'.phase \in {"idle", "nodes", "genfiles", "copy", "collect"}
      /\ run'.result \in {"none", "running", "ok", "error", "panic"}
      /\ run'.id \in 0 .. MaxRuns /\ run'.n \in 0 .. MaxNodes
  BY DEF RunType
<1>2. run'.phase # "idle" => run'.i \in Running' /\ run'.file \in Running'
  BY DEF Progress
<1> QED BY <1>1, <1>2 DEF NetInv, TypeOK, DirOK

\* The ports of a run are numbers, or were not given.
LEMMA PortsFacts ==
  ASSUME NEW n \in NodeCounts, NEW list \in PortLists
  PROVE  /\ RPCPorts(list, n) \in PortMaps
         /\ RPCPorts(list, n) \in [0 .. n - 1 -> Nat \cup {None}]
<1>1. RPCPorts(list, n) \in PortMaps
  BY DEF PortMaps
<1>2. ASSUME NEW i \in 0 .. n - 1
      PROVE  (IF list = <<>> THEN RPCPort(i)
              ELSE IF i < Len(list) THEN list[i + 1] ELSE None) \in Nat \cup {None}
  <2>1. list \in Seq(Nat) /\ n \in 1 .. 1317
    OBVIOUS
  <2>2. RPCPort(i) \in Nat
    BY <2>1 DEF RPCPort
  <2>3. i < Len(list) => list[i + 1] \in Nat
    BY <2>1
  <2> QED BY <2>2, <2>3
<1> QED BY <1>1, <1>2 DEF RPCPorts

\* Start begins a run no gentx is of yet.
LEMMA StartStep ==
  ASSUME NetInv, NEW n \in NodeCounts, NEW stakes \in StakeLists,
         NEW ports \in PortLists, Start(n, stakes, ports)
  PROVE  NetInv'
<1>1. /\ run \in RunType /\ DirOK /\ most \in 0 .. MaxNodes /\ Origin /\ Spread
  BY NetInvParts
<1>2. /\ run.id \in 0 .. MaxRuns /\ run.id + 1 \in 0 .. MaxRuns
      /\ run.id + 1 > run.id
  BY <1>1 DEF Start, RunType
<1>3. n \in 0 .. MaxNodes /\ n > 0
  OBVIOUS
<1>4. dir' = dir /\ most' = most
  BY DEF Start
<1>5. CASE StakePanics(stakes)
  <2>1. run' = [Idle EXCEPT !.result = "panic", !.id = run.id + 1]
    BY <1>5 DEF Start
  <2>2. /\ run'.phase = "idle" /\ run'.result = "panic" /\ run'.id = run.id + 1
    BY <2>1 DEF Idle
  <2>5. run' \in RunType
    BY <2>1, <1>2, IdleRun DEF RunType
  <2>3. Origin'
    BY <1>1, <1>2, <1>4, <2>2 DEF Origin, DirOK, GentxType
  <2>4. Progress'
    BY <2>2 DEF Progress, Succeeded
  <2> QED BY <1>1, <1>4, <2>2, <2>3, <2>4, <2>5, NetInvNext DEF DirOK, Spread
<1>6. CASE ~StakePanics(stakes)
  <2>1. run' = [Idle EXCEPT !.phase = "nodes", !.result = "running",
                            !.id = run.id + 1, !.n = n,
                            !.stakes = stakes, !.ports = RPCPorts(ports, n)]
    BY <1>6 DEF Start
  <2>2. /\ run'.phase = "nodes" /\ run'.result = "running"
        /\ run'.id = run.id + 1 /\ run'.n = n /\ run'.stakes = stakes
        /\ run'.ports = RPCPorts(ports, n) /\ run'.i = 0 /\ run'.file = 0
        /\ run'.appState = {}
        /\ run' \in RunType
    BY <2>1, <1>2, <1>3, PortsFacts DEF Idle, RunType
  <2>3. Origin'
    BY <1>1, <1>2, <1>4, <2>2 DEF Origin, DirOK, GentxType
  <2>4. Progress'
    BY <2>2, <1>3, PortsFacts DEF Progress, Succeeded, Running
  <2> QED BY <1>1, <1>4, <2>2, <2>3, <2>4, NetInvNext DEF DirOK, Spread
<1> QED BY <1>5, <1>6

\* InitNode writes the node's own gentx.
LEMMA InitNodeStep ==
  ASSUME NetInv, InitNode
  PROVE  NetInv'
<1>1. /\ run \in RunType /\ DirOK /\ most \in 0 .. MaxNodes
      /\ Origin /\ Spread /\ Progress
  BY NetInvParts
<1>2. /\ run.phase = "nodes" /\ most' = most
      /\ dir' = [dir EXCEPT ![run.i].gentx = Put(@, Gentx(run.i))]
      /\ run' = [run EXCEPT
           !.i = IF run.i + 1 < run.n THEN run.i + 1 ELSE 0,
           !.phase = IF run.i + 1 < run.n THEN "nodes" ELSE "genfiles"]
  BY DEF InitNode
<1>3. /\ run.stakes \in StakeLists /\ run.n \in NodeCounts
      /\ run.ports \in [Running -> Nat \cup {None}]
      /\ run.i \in Running /\ run.file = 0 /\ run.appState = {}
      /\ \A j \in 0 .. run.i - 1 : Gentx(j) \in dir[j].gentx
  BY <1>1, <1>2 DEF Progress
<1>4. /\ run.i \in Nat /\ run.i < run.n /\ run.n \in Nat /\ run.i \in Node
      /\ Running \subseteq Node
  BY <1>1, <1>3, RunningNodes
<1>5. /\ run'.id = run.id /\ run'.n = run.n /\ run'.stakes = run.stakes
      /\ run'.ports = run.ports /\ run'.file = 0 /\ run'.appState = {}
      /\ run'.i = IF run.i + 1 < run.n THEN run.i + 1 ELSE 0
      /\ run'.phase = IF run.i + 1 < run.n THEN "nodes" ELSE "genfiles"
  BY <1>1, <1>2, <1>3 DEF RunType
<1>12. run' \in RunType
  <2>1. /\ (IF run.i + 1 < run.n THEN run.i + 1 ELSE 0) \in Nat
        /\ (IF run.i + 1 < run.n THEN "nodes" ELSE "genfiles")
             \in {"idle", "nodes", "genfiles", "copy", "collect"}
    BY <1>4
  <2> QED BY <1>1, <1>2, <2>1 DEF RunType
<1>6. /\ DirOK' /\ Origin'
      /\ Gentx(run.i) \in dir'[run.i].gentx
      /\ \A a \in Node, j \in Running :
           Gentx(j) \in dir[a].gentx => Gentx(j) \in dir'[a].gentx
      /\ \A a \in Node : \A g \in dir'[a].gentx :
           g \in dir[a].gentx \/ (a = run.i /\ g = Gentx(run.i))
      /\ \A a \in Node : \A g \in dir[a].gentx :
           \E h \in dir'[a].gentx : h.node = g.node
  BY <1>1, <1>2, <1>3, <1>4, <1>5, WriteFacts
<1>7. \A a : Gentx(a)' = Gentx(a)
  BY <1>5, GentxSame
<1>8. Spread'
  <2> SUFFICES ASSUME NEW a \in Node, NEW g \in dir'[a].gentx, g.node # a
               PROVE  /\ g.node < most
                      /\ \E h \in dir'[0].gentx : h.node = g.node
    BY <1>2 DEF Spread
  <2>1. g \in dir[a].gentx
    BY <1>1, <1>3, <1>4, <1>6, GentxFacts
  <2>2. PICK h \in dir[0].gentx : h.node = g.node
    BY <1>1, <2>1 DEF Spread
  <2>3. g.node < most
    BY <1>1, <2>1 DEF Spread
  <2>4. 0 \in Node
    BY <1>4 DEF Node
  <2> QED BY <1>6, <2>2, <2>3, <2>4
<1>9. Running' = Running
  BY <1>5 DEF Running
<1>10. \A j \in 0 .. run.i : Gentx(j)' \in dir'[j].gentx
  <2> SUFFICES ASSUME NEW j \in 0 .. run.i PROVE Gentx(j) \in dir'[j].gentx
    BY <1>7
  <2>1. j \in Running /\ j \in Node
    BY <1>4 DEF Running
  <2>2. CASE j = run.i
    BY <2>2, <1>6
  <2>3. CASE j # run.i
    <3>1. j \in 0 .. run.i - 1
      BY <2>3, <1>4
    <3> QED BY <3>1, <2>1, <1>3, <1>6
  <2> QED BY <2>2, <2>3
<1>11. Progress'
  <2>1. CASE run.i + 1 < run.n
    BY <2>1, <1>3, <1>4, <1>5, <1>9, <1>10 DEF Progress, Succeeded, Running
  <2>2. CASE ~(run.i + 1 < run.n)
    <3>1. run.i = run.n - 1
      BY <2>2, <1>4
    <3> QED BY <2>2, <3>1, <1>3, <1>4, <1>5, <1>9, <1>10 DEF Progress, Succeeded, Running
  <2> QED BY <2>1, <2>2
<1> QED BY <1>1, <1>2, <1>5, <1>6, <1>8, <1>11, <1>12, NetInvNext

\* InitGenFiles touches no gentx.
LEMMA InitGenFilesStep ==
  ASSUME NetInv, InitGenFiles
  PROVE  NetInv'
<1>1. /\ run \in RunType /\ DirOK /\ most \in 0 .. MaxNodes
      /\ Origin /\ Spread /\ Progress
  BY NetInvParts
<1>2. /\ run.phase = "genfiles" /\ most' = most
      /\ dir' = [dir EXCEPT ![run.i].genesis = {}]
      /\ run' = [run EXCEPT
           !.i = IF run.i + 1 < run.n THEN run.i + 1 ELSE 0,
           !.phase = IF run.i + 1 < run.n THEN "genfiles" ELSE "copy"]
  BY DEF InitGenFiles
<1>3. /\ run.n \in NodeCounts /\ run.stakes \in StakeLists
      /\ run.ports \in [Running -> Nat \cup {None}]
      /\ run.i \in Running /\ run.file = 0 /\ run.appState = {}
      /\ \A j \in Running : Gentx(j) \in dir[j].gentx
  BY <1>1, <1>2 DEF Progress
<1>4. /\ run.i \in Nat /\ run.i < run.n /\ run.n \in Nat /\ run.i \in Node
      /\ Running \subseteq Node
  BY <1>1, <1>3, RunningNodes
<1>5. /\ run'.id = run.id /\ run'.n = run.n /\ run'.stakes = run.stakes
      /\ run'.ports = run.ports /\ run'.file = 0 /\ run'.appState = {}
      /\ run'.i = IF run.i + 1 < run.n THEN run.i + 1 ELSE 0
      /\ run'.phase = IF run.i + 1 < run.n THEN "genfiles" ELSE "copy"
  BY <1>1, <1>2, <1>3 DEF RunType
<1>6. run' \in RunType
  <2>1. /\ (IF run.i + 1 < run.n THEN run.i + 1 ELSE 0) \in Nat
        /\ (IF run.i + 1 < run.n THEN "genfiles" ELSE "copy")
             \in {"idle", "nodes", "genfiles", "copy", "collect"}
    BY <1>4
  <2> QED BY <1>1, <1>2, <2>1 DEF RunType
<1>7. /\ \A a \in Node : dir'[a].gentx = dir[a].gentx
      /\ DirOK'
  <2>1. dir' \in [Node -> [gentx : SUBSET GentxType, genesis : SUBSET GentxType,
                           rpc : Nat \cup {None}]]
    <3>1. {} \in SUBSET GentxType
      OBVIOUS
    <3> QED BY <1>1, <1>2, <1>4, <3>1 DEF DirOK
  <2>2. \A a \in Node : dir'[a].gentx = dir[a].gentx
    BY <1>1, <1>2, <1>4 DEF DirOK
  <2> QED BY <1>1, <2>1, <2>2 DEF DirOK
<1>8. \A a : Gentx(a)' = Gentx(a)
  BY <1>5, GentxSame
<1>9. Origin'
  BY <1>1, <1>5, <1>7, <1>8 DEF Origin
<1>10. Spread'
  <2>1. 0 \in Node
    BY <1>4 DEF Node
  <2> QED BY <1>1, <1>2, <1>7, <2>1 DEF Spread
<1>11. Running' = Running
  BY <1>5 DEF Running
<1>12. \A j \in Running : Gentx(j)' \in dir'[j].gentx
  BY <1>3, <1>4, <1>7, <1>8
<1>13. Progress'
  <2>1. CASE run.i + 1 < run.n
    BY <2>1, <1>3, <1>4, <1>5, <1>11, <1>12 DEF Progress, Succeeded, Running
  <2>2. CASE ~(run.i + 1 < run.n)
    BY <2>2, <1>3, <1>4, <1>5, <1>11, <1>12 DEF Progress, Succeeded, Running
  <2> QED BY <2>1, <2>2
<1> QED BY <1>1, <1>2, <1>6, <1>7, <1>9, <1>10, <1>13, NetInvNext

\* Copy writes the gentx of another node of the run, at node 0 first.
LEMMA CopyStep ==
  ASSUME NetInv, Copy
  PROVE  NetInv'
<1>1. /\ run \in RunType /\ DirOK /\ most \in 0 .. MaxNodes
      /\ Origin /\ Spread /\ Progress
  BY NetInvParts
<1> DEFINE g == CHOOSE h \in dir[run.file].gentx : h.node = run.file
<1>2. /\ run.phase = "copy"
      /\ dir' = CopyGentx(run.i, g)
      /\ run' = (IF run.file + 1 < run.n
                   THEN [run EXCEPT !.file = run.file + 1]
                 ELSE IF run.i + 1 < run.n
                   THEN [run EXCEPT !.file = 0, !.i = run.i + 1]
                 ELSE [run EXCEPT !.file = 0, !.i = 0, !.phase = "collect"])
      /\ most' = IF run.n > most THEN run.n ELSE most
  BY DEF Copy
<1>3. /\ run.n \in NodeCounts /\ run.stakes \in StakeLists
      /\ run.ports \in [Running -> Nat \cup {None}]
      /\ run.i \in Running /\ run.file \in Running /\ run.appState = {}
      /\ \A j \in Running : Gentx(j) \in dir[j].gentx
      /\ \A a \in 0 .. run.i - 1, j \in Running : Gentx(j) \in dir[a].gentx
      /\ \A j \in 0 .. run.file - 1 : Gentx(j) \in dir[run.i].gentx
  BY <1>1, <1>2 DEF Progress
<1>4. /\ run.i \in Nat /\ run.i < run.n /\ run.n \in Nat /\ run.i \in Node
      /\ run.file \in Nat /\ run.file < run.n /\ run.file \in Node
      /\ Running \subseteq Node /\ run.n <= MaxNodes /\ 0 \in Node
      /\ \A j \in Running : j \in Nat /\ j < run.n
  <2>1. 0 \in Node
    BY DEF Node
  <2> QED BY <1>1, <1>3, <2>1, RunningNodes
<1>5. g = Gentx(run.file)
  <2>1. Gentx(run.file) \in dir[run.file].gentx /\ Gentx(run.file).node = run.file
    BY <1>1, <1>3, <1>4, GentxFacts
  <2>2. g \in dir[run.file].gentx /\ g.node = run.file
    BY <2>1
  <2> QED BY <1>1, <1>4, <2>1, <2>2 DEF DirOK
<1> HIDE DEF g
<1>6. /\ run'.id = run.id /\ run'.n = run.n /\ run'.stakes = run.stakes
      /\ run'.ports = run.ports /\ run'.appState = {}
  BY <1>1, <1>2, <1>3 DEF RunType
<1>7. run' \in RunType
  <2>1. run.file + 1 \in Nat /\ run.i + 1 \in Nat /\ 0 \in Nat
    BY <1>4
  <2>2. CASE run.file + 1 < run.n
    BY <1>1, <1>2, <2>1, <2>2 DEF RunType
  <2>3. CASE ~(run.file + 1 < run.n) /\ run.i + 1 < run.n
    BY <1>1, <1>2, <2>1, <2>3 DEF RunType
  <2>4. CASE ~(run.file + 1 < run.n) /\ ~(run.i + 1 < run.n)
    BY <1>1, <1>2, <2>1, <2>4 DEF RunType
  <2> QED BY <2>2, <2>3, <2>4
<1>8. \A a : Gentx(a)' = Gentx(a)
  BY <1>6, GentxSame
<1>9. Running' = Running
  BY <1>6 DEF Running
<1>10. /\ DirOK' /\ Origin'
       /\ Gentx(run.file) \in dir'[run.i].gentx
       /\ \A a \in Node, j \in Running :
            Gentx(j) \in dir[a].gentx => Gentx(j) \in dir'[a].gentx
       /\ \A a \in Node : \A h \in dir'[a].gentx :
            h \in dir[a].gentx \/ (a = run.i /\ h = Gentx(run.file))
       /\ \A a \in Node : \A h \in dir[a].gentx :
            \E k \in dir'[a].gentx : k.node = h.node
  <2>1. CASE run.file = run.i
    <3>1. dir' = dir
      BY <2>1, <1>2, <1>3, <1>4, <1>5, <1>1, GentxFacts DEF CopyGentx
    <3>2. Origin'
      BY <1>1, <1>6, <1>8, <3>1 DEF Origin
    <3> QED BY <2>1, <3>1, <3>2, <1>1, <1>3 DEF DirOK
  <2>2. CASE run.file # run.i
    <3>1. dir' = [dir EXCEPT ![run.i].gentx = Put(@, Gentx(run.file))]
      BY <2>2, <1>2, <1>3, <1>4, <1>5, <1>1, GentxFacts DEF CopyGentx
    <3> QED BY <3>1, <1>1, <1>3, <1>4, <1>6, WriteFacts
  <2> QED BY <2>1, <2>2
<1>11. most' \in 0 .. MaxNodes /\ most' >= most /\ most' >= run.n
  BY <1>1, <1>2, <1>4
<1>12. Spread'
  <2> SUFFICES ASSUME NEW a \in Node, NEW h \in dir'[a].gentx, h.node # a
               PROVE  /\ h.node < most'
                      /\ \E k \in dir'[0].gentx : k.node = h.node
    BY DEF Spread
  <2>1. CASE h \in dir[a].gentx
    <3>1. h.node < most /\ h.node \in Int
      BY <2>1, <1>1 DEF Spread, DirOK, GentxType, Node
    <3>2. PICK k \in dir[0].gentx : k.node = h.node
      BY <2>1, <1>1 DEF Spread
    <3> QED BY <1>1, <1>4, <1>10, <1>11, <3>1, <3>2
  <2>2. CASE a = run.i /\ h = Gentx(run.file)
    <3>1. h.node = run.file
      BY <2>2, <1>1, <1>3, <1>4, GentxFacts
    <3>2. Gentx(run.file) \in dir'[0].gentx
      <4>1. CASE run.i = 0
        BY <4>1, <1>10
      <4>2. CASE run.i # 0
        <5>1. 0 \in 0 .. run.i - 1
          BY <4>2, <1>4
        <5> QED BY <5>1, <1>3, <1>4, <1>10
      <4> QED BY <4>1, <4>2
    <3> QED BY <2>2, <3>1, <3>2, <1>4, <1>11
  <2> QED BY <1>10, <2>1, <2>2
<1>13. /\ \A j \in Running : Gentx(j)' \in dir'[j].gentx
       /\ \A a \in 0 .. run.i - 1, j \in Running : Gentx(j)' \in dir'[a].gentx
       /\ \A j \in 0 .. run.file : Gentx(j)' \in dir'[run.i].gentx
  <2>1. \A j \in Running : Gentx(j)' \in dir'[j].gentx
    BY <1>3, <1>4, <1>8, <1>10
  <2>2. ASSUME NEW a \in 0 .. run.i - 1, NEW j \in Running
        PROVE  Gentx(j)' \in dir'[a].gentx
    <3>1. a \in Node
      BY <1>4 DEF Node
    <3> QED BY <3>1, <1>3, <1>8, <1>10
  <2>3. ASSUME NEW j \in 0 .. run.file
        PROVE  Gentx(j)' \in dir'[run.i].gentx
    <3>1. j \in Running
      BY <1>4 DEF Running
    <3>2. CASE j = run.file
      BY <3>2, <1>8, <1>10
    <3>3. CASE j # run.file
      <4>1. j \in 0 .. run.file - 1
        BY <3>3, <1>4
      <4> QED BY <3>1, <4>1, <1>3, <1>4, <1>8, <1>10
    <3> QED BY <3>2, <3>3
  <2> QED BY <2>1, <2>2, <2>3
<1>14. Progress'
  <2>1. CASE run.file + 1 < run.n
    <3>1. run'.phase = "copy" /\ run'.i = run.i /\ run'.file = run.file + 1
      BY <2>1, <1>1, <1>2 DEF RunType
    <3> QED BY <2>1, <3>1, <1>3, <1>4, <1>6, <1>9, <1>13 DEF Progress, Succeeded, Running
  <2>2. CASE ~(run.file + 1 < run.n)
    <3>1. \A j \in Running : Gentx(j)' \in dir'[run.i].gentx
      BY <2>2, <1>4, <1>13
    <3>2. \A a \in 0 .. run.i, j \in Running : Gentx(j)' \in dir'[a].gentx
      <4> SUFFICES ASSUME NEW a \in 0 .. run.i, NEW j \in Running
                   PROVE  Gentx(j)' \in dir'[a].gentx
        OBVIOUS
      <4>1. a = run.i \/ a \in 0 .. run.i - 1
        BY <1>4
      <4> QED BY <4>1, <3>1, <1>13
    <3>3. CASE run.i + 1 < run.n
      <4>1. run'.phase = "copy" /\ run'.i = run.i + 1 /\ run'.file = 0
        BY <2>2, <3>3, <1>1, <1>2 DEF RunType
      <4>2. (run.i + 1) - 1 = run.i
        BY <1>4
      <4> QED BY <3>2, <3>3, <4>1, <4>2, <1>3, <1>4, <1>6, <1>9, <1>13
              DEF Progress, Succeeded, Running
    <3>4. CASE ~(run.i + 1 < run.n)
      <4>1. run'.phase = "collect" /\ run'.i = 0 /\ run'.file = 0
        BY <2>2, <3>4, <1>1, <1>2 DEF RunType
      <4>2. \A a \in Running, j \in Running : Gentx(j)' \in dir'[a].gentx
        BY <3>2, <3>4, <1>4
      <4> QED BY <4>1, <4>2, <1>3, <1>4, <1>6, <1>9, <1>13
              DEF Progress, Succeeded, Running
    <3> QED BY <3>3, <3>4
  <2> QED BY <2>1, <2>2
<1> QED BY <1>7, <1>10, <1>11, <1>12, <1>14, NetInvNext

\* Sets that contain each other are equal.
LEMMA SameSet ==
  ASSUME NEW S, NEW T, S \subseteq T, T \subseteq S
  PROVE  S = T
<1>1. \A x : x \in S <=> x \in T
  OBVIOUS
<1> QED BY <1>1, SetExtensionality

\* While the genesis files are collected, a directory without stale files holds
\* exactly the gentx files of the run.
LEMMA CleanDir ==
  ASSUME NetInv, run.phase = "collect", NEW a \in Running,
         \A g \in dir[a].gentx : g.run = run.id
  PROVE  dir[a].gentx = All
<1>1. /\ run \in RunType /\ DirOK /\ Origin /\ Progress
  BY NetInvParts
<1>2. a \in Node
  BY <1>1, RunningNodes
<1>3. All \subseteq dir[a].gentx
  BY <1>1 DEF Progress, All
<1>4. ASSUME NEW g \in dir[a].gentx PROVE g \in All
  <2>1. g.node < run.n /\ g = Gentx(g.node)
    BY <1>1, <1>2 DEF Origin
  <2>2. g.node \in Running
    BY <1>1, <1>2, <2>1 DEF DirOK, GentxType, Node, Running, RunType
  <2> QED BY <2>1, <2>2 DEF All
<1>5. dir[a].gentx \subseteq All
  BY <1>4
<1> QED BY <1>3, <1>5, SameSet

\* Collect writes the first node's state everywhere.
LEMMA CollectStep ==
  ASSUME NetInv, Collect
  PROVE  NetInv'
<1>1. /\ run \in RunType /\ DirOK /\ most \in 0 .. MaxNodes
      /\ Origin /\ Spread /\ Progress
  BY NetInvParts
<1> DEFINE files == dir[run.i].gentx
           state == IF run.appState = {} THEN files ELSE run.appState
           more  == run.i + 1 < run.n
<1>2. /\ run.phase = "collect" /\ CollectOK(files) /\ most' = most
      /\ dir' = [dir EXCEPT ![run.i].genesis = state, ![run.i].rpc = run.ports[run.i]]
      /\ run' = [run EXCEPT
           !.appState = state,
           !.i = IF more THEN run.i + 1 ELSE 0,
           !.phase = IF more THEN "collect" ELSE "idle",
           !.result = IF more THEN "running" ELSE "ok"]
  BY DEF Collect
<1>3. /\ run.n \in NodeCounts /\ run.stakes \in StakeLists
      /\ run.ports \in [Running -> Nat \cup {None}]
      /\ run.i \in Running /\ run.file \in Running /\ run.file = 0
      /\ \A a \in Running, j \in Running : Gentx(j) \in dir[a].gentx
      /\ run.appState = (IF run.i = 0 THEN {} ELSE All)
      /\ \A j \in 0 .. run.i - 1 :
           /\ dir[j].gentx = All /\ dir[j].genesis = All
           /\ dir[j].rpc = run.ports[j]
  BY <1>1, <1>2 DEF Progress
<1>4. /\ run.i \in Nat /\ run.i < run.n /\ run.n \in Nat /\ run.i \in Node
      /\ Running \subseteq Node
      /\ \A j \in Running : j \in Nat /\ j < run.n
  BY <1>1, <1>3, RunningNodes
<1>5. files = All
  BY <1>2, <1>3, CleanDir DEF CollectOK
<1>6. All # {} /\ state = All
  <2>1. Gentx(run.i) \in All
    BY <1>3 DEF All
  <2> QED BY <2>1, <1>3, <1>5
<1>7. All \in SUBSET GentxType
  BY <1>1, <1>4, <1>5 DEF DirOK
<1> HIDE DEF files, state
<1>8. run.ports[run.i] \in Nat \cup {None}
  BY <1>3
<1>9. dir' \in [Node -> [gentx : SUBSET GentxType, genesis : SUBSET GentxType,
                         rpc : Nat \cup {None}]]
  BY <1>1, <1>2, <1>4, <1>6, <1>7, <1>8 DEF DirOK
<1>10. /\ \A a \in Node : dir'[a].gentx = dir[a].gentx
       /\ \A a \in Node \ {run.i} : dir'[a] = dir[a]
       /\ dir'[run.i].genesis = All /\ dir'[run.i].rpc = run.ports[run.i]
  BY <1>1, <1>2, <1>4, <1>6 DEF DirOK
<1>11. DirOK'
  BY <1>1, <1>9, <1>10 DEF DirOK
<1>12. /\ run'.id = run.id /\ run'.n = run.n /\ run'.stakes = run.stakes
       /\ run'.ports = run.ports /\ run'.file = 0 /\ run'.appState = All
       /\ run'.i = IF more THEN run.i + 1 ELSE 0
       /\ run'.phase = IF more THEN "collect" ELSE "idle"
       /\ run'.result = IF more THEN "running" ELSE "ok"
  BY <1>1, <1>2, <1>3, <1>6 DEF RunType
<1>13. run' \in RunType
  <2>1. /\ (IF more THEN run.i + 1 ELSE 0) \in Nat
        /\ (IF more THEN "collect" ELSE "idle")
             \in {"idle", "nodes", "genfiles", "copy", "collect"}
        /\ (IF more THEN "running" ELSE "ok")
             \in {"none", "running", "ok", "error", "panic"}
    BY <1>4
  <2> HIDE DEF more
  <2> QED BY <1>1, <1>2, <1>6, <1>7, <2>1 DEF RunType
<1>14. \A a : Gentx(a)' = Gentx(a)
  BY <1>12, GentxSame
<1>15. Running' = Running /\ All' = All
  BY <1>12, <1>14 DEF Running, All
<1>16. Origin'
  BY <1>1, <1>10, <1>12, <1>14 DEF Origin
<1>17. Spread'
  <2>1. 0 \in Node
    BY <1>4 DEF Node
  <2>2. ASSUME NEW a \in Node, NEW g \in dir'[a].gentx, g.node # a
        PROVE  /\ g.node < most'
               /\ \E h \in dir'[0].gentx : h.node = g.node
    <3>1. g \in dir[a].gentx /\ dir'[0].gentx = dir[0].gentx
      BY <1>10, <2>1, <2>2
    <3> QED BY <1>1, <1>2, <2>2, <3>1 DEF Spread
  <2> QED BY <2>2 DEF Spread
<1>18. \A j \in 0 .. run.i :
         /\ dir'[j].gentx = All /\ dir'[j].genesis = All
         /\ dir'[j].rpc = run.ports[j]
  <2> SUFFICES ASSUME NEW j \in 0 .. run.i
               PROVE  /\ dir'[j].gentx = All /\ dir'[j].genesis = All
                      /\ dir'[j].rpc = run.ports[j]
    OBVIOUS
  <2>1. CASE j = run.i
    BY <2>1, <1>4, <1>5, <1>10 DEF files
  <2>2. CASE j # run.i
    <3>1. j \in 0 .. run.i - 1 /\ j \in Node
      BY <2>2, <1>4 DEF Node
    <3> QED BY <2>2, <3>1, <1>3, <1>10
  <2> QED BY <2>1, <2>2
<1>19. \A a \in Running, j \in Running : Gentx(j)' \in dir'[a].gentx
  BY <1>3, <1>4, <1>10, <1>14
<1>20. Progress'
  <2>1. CASE more
    <3>1. /\ run'.phase = "collect" /\ run'.i = run.i + 1 /\ run'.result = "running"
          /\ run'.i \in Running /\ run'.i # 0 /\ run'.file \in Running
          /\ run'.i - 1 = run.i
      BY <2>1, <1>4, <1>12 DEF Running
    <3> QED BY <3>1, <1>3, <1>12, <1>15, <1>18, <1>19 DEF Progress, Succeeded
  <2>2. CASE ~more
    <3>1. run'.phase = "idle" /\ run'.result = "ok"
      BY <2>2, <1>12
    <3>2. \A j \in Running : j \in 0 .. run.i
      BY <2>2, <1>4
    <3> QED BY <3>1, <3>2, <1>12, <1>15, <1>18 DEF Progress, Succeeded
  <2> QED BY <2>1, <2>2
<1> QED BY <1>1, <1>2, <1>11, <1>13, <1>16, <1>17, <1>20, NetInvNext

\* A run that stops with an error leaves the files, or removes them all.
LEMMA FailStep ==
  ASSUME NetInv, CollectFails \/ Abort \/ AbortAndRemove
  PROVE  NetInv'
<1>1. /\ run \in RunType /\ DirOK /\ most \in 0 .. MaxNodes
      /\ Origin /\ Spread /\ Progress
  BY NetInvParts
<1>2. run' = [run EXCEPT !.phase = "idle", !.result = "error"]
  BY DEF CollectFails, Abort, AbortAndRemove
<1>3. /\ run'.id = run.id /\ run'.n = run.n /\ run'.stakes = run.stakes
      /\ run'.phase = "idle" /\ run'.result = "error" /\ run' \in RunType
  BY <1>1, <1>2 DEF RunType
<1>4. Progress'
  BY <1>3 DEF Progress, Succeeded
<1>5. \A a : Gentx(a)' = Gentx(a)
  BY <1>3, GentxSame
<1>6. CASE CollectFails \/ Abort
  <2>1. dir' = dir /\ most' = most
    BY <1>6 DEF CollectFails, Abort
  <2>2. Origin'
    BY <1>1, <1>3, <1>5, <2>1 DEF Origin
  <2> QED BY <1>1, <1>3, <1>4, <2>1, <2>2, NetInvNext DEF DirOK, Spread
<1>7. CASE AbortAndRemove
  <2>1. dir' = [i \in Node |-> NoFiles] /\ most' = 0
    BY <1>7 DEF AbortAndRemove
  <2>2. \A i \in Node : dir'[i].gentx = {}
    BY <2>1 DEF NoFiles
  <2>3. DirOK'
    BY <2>1, <2>2 DEF DirOK, NoFiles
  <2>4. Origin' /\ Spread'
    BY <2>2 DEF Origin, Spread
  <2>5. most' \in 0 .. MaxNodes
    BY <2>1
  <2> QED BY <1>3, <1>4, <2>3, <2>4, <2>5, NetInvNext
<1> QED BY <1>6, <1>7

-----------------------------------------------------------------------------
\* NetInv holds throughout: the repeated, failing and killed runs of the command
\* keep the origin of every file known.
THEOREM NetTheorem == Spec => []NetInv
<1>1. Init => NetInv
  BY NetInvInit
<1>2. NetInv /\ [Next]_vars => NetInv'
  <2> SUFFICES ASSUME NetInv, [Next]_vars PROVE NetInv'
    OBVIOUS
  <2>1. CASE Next
    BY <2>1, StartStep, InitNodeStep, InitGenFilesStep, CopyStep, CollectStep,
       FailStep DEF Next
  <2>2. CASE UNCHANGED vars
    <3>1. /\ run \in RunType /\ DirOK /\ most \in 0 .. MaxNodes
          /\ Origin /\ Spread /\ Progress
      BY NetInvParts
    <3>2. dir' = dir /\ run' = run /\ most' = most
      BY <2>2 DEF vars
    <3>3. DirOK' /\ Spread'
      BY <3>1, <3>2 DEF DirOK, Spread
    <3>4. (\A i : Gentx(i)' = Gentx(i)) /\ Running' = Running
      BY <3>2 DEF Gentx, Running
    <3>5. Origin'
      BY <3>1, <3>2, <3>4 DEF Origin
    <3>6. All' = All
      BY <3>4 DEF All
    <3>7. Progress'
      BY <3>1, <3>2, <3>4, <3>6 DEF Progress, Succeeded
    <3> QED BY <3>1, <3>2, <3>3, <3>5, <3>7, NetInvNext
  <2> QED BY <2>1, <2>2
<1> QED BY <1>1, <1>2, PTL DEF Spec

\* The directories of the test network have their type throughout, and none
\* holds two gentx files of one node.
THEOREM NetTypeTheorem == Spec => []TypeOK
<1>1. NetInv => TypeOK
  BY DEF NetInv
<1> QED BY <1>1, NetTheorem, PTL

\* A run that succeeds leaves the same genesis in every directory, with the
\* validators of this run alone.
THEOREM OneNetworkTheorem == Spec => []OneNetwork
<1>1. NetInv => OneNetwork
  BY DEF NetInv, Progress, OneNetwork, All
<1> QED BY <1>1, NetTheorem, PTL

\* Once the first node's state is accepted, every directory would have given
\* the same one.
THEOREM CanonicalStateTheorem == Spec => []CanonicalState
<1>1. NetInv => CanonicalState
  <2> SUFFICES ASSUME NetInv, run.phase = "collect", run.i > 0, NEW j \in Running
               PROVE  dir[j].gentx = run.appState
    BY DEF CanonicalState
  <2>1. /\ run \in RunType /\ DirOK /\ Origin /\ Spread /\ Progress
    BY NetInvParts
  <2>2. /\ run.stakes \in StakeLists /\ run.i \in Running
        /\ run.appState = (IF run.i = 0 THEN {} ELSE All)
        /\ \A k \in 0 .. run.i - 1 : dir[k].gentx = All
    BY <2>1 DEF Progress
  <2>3. /\ j \in Node /\ j \in Nat /\ run.n \in Nat /\ j < run.n /\ run.i \in Nat
        /\ Running \subseteq Node
    BY <2>1, <2>2, RunningNodes
  <2>4. run.appState = All /\ dir[0].gentx = All
    BY <2>2, <2>3
  <2>5. ASSUME NEW g \in dir[j].gentx, g.run # run.id
        PROVE  FALSE
    <3>1. g.node \in Node
      BY <2>1, <2>3 DEF DirOK, GentxType
    <3>2. CASE g.node < run.n
      <4>1. g.node \in Running
        BY <3>1, <3>2, <2>3 DEF Node, Running
      <4>2. Gentx(g.node) \in dir[j].gentx
        BY <4>1, <2>1 DEF Progress
      <4>3. Gentx(g.node).node = g.node /\ Gentx(g.node).run = run.id
        BY <2>1, <2>2, <3>1, GentxFacts
      <4> QED BY <4>2, <4>3, <2>1, <2>3, <2>5 DEF DirOK
    <3>3. CASE ~(g.node < run.n)
      <4>1. g.node # j
        BY <3>3, <2>3
      <4>2. PICK h \in dir[0].gentx : h.node = g.node
        BY <4>1, <2>1, <2>3 DEF Spread
      <4>3. PICK k \in Running : h = Gentx(k)
        BY <4>2, <2>4 DEF All
      <4>4. h.node = k /\ k < run.n
        BY <4>3, <2>1, <2>2, <2>3, GentxFacts, RunningNodes
      <4> QED BY <3>3, <4>2, <4>4
    <3> QED BY <3>2, <3>3
  <2> QED BY <2>4, <2>5, CleanDir
<1> QED BY <1>1, NetTheorem, PTL

\* Files of earlier runs are met only if one of those had more validators.
THEOREM StaleOnlyFromLargerTheorem == Spec => []StaleOnlyFromLarger
<1>1. NetInv => StaleOnlyFromLarger
  <2> SUFFICES ASSUME NetInv, run.phase = "collect", NEW i \in Running,
                      NEW g \in dir[i].gentx, g.run # run.id
               PROVE  most > run.n
    BY DEF StaleOnlyFromLarger
  <2>1. /\ run \in RunType /\ DirOK /\ Spread /\ Progress /\ most \in 0 .. MaxNodes
    BY NetInvParts
  <2>2. /\ i \in Node /\ i \in Nat /\ run.n \in Nat /\ i < run.n
        /\ run.stakes \in StakeLists
    BY <2>1, RunningNodes DEF Progress
  <2>3. g.node \in Node
    BY <2>1, <2>2 DEF DirOK, GentxType
  <2>4. ~(g.node < run.n)
    <3> SUFFICES ASSUME g.node < run.n PROVE FALSE
      OBVIOUS
    <3>1. g.node \in Running
      BY <2>2, <2>3 DEF Node, Running
    <3>2. Gentx(g.node) \in dir[i].gentx
      BY <3>1, <2>1 DEF Progress
    <3>3. Gentx(g.node).node = g.node /\ Gentx(g.node).run = run.id
      BY <2>1, <2>2, <2>3, GentxFacts
    <3> QED BY <3>2, <3>3, <2>1, <2>2 DEF DirOK
  <2>5. g.node < most
    BY <2>1, <2>2, <2>4 DEF Spread
  <2> QED BY <2>1, <2>2, <2>3, <2>4, <2>5 DEF Node
<1> QED BY <1>1, NetTheorem, PTL

\* The numbers a node may have.
Slot == 0 .. 1316

\* A run has at most 1317 validators.
LEMMA FewNodes ==
  ASSUME run \in RunType, NEW i \in Running
  PROVE  i \in Slot
<1>1. i \in Nat /\ i < run.n /\ run.n \in Nat /\ run.n <= MaxNodes
  BY RunningNodes
<1>2. MaxNodes \in 1 .. 1317
  OBVIOUS
<1> QED BY <1>1, <1>2 DEF Slot

HIDE TestnetAssumption

\* The servers of a node with the default ports.
Names == {"rpc", "p2p", "proxy", "prometheus", "grpc", "api"}
Number(n, k) ==
  CASE n = "rpc" -> 26657 - 3 * k
    [] n = "p2p" -> 26656 - 3 * k
    [] n = "proxy" -> 26658 - 3 * k
    [] n = "prometheus" -> 26660 + k
    [] n = "grpc" -> 9090 - 2 * k
    [] n = "api" -> 1317 - k
DefaultPorts(i) ==
  {<<"rpc", RPCPort(i)>>} \cup {<<k, Port(i)[k]>> : k \in DOMAIN Port(i)}

\* The six families of default ports are disjoint: three that step by three
\* differ modulo three, one grows away from them, and two are too low.
LEMMA NumbersDiffer ==
  ASSUME NEW i \in Slot, NEW j \in Slot,
         NEW n \in Names, NEW m \in Names, Number(n, i) = Number(m, j)
  PROVE  n = m /\ i = j
<1> DEFINE a == Number(n, i)
           b == Number(m, j)
<1>1. \/ n = "rpc" /\ a = 26657 - 3 * i
      \/ n = "p2p" /\ a = 26656 - 3 * i
      \/ n = "proxy" /\ a = 26658 - 3 * i
      \/ n = "prometheus" /\ a = 26660 + i
      \/ n = "grpc" /\ a = 9090 - 2 * i
      \/ n = "api" /\ a = 1317 - i
  BY DEF Names, Number, Slot
<1>2. \/ m = "rpc" /\ b = 26657 - 3 * j
      \/ m = "p2p" /\ b = 26656 - 3 * j
      \/ m = "proxy" /\ b = 26658 - 3 * j
      \/ m = "prometheus" /\ b = 26660 + j
      \/ m = "grpc" /\ b = 9090 - 2 * j
      \/ m = "api" /\ b = 1317 - j
  BY DEF Names, Number, Slot
<1>3. a = b
  OBVIOUS
<1> HIDE DEF a, b
<1> QED BY <1>1, <1>2, <1>3, SMTT(60) DEF Slot

\* Every default port is one of a family.
LEMMA PortNumbers ==
  ASSUME NEW k, NEW r \in DefaultPorts(k)
  PROVE  \E n \in Names : r = <<n, Number(n, k)>>
<1>1. CASE r = <<"rpc", RPCPort(k)>>
  BY <1>1 DEF RPCPort, Names, Number
<1>2. ASSUME NEW m \in DOMAIN Port(k), r = <<m, Port(k)[m]>>
      PROVE  \E n \in Names : r = <<n, Number(n, k)>>
  <2>1. m \in Names /\ Port(k)[m] = Number(m, k)
    BY DEF Port, P2PPort, Names, Number
  <2> QED BY <1>2, <2>1
<1> QED BY <1>1, <1>2 DEF DefaultPorts

\* With the default ports no two servers share one, for up to 1317 validators.
THEOREM PortsDisjointTheorem == Spec => []PortsDisjoint
<1>1. NetInv => PortsDisjoint
  <2> SUFFICES ASSUME NetInv, Succeeded, \A i \in Running : run.ports[i] = RPCPort(i),
                      NEW i \in Running, NEW j \in Running,
                      NEW p \in Ports(i), NEW q \in Ports(j), p[2] = q[2]
               PROVE  i = j /\ p = q
    BY DEF PortsDisjoint
  <2>1. run \in RunType /\ Progress
    BY NetInvParts
  <2>2. dir[i].rpc = RPCPort(i) /\ dir[j].rpc = RPCPort(j)
    BY <2>1 DEF Progress
  <2>3. i \in Slot /\ j \in Slot
    BY <2>1, FewNodes
  <2>4. p \in DefaultPorts(i) /\ q \in DefaultPorts(j)
    BY <2>2 DEF Ports, DefaultPorts
  <2>5. PICK n \in Names : p = <<n, Number(n, i)>>
    BY <2>4, PortNumbers
  <2>6. PICK m \in Names : q = <<m, Number(m, j)>>
    BY <2>4, PortNumbers
  <2>7. Number(n, i) = Number(m, j)
    BY <2>5, <2>6
  <2>8. n = m /\ i = j
    BY <2>3, <2>7, NumbersDiffer
  <2> QED BY <2>5, <2>6, <2>8
<1> QED BY <1>1, NetTheorem, PTL
===============================================================================

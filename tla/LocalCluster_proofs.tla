------------------------ MODULE LocalCluster_proofs ------------------------
(***************************************************************************)
(* Proofs about LocalCluster, for every number of processes, runtimes and  *)
(* members and every number of commands, failures and foreign names.  The  *)
(* safety properties follow from one inductive invariant, Inv, in seven    *)
(* parts:                                                                  *)
(*   Typed    the variables' types, and which states a command can be in;  *)
(*   Backed   a container has a data volume, and a list only our own;      *)
(*   Mine     a running "up" owns its network, or somebody removed it;     *)
(*   Lonely   a command that is alone is the only one;                     *)
(*   Looked   what a lonely command is about to remove by its name is the  *)
(*            cluster's own, as when it looked;                            *)
(*   Prepared a lonely command about to run a container has its volume;    *)
(*   Swept    what a lonely removal has behind it is clean.                *)
(***************************************************************************)
EXTENDS LocalCluster, WellFoundedInduction, TLAPS

-----------------------------------------------------------------------------
(* The order of the runtimes *)

\* The runtime that a command is at is one it has still to do: there is a
\* first one in the order of the probe.
LEMMA FirstIsMember ==
    ASSUME NEW S \in SUBSET R, S # {}
    PROVE  First(S) \in S
<1> DEFINE U == {n \in DOMAIN Runtimes : Runtimes[n] \in S}
           Less == OpToRel(<, Nat)
<1>1. DOMAIN Runtimes = 1..Len(Runtimes) /\ Len(Runtimes) \in Nat
  BY LocalAssumption
<1>2. U # {} /\ U \subseteq Nat
  BY <1>1 DEF R
<1>3. IsWellFoundedOn(Less, Nat)
  BY NatLessThanWellFounded
<1>4. PICK u \in U : \A v \in U : ~(<<v, u>> \in Less)
  <2> HIDE DEF U, Less
  <2> QED BY <1>2, <1>3, WFMin
<1>5. \A v \in U : ~(v < u)
  BY <1>2, <1>4 DEF OpToRel
<1>6. u \in DOMAIN Runtimes /\ Runtimes[u] \in S /\ \A m \in 1..(u - 1) : Runtimes[m] \notin S
  BY <1>1, <1>5
<1>7. Runtimes[CHOOSE n \in DOMAIN Runtimes :
        Runtimes[n] \in S /\ \A m \in 1..(n - 1) : Runtimes[m] \notin S] \in S
  BY <1>6, Zenon
<1> QED BY <1>7 DEF First

-----------------------------------------------------------------------------
(* Types *)

UpPcs == {"net", "check", "volume", "run", "undo", "undoCtr", "undoLook", "undoVol", "health"}
RemovePcs == {"rmCtrs", "rmIDs", "rmVols", "rmNames", "rmNet", "removed"}
ReplacePcs == {"terminate", "rmOld", "relaunch", "rmExited"}

Commands == [op : {"none", "up", "down", "replace"},
             pc : UpPcs \cup RemovePcs \cup ReplacePcs \cup {"idle"},
             asked : SUBSET R, rts : SUBSET R, k : Mem \cup {0}, seen : SUBSET Mem,
             failed : BOOLEAN, alone : BOOLEAN, calm : BOOLEAN]

VolumeKinds == {"none", "own", "plain", "foreign"}
Containers == [kind : {"none", "running", "exited", "foreign"}, listed : SUBSET Procs]

TypeOK ==
  /\ net \in [R -> Procs \cup {0}]
  /\ ctr \in [R -> [Mem -> Containers]]
  /\ vol \in [R -> [Mem -> {"none", "own", "plain", "foreign"}]]
  /\ proc \in [Procs -> Commands]

\* A command in progress is at a runtime and a member, "up" at one runtime.
WellFormed(c) ==
  /\ c.pc # "idle" => c.rts # {} /\ c.k \in Mem
  /\ c.pc \in UpPcs => c.op = "up"
  /\ c.pc \in RemovePcs => c.op \in {"up", "down"}
  /\ c.pc \in ReplacePcs => c.op = "replace"
  /\ c.op = "up" => c.rts = {First(c.rts)} /\ c.asked = c.rts

Typed == TypeOK /\ \A p \in Procs : WellFormed(proc[p])

LEMMA AtRuntime ==
    ASSUME Typed, NEW p \in Procs, ~At(p, "idle")
    PROVE  /\ Rt(p) \in R /\ Rt(p) \in proc[p].rts /\ K(p) \in Mem
           /\ proc[p] \in Commands
<1>1. proc[p] \in Commands /\ proc[p].rts \in SUBSET R /\ proc[p].rts # {} /\ K(p) \in Mem
  BY DEF Typed, TypeOK, WellFormed, At, K, Commands
<1> QED BY <1>1, FirstIsMember DEF Rt

\* How a step may change the commands: that of process p is replaced by c, and
\* the others lose at most their being alone or calm.
Others(p) ==
  \A q \in Procs \ {p} :
    /\ proc'[q] \in Commands
    /\ proc'[q].op = proc[q].op /\ proc'[q].pc = proc[q].pc
    /\ proc'[q].asked = proc[q].asked /\ proc'[q].rts = proc[q].rts
    /\ proc'[q].k = proc[q].k /\ proc'[q].failed = proc[q].failed
    /\ proc'[q].seen = proc[q].seen
    /\ proc'[q].alone => proc[q].alone
    /\ proc'[q].calm => proc[q].calm

LEMMA GotoFacts ==
    ASSUME proc \in [Procs -> Commands], NEW p \in Procs,
           NEW pc \in UpPcs \cup RemovePcs \cup ReplacePcs, Goto(p, pc)
    PROVE  /\ proc' \in [Procs -> Commands] /\ Others(p)
           /\ proc'[p] = [proc[p] EXCEPT !.pc = pc]
BY DEF Goto, Others, Commands

LEMMA EndFacts ==
    ASSUME proc \in [Procs -> Commands], NEW p \in Procs, End(p)
    PROVE  /\ proc' \in [Procs -> Commands] /\ Others(p)
           /\ proc'[p] = Idle
BY DEF End, Others, Commands, Idle

\* The command that Begin starts.
NewCommand(p, op, pc, rts, i) ==
  [op |-> op, pc |-> pc, asked |-> rts, rts |-> rts, k |-> i, seen |-> {},
   failed |-> FALSE, calm |-> op = "up",
   alone |-> \A y \in Procs \ {p} : At(y, "idle")]

LEMMA BeginFacts ==
    ASSUME proc \in [Procs -> Commands], NEW p \in Procs, NEW op \in {"up", "down", "replace"},
           NEW pc \in {"net", "rmCtrs", "terminate"}, NEW rts \in SUBSET R, NEW i \in Mem,
           Begin(p, op, pc, rts, i)
    PROVE  /\ proc' \in [Procs -> Commands] /\ Others(p)
           /\ proc'[p] = NewCommand(p, op, pc, rts, i)
           /\ \A q \in Procs \ {p} : ~proc'[q].alone
<1> DEFINE c == NewCommand(p, op, pc, rts, i)
<1>1. c \in Commands
  BY DEF NewCommand, Commands, UpPcs, RemovePcs, ReplacePcs
<1>2. proc' = [x \in Procs |-> IF x = p THEN c ELSE [proc[x] EXCEPT !.alone = FALSE]]
  BY DEF Begin, NewCommand
<1>3. proc'[p] = c
  BY <1>2
<1> HIDE DEF c
<1>4. \A q \in Procs \ {p} :
         proc'[q] = [proc[q] EXCEPT !.alone = FALSE] /\ proc'[q] \in Commands
  <2> SUFFICES ASSUME NEW q \in Procs \ {p}
               PROVE  proc'[q] = [proc[q] EXCEPT !.alone = FALSE] /\ proc'[q] \in Commands
    OBVIOUS
  <2>1. proc'[q] = [proc[q] EXCEPT !.alone = FALSE]
    BY <1>2
  <2>2. \A x \in Commands : [x EXCEPT !.alone = FALSE] \in Commands
    BY DEF Commands
  <2> QED BY <2>1, <2>2
<1>5. proc' \in [Procs -> Commands]
  BY <1>1, <1>2, <1>3, <1>4
<1>6. ASSUME NEW d \in Commands, NEW e, e = [d EXCEPT !.alone = FALSE]
      PROVE  /\ e.op = d.op /\ e.pc = d.pc /\ e.asked = d.asked /\ e.rts = d.rts
             /\ e.k = d.k /\ e.seen = d.seen /\ e.failed = d.failed /\ ~e.alone /\ (e.calm => d.calm)
  BY <1>6 DEF Commands
<1>7. Others(p) /\ \A q \in Procs \ {p} : ~proc'[q].alone
  <2> SUFFICES ASSUME NEW q \in Procs \ {p}
               PROVE  /\ proc'[q] \in Commands
                      /\ proc'[q].op = proc[q].op /\ proc'[q].pc = proc[q].pc
                      /\ proc'[q].asked = proc[q].asked /\ proc'[q].rts = proc[q].rts
                      /\ proc'[q].k = proc[q].k /\ proc'[q].failed = proc[q].failed
                      /\ proc'[q].seen = proc[q].seen
                      /\ ~proc'[q].alone
                      /\ proc'[q].calm => proc[q].calm
    BY DEF Others
  <2>1. proc[q] \in Commands /\ proc'[q] \in Commands
        /\ proc'[q] = [proc[q] EXCEPT !.alone = FALSE]
    BY <1>4
  <2> QED BY <2>1, <1>6
<1> QED BY <1>3, <1>5, <1>7 DEF c

LEMMA ShakenFacts ==
    ASSUME proc \in [Procs -> Commands], NEW p \in Procs, NEW c \in Commands,
           proc' = Shaken([proc EXCEPT ![p] = c])
    PROVE  /\ proc' \in [Procs -> Commands] /\ Others(p)
           /\ proc'[p] = [c EXCEPT !.calm = FALSE]
           /\ \A q \in Procs : ~proc'[q].calm
BY DEF Shaken, Others, Commands

\* What a step of a command in progress does to the commands: it stays the
\* same command, which may end, and does not become alone or calm again; only
\* the removal of a network goes on to the next runtime.
Moves(p) ==
  /\ ~At(p, "idle") /\ Others(p)
  /\ proc' \in [Procs -> Commands] /\ WellFormed(proc'[p])
  /\ proc'[p].alone => proc[p].alone
  /\ proc'[p].pc = "idle" => proc'[p].op = "none" /\ ~proc'[p].alone
  /\ proc'[p].pc # "idle" =>
       /\ proc'[p].op = proc[p].op /\ proc'[p].asked = proc[p].asked
       /\ proc'[p].calm => proc[p].calm
       /\ proc[p].failed => proc'[p].failed
       /\ proc[p].pc # "rmNet" => proc'[p].rts = proc[p].rts

\* Where a command in progress may go without changing anything but its pc.
SameCommand(pc, next) ==
  \/ {pc, next} \subseteq UpPcs
  \/ {pc, next} \subseteq RemovePcs
  \/ {pc, next} \subseteq ReplacePcs
  \/ pc \in UpPcs /\ next \in RemovePcs

LEMMA Continues ==
    ASSUME NEW c \in Commands, WellFormed(c), c.pc # "idle", NEW pc, SameCommand(c.pc, pc)
    PROVE  [c EXCEPT !.pc = pc] \in Commands /\ WellFormed([c EXCEPT !.pc = pc])
<1> DEFINE d == [c EXCEPT !.pc = pc]
<1>1. d \in Commands /\ d.pc = pc /\ d.op = c.op /\ d.asked = c.asked /\ d.rts = c.rts /\ d.k = c.k
  BY DEF Commands, SameCommand
<1>2. (c.pc \in UpPcs => c.op = "up") /\ (c.pc \in RemovePcs => c.op \in {"up", "down"})
  BY DEF WellFormed
<1> HIDE DEF d
<1>3. WellFormed(d)
  BY <1>1, <1>2 DEF WellFormed, SameCommand, UpPcs, RemovePcs, ReplacePcs
<1> QED BY <1>1, <1>3 DEF d

LEMMA GotoMoves ==
    ASSUME Typed, NEW p \in Procs, ~At(p, "idle"), NEW pc,
           SameCommand(proc[p].pc, pc), Goto(p, pc)
    PROVE  Moves(p)
<1>1. proc \in [Procs -> Commands] /\ proc[p] \in Commands /\ WellFormed(proc[p])
  BY DEF Typed, TypeOK
<1>2. pc \in UpPcs \cup RemovePcs \cup ReplacePcs
  BY DEF SameCommand
<1>3. proc' \in [Procs -> Commands] /\ Others(p) /\ proc'[p] = [proc[p] EXCEPT !.pc = pc]
  BY <1>1, <1>2, GotoFacts
<1>4. WellFormed(proc'[p])
  BY <1>1, <1>3, Continues DEF At
<1> QED
  BY <1>1, <1>2, <1>3, <1>4 DEF Moves, Commands, UpPcs, RemovePcs, ReplacePcs

LEMMA EndMoves ==
    ASSUME Typed, NEW p \in Procs, ~At(p, "idle"), End(p)
    PROVE  Moves(p)
<1>1. proc' \in [Procs -> Commands] /\ Others(p) /\ proc'[p] = Idle
  BY EndFacts DEF Typed, TypeOK
<1> QED BY <1>1 DEF Moves, WellFormed, Idle, UpPcs, RemovePcs, ReplacePcs

LEMMA ShakenMoves ==
    ASSUME Typed, NEW p \in Procs, ~At(p, "idle"), NEW c \in Commands, WellFormed(c),
           proc' = Shaken([proc EXCEPT ![p] = c]),
           \/ c = Idle
           \/ /\ c.pc # "idle" /\ c.op = proc[p].op /\ c.asked = proc[p].asked
              /\ c.alone = proc[p].alone /\ c.calm = proc[p].calm
              /\ proc[p].failed => c.failed
              /\ proc[p].pc # "rmNet" => c.rts = proc[p].rts
    PROVE  Moves(p) /\ \A q \in Procs : ~proc'[q].calm
<1>1. /\ proc' \in [Procs -> Commands] /\ Others(p)
      /\ proc'[p] = [c EXCEPT !.calm = FALSE]
      /\ \A q \in Procs : ~proc'[q].calm
  BY ShakenFacts DEF Typed, TypeOK
<1> DEFINE d == proc'[p]
<1>2. /\ d.op = c.op /\ d.pc = c.pc /\ d.asked = c.asked /\ d.rts = c.rts /\ d.k = c.k
      /\ d.failed = c.failed /\ d.alone = c.alone /\ ~d.calm
  BY <1>1 DEF Commands
<1> HIDE DEF d
<1>4. WellFormed(d)
  BY <1>2 DEF WellFormed
<1>5. Idle.pc = "idle" /\ ~Idle.alone /\ Idle.op = "none"
  BY DEF Idle
<1>6. /\ d.alone => proc[p].alone
      /\ d.pc = "idle" => d.op = "none" /\ ~d.alone
      /\ d.pc # "idle" =>
           /\ d.op = proc[p].op /\ d.asked = proc[p].asked
           /\ d.calm => proc[p].calm
           /\ proc[p].failed => d.failed
           /\ proc[p].pc # "rmNet" => d.rts = proc[p].rts
  BY <1>2, <1>5
<1> QED BY <1>1, <1>4, <1>6 DEF Moves, d

LEMMA CommandMoves ==
    ASSUME Typed, NEW p \in Procs, ~At(p, "idle"), NEW c \in Commands, WellFormed(c),
           \A q \in Procs \ {p} : proc'[q] = proc[q],
           proc' \in [Procs -> Commands], proc'[p] = c,
           c.pc # "idle", c.op = proc[p].op, c.asked = proc[p].asked,
           c.alone = proc[p].alone, c.calm = proc[p].calm,
           proc[p].failed => c.failed,
           proc[p].pc # "rmNet" => c.rts = proc[p].rts
    PROVE  Moves(p)
BY DEF Moves, Others

-----------------------------------------------------------------------------
(* Every step of a command in progress is such a move *)

LEMMA UpMoves ==
    ASSUME Typed, NEW p \in Procs, UpStep(p)
    PROVE  Moves(p)
<1>1. CASE CreateNetwork(p)
  <2>1. ~At(p, "idle") /\ SameCommand(proc[p].pc, "check")
    BY <1>1 DEF CreateNetwork, At, SameCommand, UpPcs
  <2> QED BY <1>1, <2>1, GotoMoves, EndMoves DEF CreateNetwork
<1>2. CASE CreateCheck(p)
  <2>1. /\ ~At(p, "idle")
        /\ SameCommand(proc[p].pc, "volume") /\ SameCommand(proc[p].pc, "rmCtrs")
    BY <1>2 DEF CreateCheck, At, SameCommand, UpPcs, RemovePcs
  <2>2. Goto(p, "volume") \/ Goto(p, "rmCtrs")
    BY <1>2 DEF CreateCheck
  <2> QED BY <2>1, <2>2, GotoMoves
<1>3. CASE CreateVolume(p)
  <2>1. ~At(p, "idle") /\ SameCommand(proc[p].pc, "run")
    BY <1>3 DEF CreateVolume, At, SameCommand, UpPcs
  <2> QED BY <1>3, <2>1, GotoMoves DEF CreateVolume
<1>4. CASE CreateRun(p)
  <2>1. /\ ~At(p, "idle") /\ SameCommand(proc[p].pc, "undo")
        /\ SameCommand(proc[p].pc, "check") /\ SameCommand(proc[p].pc, "health")
    BY <1>4 DEF CreateRun, At, SameCommand, UpPcs
  <2>2. CASE Goto(p, "undo")
    BY <2>1, <2>2, GotoMoves
  <2>3. CASE proc' = [proc EXCEPT ![p].pc = "health"]
    BY <2>1, <2>3, GotoMoves DEF Goto
  <2>4. CASE K(p) < Members /\ proc' = [proc EXCEPT ![p].pc = "check", ![p].k = @ + 1]
    <3> DEFINE c == [proc[p] EXCEPT !.pc = "check"]
               d == [c EXCEPT !.k = @ + 1]
    <3>1. proc[p] \in Commands /\ WellFormed(proc[p]) /\ K(p) \in Mem
      BY <2>1, AtRuntime DEF Typed
    <3>2. c \in Commands /\ WellFormed(c) /\ c.pc = "check" /\ c.k = K(p)
      BY <2>1, <3>1, Continues DEF Commands, At, K
    <3>3. K(p) + 1 \in Mem
      BY <2>4, <3>1, LocalAssumption DEF Mem
    <3>4. /\ d \in Commands /\ d.pc = "check" /\ d.k \in Mem /\ d.op = c.op
          /\ d.asked = c.asked /\ d.rts = c.rts /\ d.alone = c.alone /\ d.calm = c.calm
          /\ d.failed = c.failed
      BY <3>2, <3>3 DEF Commands
    <3>5. /\ c.op = proc[p].op /\ c.asked = proc[p].asked /\ c.rts = proc[p].rts
          /\ c.alone = proc[p].alone /\ c.calm = proc[p].calm /\ c.failed = proc[p].failed
      BY <3>1 DEF Commands
    <3>6. /\ proc' \in [Procs -> Commands] /\ proc'[p] = d
          /\ \A q \in Procs \ {p} : proc'[q] = proc[q]
      <4>1. proc' = [proc EXCEPT ![p] = d]
        BY <2>4 DEF Typed, TypeOK
      <4> HIDE DEF d
      <4> QED BY <4>1, <3>4 DEF Typed, TypeOK
    <3> HIDE DEF c, d
    <3>7. WellFormed(d)
      BY <3>2, <3>4 DEF WellFormed
    <3> QED
      BY <2>1, <3>4, <3>5, <3>6, <3>7, CommandMoves
  <2> QED BY <1>4, <2>2, <2>3, <2>4 DEF CreateRun
<1>5. CASE CreateUndo(p) \/ UndoContainer(p) \/ UndoLook(p) \/ UndoVolume(p)
  <2>1. /\ proc[p].pc \in {"undo", "undoCtr", "undoLook", "undoVol"}
        /\ \E pc \in {"undoCtr", "undoLook", "undoVol", "rmCtrs"} : Goto(p, pc)
    BY <1>5 DEF CreateUndo, UndoContainer, UndoLook, UndoVolume, At
  <2>2. /\ ~At(p, "idle")
        /\ \A pc \in {"undoCtr", "undoLook", "undoVol", "rmCtrs"} : SameCommand(proc[p].pc, pc)
    BY <2>1 DEF At, SameCommand, UpPcs, RemovePcs
  <2> QED BY <2>1, <2>2, GotoMoves
<1>6. CASE Health(p)
  <2>1. ~At(p, "idle") /\ SameCommand(proc[p].pc, "rmCtrs")
    BY <1>6 DEF Health, At, SameCommand, UpPcs, RemovePcs
  <2> QED BY <1>6, <2>1, GotoMoves, EndMoves DEF Health
<1> QED BY <1>1, <1>2, <1>3, <1>4, <1>5, <1>6 DEF UpStep

LEMMA ReplaceMoves ==
    ASSUME Typed, NEW p \in Procs, ReplaceStep(p), ~UNCHANGED proc
    PROVE  Moves(p)
<1>1. /\ proc[p].pc \in ReplacePcs
      /\ End(p) \/ \E pc \in ReplacePcs : Goto(p, pc)
  BY DEF ReplaceStep, Terminate, RemoveOld, Relaunch, RemoveExited, RelaunchGivesUp, At, ReplacePcs
<1>2. ~At(p, "idle") /\ \A pc \in ReplacePcs : SameCommand(proc[p].pc, pc)
  BY <1>1 DEF At, SameCommand, ReplacePcs
<1> QED BY <1>1, <1>2, GotoMoves, EndMoves

\* Leaving a runtime: the command goes on with the others, or ends.
NextRuntime(c, failed) ==
  IF c.rts # {First(c.rts)}
  THEN [c EXCEPT !.pc = "rmCtrs", !.rts = @ \ {First(c.rts)}, !.failed = failed]
  ELSE [c EXCEPT !.pc = "removed", !.failed = failed]

LEMMA NextRuntimeFacts ==
    ASSUME NEW c \in Commands, WellFormed(c), c.pc = "rmNet", NEW failed \in BOOLEAN
    PROVE  LET d == NextRuntime(c, failed) IN
           /\ d \in Commands /\ WellFormed(d)
           /\ d.op = c.op /\ d.asked = c.asked /\ d.alone = c.alone /\ d.calm = c.calm
           /\ d.failed = failed
           /\ \/ /\ d.pc = "rmCtrs" /\ d.rts = c.rts \ {First(c.rts)}
              \/ /\ d.pc = "removed" /\ d.rts = c.rts /\ c.rts = {First(c.rts)}
<1> DEFINE d == NextRuntime(c, failed)
           f == First(c.rts)
<1>1. /\ c.pc \in RemovePcs /\ c.pc \notin UpPcs /\ c.pc \notin ReplacePcs
      /\ c.rts # {} /\ c.k \in Mem /\ c.op \in {"up", "down"}
      /\ c.op = "up" => c.rts = {f} /\ c.asked = c.rts
  BY DEF WellFormed, UpPcs, RemovePcs, ReplacePcs
<1>2. f \in c.rts
  <2>1. c.rts \in SUBSET R BY DEF Commands
  <2> QED BY <2>1, <1>1, FirstIsMember
<1>3. CASE c.rts # {f}
  <2>1. d = [c EXCEPT !.pc = "rmCtrs", !.rts = @ \ {f}, !.failed = failed]
    BY <1>3 DEF NextRuntime
  <2>2. /\ d \in Commands /\ d.pc = "rmCtrs" /\ d.op = c.op /\ d.asked = c.asked
        /\ d.rts = c.rts \ {f} /\ d.k = c.k /\ d.failed = failed
        /\ d.alone = c.alone /\ d.calm = c.calm
    <3> DEFINE e == [c EXCEPT !.pc = "rmCtrs", !.rts = c.rts \ {f}]
    <3>1. c.rts \ {f} \in SUBSET R
      BY DEF Commands
    <3> HIDE DEF f
    <3>2. /\ e \in Commands /\ e.pc = "rmCtrs" /\ e.rts = c.rts \ {f} /\ e.op = c.op
          /\ e.asked = c.asked /\ e.k = c.k /\ e.alone = c.alone /\ e.calm = c.calm
      BY <3>1 DEF Commands, RemovePcs
    <3>3. d = [e EXCEPT !.failed = failed]
      BY <2>1
    <3> HIDE DEF d, e
    <3> QED BY <3>2, <3>3 DEF Commands
  <2> HIDE DEF d
  <2>3. d.rts # {} /\ d.op = "down"
    BY <1>1, <1>2, <1>3, <2>2
  <2>4. WellFormed(d)
    BY <1>1, <2>2, <2>3 DEF WellFormed, UpPcs, RemovePcs, ReplacePcs
  <2> QED BY <2>2, <2>4 DEF d
<1>4. CASE c.rts = {f}
  <2>1. d = [c EXCEPT !.pc = "removed", !.failed = failed]
    BY <1>4 DEF NextRuntime
  <2>2. /\ d \in Commands /\ d.pc = "removed" /\ d.op = c.op /\ d.asked = c.asked
        /\ d.rts = c.rts /\ d.k = c.k /\ d.failed = failed
        /\ d.alone = c.alone /\ d.calm = c.calm
    BY <2>1 DEF Commands, RemovePcs
  <2> HIDE DEF d
  <2>4. WellFormed(d)
    BY <1>1, <2>2 DEF WellFormed, UpPcs, RemovePcs, ReplacePcs
  <2> QED BY <1>4, <2>2, <2>4 DEF d
<1> QED BY <1>3, <1>4

\* The network that RemoveNetwork finds in use.
BusyNet(r) == net[r] # 0 /\ \E i \in Mem : ctr[r][i].kind = "running"

LEMMA RemoveNetworkFacts ==
    ASSUME Typed, NEW p \in Procs, RemoveNetwork(p)
    PROVE  /\ ~At(p, "idle") /\ proc' \in [Procs -> Commands]
           /\ \A q \in Procs \ {p} : proc'[q] = proc[q]
           /\ proc'[p] = NextRuntime(proc[p], proc[p].failed \/ BusyNet(Rt(p)))
<1> DEFINE busy == BusyNet(Rt(p))
           c == proc[p]
           d == NextRuntime(c, c.failed \/ busy)
<1>1. At(p, "rmNet") /\ ~At(p, "idle")
  BY DEF RemoveNetwork, At
<1>2. c \in Commands /\ WellFormed(c) /\ c.failed \in BOOLEAN
  BY DEF Typed, TypeOK, Commands
<1>3. busy \in BOOLEAN
  BY DEF BusyNet
<1>4. d \in Commands
  <2> HIDE DEF busy
  <2>1. (c.failed \/ busy) \in BOOLEAN BY <1>2, <1>3
  <2> QED BY <1>1, <1>2, <2>1, NextRuntimeFacts DEF At
<1>5. proc' = [proc EXCEPT ![p] = d]
  <2>1. proc' = IF proc[p].rts # {Rt(p)}
             THEN [proc EXCEPT ![p].pc = "rmCtrs", ![p].rts = @ \ {Rt(p)},
                               ![p].failed = @ \/ busy]
             ELSE [proc EXCEPT ![p].pc = "removed", ![p].failed = @ \/ busy]
    BY DEF RemoveNetwork, BusyNet
  <2> HIDE DEF busy
  <2> QED BY <2>1 DEF NextRuntime, Rt, Typed, TypeOK
<1> HIDE DEF d
<1>6. proc' \in [Procs -> Commands] /\ proc'[p] = d /\ \A q \in Procs \ {p} : proc'[q] = proc[q]
  BY <1>4, <1>5 DEF Typed, TypeOK
<1> QED BY <1>1, <1>6 DEF d

\* What the two steps about the volumes do to the commands: p becomes d.
VolumesMove(p, d) ==
  /\ proc' \in [Procs -> Commands] /\ proc'[p] = d
  /\ \A q \in Procs \ {p} : proc'[q] = proc[q]
  /\ d.pc \in {"rmNames", "rmNet"}
  /\ d.op = proc[p].op /\ d.asked = proc[p].asked /\ d.rts = proc[p].rts /\ d.k = proc[p].k
  /\ d.alone = proc[p].alone /\ d.calm = proc[p].calm
  /\ proc[p].failed => d.failed

\* The command c after such a step.
Turned(c, pc, seen, failed) == [c EXCEPT !.pc = pc, !.seen = seen, !.failed = failed]
Turns(p, pc, seen, failed) ==
  proc' = [proc EXCEPT ![p] = Turned(proc[p], pc, seen, failed)] /\ (proc[p].failed => failed)

LEMMA VolumesCommand ==
    ASSUME Typed, NEW p \in Procs, NEW pc \in {"rmNames", "rmNet"}, NEW seen \in SUBSET Mem,
           NEW failed \in BOOLEAN, Turns(p, pc, seen, failed)
    PROVE  \E d \in Commands : VolumesMove(p, d) /\ d.pc = pc /\ d.seen = seen
<1> DEFINE d == Turned(proc[p], pc, seen, failed)
<1>1. proc \in [Procs -> Commands] /\ proc[p] \in Commands
  BY DEF Typed, TypeOK
<1>2. /\ d \in Commands /\ d.pc = pc /\ d.seen = seen /\ d.failed = failed
      /\ d.op = proc[p].op /\ d.asked = proc[p].asked /\ d.rts = proc[p].rts
      /\ d.k = proc[p].k /\ d.alone = proc[p].alone /\ d.calm = proc[p].calm
  BY <1>1 DEF Commands, RemovePcs, Turned
<1>3. proc' = [proc EXCEPT ![p] = d] /\ (proc[p].failed => failed)
  BY DEF Turns
<1> HIDE DEF d
<1>4. /\ proc' \in [Procs -> Commands] /\ proc'[p] = d
      /\ \A q \in Procs \ {p} : proc'[q] = proc[q]
  BY <1>1, <1>2, <1>3
<1> QED BY <1>2, <1>3, <1>4 DEF VolumesMove

LEMMA ListVolumesFacts ==
    ASSUME Typed, NEW p \in Procs, ListVolumes(p)
    PROVE  /\ UNCHANGED rt
           /\ \E d \in Commands : /\ VolumesMove(p, d) /\ d.pc = "rmNames"
                                  /\ d.seen = {i \in Mem : vol[Rt(p)][i] = "own"}
<1> DEFINE seen == {i \in Mem : vol[Rt(p)][i] = "own"}
<1>1. proc[p].failed \in BOOLEAN /\ proc[p] \in Commands
  BY DEF Typed, TypeOK, Commands
<1>2. proc' = [proc EXCEPT ![p].pc = "rmNames", ![p].seen = seen]
  BY DEF ListVolumes
<1>3. seen \in SUBSET Mem
  OBVIOUS
<1> HIDE DEF seen
<1>4. Turns(p, "rmNames", seen, proc[p].failed)
  BY <1>1, <1>2 DEF Typed, TypeOK, Commands, Turned, Turns
<1>5. \E d \in Commands : VolumesMove(p, d) /\ d.pc = "rmNames" /\ d.seen = seen
  BY <1>1, <1>3, <1>4, VolumesCommand
<1>6. UNCHANGED rt
  BY DEF ListVolumes
<1> QED BY <1>5, <1>6 DEF seen

\* Only volumes on the list go, and none that is in use.
LEMMA RemoveVolumesFacts ==
    ASSUME Typed, NEW p \in Procs, RemoveVolumes(p)
    PROVE  /\ ctr' = ctr /\ net' = net
           /\ vol' \in [R -> [Mem -> VolumeKinds]]
           /\ \A s \in R, j \in Mem :
                vol'[s][j] \in IF s = Rt(p) /\ j \in proc[p].seen THEN Left(s, j)
                                                              ELSE {vol[s][j]}
           /\ \E d \in Commands : VolumesMove(p, d) /\ d.pc = "rmNet" /\ d.seen = {}
<1>1. PICK left \in [Mem -> VolumeKinds] :
        /\ \A i \in Mem : left[i] \in IF i \in proc[p].seen THEN Left(Rt(p), i)
                                                          ELSE {vol[Rt(p)][i]}
        /\ vol' = [vol EXCEPT ![Rt(p)] = left]
        /\ proc' = [proc EXCEPT ![p].pc = "rmNet", ![p].seen = {},
                      ![p].failed = @ \/ \E i \in proc[p].seen : left[i] # "none"]
  BY DEF RemoveVolumes, VolumeKinds
<1>2. Rt(p) \in R
  BY AtRuntime DEF At, RemoveVolumes
<1>3. vol' \in [R -> [Mem -> VolumeKinds]] /\ vol'[Rt(p)] = left
      /\ \A s \in R \ {Rt(p)} : vol'[s] = vol[s]
  BY <1>1, <1>2 DEF Typed, TypeOK, VolumeKinds
<1>4. \A s \in R, j \in Mem :
        vol'[s][j] \in IF s = Rt(p) /\ j \in proc[p].seen THEN Left(s, j) ELSE {vol[s][j]}
  BY <1>1, <1>3
<1> DEFINE kept == \E i \in proc[p].seen : left[i] # "none"
           failed == proc[p].failed \/ kept
<1>5. failed \in BOOLEAN /\ (proc[p].failed => failed)
  BY DEF Typed, TypeOK, Commands
<1>6. proc' = [proc EXCEPT ![p].pc = "rmNet", ![p].seen = {}, ![p].failed = @ \/ kept]
  BY <1>1
<1> HIDE DEF kept
<1>7. /\ Turns(p, "rmNet", {}, failed)
      /\ {} \in SUBSET Mem
  BY <1>5, <1>6 DEF Typed, TypeOK, Commands, Turned, Turns
<1> HIDE DEF failed
<1>8. \E d \in Commands : VolumesMove(p, d) /\ d.pc = "rmNet" /\ d.seen = {}
  BY <1>5, <1>7, VolumesCommand
<1> QED BY <1>3, <1>4, <1>8 DEF RemoveVolumes

LEMMA RemoveMoves ==
    ASSUME Typed, NEW p \in Procs, RemoveStep(p)
    PROVE  Moves(p)
<1>1. CASE ListContainers(p) \/ RemoveContainers(p)
  <2>1. /\ ~At(p, "idle") /\ SameCommand(proc[p].pc, "rmIDs") /\ SameCommand(proc[p].pc, "rmVols")
        /\ Goto(p, "rmIDs") \/ Goto(p, "rmVols")
    BY <1>1 DEF ListContainers, RemoveContainers, At, SameCommand, RemovePcs
  <2> QED BY <2>1, GotoMoves
<1>2. CASE ListVolumes(p) \/ RemoveVolumes(p)
  <2>1. /\ ~At(p, "idle") /\ proc[p].pc # "rmNet"
        /\ proc[p] \in Commands /\ WellFormed(proc[p])
    BY <1>2, AtRuntime DEF ListVolumes, RemoveVolumes, At, Typed
  <2>2. PICK d \in Commands : VolumesMove(p, d)
    BY <1>2, ListVolumesFacts, RemoveVolumesFacts
  <2>3. WellFormed(d)
    <3>1. proc[p].pc \in RemovePcs
      BY <1>2 DEF ListVolumes, RemoveVolumes, At, RemovePcs
    <3> QED BY <2>1, <2>2, <3>1 DEF WellFormed, VolumesMove, UpPcs, RemovePcs, ReplacePcs
  <2> QED
    BY <2>1, <2>2, <2>3, CommandMoves DEF VolumesMove
<1>3. CASE RemoveNetwork(p)
  <2> DEFINE failed == proc[p].failed \/ BusyNet(Rt(p))
             d == NextRuntime(proc[p], failed)
  <2>1. /\ ~At(p, "idle") /\ proc' \in [Procs -> Commands] /\ proc'[p] = d
        /\ \A q \in Procs \ {p} : proc'[q] = proc[q]
    BY <1>3, RemoveNetworkFacts
  <2>2. proc[p] \in Commands /\ WellFormed(proc[p]) /\ proc[p].pc = "rmNet"
    BY <1>3, <2>1, AtRuntime DEF Typed, RemoveNetwork, At
  <2>3. failed \in BOOLEAN /\ (proc[p].failed => failed)
    BY <2>2 DEF BusyNet, Commands
  <2> HIDE DEF failed
  <2>4. /\ d \in Commands /\ WellFormed(d) /\ d.pc # "idle" /\ d.failed = failed
        /\ d.op = proc[p].op /\ d.asked = proc[p].asked
        /\ d.alone = proc[p].alone /\ d.calm = proc[p].calm
    BY <2>2, <2>3, NextRuntimeFacts
  <2> HIDE DEF d
  <2> QED BY <2>1, <2>2, <2>3, <2>4, CommandMoves
<1>4. CASE Removed(p)
  BY <1>4, EndMoves DEF Removed, At
<1> QED BY <1>1, <1>2, <1>3, <1>4 DEF RemoveStep

-----------------------------------------------------------------------------
(* ... and so is every failure *)

Failure(p) ==
  \/ UpFails(p) \/ UndoFails(p) \/ CheckFails(p) \/ RunFailsLate(p)
  \/ RemoveFails(p) \/ Killed(p)

\* A fault leaves no command calm, and a removal that it hits has failed.  None
\* of them takes a command to its network or to a container.
LEMMA FailureMoves ==
    ASSUME Typed, NEW p \in Procs, Failure(p)
    PROVE  /\ Moves(p)
           /\ \A q \in Procs : ~proc'[q].calm
           /\ proc[p].op = "down" /\ proc'[p].pc # "idle" => proc'[p].failed
           /\ proc[p].pc \in {"net", "removed"} => proc'[p].pc = "idle"
           /\ proc'[p].pc \in {"idle", "undo", "undoLook", "volume", "rmCtrs", "rmVols", "rmNet",
                             "removed"}
<1> DEFINE b == proc[p]
<1>1. proc \in [Procs -> Commands] /\ b \in Commands /\ WellFormed(b)
  BY DEF Typed, TypeOK
<1>2. Idle \in Commands /\ WellFormed(Idle) /\ Idle.pc = "idle"
  BY DEF Idle, Commands, WellFormed, UpPcs, RemovePcs, ReplacePcs
<1>3. ASSUME ~At(p, "idle"), NEW pc, SameCommand(b.pc, pc), b.pc \in UpPcs,
             proc' = Shaken([proc EXCEPT ![p] = [b EXCEPT !.pc = pc]])
      PROVE  /\ Moves(p) /\ (\A q \in Procs : ~proc'[q].calm)
             /\ b.op # "down" /\ proc'[p].pc = pc
  <2> DEFINE c == [b EXCEPT !.pc = pc]
  <2>1. c \in Commands /\ WellFormed(c)
    BY <1>1, <1>3, Continues DEF At
  <2>2. /\ c.pc = pc /\ c.op = b.op /\ c.asked = b.asked /\ c.alone = b.alone
        /\ c.calm = b.calm /\ c.failed = b.failed /\ c.rts = b.rts
    BY <1>1 DEF Commands
  <2>3. pc # "idle"
    BY <1>3 DEF SameCommand, UpPcs, RemovePcs, ReplacePcs
  <2>4. b.op # "down"
    BY <1>1, <1>3 DEF WellFormed
  <2> HIDE DEF c
  <2>5. proc' = Shaken([proc EXCEPT ![p] = c])
    BY <1>3 DEF c
  <2>6. proc'[p] = [c EXCEPT !.calm = FALSE]
    BY <1>1, <2>1, <2>5, ShakenFacts
  <2>7. proc'[p].pc = pc
    BY <2>1, <2>2, <2>6 DEF Commands
  <2> QED BY <1>3, <2>1, <2>2, <2>3, <2>4, <2>5, <2>7, ShakenMoves
<1>4. ASSUME ~At(p, "idle"), proc' = Shaken([proc EXCEPT ![p] = Idle])
      PROVE  Moves(p) /\ (\A q \in Procs : ~proc'[q].calm) /\ proc'[p].pc = "idle"
  <2>1. Moves(p) /\ (\A q \in Procs : ~proc'[q].calm)
    BY <1>2, <1>4, ShakenMoves
  <2>2. proc'[p] = [Idle EXCEPT !.calm = FALSE]
    BY <1>1, <1>2, <1>4, ShakenFacts
  <2>3. proc'[p].pc = "idle"
    BY <2>2 DEF Idle
  <2> QED BY <2>1, <2>3
<1>5. CASE UpFails(p)
  <2>1. /\ b.pc \in {"net", "volume", "run", "health"}
        /\ proc' = Shaken([proc EXCEPT ![p] = IF b.pc = "net" THEN Idle
              ELSE [b EXCEPT !.pc = IF b.pc = "run" THEN "undo" ELSE "rmCtrs"]])
    BY <1>1, <1>5 DEF UpFails
  <2>2. ~At(p, "idle") /\ b.pc \in UpPcs
        /\ SameCommand(b.pc, "undo") /\ SameCommand(b.pc, "rmCtrs")
    BY <2>1 DEF At, UpPcs, RemovePcs, SameCommand
  <2>3. CASE b.pc = "net"
    BY <2>1, <2>2, <2>3, <1>4
  <2>4. CASE b.pc = "run"
    <3>1. /\ Moves(p) /\ (\A q \in Procs : ~proc'[q].calm)
          /\ b.op # "down" /\ proc'[p].pc = "undo"
      BY <2>1, <2>2, <2>4, <1>3
    <3> QED BY <2>4, <3>1
  <2>5. CASE b.pc \in {"volume", "health"}
    <3>1. /\ Moves(p) /\ (\A q \in Procs : ~proc'[q].calm)
          /\ b.op # "down" /\ proc'[p].pc = "rmCtrs"
      BY <2>1, <2>2, <2>5, <1>3
    <3> QED BY <2>5, <3>1
  <2> QED BY <2>1, <2>3, <2>4, <2>5
<1>10. CASE UndoFails(p)
  <2> DEFINE pc == IF b.pc \in {"undo", "undoCtr"} THEN "undoLook" ELSE "rmCtrs"
  <2>1. /\ b.pc \in {"undo", "undoCtr", "undoLook", "undoVol"} /\ b.pc \in UpPcs
        /\ ~At(p, "idle") /\ SameCommand(b.pc, pc) /\ pc \in {"undoLook", "rmCtrs"}
    BY <1>10 DEF UndoFails, At, UpPcs, RemovePcs, SameCommand
  <2>2. proc' = Shaken([proc EXCEPT ![p] = [b EXCEPT !.pc = pc]])
    BY <1>10 DEF UndoFails
  <2> HIDE DEF pc
  <2>3. /\ Moves(p) /\ (\A q \in Procs : ~proc'[q].calm)
        /\ b.op # "down" /\ proc'[p].pc = pc
    BY <2>1, <2>2, <1>3
  <2> QED BY <2>1, <2>3
<1>6. CASE CheckFails(p)
  <2>1. /\ b.pc = "check" /\ ~At(p, "idle") /\ b.pc \in UpPcs
        /\ SameCommand(b.pc, "volume")
    BY <1>6 DEF CheckFails, At, UpPcs, SameCommand
  <2>2. proc' = Shaken([proc EXCEPT ![p] = [b EXCEPT !.pc = "volume"]])
    BY <1>6 DEF CheckFails
  <2>3. /\ Moves(p) /\ (\A q \in Procs : ~proc'[q].calm)
        /\ b.op # "down" /\ proc'[p].pc = "volume"
    BY <2>1, <2>2, <1>3
  <2> QED BY <2>1, <2>3
<1>7. CASE RunFailsLate(p)
  <2>1. /\ b.pc = "run" /\ ~At(p, "idle") /\ b.pc \in UpPcs
        /\ SameCommand(b.pc, "undo")
    BY <1>7 DEF RunFailsLate, At, UpPcs, SameCommand
  <2>2. proc' = Shaken([proc EXCEPT ![p] = [b EXCEPT !.pc = "undo"]])
    BY <1>7 DEF RunFailsLate
  <2>3. /\ Moves(p) /\ (\A q \in Procs : ~proc'[q].calm)
        /\ b.op # "down" /\ proc'[p].pc = "undo"
    BY <2>1, <2>2, <1>3
  <2> QED BY <2>1, <2>3
<1>8. CASE RemoveFails(p)
  <2> DEFINE c == CASE b.pc \in {"rmCtrs", "rmIDs"} -> [b EXCEPT !.pc = "rmVols", !.failed = TRUE]
                    [] b.pc \in {"rmVols", "rmNames"} ->
                         [b EXCEPT !.pc = "rmNet", !.seen = {}, !.failed = TRUE]
                    [] b.pc = "rmNet" /\ b.rts # {Rt(p)} ->
                         [b EXCEPT !.pc = "rmCtrs", !.rts = b.rts \ {Rt(p)}, !.failed = TRUE]
                    [] OTHER -> [b EXCEPT !.pc = "removed", !.failed = TRUE]
  <2>1. b.pc \in {"rmCtrs", "rmIDs", "rmVols", "rmNames", "rmNet"} /\ ~At(p, "idle")
    BY <1>8 DEF RemoveFails, At
  <2>2. proc' = Shaken([proc EXCEPT ![p] = c])
    BY <1>1, <1>8 DEF RemoveFails
  <2>3. /\ c \in Commands /\ WellFormed(c) /\ c.failed
        /\ c.pc \in {"rmCtrs", "rmVols", "rmNet", "removed"}
        /\ c.op = b.op /\ c.asked = b.asked /\ c.alone = b.alone /\ c.calm = b.calm
        /\ b.pc # "rmNet" => c.rts = b.rts
    <3>1. CASE b.pc = "rmNet"
      <4>1. c = NextRuntime(b, TRUE)
        BY <3>1 DEF NextRuntime, Rt
      <4> HIDE DEF c
      <4> QED BY <1>1, <3>1, <4>1, NextRuntimeFacts
    <3>2. ASSUME b.pc \in {"rmCtrs", "rmIDs", "rmVols", "rmNames"},
                 NEW pc \in {"rmVols", "rmNet"}, NEW seen \in SUBSET Mem,
                 c = Turned(b, pc, seen, TRUE)
          PROVE  <2>3
      <4> DEFINE e == [b EXCEPT !.pc = pc]
      <4>1. SameCommand(b.pc, pc) /\ b.pc # "idle"
        BY <3>2 DEF SameCommand, RemovePcs
      <4>2. e \in Commands /\ WellFormed(e)
        BY <1>1, <4>1, Continues
      <4>3. /\ c.pc = e.pc /\ c.op = e.op /\ c.rts = e.rts /\ c.asked = e.asked /\ c.k = e.k
            /\ c.alone = b.alone /\ c.calm = b.calm /\ c.failed = TRUE /\ c.pc = pc
            /\ c.op = b.op /\ c.rts = b.rts /\ c.asked = b.asked /\ c \in Commands
        BY <1>1, <3>2 DEF Commands, RemovePcs, Turned
      <4> HIDE DEF c, e
      <4>4. WellFormed(c)
        BY <4>2, <4>3 DEF WellFormed
      <4> QED BY <3>2, <4>3, <4>4
    <3>3. CASE b.pc \in {"rmCtrs", "rmIDs"}
      <4>1. c = [b EXCEPT !.pc = "rmVols", !.failed = TRUE] /\ b.seen \in SUBSET Mem
        BY <1>1, <3>3 DEF Commands
      <4>2. c = Turned(b, "rmVols", b.seen, TRUE)
        BY <1>1, <4>1 DEF Commands, Turned
      <4> HIDE DEF c
      <4> QED BY <3>3, <4>1, <4>2, <3>2
    <3>4. CASE b.pc \in {"rmVols", "rmNames"}
      <4>1. c = Turned(b, "rmNet", {}, TRUE) /\ {} \in SUBSET Mem
        BY <3>4 DEF Turned
      <4> HIDE DEF c
      <4> QED BY <3>4, <4>1, <3>2
    <3> QED BY <2>1, <3>1, <3>3, <3>4
  <2> HIDE DEF c
  <2>4. Moves(p) /\ \A q \in Procs : ~proc'[q].calm
    BY <2>1, <2>2, <2>3, ShakenMoves
  <2>5. proc'[p] = [c EXCEPT !.calm = FALSE]
    BY <1>1, <2>2, <2>3, ShakenFacts
  <2>6. proc'[p].failed /\ proc'[p].pc = c.pc
    BY <2>3, <2>5 DEF Commands
  <2> QED BY <2>1, <2>3, <2>4, <2>6
<1>9. CASE Killed(p)
  BY <1>9, <1>4 DEF Killed
<1> QED BY <1>5, <1>6, <1>7, <1>8, <1>9, <1>10 DEF Failure

-----------------------------------------------------------------------------
(* Beginning a command *)

Start(p) ==
  \/ \E S \in SUBSET R : StartUp(p, S) \/ StartDown(p, S)
  \/ \E r \in R, i \in Mem : StartReplace(p, r, i)

\* A new command is alone when the others are idle, and nobody else is.
Began(p) ==
  /\ At(p, "idle") /\ Others(p) /\ UNCHANGED rt
  /\ disturbed' \in {disturbed, disturbed \ {p}}
  /\ proc' \in [Procs -> Commands] /\ WellFormed(proc'[p])
  /\ proc'[p].pc \in {"net", "rmCtrs", "terminate"}
  /\ proc'[p].op = "up" => proc'[p].pc = "net"
  /\ proc'[p].asked = proc'[p].rts
  /\ proc'[p].alone => \A y \in Procs \ {p} : At(y, "idle")
  /\ \A q \in Procs \ {p} : ~proc'[q].alone

LEMMA StartFacts ==
    ASSUME Typed, NEW p \in Procs, Start(p)
    PROVE  Began(p)
<1>1. ASSUME NEW op, NEW pc, NEW rts \in SUBSET R, NEW i \in Mem, rts # {},
             <<op, pc>> \in {<<"up", "net">>, <<"down", "rmCtrs">>, <<"replace", "terminate">>},
             op = "up" => rts = {First(rts)},
             Begin(p, op, pc, rts, i)
      PROVE  /\ Others(p)
             /\ proc' \in [Procs -> Commands] /\ WellFormed(proc'[p])
             /\ proc'[p].pc \in {"net", "rmCtrs", "terminate"}
             /\ proc'[p].op = "up" => proc'[p].pc = "net"
             /\ proc'[p].asked = proc'[p].rts
             /\ proc'[p].alone => \A y \in Procs \ {p} : At(y, "idle")
             /\ \A q \in Procs \ {p} : ~proc'[q].alone
  <2> DEFINE alone == \A y \in Procs \ {p} : At(y, "idle")
             d == NewCommand(p, op, pc, rts, i)
  <2>1. op \in {"up", "down", "replace"} /\ pc \in {"net", "rmCtrs", "terminate"}
        /\ (op = "up" <=> pc = "net") /\ (op = "down" <=> pc = "rmCtrs")
    BY <1>1
  <2>2. /\ proc' \in [Procs -> Commands] /\ Others(p) /\ proc'[p] = d
        /\ \A q \in Procs \ {p} : ~proc'[q].alone
    <3>1. proc \in [Procs -> Commands]
      BY DEF Typed, TypeOK
    <3>2. Begin(p, op, pc, rts, i)
      BY <1>1
    <3> QED BY <2>1, <3>1, <3>2, BeginFacts
  <2>3. /\ d.op = op /\ d.pc = pc /\ d.asked = rts /\ d.rts = rts /\ d.k = i
        /\ d.alone = alone
    BY DEF NewCommand
  <2> HIDE DEF d
  <2>4. WellFormed(d)
    BY <1>1, <2>1, <2>3 DEF WellFormed, UpPcs, RemovePcs, ReplacePcs
  <2>5. d.alone => alone
    BY <2>3
  <2> QED BY <2>1, <2>2, <2>3, <2>4, <2>5
<1>2. ASSUME NEW S \in SUBSET R, StartUp(p, S)
      PROVE  Began(p)
  <2>1. S # {} /\ Begin(p, "up", "net", {First(S)}, 1)
    BY <1>2 DEF StartUp, Probe
  <2>2. First(S) \in R
    BY <2>1, FirstIsMember
  <2>3. {First(S)} \in SUBSET R /\ {First(S)} # {}
    BY <2>2
  <2>4. {First(S)} = {First({First(S)})}
    BY <2>3, FirstIsMember
  <2>5. 1 \in Mem
    BY LocalAssumption DEF Mem
  <2> QED BY <1>1, <1>2, <2>1, <2>3, <2>4, <2>5 DEF StartUp, Began
<1>3. ASSUME NEW S \in SUBSET R, StartDown(p, S)
      PROVE  Began(p)
  <2>1. S # {} /\ 1 \in Mem
    BY <1>3, LocalAssumption DEF StartDown, Probe, Mem
  <2> QED BY <1>1, <1>3, <2>1 DEF StartDown, Began
<1>4. ASSUME NEW r \in R, NEW i \in Mem, StartReplace(p, r, i)
      PROVE  Began(p)
  BY <1>1, <1>4 DEF StartReplace, Began
<1> QED BY <1>2, <1>3, <1>4 DEF Start

-----------------------------------------------------------------------------
(* What a step does to containers and volumes *)

LEMMA SetCtrFacts ==
    ASSUME Typed, NEW r \in R, NEW i \in Mem, NEW c \in Containers, SetCtr(r, i, c)
    PROVE  /\ ctr' \in [R -> [Mem -> Containers]]
           /\ \A s \in R, j \in Mem :
                ctr'[s][j] = IF s = r /\ j = i THEN c ELSE ctr[s][j]
BY DEF Typed, TypeOK, SetCtr

LEMMA SetVolFacts ==
    ASSUME Typed, NEW r \in R, NEW i \in Mem, NEW v \in VolumeKinds, SetVol(r, i, v)
    PROVE  /\ vol' \in [R -> [Mem -> VolumeKinds]]
           /\ \A s \in R, j \in Mem :
                vol'[s][j] = IF s = r /\ j = i THEN v ELSE vol[s][j]
BY DEF Typed, TypeOK, SetVol, VolumeKinds

\* A container has a data volume, and only the cluster's own are on a list.
Backed ==
  \A r \in R, i \in Mem : IF Own(ctr[r][i]) THEN vol[r][i] # "none" ELSE ctr[r][i].listed = {}

\* What each step of process p may do to the runtimes.
Touches(p) ==
  /\ ctr' \in [R -> [Mem -> Containers]]
  /\ vol' \in [R -> [Mem -> VolumeKinds]]
  /\ Backed'
  /\ \A r \in R, i \in Mem :
       /\ ctr[r][i].kind = "foreign" /\ ctr'[r][i] # ctr[r][i] =>
            proc[p].pc \in {"undoCtr", "rmOld", "rmExited"} /\ r = Rt(p) /\ i = K(p)
       /\ vol[r][i] = "foreign" /\ vol'[r][i] # "foreign" =>
            /\ r = Rt(p)
            /\ \/ proc[p].pc = "undoVol" /\ i = K(p)
               \/ proc[p].pc = "rmNames" /\ i \in proc[p].seen
       /\ vol[r][i] # "plain" /\ vol'[r][i] = "plain" =>
            /\ proc[p].pc \in {"run", "relaunch"} /\ r = Rt(p) /\ i = K(p)
            /\ vol[r][i] = "none"
       /\ Own(ctr[r][i]) /\ ~Own(ctr'[r][i]) =>
            /\ proc[p].pc \in {"undoCtr", "rmIDs", "rmOld", "rmExited"} /\ r = Rt(p)

LEMMA Untouched ==
    ASSUME Typed, Backed, NEW p \in Procs, UNCHANGED <<ctr, vol>>
    PROVE  Touches(p)
BY DEF Typed, TypeOK, Touches, Backed, VolumeKinds

LEMMA LaunchTouches ==
    ASSUME Typed, Backed, NEW p \in Procs, proc[p].pc \in {"run", "relaunch"},
           Launchable(p), Launch(p)
    PROVE  Touches(p)
<1> DEFINE r == Rt(p)
           i == K(p)
           c == [kind |-> "running", listed |-> {}]
           v == IF vol[r][i] = "none" THEN "plain" ELSE vol[r][i]
<1>1. r \in R /\ i \in Mem
  BY AtRuntime DEF At
<1>2. ctr[r][i].kind = "none"
  BY DEF Launchable, NoCtr
<1>3. c \in Containers /\ c.kind = "running"
  BY DEF Containers
<1>4. vol[r][i] \in VolumeKinds /\ v \in VolumeKinds
  <2> HIDE DEF r, i
  <2> QED BY <1>1 DEF Typed, TypeOK, VolumeKinds
<1>5. SetCtr(r, i, c) /\ SetVol(r, i, v)
  BY DEF Launch
<1>6. /\ ctr' \in [R -> [Mem -> Containers]]
      /\ \A s \in R, j \in Mem : ctr'[s][j] = IF s = r /\ j = i THEN c ELSE ctr[s][j]
  <2> HIDE DEF r, i, c
  <2> QED BY <1>1, <1>3, <1>5, SetCtrFacts
<1>7. /\ vol' \in [R -> [Mem -> VolumeKinds]]
      /\ \A s \in R, j \in Mem : vol'[s][j] = IF s = r /\ j = i THEN v ELSE vol[s][j]
  <2> HIDE DEF r, i, v
  <2> QED BY <1>1, <1>4, <1>5, SetVolFacts
<1> HIDE DEF r, i, c
<1> QED BY <1>2, <1>3, <1>6, <1>7 DEF Touches, Backed, Own, r, i

\* A removal by the name takes whatever container has it.
LEMMA ByName ==
    ASSUME Typed, Backed, NEW p \in Procs, proc[p].pc \in {"undoCtr", "rmOld", "rmExited"},
           SetCtr(Rt(p), K(p), NoCtr), vol' = vol
    PROVE  Touches(p)
<1> DEFINE r == Rt(p)
           i == K(p)
<1>1. NoCtr \in Containers /\ ~Own(NoCtr) /\ NoCtr.listed = {}
  BY DEF NoCtr, Containers, Own
<1>2. r \in R /\ i \in Mem
  BY AtRuntime DEF At
<1>3. /\ ctr' \in [R -> [Mem -> Containers]]
      /\ \A s \in R, j \in Mem : ctr'[s][j] = IF s = r /\ j = i THEN NoCtr ELSE ctr[s][j]
  <2>1. SetCtr(r, i, NoCtr)
    OBVIOUS
  <2> HIDE DEF r, i
  <2> QED BY <1>1, <1>2, <2>1, SetCtrFacts
<1>4. vol' \in [R -> [Mem -> VolumeKinds]]
  BY DEF Typed, TypeOK, VolumeKinds
<1>5. Backed'
  <2> HIDE DEF r, i
  <2> QED BY <1>1, <1>3 DEF Backed
<1>6. \A s \in R, j \in Mem : ctr'[s][j] # ctr[s][j] => s = Rt(p) /\ j = K(p)
  BY <1>3
<1> HIDE DEF r, i
<1> QED BY <1>3, <1>4, <1>5, <1>6 DEF Touches

LEMMA UpTouches ==
    ASSUME Typed, Backed, NEW p \in Procs, UpStep(p)
    PROVE  Touches(p)
<1> DEFINE r == Rt(p)
           i == K(p)
<1>1. CASE CreateNetwork(p) \/ CreateCheck(p) \/ CreateUndo(p) \/ UndoLook(p) \/ Health(p)
  BY <1>1, Untouched DEF CreateNetwork, CreateCheck, CreateUndo, UndoLook, Health, rt
<1>2. CASE CreateVolume(p)
  <2> DEFINE v == IF vol[r][i] = "none" THEN "own" ELSE vol[r][i]
  <2>1. r \in R /\ i \in Mem
    BY <1>2, AtRuntime DEF At, CreateVolume
  <2>2. ctr' = ctr /\ SetVol(r, i, v)
    BY <1>2 DEF CreateVolume
  <2> HIDE DEF r, i
  <2>3. v \in VolumeKinds
    BY <2>1 DEF Typed, TypeOK, VolumeKinds
  <2>4. /\ vol' \in [R -> [Mem -> VolumeKinds]]
        /\ \A s \in R, j \in Mem : vol'[s][j] = IF s = r /\ j = i THEN v ELSE vol[s][j]
    <3> HIDE DEF v
    <3> QED BY <2>1, <2>2, <2>3, SetVolFacts
  <2> QED BY <2>2, <2>4 DEF Touches, Backed, Typed, TypeOK
<1>3. CASE CreateRun(p)
  BY <1>3, Untouched, LaunchTouches DEF CreateRun, At
<1>4. CASE UndoContainer(p)
  BY <1>4, ByName DEF UndoContainer, At
<1>5. CASE UndoVolume(p)
  <2>1. r \in R /\ i \in Mem /\ proc[p].pc = "undoVol"
    BY <1>5, AtRuntime DEF At, UndoVolume
  <2>2. PICK v \in Left(r, i) : SetVol(r, i, v)
    BY <1>5 DEF UndoVolume
  <2>3. ctr' = ctr
    BY <1>5 DEF UndoVolume
  <2>4. vol[r][i] \in VolumeKinds
    <3> HIDE DEF r, i
    <3> QED BY <2>1 DEF Typed, TypeOK, VolumeKinds
  <2> HIDE DEF r, i
  <2>5. v \in VolumeKinds
    BY <2>4 DEF Left, VolumeKinds
  <2>6. /\ vol' \in [R -> [Mem -> VolumeKinds]]
        /\ \A s \in R, j \in Mem : vol'[s][j] = IF s = r /\ j = i THEN v ELSE vol[s][j]
    BY <2>1, <2>2, <2>5, SetVolFacts
  <2>7. (Own(ctr[r][i]) => v = vol[r][i]) /\ (v = "plain" => vol[r][i] = "plain")
    BY DEF Left
  <2>8. Backed'
    BY <2>3, <2>6, <2>7 DEF Backed
  <2>9. Touches(p)
    BY <2>1, <2>3, <2>6, <2>7, <2>8 DEF Touches, Typed, TypeOK, r, i
  <2> QED BY <2>9
<1> QED BY <1>1, <1>2, <1>3, <1>4, <1>5 DEF UpStep

\* A container that is put on a list is the same container.
LEMMA ListContainersFacts ==
    ASSUME Typed, NEW p \in Procs, ListContainers(p)
    PROVE  /\ vol' = vol /\ net' = net
           /\ ctr' \in [R -> [Mem -> Containers]]
           /\ \A s \in R, j \in Mem :
                /\ ctr'[s][j].kind = ctr[s][j].kind
                /\ ~Own(ctr[s][j]) => ctr'[s][j] = ctr[s][j]
                /\ s = Rt(p) /\ Own(ctr[s][j]) => p \in ctr'[s][j].listed
<1> DEFINE r == Rt(p)
           L(c) == IF Own(c) THEN OnList(c, p) ELSE c
<1>1. r \in R
  BY AtRuntime DEF At, ListContainers
<1>2. vol' = vol /\ net' = net /\ ctr' = [ctr EXCEPT ![r] = [i \in Mem |-> L(ctr[r][i])]]
  BY DEF ListContainers
<1>3. ASSUME NEW c \in Containers
      PROVE  /\ L(c) \in Containers /\ L(c).kind = c.kind
             /\ ~Own(c) => L(c) = c
             /\ Own(c) => p \in L(c).listed
  BY DEF Containers, OnList
<1> HIDE DEF r, L
<1>4. ctr \in [R -> [Mem -> Containers]]
  BY DEF Typed, TypeOK
<1>5. \A s \in R, j \in Mem : ctr'[s][j] = IF s = r THEN L(ctr[s][j]) ELSE ctr[s][j]
  BY <1>1, <1>2, <1>4
<1>6. ctr' \in [R -> [Mem -> Containers]]
  BY <1>1, <1>2, <1>3, <1>4
<1> QED BY <1>2, <1>3, <1>4, <1>5, <1>6 DEF r

LEMMA RemoveContainersFacts ==
    ASSUME Typed, NEW p \in Procs, RemoveContainers(p)
    PROVE  /\ vol' = vol /\ net' = net
           /\ ctr' \in [R -> [Mem -> Containers]]
           /\ \A s \in R, j \in Mem :
                ctr'[s][j] = IF s = Rt(p) /\ p \in ctr[s][j].listed THEN NoCtr ELSE ctr[s][j]
<1>1. Rt(p) \in R
  BY AtRuntime DEF At, RemoveContainers
<1>2. NoCtr \in Containers
  BY DEF NoCtr, Containers
<1>3. vol' = vol /\ net' = net
      /\ ctr' = [ctr EXCEPT ![Rt(p)] =
             [i \in Mem |-> IF p \in ctr[Rt(p)][i].listed THEN NoCtr ELSE ctr[Rt(p)][i]]]
  BY DEF RemoveContainers
<1> QED BY <1>1, <1>2, <1>3 DEF Typed, TypeOK

LEMMA RemoveTouches ==
    ASSUME Typed, Backed, NEW p \in Procs, RemoveStep(p)
    PROVE  Touches(p)
<1>1. CASE ListContainers(p)
  <2>1. \A r \in R, i \in Mem : /\ Own(ctr'[r][i]) <=> Own(ctr[r][i])
                                /\ ~Own(ctr[r][i]) => ctr'[r][i] = ctr[r][i]
                                /\ ctr[r][i].kind = "foreign" => ~Own(ctr[r][i])
    BY <1>1, ListContainersFacts DEF Own
  <2>2. vol \in [R -> [Mem -> VolumeKinds]]
    BY DEF Typed, TypeOK, VolumeKinds
  <2>3. vol' = vol /\ ctr' \in [R -> [Mem -> Containers]]
    BY <1>1, ListContainersFacts
  <2>4. Backed'
    BY <2>1, <2>3 DEF Backed, Own
  <2> QED BY <2>1, <2>2, <2>3, <2>4 DEF Touches, Own
<1>2. CASE RemoveContainers(p)
  <2>1. proc[p].pc = "rmIDs"
    BY <1>2 DEF RemoveContainers, At
  <2>2. ~Own(NoCtr) /\ NoCtr.listed = {}
    BY DEF NoCtr, Own
  <2>3. vol \in [R -> [Mem -> VolumeKinds]]
    BY DEF Typed, TypeOK, VolumeKinds
  <2>4. \A r \in R, i \in Mem : ctr[r][i].kind = "foreign" => ctr[r][i].listed = {}
    BY DEF Backed, Own
  <2> QED BY <1>2, <2>1, <2>2, <2>3, <2>4, RemoveContainersFacts DEF Touches, Backed
<1>3. CASE ListVolumes(p) \/ RemoveNetwork(p) \/ Removed(p)
  BY <1>3, Untouched DEF ListVolumes, RemoveNetwork, Removed, rt
<1>4. CASE RemoveVolumes(p)
  <2>1. proc[p].pc = "rmNames"
    BY <1>4 DEF RemoveVolumes, At
  <2>2. /\ ctr' = ctr
        /\ vol' \in [R -> [Mem -> VolumeKinds]]
        /\ \A s \in R, j \in Mem :
             vol'[s][j] \in IF s = Rt(p) /\ j \in proc[p].seen THEN Left(s, j) ELSE {vol[s][j]}
    BY <1>4, RemoveVolumesFacts
  <2>3. \A s \in R, j \in Mem : /\ vol'[s][j] # vol[s][j] => s = Rt(p) /\ j \in proc[p].seen
                                /\ Own(ctr[s][j]) => vol'[s][j] = vol[s][j]
                                /\ vol'[s][j] = "plain" => vol[s][j] = "plain"
    BY <2>2 DEF Left
  <2>4. Backed'
    BY <2>2, <2>3 DEF Backed, Own
  <2>5. \A s \in R, j \in Mem : vol[s][j] \in VolumeKinds /\ ctr[s][j] \in Containers
    BY DEF Typed, TypeOK, VolumeKinds
  <2>6. ctr' \in [R -> [Mem -> Containers]]
    BY <2>2 DEF Typed, TypeOK
  <2> QED BY <2>1, <2>2, <2>3, <2>4, <2>5, <2>6 DEF Touches, Own
<1> QED BY <1>1, <1>2, <1>3, <1>4 DEF RemoveStep

LEMMA ReplaceTouches ==
    ASSUME Typed, Backed, NEW p \in Procs, ReplaceStep(p)
    PROVE  Touches(p)
<1>1. CASE Terminate(p) \/ RelaunchGivesUp(p)
  BY <1>1, Untouched DEF Terminate, RelaunchGivesUp, rt
<1>2. CASE RemoveOld(p) \/ RemoveExited(p)
  BY <1>2, ByName DEF RemoveOld, RemoveExited, At
<1>3. CASE Relaunch(p)
  BY <1>3, LaunchTouches, Untouched DEF Relaunch, At
<1> QED BY <1>1, <1>2, <1>3 DEF ReplaceStep

LEMMA FailureTouches ==
    ASSUME Typed, Backed, NEW p \in Procs, Failure(p)
    PROVE  Touches(p) /\ net' = net
<1>1. CASE UpFails(p) \/ UndoFails(p) \/ CheckFails(p) \/ RemoveFails(p) \/ Killed(p)
  BY <1>1, Untouched DEF UpFails, UndoFails, CheckFails, RemoveFails, Killed, rt
<1>2. CASE RunFailsLate(p)
  BY <1>2, LaunchTouches DEF RunFailsLate, At
<1> QED BY <1>1, <1>2 DEF Failure

\* Containers exit and names are taken by somebody else: nothing is removed,
\* and the commands stay where they are.
Environment == \E r \in R, i \in Mem : Exits(r, i) \/ ForeignTakes(r, i)

LEMMA EnvironmentFacts ==
    ASSUME Typed, Backed, Environment
    PROVE  /\ UNCHANGED <<net, disturbed>>
           /\ ctr' \in [R -> [Mem -> Containers]]
           /\ vol' \in [R -> [Mem -> VolumeKinds]]
           /\ proc' \in [Procs -> Commands] /\ Others(0)
           /\ \A r \in R, i \in Mem :
                /\ Own(ctr'[r][i]) <=> Own(ctr[r][i])
                /\ ctr'[r][i].listed = ctr[r][i].listed
                /\ vol[r][i] # "none" => vol'[r][i] = vol[r][i]
                /\ vol'[r][i] \in {vol[r][i], "foreign"}
                /\ ctr[r][i].kind = "foreign" => ctr'[r][i] = ctr[r][i]
<1>1. PICK r \in R, i \in Mem : Exits(r, i) \/ ForeignTakes(r, i)
  BY DEF Environment
<1>2. CASE Exits(r, i)
  <2> DEFINE c == [ctr[r][i] EXCEPT !.kind = "exited"]
  <2>1. /\ c \in Containers /\ Own(c) /\ Own(ctr[r][i]) /\ ctr[r][i].kind # "foreign"
        /\ c.listed = ctr[r][i].listed
    <3>1. ctr[r][i] \in Containers
      BY DEF Typed, TypeOK
    <3>2. ctr[r][i].kind = "running"
      BY <1>2 DEF Exits
    <3> QED BY <3>1, <3>2 DEF Own, Containers
  <2>2. SetCtr(r, i, c)
    BY <1>2 DEF Exits, SetCtr
  <2>3. /\ ctr' \in [R -> [Mem -> Containers]]
        /\ \A s \in R, j \in Mem : ctr'[s][j] = IF s = r /\ j = i THEN c ELSE ctr[s][j]
    <3> HIDE DEF c
    <3> QED BY <2>1, <2>2, SetCtrFacts
  <2>4. UNCHANGED <<net, vol, disturbed>> /\ proc' = Shaken(proc)
    BY <1>2 DEF Exits
  <2>5. proc' \in [Procs -> Commands] /\ Others(0)
    <3>1. proc \in [Procs -> Commands]
      BY DEF Typed, TypeOK
    <3>2. \A q \in Procs : proc'[q] = [proc[q] EXCEPT !.calm = FALSE]
      BY <2>4 DEF Shaken
    <3>3. ASSUME NEW d \in Commands, NEW e, e = [d EXCEPT !.calm = FALSE]
          PROVE  /\ e.op = d.op /\ e.pc = d.pc /\ e.asked = d.asked /\ e.rts = d.rts
                 /\ e.k = d.k /\ e.seen = d.seen /\ e.failed = d.failed /\ (e.alone => d.alone) /\ ~e.calm
                 /\ e \in Commands
      BY <3>3 DEF Commands
    <3>4. Others(0)
      <4> SUFFICES ASSUME NEW q \in Procs \ {0}
                   PROVE  /\ proc'[q] \in Commands
                          /\ proc'[q].op = proc[q].op /\ proc'[q].pc = proc[q].pc
                          /\ proc'[q].asked = proc[q].asked /\ proc'[q].rts = proc[q].rts
                          /\ proc'[q].k = proc[q].k /\ proc'[q].failed = proc[q].failed
                          /\ proc'[q].seen = proc[q].seen
                          /\ proc'[q].alone => proc[q].alone
                          /\ ~proc'[q].calm
        BY DEF Others
      <4>1. proc[q] \in Commands /\ proc'[q] = [proc[q] EXCEPT !.calm = FALSE]
        BY <3>1, <3>2
      <4> QED BY <4>1, <3>3
    <3>5. proc' \in [Procs -> Commands]
      BY <2>4, <3>1, <3>2, <3>3 DEF Shaken
    <3> QED BY <3>4, <3>5
  <2> HIDE DEF c
  <2> QED BY <2>1, <2>3, <2>4, <2>5 DEF Typed, TypeOK, VolumeKinds
<1>3. CASE ForeignTakes(r, i)
  <2> DEFINE c == [kind |-> "foreign", listed |-> {}]
  <2>1. /\ c \in Containers /\ ~Own(c) /\ ~Own(NoCtr) /\ NoCtr.kind # "foreign"
        /\ c.listed = {} /\ NoCtr.listed = {}
    BY DEF Containers, Own, NoCtr
  <2>2. UNCHANGED <<net, proc, disturbed>>
    BY <1>3 DEF ForeignTakes
  <2>3. proc' \in [Procs -> Commands] /\ Others(0)
    BY <2>2 DEF Others, Typed, TypeOK
  <2>4. CASE ctr[r][i] = NoCtr /\ SetCtr(r, i, c) /\ vol' = vol
    <3>1. /\ ctr' \in [R -> [Mem -> Containers]]
          /\ \A s \in R, j \in Mem : ctr'[s][j] = IF s = r /\ j = i THEN c ELSE ctr[s][j]
      <4> HIDE DEF c
      <4> QED BY <2>1, <2>4, SetCtrFacts
    <3> HIDE DEF c
    <3> QED BY <2>1, <2>2, <2>3, <2>4, <3>1 DEF Typed, TypeOK, VolumeKinds
  <2>5. CASE vol[r][i] = "none" /\ SetVol(r, i, "foreign") /\ ctr' = ctr
    <3>1. /\ vol' \in [R -> [Mem -> VolumeKinds]]
          /\ \A s \in R, j \in Mem :
               vol'[s][j] = IF s = r /\ j = i THEN "foreign" ELSE vol[s][j]
      <4>1. "foreign" \in VolumeKinds BY DEF VolumeKinds
      <4> QED BY <2>5, <4>1, SetVolFacts
    <3> QED BY <2>2, <2>3, <2>5, <3>1 DEF Typed, TypeOK
  <2> QED BY <1>3, <2>4, <2>5 DEF ForeignTakes
<1> QED BY <1>1, <1>2, <1>3

-----------------------------------------------------------------------------
(* The inductive invariant *)

\* A running "up" owns its network until it gives it up, or was disturbed.
Mine ==
  \A p \in Procs :
    proc[p].op = "up" /\ proc[p].pc \notin {"net", "removed"}
      => net[Rt(p)] = p \/ p \in disturbed

Lonely ==
  \A p \in Procs : proc[p].alone => \A q \in Procs \ {p} : At(q, "idle")

\* What a lonely command has found to be the cluster's own still is.
Looked ==
  \A p \in Procs :
    proc[p].alone =>
      /\ proc[p].pc \in {"undoCtr", "rmOld", "rmExited"} => Own(ctr[Rt(p)][K(p)])
      /\ proc[p].pc = "undoVol" => vol[Rt(p)][K(p)] = "own"
      /\ proc[p].pc = "rmNames" => \A i \in proc[p].seen : vol[Rt(p)][i] = "own"

\* A lonely command finds the volume of the container it is about to run.
Prepared ==
  \A p \in Procs :
    proc[p].alone /\ proc[p].pc \in {"run", "relaunch"} => vol[Rt(p)][K(p)] # "none"

\* A removal that nothing disturbs: "down" is told of every failure, the
\* cleanup of "up" is calm.
Undisturbed(c) ==
  c.alone /\ c.pc \in RemovePcs /\ (IF c.op = "down" THEN ~c.failed ELSE c.calm)

SweptBy(p) ==
  /\ \A r \in proc[p].asked \ proc[p].rts : Clean(r)
  /\ proc[p].pc = "rmIDs" =>
       \A i \in Mem : Own(ctr[Rt(p)][i]) => p \in ctr[Rt(p)][i].listed
  /\ proc[p].pc \notin {"rmCtrs", "rmIDs"} => \A i \in Mem : ~Own(ctr[Rt(p)][i])
  /\ proc[p].pc = "rmNames" => \A i \in Mem : vol[Rt(p)][i] = "own" => i \in proc[p].seen
  /\ proc[p].pc \in {"rmNet", "removed"} => \A i \in Mem : vol[Rt(p)][i] # "own"
  /\ proc[p].pc = "removed" => net[Rt(p)] = 0 /\ proc[p].rts = {Rt(p)}

Swept == \A p \in Procs : Undisturbed(proc[p]) => SweptBy(p)

Inv == Typed /\ Backed /\ Mine /\ Lonely /\ Looked /\ Prepared /\ Swept

-----------------------------------------------------------------------------
(* The steps of the system, by who takes them *)

Act(p) == UpStep(p) \/ RemoveStep(p) \/ ReplaceStep(p) \/ Failure(p)

LEMMA NextCases ==
    ASSUME Next
    PROVE  (\E p \in Procs : Start(p) \/ Act(p)) \/ Environment
BY DEF Next, Start, Act, Failure, Environment

\* A step of a command in progress: it moves, or is relaunching a container.
LEMMA ActFacts ==
    ASSUME Typed, Backed, NEW p \in Procs, Act(p)
    PROVE  /\ Touches(p) /\ ~At(p, "idle")
           /\ Moves(p) \/ (Relaunch(p) /\ UNCHANGED proc)
<1>1. CASE UpStep(p)
  BY <1>1, UpMoves, UpTouches DEF Moves
<1>2. CASE RemoveStep(p)
  BY <1>2, RemoveMoves, RemoveTouches DEF Moves
<1>3. CASE ReplaceStep(p)
  <2>1. Touches(p)
    BY <1>3, ReplaceTouches
  <2>2. CASE UNCHANGED proc
    <3>1. ~At(p, "idle")
      BY <1>3 DEF ReplaceStep, Terminate, RemoveOld, Relaunch, RemoveExited, RelaunchGivesUp, At
    <3>2. CASE Relaunch(p)
      BY <2>1, <2>2, <3>1, <3>2
    <3>3. CASE ~Relaunch(p)
      <4>1. End(p) \/ \E pc \in ReplacePcs : Goto(p, pc)
        BY <1>3, <3>3 DEF ReplaceStep, Terminate, RemoveOld, RemoveExited, RelaunchGivesUp,
                          ReplacePcs
      <4>2. \A pc \in ReplacePcs : SameCommand(proc[p].pc, pc)
        BY <1>3 DEF ReplaceStep, Terminate, RemoveOld, Relaunch, RemoveExited, RelaunchGivesUp,
                    At, SameCommand, ReplacePcs
      <4> QED BY <2>1, <3>1, <4>1, <4>2, GotoMoves, EndMoves
    <3> QED BY <3>2, <3>3
  <2>3. CASE ~UNCHANGED proc
    BY <1>3, <2>1, <2>3, ReplaceMoves DEF Moves
  <2> QED BY <2>2, <2>3
<1>4. CASE Failure(p)
  BY <1>4, FailureMoves, FailureTouches DEF Moves
<1> QED BY <1>1, <1>2, <1>3, <1>4 DEF Act

LEMMA NetworkKept ==
    ASSUME NEW p \in Procs, Act(p), ~CreateNetwork(p), ~RemoveNetwork(p)
    PROVE  net' = net /\ disturbed' = disturbed
BY DEF Act, UpStep, CreateCheck, CreateVolume, CreateRun, CreateUndo, UndoContainer, UndoLook,
       UndoVolume, Health,
       RemoveStep, ListContainers, RemoveContainers, ListVolumes, RemoveVolumes, Removed,
       ReplaceStep, Terminate, RemoveOld, Relaunch, RemoveExited, RelaunchGivesUp,
       Failure, UpFails, UndoFails, CheckFails, RunFailsLate, RemoveFails, Killed, Quiet, rt

LEMMA CreateNetworkFacts ==
    ASSUME Typed, NEW p \in Procs, CreateNetwork(p)
    PROVE  /\ disturbed' = disturbed /\ net' \in [R -> Procs \cup {0}] /\ Rt(p) \in R
           /\ \/ net' = net /\ proc'[p] = Idle
              \/ /\ net[Rt(p)] = 0 /\ proc'[p].pc = "check" /\ proc'[p].rts = proc[p].rts
                 /\ \A r \in R : net'[r] = IF r = Rt(p) THEN p ELSE net[r]
<1>1. Rt(p) \in R /\ proc[p] \in Commands
  BY AtRuntime DEF CreateNetwork, At
<1>2. disturbed' = disturbed
  BY DEF CreateNetwork, Quiet
<1>3. CASE net[Rt(p)] = 0
  <2>1. net' = [net EXCEPT ![Rt(p)] = p] /\ Goto(p, "check")
    BY <1>3 DEF CreateNetwork
  <2>2. proc'[p] = [proc[p] EXCEPT !.pc = "check"]
    BY <2>1 DEF Goto, Typed, TypeOK
  <2>3. proc'[p].pc = "check" /\ proc'[p].rts = proc[p].rts
    BY <1>1, <2>2 DEF Commands
  <2> QED BY <1>1, <1>2, <1>3, <2>1, <2>3 DEF Typed, TypeOK
<1>4. CASE net[Rt(p)] # 0
  <2>1. net' = net /\ End(p)
    BY <1>4 DEF CreateNetwork
  <2> QED BY <1>1, <1>2, <2>1, EndFacts DEF Typed, TypeOK
<1> QED BY <1>3, <1>4

LEMMA NetworkTypes ==
    ASSUME Typed, NEW p \in Procs, Act(p)
    PROVE  net' \in [R -> Procs \cup {0}]
<1>1. CASE RemoveNetwork(p)
  <2>1. net' = net \/ net' = [net EXCEPT ![Rt(p)] = 0]
    BY <1>1 DEF RemoveNetwork
  <2> QED BY <2>1 DEF Typed, TypeOK
<1>2. CASE CreateNetwork(p)
  BY <1>2, CreateNetworkFacts
<1>3. CASE ~CreateNetwork(p) /\ ~RemoveNetwork(p)
  BY <1>3, NetworkKept DEF Typed, TypeOK
<1> QED BY <1>1, <1>2, <1>3

-----------------------------------------------------------------------------
(* Typed and Backed *)

LEMMA OthersWellFormed ==
    ASSUME Typed, NEW p, Others(p), NEW q \in Procs \ {p}
    PROVE  WellFormed(proc'[q])
BY DEF Typed, WellFormed, Others

LEMMA TypedStep ==
    ASSUME Typed, Backed, [Next]_vars
    PROVE  Typed' /\ Backed'
<1>1. ASSUME NEW p \in Procs, Start(p) PROVE Typed' /\ Backed'
  <2>1. Began(p)
    BY <1>1, StartFacts
  <2>2. \A q \in Procs : WellFormed(proc'[q])
    BY <2>1, OthersWellFormed DEF Began
  <2> QED BY <2>1, <2>2 DEF Began, Typed, TypeOK, Backed, rt
<1>2. ASSUME NEW p \in Procs, Act(p) PROVE Typed' /\ Backed'
  <2>1. Touches(p) /\ (Moves(p) \/ UNCHANGED proc) /\ net' \in [R -> Procs \cup {0}]
    BY <1>2, ActFacts, NetworkTypes
  <2>2. proc' \in [Procs -> Commands] /\ \A q \in Procs : WellFormed(proc'[q])
    <3>1. CASE Moves(p)
      BY <3>1, OthersWellFormed DEF Moves
    <3>2. CASE UNCHANGED proc
      BY <3>2 DEF Typed, TypeOK
    <3> QED BY <2>1, <3>1, <3>2
  <2> QED BY <2>1, <2>2 DEF Touches, Typed, TypeOK, VolumeKinds
<1>3. CASE Environment
  <2>1. \A q \in Procs : WellFormed(proc'[q])
    BY <1>3, EnvironmentFacts, OthersWellFormed, LocalAssumption
  <2> QED BY <1>3, <2>1, EnvironmentFacts DEF Typed, TypeOK, Backed, VolumeKinds
<1>4. CASE UNCHANGED vars
  BY <1>4 DEF Typed, TypeOK, Backed, vars, rt
<1> QED BY <1>1, <1>2, <1>3, <1>4, NextCases

-----------------------------------------------------------------------------
(* Lonely *)

LEMMA LonelyStep ==
    ASSUME Typed, Backed, Lonely, [Next]_vars
    PROVE  Lonely'
<1>1. ASSUME NEW p \in Procs, Start(p) PROVE Lonely'
  <2>1. Began(p)
    BY <1>1, StartFacts
  <2> QED BY <2>1 DEF Began, Others, Lonely, At
<1>2. ASSUME NEW p \in Procs, Act(p) PROVE Lonely'
  <2>1. CASE Moves(p)
    BY <2>1 DEF Moves, Others, Lonely, At
  <2> QED BY <1>2, <2>1, ActFacts DEF Lonely, At
<1>3. CASE Environment
  <2>1. Others(0)
    BY <1>3, EnvironmentFacts
  <2> QED BY <2>1, LocalAssumption DEF Others, Lonely, At
<1>4. CASE UNCHANGED vars
  BY <1>4 DEF Lonely, At, vars
<1> QED BY <1>1, <1>2, <1>3, <1>4, NextCases

\* While a command is alone, only its own steps and the environment's happen.
LEMMA OnlyActor ==
    ASSUME Typed, Backed, Lonely, NEW p \in Procs, Act(p), NEW q \in Procs, proc'[q].alone
    PROVE  q = p /\ proc[p].alone
<1>1. ~At(p, "idle") /\ (Moves(p) \/ UNCHANGED proc)
  BY ActFacts
<1>2. proc[q].alone
  BY <1>1 DEF Moves, Others
<1> QED BY <1>1, <1>2 DEF Lonely

-----------------------------------------------------------------------------
(* Mine *)

\* "up" has one runtime, from beginning to end.
LEMMA UpRuntime ==
    ASSUME Typed, NEW p \in Procs, Moves(p), proc'[p].pc # "idle", proc'[p].op = "up"
    PROVE  proc[p].op = "up" /\ proc'[p].rts = proc[p].rts
<1>1. proc[p].op = "up" /\ proc'[p].asked = proc[p].asked
  BY DEF Moves
<1>2. proc'[p].asked = proc'[p].rts /\ proc[p].asked = proc[p].rts
  BY <1>1 DEF Moves, Typed, WellFormed
<1> QED BY <1>1, <1>2

\* An "up" leaves the creation of its network for its first member, and the
\* end of its cleanup for good.
LEMMA Leaving ==
    ASSUME Typed, NEW p \in Procs, Act(p), ~CreateNetwork(p), proc[p].pc \in {"net", "removed"}
    PROVE  proc'[p].pc = "idle"
<1>1. CASE Removed(p)
  BY <1>1, EndFacts DEF Removed, Typed, TypeOK, Idle
<1>2. CASE Failure(p)
  BY <1>2, FailureMoves
<1>3. Removed(p) \/ Failure(p)
  BY DEF Act, UpStep, CreateCheck, CreateVolume, CreateRun, CreateUndo, UndoContainer, UndoLook,
         UndoVolume, Health,
         RemoveStep, ListContainers, RemoveContainers, ListVolumes, RemoveVolumes, RemoveNetwork,
         ReplaceStep, Terminate, RemoveOld, Relaunch, RemoveExited, RelaunchGivesUp, At
<1> QED BY <1>1, <1>2, <1>3

LEMMA MineStep ==
    ASSUME Typed, Backed, Mine, [Next]_vars
    PROVE  Mine'
<1>1. ASSUME NEW p \in Procs, Start(p) PROVE Mine'
  <2>1. Began(p)
    BY <1>1, StartFacts
  <2> SUFFICES ASSUME NEW q \in Procs, proc'[q].op = "up", proc'[q].pc \notin {"net", "removed"}
               PROVE  net'[First(proc'[q].rts)] = q \/ q \in disturbed'
    BY DEF Mine, Rt
  <2>2. q # p
    BY <2>1 DEF Began
  <2> QED BY <2>1, <2>2 DEF Began, Others, Mine, Rt, rt
<1>2. ASSUME NEW p \in Procs, Act(p) PROVE Mine'
  <2> SUFFICES ASSUME NEW q \in Procs, proc'[q].op = "up", proc'[q].pc \notin {"net", "removed"}
               PROVE  net'[First(proc'[q].rts)] = q \/ q \in disturbed'
    BY DEF Mine, Rt
  <2>1. Moves(p) \/ (Relaunch(p) /\ UNCHANGED proc)
    BY <1>2, ActFacts
  <2>2. CASE q # p
    <3>1. net[Rt(q)] = q \/ q \in disturbed
      BY <2>1, <2>2 DEF Moves, Others, Mine
    <3>2. Rt(q) = First(proc'[q].rts)
      BY <2>1, <2>2 DEF Moves, Others, Rt
    <3>r. Rt(q) \in R
      <4>1. proc[q].pc # "idle" \/ proc[q].rts = {First(proc[q].rts)}
        BY <2>1, <2>2 DEF Moves, Others, Typed, WellFormed
      <4>2. proc[q].rts \in SUBSET R
        BY DEF Typed, TypeOK, Commands
      <4> QED BY <4>1, <4>2, AtRuntime DEF Rt, At
    <3>3. CASE CreateNetwork(p)
      BY <3>1, <3>2, <3>3, <3>r, CreateNetworkFacts, LocalAssumption
    <3>4. CASE RemoveNetwork(p)
      <4>1. CASE q \in disturbed
        BY <3>4, <4>1 DEF RemoveNetwork
      <4>2. CASE net[Rt(q)] = q /\ (BusyNet(Rt(p)) \/ net[Rt(p)] # q)
        <5>1. net' = net \/ (net[Rt(p)] # q /\ net' = [net EXCEPT ![Rt(p)] = 0])
          BY <3>4, <4>2 DEF RemoveNetwork, BusyNet
        <5>2. net'[Rt(q)] = q
          BY <3>r, <4>2, <5>1 DEF Typed, TypeOK
        <5> QED BY <3>2, <5>2
      <4>3. CASE net[Rt(p)] = q /\ ~BusyNet(Rt(p))
        BY <2>2, <3>4, <4>3, LocalAssumption DEF RemoveNetwork, BusyNet
      <4> QED BY <3>1, <4>1, <4>2, <4>3
    <3> QED BY <1>2, <3>1, <3>2, <3>3, <3>4, NetworkKept
  <2>3. CASE q = p
    <3>1. CASE CreateNetwork(p)
      <4>1. proc'[p] # Idle
        BY <2>3 DEF Idle
      <4> QED BY <2>3, <3>1, <4>1, CreateNetworkFacts DEF Rt
    <3>2. CASE RemoveNetwork(p)
      <4> DEFINE failed == proc[p].failed \/ BusyNet(Rt(p))
      <4>1. /\ proc[p] \in Commands /\ WellFormed(proc[p]) /\ proc[p].pc = "rmNet"
            /\ proc'[p] = NextRuntime(proc[p], failed)
        BY <3>2, RemoveNetworkFacts DEF Typed, TypeOK, RemoveNetwork, At
      <4>2. failed \in BOOLEAN
        BY <4>1 DEF Commands, BusyNet
      <4> HIDE DEF failed
      <4>3. /\ proc'[p].op = proc[p].op /\ WellFormed(proc'[p])
            /\ proc'[p].pc = "removed" \/ proc'[p].rts = proc[p].rts \ {First(proc[p].rts)}
            /\ proc'[p].asked = proc[p].asked
        BY <4>1, <4>2, NextRuntimeFacts
      <4>4. /\ proc[p].rts = {First(proc[p].rts)} /\ proc[p].asked = proc[p].rts
            /\ proc'[p].asked = proc'[p].rts
        BY <2>3, <4>1, <4>3 DEF WellFormed
      <4>5. proc'[p].rts # proc[p].rts \ {First(proc[p].rts)}
        BY <4>3, <4>4
      <4> QED BY <2>3, <4>3, <4>5
    <3>3. CASE ~CreateNetwork(p) /\ ~RemoveNetwork(p)
      <4>1. net' = net /\ disturbed' = disturbed
        BY <1>2, <3>3, NetworkKept
      <4>2. CASE UNCHANGED proc
        BY <4>1, <4>2 DEF Mine, Rt
      <4>3. CASE Moves(p)
        <5>1. proc'[p].pc # "idle"
          BY <2>3, <4>3 DEF Moves
        <5>2. proc[p].op = "up" /\ proc'[p].rts = proc[p].rts
          BY <2>3, <4>3, <5>1, UpRuntime
        <5>3. proc[p].pc \notin {"net", "removed"}
          BY <1>2, <3>3, <5>1, Leaving
        <5> QED BY <2>3, <4>1, <5>2, <5>3 DEF Mine, Rt
      <4> QED BY <2>1, <4>2, <4>3
    <3> QED BY <3>1, <3>2, <3>3
  <2> QED BY <2>2, <2>3
<1>3. CASE Environment
  <2>1. Others(0) /\ net' = net /\ disturbed' = disturbed
    BY <1>3, EnvironmentFacts
  <2> QED BY <2>1, LocalAssumption DEF Others, Mine, Rt
<1>4. CASE UNCHANGED vars
  BY <1>4 DEF Mine, Rt, vars, rt
<1> QED BY <1>1, <1>2, <1>3, <1>4, NextCases

-----------------------------------------------------------------------------
(* Where the steps lead *)

LEMMA GotoSame ==
    ASSUME Typed, NEW p \in Procs, NEW pc, Goto(p, pc)
    PROVE  /\ proc'[p].pc = pc /\ proc'[p].rts = proc[p].rts /\ proc'[p].k = proc[p].k
           /\ proc'[p].asked = proc[p].asked /\ proc'[p].seen = proc[p].seen
BY DEF Goto, Typed, TypeOK, Commands

\* Where the steps of "up" lead.
LEMMA UpLeads ==
    ASSUME Typed, NEW p \in Procs, UpStep(p)
    PROVE  /\ proc'[p].pc \in {"idle", "check", "volume", "run", "health", "undo", "undoCtr",
                             "undoLook", "undoVol", "rmCtrs"}
           /\ proc'[p].pc = "run" => CreateVolume(p)
           /\ proc'[p].pc = "undoCtr" =>
                CreateUndo(p) /\ Goto(p, "undoCtr") /\ Own(ctr[Rt(p)][K(p)])
           /\ proc'[p].pc = "undoVol" =>
                UndoLook(p) /\ Goto(p, "undoVol") /\ vol[Rt(p)][K(p)] = "own"
<1>1. ASSUME End(p) PROVE proc'[p].pc = "idle"
  BY <1>1, EndFacts DEF Idle, Typed, TypeOK
<1>2. CASE CreateNetwork(p)
  BY <1>1, <1>2, GotoSame DEF CreateNetwork
<1>3. CASE CreateCheck(p)
  <2>1. Goto(p, "volume") \/ Goto(p, "rmCtrs")
    BY <1>3 DEF CreateCheck
  <2> QED BY <2>1, GotoSame
<1>4. CASE CreateVolume(p)
  BY <1>4, GotoSame DEF CreateVolume
<1>5. CASE CreateRun(p)
  <2>1. CASE Goto(p, "undo")
    BY <2>1, GotoSame
  <2>2. CASE proc' = [proc EXCEPT ![p].pc = "health"]
    <3>1. Goto(p, "health")
      BY <2>2 DEF Goto
    <3> QED BY <3>1, GotoSame
  <2>3. CASE proc' = [proc EXCEPT ![p].pc = "check", ![p].k = @ + 1]
    BY <2>3 DEF Typed, TypeOK, Commands
  <2> QED BY <1>5, <2>1, <2>2, <2>3 DEF CreateRun
<1>6. CASE CreateUndo(p)
  <2>1. \/ Goto(p, "undoCtr") /\ Own(ctr[Rt(p)][K(p)])
        \/ Goto(p, "undoLook")
    BY <1>6 DEF CreateUndo
  <2> QED BY <1>6, <2>1, GotoSame
<1>7. CASE Health(p)
  BY <1>1, <1>7, GotoSame DEF Health
<1>8. CASE UndoLook(p)
  <2>1. \/ Goto(p, "undoVol") /\ vol[Rt(p)][K(p)] = "own"
        \/ Goto(p, "rmCtrs")
    BY <1>8 DEF UndoLook
  <2> QED BY <1>8, <2>1, GotoSame
<1>9. CASE UndoContainer(p) \/ UndoVolume(p)
  BY <1>9, GotoSame DEF UndoContainer, UndoVolume
<1> QED BY <1>2, <1>3, <1>4, <1>5, <1>6, <1>7, <1>8, <1>9 DEF UpStep

\* Where the steps of a removal lead.
LEMMA RemoveLeads ==
    ASSUME Typed, NEW p \in Procs, RemoveStep(p)
    PROVE  /\ ListContainers(p) => proc'[p].pc = "rmIDs"
           /\ RemoveContainers(p) => proc'[p].pc = "rmVols"
           /\ ListVolumes(p) =>
                /\ proc'[p].pc = "rmNames" /\ proc'[p].rts = proc[p].rts
                /\ proc'[p].seen = {i \in Mem : vol[Rt(p)][i] = "own"}
           /\ RemoveVolumes(p) => proc'[p].pc = "rmNet"
           /\ RemoveNetwork(p) =>
                \/ /\ proc'[p].pc = "rmCtrs" /\ proc'[p].rts = proc[p].rts \ {Rt(p)}
                \/ /\ proc'[p].pc = "removed" /\ proc'[p].rts = proc[p].rts
                   /\ proc[p].rts = {Rt(p)}
           /\ Removed(p) => proc'[p].pc = "idle"
<1>1. ASSUME RemoveContainers(p) PROVE proc'[p].pc = "rmVols"
  BY <1>1, GotoSame DEF RemoveContainers
<1>2. ASSUME RemoveVolumes(p) PROVE proc'[p].pc = "rmNet"
  BY <1>2, RemoveVolumesFacts DEF VolumesMove
<1>5. ASSUME ListContainers(p) PROVE proc'[p].pc = "rmIDs"
  BY <1>5, GotoSame DEF ListContainers
<1>6. ASSUME ListVolumes(p)
      PROVE  /\ proc'[p].pc = "rmNames" /\ proc'[p].rts = proc[p].rts
             /\ proc'[p].seen = {i \in Mem : vol[Rt(p)][i] = "own"}
  BY <1>6, ListVolumesFacts DEF VolumesMove
<1>3. ASSUME RemoveNetwork(p)
      PROVE  \/ /\ proc'[p].pc = "rmCtrs" /\ proc'[p].rts = proc[p].rts \ {Rt(p)}
             \/ /\ proc'[p].pc = "removed" /\ proc'[p].rts = proc[p].rts
                /\ proc[p].rts = {Rt(p)}
  <2> DEFINE failed == proc[p].failed \/ BusyNet(Rt(p))
  <2>1. /\ proc[p] \in Commands /\ WellFormed(proc[p]) /\ proc[p].pc = "rmNet"
        /\ proc'[p] = NextRuntime(proc[p], failed)
    BY <1>3, RemoveNetworkFacts DEF Typed, TypeOK, RemoveNetwork, At
  <2>2. failed \in BOOLEAN
    BY <2>1 DEF Commands, BusyNet
  <2> HIDE DEF failed
  <2> QED BY <2>1, <2>2, NextRuntimeFacts DEF Rt
<1>4. ASSUME Removed(p) PROVE proc'[p].pc = "idle"
  BY <1>4, EndFacts DEF Removed, Typed, TypeOK, Idle
<1> QED BY <1>1, <1>2, <1>3, <1>4, <1>5, <1>6

\* Where those of "replace" lead.
LEMMA ReplaceLeads ==
    ASSUME Typed, NEW p \in Procs, ReplaceStep(p)
    PROVE  \/ UNCHANGED proc /\ Relaunch(p)
           \/ proc'[p].pc = "idle"
           \/ Goto(p, "rmOld") /\ Own(ctr[Rt(p)][K(p)]) /\ UNCHANGED rt
           \/ Goto(p, "rmExited") /\ Own(ctr[Rt(p)][K(p)]) /\ UNCHANGED rt
           \/ Goto(p, "relaunch") /\ proc[p].pc \in {"rmOld", "rmExited"} /\ vol' = vol
<1>1. ASSUME End(p) PROVE proc'[p].pc = "idle"
  BY <1>1, EndFacts DEF Idle, Typed, TypeOK
<1>2. CASE Terminate(p)
  BY <1>1, <1>2 DEF Terminate, Quiet
<1>3. CASE RemoveOld(p) \/ RemoveExited(p)
  BY <1>1, <1>3 DEF RemoveOld, RemoveExited, At
<1>4. CASE Relaunch(p)
  BY <1>1, <1>4 DEF Relaunch, Own, rt
<1>5. CASE RelaunchGivesUp(p)
  BY <1>1, <1>5 DEF RelaunchGivesUp
<1> QED BY <1>2, <1>3, <1>4, <1>5 DEF ReplaceStep

-----------------------------------------------------------------------------
(* Looked *)

\* What p is about to remove by its name, looked at from the command d.
Owned(d) ==
  /\ d.pc \in {"undoCtr", "rmOld", "rmExited"} => Own(ctr[First(d.rts)][d.k])
  /\ d.pc = "undoVol" => vol[First(d.rts)][d.k] = "own"
  /\ d.pc = "rmNames" => \A i \in d.seen : vol[First(d.rts)][i] = "own"

LEMMA LookedStep ==
    ASSUME Typed, Backed, Lonely, Looked, [Next]_vars
    PROVE  Looked'
<1>o. Looked <=> \A q \in Procs : proc[q].alone => Owned(proc[q])
  BY DEF Looked, Owned, Rt, K
<1>n. ASSUME \A q \in Procs : proc'[q].alone => Owned(proc[q])' PROVE Looked'
  BY <1>n DEF Looked, Owned, Rt, K
<1>1. ASSUME NEW p \in Procs, Start(p) PROVE Looked'
  <2>1. Began(p)
    BY <1>1, StartFacts
  <2> QED BY <2>1 DEF Began, Looked
<1>2. ASSUME NEW p \in Procs, Act(p) PROVE Looked'
  <2> SUFFICES ASSUME proc'[p].alone
               PROVE  Owned(proc[p])'
    BY <1>2, <1>n, OnlyActor
  <2>1. proc[p].alone /\ ~At(p, "idle")
    BY <1>2, OnlyActor, ActFacts
  <2>2. CASE UpStep(p)
    <3>1. CASE proc'[p].pc = "undoCtr"
      <4>1. CreateUndo(p) /\ Goto(p, "undoCtr") /\ Own(ctr[Rt(p)][K(p)])
        BY <2>2, <3>1, UpLeads
      <4>2. ctr' = ctr
        BY <4>1 DEF CreateUndo, rt
      <4> QED BY <3>1, <4>1, <4>2, GotoSame DEF Owned, Rt, K
    <3>2. CASE proc'[p].pc = "undoVol"
      <4>1. UndoLook(p) /\ Goto(p, "undoVol") /\ vol[Rt(p)][K(p)] = "own"
        BY <2>2, <3>2, UpLeads
      <4>2. vol' = vol
        BY <4>1 DEF UndoLook, rt
      <4> QED BY <3>2, <4>1, <4>2, GotoSame DEF Owned, Rt, K
    <3>3. CASE proc'[p].pc \notin {"undoCtr", "undoVol"}
      BY <2>2, <3>3, UpLeads DEF Owned
    <3> QED BY <3>1, <3>2, <3>3
  <2>3. CASE RemoveStep(p)
    <3>1. CASE ListVolumes(p)
      <4>1. vol' = vol
        BY <3>1 DEF ListVolumes, rt
      <4> QED BY <2>3, <3>1, <4>1, RemoveLeads DEF Owned, Rt
    <3>2. CASE ~ListVolumes(p)
      BY <2>3, <3>2, RemoveLeads DEF RemoveStep, Owned
    <3> QED BY <3>1, <3>2
  <2>4. CASE ReplaceStep(p)
    <3>1. CASE UNCHANGED proc /\ Relaunch(p)
      BY <3>1 DEF Relaunch, At, Owned
    <3>2. CASE proc'[p].pc = "idle"
      BY <3>2 DEF Owned
    <3>3. CASE (Goto(p, "rmOld") \/ Goto(p, "rmExited")) /\ Own(ctr[Rt(p)][K(p)]) /\ UNCHANGED rt
      BY <3>3, GotoSame DEF Owned, Rt, K, rt
    <3>4. CASE Goto(p, "relaunch")
      BY <3>4, GotoSame DEF Owned
    <3> QED BY <2>4, <3>1, <3>2, <3>3, <3>4, ReplaceLeads
  <2>5. CASE Failure(p)
    BY <2>5, FailureMoves DEF Owned
  <2> QED BY <1>2, <2>2, <2>3, <2>4, <2>5 DEF Act
<1>3. CASE Environment
  <2> SUFFICES ASSUME NEW q \in Procs, proc'[q].alone
               PROVE  Owned(proc[q])'
    BY <1>n
  <2>1. /\ proc[q].alone /\ proc'[q].pc = proc[q].pc
        /\ First(proc'[q].rts) = Rt(q) /\ proc'[q].k = K(q) /\ proc'[q].seen = proc[q].seen
    BY <1>3, EnvironmentFacts, LocalAssumption DEF Others, Rt, K
  <2>2. CASE At(q, "idle")
    BY <2>1, <2>2 DEF At, Owned
  <2>3. CASE ~At(q, "idle")
    <3>1. Rt(q) \in R /\ K(q) \in Mem /\ proc[q].seen \subseteq Mem
      BY <2>3, AtRuntime DEF Commands
    <3>2. Owned(proc[q])
      BY <1>o, <2>1
    <3>3. \A i \in Mem : /\ Own(ctr[Rt(q)][i]) => Own(ctr'[Rt(q)][i])
                         /\ vol[Rt(q)][i] = "own" => vol'[Rt(q)][i] = "own"
      BY <1>3, <3>1, EnvironmentFacts
    <3> QED BY <2>1, <3>1, <3>2, <3>3 DEF Owned, Rt, K, Own
  <2> QED BY <2>2, <2>3
<1>4. CASE UNCHANGED vars
  BY <1>4 DEF Looked, Rt, K, vars, rt
<1> QED BY <1>1, <1>2, <1>3, <1>4, NextCases

-----------------------------------------------------------------------------
(* Prepared *)

LEMMA PreparedStep ==
    ASSUME Typed, Backed, Lonely, Looked, Prepared, [Next]_vars
    PROVE  Prepared'
<1>1. ASSUME NEW p \in Procs, Start(p) PROVE Prepared'
  <2>1. Began(p)
    BY <1>1, StartFacts
  <2> QED BY <2>1 DEF Began, Prepared
<1>2. ASSUME NEW p \in Procs, Act(p) PROVE Prepared'
  <2> SUFFICES ASSUME proc'[p].alone, proc'[p].pc \in {"run", "relaunch"}
               PROVE  vol'[First(proc'[p].rts)][proc'[p].k] # "none"
    BY <1>2, OnlyActor DEF Prepared, Rt, K
  <2>1. proc[p].alone /\ ~At(p, "idle")
    BY <1>2, OnlyActor, ActFacts
  <2>r. Rt(p) \in R /\ K(p) \in Mem /\ vol[Rt(p)][K(p)] \in VolumeKinds
    BY <2>1, AtRuntime DEF Typed, TypeOK, VolumeKinds
  <2>2. CASE UpStep(p)
    <3> DEFINE v == IF vol[Rt(p)][K(p)] = "none" THEN "own" ELSE vol[Rt(p)][K(p)]
    <3>1. CreateVolume(p)
      BY <2>2, UpLeads
    <3>2. SetVol(Rt(p), K(p), v) /\ Goto(p, "run")
      BY <3>1 DEF CreateVolume
    <3>3. v \in VolumeKinds /\ v # "none"
      BY <2>r DEF VolumeKinds
    <3> HIDE DEF v
    <3>4. vol'[Rt(p)][K(p)] = v
      BY <2>r, <3>2, <3>3, SetVolFacts
    <3> QED BY <3>2, <3>3, <3>4, GotoSame DEF Rt, K
  <2>3. CASE RemoveStep(p)
    BY <2>3, RemoveLeads DEF RemoveStep
  <2>4. CASE ReplaceStep(p)
    <3>1. CASE Goto(p, "relaunch") /\ proc[p].pc \in {"rmOld", "rmExited"} /\ vol' = vol
      <4>1. Own(ctr[Rt(p)][K(p)])
        BY <2>1, <3>1 DEF Looked
      <4> QED BY <2>r, <3>1, <4>1, GotoSame DEF Backed, Rt, K
    <3>2. CASE Relaunch(p) /\ UNCHANGED proc
      <4>1. vol[Rt(p)][K(p)] # "none"
        BY <2>1, <3>2 DEF Relaunch, At, Prepared
      <4>2. CASE Launch(p)
        <5>1. SetVol(Rt(p), K(p), vol[Rt(p)][K(p)])
          BY <4>1, <4>2 DEF Launch
        <5> QED BY <2>r, <3>2, <4>1, <5>1, SetVolFacts DEF Rt, K
      <4>3. CASE vol' = vol
        BY <3>2, <4>1, <4>3 DEF Rt, K
      <4> QED BY <3>2, <4>2, <4>3 DEF Relaunch
    <3>3. CASE Goto(p, "rmOld") \/ Goto(p, "rmExited")
      BY <3>3, GotoSame
    <3> QED BY <2>4, <3>1, <3>2, <3>3, ReplaceLeads
  <2>5. CASE Failure(p)
    BY <2>5, FailureMoves
  <2> QED BY <1>2, <2>2, <2>3, <2>4, <2>5 DEF Act
<1>3. CASE Environment
  <2> SUFFICES ASSUME NEW q \in Procs, proc'[q].alone, proc'[q].pc \in {"run", "relaunch"}
               PROVE  vol'[First(proc'[q].rts)][proc'[q].k] # "none"
    BY DEF Prepared, Rt, K
  <2>1. /\ proc[q].alone /\ proc[q].pc \in {"run", "relaunch"}
        /\ First(proc'[q].rts) = Rt(q) /\ proc'[q].k = K(q)
    BY <1>3, EnvironmentFacts, LocalAssumption DEF Others, Rt, K
  <2>2. Rt(q) \in R /\ K(q) \in Mem
    BY <2>1, AtRuntime DEF At
  <2>3. vol[Rt(q)][K(q)] # "none"
    BY <2>1 DEF Prepared
  <2> QED BY <1>3, <2>1, <2>2, <2>3, EnvironmentFacts
<1>4. CASE UNCHANGED vars
  BY <1>4 DEF Prepared, Rt, K, vars, rt
<1> QED BY <1>1, <1>2, <1>3, <1>4, NextCases

-----------------------------------------------------------------------------
(* Swept *)

\* A clean runtime stays clean while nothing appears in it.
LEMMA CleanStays ==
    ASSUME NEW r \in R, Clean(r), net'[r] = net[r],
           \A i \in Mem : (Own(ctr'[r][i]) => Own(ctr[r][i]))
                         /\ (vol'[r][i] = "own" => vol[r][i] = "own")
    PROVE  Clean(r)'
BY DEF Clean, Labelled

LEMMA SweptAct ==
    ASSUME Typed, Backed, Lonely, Swept, NEW p \in Procs, Act(p), Undisturbed(proc'[p])
    PROVE  SweptBy(p)'
<1> DEFINE c == proc[p]
           d == proc'[p]
           f == First(proc[p].rts)
<1>1. d.alone /\ d.pc \in RemovePcs
  BY DEF Undisturbed
<1>2. c.alone /\ ~At(p, "idle") /\ c \in Commands /\ f \in R /\ f \in c.rts /\ f = Rt(p)
  BY <1>1, OnlyActor, ActFacts, AtRuntime DEF Rt
<1>3. Moves(p)
  BY <1>1, ActFacts DEF Relaunch, At, RemovePcs
<1>4. /\ d.pc # "idle" /\ d.op = c.op /\ d.asked = c.asked
      /\ d.calm => c.calm
      /\ c.failed => d.failed
      /\ c.pc # "rmNet" => d.rts = c.rts
      /\ WellFormed(d)
  BY <1>1, <1>3 DEF Moves, RemovePcs
<1>5. c.pc \in RemovePcs => SweptBy(p)
  BY <1>2, <1>4 DEF Undisturbed, Swept
<1>6. CASE UpStep(p)
  <2>1. d.pc = "rmCtrs"
    BY <1>1, <1>6, UpLeads DEF RemovePcs
  <2>2. c.op = "up"
    BY <1>6 DEF UpStep, CreateNetwork, CreateCheck, CreateVolume, CreateRun, CreateUndo,
                UndoContainer, UndoLook, UndoVolume, Health, At, Typed, WellFormed, UpPcs
  <2>3. d.asked = d.rts
    BY <1>4, <2>2 DEF WellFormed
  <2> QED BY <2>1, <2>3 DEF SweptBy
<1>13. CASE ListContainers(p)
  <2>1. d.pc = "rmIDs" /\ c.pc = "rmCtrs" /\ d.rts = c.rts
    BY <1>4, <1>13, RemoveLeads DEF RemoveStep, ListContainers, At
  <2>2. /\ vol' = vol /\ net' = net
        /\ \A s \in R, j \in Mem :
             /\ Own(ctr'[s][j]) <=> Own(ctr[s][j])
             /\ s = f /\ Own(ctr[s][j]) => p \in ctr'[s][j].listed
    BY <1>2, <1>13, ListContainersFacts DEF Own
  <2>3. \A r \in c.asked \ c.rts : Clean(r)'
    <3> SUFFICES ASSUME NEW r \in c.asked \ c.rts PROVE Clean(r)'
      OBVIOUS
    <3>1. r \in R /\ Clean(r)
      BY <1>2, <1>5, <2>1 DEF SweptBy, RemovePcs, Commands
    <3> QED BY <2>2, <3>1, CleanStays
  <2> QED BY <1>2, <1>4, <2>1, <2>2, <2>3 DEF SweptBy, Rt
<1>7. CASE RemoveContainers(p)
  <2>1. d.pc = "rmVols" /\ c.pc = "rmIDs" /\ d.rts = c.rts
    BY <1>4, <1>7, RemoveLeads DEF RemoveStep, RemoveContainers, At
  <2>2. /\ vol' = vol /\ net' = net
        /\ \A s \in R, j \in Mem :
             ctr'[s][j] = IF s = f /\ p \in ctr[s][j].listed THEN NoCtr ELSE ctr[s][j]
    BY <1>2, <1>7, RemoveContainersFacts
  <2>3. ~Own(NoCtr)
    BY DEF Own, NoCtr
  <2>4. \A i \in Mem : ~Own(ctr'[f][i])
    <3>1. \A i \in Mem : Own(ctr[f][i]) => p \in ctr[f][i].listed
      BY <1>2, <1>5, <2>1 DEF SweptBy, RemovePcs
    <3> QED BY <1>2, <2>2, <2>3, <3>1
  <2>5. \A r \in c.asked \ c.rts : Clean(r)'
    <3> SUFFICES ASSUME NEW r \in c.asked \ c.rts PROVE Clean(r)'
      OBVIOUS
    <3>1. r \in R /\ Clean(r)
      BY <1>2, <1>5, <2>1 DEF SweptBy, RemovePcs, Commands
    <3> QED BY <2>2, <2>3, <3>1, CleanStays
  <2> QED BY <1>4, <2>1, <2>4, <2>5 DEF SweptBy, Rt
<1>14. CASE ListVolumes(p)
  <2>1. /\ d.pc = "rmNames" /\ c.pc = "rmVols" /\ d.rts = c.rts
        /\ d.seen = {i \in Mem : vol[f][i] = "own"}
    BY <1>2, <1>14, RemoveLeads DEF RemoveStep, ListVolumes, At
  <2>2. UNCHANGED <<ctr, vol, net>>
    BY <1>14 DEF ListVolumes, rt
  <2>3. \A i \in Mem : ~Own(ctr[f][i])
    BY <1>2, <1>5, <2>1 DEF SweptBy, RemovePcs
  <2>4. \A r \in c.asked \ c.rts : Clean(r)'
    BY <1>2, <1>5, <2>1, <2>2 DEF SweptBy, RemovePcs, Clean, Labelled
  <2> QED BY <1>4, <2>1, <2>2, <2>3, <2>4 DEF SweptBy, Rt
<1>8. CASE RemoveVolumes(p)
  <2>1. d.pc = "rmNet" /\ c.pc = "rmNames" /\ d.rts = c.rts
    BY <1>4, <1>8, RemoveLeads DEF RemoveStep, RemoveVolumes, At
  <2>2. /\ ctr' = ctr /\ net' = net
        /\ \A s \in R, j \in Mem :
             vol'[s][j] \in IF s = f /\ j \in c.seen THEN Left(s, j) ELSE {vol[s][j]}
    BY <1>2, <1>8, RemoveVolumesFacts
  <2>3. \A i \in Mem : ~Own(ctr[f][i]) /\ (vol[f][i] = "own" => i \in c.seen)
    BY <1>2, <1>5, <2>1 DEF SweptBy, RemovePcs
  <2>4. \A i \in Mem : vol'[f][i] # "own"
    BY <1>2, <2>2, <2>3 DEF Left
  <2>6. \A s \in R, j \in Mem : vol'[s][j] = "own" => vol[s][j] = "own"
    BY <2>2 DEF Left
  <2>5. \A r \in c.asked \ c.rts : Clean(r)'
    <3> SUFFICES ASSUME NEW r \in c.asked \ c.rts PROVE Clean(r)'
      OBVIOUS
    <3>1. r \in R /\ Clean(r)
      BY <1>2, <1>5, <2>1 DEF SweptBy, RemovePcs, Commands
    <3> QED BY <2>2, <2>6, <3>1, CleanStays
  <2> QED BY <1>4, <2>1, <2>2, <2>3, <2>4, <2>5 DEF SweptBy, Rt
<1>9. CASE RemoveNetwork(p)
  <2>1. c.pc = "rmNet" /\ ctr' = ctr /\ vol' = vol
    BY <1>9 DEF RemoveNetwork, At
  <2>2. (\A i \in Mem : ~Own(ctr[f][i])) /\ (\A i \in Mem : vol[f][i] # "own")
    BY <1>2, <1>5, <2>1 DEF SweptBy, RemovePcs
  <2>3. ~BusyNet(f)
    BY <2>2 DEF BusyNet, Own
  <2>4. net' = [net EXCEPT ![f] = 0]
    BY <1>2, <1>9, <2>3 DEF RemoveNetwork, BusyNet
  <2>5. net'[f] = 0 /\ \A r \in R \ {f} : net'[r] = net[r]
    BY <1>2, <2>4 DEF Typed, TypeOK
  <2>6. \A r \in R : r = f => Clean(r)'
    BY <2>1, <2>2, <2>5 DEF Clean, Labelled
  <2>7. \A r \in c.asked \ c.rts : Clean(r)'
    <3> SUFFICES ASSUME NEW r \in c.asked \ c.rts PROVE Clean(r)'
      OBVIOUS
    <3>1. r \in R /\ Clean(r) /\ r # f
      BY <1>2, <1>5, <2>1 DEF SweptBy, RemovePcs, Commands
    <3> QED BY <2>1, <2>5, <3>1, CleanStays
  <2>8. \A r \in c.asked \ (c.rts \ {f}) : Clean(r)'
    BY <1>2, <2>6, <2>7
  <2>9. \/ d.pc = "rmCtrs" /\ d.rts = c.rts \ {f}
        \/ d.pc = "removed" /\ d.rts = c.rts /\ c.rts = {f}
    BY <1>2, <1>9, RemoveLeads DEF RemoveStep
  <2>10. CASE d.pc = "rmCtrs" /\ d.rts = c.rts \ {f}
    BY <1>4, <2>8, <2>10 DEF SweptBy
  <2>11. CASE d.pc = "removed" /\ d.rts = c.rts /\ c.rts = {f}
    BY <1>4, <2>1, <2>2, <2>5, <2>7, <2>11 DEF SweptBy, Rt
  <2> QED BY <2>9, <2>10, <2>11
<1>10. CASE Removed(p)
  BY <1>4, <1>10, RemoveLeads DEF RemoveStep
<1>11. CASE ReplaceStep(p)
  <2>1. c.op = "replace"
    BY <1>11 DEF ReplaceStep, Terminate, RemoveOld, Relaunch, RemoveExited, RelaunchGivesUp, At,
                 Typed, WellFormed, ReplacePcs
  <2> QED BY <1>1, <1>4, <2>1 DEF WellFormed
<1>12. CASE Failure(p)
  BY <1>4, <1>12, FailureMoves DEF Undisturbed
<1> QED BY <1>6, <1>7, <1>8, <1>9, <1>10, <1>11, <1>12, <1>13, <1>14 DEF Act, RemoveStep

LEMMA SweptStep ==
    ASSUME Typed, Backed, Lonely, Swept, [Next]_vars
    PROVE  Swept'
<1>1. ASSUME NEW p \in Procs, Start(p) PROVE Swept'
  <2>1. Began(p)
    BY <1>1, StartFacts
  <2>2. proc'[p].pc \in RemovePcs => proc'[p].pc = "rmCtrs"
    BY <2>1 DEF Began, RemovePcs
  <2> QED BY <2>1, <2>2 DEF Began, Swept, SweptBy, Undisturbed
<1>2. ASSUME NEW p \in Procs, Act(p) PROVE Swept'
  <2> SUFFICES ASSUME NEW q \in Procs, Undisturbed(proc'[q]) PROVE SweptBy(q)'
    BY DEF Swept
  <2>1. q = p
    BY <1>2, OnlyActor DEF Undisturbed
  <2> QED BY <1>2, <2>1, SweptAct
<1>3. CASE Environment
  <2> SUFFICES ASSUME NEW q \in Procs, Undisturbed(proc'[q]) PROVE SweptBy(q)'
    BY DEF Swept
  <2>1. /\ proc'[q].pc = proc[q].pc /\ proc'[q].asked = proc[q].asked
        /\ proc'[q].rts = proc[q].rts /\ proc'[q].seen = proc[q].seen /\ Undisturbed(proc[q])
    BY <1>3, EnvironmentFacts, LocalAssumption DEF Others, Undisturbed
  <2>2. SweptBy(q)
    BY <2>1 DEF Swept
  <2>3. First(proc[q].rts) \in R /\ First(proc[q].rts) = Rt(q) /\ proc[q] \in Commands
    BY <2>1, AtRuntime DEF At, Undisturbed, RemovePcs, Rt
  <2>4. /\ net' = net
        /\ \A r \in R, i \in Mem : /\ Own(ctr'[r][i]) => Own(ctr[r][i])
                                   /\ ctr'[r][i].listed = ctr[r][i].listed
                                   /\ vol'[r][i] = "own" => vol[r][i] = "own"
    BY <1>3, EnvironmentFacts
  <2>5. \A r \in proc[q].asked \ proc[q].rts : Clean(r)'
    <3> SUFFICES ASSUME NEW r \in proc[q].asked \ proc[q].rts PROVE Clean(r)'
      OBVIOUS
    <3>1. r \in R /\ Clean(r)
      BY <2>2, <2>3 DEF SweptBy, Commands
    <3> QED BY <2>4, <3>1, CleanStays
  <2> QED BY <2>1, <2>2, <2>3, <2>4, <2>5 DEF SweptBy, Rt
<1>4. CASE UNCHANGED vars
  BY <1>4 DEF Swept, SweptBy, Undisturbed, Clean, Labelled, Rt, vars, rt
<1> QED BY <1>1, <1>2, <1>3, <1>4, NextCases

-----------------------------------------------------------------------------
(* The theorems *)

LEMMA InvInit == Init => Inv
<1> SUFFICES ASSUME Init PROVE Inv
  OBVIOUS
<1>1. Idle \in Commands /\ WellFormed(Idle) /\ ~Idle.alone /\ Idle.op = "none"
  BY DEF Idle, Commands, WellFormed, UpPcs, RemovePcs, ReplacePcs
<1>2. NoCtr \in Containers /\ ~Own(NoCtr) /\ NoCtr.listed = {}
  BY DEF NoCtr, Containers, Own
<1>3. \A p \in Procs : proc[p] = Idle
  BY DEF Init
<1>4. Typed /\ Backed
  BY <1>1, <1>2, <1>3 DEF Init, Typed, TypeOK, Backed
<1>5. Mine /\ Lonely /\ Looked /\ Prepared /\ Swept
  BY <1>1, <1>3 DEF Mine, Lonely, Looked, Prepared, Swept, Undisturbed
<1> QED BY <1>4, <1>5 DEF Inv

LEMMA InvStep == Inv /\ [Next]_vars => Inv'
BY TypedStep, MineStep, LonelyStep, LookedStep, PreparedStep, SweptStep DEF Inv

\* The inductive invariant holds of every behaviour.
THEOREM Invariant == Spec => []Inv
BY InvInit, InvStep, PTL DEF Spec

\* "local down" that says "removed" next to no other command has left no
\* network, container or labelled volume of the cluster in any runtime that
\* answered it, whatever kills and failures came before; and the cleanup of a
\* failed "local up" that nothing runs next to and nothing shakes takes back
\* everything it made (local.go removeLocalCluster).
THEOREM NothingRemains == Spec => []RemovalComplete
<1>1. Inv => RemovalComplete
  <2> SUFFICES ASSUME Inv PROVE RemovalComplete
    OBVIOUS
  <2>1. ASSUME NEW p \in Procs, At(p, "removed"), Undisturbed(proc[p])
        PROVE  \A r \in proc[p].asked \cup {Rt(p)} : Clean(r)
    <3>1. SweptBy(p)
      BY <2>1 DEF Inv, Swept
    <3>2. Clean(Rt(p)) /\ proc[p].rts = {Rt(p)}
      BY <2>1, <3>1 DEF SweptBy, Clean, Labelled, At
    <3> QED BY <3>1, <3>2 DEF SweptBy
  <2>2. DownComplete
    BY <2>1 DEF DownComplete, Undisturbed, At, RemovePcs
  <2>3. FailedUpLeavesNothing
    BY <2>1 DEF FailedUpLeavesNothing, Undisturbed, At, RemovePcs
  <2> QED BY <2>2, <2>3 DEF RemovalComplete
<1> QED BY <1>1, Invariant, PTL

\* The cleanup of a failed "local up" removes by label, and still never takes
\* containers from under the network of another "up": creating the network,
\* which the runtime refuses when it exists, keeps them apart, for any number
\* of processes, unless somebody removed that "up"'s own network.
THEOREM UpsKeptApart == Spec => UpsDontFight
<1> DEFINE A == \A p \in Procs, r \in R, i \in Mem :
                  proc[p].op = "up" /\ proc'[p] # proc[p] /\ Own(ctr[r][i]) /\ ctr'[r][i] = NoCtr
                    => net[r] \in {0, p} \/ p \in disturbed
<1>1. Inv /\ [Next]_vars => [A]_vars
  <2> SUFFICES ASSUME Inv, Next, NEW p \in Procs, NEW r \in R, NEW i \in Mem,
                      proc[p].op = "up", proc'[p] # proc[p], Own(ctr[r][i]), ctr'[r][i] = NoCtr
               PROVE  net[r] \in {0, p} \/ p \in disturbed
    OBVIOUS
  <2>1. ~Own(ctr'[r][i])
    BY DEF Own, NoCtr
  <2>2. PICK q \in Procs : Act(q)
    <3>1. ASSUME NEW x \in Procs, Start(x) PROVE FALSE
      <4>1. ctr' = ctr
        BY <3>1, StartFacts DEF Began, rt, Inv
      <4> QED BY <2>1, <4>1
    <3>2. ASSUME Environment PROVE FALSE
      BY <2>1, <3>2, EnvironmentFacts DEF Inv
    <3> QED BY <3>1, <3>2, NextCases
  <2>3. proc[q].pc \in {"undoCtr", "rmIDs", "rmOld", "rmExited"} /\ r = Rt(q)
    BY <2>1, <2>2, ActFacts DEF Touches, Inv
  <2>4. q = p
    <3> SUFFICES ASSUME q # p PROVE FALSE
      OBVIOUS
    <3>1. proc'[p] = proc[p]
      <4>1. CASE UpStep(q)
        BY <2>3, <4>1 DEF UpStep, CreateNetwork, CreateCheck, CreateVolume, CreateRun,
           CreateUndo, UndoContainer, UndoLook, UndoVolume, Health, At, Goto, Inv, Typed, TypeOK
      <4>2. CASE RemoveStep(q)
        BY <2>3, <4>2 DEF RemoveStep, ListContainers, RemoveContainers, ListVolumes, RemoveVolumes,
           RemoveNetwork, Removed, At, Goto, Inv, Typed, TypeOK
      <4>3. CASE ReplaceStep(q)
        BY <4>3 DEF ReplaceStep, Terminate, RemoveOld, Relaunch, RemoveExited, RelaunchGivesUp,
           Goto, End,
           Inv, Typed, TypeOK
      <4>4. CASE Failure(q)
        <5>1. CASE RunFailsLate(q)
          BY <2>3, <5>1 DEF RunFailsLate, At
        <5>2. CASE ~RunFailsLate(q)
          BY <2>1, <4>4, <5>2 DEF Failure, UpFails, UndoFails, CheckFails, RemoveFails, Killed, rt
        <5> QED BY <5>1, <5>2
      <4> QED BY <2>2, <4>1, <4>2, <4>3, <4>4 DEF Act
    <3> QED BY <3>1
  <2>5. proc[p].pc \in {"undoCtr", "rmIDs"}
    BY <2>3, <2>4 DEF Inv, Typed, WellFormed, ReplacePcs
  <2> QED BY <2>3, <2>4, <2>5 DEF Inv, Mine
<1> QED BY <1>1, Invariant, PTL DEF Spec, UpsDontFight

\* Whatever the commands, failures and processes, somebody else's container or
\* volume under a member's name goes only by a removal by the name, and only by
\* a command that another one of ours has run beside: alone, what a command has
\* found to be the cluster's own stays so until it removes it (Looked), as
\* nobody else takes it away (manager_lifecycle.go Create and ReplaceMachine,
\* local.go removeLocalCluster).  Removals by ID never hit somebody else's.
THEOREM ForeignSafe == Spec => ForeignKept
<1> DEFINE A == \A r \in R, i \in Mem : Lost(r, i) =>
                  \E p \in Procs :
                    /\ proc'[p] # proc[p] /\ Rt(p) = r /\ ~proc[p].alone
                    /\ IF ctr[r][i].kind = "foreign" /\ ctr'[r][i] # ctr[r][i]
                       THEN proc[p].pc \in {"undoCtr", "rmOld", "rmExited"}
                       ELSE proc[p].pc \in {"undoVol", "rmNames"}
<1>1. Inv /\ [Next]_vars => [A]_vars
  <2> SUFFICES ASSUME Inv, Next, NEW r \in R, NEW i \in Mem, Lost(r, i)
               PROVE  \E p \in Procs :
                        /\ proc'[p] # proc[p] /\ Rt(p) = r /\ ~proc[p].alone
                        /\ IF ctr[r][i].kind = "foreign" /\ ctr'[r][i] # ctr[r][i]
                           THEN proc[p].pc \in {"undoCtr", "rmOld", "rmExited"}
                           ELSE proc[p].pc \in {"undoVol", "rmNames"}
    OBVIOUS
  <2>1. ASSUME NEW p \in Procs, Start(p) PROVE UNCHANGED <<ctr, vol>>
    BY <2>1, StartFacts DEF Began, rt, Inv
  <2>2. ASSUME Environment PROVE FALSE
    BY <2>2, EnvironmentFacts DEF Inv, Lost
  <2>3. PICK p \in Procs : Act(p)
    BY <2>1, <2>2, NextCases DEF Lost
  <2>4. Touches(p)
    BY <2>3, ActFacts DEF Inv
  <2>5. proc[p].pc \in {"undoCtr", "rmOld", "rmExited", "undoVol", "rmNames"} /\ Rt(p) = r
    BY <2>4 DEF Touches, Lost
  <2>6. proc'[p] # proc[p]
    <3>1. CASE UpStep(p)
      <4>1. (Goto(p, "undoLook") /\ proc[p].pc = "undoCtr") \/ Goto(p, "rmCtrs")
        BY <2>5, <3>1 DEF UpStep, CreateNetwork, CreateCheck, CreateVolume, CreateRun,
           CreateUndo, UndoContainer, UndoLook, UndoVolume, Health, At
      <4> QED BY <2>5, <4>1, GotoSame DEF Inv
    <3>2. CASE RemoveStep(p)
      <4>1. RemoveVolumes(p)
        BY <2>5, <3>2 DEF RemoveStep, ListContainers, RemoveContainers, ListVolumes,
           RemoveNetwork, Removed, At
      <4> QED BY <2>5, <3>2, <4>1, RemoveLeads DEF Inv
    <3>3. CASE ReplaceStep(p)
      <4>1. Goto(p, "relaunch") \/ End(p)
        BY <2>5, <3>3 DEF ReplaceStep, Terminate, RemoveOld, Relaunch, RemoveExited,
           RelaunchGivesUp, At
      <4>2. proc'[p].pc \in {"relaunch", "idle"}
        BY <4>1, GotoSame, EndFacts DEF Inv, Idle, Typed, TypeOK
      <4> QED BY <2>5, <4>2
    <3>4. CASE Failure(p)
      <4>1. UNCHANGED <<ctr, vol>>
        BY <2>5, <3>4 DEF Failure, UpFails, UndoFails, CheckFails, RunFailsLate, RemoveFails,
           Killed, At, rt
      <4> QED BY <4>1 DEF Lost
    <3> QED BY <2>3, <3>1, <3>2, <3>3, <3>4 DEF Act
  <2>7. ~proc[p].alone
    <3> SUFFICES ASSUME proc[p].alone PROVE FALSE
      OBVIOUS
    <3>1. CASE ctr[r][i].kind = "foreign" /\ ctr'[r][i] # ctr[r][i]
      <4>1. proc[p].pc \in {"undoCtr", "rmOld", "rmExited"} /\ i = K(p)
        BY <2>4, <3>1 DEF Touches
      <4> QED BY <2>5, <3>1, <4>1 DEF Inv, Looked, Own
    <3>2. CASE vol[r][i] = "foreign" /\ vol'[r][i] # "foreign"
      <4>1. \/ proc[p].pc = "undoVol" /\ i = K(p)
            \/ proc[p].pc = "rmNames" /\ i \in proc[p].seen
        BY <2>4, <3>2 DEF Touches
      <4> QED BY <2>5, <3>2, <4>1 DEF Inv, Looked
    <3> QED BY <3>1, <3>2 DEF Lost
  <2>8. IF ctr[r][i].kind = "foreign" /\ ctr'[r][i] # ctr[r][i]
        THEN proc[p].pc \in {"undoCtr", "rmOld", "rmExited"}
        ELSE proc[p].pc \in {"undoVol", "rmNames"}
    BY <2>4 DEF Touches, Lost
  <2> QED BY <2>5, <2>6, <2>7, <2>8
<1> QED BY <1>1, Invariant, PTL DEF Spec, ForeignKept

\* A data volume without the cluster's label is made only while a command that
\* is not alone runs a container: a lonely command always finds the volume
\* it has created, or that the container it replaces was using.
THEOREM RaceForUnlabelled == Spec => UnlabelledNeedsRace
<1>1. Inv /\ [Next]_vars =>
        [(\E r \in R, i \in Mem : vol[r][i] # "plain" /\ vol'[r][i] = "plain")
           => \E p \in Procs : proc[p].pc \in {"run", "relaunch"} /\ ~proc[p].alone]_vars
  <2> SUFFICES ASSUME Inv, Next, NEW r \in R, NEW i \in Mem,
                      vol[r][i] # "plain", vol'[r][i] = "plain"
               PROVE  \E p \in Procs : proc[p].pc \in {"run", "relaunch"} /\ ~proc[p].alone
    OBVIOUS
  <2>1. ASSUME NEW p \in Procs, Start(p) PROVE vol' = vol
    BY <2>1, StartFacts DEF Began, rt, Inv
  <2>2. ASSUME Environment PROVE FALSE
    BY <2>2, EnvironmentFacts DEF Inv
  <2>3. PICK p \in Procs : Act(p)
    BY <2>1, <2>2, NextCases
  <2>4. /\ proc[p].pc \in {"run", "relaunch"} /\ r = Rt(p) /\ i = K(p)
        /\ vol[r][i] = "none"
    BY <2>3, ActFacts DEF Touches, Inv
  <2>5. ~proc[p].alone
    BY <2>4 DEF Inv, Prepared
  <2> QED BY <2>4, <2>5
<1> QED BY <1>1, Invariant, PTL DEF Spec, UnlabelledNeedsRace
=============================================================================

---------------------------- MODULE LocalCluster ----------------------------
(***************************************************************************)
(* Local clusters: the commands "local up", "local replace" and            *)
(* "local down" (cmd/etcd-infra/local.go, local_replace.go) on ONE cluster *)
(* name, run by concurrent processes, over the provider's Create and       *)
(* ReplaceMachine (pkg/providers/local) and a container runtime (external).*)
(*                                                                         *)
(* There is no state file: a cluster is what carries its label (containers *)
(* and data volumes) plus the network of its name.  Creating the network,  *)
(* which the runtime refuses when it exists, is all that keeps two "up"    *)
(* apart.  A volume that `run -v` finds missing is created by the runtime, *)
(* without a label ("plain"); `volume create` adopts an existing one.      *)
(*                                                                         *)
(* Looking (a list by the label, an inspect) and removing are two commands *)
(* everywhere, and a removal goes by what it was given: `rm` of a list by  *)
(* container IDs, every other one by the name, whoever has it by then.     *)
(* LocalProvider tells more of ReplaceMachine's recovery, for one name.    *)
(***************************************************************************)
EXTENDS Integers, Sequences

CONSTANTS
  Procs,       \* concurrent etcd-infra processes
  Runtimes,    \* the installed runtimes, in the order they are probed
  Members,     \* --members
  MaxCreates,  \* bound: "up" and "replace" commands
  MaxFaults,   \* bound: failing commands, exits, kills, silent runtimes, and
               \* containers and volumes of someone else ...
  ForeignAt    \* ... and where: <<runtime, member>> pairs

R == {Runtimes[n] : n \in DOMAIN Runtimes}
Mem == 1..Members

\* 0 stands for "nobody" in net.
ASSUME LocalAssumption ==
  /\ Members \in Nat \ {0}
  /\ Runtimes \in Seq(R) \ {<<>>}
  /\ 0 \notin Procs

VARIABLES
  net,        \* per runtime: the process whose "up" created the network, or 0
  ctr,        \* per runtime and member: the container's kind, and the lists it is on
  vol,        \* per runtime and member: the kind of the data volume
  proc,       \* each process's command
  disturbed,  \* processes whose network somebody else removed
  creates, faults

rt == <<net, ctr, vol>>
vars == <<rt, proc, disturbed, creates, faults>>

\* A container is running or exited with the cluster's label, or foreign.  listed: the processes
\* that hold its ID; another container of the same name has an ID nobody holds yet.
NoCtr == [kind |-> "none", listed |-> {}]
Own(c) == c.kind \in {"running", "exited"}

\* asked: the runtimes that answered the probe; rts: those still to do; k: the
\* member in hand; seen: the volumes on its list; failed: an error was met;
\* alone: no other command has run since this one began; calm: nothing failed or exited since an "up" began.
Idle == [op |-> "none", pc |-> "idle", asked |-> {}, rts |-> {}, k |-> 0, seen |-> {},
         failed |-> FALSE, alone |-> FALSE, calm |-> FALSE]

Init ==
  /\ net = [r \in R |-> 0]
  /\ ctr = [r \in R |-> [i \in Mem |-> NoCtr]]
  /\ vol = [r \in R |-> [i \in Mem |-> "none"]]
  /\ proc = [p \in Procs |-> Idle]
  /\ disturbed = {} /\ creates = 0 /\ faults = 0

At(p, pc) == proc[p].pc = pc

\* localContainerRuntimes probes the candidates in order: the first in S.
First(S) == Runtimes[CHOOSE n \in DOMAIN Runtimes :
              Runtimes[n] \in S /\ \A m \in 1..(n - 1) : Runtimes[m] \notin S]

Rt(p) == First(proc[p].rts)
K(p) == proc[p].k
Goto(p, pc) == proc' = [proc EXCEPT ![p].pc = pc]
Fault == faults < MaxFaults /\ faults' = faults + 1

\* A fault also ends the calm of every running command.
Shaken(q) == [x \in Procs |-> [q[x] EXCEPT !.calm = FALSE]]
Quiet == UNCHANGED <<disturbed, creates, faults>>

SetCtr(r, i, c) == ctr' = [ctr EXCEPT ![r][i] = c]
SetVol(r, i, v) == vol' = [vol EXCEPT ![r][i] = v]

-----------------------------------------------------------------------------
(* Commands *)

Begin(p, op, pc, rts, i) ==
  proc' = [x \in Procs |->
             IF x = p
             THEN [op |-> op, pc |-> pc, asked |-> rts, rts |-> rts, k |-> i, seen |-> {},
                   failed |-> FALSE, calm |-> op = "up",
                   alone |-> \A y \in Procs \ {p} : At(y, "idle")]
             ELSE [proc[x] EXCEPT !.alone = FALSE]]

Probe(S) == /\ S # {}
            /\ IF S = R THEN UNCHANGED faults ELSE Fault

\* "up" takes the first runtime that answers.
StartUp(p, S) ==
  /\ At(p, "idle") /\ creates < MaxCreates /\ creates' = creates + 1
  /\ Probe(S) /\ Begin(p, "up", "net", {First(S)}, 1)
  /\ disturbed' = disturbed \ {p}
  /\ UNCHANGED <<rt>>

\* "down" cleans every runtime that answers.
StartDown(p, S) ==
  /\ At(p, "idle") /\ Probe(S)
  /\ Begin(p, "down", "rmCtrs", S, 1)
  /\ UNCHANGED <<rt, disturbed, creates>>

\* "replace" waits for every endpoint, picks a member (the leader, or by
\* name) and the runtime that knows its container.
StartReplace(p, r, i) ==
  /\ At(p, "idle") /\ creates < MaxCreates /\ creates' = creates + 1
  /\ \A j \in Mem : ctr[r][j].kind = "running"
  /\ Begin(p, "replace", "terminate", {r}, i)
  /\ UNCHANGED <<rt, disturbed, faults>>

End(p) == proc' = [proc EXCEPT ![p] = Idle]

-----------------------------------------------------------------------------
(* local up *)

\* Mutant: an existing network is used.
CreateNetworkAnyway(p) ==
  /\ At(p, "net") /\ Goto(p, "check")
  /\ net' = [net EXCEPT ![Rt(p)] = IF @ = 0 THEN p ELSE @]
  /\ UNCHANGED <<ctr, vol>> /\ Quiet

\* An existing network ends "up" without any cleanup.
CreateNetwork(p) ==
  /\ At(p, "net")
  /\ IF net[Rt(p)] = 0
     THEN /\ net' = [net EXCEPT ![Rt(p)] = p]
          /\ Goto(p, "check")
     ELSE End(p) /\ UNCHANGED net
  /\ UNCHANGED <<ctr, vol>> /\ Quiet

\* Mutant: "up" returns without its cleanup.
CreateCheckReturns(p) ==
  /\ At(p, "check")
  /\ IF ctr[Rt(p)][K(p)] = NoCtr /\ vol[Rt(p)][K(p)] = "none"
     THEN Goto(p, "volume") ELSE Goto(p, "removed")
  /\ UNCHANGED rt /\ Quiet

\* Create: neither the container nor the volume may exist.
CreateCheck(p) ==
  /\ At(p, "check")
  /\ Goto(p, IF ctr[Rt(p)][K(p)] = NoCtr /\ vol[Rt(p)][K(p)] = "none"
             THEN "volume" ELSE "rmCtrs")
  /\ UNCHANGED rt /\ Quiet

\* Mutant: the volume is left to run -v.
CreateVolumeSkipped(p) == At(p, "volume") /\ Goto(p, "run") /\ UNCHANGED rt /\ Quiet

CreateVolume(p) ==
  /\ At(p, "volume") /\ Goto(p, "run")
  /\ SetVol(Rt(p), K(p), IF vol[Rt(p)][K(p)] = "none" THEN "own" ELSE vol[Rt(p)][K(p)])
  /\ UNCHANGED <<net, ctr>> /\ Quiet

\* run: refused when the name is taken or the network is gone.
Launchable(p) == ctr[Rt(p)][K(p)] = NoCtr /\ net[Rt(p)] # 0
Launch(p) ==
  /\ SetCtr(Rt(p), K(p), [kind |-> "running", listed |-> {}])
  /\ SetVol(Rt(p), K(p), IF vol[Rt(p)][K(p)] = "none" THEN "plain" ELSE vol[Rt(p)][K(p)])

CreateRun(p) ==
  /\ At(p, "run")
  /\ IF Launchable(p)
     THEN /\ Launch(p)
          /\ proc' = IF K(p) < Members
                     THEN [proc EXCEPT ![p].pc = "check", ![p].k = @ + 1]
                     ELSE [proc EXCEPT ![p].pc = "health"]
     ELSE Goto(p, "undo") /\ UNCHANGED <<ctr, vol>>
  /\ UNCHANGED net /\ Quiet

\* Create's deferred cleanup, each half an inspect for the label and a removal by the name.
\* Mutant: the cleanup trusts the name.
CreateUndoUnchecked(p) ==
  /\ At(p, "undo") /\ Goto(p, "undoCtr")
  /\ UNCHANGED rt /\ Quiet

CreateUndo(p) ==
  /\ At(p, "undo")
  /\ Goto(p, IF Own(ctr[Rt(p)][K(p)]) THEN "undoCtr" ELSE "undoLook")
  /\ UNCHANGED rt /\ Quiet

UndoContainer(p) ==
  /\ At(p, "undoCtr") /\ Goto(p, "undoLook")
  /\ SetCtr(Rt(p), K(p), NoCtr)
  /\ UNCHANGED <<net, vol>> /\ Quiet

UndoLook(p) ==
  /\ At(p, "undoLook")
  /\ Goto(p, IF vol[Rt(p)][K(p)] = "own" THEN "undoVol" ELSE "rmCtrs")
  /\ UNCHANGED rt /\ Quiet

\* What `volume rm --force` of a volume leaves: one that is in use stays.  Whether somebody else's
\* is in use is not known here.
Left(r, i) ==
  IF Own(ctr[r][i]) THEN {vol[r][i]}
  ELSE {"none"} \cup (IF vol[r][i] = "foreign" THEN {"foreign"} ELSE {})

UndoVolume(p) ==
  /\ At(p, "undoVol") /\ Goto(p, "rmCtrs")
  /\ \E v \in Left(Rt(p), K(p)) : SetVol(Rt(p), K(p), v)
  /\ UNCHANGED <<net, ctr>> /\ Quiet

\* WaitForClusterHealthy: every endpoint answers, or the minute is over.
Health(p) ==
  /\ At(p, "health")
  /\ IF \A i \in Mem : ctr[Rt(p)][i].kind = "running" THEN End(p) ELSE Goto(p, "rmCtrs")
  /\ UNCHANGED rt /\ Quiet

-----------------------------------------------------------------------------
(* removeLocalCluster: "down", and the cleanup of a failed "up" *)

OnList(c, p) == [c EXCEPT !.listed = @ \cup {p}]

\* Mutant: ps without --all.
ListContainersRunning(p) ==
  /\ At(p, "rmCtrs") /\ Goto(p, "rmIDs")
  /\ ctr' = [ctr EXCEPT ![Rt(p)] = [i \in Mem |->
               IF @[i].kind = "running" THEN OnList(@[i], p) ELSE @[i]]]
  /\ UNCHANGED <<net, vol>> /\ Quiet

\* ps --all with the cluster's label.
ListContainers(p) ==
  /\ At(p, "rmCtrs") /\ Goto(p, "rmIDs")
  /\ ctr' = [ctr EXCEPT ![Rt(p)] = [i \in Mem |-> IF Own(@[i]) THEN OnList(@[i], p) ELSE @[i]]]
  /\ UNCHANGED <<net, vol>> /\ Quiet

RemoveContainers(p) ==
  /\ At(p, "rmIDs") /\ Goto(p, "rmVols")
  /\ ctr' = [ctr EXCEPT ![Rt(p)] = [i \in Mem |-> IF p \in @[i].listed THEN NoCtr ELSE @[i]]]
  /\ UNCHANGED <<net, vol>> /\ Quiet

ListVolumes(p) ==
  /\ At(p, "rmVols")
  /\ proc' = [proc EXCEPT ![p].pc = "rmNames", ![p].seen = {i \in Mem : vol[Rt(p)][i] = "own"}]
  /\ UNCHANGED rt /\ Quiet

\* A volume in use stays, and is an error.
RemoveVolumes(p) ==
  LET r == Rt(p) IN
  /\ At(p, "rmNames")
  /\ \E left \in [Mem -> {"none", "own", "plain", "foreign"}] :
        /\ \A i \in Mem : left[i] \in IF i \in proc[p].seen THEN Left(r, i) ELSE {vol[r][i]}
        /\ vol' = [vol EXCEPT ![r] = left]
        /\ proc' = [proc EXCEPT ![p].pc = "rmNet", ![p].seen = {},
                      ![p].failed = @ \/ \E i \in proc[p].seen : left[i] # "none"]
  /\ UNCHANGED <<net, ctr>> /\ Quiet

\* Mutant: the error of the last runtime is the one that is returned.
RemoveNetworkForgets(p) ==
  LET r == Rt(p)
      busy == net[r] # 0 /\ \E i \in Mem : ctr[r][i].kind = "running"
  IN
  /\ At(p, "rmNet")
  /\ net' = IF busy THEN net ELSE [net EXCEPT ![r] = 0]
  /\ disturbed' = IF busy \/ net[r] \in {0, p} THEN disturbed ELSE disturbed \cup {net[r]}
  /\ proc' = IF proc[p].rts # {r}
             THEN [proc EXCEPT ![p].pc = "rmCtrs", ![p].rts = @ \ {r}, ![p].failed = busy]
             ELSE [proc EXCEPT ![p].pc = "removed", ![p].failed = busy]
  /\ UNCHANGED <<ctr, vol, creates, faults>>

\* A network with running containers stays, and is an error; a missing one
\* is not.  "down" goes on with the next runtime whatever happened.
RemoveNetwork(p) ==
  LET r == Rt(p)
      busy == net[r] # 0 /\ \E i \in Mem : ctr[r][i].kind = "running"
  IN
  /\ At(p, "rmNet")
  /\ net' = IF busy THEN net ELSE [net EXCEPT ![r] = 0]
  /\ disturbed' = IF busy \/ net[r] \in {0, p} THEN disturbed ELSE disturbed \cup {net[r]}
  /\ proc' = IF proc[p].rts # {r}
             THEN [proc EXCEPT ![p].pc = "rmCtrs", ![p].rts = @ \ {r},
                               ![p].failed = @ \/ busy]
             ELSE [proc EXCEPT ![p].pc = "removed", ![p].failed = @ \/ busy]
  /\ UNCHANGED <<ctr, vol, creates, faults>>

\* The command reports: "removed local etcd cluster", or its error.
Removed(p) == At(p, "removed") /\ End(p) /\ UNCHANGED rt /\ Quiet

-----------------------------------------------------------------------------
(* local replace: ReplaceMachine and the wait for the endpoints *)

Terminate(p) ==
  /\ At(p, "terminate")
  /\ IF Own(ctr[Rt(p)][K(p)]) THEN Goto(p, "rmOld") ELSE End(p)
  /\ UNCHANGED rt /\ Quiet

\* rm of a name that is gone is an error, or none, with the runtime's version.
RemoveOld(p) ==
  /\ At(p, "rmOld")
  /\ Goto(p, "relaunch") \/ (ctr[Rt(p)][K(p)] = NoCtr /\ End(p))
  /\ SetCtr(Rt(p), K(p), NoCtr)
  /\ UNCHANGED <<net, vol>> /\ Quiet

\* restoreContainer relaunches what is missing and removes what has exited.
Relaunch(p) ==
  LET c == ctr[Rt(p)][K(p)] IN
  /\ At(p, "relaunch")
  /\ \/ Launchable(p) /\ Launch(p) /\ UNCHANGED proc
     \/ c.kind = "exited" /\ Goto(p, "rmExited") /\ UNCHANGED <<ctr, vol>>
     \/ c.kind = "running" /\ End(p) /\ UNCHANGED <<ctr, vol>>
  /\ UNCHANGED net /\ Quiet

RemoveExited(p) ==
  /\ At(p, "rmExited") /\ Goto(p, "relaunch")
  /\ SetCtr(Rt(p), K(p), NoCtr)
  /\ UNCHANGED <<net, vol>> /\ Quiet

\* The recovery budget ends.
RelaunchGivesUp(p) ==
  /\ At(p, "relaunch") /\ End(p) /\ UNCHANGED rt /\ Quiet

-----------------------------------------------------------------------------
(* Failures *)

\* A runtime command of "up" fails without effect, or the cluster is not
\* healthy in time; the cleanup follows.
UpFails(p) ==
  LET c == proc[p] IN
  /\ c.pc \in {"net", "volume", "run", "health"} /\ Fault
  /\ proc' = Shaken([proc EXCEPT ![p] = IF c.pc = "net" THEN Idle
        ELSE [c EXCEPT !.pc = IF c.pc = "run" THEN "undo" ELSE "rmCtrs"]])
  /\ UNCHANGED <<rt, disturbed, creates>>

\* So does a command of Create's cleanup, which goes on regardless.
UndoFails(p) ==
  /\ proc[p].pc \in {"undo", "undoCtr", "undoLook", "undoVol"} /\ Fault
  /\ proc' = Shaken([proc EXCEPT ![p].pc =
                IF @ \in {"undo", "undoCtr"} THEN "undoLook" ELSE "rmCtrs"])
  /\ UNCHANGED <<rt, disturbed, creates>>

\* An inspect that fails counts as "does not exist".
CheckFails(p) ==
  /\ At(p, "check") /\ Fault
  /\ proc' = Shaken([proc EXCEPT ![p].pc = "volume"])
  /\ UNCHANGED <<rt, disturbed, creates>>

\* run takes effect, but its answer or the inspect after it fails.
RunFailsLate(p) ==
  /\ At(p, "run") /\ Launchable(p) /\ Launch(p) /\ Fault
  /\ proc' = Shaken([proc EXCEPT ![p].pc = "undo"])
  /\ UNCHANGED <<net, disturbed, creates>>

\* A command of removeLocalCluster fails: the error is kept, the rest is done.
RemoveFails(p) ==
  LET c == proc[p] IN
  /\ c.pc \in {"rmCtrs", "rmIDs", "rmVols", "rmNames", "rmNet"} /\ Fault
  /\ proc' = Shaken([proc EXCEPT ![p] =
        CASE c.pc \in {"rmCtrs", "rmIDs"} -> [c EXCEPT !.pc = "rmVols", !.failed = TRUE]
          [] c.pc \in {"rmVols", "rmNames"} ->
               [c EXCEPT !.pc = "rmNet", !.seen = {}, !.failed = TRUE]
          [] c.pc = "rmNet" /\ c.rts # {Rt(p)} ->
               [c EXCEPT !.pc = "rmCtrs", !.rts = @ \ {Rt(p)}, !.failed = TRUE]
          [] OTHER -> [c EXCEPT !.pc = "removed", !.failed = TRUE]])
  /\ UNCHANGED <<rt, disturbed, creates>>

Killed(p) ==
  /\ ~At(p, "idle") /\ Fault
  /\ proc' = Shaken([proc EXCEPT ![p] = Idle])
  /\ UNCHANGED <<rt, disturbed, creates>>

Exits(r, i) ==
  /\ ctr[r][i].kind = "running" /\ Fault
  /\ ctr' = [ctr EXCEPT ![r][i].kind = "exited"]
  /\ proc' = Shaken(proc)
  /\ UNCHANGED <<net, vol, disturbed, creates>>

\* Somebody else takes a free name, with a container or a volume.
ForeignTakes(r, i) ==
  /\ <<r, i>> \in ForeignAt
  /\ Fault
  /\ \/ ctr[r][i] = NoCtr /\ SetCtr(r, i, [kind |-> "foreign", listed |-> {}]) /\ UNCHANGED vol
     \/ vol[r][i] = "none" /\ SetVol(r, i, "foreign") /\ UNCHANGED ctr
  /\ UNCHANGED <<net, proc, disturbed, creates>>

-----------------------------------------------------------------------------
UpStep(p) ==
  \/ CreateNetwork(p) \/ CreateCheck(p) \/ CreateVolume(p) \/ CreateRun(p)
  \/ CreateUndo(p) \/ UndoContainer(p) \/ UndoLook(p) \/ UndoVolume(p) \/ Health(p)
RemoveStep(p) ==
  \/ ListContainers(p) \/ RemoveContainers(p) \/ ListVolumes(p) \/ RemoveVolumes(p)
  \/ RemoveNetwork(p) \/ Removed(p)
ReplaceStep(p) ==
  Terminate(p) \/ RemoveOld(p) \/ Relaunch(p) \/ RemoveExited(p) \/ RelaunchGivesUp(p)

Next ==
  \/ \E p \in Procs :
       \/ \E S \in SUBSET R : StartUp(p, S) \/ StartDown(p, S)
       \/ \E r \in R, i \in Mem : StartReplace(p, r, i)
       \/ UpStep(p) \/ RemoveStep(p) \/ ReplaceStep(p)
       \/ UpFails(p) \/ UndoFails(p) \/ CheckFails(p) \/ RunFailsLate(p) \/ RemoveFails(p) \/ Killed(p)
  \/ \E r \in R, i \in Mem : Exits(r, i) \/ ForeignTakes(r, i)

\* A running command goes on, the recovery of "replace" has its budget, and
\* "down" is run again and again.
Fairness ==
  \A p \in Procs :
    /\ WF_vars(UpStep(p) \/ RemoveStep(p) \/ ReplaceStep(p))
    /\ WF_vars(RelaunchGivesUp(p))
    /\ SF_vars(StartDown(p, R))

Spec == Init /\ [][Next]_vars /\ Fairness

-----------------------------------------------------------------------------

Labelled(r) ==
  {i \in Mem : Own(ctr[r][i]) \/ vol[r][i] = "own"}

Clean(r) == net[r] = 0 /\ Labelled(r) = {}

DownComplete ==
  \A p \in Procs :
    At(p, "removed") /\ proc[p].op = "down" /\ ~proc[p].failed /\ proc[p].alone
      => \A r \in proc[p].asked : Clean(r)

FailedUpLeavesNothing ==
  \A p \in Procs :
    At(p, "removed") /\ proc[p].op = "up" /\ proc[p].alone /\ proc[p].calm
      => Clean(Rt(p))

\* "down" says "removed" (local.go:202): a "down" that nothing else ran next
\* to has left nothing of the cluster in any runtime that answered, whatever
\* earlier commands, kills and failures had left there.  An "up" that fails
\* after its network was created takes everything back (local.go:100-104),
\* when nothing runs next to it and its own cleanup meets no failure: also
\* when it failed because a name was taken by someone else.
RemovalComplete == DownComplete /\ FailedUpLeavesNothing

\* The cleanup of a failed "up" goes by the cluster's label, so it would take
\* another "up"'s containers too; the network keeps them apart.  An "up" never
\* removes containers from under a network that another "up" created, unless
\* its own network was removed by a "down" or a cleanup in the meantime.
UpsDontFight ==
  [][\A p \in Procs, r \in R, i \in Mem :
       proc[p].op = "up" /\ proc'[p] # proc[p] /\ Own(ctr[r][i]) /\ ctr'[r][i] = NoCtr
         => net[r] \in {0, p} \/ p \in disturbed]_vars

\* Somebody else's container or volume that goes in this step.
Lost(r, i) ==
  \/ ctr[r][i].kind = "foreign" /\ ctr'[r][i] # ctr[r][i]
  \/ vol[r][i] = "foreign" /\ vol'[r][i] # "foreign"

\* Losing somebody else's container or volume takes two commands of ours at a
\* time: one has found the cluster's own under the name, the other removes it,
\* somebody else takes the name, and the first removes by name what is there
\* by then (manager_lifecycle.go:74-79 and the rm of a replace, local.go:304-312).
\* A command that runs alone removes nothing but the cluster's own, also when
\* a name was taken under its hands; and the containers that "down" and the
\* cleanup remove, by ID, are never somebody else's, whatever else runs.
ForeignKept ==
  [][\A r \in R, i \in Mem : Lost(r, i) =>
       \E p \in Procs :
         /\ proc'[p] # proc[p] /\ Rt(p) = r /\ ~proc[p].alone
         /\ IF ctr[r][i].kind = "foreign" /\ ctr'[r][i] # ctr[r][i]
            THEN proc[p].pc \in {"undoCtr", "rmOld", "rmExited"}
            ELSE proc[p].pc \in {"undoVol", "rmNames"}]_vars

\* A data volume without the label, which no "down" will ever find and which
\* blocks every later "up", comes only from two commands at a time: one
\* removes the volume that the other has created and not used yet.
UnlabelledNeedsRace ==
  [][(\E r \in R, i \in Mem : vol[r][i] # "plain" /\ vol'[r][i] = "plain")
       => \E p \in Procs : proc[p].pc \in {"run", "relaunch"} /\ ~proc[p].alone]_vars

\* Whatever is left over, by failures or kills in any command, goes when
\* "down" is run again and again.
CleanedUp == (\E r \in R : ~Clean(r)) ~> (\A r \in R : Clean(r))
=============================================================================

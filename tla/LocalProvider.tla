--------------------------- MODULE LocalProvider ---------------------------
(***************************************************************************)
(* The local container provider's operations on one existing member        *)
(* (pkg/providers/local): ReplaceMachine with its recovery loop            *)
(* restoreContainer, and Delete, Stop and Start.  Concurrent callers work  *)
(* on one container NAME through a container runtime (docker or podman,    *)
(* external) that resolves the name anew for every command.                *)
(*                                                                         *)
(* A container is its runtime ID, whether it carries the cluster's label,  *)
(* the identity a replacement has to keep (IP, data volume, auxiliary port *)
(* and environment, as one value) and its status.  "created" also stands   *)
(* for "configured" and "restarting"; "nonet" is a running container whose *)
(* network settings are not visible to inspect yet; "partial" is a         *)
(* container that a failed run left behind, which inspect reports as       *)
(* created but which will never start.                                     *)
(*                                                                         *)
(* Every runtime command may fail.  A command whose client is killed by    *)
(* its attempt timeout may have taken effect, may take effect later (the   *)
(* daemon goes on with a run), or never.                                   *)
(***************************************************************************)
EXTENDS Integers, FiniteSets

CONSTANTS
  Procs,       \* concurrent callers of the provider
  Ops,         \* the operations they call: subset of AllOps
  MaxFaults,   \* bound: failing commands, container exits
  MaxForeign,  \* bound: containers put under the name by someone else
  MaxIds,      \* bound: containers ever created
  PartialRuns  \* whether a failing run can leave a partial creation behind

AllOps == {"replace", "delete", "stop", "start"}

ASSUME OpsAssumption == Ops \subseteq AllOps /\ Ops # {}
ASSUME BoundAssumption == {MaxFaults, MaxForeign, MaxIds} \subseteq Nat /\ PartialRuns \in BOOLEAN

VARIABLES
  ctr,        \* the container under the name, or NoCtr
  nextId,     \* runtime IDs are never reused
  late,       \* run commands that the daemon may still complete
  pc, op,     \* each caller's position and operation
  before,     \* replacementSpec taken by each ReplaceMachine: [id, spec]
  cancelled,  \* the caller's context is done
  stranded,   \* why the recovery gave up: "no", "budget", "remove"
  faults, foreign,
  seen,       \* the foreign container each caller's last inspect found, or 0
  foreignHit  \* containers without the cluster's label that a command changed
              \* although the caller had inspected that very container

vars == <<ctr, nextId, late, pc, op, before, cancelled, stranded, faults, foreign, seen, foreignHit>>

NoCtr == [id |-> 0, own |-> FALSE, spec |-> "none", st |-> "none"]
NoSpec == [id |-> 0, spec |-> "none"]

Original == [id |-> 1, own |-> TRUE, spec |-> "pinned", st |-> "running"]

Init ==
  /\ ctr = Original /\ nextId = 2 /\ late = {}
  /\ pc = [p \in Procs |-> "idle"]
  /\ op \in [Procs -> Ops]
  /\ before = [p \in Procs |-> NoSpec]
  /\ cancelled = [p \in Procs |-> FALSE]
  /\ stranded = [p \in Procs |-> "no"]
  /\ faults = 0 /\ foreign = 0 /\ foreignHit = {} /\ seen = [p \in Procs |-> 0]

Exists == ctr # NoCtr
Goto(p, l) == pc' = [pc EXCEPT ![p] = l]
Quiet == UNCHANGED <<op, cancelled, foreign>>
Fault == faults < MaxFaults /\ faults' = faults + 1

\* Remember a changed container that is not ours and not new to p.
Hit(p) == foreignHit' = foreignHit \cup (IF Exists /\ ~ctr.own /\ ctr.id = seen[p] THEN {ctr.id} ELSE {})
Seen(p) == seen' = [seen EXCEPT ![p] = IF Exists /\ ~ctr.own THEN ctr.id ELSE 0]

-----------------------------------------------------------------------------
(* The container runtime (external). *)

NewCtr(own, spec) == [id |-> nextId, own |-> own, spec |-> spec, st |-> "created"]

\* Mutant: the new container gets the ID of the one before it.
CreateCtrReusesId(own, spec) ==
  IF Exists \/ nextId > MaxIds
    THEN UNCHANGED <<ctr, nextId>>
    ELSE ctr' = NewCtr(own, spec) /\ UNCHANGED nextId

\* A run under a taken name is refused; MaxIds ends the runtime's patience.
CreateCtr(own, spec) ==
  IF Exists \/ nextId > MaxIds
    THEN UNCHANGED <<ctr, nextId>>
    ELSE ctr' = NewCtr(own, spec) /\ nextId' = nextId + 1

\* rm --force NAME.  An absent name is an error for some runtimes only.
RmOk(p) == ctr' = NoCtr /\ Hit(p) /\ UNCHANGED faults
RmError(p) ==
  \/ Fault /\ ctr' = NoCtr /\ Hit(p)
  \/ Fault /\ UNCHANGED <<ctr, foreignHit>>
  \/ ~Exists /\ UNCHANGED <<ctr, foreignHit, faults>>

CtrStep(from, to) ==
  /\ Exists /\ ctr.st = from
  /\ ctr' = [ctr EXCEPT !.st = to]
  /\ UNCHANGED <<nextId, late, pc, op, before, cancelled, stranded, foreign, foreignHit, seen>>

CtrStarts == CtrStep("created", "nonet") /\ UNCHANGED faults
CtrNetworked == CtrStep("nonet", "running") /\ UNCHANGED faults
CtrExits == \E from \in {"created", "nonet", "running"} : CtrStep(from, "exited") /\ Fault

\* A run whose client was killed completes after all, if the name is free.
LateRun(s) ==
  /\ s \in late
  /\ late' = late \ {s}
  /\ CreateCtr(TRUE, s)
  /\ UNCHANGED <<pc, op, before, cancelled, stranded, faults, foreign, foreignHit, seen>>

\* Someone else puts a container under the free name: with another label, or
\* with the cluster's label but another identity.
ForeignRun(own) ==
  /\ ~Exists /\ nextId <= MaxIds /\ foreign < MaxForeign
  /\ CreateCtr(own, "other")
  /\ foreign' = foreign + 1
  /\ UNCHANGED <<late, pc, op, before, cancelled, stranded, faults, foreignHit, seen>>

CallerCancels(p) ==
  /\ ~cancelled[p]
  /\ pc[p] \notin {"ok", "err"}
  /\ cancelled' = [cancelled EXCEPT ![p] = TRUE]
  /\ UNCHANGED <<ctr, nextId, late, pc, op, before, stranded, faults, foreign, foreignHit, seen>>

-----------------------------------------------------------------------------
(* The provider. *)

\* ownedContainer, and for a replacement replacementSpecFromInspect, which
\* needs the network address of a running container.
OwnedContainer(p) ==
  /\ pc[p] = "idle"
  /\ \/ /\ ~cancelled[p] /\ Exists /\ ctr.own
        /\ op[p] = "replace" => ctr.st = "running"
        /\ before' = [before EXCEPT ![p] = [id |-> ctr.id, spec |-> ctr.spec]]
        /\ Goto(p, "command") /\ UNCHANGED faults
     \/ /\ \/ cancelled[p] \/ ~Exists \/ ~ctr.own \/ (op[p] = "replace" /\ ctr.st # "running")
        /\ Goto(p, "err") /\ UNCHANGED <<before, faults>>
     \/ Fault /\ Goto(p, "err") /\ UNCHANGED before
  /\ Quiet /\ Seen(p) /\ UNCHANGED <<ctr, nextId, late, stranded, foreignHit>>

\* Delete: rm --force under the caller's context.
Delete(p) ==
  /\ pc[p] = "command" /\ op[p] = "delete"
  /\ \/ RmOk(p) /\ Goto(p, "ok")
     \/ RmError(p) /\ Goto(p, "err")
     \/ cancelled[p] /\ Goto(p, "err") /\ UNCHANGED <<ctr, foreignHit, faults>>
  /\ Quiet /\ UNCHANGED <<nextId, late, before, stranded, seen>>

\* Stop and Start.
Power(p) ==
  /\ pc[p] = "command" /\ op[p] \in {"stop", "start"}
  /\ \/ /\ Exists /\ ~cancelled[p] /\ Hit(p)
        /\ ctr' = [ctr EXCEPT !.st =
                     IF op[p] = "stop" /\ @ \in {"nonet", "running"} THEN "exited"
                     ELSE IF op[p] = "start" /\ @ \in {"exited", "partial"} THEN "created"
                     ELSE @]
        /\ Goto(p, "ok") /\ UNCHANGED faults
     \/ /\ ~Exists \/ cancelled[p]
        /\ Goto(p, "err") /\ UNCHANGED <<ctr, foreignHit, faults>>
     \/ Fault /\ Goto(p, "err") /\ UNCHANGED <<ctr, foreignHit>>
  /\ Quiet /\ UNCHANGED <<nextId, late, before, stranded, seen>>

\* ReplaceMachine's own rm --force, which the caller's cancellation does not reach.
Terminate(p) ==
  /\ pc[p] = "command" /\ op[p] = "replace"
  /\ \/ RmOk(p) /\ Goto(p, "downtime") /\ UNCHANGED stranded
     \/ RmError(p) /\ Goto(p, "err") /\ stranded' = [stranded EXCEPT ![p] = "remove"]
  /\ Quiet /\ UNCHANGED <<nextId, late, before, seen>>

\* Mutant: the wait returns the caller's error.
DowntimeReturnsCancel(p) ==
  /\ pc[p] = "downtime"
  /\ Goto(p, IF cancelled[p] THEN "err" ELSE "restore")
  /\ Quiet /\ UNCHANGED <<ctr, nextId, late, before, stranded, faults, foreignHit, seen>>

\* The downtime timer fires, or the caller's cancellation cuts the wait short.
Downtime(p) ==
  /\ pc[p] = "downtime"
  /\ Goto(p, "restore")
  /\ Quiet /\ UNCHANGED <<ctr, nextId, late, before, stranded, faults, foreignHit, seen>>

\* Mutant: a container of that name is taken to be the cluster's.
StatusIgnoresLabel(p) ==
  IF ~Exists THEN "missing"
  ELSE IF ctr.st \in {"created", "partial", "nonet"} THEN "wait"
  ELSE IF ctr.st = "exited" THEN "stopped"
  ELSE IF ctr.id = before[p].id THEN "same"
  ELSE IF ctr.spec # before[p].spec THEN "mismatch"
  ELSE "replaced"

\* What ownedContainer and the comparison with the spec make of the container.
Status(p) ==
  IF ~Exists \/ ~ctr.own THEN "missing"
  ELSE IF ctr.st \in {"created", "partial", "nonet"} THEN "wait"
  ELSE IF ctr.st = "exited" THEN "stopped"
  ELSE IF ctr.id = before[p].id THEN "same"
  ELSE IF ctr.spec # before[p].spec THEN "mismatch"
  ELSE "replaced"

\* One round of restoreContainer's switch: where each observation leads.
NextOf(status) ==
  CASE status = "missing"  -> "run"
    [] status = "wait"     -> "tick"
    [] status = "stopped"  -> "rmStopped"
    [] status = "same"     -> "err"
    [] status = "mismatch" -> "rmMismatch"
    [] status = "replaced" -> "ok"

\* Mutant: any running container is taken for the replacement.
RestoreInspectAnyRunning(p) ==
  /\ pc[p] = "restore"
  /\ Goto(p, IF Status(p) = "mismatch" THEN "ok" ELSE NextOf(Status(p)))
  /\ Quiet /\ Seen(p) /\ UNCHANGED <<ctr, nextId, late, before, stranded, faults, foreignHit>>

\* ownedContainer in the loop; a failing inspect takes the relaunch branch.
RestoreInspect(p) ==
  /\ pc[p] = "restore"
  /\ \/ Goto(p, NextOf(Status(p))) /\ UNCHANGED faults
     \/ Fault /\ Goto(p, "run")
  /\ Quiet /\ Seen(p) /\ UNCHANGED <<ctr, nextId, late, before, stranded, foreignHit>>

\* A stopped container is removed; whether that worked is seen on the next tick.
RemoveStopped(p) ==
  /\ pc[p] = "rmStopped"
  /\ RmOk(p) \/ RmError(p)
  /\ Goto(p, "tick")
  /\ Quiet /\ UNCHANGED <<nextId, late, before, stranded, seen>>

\* A container with another identity is removed; failing that, give up.
RemoveMismatch(p) ==
  /\ pc[p] = "rmMismatch"
  /\ \/ RmOk(p) /\ Goto(p, "tick") /\ UNCHANGED stranded
     \/ RmError(p) /\ Goto(p, "err") /\ stranded' = [stranded EXCEPT ![p] = "remove"]
  /\ Quiet /\ UNCHANGED <<nextId, late, before, seen>>

\* Mutant: the relaunch does not pin the identity.
RunUnpinned(p) ==
  /\ pc[p] = "run"
  /\ CreateCtr(TRUE, "other")
  /\ Goto(p, "tick")
  /\ Quiet /\ UNCHANGED <<late, before, stranded, faults, foreignHit, seen>>

\* run with the pinned identity: a name conflict is an error, like a refused
\* command; a killed one may complete later; one whose start fails (its host
\* port is still taken, say) leaves the container created.
Run(p) ==
  /\ pc[p] = "run"
  /\ \/ CreateCtr(TRUE, before[p].spec) /\ UNCHANGED <<faults, late>>
     \/ /\ Fault
        /\ late' \in {late, late \cup {before[p].spec}}
        /\ UNCHANGED <<ctr, nextId>>
     \/ /\ Fault /\ PartialRuns /\ ~Exists /\ nextId <= MaxIds
        /\ ctr' = [NewCtr(TRUE, before[p].spec) EXCEPT !.st = "partial"]
        /\ nextId' = nextId + 1
        /\ UNCHANGED late
  /\ Goto(p, "tick")
  /\ Quiet /\ UNCHANGED <<before, stranded, foreignHit, seen>>

Tick(p) ==
  /\ pc[p] = "tick"
  /\ Goto(p, "restore")
  /\ Quiet /\ UNCHANGED <<ctr, nextId, late, before, stranded, faults, foreignHit, seen>>

\* Mutant: the loop ends without an error when its context is done.
BudgetExpiresNil(p) ==
  /\ pc[p] = "tick"
  /\ Goto(p, "ok")
  /\ Quiet /\ UNCHANGED <<ctr, nextId, late, before, stranded, faults, foreignHit, seen>>

\* The recovery budget of 120 seconds is used up.
BudgetExpires(p) ==
  /\ pc[p] = "tick"
  /\ Goto(p, "err")
  /\ stranded' = [stranded EXCEPT ![p] = "budget"]
  /\ Quiet /\ UNCHANGED <<ctr, nextId, late, before, faults, foreignHit, seen>>

\* Everything a caller does except running out of its budget.
Work(p) ==
  \/ OwnedContainer(p) \/ Delete(p) \/ Power(p) \/ Terminate(p) \/ Downtime(p)
  \/ RestoreInspect(p) \/ RemoveStopped(p) \/ RemoveMismatch(p) \/ Run(p) \/ Tick(p)

Finished == (\A p \in Procs : pc[p] \in {"ok", "err"}) /\ UNCHANGED vars

Next ==
  \/ \E p \in Procs : Work(p) \/ BudgetExpires(p) \/ CallerCancels(p)
  \/ CtrStarts \/ CtrNetworked \/ CtrExits
  \/ \E s \in late : LateRun(s)
  \/ \E own \in BOOLEAN : ForeignRun(own)
  \/ Finished

Spec == Init /\ [][Next]_vars

\* A caller goes on with its commands and a created container comes up; nothing
\* is assumed of the budget's timer.
FairSpec ==
  /\ Spec
  /\ \A p \in Procs : WF_vars(Work(p))
  /\ WF_vars(CtrStarts) /\ WF_vars(CtrNetworked)

-----------------------------------------------------------------------------
(* Properties. *)

Specs == {"none", "pinned", "other"}

\* Every variable keeps its type.
TypeOK ==
  /\ ctr \in [id : Nat, own : BOOLEAN, spec : Specs,
              st : {"none", "created", "partial", "nonet", "running", "exited"}]
  /\ nextId \in Nat /\ ctr.id < nextId
  /\ late \subseteq Specs
  /\ pc \in [Procs -> {"idle", "command", "downtime", "restore", "rmStopped",
                       "rmMismatch", "run", "tick", "ok", "err"}]
  /\ op \in [Procs -> AllOps]
  /\ before \in [Procs -> [id : Nat, spec : Specs]]
  /\ cancelled \in [Procs -> BOOLEAN]
  /\ stranded \in [Procs -> {"no", "budget", "remove"}]
  /\ faults \in 0..MaxFaults /\ foreign \in 0..MaxForeign
  /\ seen \in [Procs -> 0..MaxIds] /\ foreignHit \subseteq 1..MaxIds

\* "a nil error always means the member was replaced": the container that
\* ReplaceMachine found is gone for good when it has returned nil, and the one
\* it accepted was ours, running and of the preserved identity.
ReplacedMeansReplaced ==
  [][\A p \in Procs : op[p] = "replace" /\ pc[p] # "ok" /\ pc'[p] = "ok" =>
       /\ ctr'.id > before[p].id
       /\ ctr'.own /\ ctr'.st = "running" /\ ctr'.spec = before[p].spec]_vars

\* Once ReplaceMachine has removed the member's container, only the recovery
\* budget or a failed removal can end it with an error: a caller that cancels
\* never leaves the member down.
CancelNeverStrands ==
  \A p \in Procs :
    op[p] = "replace" /\ pc[p] = "err" /\ before[p] # NoSpec => stranded[p] # "no"

\* If every replacement that ran returned nil and nobody else interfered, the
\* member's container exists under its name with its original identity, no
\* matter how the callers, the crashes and the late commands interleaved.
NoSilentLoss ==
  (\A p \in Procs : op[p] = "replace" /\ pc[p] \in {"idle", "ok"}) /\ foreign = 0 =>
    Exists /\ ctr.own /\ ctr.spec = "pinned"

\* The provider never removes, stops or starts a container that it inspected
\* and that does not carry the cluster's label.  (Between an inspect and the
\* command, which goes by name, the container may be exchanged.)
OnlyOwnedTouched == foreignHit = {}

\* Commands fail only finitely often, so a caller returns without the help of
\* the recovery budget, unless somebody else took the name or a partial
\* creation holds it.
CallsReturn ==
  \A p \in Procs : <>(pc[p] \in {"ok", "err"} \/ foreign > 0 \/ ctr.st = "partial")
=============================================================================

----------------------------- MODULE AwsCluster -----------------------------
(***************************************************************************)
(* etcd clusters on EC2: the commands "aws up", "aws replace" and          *)
(* "aws down" (cmd/etcd-infra/aws.go, aws_replace.go) over the provider's  *)
(* Create, Delete, ReplaceMachine and DeleteDataVolume                     *)
(* (pkg/providers/aws/manager_lifecycle.go) and EC2 itself (external).     *)
(*                                                                         *)
(* The only record of what a command created is a JSON state file that is  *)
(* replaced by temp file and rename, so a write happens whole or not at    *)
(* all.  Each process holds its own copy, mem, from the moment it reads    *)
(* the file; there is no lock.  A member record is the instance ID and the *)
(* data volume ID (0 while not recorded).                                  *)
(*                                                                         *)
(* EC2: an instance is running, shutting (terminate accepted), terminated  *)
(* or purged (the API no longer knows it).  A member keeps its private IP, *)
(* here its member number, until it is terminated.  A volume created at    *)
(* launch takes the ID of its instance and survives termination.           *)
(*                                                                         *)
(* A call that fails consumes a fault; a RunInstances, TerminateInstances  *)
(* or DeleteVolume that fails may have taken effect all the same: its      *)
(* answer was lost, or an interrupt came while the command waited.  After  *)
(* an interrupt (SIGINT cancels the command's context) every EC2 call of   *)
(* the process fails before it is sent, and file writes, which take no     *)
(* context, still work.  A crash is SIGKILL.                               *)
(***************************************************************************)
EXTENDS Integers, Sequences, FiniteSets, SequencesExt

CONSTANTS
  Procs,       \* concurrent etcd-infra processes on one cluster name
  Members,     \* member count of "aws up"
  Clients,     \* stress client count of "aws up"
  Replaceable, \* --replaceable: members have a dedicated data volume
  Ops,         \* the commands: subset of {"up", "replace", "down"}
  MaxInst,     \* bound: instances ever launched (the account's limit)
  MaxFaults,   \* bound: failing calls and writes, interrupts, crashes
  MaxCmds,     \* bound: "up" and "replace" commands ("down" is unbounded)
  Interrupts, Crashes, Purges,  \* which of these can happen
  StartUp      \* TRUE: start from a cluster that is already up

ASSUME CountAssumption ==
  /\ Members \in Nat \ {0} /\ Clients \in Nat
  /\ {MaxInst, MaxFaults, MaxCmds} \subseteq Nat
  /\ StartUp => MaxInst >= Members + Clients
ASSUME SwitchAssumption ==
  /\ {Replaceable, Interrupts, Crashes, Purges, StartUp} \subseteq BOOLEAN
  /\ Ops \subseteq {"up", "replace", "down"}

VARIABLES
  inst,       \* EC2 instances: [st, ip] by ID
  vol,        \* EC2 volumes: [st, att] by ID
  file,       \* the state file, or NoFile
  pc, op,     \* each process's position and command
  mem,        \* its copy of the state
  kept,       \* "down": the records whose instance could not be deleted
  k,          \* loop index; the member number in "replace"
  nid,        \* the instance it has launched and not recorded yet, or 0
  rv,         \* "replace": the data volume in the captured launch spec
  cancelled,  \* its context is cancelled
  told,       \* instances named in an error that tells the user to clean up
  lost,       \* instances launched but not recorded when a process was killed
  abandoned,  \* replacements whose best-effort termination failed
  unheard,    \* instances launched by a RunInstances that returned an error
  faults, cmds

procVars == <<pc, op, mem, kept, k, nid, rv, cancelled>>
ghostVars == <<told, lost, abandoned, unheard>>
vars == <<inst, vol, file, procVars, ghostVars, faults, cmds>>

Ids == 1..MaxInst
NoFile == [name |-> "none"]
State(ms, cs) == [name |-> "state", ms |-> ms, cs |-> cs]
Empty == State(<<>>, <<>>)
Rec(i, v) == [id |-> i, vol |-> v]

NoInst == [st |-> "none", ip |-> 0]
NoVol == [st |-> "none", att |-> 0]
HasVol(i) == Replaceable /\ i <= Members

\* A cluster that "aws up" has completed.
UpFile == State([i \in 1..Members |-> Rec(i, IF Replaceable THEN i ELSE 0)],
                [c \in 1..Clients |-> Rec(Members + c, 0)])

Init ==
  /\ inst = [i \in Ids |-> IF StartUp /\ i <= Members + Clients
                             THEN [st |-> "running", ip |-> IF i <= Members THEN i ELSE 0]
                             ELSE NoInst]
  /\ vol = [i \in Ids |-> IF StartUp /\ HasVol(i) THEN [st |-> "ok", att |-> i] ELSE NoVol]
  /\ file = IF StartUp THEN UpFile ELSE NoFile
  /\ pc = [p \in Procs |-> "idle"] /\ op = [p \in Procs |-> "none"]
  /\ mem = [p \in Procs |-> Empty] /\ kept = [p \in Procs |-> Empty]
  /\ k = [p \in Procs |-> 0] /\ nid = [p \in Procs |-> 0] /\ rv = [p \in Procs |-> 0]
  /\ cancelled = [p \in Procs |-> FALSE]
  /\ told = {} /\ lost = {} /\ abandoned = {} /\ unheard = {}
  /\ faults = 0 /\ cmds = 0

Done == {"idle", "ok", "err"}
RecsOf(s) == IF s = NoFile THEN {} ELSE ToSet(s.ms) \cup ToSet(s.cs)
IdsOf(s) == {r.id : r \in RecsOf(s)}
VolsOf(s) == {r.vol : r \in RecsOf(s)} \ {0}
Size(s) == Len(s.ms) + Len(s.cs)
MemOf(s, i) == s.ms[i]

At(p, l) == pc[p] = l
Goto(p, l) == pc' = [pc EXCEPT ![p] = l]
SetMem(p, s) == mem' = [mem EXCEPT ![p] = s]
SetNid(p, i) == nid' = [nid EXCEPT ![p] = i]
SetK(p, n) == k' = [k EXCEPT ![p] = n]

Works(p) == ~cancelled[p] /\ UNCHANGED faults
Fault == faults < MaxFaults /\ faults' = faults + 1
Fails(p) == IF cancelled[p] THEN UNCHANGED faults ELSE Fault

\* writeAWSState.  A file write takes no context: only a fault stops it.
Write(s) == file' = s /\ UNCHANGED faults
WriteFails == Fault /\ UNCHANGED file

Rest(p) == UNCHANGED <<op, cancelled, lost, cmds>>

-----------------------------------------------------------------------------
(* EC2 (external). *)

NewId == Cardinality({i \in Ids : inst[i] # NoInst}) + 1

\* No further instance can be launched: RunInstances reports the limit.
QuotaReached == NewId > MaxInst

Launch(ip, withVol) ==
  /\ ~QuotaReached
  /\ inst' = [inst EXCEPT ![NewId] = [st |-> "running", ip |-> ip]]
  /\ vol' = IF withVol THEN [vol EXCEPT ![NewId] = [st |-> "ok", att |-> NewId]] ELSE vol

\* TerminateInstances is accepted for every instance the API still knows.
Terminable(i) == inst[i].st \in {"running", "shutting", "terminated"}
Terminate(i) == inst' = IF inst[i].st = "running" THEN [inst EXCEPT ![i].st = "shutting"] ELSE inst
Terminated(i) == inst[i].st \in {"terminated", "purged"}

\* A TerminateInstances of p that failed: not sent or refused, or its answer lost.
TerminateUnheard(p, i) == UNCHANGED inst \/ (~cancelled[p] /\ Terminable(i) /\ Terminate(i))

Cloud == UNCHANGED <<file, procVars, ghostVars, faults, cmds>>

Ec2Terminated(i) ==
  /\ inst[i].st = "shutting"
  /\ inst' = [inst EXCEPT ![i].st = "terminated"]
  /\ vol' = [v \in Ids |-> IF vol[v].att = i THEN [vol[v] EXCEPT !.att = 0] ELSE vol[v]]
  /\ Cloud

\* Terminated instances leave the API after about an hour.
Ec2Purges(i) ==
  /\ Purges /\ inst[i].st = "terminated"
  /\ inst' = [inst EXCEPT ![i].st = "purged"]
  /\ UNCHANGED vol /\ Cloud

-----------------------------------------------------------------------------
(* Processes start, are interrupted and are killed. *)

\* readAWSState refuses a state without any instance.
Readable == file # NoFile /\ Size(file) > 0

Start(p, o, l) ==
  /\ At(p, "idle") \/ At(p, "ok") \/ At(p, "err")
  /\ o \in Ops
  /\ op' = [op EXCEPT ![p] = o]
  /\ Goto(p, l)
  /\ kept' = [kept EXCEPT ![p] = Empty]
  /\ SetNid(p, 0) /\ rv' = [rv EXCEPT ![p] = 0]
  /\ cancelled' = [cancelled EXCEPT ![p] = FALSE]
  /\ UNCHANGED <<inst, vol, file, ghostVars, faults>>

Bounded == cmds < MaxCmds /\ cmds' = cmds + 1

\* An existing state file is never overwritten by a new cluster.
StartUpCmd(p) ==
  /\ Start(p, "up", IF file = NoFile THEN "create" ELSE "err")
  /\ SetMem(p, Empty) /\ SetK(p, 1) /\ Bounded

StartDown(p) ==
  /\ Start(p, "down", IF file = NoFile THEN "ok" ELSE IF Readable THEN "delete" ELSE "err")
  /\ SetMem(p, IF Readable THEN file ELSE Empty) /\ SetK(p, 1)
  /\ UNCHANGED cmds

\* The data volume is looked up before anything is changed; a terminated
\* instance shows none.
StartReplace(p, m) ==
  /\ Readable /\ m \in 1..Len(file.ms)
  /\ Start(p, "replace", IF Replaceable /\ inst[MemOf(file, m).id].st = "running" THEN "spec" ELSE "err")
  /\ SetMem(p, file) /\ SetK(p, m) /\ Bounded

Interrupt(p) ==
  /\ Interrupts /\ pc[p] \notin Done /\ ~cancelled[p]
  /\ cancelled' = [cancelled EXCEPT ![p] = TRUE] /\ Fault
  /\ UNCHANGED <<inst, vol, file, pc, op, mem, kept, k, nid, rv, ghostVars, cmds>>

Crash(p) ==
  /\ Crashes /\ pc[p] \notin Done
  /\ Goto(p, "idle") /\ Fault
  /\ lost' = lost \cup ({nid[p]} \ {0})
  /\ SetNid(p, 0)
  /\ UNCHANGED <<inst, vol, file, op, mem, kept, k, rv, cancelled, told, abandoned, unheard, cmds>>

-----------------------------------------------------------------------------
(* aws up *)

UpCreated(p) ==
  Goto(p, IF Len(mem[p].ms) < Members THEN "create"
          ELSE IF Len(mem[p].cs) < Clients THEN "createClient" ELSE "boot")

CallFails(p) == Fails(p) /\ Goto(p, "err") /\ UNCHANGED <<inst, vol, file, mem, k, nid>>

UpRest(p) == Rest(p) /\ UNCHANGED <<kept, rv, abandoned, unheard>>

\* A RunInstances that returns an error although EC2 launched the instance.
\* An instance limit or an address in use is an answer that rules this out.
LaunchUnheard(p, ip, withVol) ==
  /\ ~cancelled[p] /\ Fault
  /\ Launch(ip, withVol) /\ unheard' = unheard \cup {NewId}
  /\ Goto(p, "err")

\* manager.Create for a member or, once the members are ready, for a stress
\* client (whose subnet lookup and availability-zone check fail alike).
UpCreate(p) ==
  /\ At(p, "create") \/ At(p, "createClient")
  /\ LET isMember == At(p, "create")
         ip == IF isMember THEN Len(mem[p].ms) + 1 ELSE 0
     IN \/ /\ Works(p) /\ Launch(ip, isMember /\ Replaceable)
           /\ Goto(p, IF isMember THEN "save" ELSE "saveClient")
           /\ SetNid(p, NewId) /\ UNCHANGED <<file, mem, k, unheard>>
        \/ LaunchUnheard(p, ip, isMember /\ Replaceable) /\ UNCHANGED <<file, mem, k, nid>>
        \/ CallFails(p) /\ UNCHANGED unheard
        \/ /\ QuotaReached /\ Goto(p, "err")
           /\ UNCHANGED <<inst, vol, file, mem, k, nid, unheard, faults>>
  /\ Rest(p) /\ UNCHANGED <<kept, rv, told, abandoned>>

Appended(p) ==
  IF At(p, "save") THEN State(Append(mem[p].ms, Rec(nid[p], 0)), mem[p].cs)
                   ELSE State(mem[p].ms, Append(mem[p].cs, Rec(nid[p], 0)))

\* Mutant: the members are written once, after the loop.
UpSaveOnlyLast(p) ==
  /\ At(p, "save") \/ At(p, "saveClient")
  /\ LET s == Appended(p) IN
     /\ SetMem(p, s)
     /\ IF Len(s.ms) = Members THEN Write(s) ELSE UNCHANGED <<file, faults>>
     /\ Goto(p, IF At(p, "saveClient") THEN "readyClient"
                ELSE IF Len(s.ms) < Members THEN "create" ELSE "ready")
     /\ SetK(p, IF At(p, "saveClient") THEN Len(s.cs) ELSE 1)
  /\ SetNid(p, 0)
  /\ UpRest(p) /\ UNCHANGED <<inst, vol, told>>

\* The new instance is recorded before the next one is created.
UpSave(p) ==
  /\ At(p, "save") \/ At(p, "saveClient")
  /\ LET s == Appended(p) IN
     /\ SetMem(p, s) /\ Write(s)
     /\ Goto(p, IF At(p, "saveClient") THEN "readyClient"
                ELSE IF Len(s.ms) < Members THEN "create" ELSE "ready")
     /\ SetK(p, IF At(p, "saveClient") THEN Len(s.cs) ELSE 1)
  /\ SetNid(p, 0)
  /\ UpRest(p) /\ UNCHANGED <<inst, vol, told>>

\* The write fails: compensate by deleting the instance, or name it in the
\* error when that fails too.
UpSaveFails(p) ==
  /\ At(p, "save") \/ At(p, "saveClient")
  /\ \/ Fault /\ ~cancelled[p] /\ Terminate(nid[p]) /\ UNCHANGED told
     \/ /\ IF cancelled[p] THEN Fault ELSE faults + 1 < MaxFaults /\ faults' = faults + 2
        /\ told' = told \cup {nid[p]} /\ TerminateUnheard(p, nid[p])
  /\ Goto(p, "err") /\ SetNid(p, 0)
  /\ UpRest(p) /\ UNCHANGED <<vol, file, mem, k>>

\* WaitForReady on member k[p] and, for a replaceable cluster, DataVolumeID.
\* The result is kept in memory until every member is ready.
UpReady(p) ==
  /\ At(p, "ready")
  /\ LET i == MemOf(mem[p], k[p]).id IN
     \/ /\ Works(p) /\ inst[i].st = "running"
        /\ SetMem(p, [mem[p] EXCEPT !.ms[k[p]].vol = IF Replaceable THEN i ELSE 0])
        /\ Goto(p, IF k[p] < Members THEN "ready" ELSE "saveReady")
        /\ SetK(p, k[p] + 1)
        /\ UNCHANGED <<inst, vol, file, nid>>
     \/ CallFails(p)
     \/ /\ inst[i].st # "running" /\ Goto(p, "err")
        /\ UNCHANGED <<inst, vol, file, mem, k, nid, faults>>
  /\ UpRest(p) /\ UNCHANGED told

UpReadyClient(p) ==
  /\ At(p, "readyClient")
  /\ LET i == mem[p].cs[k[p]].id IN
     \/ /\ Works(p) /\ inst[i].st = "running"
        /\ Goto(p, "saveReady") /\ UNCHANGED <<inst, vol, file, mem, k, nid>>
     \/ CallFails(p)
     \/ /\ inst[i].st # "running" /\ Goto(p, "err")
        /\ UNCHANGED <<inst, vol, file, mem, k, nid, faults>>
  /\ UpRest(p) /\ UNCHANGED told

\* The write of the resolved addresses and volume IDs.
UpSaveReady(p) ==
  /\ At(p, "saveReady")
  /\ \/ Write(mem[p]) /\ UpCreated(p)
     \/ WriteFails /\ Goto(p, "err")
  /\ UpRest(p) /\ UNCHANGED <<inst, vol, mem, k, nid, told>>

\* The bootstrap of every member ("replace": of the new one) and the health
\* check over all of them: no state but pc.
Bootstrap(p) ==
  /\ At(p, "boot")
  /\ \/ Works(p) /\ (\A r \in ToSet(mem[p].ms) : inst[r.id].st = "running") /\ Goto(p, "ok")
     \/ Fails(p) /\ Goto(p, "err")
     \/ (\E r \in ToSet(mem[p].ms) : inst[r.id].st # "running") /\ Goto(p, "err") /\ UNCHANGED faults
  /\ UpRest(p) /\ UNCHANGED <<inst, vol, file, mem, k, nid, told>>

-----------------------------------------------------------------------------
(* aws down *)

Todo(p) == mem[p].cs \o mem[p].ms     \* clients are deleted before members

DownRest(p) == Rest(p) /\ UNCHANGED <<nid, rv, told, abandoned, unheard>>

Keep(p, r) ==
  kept' = [kept EXCEPT ![p] = IF k[p] <= Len(mem[p].cs) THEN State(@.ms, Append(@.cs, r))
                                                       ELSE State(Append(@.ms, r), @.cs)]

\* manager.Delete on the next record.  NotFound is a failure here.
DownDelete(p) ==
  /\ At(p, "delete") /\ k[p] <= Size(mem[p])
  /\ LET r == Todo(p)[k[p]] IN
     \/ Works(p) /\ Terminable(r.id) /\ Terminate(r.id) /\ UNCHANGED kept
     \/ Fails(p) /\ Keep(p, r) /\ TerminateUnheard(p, r.id)
     \/ ~Terminable(r.id) /\ Keep(p, r) /\ UNCHANGED <<inst, faults>>
  /\ SetK(p, k[p] + 1)
  /\ DownRest(p) /\ UNCHANGED <<vol, file, pc, mem>>

\* Mutant: the remaining records are not the ones written.
DownSaveRemainingEmpty(p) ==
  /\ At(p, "delete") /\ k[p] > Size(mem[p]) /\ Size(kept[p]) > 0
  /\ Write(Empty) \/ WriteFails
  /\ Goto(p, "err")
  /\ DownRest(p) /\ UNCHANGED <<inst, vol, mem, kept, k>>

\* Some deletions failed: save what remains and return the errors.
DownSaveRemaining(p) ==
  /\ At(p, "delete") /\ k[p] > Size(mem[p]) /\ Size(kept[p]) > 0
  /\ Write(kept[p]) \/ WriteFails
  /\ Goto(p, "err")
  /\ DownRest(p) /\ UNCHANGED <<inst, vol, mem, kept, k>>

DownDeleted(p) ==
  /\ At(p, "delete") /\ k[p] > Size(mem[p]) /\ Size(kept[p]) = 0
  /\ Goto(p, IF Replaceable /\ mem[p].ms # <<>> THEN "wait" ELSE "remove") /\ SetK(p, 1)
  /\ DownRest(p) /\ UNCHANGED <<inst, vol, file, mem, kept, faults>>

\* WaitForTerminated: terminated, or purged.
DownWait(p) ==
  /\ At(p, "wait")
  /\ \/ /\ Works(p) /\ Terminated(MemOf(mem[p], k[p]).id)
        /\ IF k[p] < Len(mem[p].ms) THEN SetK(p, k[p] + 1) /\ UNCHANGED pc
                                    ELSE SetK(p, 1) /\ Goto(p, "volumes")
     \/ Fails(p) /\ Goto(p, "err") /\ UNCHANGED k
  /\ DownRest(p) /\ UNCHANGED <<inst, vol, file, mem, kept>>

NextVol(p) ==
  IF k[p] < Len(mem[p].ms) THEN SetK(p, k[p] + 1) /\ UNCHANGED pc
                           ELSE SetK(p, 1) /\ Goto(p, "remove")

\* Mutant: a volume that is still attached is passed over.
DownVolumeSkipsAttached(p) ==
  /\ At(p, "volumes")
  /\ LET v == MemOf(mem[p], k[p]).vol IN
     \/ v = 0 /\ NextVol(p) /\ UNCHANGED <<vol, faults>>
     \/ v # 0 /\ Works(p) /\ vol[v].att = 0 /\ vol' = [vol EXCEPT ![v] = [st |-> "deleted", att |-> 0]] /\ NextVol(p)
     \/ v # 0 /\ vol[v].att # 0 /\ NextVol(p) /\ UNCHANGED <<vol, faults>>
     \/ v # 0 /\ Fails(p) /\ NextVol(p) /\ UNCHANGED vol
  /\ DownRest(p) /\ UNCHANGED <<inst, file, mem, kept>>

\* DeleteDataVolume for the recorded ID: gone already is fine, attached is
\* waited out, a running holder makes the wait expire.
DownVolume(p) ==
  /\ At(p, "volumes")
  /\ LET v == MemOf(mem[p], k[p]).vol IN
     \/ v = 0 /\ NextVol(p) /\ UNCHANGED <<vol, faults>>
     \/ /\ v # 0 /\ Works(p) /\ vol[v].att = 0
        /\ vol' = [vol EXCEPT ![v] = [st |-> "deleted", att |-> 0]] /\ NextVol(p)
     \/ /\ v # 0 /\ Fails(p) /\ Goto(p, "err") /\ UNCHANGED k
        /\ \/ UNCHANGED vol
           \/ ~cancelled[p] /\ vol[v].att = 0 /\ vol' = [vol EXCEPT ![v] = [st |-> "deleted", att |-> 0]]
     \/ /\ v # 0 /\ vol[v].att # 0 /\ inst[vol[v].att].st = "running"
        /\ Goto(p, "err") /\ UNCHANGED <<vol, k, faults>>
  /\ DownRest(p) /\ UNCHANGED <<inst, file, mem, kept>>

DownRemove(p) ==
  /\ At(p, "remove")
  /\ \/ Write(NoFile) /\ Goto(p, "ok")
     \/ WriteFails /\ Goto(p, "err")
  /\ DownRest(p) /\ UNCHANGED <<inst, vol, mem, kept, k>>

-----------------------------------------------------------------------------
(* aws replace: replaceStandalone, then awsReplaceMember. *)

Old(p) == MemOf(mem[p], k[p]).id
ReplaceRest(p) == Rest(p) /\ UNCHANGED <<kept, k, unheard>>
ReplaceCallFails(p) ==
  /\ Fails(p) /\ Goto(p, "err")
  /\ ReplaceRest(p) /\ UNCHANGED <<inst, vol, file, mem, nid, rv, told, abandoned>>
ReplaceGivesUp(p) ==
  /\ Goto(p, "err")
  /\ ReplaceRest(p) /\ UNCHANGED <<inst, vol, file, mem, nid, rv, told, abandoned, faults>>

AttachedTo(i) == {v \in Ids : vol[v].st = "ok" /\ vol[v].att = i}

\* launchSpecForReplace: the address and the data volume of a live instance.
ReplaceSpec(p) ==
  /\ At(p, "spec")
  /\ \/ /\ Works(p) /\ inst[Old(p)].st \in {"running", "shutting"}
        /\ rv' = [rv EXCEPT ![p] = IF AttachedTo(Old(p)) = {} THEN 0 ELSE CHOOSE v \in AttachedTo(Old(p)) : TRUE]
        /\ Goto(p, "terminate")
        /\ ReplaceRest(p) /\ UNCHANGED <<inst, vol, file, mem, nid, told, abandoned>>
     \/ ReplaceCallFails(p)
     \/ inst[Old(p)].st \notin {"running", "shutting"} /\ ReplaceGivesUp(p)

ReplaceTerminate(p) ==
  /\ At(p, "terminate")
  /\ \/ /\ Works(p) /\ Terminable(Old(p)) /\ Terminate(Old(p)) /\ Goto(p, "gone")
        /\ ReplaceRest(p) /\ UNCHANGED <<vol, file, mem, nid, rv, told, abandoned>>
     \/ /\ Fails(p) /\ TerminateUnheard(p, Old(p)) /\ Goto(p, "err")
        /\ ReplaceRest(p) /\ UNCHANGED <<vol, file, mem, nid, rv, told, abandoned>>
     \/ ~Terminable(Old(p)) /\ ReplaceGivesUp(p)

\* WaitForTerminated, then waitForVolumeAvailable, which expires when the
\* volume was deleted or went to a running instance.
ReplaceWait(p) ==
  /\ At(p, "gone")
  /\ LET v == rv[p] IN
     \/ /\ Works(p) /\ Terminated(Old(p))
        /\ v # 0 => vol[v] = [st |-> "ok", att |-> 0]
        /\ Goto(p, "launch")
        /\ ReplaceRest(p) /\ UNCHANGED <<inst, vol, file, mem, nid, rv, told, abandoned>>
     \/ ReplaceCallFails(p)
     \/ /\ v # 0 /\ (vol[v].st = "deleted" \/ (vol[v].att # 0 /\ inst[vol[v].att].st = "running"))
        /\ ReplaceGivesUp(p)

IpHolders(m) == {i \in Ids : inst[i].ip = m /\ inst[i].st \in {"running", "shutting"}}

\* Mutant: the replacement is launched without the old private address.
ReplaceLaunchUnpinned(p) ==
  /\ At(p, "launch") /\ Works(p)
  /\ Launch(0, FALSE) /\ SetNid(p, NewId)
  /\ Goto(p, IF rv[p] = 0 THEN "record" ELSE "attach")
  /\ ReplaceRest(p) /\ UNCHANGED <<file, mem, rv, told, abandoned>>

\* RunInstances with the pinned private IP; an address in use is retried
\* until the deadline.
ReplaceLaunch(p) ==
  /\ At(p, "launch")
  /\ LET ip == inst[Old(p)].ip IN
     \/ /\ Works(p) /\ IpHolders(ip) = {}
        /\ Launch(ip, FALSE) /\ SetNid(p, NewId)
        /\ Goto(p, IF rv[p] = 0 THEN "record" ELSE "attach")
        /\ ReplaceRest(p) /\ UNCHANGED <<file, mem, rv, told, abandoned>>
     \/ /\ LaunchUnheard(p, ip, FALSE) /\ IpHolders(ip) = {}
        /\ Rest(p) /\ UNCHANGED <<kept, k, file, mem, nid, rv, told, abandoned>>
     \/ ReplaceCallFails(p)
     \/ QuotaReached /\ ReplaceGivesUp(p)
     \/ (\E i \in IpHolders(ip) : inst[i].st = "running") /\ ReplaceGivesUp(p)

\* Mutant: the volume is not attached to the replacement.
ReplaceAttachNothing(p) ==
  /\ At(p, "attach")
  /\ Works(p) /\ Goto(p, "record")
  /\ ReplaceRest(p) /\ UNCHANGED <<inst, vol, file, mem, nid, rv, told, abandoned>>

\* waitForRunningState and AttachVolume.
ReplaceAttach(p) ==
  /\ At(p, "attach")
  /\ Works(p) /\ inst[nid[p]].st = "running" /\ vol[rv[p]] = [st |-> "ok", att |-> 0]
  /\ vol' = [vol EXCEPT ![rv[p]].att = nid[p]]
  /\ Goto(p, "record")
  /\ ReplaceRest(p) /\ UNCHANGED <<inst, file, mem, nid, rv, told, abandoned>>

\* Either of the two failed.  The replacement is terminated under the same
\* context, and the outcome of that call is ignored.
ReplaceAttachFails(p) ==
  /\ At(p, "attach")
  /\ \/ /\ Fault /\ ~cancelled[p] /\ Terminate(nid[p]) /\ UNCHANGED abandoned
     \/ /\ ~cancelled[p] /\ UNCHANGED faults
        /\ inst[nid[p]].st # "running" \/ vol[rv[p]] # [st |-> "ok", att |-> 0]
        /\ Terminate(nid[p]) /\ UNCHANGED abandoned
     \/ /\ IF cancelled[p] THEN UNCHANGED faults ELSE faults + 1 < MaxFaults /\ faults' = faults + 2
        /\ abandoned' = abandoned \cup {nid[p]} /\ TerminateUnheard(p, nid[p])
  /\ Goto(p, "err") /\ SetNid(p, 0)
  /\ ReplaceRest(p) /\ UNCHANGED <<vol, file, mem, rv, told>>

\* The new ID is recorded; a failing write names it in the error.
ReplaceRecord(p) ==
  /\ At(p, "record")
  /\ LET s == [mem[p] EXCEPT !.ms[k[p]].id = nid[p]] IN
     /\ SetMem(p, s)
     /\ \/ Write(s) /\ Goto(p, "resolve") /\ UNCHANGED told
        \/ WriteFails /\ Goto(p, "err") /\ told' = told \cup {nid[p]}
  /\ SetNid(p, 0)
  /\ ReplaceRest(p) /\ UNCHANGED <<inst, vol, rv, abandoned>>

\* WaitForReady, then the second write, of the same IDs.
ReplaceResolve(p) ==
  /\ At(p, "resolve")
  /\ \/ Works(p) /\ inst[Old(p)].st = "running" /\ Goto(p, "rewrite")
     \/ Fails(p) /\ Goto(p, "err")
     \/ inst[Old(p)].st # "running" /\ Goto(p, "err") /\ UNCHANGED faults
  /\ ReplaceRest(p) /\ UNCHANGED <<inst, vol, file, mem, nid, rv, told, abandoned>>

ReplaceRewrite(p) ==
  /\ At(p, "rewrite")
  /\ \/ Write(mem[p]) /\ Goto(p, "boot")
     \/ WriteFails /\ Goto(p, "err")
  /\ ReplaceRest(p) /\ UNCHANGED <<inst, vol, mem, nid, rv, told, abandoned>>

-----------------------------------------------------------------------------
Up(p) ==
  \/ UpCreate(p) \/ UpSave(p) \/ UpSaveFails(p) \/ UpReady(p)
  \/ UpReadyClient(p) \/ UpSaveReady(p) \/ Bootstrap(p)
Down(p) ==
  \/ DownDelete(p) \/ DownSaveRemaining(p) \/ DownDeleted(p) \/ DownWait(p)
  \/ DownVolume(p) \/ DownRemove(p)
Replace(p) ==
  \/ ReplaceSpec(p) \/ ReplaceTerminate(p) \/ ReplaceWait(p) \/ ReplaceLaunch(p)
  \/ ReplaceAttach(p) \/ ReplaceAttachFails(p) \/ ReplaceRecord(p)
  \/ ReplaceResolve(p) \/ ReplaceRewrite(p)
Step(p) == Up(p) \/ Down(p) \/ Replace(p)

Next ==
  \/ \E p \in Procs :
       \/ StartUpCmd(p) \/ StartDown(p) \/ \E m \in 1..Members : StartReplace(p, m)
       \/ Up(p) \/ Down(p) \/ Replace(p)
       \/ Interrupt(p) \/ Crash(p)
  \/ \E i \in Ids : Ec2Terminated(i) \/ Ec2Purges(i)

Spec == Init /\ [][Next]_vars

\* Every command runs on, EC2 finishes terminations, and a user whose
\* cluster is not gone runs "aws down" again.
FairSpec ==
  /\ Spec
  /\ \A p \in Procs : WF_vars(Step(p)) /\ WF_vars(StartDown(p))
  /\ \A i \in Ids : WF_vars(Ec2Terminated(i))

-----------------------------------------------------------------------------
(* Properties *)

Running(i) == inst[i].st = "running"
InFlight(i) == \E p \in Procs : pc[p] \notin Done /\ nid[p] = i

\* Every running instance is in the state file or in the hands of the command
\* that just launched it, so that "aws down" will find it.  The exceptions are
\* the four ways the code lets one go: killed between launch and write
\* (README), an error that names the instance, a replacement whose best-effort
\* termination failed, and a RunInstances that launched but returned an error.
InstancesAccounted ==
  \A i \in Ids : Running(i) => \/ i \in IdsOf(file) \/ InFlight(i)
                               \/ i \in told \cup lost \cup abandoned \cup unheard

\* A "down" that reports success has terminated every instance it read from
\* the state file and deleted every data volume recorded there.
DownComplete ==
  \A p \in Procs :
    op[p] = "down" /\ pc[p] = "ok" =>
      \A r \in RecsOf(mem[p]) : ~Running(r.id) /\ (r.vol # 0 => vol[r.vol].st # "ok")

\* A running member has the data volume recorded for it, however often its
\* machine was replaced: replace never loses the member's data.
MemberKeepsVolume ==
  file # NoFile =>
    \A r \in ToSet(file.ms) : Running(r.id) /\ r.vol # 0 => vol[r.vol] = [st |-> "ok", att |-> r.id]

\* Concurrent replacements of one member never end in two machines: at most
\* one of the recorded machine and the replacements under way is running.
OneMachinePerMember ==
  \A m \in 1..Members :
    Cardinality({i \in Ids : Running(i)
      /\ \/ file # NoFile /\ m <= Len(file.ms) /\ file.ms[m].id = i
         \/ \E p \in Procs : op[p] = "replace" /\ k[p] = m /\ nid[p] = i}) <= 1

\* Running "aws down" again finishes the teardown of a partial one
\* ("the next aws down must still be able to ... finish the job"), unless an
\* unrecorded replacement machine is left that still holds a data volume.
TeardownFinishes == file # NoFile ~> file = NoFile \/ told \cup lost \cup abandoned # {}

\* Violated.  A recorded data volume stays recorded until it is deleted
\* ("recorded at creation: teardown deletes exactly these IDs").
RecordedVolumesKept ==
  [][\A v \in VolsOf(file) : v \in VolsOf(file)' \/ vol'[v].st # "ok"]_vars

\* Violated.  A failed replacement leaves no unrecorded instance ("On any
\* failure from here, terminate the replacement so it cannot leak unrecorded").
ReplacementNeverLeaks ==
  \A i \in Ids : Running(i) => i \in IdsOf(file) \/ InFlight(i) \/ i \in told \cup lost \cup unheard

=============================================================================

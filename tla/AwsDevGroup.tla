---------------------------- MODULE AwsDevGroup ----------------------------
(***************************************************************************)
(* Dev groups on EC2: "aws dev up", "scale", "run" (and "etcd", which      *)
(* reaches the boxes the same way) and "down" (cmd/etcd-infra/aws_dev.go)  *)
(* over launch templates and Auto Scaling groups                           *)
(* (pkg/providers/aws/launch_group.go).                                    *)
(*                                                                         *)
(* Several machines use ONE group name.  Each keeps its own state file for *)
(* it; the launch template and the Auto Scaling group of that name exist   *)
(* once per account.  What belongs to whom is told by a random owner       *)
(* token, drawn by every "up", written to the state file before the first  *)
(* create call, and put as a tag on template, group and boxes.  A template *)
(* ID is represented by the token of the one "up" that created it.         *)
(*                                                                         *)
(* A machine runs one command at a time.  A call that fails, times out or  *)
(* is interrupted, and a killed process, end the command where it is and   *)
(* keep the file (CallFails); a create or delete whose answer is lost is   *)
(* sent again by the SDK.  A state file of the older single-instance       *)
(* release (token Legacy) can only be torn down.                           *)
(***************************************************************************)
EXTENDS Integers, FiniteSets

CONSTANTS
  Machines,   \* machines (users) with a state file for this group name
  Accounts,   \* AWS accounts a command may have credentials for
  OldUser,    \* the machine with a box of the older release, or None
  MaxUps,     \* bound: "up" commands that get as far as their state file
  MaxBoxes,   \* bound: --count, and unterminated instances of one "up"
  MaxFaults,  \* bound: failed calls, lost delete answers, interrupts, kills
  None        \* no file, no template, no group

ASSUME DevAssumption ==
  /\ {MaxUps, MaxBoxes, MaxFaults} \subseteq Nat
  /\ Machines # {} /\ Accounts # {} /\ None \notin Machines \cup Accounts
  /\ OldUser \in Machines \cup {None}

Legacy == 0
Tokens == 0..MaxUps

\* None is no token and no record.
ASSUME NoneAssumption ==
  /\ None \notin Tokens /\ None \notin [token : Tokens, acct : Accounts]
  /\ None \notin [token : Tokens, desired : 0..MaxBoxes, deleting : BOOLEAN]

VARIABLES
  file,      \* each machine's state file: [token, acct], or None
  proc,      \* each machine's command: [pc, token, acct, count]
  template,  \* per account: the token tag of the launch template, or None
  group,     \* per account: [token, desired, deleting], or None
  boxes,     \* per token: instances coming (launch in progress), live, dying
  owner,     \* per token: the machine whose "up" drew it, or None
  unsure,    \* tokens whose create was taken for someone else's
  intruded,  \* tokens on whose boxes another machine ran a command
  faults

cloud == <<template, group, boxes>>
vars == <<file, proc, cloud, owner, unsure, intruded, faults>>

Idle == [pc |-> "idle", token |-> Legacy, acct |-> None, count |-> 0]
NoBoxes == [coming |-> 0, live |-> 0, dying |-> 0]

\* Nothing exists, except that a machine may still have a dev box of the
\* older release.
Init ==
  /\ \E a \in Accounts :
       file = [m \in Machines |->
                 IF m = OldUser THEN [token |-> Legacy, acct |-> a] ELSE None]
  /\ boxes = [t \in Tokens |->
                IF t = Legacy /\ OldUser # None THEN [NoBoxes EXCEPT !.live = 1] ELSE NoBoxes]
  /\ owner = [t \in Tokens |-> IF t = Legacy THEN OldUser ELSE None]
  /\ proc = [m \in Machines |-> Idle]
  /\ template = [a \in Accounts |-> None]
  /\ group = [a \in Accounts |-> None]
  /\ unsure = {} /\ intruded = {} /\ faults = 0

At(m, pc) == proc[m].pc = pc
Goto(m, pc) == proc' = [proc EXCEPT ![m].pc = pc]
Stop(m) == proc' = [proc EXCEPT ![m] = Idle]
Faulty == faults < MaxFaults /\ faults' = faults + 1
GroupTokenIs(a, t) == IF group[a] = None THEN FALSE ELSE group[a].token = t

-----------------------------------------------------------------------------
(* dev up *)

\* Options, account, network and AMI are resolved first; the state file is
\* then written with a fresh token, before anything exists.
StartUp(m, a, n) ==
  /\ At(m, "idle") /\ file[m] = None
  /\ \E t \in Tokens \ {Legacy} :
       /\ owner[t] = None /\ \A s \in 1..(t - 1) : owner[s] # None
       /\ owner' = [owner EXCEPT ![t] = m]
       /\ file' = [file EXCEPT ![m] = [token |-> t, acct |-> a]]
       /\ proc' = [proc EXCEPT ![m] =
                     [pc |-> "template", token |-> t, acct |-> a, count |-> n]]
  /\ UNCHANGED <<cloud, unsure, intruded, faults>>

\* CreateLaunchTemplate: the name is free (and the answer may be lost, so
\* that the SDK repeats the call), or the call says the name is taken.
CreateTemplate(m) ==
  LET a == proc[m].acct IN
  /\ At(m, "template")
  /\ \/ /\ template[a] = None
        /\ template' = [template EXCEPT ![a] = proc[m].token]
        /\ Goto(m, "group") \/ Goto(m, "templateLookup")
     \/ /\ template[a] # None
        /\ Goto(m, "templateLookup") /\ UNCHANGED template
  /\ UNCHANGED <<file, group, boxes, owner, unsure, intruded, faults>>

\* A taken name is ours when the template carries our token; otherwise "up"
\* removes its state file and reports the name as taken.
TemplateLookup(m) ==
  /\ At(m, "templateLookup")
  /\ IF template[proc[m].acct] = proc[m].token
     THEN Goto(m, "group") /\ UNCHANGED file
     ELSE Stop(m) /\ file' = [file EXCEPT ![m] = None]
  /\ UNCHANGED <<cloud, owner, unsure, intruded, faults>>

\* The lookup fails: the name counts as someone else's all the same.
TemplateLookupFails(m) ==
  /\ At(m, "templateLookup") /\ Faulty /\ Stop(m)
  /\ file' = [file EXCEPT ![m] = None]
  /\ unsure' = IF template[proc[m].acct] = proc[m].token
               THEN unsure \cup {proc[m].token} ELSE unsure
  /\ UNCHANGED <<cloud, owner, intruded>>

\* CreateAutoScalingGroup, from the template just created, and
\* SuspendProcesses.  The command then only waits for its boxes.
CreateGroup(m) ==
  LET a == proc[m].acct IN
  /\ At(m, "group")
  /\ \/ /\ group[a] = None /\ template[a] = proc[m].token
        /\ group' = [group EXCEPT ![a] = [token |-> proc[m].token,
                        desired |-> proc[m].count, deleting |-> FALSE]]
        /\ Stop(m) \/ Goto(m, "groupLookup")
     \/ /\ group[a] # None
        /\ Goto(m, "groupLookup") /\ UNCHANGED group
  /\ UNCHANGED <<file, template, boxes, owner, unsure, intruded, faults>>

GroupLookup(m) ==
  /\ At(m, "groupLookup")
  /\ IF GroupTokenIs(proc[m].acct, proc[m].token)
     THEN Stop(m) ELSE Goto(m, "groupTaken")
  /\ UNCHANGED <<file, cloud, owner, unsure, intruded, faults>>

GroupLookupFails(m) ==
  /\ At(m, "groupLookup") /\ Faulty /\ Goto(m, "groupTaken")
  /\ unsure' = IF GroupTokenIs(proc[m].acct, proc[m].token)
               THEN unsure \cup {proc[m].token} ELSE unsure
  /\ UNCHANGED <<file, cloud, owner, intruded>>

\* Someone else's group: delete only our template, by ID, then the file.
GroupTaken(m) ==
  LET a == proc[m].acct IN
  /\ At(m, "groupTaken") /\ Stop(m)
  /\ template' = [template EXCEPT ![a] = IF @ = proc[m].token THEN None ELSE @]
  /\ file' = [file EXCEPT ![m] = None]
  /\ UNCHANGED <<group, boxes, owner, unsure, intruded, faults>>

-----------------------------------------------------------------------------
(* dev scale, dev run, dev etcd: the group is found by its name *)

Commanded(m, a) == At(m, "idle") /\ file[m] # None /\ file[m].token # Legacy /\ group[a] # None

Scale(m, a, n) ==
  /\ IF Commanded(m, a) THEN ~group[a].deleting ELSE FALSE
  /\ group' = [group EXCEPT ![a].desired = n]
  /\ UNCHANGED <<file, proc, template, boxes, owner, unsure, intruded, faults>>

\* At least one box is in service; the command runs on each as root.
Run(m, a) ==
  /\ IF Commanded(m, a) THEN boxes[group[a].token].live > 0 ELSE FALSE
  /\ intruded' = IF owner[group[a].token] = m THEN intruded
                 ELSE intruded \cup {group[a].token}
  /\ UNCHANGED <<file, proc, cloud, owner, unsure, faults>>

-----------------------------------------------------------------------------
(* dev down *)

\* Mutant: the account is not compared.
StartDownAnyAccount(m, a) ==
  /\ At(m, "idle") /\ file[m] # None
  /\ proc' = [proc EXCEPT ![m] =
                [pc |-> IF file[m].token = Legacy THEN "legacy" ELSE "downGroup",
                 token |-> file[m].token, acct |-> a, count |-> 0]]
  /\ UNCHANGED <<file, cloud, owner, unsure, intruded, faults>>

\* It refuses credentials of another account than the recorded one.
StartDown(m, a) ==
  /\ At(m, "idle")
  /\ IF file[m] = None THEN FALSE ELSE file[m].acct = a
  /\ proc' = [proc EXCEPT ![m] =
                [pc |-> IF file[m].token = Legacy THEN "legacy" ELSE "downGroup",
                 token |-> file[m].token, acct |-> a, count |-> 0]]
  /\ UNCHANGED <<file, cloud, owner, unsure, intruded, faults>>

Terminate(b) == [b EXCEPT !.live = 0, !.dying = @ + b.live]

\* awsDevDownLegacy: terminate the recorded instance, wait for it to end.
DownLegacy(m) ==
  /\ At(m, "legacy")
  /\ \/ /\ boxes[Legacy].live > 0
        /\ boxes' = [boxes EXCEPT ![Legacy] = Terminate(@)]
        /\ UNCHANGED proc
     \/ /\ boxes[Legacy] = NoBoxes /\ Goto(m, "downRemove")
        /\ UNCHANGED boxes
  /\ UNCHANGED <<file, template, group, owner, unsure, intruded, faults>>

\* Mutant: the template goes before the group.
DownGroupTemplateFirst(m) ==
  LET a == proc[m].acct IN
  /\ At(m, "downGroup")
  /\ Goto(m, IF GroupTokenIs(a, proc[m].token) THEN "downDelete" ELSE "downSweep")
  /\ template' = [template EXCEPT ![a] = IF @ = proc[m].token THEN None ELSE @]
  /\ UNCHANGED <<file, group, boxes, owner, unsure, intruded, faults>>

\* Mutant: whatever carries the name is deleted.
DownGroupByName(m) ==
  /\ At(m, "downGroup")
  /\ Goto(m, IF group[proc[m].acct] # None THEN "downDelete" ELSE "downSweep")
  /\ UNCHANGED <<file, cloud, owner, unsure, intruded, faults>>

\* awsDevDownGroup: the group is deleted only when it carries our token ...
DownGroup(m) ==
  /\ At(m, "downGroup")
  /\ Goto(m, IF GroupTokenIs(proc[m].acct, proc[m].token)
             THEN "downDelete" ELSE "downSweep")
  /\ UNCHANGED <<file, cloud, owner, unsure, intruded, faults>>

\* ... but the delete call names it; it is repeated when its answer is lost
\* (and, by the loop, while a scaling activity makes AWS refuse it).
DeleteGroup(m) ==
  LET a == proc[m].acct IN
  /\ At(m, "downDelete")
  /\ IF group[a] = None
     THEN Goto(m, "downWait") /\ UNCHANGED <<group, boxes, faults>>
     ELSE /\ group' = [group EXCEPT ![a].deleting = TRUE]
          /\ boxes' = [boxes EXCEPT ![group[a].token] = Terminate(@)]
          /\ \/ Goto(m, "downWait") /\ UNCHANGED faults
             \/ Faulty /\ UNCHANGED proc
  /\ UNCHANGED <<file, template, owner, unsure, intruded>>

DownWait(m) ==
  /\ At(m, "downWait") /\ group[proc[m].acct] = None /\ Goto(m, "downSweep")
  /\ UNCHANGED <<file, cloud, owner, unsure, intruded, faults>>

\* Mutant: the sweep waits for instances that nobody terminates.
DownSweepWaits(m) ==
  LET t == proc[m].token IN
  /\ At(m, "downSweep") /\ boxes[t].live = 0 /\ boxes[t].dying = 0
  /\ Goto(m, "downTemplate")
  /\ UNCHANGED <<file, cloud, owner, unsure, intruded, faults>>

\* awsDevSweepInstances: terminate what still carries the token, until an
\* inventory finds nothing unterminated.
DownSweep(m) ==
  LET t == proc[m].token IN
  /\ At(m, "downSweep")
  /\ \/ /\ boxes[t].live > 0
        /\ boxes' = [boxes EXCEPT ![t] = Terminate(@)]
        /\ UNCHANGED proc
     \/ /\ boxes[t].live = 0 /\ boxes[t].dying = 0 /\ Goto(m, "downTemplate")
        /\ UNCHANGED boxes
  /\ UNCHANGED <<file, template, group, owner, unsure, intruded, faults>>

\* The template goes last, by ID and only when it carries our token.
DownTemplate(m) ==
  LET a == proc[m].acct IN
  /\ At(m, "downTemplate") /\ Goto(m, "downRemove")
  /\ template' = [template EXCEPT ![a] = IF @ = proc[m].token THEN None ELSE @]
  /\ UNCHANGED <<file, group, boxes, owner, unsure, intruded, faults>>

DownRemove(m) ==
  /\ At(m, "downRemove") /\ Stop(m)
  /\ file' = [file EXCEPT ![m] = None]
  /\ UNCHANGED <<cloud, owner, unsure, intruded, faults>>

\* A call, or a wait, fails; or the process is interrupted or killed.
CallFails(m) ==
  /\ ~At(m, "idle") /\ Faulty /\ Stop(m)
  /\ UNCHANGED <<file, cloud, owner, unsure, intruded>>

-----------------------------------------------------------------------------
(* Auto Scaling and EC2 *)

\* A group below its desired size launches from its template.
LaunchStarts(a) ==
  /\ group[a] # None /\ ~group[a].deleting
  /\ LET t == group[a].token IN
     /\ template[a] = t
     /\ boxes[t].coming + boxes[t].live < group[a].desired
     /\ boxes[t].coming + boxes[t].live + boxes[t].dying < MaxBoxes
     /\ boxes' = [boxes EXCEPT ![t].coming = @ + 1]
  /\ UNCHANGED <<file, proc, template, group, owner, unsure, intruded, faults>>

\* The instance may turn up when its group is already being deleted.
BoxAppears(t) ==
  /\ boxes[t].coming > 0
  /\ boxes' = [boxes EXCEPT ![t].coming = @ - 1, ![t].live = @ + 1]
  /\ UNCHANGED <<file, proc, template, group, owner, unsure, intruded, faults>>

ScalesIn(a) ==
  /\ group[a] # None /\ ~group[a].deleting
  /\ LET t == group[a].token IN
     /\ boxes[t].live > group[a].desired
     /\ boxes' = [boxes EXCEPT ![t].live = @ - 1, ![t].dying = @ + 1]
  /\ UNCHANGED <<file, proc, template, group, owner, unsure, intruded, faults>>

BoxEnds(t) ==
  /\ boxes[t].dying > 0
  /\ boxes' = [boxes EXCEPT ![t].dying = @ - 1]
  /\ UNCHANGED <<file, proc, template, group, owner, unsure, intruded, faults>>

\* A deleted group goes once its scaling activities have ended.
GroupGoes(a) ==
  /\ group[a] # None /\ group[a].deleting /\ boxes[group[a].token].coming = 0
  /\ group' = [group EXCEPT ![a] = None]
  /\ UNCHANGED <<file, proc, template, boxes, owner, unsure, intruded, faults>>

-----------------------------------------------------------------------------
UpStep(m) ==
  \/ CreateTemplate(m) \/ TemplateLookup(m)
  \/ CreateGroup(m) \/ GroupLookup(m) \/ GroupTaken(m)
DownStep(m) ==
  \/ DownLegacy(m) \/ DownGroup(m) \/ DeleteGroup(m) \/ DownWait(m)
  \/ DownSweep(m) \/ DownTemplate(m) \/ DownRemove(m)
Fault(m) ==
  \/ TemplateLookupFails(m) \/ GroupLookupFails(m) \/ CallFails(m)
AwsStep ==
  \/ \E a \in Accounts : LaunchStarts(a) \/ ScalesIn(a) \/ GroupGoes(a)
  \/ \E t \in Tokens : BoxAppears(t) \/ BoxEnds(t)

Next ==
  \/ \E m \in Machines :
       \/ UpStep(m) \/ DownStep(m) \/ Fault(m)
       \/ \E a \in Accounts :
            \/ StartDown(m, a) \/ Run(m, a)
            \/ \E n \in 1..MaxBoxes : StartUp(m, a, n)
            \/ \E n \in 0..MaxBoxes : Scale(m, a, n)
  \/ AwsStep

\* A running command takes its next step, AWS finishes what it began, and a
\* user who has a state file sooner or later runs "down" with the right
\* credentials, however often other commands come first.
Fairness ==
  /\ \A m \in Machines : WF_vars(UpStep(m)) /\ WF_vars(DownStep(m))
  /\ \A m \in Machines, a \in Accounts : SF_vars(StartDown(m, a))
  /\ \A t \in Tokens : WF_vars(BoxAppears(t)) /\ WF_vars(BoxEnds(t))
  /\ \A a \in Accounts : WF_vars(GroupGoes(a))

Spec == Init /\ [][Next]_vars /\ Fairness

-----------------------------------------------------------------------------

Exists(t) ==
  \/ boxes[t] # NoBoxes
  \/ \E a \in Accounts : template[a] = t \/ GroupTokenIs(a, t)

Covered(t) ==
  IF owner[t] = None THEN FALSE
  ELSE IF file[owner[t]] = None THEN FALSE ELSE file[owner[t]].token = t

\* The cleanup contract (the file comment of aws_dev.go): whatever exists in
\* AWS for a token, however its "up" ended, is recorded in the state file of
\* the machine that drew it, so "down" can find it; and the file goes only
\* when nothing is left.  The exception is a create whose answer was lost and
\* whose ownership lookup failed (launch_group.go:194 and :311): it is taken
\* for someone else's, and the file goes while the resource stays.
ResourcesCovered ==
  \A t \in Tokens : Exists(t) => Covered(t) \/ t \in unsure

\* The template outlives the group: as long as a group exists, its name is
\* taken in the account by a template with the same token, so nobody can put
\* another group under the name between the check and the delete of "down"
\* (aws_dev.go:670-678).
NameLocked ==
  \A a \in Accounts :
    IF group[a] = None THEN TRUE
    ELSE template[a] = group[a].token \/ group[a].token \in unsure

\* "down" deletes a group by name; the group it deletes is always the one its
\* own machine's "up" created (aws_dev.go:663-679).
OnlyOwnDeleted ==
  [][\A m \in Machines :
       DeleteGroup(m) => \/ group[proc[m].acct] = None
                         \/ GroupTokenIs(proc[m].acct, proc[m].token)]_vars

\* What the owner token is for (aws_dev.go:371-374, 663-665): no command
\* resizes, or runs on the boxes of, the group of another machine's "up".
OthersUntouched ==
  [][\A m \in Machines, a \in Accounts :
       /\ Run(m, a) => intruded' = intruded
       /\ (\E n \in 0..MaxBoxes : Scale(m, a, n)) => owner[group[a].token] = m]_vars

\* "dev down can finish any partial up": a state file, whatever its "up"
\* left behind, does not stay for ever when its owner keeps trying.
FileCleaned ==
  \A m \in Machines : file[m] # None ~> file[m] = None
=============================================================================

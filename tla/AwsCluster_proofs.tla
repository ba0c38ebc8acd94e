------------------------- MODULE AwsCluster_proofs -------------------------
(***************************************************************************)
(* Proofs about AwsCluster, for any number of processes, members, clients, *)
(* instances, faults and commands.                                         *)
(*                                                                         *)
(* The inductive invariant Inv ties three things together: EC2 (CloudOK:   *)
(* IDs are given out in order, a volume is attached to an instance EC2     *)
(* knows and to one only), every copy of the state, in the file and in the *)
(* memory of each process (StateOK: while the recorded machine of a member *)
(* lives, the recorded volume is attached to it), and the position of each *)
(* command (UpOK, DownOK, ReplaceOK: what it has established so far and    *)
(* will write or report).  A step of one process disturbs none of the      *)
(* others (Undisturbed) because EC2 only makes Progress: what is gone      *)
(* stays gone, and a volume stays attached to an instance that lives on.   *)
(*                                                                         *)
(* From Inv alone follow DownFinished and VolumeKept, whatever runs        *)
(* concurrently.  InstancesKept needs that the commands run one at a time  *)
(* (Alone): two would write over each other's records.  OneMachine is      *)
(* about replacements of a cluster that is up (ReplacingOnly) and needs    *)
(* that an address belongs to one live machine (OneAddress).               *)
(***************************************************************************)
EXTENDS AwsCluster, FiniteSetTheorems, TLAPS

-----------------------------------------------------------------------------
(* The inductive invariant *)

Records == [id : Ids, vol : 0..MaxInst]
States == [name : {"state"}, ms : Seq(Records), cs : Seq(Records)]

InUp == {"create", "createClient", "save", "saveClient", "ready", "readyClient", "saveReady"}
InDown == {"delete", "wait", "volumes", "remove"}
InReplace == {"spec", "terminate", "gone", "launch", "attach", "record", "resolve", "rewrite"}
Holding == {"save", "saveClient", "attach", "record"}  \* an instance not recorded yet

Known(i) == inst[i].st # "none"
Live(i) == inst[i].st \in {"running", "shutting"}

\* As long as instance i is not terminated, volume v is attached to it.
Holds(i, v) == Live(i) => vol[v] = [st |-> "ok", att |-> i]

InstTypes == [st : {"none", "running", "shutting", "terminated", "purged"}, ip : Nat]
VolTypes == [st : {"none", "ok", "deleted"}, att : 0..MaxInst]

\* IDs are given out in order.
Ordered ==
  /\ \E n \in 0..MaxInst : \A i \in Ids : inst[i] # NoInst <=> i <= n
  /\ \A i \in Ids : inst[i].st = "none" => inst[i] = NoInst

\* Volumes are attached to instances EC2 knows, at most one to each.
Attached ==
  /\ \A v \in Ids : inst[v].st = "none" => vol[v] = NoVol
  /\ \A v \in Ids : vol[v].att # 0 => vol[v].st = "ok" /\ Known(vol[v].att)
  /\ \A v, w \in Ids : vol[v].att = vol[w].att /\ vol[v].att # 0 => v = w

CloudOK ==
  /\ inst \in [Ids -> InstTypes] /\ vol \in [Ids -> VolTypes]
  /\ Ordered /\ Attached

MemberOK(r) ==
  /\ r \in Records /\ Known(r.id)
  /\ r.vol # 0 => Replaceable /\ Known(r.vol) /\ Holds(r.id, r.vol)
ClientOK(r) == r \in Records /\ Known(r.id) /\ r.vol = 0

\* A recorded volume is attached to the recorded machine while that lives.
StateOK(s) ==
  /\ s \in States
  /\ \A j \in 1..Len(s.ms) : MemberOK(s.ms[j])
  /\ \A j \in 1..Len(s.cs) : ClientOK(s.cs[j])

ProcOK(p) ==
  /\ pc[p] \in Done \cup InUp \cup InDown \cup InReplace \cup {"boot"}
  /\ op[p] \in {"none", "up", "replace", "down"}
  /\ pc[p] \in InUp => op[p] = "up"
  /\ pc[p] \in InDown => op[p] = "down"
  /\ pc[p] \in InReplace => op[p] = "replace"
  /\ pc[p] = "boot" => op[p] # "down"
  /\ k[p] \in Nat /\ nid[p] \in 0..MaxInst /\ rv[p] \in 0..MaxInst
  /\ StateOK(mem[p]) /\ StateOK(kept[p])
  /\ nid[p] # 0 <=> pc[p] \in Holding
  /\ pc[p] \in Holding => Known(nid[p])

UpOK(p) ==
  pc[p] \in InUp =>
    /\ Replaceable => \A j \in 1..Len(mem[p].ms) : Holds(mem[p].ms[j].id, mem[p].ms[j].id)
    /\ pc[p] \in {"create", "save"} => Len(mem[p].ms) < Members
    /\ pc[p] = "save" /\ Replaceable => Holds(nid[p], nid[p])
    /\ pc[p] = "ready" => k[p] \in 1..Len(mem[p].ms) /\ Len(mem[p].ms) = Members
    /\ pc[p] = "readyClient" => k[p] \in 1..Len(mem[p].cs)

DownOK(p) ==
  op[p] = "down" =>
    /\ pc[p] = "delete" =>
         /\ k[p] \in 1..(Size(mem[p]) + 1)
         /\ \A j \in 1..(k[p] - 1) : Running(Todo(p)[j].id) => Todo(p)[j] \in RecsOf(kept[p])
    /\ pc[p] \in {"wait", "volumes", "remove", "ok"} =>
         \A r \in RecsOf(mem[p]) : ~Running(r.id)
    /\ pc[p] \in {"wait", "volumes"} => k[p] \in 1..Len(mem[p].ms)
    /\ pc[p] = "volumes" =>
         \A j \in 1..(k[p] - 1) : mem[p].ms[j].vol # 0 => vol[mem[p].ms[j].vol].st = "deleted"
    /\ pc[p] \in {"remove", "ok"} =>
         \A r \in RecsOf(mem[p]) : r.vol # 0 => vol[r.vol].st = "deleted"

ReplaceOK(p) ==
  pc[p] \in InReplace =>
    LET r == mem[p].ms[k[p]] IN
    /\ k[p] \in 1..Len(mem[p].ms)
    /\ pc[p] \in {"terminate", "gone", "launch", "attach"} /\ r.vol # 0 => rv[p] = r.vol
    /\ pc[p] = "attach" => rv[p] # 0 /\ \A v \in Ids : vol[v].att # nid[p]
    /\ pc[p] \in {"launch", "attach", "record"} => ~Live(r.id)
    /\ pc[p] = "record" /\ r.vol # 0 => Holds(nid[p], r.vol)

Good(p) == ProcOK(p) /\ UpOK(p) /\ DownOK(p) /\ ReplaceOK(p)

FileOK == file # NoFile => StateOK(file)
Distinct == \A p, q \in Procs : nid[p] = nid[q] /\ nid[p] # 0 => p = q
Arrays ==
  /\ DOMAIN pc = Procs /\ DOMAIN op = Procs /\ DOMAIN mem = Procs /\ DOMAIN kept = Procs
  /\ DOMAIN k = Procs /\ DOMAIN nid = Procs /\ DOMAIN rv = Procs /\ DOMAIN cancelled = Procs

Inv == Arrays /\ CloudOK /\ FileOK /\ Distinct /\ \A p \in Procs : Good(p)

\* One command at a time: what it has read covers the state file.
Alone == \A p, q \in Procs : p = q
Sole == \A p \in Procs : pc[p] \notin Done => IdsOf(file) \subseteq IdsOf(mem[p])

\* Replacements of a cluster that is up.  A "down" that fails on some members
\* writes the remaining ones, which are renumbered when there are several.
ReplacingOnly == "up" \notin Ops /\ (MaxFaults = 0 \/ Members = 1 \/ "down" \notin Ops)

\* The live machine of member j has address j, and an address one machine.
Placed(s) ==
  /\ Len(s.ms) <= Members
  /\ \A j \in 1..Len(s.ms) : Live(s.ms[j].id) => inst[s.ms[j].id].ip = j
Apart ==
  \A i, j \in Ids : Live(i) /\ Live(j) /\ inst[i].ip = inst[j].ip /\ inst[i].ip # 0 => i = j
Calm == MaxFaults = 0 => faults = 0 /\ \A p \in Procs : ~cancelled[p]
AddressOK(p) ==
  /\ op[p] \in {"none"} \cup Ops
  /\ Placed(mem[p]) /\ Placed(kept[p])
  /\ pc[p] = "delete" => Len(kept[p].ms) = 0 \/ Len(kept[p].ms) + Len(mem[p].cs) < k[p]
  /\ pc[p] \in InReplace => inst[Old(p)].ip = k[p]
  /\ nid[p] # 0 => inst[nid[p]].ip = k[p]
OneAddress ==
  Apart /\ Calm /\ (file # NoFile => Placed(file)) /\ \A p \in Procs : AddressOK(p)

-----------------------------------------------------------------------------
(* The cloud *)

LEMMA Numbers == MaxInst \in Nat /\ Members \in Nat /\ Members > 0 /\ Clients \in Nat
BY CountAssumption

LEMMA NonZero == \A i \in Ids : i # 0
BY DEF Ids

LEMMA FreshId ==
    ASSUME CloudOK, ~QuotaReached
    PROVE  /\ NewId \in Ids /\ inst[NewId] = NoInst /\ vol[NewId] = NoVol
           /\ \A i \in Ids : inst[i] # NoInst <=> i < NewId
<1>1. PICK n \in 0..MaxInst : \A i \in Ids : inst[i] # NoInst <=> i <= n
  BY DEF CloudOK, Ordered
<1>2. {i \in Ids : inst[i] # NoInst} = 1..n
  BY <1>1, Numbers DEF Ids
<1>3. Cardinality(1..n) = n
  BY <1>1, FS_Interval
<1>4. NewId = n + 1
  BY <1>2, <1>3 DEF NewId
<1>5. n + 1 \in Ids /\ \A i \in Ids : i <= n <=> i < n + 1
  BY <1>1, <1>4, Numbers DEF QuotaReached, Ids
<1>6. inst[n + 1] = NoInst
  BY <1>1, <1>5
<1>7. vol[n + 1] = NoVol
  BY <1>5, <1>6 DEF CloudOK, Attached, NoInst
<1> QED BY <1>1, <1>4, <1>5, <1>6, <1>7

\* What a step may do to instances and volumes.
CloudLaunches == \E ip \in Nat, b \in BOOLEAN : Launch(ip, b)
CloudChanges(i, x) == Known(i) /\ inst' = [inst EXCEPT ![i].st = x]
CloudTerminated ==
  \E i \in Ids :
    /\ CloudChanges(i, "terminated")
    /\ vol' = [v \in Ids |-> IF vol[v].att = i THEN [vol[v] EXCEPT !.att = 0] ELSE vol[v]]
    /\ inst[i].st = "shutting"
CloudTerminates == \E i \in Ids : CloudChanges(i, "shutting") /\ UNCHANGED vol /\ inst[i].st = "running"
CloudPurges == \E i \in Ids : CloudChanges(i, "purged") /\ UNCHANGED vol /\ inst[i].st = "terminated"
CloudDeletes ==
  \E v \in Ids : /\ Known(v) /\ vol[v].att = 0
                 /\ vol' = [vol EXCEPT ![v] = [st |-> "deleted", att |-> 0]] /\ UNCHANGED inst
CloudAttaches ==
  \E v \in Ids, i \in Ids :
    /\ vol[v] = [st |-> "ok", att |-> 0] /\ Known(i) /\ \A w \in Ids : vol[w].att # i
    /\ vol' = [vol EXCEPT ![v].att = i] /\ UNCHANGED inst
CloudStep ==
  \/ UNCHANGED <<inst, vol>>
  \/ CloudLaunches \/ CloudTerminates \/ CloudTerminated \/ CloudPurges
  \/ CloudDeletes \/ CloudAttaches

\* What every step keeps: what is known stays known, what is gone stays gone,
\* and a volume stays attached to an instance that lives on.
InstProgress ==
  \A i \in Ids : Known(i) => /\ Known(i)' /\ inst'[i].ip = inst[i].ip
                             /\ Live(i)' => Live(i)
                             /\ Running(i)' => Running(i)
Progress ==
  /\ InstProgress
  /\ \A v \in Ids : vol[v].st = "deleted" => vol'[v].st = "deleted"
  /\ \A v, i \in Ids : vol[v].att = i /\ Live(i)' => vol'[v] = vol[v]

\* An instance changes its state, but not from or to "none".
LEMMA InstChanges ==
    ASSUME CloudOK, NEW i \in Ids,
           NEW x \in {"shutting", "terminated", "purged"}, CloudChanges(i, x)
    PROVE  /\ inst' \in [Ids -> InstTypes] /\ Ordered'
           /\ \A j \in Ids : Known(j)' <=> Known(j)
           /\ \A j \in Ids : inst'[j].ip = inst[j].ip
           /\ inst'[i].st = x /\ \A j \in Ids \ {i} : inst'[j] = inst[j]
<1>1. inst \in [Ids -> InstTypes] /\ Known(i) /\ inst' = [inst EXCEPT ![i].st = x]
  BY DEF CloudOK, CloudChanges
<1>2. inst'[i] = [st |-> x, ip |-> inst[i].ip] /\ \A j \in Ids \ {i} : inst'[j] = inst[j]
  BY <1>1 DEF InstTypes
<1>3. inst' \in [Ids -> InstTypes]
  BY <1>1 DEF InstTypes
<1>4. inst'[i] # NoInst /\ inst[i] # NoInst
  BY <1>1, <1>2 DEF NoInst, Known
<1>5. \A j \in Ids : inst'[j] # NoInst <=> inst[j] # NoInst
  BY <1>2, <1>4
<1>6. Ordered'
  BY <1>2, <1>5 DEF CloudOK, Ordered
<1>7. \A j \in Ids : Known(j)' <=> Known(j)
  BY <1>1, <1>2 DEF Known
<1> QED BY <1>2, <1>3, <1>6, <1>7

LEMMA Attachments ==
    ASSUME CloudOK, NEW v \in Ids, vol[v].att # 0
    PROVE  vol[v].att \in Ids /\ Known(vol[v].att)
BY Numbers DEF CloudOK, VolTypes, Attached, Ids

LEMMA AttachedStays ==
    ASSUME CloudOK, \A i \in Ids : Known(i)' <=> Known(i), UNCHANGED vol
    PROVE  Attached'
BY Attachments DEF CloudOK, Attached, Known

LEMMA Launches ==
    ASSUME CloudOK, CloudLaunches
    PROVE  CloudOK' /\ Progress
<1>1. PICK ip \in Nat, b \in BOOLEAN : Launch(ip, b)
  BY DEF CloudLaunches
<1>2. PICK a \in Ids : a = NewId
  BY <1>1, FreshId DEF Launch
<1>3. /\ inst[a] = NoInst /\ vol[a] = NoVol
      /\ \A i \in Ids : inst[i] # NoInst <=> i < a
  BY <1>1, <1>2, FreshId DEF Launch
<1>4. /\ inst' = [inst EXCEPT ![a] = [st |-> "running", ip |-> ip]]
      /\ vol' = vol \/ vol' = [vol EXCEPT ![a] = [st |-> "ok", att |-> a]]
  BY <1>1, <1>2 DEF Launch
<1>5. /\ inst' \in [Ids -> InstTypes] /\ inst'[a] = [st |-> "running", ip |-> ip]
      /\ \A i \in Ids \ {a} : inst'[i] = inst[i]
  BY <1>3, <1>4 DEF CloudOK, InstTypes
<1>6. /\ vol' \in [Ids -> VolTypes] /\ vol'[a] \in {NoVol, [st |-> "ok", att |-> a]}
      /\ \A v \in Ids \ {a} : vol'[v] = vol[v]
  <2>1. vol \in [Ids -> VolTypes]
    BY DEF CloudOK
  <2>2. [st |-> "ok", att |-> a] \in VolTypes
    BY Numbers DEF Ids, VolTypes
  <2>3. CASE vol' = vol
    BY <1>3, <2>1, <2>3
  <2>4. CASE vol' = [vol EXCEPT ![a] = [st |-> "ok", att |-> a]]
    BY <2>1, <2>2, <2>4
  <2> QED BY <1>4, <2>3, <2>4
<1>7. ~Known(a) /\ Known(a)' /\ \A i \in Ids \ {a} : Known(i)' <=> Known(i)
  <2>1. inst[a].st = "none" /\ inst'[a].st = "running"
    BY <1>3, <1>5 DEF NoInst
  <2> QED BY <1>5, <2>1 DEF Known
<1>8. \A v \in Ids : vol[v].att # a
  BY <1>3, <1>7, Attachments, Numbers DEF Ids
<1>9. Ordered'
  <2>1. \A i \in Ids : inst'[i] # NoInst <=> i <= a
    BY <1>3, <1>5, Numbers DEF NoInst, Ids
  <2>2. \A i \in Ids : inst'[i].st = "none" => inst'[i] = NoInst
    BY <1>5 DEF CloudOK, Ordered
  <2> QED BY <1>3, <2>1, <2>2, Numbers DEF Ids, Ordered
<1>10. Attached'
  <2>1. \A v \in Ids : inst'[v].st = "none" => vol'[v] = NoVol
    BY <1>5, <1>6 DEF CloudOK, Attached
  <2>2. ASSUME NEW v \in Ids, vol'[v].att # 0 PROVE vol'[v].st = "ok" /\ inst'[vol'[v].att].st # "none"
    <3>1. CASE v = a
      BY <1>3, <1>5, <1>6, <2>2, <3>1 DEF NoVol
    <3>2. CASE v # a
      BY <1>6, <1>7, <2>2, <3>2, Attachments DEF CloudOK, Attached, Known
    <3> QED BY <3>1, <3>2
  <2>3. ASSUME NEW v \in Ids, NEW w \in Ids, vol'[v].att = vol'[w].att, vol'[v].att # 0
        PROVE  v = w
    <3>1. vol'[a].att \in {0, a}
      BY <1>6 DEF NoVol
    <3>2. CASE v = a
      BY <1>6, <1>8, <2>3, <3>1, <3>2
    <3>3. CASE w = a
      BY <1>6, <1>8, <2>3, <3>1, <3>3
    <3>4. CASE v # a /\ w # a
      BY <1>6, <2>3, <3>4 DEF CloudOK, Attached
    <3> QED BY <3>2, <3>3, <3>4
  <2> QED BY <2>1, <2>2, <2>3 DEF Attached, Known
<1>11. InstProgress
  BY <1>5, <1>7 DEF InstProgress, Known, Live, Running
<1>12. Progress
  <2>1. \A v \in Ids : vol[v].st = "deleted" => vol'[v].st = "deleted"
    BY <1>3, <1>6 DEF NoVol
  <2>2. \A v \in Ids : vol[v].att # 0 => vol'[v] = vol[v]
    BY <1>3, <1>6 DEF NoVol
  <2> QED BY <1>11, <2>1, <2>2, NonZero DEF Progress
<1> QED BY <1>5, <1>6, <1>9, <1>10, <1>12 DEF CloudOK

LEMMA CloudStays ==
    ASSUME CloudOK, CloudStep
    PROVE  CloudOK' /\ Progress
<1>1. CASE UNCHANGED <<inst, vol>>
  BY <1>1 DEF CloudOK, Ordered, Attached, Progress, InstProgress, Known, Live, Running
<1>2. CASE CloudTerminates \/ CloudPurges
  <2>1. PICK i \in Ids, x \in {"shutting", "purged"} :
          /\ CloudChanges(i, x) /\ UNCHANGED vol
          /\ inst[i].st = IF x = "shutting" THEN "running" ELSE "terminated"
    BY <1>2 DEF CloudTerminates, CloudPurges
  <2>2. /\ inst' \in [Ids -> InstTypes] /\ Ordered'
        /\ \A j \in Ids : Known(j)' <=> Known(j)
        /\ \A j \in Ids : inst'[j].ip = inst[j].ip
        /\ inst'[i].st = x /\ \A j \in Ids \ {i} : inst'[j] = inst[j]
    BY <2>1, InstChanges
  <2>3. CloudOK'
    BY <2>1, <2>2, AttachedStays DEF CloudOK
  <2>4. InstProgress
    BY <2>1, <2>2 DEF InstProgress, Live, Running
  <2> QED BY <2>1, <2>3, <2>4 DEF Progress
<1>4. CASE CloudTerminated
  <2>1. PICK i \in Ids :
          /\ CloudChanges(i, "terminated") /\ inst[i].st = "shutting"
          /\ vol' = [v \in Ids |-> IF vol[v].att = i THEN [vol[v] EXCEPT !.att = 0] ELSE vol[v]]
    BY <1>4 DEF CloudTerminated
  <2>2. /\ inst' \in [Ids -> InstTypes] /\ Ordered'
        /\ \A j \in Ids : Known(j)' <=> Known(j)
        /\ \A j \in Ids : inst'[j].ip = inst[j].ip
        /\ inst'[i].st = "terminated" /\ \A j \in Ids \ {i} : inst'[j] = inst[j]
    BY <2>1, InstChanges
  <2>3. /\ \A v \in Ids : vol[v].att = i => vol'[v].st = vol[v].st /\ vol'[v].att = 0
        /\ \A v \in Ids : vol[v].att # i => vol'[v] = vol[v]
    BY <2>1 DEF CloudOK, VolTypes
  <2>4. vol' \in [Ids -> VolTypes]
    BY <2>1, <2>3, Numbers DEF CloudOK, VolTypes
  <2>5. \A v \in Ids : vol'[v].att # 0 => vol'[v] = vol[v]
    BY <2>3
  <2>6. \A v \in Ids : vol[v] = NoVol => vol'[v] = NoVol
    BY <2>3, NonZero DEF NoVol
  <2>7. Attached'
    <3>1. \A v \in Ids : inst'[v].st = "none" => vol'[v] = NoVol
      BY <2>2, <2>6 DEF CloudOK, Attached, Known
    <3>2. \A v \in Ids : vol'[v].att # 0 => vol'[v].st = "ok" /\ inst'[vol'[v].att].st # "none"
      BY <2>2, <2>5, Attachments DEF CloudOK, Attached, Known
    <3>3. \A v, w \in Ids : vol'[v].att = vol'[w].att /\ vol'[v].att # 0 => v = w
      BY <2>5 DEF CloudOK, Attached
    <3> QED BY <3>1, <3>2, <3>3 DEF Attached, Known
  <2>8. InstProgress
    BY <2>1, <2>2 DEF InstProgress, Live, Running
  <2>9. \A v \in Ids : vol[v].st = "deleted" => vol'[v].st = "deleted"
    BY <2>3
  <2>10. \A v, j \in Ids : vol[v].att = j /\ Live(j)' => vol'[v] = vol[v]
    BY <2>2, <2>3 DEF Live
  <2> QED BY <2>2, <2>4, <2>7, <2>8, <2>9, <2>10 DEF CloudOK, Progress
<1>5. CASE CloudDeletes
  <2>1. PICK v \in Ids : /\ Known(v) /\ vol[v].att = 0
                         /\ vol' = [vol EXCEPT ![v] = [st |-> "deleted", att |-> 0]] /\ UNCHANGED inst
    BY <1>5 DEF CloudDeletes
  <2>2. /\ vol' \in [Ids -> VolTypes] /\ vol'[v] = [st |-> "deleted", att |-> 0]
        /\ \A w \in Ids \ {v} : vol'[w] = vol[w]
    BY <2>1, Numbers DEF CloudOK, VolTypes
  <2>3. Attached'
    <3>1. \A w \in Ids : inst'[w].st = "none" => vol'[w] = NoVol
      BY <2>1, <2>2 DEF CloudOK, Attached, Known
    <3>2. \A w \in Ids : vol'[w].att # 0 => vol'[w] = vol[w]
      BY <2>2
    <3> QED BY <2>1, <3>1, <3>2 DEF CloudOK, Attached, Known
  <2>4. InstProgress /\ Ordered'
    BY <2>1 DEF InstProgress, CloudOK, Ordered, Known, Live, Running
  <2> QED BY <2>1, <2>2, <2>3, <2>4, NonZero DEF CloudOK, Progress
<1>6. CASE CloudAttaches
  <2>1. PICK v \in Ids, i \in Ids :
          /\ vol[v] = [st |-> "ok", att |-> 0] /\ Known(i) /\ \A w \in Ids : vol[w].att # i
          /\ vol' = [vol EXCEPT ![v].att = i] /\ UNCHANGED inst
    BY <1>6 DEF CloudAttaches
  <2>2. /\ vol' \in [Ids -> VolTypes] /\ vol'[v] = [st |-> "ok", att |-> i]
        /\ \A w \in Ids \ {v} : vol'[w] = vol[w]
    BY <2>1, Numbers DEF CloudOK, Ids, VolTypes
  <2>3. Attached'
    <3>1. \A w \in Ids : inst'[w].st = "none" => vol'[w] = NoVol
      BY <2>1, <2>2 DEF CloudOK, Attached, NoVol
    <3>2. \A w \in Ids : vol'[w].att # 0 => vol'[w].st = "ok" /\ inst'[vol'[w].att].st # "none"
      BY <2>1, <2>2 DEF CloudOK, Attached, Known
    <3>3. \A u, w \in Ids : vol'[u].att = vol'[w].att /\ vol'[u].att # 0 => u = w
      BY <2>1, <2>2 DEF CloudOK, Attached
    <3> QED BY <3>1, <3>2, <3>3 DEF Attached, Known
  <2>4. InstProgress /\ Ordered'
    BY <2>1 DEF InstProgress, CloudOK, Ordered, Known, Live, Running
  <2> QED BY <2>1, <2>2, <2>3, <2>4, NonZero DEF CloudOK, Progress
<1> QED BY <1>1, <1>2, <1>4, <1>5, <1>6, Launches DEF CloudStep

-----------------------------------------------------------------------------
(* States *)

LEMMA StateFields ==
    ASSUME NEW s \in States
    PROVE  /\ s # NoFile /\ s.ms \in Seq(Records) /\ s.cs \in Seq(Records)
           /\ s = State(s.ms, s.cs)
           /\ Len(s.ms) \in Nat /\ Len(s.cs) \in Nat /\ Size(s) = Len(s.ms) + Len(s.cs)
           /\ Size(s) \in Nat
           /\ \A j \in 1..Len(s.ms) : s.ms[j] \in Records
           /\ \A j \in 1..Len(s.cs) : s.cs[j] \in Records
<1>1. s.name = "state"
  BY DEF States
<1>2. s # NoFile
  BY <1>1 DEF NoFile
<1>3. s.ms \in Seq(Records) /\ s.cs \in Seq(Records) /\ s = State(s.ms, s.cs)
  BY DEF States, State
<1> DEFINE m == s.ms
           c == s.cs
<1>4. Len(m) \in Nat /\ Len(c) \in Nat
  BY <1>3
<1>5. Size(s) = Len(m) + Len(c)
  BY DEF Size
<1>6. (\A j \in 1..Len(m) : m[j] \in Records) /\ (\A j \in 1..Len(c) : c[j] \in Records)
  BY <1>3
<1> HIDE DEF m, c
<1>7. Size(s) \in Nat
  BY <1>4, <1>5
<1> QED BY <1>2, <1>3, <1>4, <1>5, <1>6, <1>7 DEF m, c

LEMMA MakeState ==
    ASSUME NEW m \in Seq(Records), NEW c \in Seq(Records)
    PROVE  State(m, c) \in States /\ State(m, c).ms = m /\ State(m, c).cs = c
BY DEF State, States

LEMMA MakeRecord ==
    ASSUME NEW i \in Ids, NEW v \in 0..MaxInst
    PROVE  Rec(i, v) \in Records /\ Rec(i, v).id = i /\ Rec(i, v).vol = v
BY DEF Rec, Records

LEMMA Recs ==
    ASSUME NEW s \in States
    PROVE  \A r : r \in RecsOf(s) <=> \/ \E j \in 1..Len(s.ms) : r = s.ms[j]
                                      \/ \E j \in 1..Len(s.cs) : r = s.cs[j]
<1>1. RecsOf(s) = ToSet(s.ms) \cup ToSet(s.cs)
  BY StateFields DEF RecsOf
<1>2. DOMAIN s.ms = 1..Len(s.ms) /\ DOMAIN s.cs = 1..Len(s.cs)
  BY StateFields
<1> QED BY <1>1, <1>2 DEF ToSet

LEMMA Appending ==
    ASSUME NEW q \in Seq(Records), NEW r \in Records
    PROVE  /\ Append(q, r) \in Seq(Records) /\ Len(Append(q, r)) = Len(q) + 1
           /\ Append(q, r)[Len(q) + 1] = r
           /\ \A j \in 1..Len(q) : Append(q, r)[j] = q[j]
OBVIOUS

LEMMA EmptyState == Empty \in States /\ StateOK(Empty) /\ RecsOf(Empty) = {} /\ Size(Empty) = 0
                    /\ Empty.ms = <<>> /\ Empty.cs = <<>>
<1>1. <<>> \in Seq(Records) /\ Len(<<>>) = 0
  OBVIOUS
<1>2. Empty \in States /\ Empty.ms = <<>> /\ Empty.cs = <<>>
  BY <1>1, MakeState DEF Empty
<1>3. Len(Empty.ms) = 0 /\ Len(Empty.cs) = 0
  BY <1>1, <1>2
<1>4. \A j \in 1..0 : FALSE
  OBVIOUS
<1>5. StateOK(Empty)
  BY <1>2, <1>3, <1>4 DEF StateOK
<1>6. RecsOf(Empty) = {}
  BY <1>2, <1>3, <1>4, Recs
<1>7. Size(Empty) = 0
  BY <1>3 DEF Size
<1> QED BY <1>2, <1>5, <1>6, <1>7

\* A member record is replaced.
LEMMA Changing ==
    ASSUME NEW s \in States, NEW j \in 1..Len(s.ms), NEW r \in Records, NEW t,
           t = [s EXCEPT !.ms = [s.ms EXCEPT ![j] = r]]
    PROVE  /\ t \in States /\ Len(t.ms) = Len(s.ms) /\ t.cs = s.cs
           /\ t.ms[j] = r /\ \A i \in 1..Len(s.ms) : i # j => t.ms[i] = s.ms[i]
<1> DEFINE q == [s.ms EXCEPT ![j] = r]
<1>1. s.ms \in Seq(Records) /\ s.cs \in Seq(Records)
  BY StateFields
<1>2. /\ q \in Seq(Records) /\ Len(q) = Len(s.ms) /\ q[j] = r
      /\ \A i \in 1..Len(s.ms) : i # j => q[i] = s.ms[i]
  BY <1>1
<1>3. t = [s EXCEPT !.ms = q]
  OBVIOUS
<1> HIDE DEF q
<1>4. t \in States /\ t.ms = q /\ t.cs = s.cs
  BY <1>2, <1>3 DEF States
<1> QED BY <1>2, <1>4

\* It gets another volume, or another instance.
LEMMA ChangingVolume ==
    ASSUME NEW s \in States, NEW j \in 1..Len(s.ms), NEW v \in 0..MaxInst
    PROVE  [s EXCEPT !.ms[j].vol = v] = [s EXCEPT !.ms = [s.ms EXCEPT ![j] = Rec(s.ms[j].id, v)]]
<1>1. s.ms[j] \in Records
  BY StateFields
<1>2. [s.ms[j] EXCEPT !.vol = v] = Rec(s.ms[j].id, v)
  BY <1>1 DEF Records, Rec
<1>3. [s EXCEPT !.ms[j].vol = v] = [s EXCEPT !.ms = [s.ms EXCEPT ![j] = [s.ms[j] EXCEPT !.vol = v]]]
  OBVIOUS
<1> QED BY <1>2, <1>3

LEMMA ChangingInstance ==
    ASSUME NEW s \in States, NEW j \in 1..Len(s.ms), NEW i \in Ids
    PROVE  [s EXCEPT !.ms[j].id = i] = [s EXCEPT !.ms = [s.ms EXCEPT ![j] = Rec(i, s.ms[j].vol)]]
<1>1. s.ms[j] \in Records
  BY StateFields
<1>2. [s.ms[j] EXCEPT !.id = i] = Rec(i, s.ms[j].vol)
  BY <1>1 DEF Records, Rec
<1>3. [s EXCEPT !.ms[j].id = i] = [s EXCEPT !.ms = [s.ms EXCEPT ![j] = [s.ms[j] EXCEPT !.id = i]]]
  OBVIOUS
<1> QED BY <1>2, <1>3

LEMMA HoldsStays ==
    ASSUME CloudOK, Progress, NEW i \in Ids, NEW v \in Ids, Known(i), Holds(i, v)
    PROVE  Holds(i, v)'
BY DEF Progress, InstProgress, Holds

LEMMA MembersStay ==
    ASSUME CloudOK, Progress
    PROVE  \A r : (MemberOK(r) => MemberOK(r)') /\ (ClientOK(r) => ClientOK(r)')
<1>1. ASSUME NEW r, r \in Records, Known(r.id) PROVE Known(r.id)'
  BY <1>1 DEF Progress, InstProgress, Records
<1>2. ASSUME NEW r, MemberOK(r), r.vol # 0 PROVE Known(r.vol)' /\ Holds(r.id, r.vol)'
  <2>1. r.id \in Ids /\ r.vol \in Ids
    BY <1>2 DEF MemberOK, Records, Ids
  <2> QED BY <1>2, <2>1, HoldsStays DEF MemberOK, Progress, InstProgress
<1> QED BY <1>1, <1>2 DEF MemberOK, ClientOK

LEMMA StateStays ==
    ASSUME CloudOK, Progress
    PROVE  \A s : StateOK(s) => StateOK(s)'
BY MembersStay DEF StateOK

-----------------------------------------------------------------------------
(* What a step does to the cloud *)

LEMMA Terminating ==
    ASSUME CloudOK, NEW i \in Ids, Terminate(i), UNCHANGED vol
    PROVE  CloudStep
<1>1. CASE inst[i].st = "running"
  <2>1. CloudChanges(i, "shutting")
    BY <1>1 DEF Terminate, CloudChanges, Known
  <2> QED BY <1>1, <2>1 DEF CloudStep, CloudTerminates
<1>2. CASE inst[i].st # "running"
  BY <1>2 DEF Terminate, CloudStep
<1> QED BY <1>1, <1>2

\* The records a "down" goes through.
LEMMA Queue ==
    ASSUME NEW p \in Procs, mem[p] \in States
    PROVE  /\ \A j \in 1..Size(mem[p]) : Todo(p)[j] \in RecsOf(mem[p])
           /\ \A r \in RecsOf(mem[p]) : \E j \in 1..Size(mem[p]) : Todo(p)[j] = r
           /\ \A j \in 1..Len(mem[p].ms) : Todo(p)[Len(mem[p].cs) + j] = mem[p].ms[j]
           /\ \A j \in 1..Size(mem[p]) :
                IF j <= Len(mem[p].cs) THEN Todo(p)[j] = mem[p].cs[j]
                ELSE /\ j - Len(mem[p].cs) \in 1..Len(mem[p].ms)
                     /\ Todo(p)[j] = mem[p].ms[j - Len(mem[p].cs)]
<1> DEFINE m == mem[p].ms
           c == mem[p].cs
<1>1. m \in Seq(Records) /\ c \in Seq(Records) /\ Size(mem[p]) = Len(m) + Len(c)
  BY StateFields
<1>2. Todo(p) = c \o m
  BY DEF Todo
<1> HIDE DEF m, c
<1>3. \A j \in 1..(Len(m) + Len(c)) :
        IF j <= Len(c) THEN (c \o m)[j] = c[j]
        ELSE j - Len(c) \in 1..Len(m) /\ (c \o m)[j] = m[j - Len(c)]
  BY <1>1
<1>4. \A j \in 1..Len(m) : (c \o m)[Len(c) + j] = m[j]
  BY <1>1
<1>5. \A j \in 1..Len(c) : (c \o m)[j] = c[j]
  BY <1>1
<1>6. \A r : r \in RecsOf(mem[p]) <=> (\E j \in 1..Len(m) : r = m[j]) \/ (\E j \in 1..Len(c) : r = c[j])
  BY Recs DEF m, c
<1>7. \A j \in 1..(Len(m) + Len(c)) : (c \o m)[j] \in RecsOf(mem[p])
  <2> SUFFICES ASSUME NEW j \in 1..(Len(m) + Len(c)) PROVE (c \o m)[j] \in RecsOf(mem[p])
    OBVIOUS
  <2>1. CASE j <= Len(c)
    BY <1>1, <1>5, <1>6, <2>1
  <2>2. CASE ~(j <= Len(c))
    BY <1>3, <1>6, <2>2
  <2> QED BY <2>1, <2>2
<1>8. \A r \in RecsOf(mem[p]) : \E j \in 1..(Len(m) + Len(c)) : (c \o m)[j] = r
  <2> SUFFICES ASSUME NEW r \in RecsOf(mem[p])
               PROVE  \E j \in 1..(Len(m) + Len(c)) : (c \o m)[j] = r
    OBVIOUS
  <2>1. ASSUME NEW j \in 1..Len(m), r = m[j] PROVE \E i \in 1..(Len(m) + Len(c)) : (c \o m)[i] = r
    <3>1. Len(c) + j \in 1..(Len(m) + Len(c))
      BY <1>1
    <3> QED BY <1>4, <2>1, <3>1
  <2>2. ASSUME NEW j \in 1..Len(c), r = c[j] PROVE \E i \in 1..(Len(m) + Len(c)) : (c \o m)[i] = r
    BY <1>1, <1>5, <2>2
  <2> QED BY <1>6, <2>1, <2>2
<1> QED BY <1>1, <1>2, <1>3, <1>4, <1>7, <1>8 DEF m, c

LEMMA GoodRecs ==
    ASSUME NEW s, StateOK(s)
    PROVE  /\ s \in States
           /\ \A r \in RecsOf(s) : r \in Records /\ r.id \in Ids /\ Known(r.id)
           /\ \A r \in RecsOf(s) : r.vol # 0 => r.vol \in Ids /\ Known(r.vol)
<1>1. s \in States
  BY DEF StateOK
<1>2. \A r \in RecsOf(s) : r \in Records /\ Known(r.id) /\ (r.vol # 0 => Known(r.vol))
  BY <1>1, Recs DEF StateOK, MemberOK, ClientOK
<1> QED BY <1>1, <1>2 DEF Records, Ids

LEMMA UpCloud ==
    ASSUME Inv, NEW p \in Procs, Up(p)
    PROVE  CloudStep
<1> USE DEF CloudStep
<1>1. CASE UpCreate(p)
  <2>1. ASSUME NEW a, NEW b, Launch(a, b), At(p, "create") \/ At(p, "createClient"),
               a = IF At(p, "create") THEN Len(mem[p].ms) + 1 ELSE 0,
               b = (At(p, "create") /\ Replaceable)
        PROVE  CloudLaunches
    <3>1. Len(mem[p].ms) \in Nat
      BY StateFields DEF Inv, Good, ProcOK, StateOK
    <3>2. a \in Nat /\ b \in BOOLEAN
      BY <2>1, <3>1
    <3> QED BY <2>1, <3>2 DEF CloudLaunches
  <2> QED BY <1>1, <2>1 DEF UpCreate, LaunchUnheard, CallFails
<1>2. CASE UpSaveFails(p)
  <2>1. nid[p] \in Ids
    BY <1>2 DEF UpSaveFails, At, Inv, Good, ProcOK, Holding, Ids
  <2> QED BY <1>2, <2>1, Terminating DEF UpSaveFails, TerminateUnheard, Inv
<1>3. CASE UpSave(p) \/ UpReady(p) \/ UpReadyClient(p) \/ UpSaveReady(p) \/ Bootstrap(p)
  BY <1>3 DEF UpSave, UpReady, UpReadyClient, UpSaveReady, Bootstrap, CallFails
<1> QED BY <1>1, <1>2, <1>3 DEF Up

LEMMA DownCloud ==
    ASSUME Inv, NEW p \in Procs, Down(p)
    PROVE  CloudStep
<1>1. CASE DownDelete(p)
  <2>1. k[p] \in 1..Size(mem[p])
    BY <1>1, StateFields DEF DownDelete, At, Inv, Good, ProcOK, DownOK, InDown, StateOK
  <2>2. Todo(p)[k[p]].id \in Ids
    BY <2>1, Queue, GoodRecs DEF Inv, Good, ProcOK
  <2> QED BY <1>1, <2>2, Terminating DEF DownDelete, TerminateUnheard, Inv, CloudStep
<1>2. CASE DownVolume(p)
  <2> DEFINE v == MemOf(mem[p], k[p]).vol
  <2>1. v # 0 => v \in Ids /\ Known(v)
    <3>1. k[p] \in 1..Len(mem[p].ms)
      BY <1>2 DEF DownVolume, At, Inv, Good, ProcOK, DownOK, InDown
    <3> QED BY <3>1 DEF Inv, Good, ProcOK, StateOK, MemberOK, MemOf, Records, Ids
  <2> QED BY <1>2, <2>1 DEF DownVolume, CloudStep, CloudDeletes
<1>3. CASE DownSaveRemaining(p) \/ DownDeleted(p) \/ DownWait(p) \/ DownRemove(p)
  BY <1>3 DEF DownSaveRemaining, DownDeleted, DownWait, DownRemove, CloudStep
<1> QED BY <1>1, <1>2, <1>3 DEF Down

LEMMA ReplaceCloud ==
    ASSUME Inv, NEW p \in Procs, Replace(p)
    PROVE  CloudStep
<1>1. pc[p] \in InReplace
  BY DEF Replace, ReplaceSpec, ReplaceTerminate, ReplaceWait, ReplaceLaunch, ReplaceAttach,
         ReplaceAttachFails, ReplaceRecord, ReplaceResolve, ReplaceRewrite, At, InReplace
<1>2. /\ k[p] \in 1..Len(mem[p].ms) /\ Old(p) \in Ids
      /\ pc[p] = "attach" => rv[p] # 0 /\ \A v \in Ids : vol[v].att # nid[p]
  BY <1>1 DEF Inv, Good, ProcOK, ReplaceOK, StateOK, MemberOK, Records, Old, MemOf
<1>3. pc[p] = "attach" => nid[p] \in Ids /\ rv[p] \in Ids /\ Known(nid[p])
  BY <1>2 DEF Inv, Good, ProcOK, Holding, Ids
<1>4. CASE ReplaceLaunch(p)
  <2>1. inst[Old(p)].ip \in Nat
    BY <1>2 DEF Inv, CloudOK, InstTypes
  <2> QED BY <1>4, <2>1 DEF ReplaceLaunch, LaunchUnheard, ReplaceCallFails, ReplaceGivesUp, CloudStep,
                            CloudLaunches
<1>5. CASE ReplaceTerminate(p)
  BY <1>2, <1>5, Terminating DEF ReplaceTerminate, TerminateUnheard, ReplaceGivesUp, CloudStep, Inv
<1>6. CASE ReplaceAttach(p)
  BY <1>2, <1>3, <1>6 DEF ReplaceAttach, At, CloudStep, CloudAttaches
<1>7. CASE ReplaceAttachFails(p)
  BY <1>3, <1>7, Terminating DEF ReplaceAttachFails, TerminateUnheard, At, CloudStep, Inv
<1>8. CASE ReplaceSpec(p) \/ ReplaceWait(p) \/ ReplaceRecord(p) \/ ReplaceResolve(p) \/ ReplaceRewrite(p)
  BY <1>8 DEF ReplaceSpec, ReplaceWait, ReplaceRecord, ReplaceResolve, ReplaceRewrite,
              ReplaceCallFails, ReplaceGivesUp, CloudStep
<1> QED BY <1>4, <1>5, <1>6, <1>7, <1>8 DEF Replace

LEMMA NextCloud ==
    ASSUME Inv, [Next]_vars
    PROVE  CloudStep
<1>1. ASSUME NEW i \in Ids, Ec2Terminated(i) \/ Ec2Purges(i) PROVE CloudStep
  <2>1. CASE Ec2Terminated(i)
    <3>1. CloudChanges(i, "terminated")
      BY <2>1 DEF Ec2Terminated, CloudChanges, Known
    <3> QED BY <2>1, <3>1 DEF Ec2Terminated, CloudTerminated, CloudStep
  <2>2. CASE Ec2Purges(i)
    <3>1. CloudChanges(i, "purged")
      BY <2>2 DEF Ec2Purges, CloudChanges, Known
    <3> QED BY <2>2, <3>1 DEF Ec2Purges, CloudPurges, CloudStep
  <2> QED BY <1>1, <2>1, <2>2
<1>2. ASSUME NEW p \in Procs, StartUpCmd(p) \/ StartDown(p) \/ (\E m \in 1..Members : StartReplace(p, m))
                              \/ Interrupt(p) \/ Crash(p)
      PROVE  CloudStep
  BY <1>2 DEF StartUpCmd, StartDown, StartReplace, Start, Interrupt, Crash, CloudStep
<1>3. CASE UNCHANGED vars
  BY <1>3 DEF vars, CloudStep
<1> QED BY <1>1, <1>2, <1>3, UpCloud, DownCloud, ReplaceCloud DEF Next

-----------------------------------------------------------------------------
(* Other processes *)

Same(q) ==
  /\ pc'[q] = pc[q] /\ op'[q] = op[q] /\ mem'[q] = mem[q] /\ kept'[q] = kept[q]
  /\ k'[q] = k[q] /\ nid'[q] = nid[q] /\ rv'[q] = rv[q]

\* A volume is attached to a new instance at its launch, or by a "replace" to
\* the instance it launched.
LEMMA AttachTargets ==
    ASSUME Inv, [Next]_vars, NEW v \in Ids
    PROVE  \/ vol'[v].att \in {0, vol[v].att}
           \/ vol'[v].att \in Ids /\ ~Known(vol'[v].att)
           \/ \E p \in Procs : ReplaceAttach(p) /\ vol'[v].att = nid[p]
<1>1. vol \in [Ids -> VolTypes]
  BY DEF Inv, CloudOK
<1>2. CASE \E p \in Procs : ReplaceAttach(p)
  <2>1. PICK p \in Procs : ReplaceAttach(p)
    BY <1>2
  <2>2. vol' = [vol EXCEPT ![rv[p]].att = nid[p]]
    BY <2>1 DEF ReplaceAttach
  <2>3. vol'[v].att = vol[v].att \/ vol'[v].att = nid[p]
    BY <1>1, <2>2 DEF VolTypes
  <2> QED BY <2>1, <2>3
<1>3. ASSUME NEW a, NEW b, Launch(a, b)
      PROVE  vol'[v].att = vol[v].att \/ (vol'[v].att \in Ids /\ ~Known(vol'[v].att))
  <2>1. NewId \in Ids /\ inst[NewId].st = "none"
    BY <1>3, FreshId DEF Launch, Inv, NoInst
  <2>2. vol' = vol \/ vol' = [vol EXCEPT ![NewId] = [st |-> "ok", att |-> NewId]]
    BY <1>3 DEF Launch
  <2>3. vol'[v].att = vol[v].att \/ vol'[v].att = NewId
    BY <1>1, <2>2
  <2> QED BY <2>1, <2>3 DEF Known
<1>4. ASSUME NEW p \in Procs, UpCreate(p) \/ ReplaceLaunch(p)
      PROVE  vol'[v].att = vol[v].att \/ (vol'[v].att \in Ids /\ ~Known(vol'[v].att))
  BY <1>3, <1>4 DEF UpCreate, LaunchUnheard, CallFails, ReplaceLaunch, ReplaceCallFails, ReplaceGivesUp
<1>5. ASSUME NEW p \in Procs, DownVolume(p)
      PROVE  vol'[v].att \in {0, vol[v].att}
  <2>1. vol' = vol \/ \E w : vol' = [vol EXCEPT ![w] = [st |-> "deleted", att |-> 0]]
    BY <1>5 DEF DownVolume
  <2> QED BY <1>1, <2>1
<1>6. ASSUME NEW i \in Ids, Ec2Terminated(i)
      PROVE  vol'[v].att \in {0, vol[v].att}
  BY <1>1, <1>6 DEF Ec2Terminated, VolTypes
<1>7. ASSUME UNCHANGED vol PROVE vol'[v].att = vol[v].att
  BY <1>7
<1>8. ASSUME NEW p \in Procs, Up(p), ~UpCreate(p) PROVE UNCHANGED vol
  BY <1>8 DEF Up, UpSave, UpSaveFails, UpReady, UpReadyClient, UpSaveReady, Bootstrap, CallFails
<1>9. ASSUME NEW p \in Procs, Down(p), ~DownVolume(p) PROVE UNCHANGED vol
  BY <1>9 DEF Down, DownDelete, DownSaveRemaining, DownDeleted, DownWait, DownRemove
<1>10. ASSUME NEW p \in Procs, Replace(p), ~ReplaceLaunch(p), ~ReplaceAttach(p) PROVE UNCHANGED vol
  BY <1>10 DEF Replace, ReplaceSpec, ReplaceTerminate, ReplaceWait, ReplaceAttachFails, ReplaceRecord,
               ReplaceResolve, ReplaceRewrite, ReplaceCallFails, ReplaceGivesUp
<1>11. ASSUME NEW p \in Procs, StartUpCmd(p) \/ StartDown(p) \/ (\E m \in 1..Members : StartReplace(p, m))
                               \/ Interrupt(p) \/ Crash(p)
       PROVE  UNCHANGED vol
  BY <1>11 DEF StartUpCmd, StartDown, StartReplace, Start, Interrupt, Crash
<1>12. ASSUME NEW i \in Ids, Ec2Purges(i) PROVE UNCHANGED vol
  BY <1>12 DEF Ec2Purges
<1>13. ASSUME UNCHANGED vars PROVE UNCHANGED vol
  BY <1>13 DEF vars
<1> QED BY <1>2, <1>4, <1>5, <1>6, <1>7, <1>8, <1>9, <1>10, <1>11, <1>12, <1>13 DEF Next

\* A process whose own variables do not change keeps what it relies on.
LEMMA Undisturbed ==
    ASSUME Inv, [Next]_vars, CloudOK', Progress, NEW q \in Procs, Same(q)
    PROVE  Good(q)'
<1>1. Good(q) /\ StateOK(mem[q]) /\ StateOK(kept[q])
  BY DEF Inv, Good, ProcOK
<1>2. StateOK(mem[q])' /\ StateOK(kept[q])'
  BY <1>1, StateStays DEF Same, Inv
<1>3. /\ \A j \in 1..Len(mem[q].ms) : mem[q].ms[j].id \in Ids /\ Known(mem[q].ms[j].id)
      /\ \A j \in 1..Len(mem[q].ms) : mem[q].ms[j].vol # 0 => mem[q].ms[j].vol \in Ids
  BY <1>1 DEF StateOK, MemberOK, Records, Ids
<1>4. /\ \A r \in RecsOf(mem[q]) : r.id \in Ids /\ Known(r.id)
      /\ \A r \in RecsOf(mem[q]) : r.vol # 0 => r.vol \in Ids
  BY <1>1, GoodRecs
<1>5. pc[q] \in Holding => nid[q] \in Ids /\ Known(nid[q])
  BY <1>1 DEF Good, ProcOK, Ids
<1>6. ProcOK(q)'
  BY <1>1, <1>2, <1>5 DEF Good, ProcOK, Same, Progress, InstProgress
<1>7. UpOK(q)'
  <2> SUFFICES ASSUME pc[q] \in InUp PROVE UpOK(q)'
    BY DEF UpOK, Same
  <2>1. \A i \in Ids : Known(i) /\ Holds(i, i) => Holds(i, i)'
    BY HoldsStays DEF Inv
  <2>2. Replaceable => \A j \in 1..Len(mem[q].ms) : \A i : i = mem[q].ms[j].id => Holds(i, i)'
    BY <1>1, <1>3, <2>1 DEF Good, UpOK
  <2>3. pc[q] = "save" /\ Replaceable => \A i : i = nid[q] => Holds(i, i)'
    BY <1>1, <1>5, <2>1 DEF Good, UpOK, Holding
  <2> QED BY <1>1, <2>2, <2>3 DEF Good, UpOK, Same, Holds
<1>8. DownOK(q)'
  <2> SUFFICES ASSUME op[q] = "down" PROVE DownOK(q)'
    BY DEF DownOK, Same
  <2>1. \A r \in RecsOf(mem[q]) : Running(r.id)' => Running(r.id)
    BY <1>4 DEF Progress, InstProgress
  <2>2. \A r \in RecsOf(mem[q]) : r.vol # 0 /\ vol[r.vol].st = "deleted" => vol'[r.vol].st = "deleted"
    BY <1>4 DEF Progress
  <2>3. \A j \in 1..Len(mem[q].ms) : mem[q].ms[j] \in RecsOf(mem[q])
    BY <1>1, Recs DEF StateOK
  <2>4. \A j \in 1..Size(mem[q]) : Todo(q)[j] \in RecsOf(mem[q])
    BY <1>1, Queue DEF StateOK
  <2>5. Todo(q)' = Todo(q)
    BY DEF Todo, Same
  <2>6. pc[q] = "delete" =>
          /\ k[q] \in 1..(Size(mem[q]) + 1)
          /\ \A j \in 1..(k[q] - 1) : Running(Todo(q)[j].id)' => Todo(q)[j] \in RecsOf(kept[q])
    <3> SUFFICES ASSUME pc[q] = "delete"
                 PROVE  /\ k[q] \in 1..(Size(mem[q]) + 1)
                        /\ \A j \in 1..(k[q] - 1) :
                             Running(Todo(q)[j].id)' => Todo(q)[j] \in RecsOf(kept[q])
      OBVIOUS
    <3>1. k[q] \in 1..(Size(mem[q]) + 1) /\ Size(mem[q]) \in Nat
      <4>1. Size(mem[q]) \in Nat
        BY <1>1, StateFields DEF StateOK
      <4>2. k[q] \in 1..(Size(mem[q]) + 1)
        BY <1>1 DEF Good, DownOK
      <4> QED BY <4>1, <4>2
    <3>2. ASSUME NEW j \in 1..(k[q] - 1), Running(Todo(q)[j].id)' PROVE Todo(q)[j] \in RecsOf(kept[q])
      <4>1. j \in 1..Size(mem[q])
        BY <3>1
      <4>2. PICK r \in RecsOf(mem[q]) : r = Todo(q)[j]
        BY <2>4, <4>1
      <4>3. Running(r.id)'
        BY <2>5, <3>2, <4>2 DEF Running
      <4> QED BY <1>1, <2>1, <4>2, <4>3 DEF Good, DownOK
    <3> QED BY <3>1, <3>2
  <2>7. pc[q] \in {"wait", "volumes", "remove", "ok"} => \A r \in RecsOf(mem[q]) : ~Running(r.id)'
    BY <1>1, <2>1 DEF Good, DownOK
  <2>8. pc[q] = "volumes" => k[q] \in 1..Len(mem[q].ms) /\ \A j \in 1..(k[q] - 1) :
          mem[q].ms[j].vol # 0 => vol'[mem[q].ms[j].vol].st = "deleted"
    <3> SUFFICES ASSUME pc[q] = "volumes"
                 PROVE  /\ k[q] \in 1..Len(mem[q].ms)
                        /\ \A j \in 1..(k[q] - 1) :
                             mem[q].ms[j].vol # 0 => vol'[mem[q].ms[j].vol].st = "deleted"
      OBVIOUS
    <3>1. Len(mem[q].ms) \in Nat
      BY <1>1, StateFields DEF StateOK
    <3>2. k[q] \in 1..Len(mem[q].ms)
      BY <1>1 DEF Good, DownOK
    <3>3. ASSUME NEW j \in 1..(k[q] - 1), mem[q].ms[j].vol # 0
          PROVE  vol'[mem[q].ms[j].vol].st = "deleted"
      <4>1. vol[mem[q].ms[j].vol].st = "deleted"
        BY <1>1, <3>3 DEF Good, DownOK
      <4>2. mem[q].ms[j] \in RecsOf(mem[q])
        BY <2>3, <3>1, <3>2
      <4> QED BY <2>2, <3>3, <4>1, <4>2
    <3> QED BY <3>2, <3>3
  <2>9. pc[q] \in {"remove", "ok"} =>
          \A r \in RecsOf(mem[q]) : r.vol # 0 => vol'[r.vol].st = "deleted"
    BY <1>1, <2>2 DEF Good, DownOK
  <2> QED BY <1>1, <2>5, <2>6, <2>7, <2>8, <2>9 DEF Good, DownOK, Same
<1>9. ReplaceOK(q)'
  <2> SUFFICES ASSUME pc[q] \in InReplace PROVE ReplaceOK(q)'
    BY DEF ReplaceOK, Same
  <2> DEFINE r == mem[q].ms[k[q]]
  <2>1. k[q] \in 1..Len(mem[q].ms) /\ r.id \in Ids /\ Known(r.id) /\ (r.vol # 0 => r.vol \in Ids)
    BY <1>1, <1>3 DEF Good, ReplaceOK
  <2>2. ~Live(r.id) => ~Live(r.id)'
    BY <2>1 DEF Progress, InstProgress, Same
  <2>3. pc[q] = "record" /\ r.vol # 0 => \A i, v : i = nid[q] /\ v = r.vol => Holds(i, v)'
    BY <1>1, <1>5, <2>1, HoldsStays DEF Good, ReplaceOK, Inv, Holding
  <2>4. pc[q] = "attach" => \A v \in Ids : vol'[v].att # nid[q]
    <3> SUFFICES ASSUME pc[q] = "attach", NEW v \in Ids, vol'[v].att = nid[q] PROVE FALSE
      OBVIOUS
    <3>1. nid[q] # 0 /\ Known(nid[q]) /\ vol[v].att # nid[q]
      BY <1>1 DEF Good, ProcOK, ReplaceOK, Holding
    <3>2. PICK p \in Procs : ReplaceAttach(p) /\ nid[p] = nid[q]
      BY <3>1, AttachTargets
    <3>3. p = q
      BY <3>1, <3>2 DEF Inv, Distinct
    <3>4. pc'[q] = "record"
      BY <3>2, <3>3 DEF ReplaceAttach, Goto, Inv, Arrays
    <3> QED BY <3>4 DEF Same
  <2> QED BY <1>1, <2>1, <2>2, <2>3, <2>4 DEF Good, ReplaceOK, Same, Holds
<1> QED BY <1>6, <1>7, <1>8, <1>9 DEF Good

-----------------------------------------------------------------------------
(* One process at a time *)

Begins(p) ==
  StartUpCmd(p) \/ StartDown(p) \/ (\E m \in 1..Members : StartReplace(p, m)) \/ Interrupt(p) \/ Crash(p)
Acts(p) == Up(p) \/ Down(p) \/ Replace(p) \/ Begins(p)
CloudActs == (\E i \in Ids : Ec2Terminated(i) \/ Ec2Purges(i)) \/ UNCHANGED vars

LEMMA NextCases ==
    ASSUME [Next]_vars
    PROVE  CloudActs \/ \E p \in Procs : Acts(p)
BY DEF Next, CloudActs, Acts, Begins

\* A step changes the variables of its own process.
Only(p) == Arrays' /\ \A q \in Procs \ {p} : Same(q)

LEMMA OnlyUp ==
    ASSUME Arrays, NEW p \in Procs, Up(p)
    PROVE  Only(p)
<1> USE DEF Only, Arrays, Same, UpRest, Rest, Goto, SetMem, SetNid, SetK
<1>1. CASE UpCreate(p)
  BY <1>1 DEF UpCreate, LaunchUnheard, CallFails
<1>2. CASE UpSave(p)
  BY <1>2 DEF UpSave
<1>3. CASE UpSaveFails(p)
  BY <1>3 DEF UpSaveFails
<1>4. CASE UpReady(p)
  BY <1>4 DEF UpReady, CallFails
<1>5. CASE UpReadyClient(p)
  BY <1>5 DEF UpReadyClient, CallFails
<1>6. CASE UpSaveReady(p)
  BY <1>6 DEF UpSaveReady, UpCreated
<1>7. CASE Bootstrap(p)
  BY <1>7 DEF Bootstrap
<1> QED BY <1>1, <1>2, <1>3, <1>4, <1>5, <1>6, <1>7 DEF Up

LEMMA OnlyDown ==
    ASSUME Arrays, NEW p \in Procs, Down(p)
    PROVE  Only(p)
<1> USE DEF Only, Arrays, Same, DownRest, Rest, Goto, SetMem, SetNid, SetK
<1>1. CASE DownDelete(p)
  BY <1>1 DEF DownDelete, Keep
<1>2. CASE DownSaveRemaining(p)
  BY <1>2 DEF DownSaveRemaining
<1>3. CASE DownDeleted(p)
  BY <1>3 DEF DownDeleted
<1>4. CASE DownWait(p)
  BY <1>4 DEF DownWait
<1>5. CASE DownVolume(p)
  BY <1>5 DEF DownVolume, NextVol
<1>6. CASE DownRemove(p)
  BY <1>6 DEF DownRemove
<1> QED BY <1>1, <1>2, <1>3, <1>4, <1>5, <1>6 DEF Down

LEMMA OnlyReplace ==
    ASSUME Arrays, NEW p \in Procs, Replace(p)
    PROVE  Only(p)
<1> USE DEF Only, Arrays, Same, ReplaceRest, Rest, Goto, SetMem, SetNid, SetK,
            ReplaceCallFails, ReplaceGivesUp
<1>1. CASE ReplaceSpec(p)
  BY <1>1 DEF ReplaceSpec
<1>2. CASE ReplaceTerminate(p)
  BY <1>2 DEF ReplaceTerminate
<1>3. CASE ReplaceWait(p)
  BY <1>3 DEF ReplaceWait
<1>4. CASE ReplaceLaunch(p)
  BY <1>4 DEF ReplaceLaunch, LaunchUnheard
<1>5. CASE ReplaceAttach(p)
  BY <1>5 DEF ReplaceAttach
<1>6. CASE ReplaceAttachFails(p)
  BY <1>6 DEF ReplaceAttachFails
<1>7. CASE ReplaceRecord(p)
  BY <1>7 DEF ReplaceRecord
<1>8. CASE ReplaceResolve(p)
  BY <1>8 DEF ReplaceResolve
<1>9. CASE ReplaceRewrite(p)
  BY <1>9 DEF ReplaceRewrite
<1> QED BY <1>1, <1>2, <1>3, <1>4, <1>5, <1>6, <1>7, <1>8, <1>9 DEF Replace

LEMMA OnlyBegins ==
    ASSUME Arrays, NEW p \in Procs, Begins(p)
    PROVE  Only(p)
<1> USE DEF Only, Arrays, Same, Start, Goto, SetMem, SetNid, SetK
<1>1. CASE StartUpCmd(p)
  BY <1>1 DEF StartUpCmd
<1>2. CASE StartDown(p)
  BY <1>2 DEF StartDown
<1>3. ASSUME NEW m \in 1..Members, StartReplace(p, m) PROVE Only(p)
  BY <1>3 DEF StartReplace
<1>4. CASE Interrupt(p)
  BY <1>4 DEF Interrupt
<1>5. CASE Crash(p)
  BY <1>5 DEF Crash
<1> QED BY <1>1, <1>2, <1>3, <1>4, <1>5 DEF Begins

LEMMA OnlyActs ==
    ASSUME Arrays, NEW p \in Procs, Acts(p)
    PROVE  Only(p)
BY OnlyUp, OnlyDown, OnlyReplace, OnlyBegins DEF Acts

\* A command that stops, or is killed, has nothing left to rely on.
LEMMA Stopped ==
    ASSUME Inv, CloudOK', Progress, NEW p \in Procs, pc'[p] \in {"err", "idle"},
           op'[p] \in {"none", "up", "replace", "down"}, k'[p] \in Nat, rv'[p] \in 0..MaxInst,
           nid'[p] = 0, mem'[p] \in {mem[p], Empty}, kept'[p] \in {kept[p], Empty}
    PROVE  Good(p)'
<1>1. StateOK(mem[p])' /\ StateOK(kept[p])'
  <2>1. StateOK(mem[p]) /\ StateOK(kept[p]) /\ StateOK(Empty)
    BY EmptyState DEF Inv, Good, ProcOK
  <2>2. \A s : StateOK(s) => StateOK(s)'
    BY StateStays DEF Inv
  <2>3. \A s : (s = mem'[p] \/ s = kept'[p]) => StateOK(s)
    BY <2>1
  <2>4. \A s : (s = mem'[p] \/ s = kept'[p]) => StateOK(s)'
    BY <2>2, <2>3
  <2> QED BY <2>4 DEF StateOK, MemberOK, ClientOK, Known, Holds, Live
<1>2. ProcOK(p)'
  BY <1>1, Numbers DEF ProcOK, Done, InUp, InDown, InReplace, Holding
<1>3. UpOK(p)' /\ DownOK(p)' /\ ReplaceOK(p)'
  BY DEF UpOK, DownOK, ReplaceOK, InUp, InReplace
<1> QED BY <1>2, <1>3 DEF Good

LEMMA MemIs ==
    ASSUME NEW p \in Procs, NEW s, StateOK(s)'
    PROVE  /\ mem'[p] = s => StateOK(mem[p])'
           /\ kept'[p] = s => StateOK(kept[p])'
           /\ file' = s => FileOK'
BY DEF FileOK, StateOK, MemberOK, ClientOK, Known, Holds, Live

\* What a process has in memory stays right while it changes something else.
LEMMA MemStays ==
    ASSUME Inv, CloudOK', Progress, NEW p \in Procs
    PROVE  /\ mem'[p] = mem[p] => StateOK(mem[p])'
           /\ kept'[p] = kept[p] => StateOK(kept[p])'
           /\ mem'[p] = Empty => StateOK(mem[p])'
           /\ kept'[p] = Empty => StateOK(kept[p])'
           /\ mem'[p] = file /\ file # NoFile => StateOK(mem[p])'
           /\ file' = file => FileOK'
           /\ file' = mem[p] \/ file' = kept[p] \/ file' = NoFile => FileOK'
<1>1. /\ StateOK(mem[p]) /\ StateOK(kept[p]) /\ StateOK(Empty)
      /\ file # NoFile => StateOK(file)
  BY EmptyState DEF Inv, FileOK, Good, ProcOK
<1>2. \A s : StateOK(s) => StateOK(s)'
  BY StateStays DEF Inv
<1>3. \A s : StateOK(s)' => /\ mem'[p] = s => StateOK(mem[p])'
                            /\ kept'[p] = s => StateOK(kept[p])'
                            /\ file' = s => FileOK'
  BY MemIs
<1>4. file' = NoFile => FileOK'
  BY DEF FileOK
<1>5. \A s : s \in {mem[p], kept[p], Empty} \/ (s = file /\ file # NoFile) => StateOK(s)
  BY <1>1
<1> QED BY <1>2, <1>3, <1>4, <1>5

\* The members of the state in memory are known to EC2.
LEMMA MemberFacts ==
    ASSUME Inv, NEW p \in Procs
    PROVE  /\ mem[p] \in States /\ kept[p] \in States
           /\ \A j \in 1..Len(mem[p].ms) :
                /\ mem[p].ms[j] \in Records /\ mem[p].ms[j].id \in Ids /\ Known(mem[p].ms[j].id)
                /\ mem[p].ms[j].vol # 0 => /\ mem[p].ms[j].vol \in Ids /\ Known(mem[p].ms[j].vol)
                                           /\ Replaceable
                                           /\ Holds(mem[p].ms[j].id, mem[p].ms[j].vol)
           /\ \A j \in 1..Len(mem[p].cs) :
                /\ mem[p].cs[j] \in Records /\ mem[p].cs[j].id \in Ids /\ Known(mem[p].cs[j].id)
                /\ mem[p].cs[j].vol = 0
BY DEF Inv, Good, ProcOK, StateOK, MemberOK, ClientOK, Records, Ids

\* As MemStays, for what each member still holds.
LEMMA UpStays ==
    ASSUME Inv, CloudOK', Progress, NEW p \in Procs, pc[p] \in InUp, Replaceable
    PROVE  /\ \A j \in 1..Len(mem[p].ms) : \A i : i = mem[p].ms[j].id => Holds(i, i)'
           /\ pc[p] = "save" => \A i : i = nid[p] => Holds(i, i)'
<1>1. \A i \in Ids : Known(i) /\ Holds(i, i) => Holds(i, i)'
  BY HoldsStays DEF Inv
<1>2. pc[p] = "save" => nid[p] \in Ids /\ Known(nid[p])
  BY DEF Inv, Good, ProcOK, Holding, Ids
<1> QED BY <1>1, <1>2, MemberFacts DEF Inv, Good, UpOK

LEMMA BeginsGood ==
    ASSUME Inv, CloudOK', Progress, [Next]_vars, NEW p \in Procs, Begins(p)
    PROVE  Good(p)' /\ FileOK'
<1>1. Arrays /\ ProcOK(p)
  BY DEF Inv, Good
<1>2. FileOK'
  <2>1. file' = file
    BY DEF Begins, StartUpCmd, StartDown, StartReplace, Start, Interrupt, Crash
  <2> QED BY <2>1, MemStays
<1>3. 0 \in 0..MaxInst /\ Empty.ms = <<>> /\ Empty.cs = <<>> /\ Len(<<>>) = 0
  BY EmptyState, Numbers
<1>4. CASE StartUpCmd(p)
  <2>1. /\ pc'[p] \in {"create", "err"} /\ op'[p] = "up" /\ mem'[p] = Empty /\ kept'[p] = Empty
        /\ k'[p] = 1 /\ nid'[p] = 0 /\ rv'[p] = 0
    BY <1>1, <1>4 DEF StartUpCmd, Start, Arrays, Goto, SetMem, SetNid, SetK
  <2>2. ProcOK(p)'
    BY <1>3, <2>1, MemStays DEF ProcOK, Done, InUp, InDown, InReplace, Holding
  <2>3. UpOK(p)'
    BY <1>3, <2>1, Numbers DEF UpOK
  <2> QED BY <1>2, <2>1, <2>2, <2>3 DEF Good, DownOK, ReplaceOK, InReplace
<1>5. CASE StartDown(p)
  <2>1. /\ pc'[p] \in {"ok", "delete", "err"} /\ op'[p] = "down" /\ kept'[p] = Empty
        /\ k'[p] = 1 /\ nid'[p] = 0 /\ rv'[p] = 0
        /\ mem'[p] = Empty \/ (mem'[p] = file /\ file # NoFile)
        /\ pc'[p] = "ok" => mem'[p] = Empty
    BY <1>1, <1>5 DEF StartDown, Start, Arrays, Goto, SetMem, SetNid, SetK, Readable
  <2>2. ProcOK(p)'
    BY <1>3, <2>1, MemStays DEF ProcOK, Done, InUp, InDown, InReplace, Holding
  <2>3. DownOK(p)'
    <3>1. mem'[p] \in States
      BY <2>2 DEF ProcOK, StateOK
    <3>2. Size(mem'[p]) \in Nat
      BY <3>1, StateFields
    <3>3. pc'[p] = "ok" => RecsOf(mem'[p]) = {}
      BY <2>1, EmptyState
    <3>4. 1 \in 1..(Size(mem'[p]) + 1) /\ \A j \in 1..(1 - 1) : FALSE
      BY <3>2
    <3> QED BY <2>1, <3>3, <3>4 DEF DownOK
  <2> QED BY <1>2, <2>1, <2>2, <2>3 DEF Good, UpOK, ReplaceOK, InUp, InReplace
<1>6. ASSUME NEW m \in 1..Members, StartReplace(p, m) PROVE Good(p)'
  <2>1. /\ pc'[p] \in {"spec", "err"} /\ op'[p] = "replace" /\ kept'[p] = Empty
        /\ k'[p] = m /\ nid'[p] = 0 /\ rv'[p] = 0 /\ mem'[p] = file /\ file # NoFile
        /\ m \in 1..Len(file.ms)
    BY <1>1, <1>6 DEF StartReplace, Start, Arrays, Goto, SetMem, SetNid, SetK, Readable
  <2>2. ProcOK(p)'
    BY <1>3, <2>1, MemStays DEF ProcOK, Done, InUp, InDown, InReplace, Holding
  <2> QED BY <2>1, <2>2 DEF Good, UpOK, DownOK, ReplaceOK, InUp, InDown
<1>7. CASE Interrupt(p)
  BY <1>2, <1>7, Undisturbed DEF Interrupt, Same
<1>8. CASE Crash(p)
  <2>1. /\ pc'[p] = "idle" /\ op'[p] = op[p] /\ mem'[p] = mem[p] /\ kept'[p] = kept[p]
        /\ k'[p] = k[p] /\ rv'[p] = rv[p] /\ nid'[p] = 0
    BY <1>1, <1>8 DEF Crash, Arrays, Goto, SetNid
  <2> QED BY <1>1, <1>2, <2>1, Stopped DEF ProcOK
<1> QED BY <1>2, <1>4, <1>5, <1>6, <1>7, <1>8 DEF Begins

LEMMA UpCreateGood ==
    ASSUME Inv, CloudOK', Progress, NEW p \in Procs, UpCreate(p)
    PROVE  Good(p)' /\ FileOK'
<1>1. Arrays /\ ProcOK(p) /\ UpOK(p) /\ pc[p] \in {"create", "createClient"}
  BY DEF Inv, Good, UpCreate, At
<1>2. /\ UNCHANGED <<file, mem, k, kept, rv, op>>
  BY DEF UpCreate, Rest, CallFails
<1>3. FileOK'
  BY <1>2, MemStays
<1>4. CASE /\ nid' = [nid EXCEPT ![p] = NewId] /\ ~QuotaReached
           /\ pc' = [pc EXCEPT ![p] = IF At(p, "create") THEN "save" ELSE "saveClient"]
           /\ Launch(IF At(p, "create") THEN Len(mem[p].ms) + 1 ELSE 0, At(p, "create") /\ Replaceable)
  <2>1. PICK a \in Ids : a = NewId
    BY <1>4, FreshId DEF Inv
  <2>2. nid'[p] = a /\ pc'[p] = IF pc[p] = "create" THEN "save" ELSE "saveClient"
    BY <1>1, <1>4, <2>1 DEF Arrays, At
  <2>3. inst'[a].st = "running" /\ (pc[p] = "create" /\ Replaceable => vol'[a] = [st |-> "ok", att |-> a])
    BY <1>4, <2>1 DEF Launch, At, Inv, CloudOK
  <2>4. Known(a)' /\ (pc'[p] = "save" /\ Replaceable => Holds(a, a)')
    BY <2>2, <2>3 DEF Known, Holds
  <2>5. ProcOK(p)'
    BY <1>1, <1>2, <2>2, <2>4, MemStays DEF ProcOK, Done, InUp, InDown, InReplace, Holding, Ids, Known
  <2>6. UpOK(p)'
    <3>1. Replaceable => \A j \in 1..Len(mem[p].ms) : \A i : i = mem[p].ms[j].id => Holds(i, i)'
      BY <1>1, UpStays DEF InUp
    <3>2. pc'[p] = "save" => Len(mem[p].ms) < Members
      BY <1>1, <2>2 DEF UpOK, InUp
    <3> QED BY <1>2, <2>2, <2>4, <3>1, <3>2 DEF UpOK, Holds
  <2> QED BY <1>1, <1>2, <1>3, <2>2, <2>5, <2>6 DEF Good, DownOK, ReplaceOK, ProcOK, InReplace, InUp
<1>5. CASE pc' = [pc EXCEPT ![p] = "err"] /\ nid' = nid
  <2>1. pc'[p] = "err" /\ nid'[p] = 0
    BY <1>1, <1>5 DEF Arrays, ProcOK, Holding
  <2> QED BY <1>1, <1>2, <1>3, <2>1, Stopped DEF ProcOK
<1> QED BY <1>4, <1>5 DEF UpCreate, LaunchUnheard, Launch, Goto, SetNid, CallFails

LEMMA Adding ==
    ASSUME NEW s, StateOK(s), NEW r \in Records
    PROVE  /\ MemberOK(r) =>
                LET t == State(Append(s.ms, r), s.cs) IN
                /\ StateOK(t) /\ t.cs = s.cs /\ Len(t.ms) = Len(s.ms) + 1 /\ t.ms[Len(s.ms) + 1] = r
                /\ \A j \in 1..Len(s.ms) : t.ms[j] = s.ms[j]
           /\ ClientOK(r) =>
                LET t == State(s.ms, Append(s.cs, r)) IN
                /\ StateOK(t) /\ t.ms = s.ms /\ Len(t.cs) = Len(s.cs) + 1 /\ t.cs[Len(s.cs) + 1] = r
                /\ \A j \in 1..Len(s.cs) : t.cs[j] = s.cs[j]
<1> DEFINE m == s.ms
           c == s.cs
<1>1. m \in Seq(Records) /\ c \in Seq(Records) /\ Len(m) \in Nat /\ Len(c) \in Nat
  BY StateFields DEF StateOK
<1>2. /\ \A j \in 1..Len(m) : MemberOK(m[j])
      /\ \A j \in 1..Len(c) : ClientOK(c[j])
  BY DEF StateOK
<1> HIDE DEF m, c
<1>3. ASSUME MemberOK(r), NEW t, t = State(Append(m, r), c)
      PROVE  /\ StateOK(t) /\ t.cs = c /\ Len(t.ms) = Len(m) + 1 /\ t.ms[Len(m) + 1] = r
             /\ \A j \in 1..Len(m) : t.ms[j] = m[j]
  <2>1. /\ Append(m, r) \in Seq(Records) /\ Len(Append(m, r)) = Len(m) + 1
        /\ Append(m, r)[Len(m) + 1] = r /\ \A j \in 1..Len(m) : Append(m, r)[j] = m[j]
    BY <1>1, Appending
  <2>2. t \in States /\ t.ms = Append(m, r) /\ t.cs = c
    BY <1>1, <1>3, <2>1, MakeState
  <2>3. ASSUME NEW j \in 1..Len(t.ms) PROVE MemberOK(t.ms[j])
    <3>1. j \in 1..Len(m) \/ j = Len(m) + 1
      BY <1>1, <2>1, <2>2
    <3> QED BY <1>2, <1>3, <2>1, <2>2, <3>1
  <2> QED BY <1>2, <2>1, <2>2, <2>3 DEF StateOK
<1>4. ASSUME ClientOK(r), NEW t, t = State(m, Append(c, r))
      PROVE  /\ StateOK(t) /\ t.ms = m /\ Len(t.cs) = Len(c) + 1 /\ t.cs[Len(c) + 1] = r
             /\ \A j \in 1..Len(c) : t.cs[j] = c[j]
  <2>1. /\ Append(c, r) \in Seq(Records) /\ Len(Append(c, r)) = Len(c) + 1
        /\ Append(c, r)[Len(c) + 1] = r /\ \A j \in 1..Len(c) : Append(c, r)[j] = c[j]
    BY <1>1, Appending
  <2>2. t \in States /\ t.cs = Append(c, r) /\ t.ms = m
    BY <1>1, <1>4, <2>1, MakeState
  <2>3. ASSUME NEW j \in 1..Len(t.cs) PROVE ClientOK(t.cs[j])
    <3>1. j \in 1..Len(c) \/ j = Len(c) + 1
      BY <1>1, <2>1, <2>2
    <3> QED BY <1>2, <1>4, <2>1, <2>2, <3>1
  <2> QED BY <1>2, <2>1, <2>2, <2>3 DEF StateOK
<1> QED BY <1>3, <1>4 DEF m, c

LEMMA UpSaveGood ==
    ASSUME Inv, CloudOK', Progress, NEW p \in Procs, UpSave(p)
    PROVE  Good(p)' /\ FileOK'
<1>1. /\ Arrays /\ ProcOK(p) /\ UpOK(p) /\ pc[p] \in {"save", "saveClient"} /\ op[p] = "up"
      /\ StateOK(mem[p]) /\ StateOK(kept[p]) /\ rv[p] \in 0..MaxInst
  BY DEF Inv, Good, UpSave, At, ProcOK, InUp
<1>2. PICK a \in Ids : a = nid[p] /\ Known(a)
  BY <1>1 DEF ProcOK, Holding, Ids
<1>3. PICK r \in Records : r = Rec(nid[p], 0) /\ r.id = a /\ r.vol = 0
  <2>1. 0 \in 0..MaxInst
    BY Numbers
  <2> QED BY <1>2, <2>1, MakeRecord
<1>4. PICK s, t : s = mem[p] /\ t = Appended(p)
  OBVIOUS
<1>5. /\ mem'[p] = t /\ file' = t /\ kept'[p] = kept[p] /\ rv'[p] = rv[p] /\ op'[p] = op[p]
      /\ pc'[p] = IF pc[p] = "saveClient" THEN "readyClient"
                  ELSE IF Len(t.ms) < Members THEN "create" ELSE "ready"
      /\ k'[p] = IF pc[p] = "saveClient" THEN Len(t.cs) ELSE 1
      /\ nid'[p] = 0
  BY <1>1, <1>4 DEF UpSave, UpRest, Rest, Arrays, SetMem, Write, Goto, SetK, SetNid, At
<1>6. /\ pc[p] = "save" => t = State(Append(s.ms, r), s.cs)
      /\ pc[p] = "saveClient" => t = State(s.ms, Append(s.cs, r))
  BY <1>3, <1>4 DEF Appended, At
<1>7. MemberOK(r) /\ ClientOK(r)
  BY <1>2, <1>3 DEF MemberOK, ClientOK
<1>8. /\ StateOK(s) /\ s \in States
      /\ Len(s.ms) \in Nat /\ Len(s.cs) \in Nat
  BY <1>1, <1>4, StateFields DEF StateOK
<1>9. /\ StateOK(t)
      /\ pc[p] = "save" => /\ Len(t.ms) = Len(s.ms) + 1 /\ t.ms[Len(s.ms) + 1] = r
                           /\ \A j \in 1..Len(s.ms) : t.ms[j] = s.ms[j]
      /\ pc[p] = "saveClient" => t.ms = s.ms /\ Len(t.cs) = Len(s.cs) + 1
  BY <1>1, <1>6, <1>7, <1>8, Adding
<1>10. StateOK(t)'
  BY <1>9, StateStays DEF Inv
<1>11. StateOK(mem[p])' /\ FileOK' /\ StateOK(kept[p])'
  BY <1>5, <1>10, MemIs, MemStays
<1>12. k'[p] \in Nat
  BY <1>5, <1>8, <1>9, <1>1
<1>13. ProcOK(p)'
  BY <1>1, <1>5, <1>11, <1>12, Numbers DEF ProcOK, Done, InUp, InDown, InReplace, Holding
<1>14. UpOK(p)'
  <2>1. Replaceable => /\ \A j \in 1..Len(s.ms) : \A i : i = s.ms[j].id => Holds(i, i)'
                       /\ pc[p] = "save" => Holds(a, a)'
    BY <1>1, <1>2, <1>4, UpStays DEF InUp
  <2>2. Replaceable => \A j \in 1..Len(t.ms) : \A i : i = t.ms[j].id => Holds(i, i)'
    <3>1. CASE pc[p] = "save"
      <4>1. \A j \in 1..Len(t.ms) : j \in 1..Len(s.ms) \/ j = Len(s.ms) + 1
        BY <1>8, <1>9, <3>1
      <4> QED BY <1>3, <1>9, <2>1, <3>1, <4>1
    <3>2. CASE pc[p] = "saveClient"
      BY <1>9, <2>1, <3>2
    <3> QED BY <1>1, <3>1, <3>2
  <2>3. pc'[p] = "ready" => k'[p] \in 1..Len(t.ms) /\ Len(t.ms) = Members
    BY <1>1, <1>4, <1>5, <1>8, <1>9, Numbers DEF UpOK, InUp
  <2>4. pc'[p] = "readyClient" => k'[p] \in 1..Len(t.cs)
    BY <1>1, <1>5, <1>8, <1>9
  <2>5. pc'[p] = "create" => Len(t.ms) < Members
    BY <1>1, <1>5
  <2> QED BY <1>1, <1>5, <2>2, <2>3, <2>4, <2>5 DEF UpOK, Holds
<1> QED BY <1>1, <1>5, <1>11, <1>13, <1>14 DEF Good, DownOK, ReplaceOK, InReplace

LEMMA UpReadyGood ==
    ASSUME Inv, CloudOK', Progress, NEW p \in Procs, UpReady(p)
    PROVE  Good(p)' /\ FileOK'
<1>1. /\ Arrays /\ ProcOK(p) /\ UpOK(p) /\ pc[p] = "ready" /\ op[p] = "up"
      /\ StateOK(mem[p]) /\ nid[p] = 0
      /\ k[p] \in 1..Len(mem[p].ms) /\ Len(mem[p].ms) = Members
  BY DEF Inv, Good, UpReady, At, ProcOK, UpOK, InUp, Holding
<1>2. kept'[p] = kept[p] /\ rv'[p] = rv[p] /\ op'[p] = op[p] /\ nid'[p] = nid[p] /\ file' = file
  BY DEF UpReady, UpRest, Rest, CallFails
<1>3. FileOK' /\ StateOK(kept[p])'
  BY <1>2, MemStays
<1>4. PICK s, j : s = mem[p] /\ j = k[p]
  OBVIOUS
<1>5. PICK i \in Ids : i = MemOf(mem[p], k[p]).id /\ Known(i)
  BY <1>1, MemberFacts DEF MemOf
<1>6. CASE pc' = [pc EXCEPT ![p] = "err"] /\ mem' = mem /\ k' = k
  <2>1. pc'[p] = "err" /\ mem'[p] = mem[p] /\ k'[p] = k[p]
    BY <1>1, <1>6 DEF Arrays
  <2> QED BY <1>1, <1>2, <1>3, <2>1, Stopped DEF ProcOK
<1>7. CASE /\ mem' = [mem EXCEPT ![p] = [mem[p] EXCEPT !.ms[k[p]].vol = IF Replaceable THEN i ELSE 0]]
           /\ pc' = [pc EXCEPT ![p] = IF k[p] < Members THEN "ready" ELSE "saveReady"]
           /\ k' = [k EXCEPT ![p] = k[p] + 1]
  <2>1. PICK v \in 0..MaxInst : v = IF Replaceable THEN i ELSE 0
    BY Numbers DEF Ids
  <2>2. PICK r \in Records : r = Rec(i, v) /\ r.id = i /\ r.vol = v
    BY MakeRecord
  <2>3. PICK t : t = [s EXCEPT !.ms[j].vol = v]
    OBVIOUS
  <2>4. /\ mem'[p] = t /\ k'[p] = j + 1 /\ j \in 1..Len(s.ms) /\ Len(s.ms) = Members
        /\ pc'[p] = IF j < Members THEN "ready" ELSE "saveReady"
    BY <1>1, <1>4, <1>7, <2>1, <2>2, <2>3 DEF Arrays
  <2>5. r.id = s.ms[j].id /\ s \in States /\ StateOK(s)
    BY <1>1, <1>4, <1>5, <2>2 DEF MemOf, StateOK
  <2>6. /\ t \in States /\ Len(t.ms) = Len(s.ms) /\ t.cs = s.cs
        /\ t.ms[j] = r /\ \A n \in 1..Len(s.ms) : n # j => t.ms[n] = s.ms[n]
    <3>1. t = [s EXCEPT !.ms = [s.ms EXCEPT ![j] = r]]
      <4>1. r = Rec(s.ms[j].id, v)
        BY <2>2, <2>5
      <4>2. s \in States /\ j \in 1..Len(s.ms)
        BY <2>4, <2>5
      <4>3. [s EXCEPT !.ms[j].vol = v] = [s EXCEPT !.ms = [s.ms EXCEPT ![j] = Rec(s.ms[j].id, v)]]
        BY <4>2, ChangingVolume
      <4> QED BY <2>3, <4>1, <4>3
    <3> QED BY <2>4, <2>5, <3>1, Changing
  <2>7. Replaceable => Holds(i, i)
    BY <1>1, <1>5 DEF UpOK, InUp, MemOf
  <2>8. MemberOK(r)
    BY <1>5, <2>1, <2>2, <2>7 DEF MemberOK
  <2>9. StateOK(t)
    BY <2>5, <2>6, <2>8 DEF StateOK
  <2>10. StateOK(t)'
    BY <2>9, StateStays DEF Inv
  <2>11. StateOK(mem[p])'
    BY <2>4, <2>10, MemIs
  <2>12. ProcOK(p)'
    BY <1>1, <1>2, <1>3, <2>4, <2>11, Numbers DEF ProcOK, Done, InUp, InDown, InReplace, Holding
  <2>13. Replaceable => \A n \in 1..Len(t.ms) : \A x : x = t.ms[n].id => Holds(x, x)'
    <3>1. Replaceable => \A n \in 1..Len(s.ms) : \A x : x = s.ms[n].id => Holds(x, x)'
      BY <1>1, <1>4, UpStays DEF InUp
    <3>2. \A n \in 1..Len(t.ms) : t.ms[n].id = s.ms[n].id
      BY <2>5, <2>6
    <3> QED BY <2>6, <3>1, <3>2
  <2>14. UpOK(p)'
    <3>1. pc'[p] = "ready" => k'[p] \in 1..Len(t.ms) /\ Len(t.ms) = Members
      BY <2>4, <2>6, Numbers
    <3> QED BY <2>4, <2>13, <3>1 DEF UpOK, Holds
  <2> QED BY <1>1, <1>2, <1>3, <2>4, <2>12, <2>14 DEF Good, DownOK, ReplaceOK, InReplace
<1> QED BY <1>5, <1>6, <1>7 DEF UpReady, CallFails, SetMem, SetK, Goto, MemOf

\* The other steps of "up" leave the state in memory alone.
LEMMA UpOtherGood ==
    ASSUME Inv, CloudOK', Progress, NEW p \in Procs,
           UpSaveFails(p) \/ UpReadyClient(p) \/ UpSaveReady(p) \/ Bootstrap(p)
    PROVE  Good(p)' /\ FileOK'
<1>1. /\ Arrays /\ ProcOK(p) /\ UpOK(p)
      /\ pc[p] \in {"save", "saveClient", "readyClient", "saveReady", "boot"} /\ op[p] # "down"
      /\ pc[p] # "boot" => op[p] = "up"
  BY DEF Inv, Good, UpSaveFails, UpReadyClient, UpSaveReady, Bootstrap, At, ProcOK, InUp
<1>2. /\ mem'[p] = mem[p] /\ kept'[p] = kept[p] /\ rv'[p] = rv[p] /\ op'[p] = op[p] /\ k'[p] = k[p]
      /\ file' \in {file, mem[p]} /\ nid'[p] = 0
  BY <1>1 DEF UpSaveFails, UpReadyClient, UpSaveReady, Bootstrap, UpRest, Rest, CallFails, Write,
              WriteFails, SetNid, Arrays, ProcOK, Holding, At
<1>3. FileOK' /\ StateOK(mem[p])' /\ StateOK(kept[p])'
  BY <1>2, MemStays
<1>4. CASE pc'[p] = "err"
  BY <1>1, <1>2, <1>3, <1>4, Stopped DEF ProcOK
<1>5. CASE pc'[p] \in {"create", "createClient", "saveReady", "boot", "ok"}
  <2>1. pc'[p] \in {"create", "createClient", "saveReady"} => op[p] = "up" /\ pc[p] \in InUp
    BY <1>1, <1>5 DEF UpSaveFails, UpReadyClient, UpSaveReady, Bootstrap, CallFails, Goto, Arrays,
                      InUp, UpCreated, At
  <2>2. ProcOK(p)'
    BY <1>1, <1>2, <1>3, <1>5, <2>1, Numbers DEF ProcOK, Done, InUp, InDown, InReplace, Holding
  <2>3. pc'[p] \in InUp /\ Replaceable =>
          \A j \in 1..Len(mem[p].ms) : \A i : i = mem[p].ms[j].id => Holds(i, i)'
    BY <1>5, <2>1, UpStays DEF InUp
  <2>4. pc'[p] = "create" => Len(mem[p].ms) < Members
    BY <1>1 DEF UpSaveFails, UpReadyClient, UpSaveReady, Bootstrap, CallFails, Goto, Arrays, UpCreated
  <2>5. UpOK(p)'
    BY <1>2, <1>5, <2>3, <2>4 DEF UpOK, Holds
  <2> QED BY <1>1, <1>2, <1>3, <1>5, <2>2, <2>5 DEF Good, DownOK, ReplaceOK, InReplace
<1> QED BY <1>1, <1>4, <1>5 DEF UpSaveFails, UpReadyClient, UpSaveReady, Bootstrap, CallFails, Goto,
                                Arrays, UpCreated

LEMMA UpGood ==
    ASSUME Inv, CloudOK', Progress, NEW p \in Procs, Up(p)
    PROVE  Good(p)' /\ FileOK'
BY UpCreateGood, UpSaveGood, UpReadyGood, UpOtherGood DEF Up

-----------------------------------------------------------------------------
(* aws down *)

\* The members of a state a "down" goes on with are all on their way out.
LEMMA GoneStays ==
    ASSUME Inv, CloudOK', Progress, NEW p \in Procs
    PROVE  /\ \A r \in RecsOf(mem[p]) : Running(r.id)' => Running(r.id)
           /\ \A r \in RecsOf(mem[p]) :
                r.vol # 0 /\ vol[r.vol].st = "deleted" => vol'[r.vol].st = "deleted"
           /\ \A j \in 1..Len(mem[p].ms) : mem[p].ms[j] \in RecsOf(mem[p])
           /\ \A j \in 1..Size(mem[p]) : Todo(p)[j] \in RecsOf(mem[p])
           /\ Size(mem[p]) = Len(mem[p].ms) + Len(mem[p].cs)
           /\ Len(mem[p].ms) \in Nat /\ Len(mem[p].cs) \in Nat
<1>1. StateOK(mem[p]) /\ mem[p] \in States
  BY MemberFacts DEF Inv, Good, ProcOK
<1>2. /\ \A r \in RecsOf(mem[p]) : r.id \in Ids /\ Known(r.id)
      /\ \A r \in RecsOf(mem[p]) : r.vol # 0 => r.vol \in Ids
  BY <1>1, GoodRecs
<1>3. \A r \in RecsOf(mem[p]) : Running(r.id)' => Running(r.id)
  BY <1>2 DEF Progress, InstProgress
<1>4. \A r \in RecsOf(mem[p]) : r.vol # 0 /\ vol[r.vol].st = "deleted" => vol'[r.vol].st = "deleted"
  BY <1>2 DEF Progress
<1> QED BY <1>1, <1>3, <1>4, Recs, Queue, StateFields

LEMMA DownDeleteGood ==
    ASSUME Inv, CloudOK', Progress, NEW p \in Procs, DownDelete(p)
    PROVE  Good(p)' /\ FileOK'
<1>1. /\ Arrays /\ ProcOK(p) /\ DownOK(p) /\ pc[p] = "delete" /\ op[p] = "down" /\ nid[p] = 0
      /\ StateOK(kept[p]) /\ k[p] \in Nat
  BY DEF Inv, Good, DownDelete, At, ProcOK, InDown, Holding
<1>2. /\ mem'[p] = mem[p] /\ rv'[p] = rv[p] /\ op'[p] = op[p] /\ nid'[p] = nid[p] /\ file' = file
      /\ pc'[p] = pc[p] /\ k'[p] = k[p] + 1 /\ k[p] <= Size(mem[p])
  BY <1>1 DEF DownDelete, DownRest, Rest, SetK, Arrays
<1>3. FileOK' /\ StateOK(mem[p])'
  BY <1>2, MemStays
<1>4. PICK s, r : s = kept[p] /\ r = Todo(p)[k[p]]
  OBVIOUS
<1>5. k[p] \in 1..Size(mem[p]) /\ Size(mem[p]) \in Nat
  <2>1. Size(mem[p]) \in Nat
    BY MemberFacts, StateFields
  <2>2. k[p] \in 1..(Size(mem[p]) + 1)
    BY <1>1 DEF DownOK
  <2> QED BY <1>2, <2>1, <2>2
<1>6. r \in RecsOf(mem[p]) /\ r \in Records /\ r.id \in Ids
  BY <1>1, <1>4, <1>5, GoneStays, GoodRecs DEF ProcOK
<1>7. IF k[p] <= Len(mem[p].cs) THEN ClientOK(r) ELSE MemberOK(r)
  <2>1. IF k[p] <= Len(mem[p].cs) THEN Todo(p)[k[p]] = mem[p].cs[k[p]]
        ELSE /\ k[p] - Len(mem[p].cs) \in 1..Len(mem[p].ms)
             /\ Todo(p)[k[p]] = mem[p].ms[k[p] - Len(mem[p].cs)]
    BY <1>5, MemberFacts, Queue
  <2>2. k[p] <= Len(mem[p].cs) => k[p] \in 1..Len(mem[p].cs)
    BY <1>5, GoneStays
  <2>3. /\ \A j \in 1..Len(mem[p].ms) : MemberOK(mem[p].ms[j])
        /\ \A j \in 1..Len(mem[p].cs) : ClientOK(mem[p].cs[j])
    BY <1>1 DEF ProcOK, StateOK
  <2> QED BY <1>4, <2>1, <2>2, <2>3
<1>8. \/ kept'[p] = s /\ ~Running(r.id)'
      \/ kept'[p] = IF k[p] <= Len(mem[p].cs) THEN State(s.ms, Append(s.cs, r))
                                              ELSE State(Append(s.ms, r), s.cs)
  <2>1. CASE Terminate(r.id) /\ kept' = kept
    <3>1. ~Running(r.id)'
      BY <1>6, <2>1 DEF Terminate, Running, Inv, CloudOK
    <3> QED BY <1>4, <2>1, <3>1
  <2>2. CASE Keep(p, r)
    BY <1>1, <1>4, <2>2 DEF Keep, Arrays
  <2> QED BY <1>4, <2>1, <2>2 DEF DownDelete
<1>9. PICK t : t = kept'[p]
  OBVIOUS
<1>10. /\ StateOK(t) /\ \A x \in RecsOf(s) : x \in RecsOf(t)
       /\ Running(r.id)' => r \in RecsOf(t)
  <2>1. CASE t = s /\ ~Running(r.id)'
    BY <1>1, <1>4, <2>1
  <2>2. CASE t = State(s.ms, Append(s.cs, r)) /\ ClientOK(r)
    <3>1. /\ StateOK(t) /\ t.ms = s.ms /\ Len(t.cs) = Len(s.cs) + 1 /\ t.cs[Len(s.cs) + 1] = r
          /\ \A j \in 1..Len(s.cs) : t.cs[j] = s.cs[j]
      BY <1>1, <1>4, <1>6, <2>2, Adding
    <3>2. s \in States /\ t \in States /\ Len(s.cs) \in Nat
      BY <1>1, <1>4, <3>1, StateFields DEF StateOK
    <3>3. Len(s.cs) + 1 \in 1..Len(t.cs) /\ \A j \in 1..Len(s.cs) : j \in 1..Len(t.cs)
      BY <3>1, <3>2
    <3> QED BY <3>1, <3>2, <3>3, Recs
  <2>3. CASE t = State(Append(s.ms, r), s.cs) /\ MemberOK(r)
    <3>0. StateOK(s) /\ r \in Records
      BY <1>1, <1>4, <1>6
    <3>1. /\ StateOK(t) /\ t.cs = s.cs /\ Len(t.ms) = Len(s.ms) + 1 /\ t.ms[Len(s.ms) + 1] = r
          /\ \A j \in 1..Len(s.ms) : t.ms[j] = s.ms[j]
      BY <2>3, <3>0, Adding
    <3>2. s \in States /\ t \in States /\ Len(s.ms) \in Nat
      BY <1>1, <1>4, <3>1, StateFields DEF StateOK
    <3>3. Len(s.ms) + 1 \in 1..Len(t.ms) /\ \A j \in 1..Len(s.ms) : j \in 1..Len(t.ms)
      BY <3>1, <3>2
    <3> QED BY <3>1, <3>2, <3>3, Recs
  <2> QED BY <1>7, <1>8, <1>9, <2>1, <2>2, <2>3
<1>11. StateOK(kept[p])'
  <2>1. StateOK(t)'
    BY <1>10, StateStays DEF Inv
  <2> QED BY <1>9, <2>1, MemIs
<1>12. ProcOK(p)'
  BY <1>1, <1>2, <1>3, <1>11 DEF ProcOK, Done, InUp, InDown, InReplace, Holding
<1>13. DownOK(p)'
  <2>1. k[p] + 1 \in 1..(Size(mem[p]) + 1)
    BY <1>5
  <2>2. ASSUME NEW j \in 1..((k[p] + 1) - 1), NEW x, x = Todo(p)[j], Running(x.id)'
        PROVE  x \in RecsOf(t)
    <3>1. CASE j = k[p]
      BY <1>4, <1>10, <2>2, <3>1
    <3>2. CASE j # k[p]
      <4>1. j \in 1..(k[p] - 1) /\ j \in 1..Size(mem[p])
        BY <1>5, <2>2, <3>2
      <4>2. Running(x.id)
        BY <2>2, <4>1, GoneStays
      <4> QED BY <1>1, <1>4, <1>10, <2>2, <4>1, <4>2 DEF DownOK
    <3> QED BY <3>1, <3>2
  <2>3. Todo(p)' = Todo(p)
    BY <1>2 DEF Todo
  <2>4. \A j \in 1..((k[p] + 1) - 1) : Running(Todo(p)[j].id)' => Todo(p)[j] \in RecsOf(t)
    <3> SUFFICES ASSUME NEW j \in 1..((k[p] + 1) - 1), Running(Todo(p)[j].id)'
                 PROVE  Todo(p)[j] \in RecsOf(t)
      OBVIOUS
    <3>1. PICK x : x = Todo(p)[j]
      OBVIOUS
    <3>2. Running(x.id)'
      BY <2>3, <3>1 DEF Running
    <3> QED BY <2>2, <3>1, <3>2
  <2> QED BY <1>1, <1>2, <1>9, <2>1, <2>3, <2>4 DEF DownOK
<1> QED BY <1>1, <1>2, <1>3, <1>12, <1>13 DEF Good, UpOK, ReplaceOK, InUp, InReplace

LEMMA DownSaveRemainingGood ==
    ASSUME Inv, CloudOK', Progress, NEW p \in Procs, DownSaveRemaining(p)
    PROVE  Good(p)' /\ FileOK'
<1>1. /\ Arrays /\ ProcOK(p) /\ pc[p] = "delete" /\ op[p] = "down" /\ nid[p] = 0
  BY DEF Inv, Good, DownSaveRemaining, At, ProcOK, InDown, Holding
<1>2. /\ mem'[p] = mem[p] /\ kept'[p] = kept[p] /\ rv'[p] = rv[p] /\ op'[p] = op[p]
      /\ nid'[p] = nid[p] /\ k'[p] = k[p] /\ pc'[p] = "err" /\ file' \in {file, kept[p]}
  BY <1>1 DEF DownSaveRemaining, DownRest, Rest, Write, WriteFails, Goto, Arrays
<1>3. FileOK'
  BY <1>2, MemStays
<1> QED BY <1>1, <1>2, <1>3, Stopped DEF ProcOK

\* Nothing is kept, so every instance is on its way out.
LEMMA DownDeletedGood ==
    ASSUME Inv, CloudOK', Progress, NEW p \in Procs, DownDeleted(p)
    PROVE  Good(p)' /\ FileOK'
<1>1. /\ Arrays /\ ProcOK(p) /\ DownOK(p) /\ pc[p] = "delete" /\ op[p] = "down" /\ nid[p] = 0
      /\ StateOK(kept[p]) /\ k[p] > Size(mem[p]) /\ Size(kept[p]) = 0
  BY DEF Inv, Good, DownDeleted, At, ProcOK, InDown, Holding
<1>2. /\ mem'[p] = mem[p] /\ kept'[p] = kept[p] /\ rv'[p] = rv[p] /\ op'[p] = op[p]
      /\ nid'[p] = nid[p] /\ k'[p] = 1 /\ file' = file
      /\ pc'[p] = IF Replaceable /\ mem[p].ms # <<>> THEN "wait" ELSE "remove"
  BY <1>1 DEF DownDeleted, DownRest, Rest, SetK, Goto, Arrays
<1>3. FileOK' /\ StateOK(mem[p])' /\ StateOK(kept[p])'
  BY <1>2, MemStays
<1>4. ProcOK(p)'
  BY <1>1, <1>2, <1>3 DEF ProcOK, Done, InUp, InDown, InReplace, Holding
<1>5. RecsOf(kept[p]) = {}
  <2>1. kept[p] \in States /\ Len(kept[p].ms) \in Nat /\ Len(kept[p].cs) \in Nat
    BY <1>1, StateFields DEF StateOK
  <2>2. Len(kept[p].ms) + Len(kept[p].cs) = 0
    BY <1>1 DEF Size
  <2>3. \A m, c \in Nat : m + c = 0 => m = 0 /\ c = 0
    OBVIOUS
  <2>4. Len(kept[p].ms) = 0 /\ Len(kept[p].cs) = 0
    BY <2>1, <2>2, <2>3
  <2> QED BY <2>1, <2>4, Recs
<1>6. \A r \in RecsOf(mem[p]) : ~Running(r.id)
  <2> SUFFICES ASSUME NEW r \in RecsOf(mem[p]) PROVE ~Running(r.id)
    OBVIOUS
  <2>1. Size(mem[p]) \in Nat /\ k[p] \in 1..(Size(mem[p]) + 1)
    BY <1>1, MemberFacts, StateFields DEF DownOK
  <2>2. PICK j \in 1..Size(mem[p]) : Todo(p)[j] = r
    BY MemberFacts, Queue
  <2>3. j \in 1..(k[p] - 1)
    BY <1>1, <2>1
  <2> QED BY <1>1, <1>5, <2>2, <2>3 DEF DownOK
<1>7. \A r \in RecsOf(mem[p]) : ~Running(r.id)'
  BY <1>6, GoneStays
<1>8. pc'[p] = "wait" => 1 \in 1..Len(mem[p].ms)
  BY <1>2, GoneStays, MemberFacts, StateFields
<1>9. pc'[p] = "remove" => \A r \in RecsOf(mem[p]) : r.vol = 0
  <2> SUFFICES ASSUME pc'[p] = "remove", NEW r \in RecsOf(mem[p]) PROVE r.vol = 0
    OBVIOUS
  <2>1. ~Replaceable \/ Len(mem[p].ms) = 0
    BY <1>2
  <2> QED BY <2>1, MemberFacts, Recs
<1>10. DownOK(p)'
  BY <1>2, <1>7, <1>8, <1>9 DEF DownOK
<1> QED BY <1>1, <1>2, <1>3, <1>4, <1>10 DEF Good, UpOK, ReplaceOK, InUp, InReplace

LEMMA DownWaitGood ==
    ASSUME Inv, CloudOK', Progress, NEW p \in Procs, DownWait(p)
    PROVE  Good(p)' /\ FileOK'
<1>1. /\ Arrays /\ ProcOK(p) /\ DownOK(p) /\ pc[p] = "wait" /\ op[p] = "down" /\ nid[p] = 0
      /\ k[p] \in Nat
  BY DEF Inv, Good, DownWait, At, ProcOK, InDown, Holding
<1>2. /\ mem'[p] = mem[p] /\ kept'[p] = kept[p] /\ rv'[p] = rv[p] /\ op'[p] = op[p]
      /\ nid'[p] = nid[p] /\ file' = file
      /\ \/ k[p] < Len(mem[p].ms) /\ k'[p] = k[p] + 1 /\ pc'[p] = "wait"
         \/ k'[p] = 1 /\ pc'[p] = "volumes"
         \/ k'[p] = k[p] /\ pc'[p] = "err"
  BY <1>1 DEF DownWait, DownRest, Rest, SetK, Goto, Arrays
<1>3. FileOK' /\ StateOK(mem[p])' /\ StateOK(kept[p])'
  BY <1>2, MemStays
<1>4. CASE pc'[p] = "err"
  BY <1>1, <1>2, <1>3, <1>4, Stopped DEF ProcOK
<1>5. CASE pc'[p] # "err"
  <2>1. ProcOK(p)'
    BY <1>1, <1>2, <1>3, <1>5 DEF ProcOK, Done, InUp, InDown, InReplace, Holding
  <2>2. \A r \in RecsOf(mem[p]) : ~Running(r.id)'
    BY <1>1, GoneStays DEF DownOK
  <2>3. k'[p] \in 1..Len(mem[p].ms) /\ Len(mem[p].ms) \in Nat
    BY <1>1, <1>2, <1>5, GoneStays DEF DownOK
  <2>4. DownOK(p)'
    BY <1>2, <1>5, <2>2, <2>3 DEF DownOK
  <2> QED BY <1>1, <1>2, <1>3, <1>5, <2>1, <2>4 DEF Good, UpOK, ReplaceOK, InUp, InReplace
<1> QED BY <1>4, <1>5

LEMMA DownVolumeGood ==
    ASSUME Inv, CloudOK', Progress, NEW p \in Procs, DownVolume(p)
    PROVE  Good(p)' /\ FileOK'
<1>1. /\ Arrays /\ ProcOK(p) /\ DownOK(p) /\ pc[p] = "volumes" /\ op[p] = "down" /\ nid[p] = 0
      /\ k[p] \in 1..Len(mem[p].ms) /\ Len(mem[p].ms) \in Nat
  BY GoneStays DEF Inv, Good, DownVolume, At, ProcOK, DownOK, InDown, Holding
<1>2. PICK n, v : n = k[p] /\ v = MemOf(mem[p], k[p]).vol
  OBVIOUS
<1>3. v # 0 => v \in Ids
  BY <1>1, <1>2, MemberFacts DEF MemOf
<1>4. /\ mem'[p] = mem[p] /\ kept'[p] = kept[p] /\ rv'[p] = rv[p] /\ op'[p] = op[p]
      /\ nid'[p] = nid[p] /\ file' = file
  BY DEF DownVolume, DownRest, Rest
<1>5. \/ k'[p] = k[p] /\ pc'[p] = "err"
      \/ /\ v # 0 => vol'[v].st = "deleted"
         /\ IF n < Len(mem[p].ms) THEN k'[p] = n + 1 /\ pc'[p] = "volumes"
                                  ELSE k'[p] = 1 /\ pc'[p] = "remove"
  <2>1. NextVol(p) => IF n < Len(mem[p].ms) THEN k'[p] = n + 1 /\ pc'[p] = "volumes"
                                            ELSE k'[p] = 1 /\ pc'[p] = "remove"
    BY <1>1, <1>2 DEF NextVol, SetK, Goto, Arrays
  <2>2. \/ k' = k /\ pc'[p] = "err"
        \/ NextVol(p) /\ (v # 0 => vol' = [vol EXCEPT ![v] = [st |-> "deleted", att |-> 0]])
    BY <1>1, <1>2 DEF DownVolume, Goto, Arrays
  <2>3. v # 0 /\ vol' = [vol EXCEPT ![v] = [st |-> "deleted", att |-> 0]] => vol'[v].st = "deleted"
    BY <1>3 DEF Inv, CloudOK
  <2> QED BY <2>1, <2>2, <2>3
<1>6. FileOK' /\ StateOK(mem[p])' /\ StateOK(kept[p])'
  BY <1>4, MemStays
<1>7. CASE k'[p] = k[p] /\ pc'[p] = "err"
  BY <1>1, <1>4, <1>6, <1>7, Stopped DEF ProcOK
<1>8. CASE /\ v # 0 => vol'[v].st = "deleted"
           /\ IF n < Len(mem[p].ms) THEN k'[p] = n + 1 /\ pc'[p] = "volumes"
                                    ELSE k'[p] = 1 /\ pc'[p] = "remove"
  <2>1. ProcOK(p)'
    BY <1>1, <1>2, <1>4, <1>6, <1>8 DEF ProcOK, Done, InUp, InDown, InReplace, Holding
  <2>2. \A r \in RecsOf(mem[p]) : ~Running(r.id)'
    BY <1>1, GoneStays DEF DownOK
  <2>3. \A j \in 1..n : mem[p].ms[j].vol # 0 => vol'[mem[p].ms[j].vol].st = "deleted"
    <3> SUFFICES ASSUME NEW j \in 1..n, mem[p].ms[j].vol # 0
                 PROVE  vol'[mem[p].ms[j].vol].st = "deleted"
      OBVIOUS
    <3>1. CASE j = n
      BY <1>2, <1>8, <3>1 DEF MemOf
    <3>2. CASE j # n
      <4>1. j \in 1..(n - 1) /\ j \in 1..Len(mem[p].ms)
        BY <1>1, <1>2, <3>2
      <4>2. PICK r \in RecsOf(mem[p]) : r = mem[p].ms[j]
        BY <4>1, GoneStays
      <4>3. vol[r.vol].st = "deleted"
        BY <1>1, <1>2, <4>1, <4>2 DEF DownOK
      <4> QED BY <4>2, <4>3, GoneStays
    <3> QED BY <3>1, <3>2
  <2>4. CASE n < Len(mem[p].ms)
    <3>1. n + 1 \in 1..Len(mem[p].ms) /\ (n + 1) - 1 = n
      BY <1>1, <1>2, <2>4
    <3>2. DownOK(p)'
      BY <1>4, <1>8, <2>2, <2>3, <2>4, <3>1 DEF DownOK
    <3> QED BY <1>1, <1>4, <1>6, <1>8, <2>1, <2>4, <3>2 DEF Good, UpOK, ReplaceOK, InUp, InReplace
  <2>5. CASE ~(n < Len(mem[p].ms))
    <3>1. n = Len(mem[p].ms)
      BY <1>1, <1>2, <2>5
    <3>2. \A r \in RecsOf(mem[p]) : r.vol # 0 => vol'[r.vol].st = "deleted"
      BY <2>3, <3>1, MemberFacts, Recs
    <3>3. DownOK(p)'
      BY <1>4, <1>8, <2>2, <2>5, <3>2 DEF DownOK
    <3> QED BY <1>1, <1>4, <1>6, <1>8, <2>1, <2>5, <3>3 DEF Good, UpOK, ReplaceOK, InUp, InReplace
  <2> QED BY <2>4, <2>5
<1> QED BY <1>5, <1>7, <1>8

LEMMA DownRemoveGood ==
    ASSUME Inv, CloudOK', Progress, NEW p \in Procs, DownRemove(p)
    PROVE  Good(p)' /\ FileOK'
<1>1. /\ Arrays /\ ProcOK(p) /\ DownOK(p) /\ pc[p] = "remove" /\ op[p] = "down" /\ nid[p] = 0
  BY DEF Inv, Good, DownRemove, At, ProcOK, InDown, Holding
<1>2. /\ mem'[p] = mem[p] /\ kept'[p] = kept[p] /\ rv'[p] = rv[p] /\ op'[p] = op[p]
      /\ nid'[p] = nid[p] /\ k'[p] = k[p] /\ file' \in {file, NoFile} /\ pc'[p] \in {"ok", "err"}
  BY <1>1 DEF DownRemove, DownRest, Rest, Write, WriteFails, Goto, Arrays
<1>3. FileOK' /\ StateOK(mem[p])' /\ StateOK(kept[p])'
  BY <1>2, MemStays
<1>4. CASE pc'[p] = "err"
  BY <1>1, <1>2, <1>3, <1>4, Stopped DEF ProcOK
<1>5. CASE pc'[p] = "ok"
  <2>1. ProcOK(p)'
    BY <1>1, <1>2, <1>3, <1>5 DEF ProcOK, Done, InUp, InDown, InReplace, Holding
  <2>2. \A r \in RecsOf(mem[p]) : ~Running(r.id)' /\ (r.vol # 0 => vol'[r.vol].st = "deleted")
    BY <1>1, GoneStays DEF DownOK
  <2>3. DownOK(p)'
    BY <1>2, <1>5, <2>2 DEF DownOK
  <2> QED BY <1>1, <1>2, <1>3, <1>5, <2>1, <2>3 DEF Good, UpOK, ReplaceOK, InUp, InReplace
<1> QED BY <1>2, <1>4, <1>5

LEMMA DownGood ==
    ASSUME Inv, CloudOK', Progress, NEW p \in Procs, Down(p)
    PROVE  Good(p)' /\ FileOK'
BY DownDeleteGood, DownSaveRemainingGood, DownDeletedGood, DownWaitGood, DownVolumeGood,
   DownRemoveGood DEF Down

-----------------------------------------------------------------------------
(* aws replace *)

LEMMA ReplaceFacts ==
    ASSUME Inv, NEW p \in Procs, pc[p] \in InReplace
    PROVE  /\ Arrays /\ ProcOK(p) /\ ReplaceOK(p) /\ op[p] = "replace" /\ StateOK(mem[p])
           /\ k[p] \in 1..Len(mem[p].ms) /\ k[p] \in Nat
           /\ mem[p].ms[k[p]].id = Old(p) /\ Old(p) \in Ids /\ Known(Old(p))
           /\ MemberOK(mem[p].ms[k[p]])
           /\ nid[p] \in 0..MaxInst /\ rv[p] \in 0..MaxInst
           /\ pc[p] \in Holding => nid[p] \in Ids /\ nid[p] # 0 /\ Known(nid[p])
           /\ pc[p] \notin Holding => nid[p] = 0
<1>1. Arrays /\ ProcOK(p) /\ ReplaceOK(p) /\ k[p] \in 1..Len(mem[p].ms)
  BY DEF Inv, Good, ReplaceOK
<1>2. mem[p].ms[k[p]].id = Old(p) /\ Old(p) \in Ids /\ Known(Old(p)) /\ MemberOK(mem[p].ms[k[p]])
  BY <1>1, MemberFacts DEF Old, MemOf, ProcOK, StateOK
<1>3. op[p] = "replace"
  BY <1>1 DEF ProcOK
<1> QED BY <1>1, <1>2, <1>3, Numbers DEF ProcOK, Ids

\* What a "replace" needs in order to go on from its next position.
LEMMA ReplaceGoes ==
    ASSUME Inv, CloudOK', Progress, NEW p \in Procs, pc[p] \in InReplace,
           mem'[p] = mem[p], kept'[p] = kept[p], k'[p] = k[p], op'[p] = op[p],
           file' \in {file, mem[p]}, pc'[p] \in InReplace \cup {"boot"},
           rv'[p] \in 0..MaxInst, nid'[p] \in 0..MaxInst, nid'[p] # 0 <=> pc'[p] \in Holding,
           NEW r, r = mem[p].ms[k[p]], NEW i, i = nid'[p],
           pc'[p] \in Holding => Known(i)',
           pc'[p] \in {"terminate", "gone", "launch", "attach"} /\ r.vol # 0 => rv'[p] = r.vol,
           pc'[p] = "attach" => rv'[p] # 0 /\ \A v \in Ids : vol'[v].att # i,
           pc'[p] \in {"launch", "attach", "record"} => ~Live(r.id),
           pc'[p] = "record" /\ r.vol # 0 => Holds(i, r.vol)'
    PROVE  Good(p)' /\ FileOK'
<1>1. FileOK' /\ StateOK(mem[p])' /\ StateOK(kept[p])'
  BY MemStays
<1>2. /\ ProcOK(p) /\ op[p] = "replace" /\ k[p] \in 1..Len(mem[p].ms) /\ k[p] \in Nat
      /\ r.id \in Ids /\ Known(r.id)
  BY ReplaceFacts
<1>3. ProcOK(p)'
  BY <1>1, <1>2 DEF ProcOK, Done, InUp, InDown, InReplace, Known
<1>4. ~Live(r.id) => ~Live(r.id)'
  BY <1>2 DEF Progress, InstProgress
<1>5. ReplaceOK(p)'
  BY <1>2, <1>4 DEF ReplaceOK, Live, Holds
<1> QED BY <1>1, <1>2, <1>3, <1>5 DEF Good, UpOK, DownOK, InUp, InDown, InReplace

LEMMA ReplaceStops ==
    ASSUME Inv, CloudOK', Progress, NEW p \in Procs, pc[p] \in InReplace,
           pc'[p] = "err", mem'[p] = mem[p], kept'[p] = kept[p], k'[p] = k[p], op'[p] = op[p],
           file' = file, rv'[p] = rv[p], nid'[p] = 0
    PROVE  Good(p)' /\ FileOK'
<1>1. ProcOK(p) /\ k[p] \in Nat /\ rv[p] \in 0..MaxInst
  BY ReplaceFacts
<1>2. FileOK'
  BY MemStays
<1> QED BY <1>1, <1>2, Stopped DEF ProcOK

\* A call that fails before a launch is known of ends the command, whatever
\* it did to EC2.
LEMMA ReplaceEnds ==
    ASSUME Inv, CloudOK', Progress, NEW p \in Procs,
           pc[p] \in {"spec", "terminate", "gone", "launch"},
           Goto(p, "err"), UNCHANGED <<mem, kept, k, op, file, rv, nid>>
    PROVE  Good(p)' /\ FileOK'
<1>1. Arrays /\ nid[p] = 0
  BY ReplaceFacts DEF InReplace, Holding
<1>2. pc'[p] = "err"
  BY <1>1 DEF Goto, Arrays
<1> QED BY <1>1, <1>2, ReplaceStops DEF InReplace

LEMMA ReplaceSpecGood ==
    ASSUME Inv, CloudOK', Progress, NEW p \in Procs, ReplaceSpec(p)
    PROVE  Good(p)' /\ FileOK'
<1>1. pc[p] = "spec"
  BY DEF ReplaceSpec, At
<1>2. PICK r : r = mem[p].ms[k[p]]
  OBVIOUS
<1>3. Arrays /\ nid[p] = 0 /\ MemberOK(r) /\ r.id = Old(p) /\ Old(p) \in Ids /\ 0 \in 0..MaxInst
  BY <1>1, <1>2, ReplaceFacts, Numbers DEF InReplace, Holding
<1>4. CASE /\ inst[Old(p)].st \in {"running", "shutting"} /\ pc' = [pc EXCEPT ![p] = "terminate"]
           /\ rv' = [rv EXCEPT ![p] = IF AttachedTo(Old(p)) = {} THEN 0
                                      ELSE CHOOSE v \in AttachedTo(Old(p)) : TRUE]
           /\ UNCHANGED <<mem, kept, k, op, file, nid>>
  <2>1. PICK w : w = IF AttachedTo(Old(p)) = {} THEN 0 ELSE CHOOSE v \in AttachedTo(Old(p)) : TRUE
    OBVIOUS
  <2>2. rv'[p] = w /\ pc'[p] = "terminate"
    BY <1>3, <1>4, <2>1 DEF Arrays
  <2>3. IF AttachedTo(Old(p)) = {} THEN w = 0 ELSE w \in AttachedTo(Old(p))
    BY <2>1
  <2>4. \A v \in AttachedTo(Old(p)) : v \in Ids /\ vol[v].att = Old(p) /\ Old(p) # 0
    BY <1>3, NonZero DEF AttachedTo
  <2>5. w \in 0..MaxInst
    BY <1>3, <2>3, <2>4, Numbers DEF Ids
  <2>6. r.vol # 0 => w = r.vol
    <3> SUFFICES ASSUME r.vol # 0 PROVE w = r.vol
      OBVIOUS
    <3>1. r.vol \in Ids /\ vol[r.vol] = [st |-> "ok", att |-> Old(p)]
      BY <1>3, <1>4 DEF MemberOK, Records, Ids, Holds, Live
    <3>2. r.vol \in AttachedTo(Old(p))
      BY <3>1 DEF AttachedTo
    <3> QED BY <2>3, <2>4, <3>2 DEF Inv, CloudOK, Attached
  <2> QED BY <1>1, <1>2, <1>3, <1>4, <2>2, <2>5, <2>6, ReplaceGoes DEF InReplace, Holding
<1>5. CASE ReplaceCallFails(p) \/ ReplaceGivesUp(p)
  BY <1>1, <1>5, ReplaceEnds DEF ReplaceCallFails, ReplaceGivesUp, ReplaceRest, Rest
<1> QED BY <1>4, <1>5 DEF ReplaceSpec, Goto, ReplaceRest, Rest

LEMMA ReplaceEarlyGood ==
    ASSUME Inv, CloudOK', Progress, NEW p \in Procs, ReplaceTerminate(p) \/ ReplaceWait(p)
    PROVE  Good(p)' /\ FileOK'
<1>1. pc[p] \in {"terminate", "gone"}
  BY DEF ReplaceTerminate, ReplaceWait, At
<1>2. PICK r : r = mem[p].ms[k[p]]
  OBVIOUS
<1>3. Arrays /\ nid[p] = 0 /\ rv[p] \in 0..MaxInst /\ r.id = Old(p) /\ (r.vol # 0 => rv[p] = r.vol)
  BY <1>1, <1>2, ReplaceFacts DEF InReplace, Holding, ReplaceOK
<1>4. CASE Goto(p, "err") /\ UNCHANGED <<mem, kept, k, op, file, nid, rv>>
  BY <1>1, <1>4, ReplaceEnds
<1>5. CASE /\ pc' = [pc EXCEPT ![p] = "gone"] \/ (pc' = [pc EXCEPT ![p] = "launch"] /\ Terminated(Old(p)))
           /\ UNCHANGED <<mem, kept, k, op, file, nid, rv>>
  <2>1. pc'[p] \in {"gone", "launch"} /\ (pc'[p] = "launch" => ~Live(r.id))
    BY <1>3, <1>5 DEF Arrays, Terminated, Live
  <2>2. PICK i : i = nid'[p] /\ i = 0 /\ i \in 0..MaxInst
    BY <1>3, <1>5, Numbers
  <2>3. pc[p] \in InReplace /\ pc'[p] \in InReplace /\ pc'[p] \notin Holding /\ pc'[p] # "attach"
    BY <1>1, <2>1 DEF InReplace, Holding
  <2> QED BY <1>2, <1>3, <1>5, <2>1, <2>2, <2>3, ReplaceGoes DEF Holding
<1> QED BY <1>4, <1>5 DEF ReplaceTerminate, ReplaceWait, ReplaceCallFails, ReplaceGivesUp, Goto,
                          ReplaceRest, Rest

LEMMA ReplaceLaunchGood ==
    ASSUME Inv, CloudOK', Progress, NEW p \in Procs, ReplaceLaunch(p)
    PROVE  Good(p)' /\ FileOK'
<1>1. pc[p] = "launch"
  BY DEF ReplaceLaunch, At
<1>2. PICK r : r = mem[p].ms[k[p]]
  OBVIOUS
<1>3. /\ Arrays /\ rv[p] \in 0..MaxInst /\ r.id = Old(p) /\ ~Live(r.id) /\ Old(p) \in Ids
      /\ r.vol # 0 => rv[p] = r.vol
  BY <1>1, <1>2, ReplaceFacts DEF InReplace, ReplaceOK
<1>4. CASE Goto(p, "err") /\ UNCHANGED <<mem, kept, k, op, file, nid, rv>>
  BY <1>1, <1>4, ReplaceEnds
<1>5. CASE /\ \E ip : Launch(ip, FALSE)
           /\ nid' = [nid EXCEPT ![p] = NewId]
           /\ pc' = [pc EXCEPT ![p] = IF rv[p] = 0 THEN "record" ELSE "attach"]
           /\ UNCHANGED <<mem, kept, k, op, file, rv>>
  <2>1. PICK ip : Launch(ip, FALSE)
    BY <1>5
  <2>2. PICK a \in Ids : a = NewId /\ inst[a] = NoInst
    BY <2>1, FreshId DEF Launch, Inv
  <2>3. nid'[p] = a /\ pc'[p] = IF rv[p] = 0 THEN "record" ELSE "attach"
    BY <1>3, <1>5, <2>2 DEF Arrays
  <2>4. Known(a)' /\ ~Known(a) /\ vol' = vol
    BY <2>1, <2>2 DEF Launch, Known, NoInst, Inv, CloudOK
  <2>5. \A v \in Ids : vol'[v].att # a
    BY <2>4, NonZero, Attachments DEF Inv
  <2>6. a # 0 /\ a \in 0..MaxInst
    BY Numbers DEF Ids
  <2> QED BY <1>1, <1>2, <1>3, <1>5, <2>3, <2>4, <2>5, <2>6, ReplaceGoes DEF InReplace, Holding
<1> QED BY <1>4, <1>5 DEF ReplaceLaunch, LaunchUnheard, ReplaceCallFails, ReplaceGivesUp, Goto, SetNid,
                          ReplaceRest, Rest

LEMMA ReplaceAttachGood ==
    ASSUME Inv, CloudOK', Progress, NEW p \in Procs, ReplaceAttach(p) \/ ReplaceAttachFails(p)
    PROVE  Good(p)' /\ FileOK'
<1>1. pc[p] = "attach"
  BY DEF ReplaceAttach, ReplaceAttachFails, At
<1>2. PICK r, a : r = mem[p].ms[k[p]] /\ a = nid[p]
  OBVIOUS
<1>3. /\ Arrays /\ r.id = Old(p) /\ ~Live(r.id) /\ rv[p] \in 0..MaxInst
      /\ r.vol # 0 => rv[p] = r.vol
      /\ a \in Ids /\ a \in 0..MaxInst /\ a # 0 /\ Known(a)
  BY <1>1, <1>2, ReplaceFacts DEF InReplace, ReplaceOK, Holding
<1>4. CASE ReplaceAttachFails(p)
  <2>1. pc'[p] = "err" /\ nid'[p] = 0 /\ UNCHANGED <<mem, kept, k, op, file, rv>>
    BY <1>3, <1>4 DEF ReplaceAttachFails, ReplaceRest, Rest, Goto, SetNid, Arrays
  <2> QED BY <1>1, <2>1, ReplaceStops DEF InReplace
<1>5. CASE ReplaceAttach(p)
  <2>1. pc'[p] = "record" /\ nid'[p] = a /\ UNCHANGED <<mem, kept, k, op, file, rv>>
    BY <1>2, <1>3, <1>5 DEF ReplaceAttach, ReplaceRest, Rest, Goto, Arrays
  <2>2. /\ vol[rv[p]] = [st |-> "ok", att |-> 0]
        /\ vol' = [vol EXCEPT ![rv[p]].att = a]
    BY <1>2, <1>5 DEF ReplaceAttach
  <2>3. r.vol # 0 => Holds(a, r.vol)'
    <3> SUFFICES ASSUME r.vol # 0 PROVE Holds(a, r.vol)'
      OBVIOUS
    <3>1. r.vol \in Ids /\ rv[p] = r.vol
      BY <1>3 DEF Ids
    <3>2. vol'[r.vol] = [st |-> "ok", att |-> a]
      BY <2>2, <3>1 DEF Inv, CloudOK
    <3> QED BY <3>2 DEF Holds
  <2>4. Known(a)'
    BY <1>3 DEF Progress, InstProgress
  <2> QED BY <1>1, <1>2, <1>3, <2>1, <2>3, <2>4, ReplaceGoes DEF InReplace, Holding
<1> QED BY <1>4, <1>5

LEMMA ReplaceLateGood ==
    ASSUME Inv, CloudOK', Progress, NEW p \in Procs, ReplaceResolve(p) \/ ReplaceRewrite(p)
    PROVE  Good(p)' /\ FileOK'
<1>1. pc[p] \in {"resolve", "rewrite"}
  BY DEF ReplaceResolve, ReplaceRewrite, At
<1>2. Arrays /\ nid[p] = 0 /\ rv[p] \in 0..MaxInst
  BY <1>1, ReplaceFacts DEF InReplace, Holding
<1>3. /\ pc'[p] \in {"rewrite", "boot", "err"} /\ file' \in {file, mem[p]}
      /\ pc'[p] = "err" => file' = file
      /\ UNCHANGED <<mem, kept, k, op, rv, nid>>
  BY <1>1, <1>2 DEF ReplaceResolve, ReplaceRewrite, ReplaceRest, Rest, Write, WriteFails, Goto, Arrays
<1>4. CASE pc'[p] = "err"
  BY <1>1, <1>2, <1>3, <1>4, ReplaceStops DEF InReplace
<1>5. CASE pc'[p] # "err"
  <2>1. PICK r, i : r = mem[p].ms[k[p]] /\ i = nid'[p] /\ i = 0 /\ i \in 0..MaxInst
    BY <1>2, <1>3, Numbers
  <2>2. pc[p] \in InReplace /\ pc'[p] \in InReplace \cup {"boot"} /\ pc'[p] \notin Holding
    BY <1>1, <1>3, <1>5 DEF InReplace, Holding
  <2> QED BY <1>2, <1>3, <1>5, <2>1, <2>2, ReplaceGoes DEF Holding
<1> QED BY <1>4, <1>5

\* The new machine takes the place, and the data volume, of the old one.
LEMMA ReplaceRecordGood ==
    ASSUME Inv, CloudOK', Progress, NEW p \in Procs, ReplaceRecord(p)
    PROVE  Good(p)' /\ FileOK'
<1>1. pc[p] = "record"
  BY DEF ReplaceRecord, At
<1>2. PICK s, j, a : s = mem[p] /\ j = k[p] /\ a = nid[p]
  OBVIOUS
<1>3. /\ Arrays /\ ProcOK(p) /\ op[p] = "replace" /\ rv[p] \in 0..MaxInst /\ StateOK(s)
      /\ s \in States /\ j \in 1..Len(s.ms) /\ j \in Nat /\ MemberOK(s.ms[j])
      /\ a \in Ids /\ Known(a) /\ (s.ms[j].vol # 0 => Holds(a, s.ms[j].vol))
  BY <1>1, <1>2, ReplaceFacts DEF InReplace, ReplaceOK, Holding, StateOK
<1>4. PICK r \in Records : r = Rec(a, s.ms[j].vol) /\ r.id = a /\ r.vol = s.ms[j].vol
  BY <1>3, MakeRecord DEF MemberOK, Records
<1>5. MemberOK(r)
  BY <1>3, <1>4 DEF MemberOK
<1>6. PICK t : t = [s EXCEPT !.ms[j].id = a]
  OBVIOUS
<1>7. t = [s EXCEPT !.ms = [s.ms EXCEPT ![j] = r]]
  BY <1>3, <1>4, <1>6, ChangingInstance
<1>8. /\ t \in States /\ Len(t.ms) = Len(s.ms) /\ t.cs = s.cs
      /\ t.ms[j] = r /\ \A n \in 1..Len(s.ms) : n # j => t.ms[n] = s.ms[n]
  BY <1>3, <1>7, Changing
<1>9. StateOK(t)
  BY <1>3, <1>5, <1>8 DEF StateOK
<1>10. StateOK(t)'
  BY <1>9, StateStays DEF Inv
<1>11. /\ mem'[p] = t /\ file' \in {file, t} /\ pc'[p] \in {"resolve", "err"} /\ nid'[p] = 0
       /\ k'[p] = j /\ op'[p] = "replace" /\ rv'[p] = rv[p] /\ kept'[p] = kept[p]
  BY <1>2, <1>3, <1>6 DEF ReplaceRecord, ReplaceRest, Rest, SetMem, SetNid, Write, WriteFails, Goto,
                          Arrays
<1>12. FileOK' /\ StateOK(mem[p])' /\ StateOK(kept[p])'
  BY <1>10, <1>11, MemIs, MemStays
<1>13. ProcOK(p)'
  BY <1>3, <1>11, <1>12, Numbers DEF ProcOK, Done, InUp, InDown, InReplace, Holding
<1>14. ReplaceOK(p)'
  BY <1>3, <1>8, <1>11 DEF ReplaceOK
<1> QED BY <1>11, <1>12, <1>13, <1>14 DEF Good, UpOK, DownOK, InUp, InDown

LEMMA ReplaceGood ==
    ASSUME Inv, CloudOK', Progress, NEW p \in Procs, Replace(p)
    PROVE  Good(p)' /\ FileOK'
BY ReplaceSpecGood, ReplaceEarlyGood, ReplaceLaunchGood, ReplaceAttachGood, ReplaceRecordGood,
   ReplaceLateGood DEF Replace

-----------------------------------------------------------------------------
(* The invariant *)

\* Two commands never hold the same new instance.
LEMMA DistinctStays ==
    ASSUME Inv, NEW p \in Procs, Acts(p)
    PROVE  Distinct'
<1>1. Only(p)
  BY OnlyActs DEF Inv
<1>2. \/ nid'[p] \in {0, nid[p]}
      \/ /\ nid'[p] \in Ids /\ ~Known(nid'[p])
  <2>1. ASSUME ~QuotaReached, nid' = [nid EXCEPT ![p] = NewId]
        PROVE  nid'[p] \in Ids /\ ~Known(nid'[p])
    <3>1. NewId \in Ids /\ inst[NewId] = NoInst
      BY <2>1, FreshId DEF Inv
    <3> QED BY <2>1, <3>1 DEF Inv, Arrays, Known, NoInst
  <2>2. ASSUME Up(p)
        PROVE  nid'[p] \in {0, nid[p]} \/ (~QuotaReached /\ nid' = [nid EXCEPT ![p] = NewId])
    <3>1. CASE UpCreate(p)
      BY <3>1 DEF UpCreate, LaunchUnheard, Launch, SetNid, CallFails
    <3>2. CASE UpSave(p) \/ UpSaveFails(p)
      BY <3>2 DEF UpSave, UpSaveFails, SetNid, Inv, Arrays
    <3>3. CASE UpReady(p) \/ UpReadyClient(p) \/ UpSaveReady(p) \/ Bootstrap(p)
      BY <3>3 DEF UpReady, UpReadyClient, UpSaveReady, Bootstrap, CallFails
    <3> QED BY <2>2, <3>1, <3>2, <3>3 DEF Up
  <2>3. ASSUME Down(p) PROVE nid'[p] = nid[p]
    BY <2>3 DEF Down, DownDelete, DownSaveRemaining, DownDeleted, DownWait, DownVolume, DownRemove,
                DownRest
  <2>4. ASSUME Replace(p)
        PROVE  nid'[p] \in {0, nid[p]} \/ (~QuotaReached /\ nid' = [nid EXCEPT ![p] = NewId])
    <3>1. CASE ReplaceLaunch(p)
      BY <3>1 DEF ReplaceLaunch, Launch, SetNid, ReplaceCallFails, ReplaceGivesUp
    <3>2. CASE ReplaceAttachFails(p) \/ ReplaceRecord(p)
      BY <3>2 DEF ReplaceAttachFails, ReplaceRecord, SetNid, Inv, Arrays
    <3>3. CASE \/ ReplaceSpec(p) \/ ReplaceTerminate(p) \/ ReplaceWait(p) \/ ReplaceAttach(p)
               \/ ReplaceResolve(p) \/ ReplaceRewrite(p)
      BY <3>3 DEF ReplaceSpec, ReplaceTerminate, ReplaceWait, ReplaceAttach, ReplaceResolve,
                  ReplaceRewrite, ReplaceCallFails, ReplaceGivesUp
    <3> QED BY <2>4, <3>1, <3>2, <3>3 DEF Replace
  <2>5. ASSUME Begins(p) PROVE nid'[p] \in {0, nid[p]}
    BY <2>5 DEF Begins, StartUpCmd, StartDown, StartReplace, Start, Interrupt, Crash, SetNid, Inv, Arrays
  <2> QED BY <2>1, <2>2, <2>3, <2>4, <2>5 DEF Acts
<1>3. \A q \in Procs : nid[q] # 0 => nid[q] \in Ids /\ Known(nid[q])
  BY Numbers DEF Inv, Good, ProcOK, Ids
<1>4. \A q \in Procs \ {p} : nid'[q] = nid[q]
  BY <1>1 DEF Only, Same
<1>5. \A q \in Procs \ {p} : nid'[q] = nid'[p] => nid'[p] = 0
  BY <1>2, <1>3, <1>4 DEF Inv, Distinct
<1> QED BY <1>4, <1>5 DEF Inv, Distinct

LEMMA InvStep ==
    ASSUME Inv, [Next]_vars
    PROVE  Inv'
<1>1. CloudOK' /\ Progress
  BY NextCloud, CloudStays DEF Inv
<1>2. CASE CloudActs
  <2>1. Arrays' /\ Distinct' /\ file' = file /\ \A p \in Procs : Same(p)
    BY <1>2 DEF CloudActs, Ec2Terminated, Ec2Purges, Cloud, procVars, vars, Inv, Arrays, Distinct, Same
  <2>2. \A p \in Procs : Good(p)'
    BY <1>1, <2>1, Undisturbed
  <2>3. FileOK'
    <3>1. CASE file = NoFile
      BY <2>1, <3>1 DEF FileOK
    <3>2. CASE file # NoFile
      <4>1. PICK s : s = file
        OBVIOUS
      <4>2. StateOK(s)'
        BY <1>1, <3>2, <4>1, StateStays DEF Inv, FileOK
      <4> QED BY <2>1, <4>1, <4>2 DEF FileOK, StateOK, MemberOK, ClientOK, Known, Holds, Live
    <3> QED BY <3>1, <3>2
  <2> QED BY <1>1, <2>1, <2>2, <2>3 DEF Inv
<1>3. ASSUME NEW p \in Procs, Acts(p) PROVE Inv'
  <2>1. Only(p) /\ Distinct'
    BY <1>3, OnlyActs, DistinctStays DEF Inv
  <2>2. Good(p)' /\ FileOK'
    BY <1>1, <1>3, UpGood, DownGood, ReplaceGood, BeginsGood DEF Acts
  <2>3. \A q \in Procs \ {p} : Good(q)'
    BY <1>1, <2>1, Undisturbed DEF Only
  <2>4. \A q \in Procs : Good(q)'
    <3> SUFFICES ASSUME NEW q \in Procs PROVE Good(q)'
      OBVIOUS
    <3>1. CASE q = p
      BY <2>2, <3>1
    <3>2. CASE q # p
      BY <2>3, <3>2
    <3> QED BY <3>1, <3>2
  <2> QED BY <1>1, <2>1, <2>2, <2>4 DEF Only, Inv
<1> QED BY <1>2, <1>3, NextCases

LEMMA InvInit == Init => Inv
<1> SUFFICES ASSUME Init PROVE Inv
  OBVIOUS
<1>1. PICK n \in 0..MaxInst : n = IF StartUp THEN Members + Clients ELSE 0
  BY CountAssumption
<1>2. /\ inst = [i \in Ids |-> IF i <= n THEN [st |-> "running", ip |-> IF i <= Members THEN i ELSE 0]
                                         ELSE NoInst]
      /\ vol = [i \in Ids |-> IF i <= n /\ HasVol(i) THEN [st |-> "ok", att |-> i] ELSE NoVol]
  <2>1. CASE StartUp
    BY <1>1, <2>1, Numbers DEF Init, HasVol, Ids
  <2>2. CASE ~StartUp
    BY <1>1, <2>2, Numbers DEF Init, Ids
  <2> QED BY <2>1, <2>2
<1>3. \A i \in Ids : IF i <= n THEN inst[i].st = "running" ELSE inst[i] = NoInst
  BY <1>2
<1>4. \A v \in Ids : IF v <= n /\ HasVol(v) THEN vol[v] = [st |-> "ok", att |-> v] ELSE vol[v] = NoVol
  BY <1>2
<1>5. CloudOK
  <2>1. inst \in [Ids -> InstTypes] /\ vol \in [Ids -> VolTypes]
    BY <1>2, Numbers DEF InstTypes, VolTypes, NoInst, NoVol, Ids
  <2>2. Ordered
    <3>1. \A i \in Ids : inst[i] # NoInst <=> i <= n
      BY <1>3 DEF NoInst
    <3> QED BY <1>3, <3>1 DEF Ordered, NoInst
  <2>3. \A v \in Ids : \/ vol[v] = NoVol
                       \/ vol[v].st = "ok" /\ vol[v].att = v /\ inst[v].st = "running"
    <3> SUFFICES ASSUME NEW v \in Ids, vol[v] # NoVol
                 PROVE  vol[v].st = "ok" /\ vol[v].att = v /\ inst[v].st = "running"
      OBVIOUS
    <3>1. v <= n /\ vol[v] = [st |-> "ok", att |-> v]
      BY <1>4
    <3> QED BY <1>3, <3>1
  <2>4. Attached
    BY <2>3 DEF Attached, NoVol, Known
  <2> QED BY <2>1, <2>2, <2>4 DEF CloudOK
<1>6. \A i \in Ids : i <= n => Known(i) /\ (HasVol(i) => Holds(i, i))
  BY <1>3, <1>4 DEF Known, Holds
<1>7. ASSUME StartUp PROVE StateOK(UpFile)
  <2> DEFINE m == [i \in 1..Members |-> Rec(i, IF Replaceable THEN i ELSE 0)]
             c == [i \in 1..Clients |-> Rec(Members + i, 0)]
  <2>1. \A i \in 1..(Members + Clients) : i \in Ids /\ i <= n
    BY <1>1, <1>7, Numbers DEF Ids
  <2>2. \A i \in 1..Members : MemberOK(Rec(i, IF Replaceable THEN i ELSE 0))
    <3> SUFFICES ASSUME NEW i \in 1..Members PROVE MemberOK(Rec(i, IF Replaceable THEN i ELSE 0))
      OBVIOUS
    <3>1. i \in Ids /\ i <= n /\ i <= Members
      BY <2>1, Numbers
    <3>2. PICK v \in 0..MaxInst : v = IF Replaceable THEN i ELSE 0
      BY <3>1, Numbers DEF Ids
    <3>3. Rec(i, v) \in Records /\ Rec(i, v).id = i /\ Rec(i, v).vol = v
      BY <3>1, MakeRecord
    <3> QED BY <1>6, <3>1, <3>2, <3>3 DEF MemberOK, HasVol
  <2>3. \A i \in 1..Clients : ClientOK(Rec(Members + i, 0))
    <3> SUFFICES ASSUME NEW i \in 1..Clients PROVE ClientOK(Rec(Members + i, 0))
      OBVIOUS
    <3>1. PICK a \in Ids : a = Members + i /\ a <= n
      BY <2>1, Numbers
    <3>2. Rec(a, 0) \in Records /\ Rec(a, 0).id = a /\ Rec(a, 0).vol = 0
      BY MakeRecord, Numbers
    <3> QED BY <1>6, <3>1, <3>2 DEF ClientOK
  <2>4. /\ m \in Seq(Records) /\ Len(m) = Members /\ \A i \in 1..Members : MemberOK(m[i])
    BY <2>2, Numbers DEF MemberOK
  <2>5. /\ c \in Seq(Records) /\ Len(c) = Clients /\ \A i \in 1..Clients : ClientOK(c[i])
    BY <2>3, Numbers DEF ClientOK
  <2>6. UpFile = State(m, c)
    BY DEF UpFile
  <2> HIDE DEF m, c
  <2>7. UpFile \in States /\ UpFile.ms = m /\ UpFile.cs = c
    BY <2>4, <2>5, <2>6, MakeState
  <2> QED BY <2>4, <2>5, <2>7 DEF StateOK
<1>8. FileOK
  BY <1>7 DEF FileOK, Init
<1>9. ASSUME NEW p \in Procs PROVE Good(p)
  <2>1. /\ pc[p] = "idle" /\ op[p] = "none" /\ k[p] = 0 /\ nid[p] = 0 /\ rv[p] = 0
        /\ mem[p] = Empty /\ kept[p] = Empty
    BY DEF Init
  <2>2. ProcOK(p)
    BY <2>1, EmptyState, Numbers DEF ProcOK, Done, InUp, InDown, InReplace, Holding
  <2> QED BY <2>1, <2>2 DEF Good, UpOK, DownOK, ReplaceOK, InUp, InReplace
<1>10. Arrays /\ Distinct
  BY DEF Init, Arrays, Distinct
<1> QED BY <1>5, <1>8, <1>9, <1>10 DEF Inv

\* In every state EC2, the state file and what each command has in memory fit
\* together.
THEOREM Invariant == Spec => []Inv
BY InvInit, InvStep, PTL DEF Spec

-----------------------------------------------------------------------------
(* Theorems for any number of commands on one cluster *)

\* A "down" that reports success has terminated every instance it read from
\* the state file and deleted every data volume recorded there, whatever the
\* other commands did in between.
THEOREM DownFinished == Spec => []DownComplete
<1>1. Inv => DownComplete
  <2> SUFFICES ASSUME Inv, NEW p \in Procs, op[p] = "down", pc[p] = "ok"
               PROVE  \A r \in RecsOf(mem[p]) : ~Running(r.id) /\ (r.vol # 0 => vol[r.vol].st # "ok")
    BY DEF DownComplete
  <2> QED BY DEF Inv, Good, DownOK
<1> QED BY <1>1, Invariant, PTL

\* A running member has the data volume recorded for it, however often its
\* machine was replaced: the record, the volume and the attachment change
\* together or not at all.
THEOREM VolumeKept == Spec => []MemberKeepsVolume
<1>1. Inv => MemberKeepsVolume
  <2> SUFFICES ASSUME Inv, file # NoFile, NEW r \in ToSet(file.ms), Running(r.id), r.vol # 0
               PROVE  vol[r.vol] = [st |-> "ok", att |-> r.id]
    BY DEF MemberKeepsVolume
  <2>1. StateOK(file)
    BY DEF Inv, FileOK
  <2>2. PICK j \in 1..Len(file.ms) : r = file.ms[j]
    BY <2>1, StateFields DEF ToSet, StateOK
  <2>3. MemberOK(r)
    BY <2>1, <2>2 DEF StateOK
  <2> QED BY <2>3 DEF MemberOK, Holds, Live, Running
<1> QED BY <1>1, Invariant, PTL

-----------------------------------------------------------------------------
(* One command at a time: every running instance is accounted for *)

\* What another state records when at most the instance of member n differs.
LEMMA IdsKept ==
    ASSUME NEW s \in States, NEW t \in States, NEW n,
           Len(s.ms) <= Len(t.ms), Len(s.cs) <= Len(t.cs),
           \A j \in 1..Len(s.ms) : j # n => t.ms[j].id = s.ms[j].id,
           \A j \in 1..Len(s.cs) : t.cs[j].id = s.cs[j].id
    PROVE  \A i \in IdsOf(s) : i \in IdsOf(t) \/ (n \in 1..Len(s.ms) /\ i = s.ms[n].id)
<1> SUFFICES ASSUME NEW r \in RecsOf(s)
             PROVE  (\E x \in RecsOf(t) : x.id = r.id) \/ (n \in 1..Len(s.ms) /\ r.id = s.ms[n].id)
  BY DEF IdsOf
<1>1. /\ Len(s.ms) \in Nat /\ Len(s.cs) \in Nat /\ Len(t.ms) \in Nat /\ Len(t.cs) \in Nat
  BY StateFields
<1>2. ASSUME NEW j \in 1..Len(s.ms), r = s.ms[j], j # n PROVE \E x \in RecsOf(t) : x.id = r.id
  <2>1. j \in 1..Len(t.ms)
    BY <1>1
  <2> QED BY <1>2, <2>1, Recs
<1>3. ASSUME NEW j \in 1..Len(s.cs), r = s.cs[j] PROVE \E x \in RecsOf(t) : x.id = r.id
  <2>1. j \in 1..Len(t.cs)
    BY <1>1
  <2> QED BY <1>3, <2>1, Recs
<1> QED BY <1>2, <1>3, Recs

\* What a step of the only command has to do for every running instance to
\* stay accounted for.
LEMMA Accounts ==
    ASSUME Alone, Inv, Sole, InstancesAccounted, NEW p \in Procs, NEW a, a = nid[p],
           told \subseteq told', lost \subseteq lost', abandoned \subseteq abandoned',
           unheard \subseteq unheard',
           \A i \in Ids : Running(i)' => Running(i) \/ i \in unheard' \/ (i = nid'[p] /\ pc'[p] \notin Done),
           \A i \in IdsOf(file) \cap Ids : Running(i)' => i \in IdsOf(file'),
           a # 0 /\ Running(a)' => \/ nid'[p] = a /\ pc'[p] \notin Done
                                   \/ a \in IdsOf(file') \cup told' \cup lost' \cup abandoned' \cup unheard',
           pc'[p] \notin Done => IdsOf(file') \subseteq IdsOf(mem'[p])
    PROVE  Sole' /\ InstancesAccounted'
<1>1. \A q \in Procs : q = p
  BY DEF Alone
<1>2. Sole'
  BY <1>1 DEF Sole
<1>3. ASSUME NEW i \in Ids, Running(i)'
      PROVE  \/ i \in IdsOf(file') \/ (i = nid'[p] /\ pc'[p] \notin Done)
             \/ i \in told' \cup lost' \cup abandoned' \cup unheard'
  <2>1. CASE i = nid'[p] /\ pc'[p] \notin Done
    BY <2>1
  <2>2. CASE i \in unheard'
    BY <2>2
  <2>3. CASE Running(i)
    <3>1. i \in IdsOf(file) \/ InFlight(i) \/ i \in told \cup lost \cup abandoned \cup unheard
      BY <2>3 DEF InstancesAccounted
    <3>2. InFlight(i) => i = a
      BY <1>1 DEF InFlight
    <3> QED BY <1>3, <3>1, <3>2, NonZero
  <2> QED BY <1>3, <2>1, <2>2, <2>3
<1>4. InstancesAccounted'
  BY <1>3 DEF InstancesAccounted, InFlight
<1> QED BY <1>2, <1>4

\* No instance is started, and what is recorded and held stays so.
Quiet(p) ==
  /\ pc[p] \notin Done /\ (nid[p] # 0 => pc'[p] \notin Done)
  /\ UNCHANGED <<file, nid, ghostVars>>
  /\ inst' = inst \/ \E i \in Ids : Terminate(i)
  /\ IdsOf(mem[p]) \subseteq IdsOf(mem'[p])

LEMMA NoneStarted ==
    ASSUME CloudOK, inst' = inst \/ \E i \in Ids : Terminate(i)
    PROVE  \A i \in Ids : Running(i)' => Running(i)
BY DEF CloudOK, Terminate, Running, InstTypes

LEMMA QuietAccounts ==
    ASSUME Alone, Inv, Sole, InstancesAccounted, NEW p \in Procs, Quiet(p)
    PROVE  Sole' /\ InstancesAccounted'
<1>1. PICK a : a = nid[p]
  OBVIOUS
<1>2. \A i \in Ids : Running(i)' => Running(i)
  BY NoneStarted DEF Quiet, Inv
<1>3. IdsOf(file) \subseteq IdsOf(mem'[p])
  BY DEF Quiet, Sole
<1> QED BY <1>1, <1>2, <1>3, Accounts DEF Quiet, ghostVars

\* The launches
LEMMA LaunchAccounts ==
    ASSUME Alone, Inv, Sole, InstancesAccounted, NEW p \in Procs,
           pc[p] \in {"create", "createClient", "launch"}, \E x, b : Launch(x, b),
           nid' = [nid EXCEPT ![p] = NewId], pc'[p] \notin Done,
           file' = file, mem' = mem, UNCHANGED ghostVars
    PROVE  Sole' /\ InstancesAccounted'
<1>1. nid[p] = 0 /\ pc[p] \notin Done
  BY DEF Inv, Good, ProcOK, Holding, Done
<1>2. PICK n \in Ids : n = NewId
  BY FreshId DEF Launch, Inv
<1>3. nid'[p] = n
  BY <1>2 DEF Inv, Arrays
<1>4. \A i \in Ids : i # n => inst'[i] = inst[i]
  BY <1>2 DEF Launch, Inv, CloudOK
<1>5. \A i \in Ids : Running(i)' => Running(i) \/ (i = nid'[p] /\ pc'[p] \notin Done)
  BY <1>3, <1>4 DEF Running
<1>6. IdsOf(file) \subseteq IdsOf(mem[p])
  BY <1>1 DEF Sole
<1> QED BY <1>1, <1>5, <1>6, Accounts DEF ghostVars

\* A launch whose answer did not come ends the command.
LEMMA UnheardAccounts ==
    ASSUME Alone, Inv, Sole, InstancesAccounted, NEW p \in Procs, NEW x, NEW b, LaunchUnheard(p, x, b),
           pc[p] \in {"create", "createClient", "launch"}, UNCHANGED <<file, nid, told, lost, abandoned>>
    PROVE  Sole' /\ InstancesAccounted'
<1>1. Arrays /\ nid[p] = 0 /\ pc'[p] \in Done
  BY DEF Inv, Arrays, Good, ProcOK, Holding, Done, LaunchUnheard, Goto
<1>2. PICK n \in Ids : n = NewId
  BY FreshId DEF LaunchUnheard, Launch, Inv
<1>3. unheard' = unheard \cup {n} /\ \A i \in Ids : i # n => inst'[i] = inst[i]
  BY <1>2 DEF LaunchUnheard, Launch, Inv, CloudOK
<1>4. \A i \in Ids : Running(i)' => Running(i) \/ i \in unheard'
  BY <1>3 DEF Running
<1> QED BY <1>1, <1>3, <1>4, Accounts

\* A new instance that is not recorded is on its way out or named.
LEMMA FailureAccounts ==
    ASSUME Alone, Inv, Sole, InstancesAccounted, NEW p \in Procs, pc'[p] \in Done,
           NEW a, a = nid[p], a \in Ids, file' = file,
           told \subseteq told', lost \subseteq lost', abandoned \subseteq abandoned', unheard' = unheard,
           \/ Terminate(a)
           \/ inst' = inst /\ a \in told' \cup lost' \cup abandoned' \cup unheard'
    PROVE  Sole' /\ InstancesAccounted'
<1>1. \A i \in Ids : Running(i)' => Running(i)
  BY NoneStarted DEF Inv
<1>2. Running(a)' => a \in told' \cup lost' \cup abandoned' \cup unheard'
  <2>1. CASE Terminate(a)
    <3>1. inst'[a].st # "running"
      BY <2>1 DEF Terminate, Inv, CloudOK
    <3> QED BY <3>1 DEF Running
  <2>2. CASE inst' = inst /\ a \in told' \cup lost' \cup abandoned' \cup unheard'
    BY <2>2
  <2> QED BY <2>1, <2>2
<1> QED BY <1>1, <1>2, Accounts

LEMMA UpSaveAccounts ==
    ASSUME Alone, Inv, Sole, InstancesAccounted, NEW p \in Procs, UpSave(p)
    PROVE  Sole' /\ InstancesAccounted'
<1>1. Arrays /\ ProcOK(p) /\ pc[p] \in {"save", "saveClient"} /\ StateOK(mem[p])
  BY DEF Inv, Good, UpSave, At, ProcOK
<1>2. PICK a \in Ids : a = nid[p] /\ Known(a)
  BY <1>1 DEF ProcOK, Holding, Ids
<1>3. PICK r \in Records : r = Rec(nid[p], 0) /\ r.id = a /\ r.vol = 0
  BY <1>2, MakeRecord, Numbers
<1>4. PICK s, t : s = mem[p] /\ t = Appended(p)
  OBVIOUS
<1>5. mem'[p] = t /\ file' = t /\ UNCHANGED <<inst, ghostVars>>
  BY <1>1, <1>4 DEF UpSave, UpRest, Rest, Arrays, SetMem, Write, ghostVars
<1>6. StateOK(s) /\ s \in States /\ Len(s.ms) \in Nat /\ Len(s.cs) \in Nat
  BY <1>1, <1>4, StateFields DEF StateOK
<1>7. MemberOK(r) /\ ClientOK(r)
  BY <1>2, <1>3 DEF MemberOK, ClientOK
<1>8. ASSUME pc[p] = "save" PROVE IdsOf(s) \subseteq IdsOf(t) /\ a \in IdsOf(t)
  <2>1. t = State(Append(s.ms, r), s.cs)
    BY <1>3, <1>4, <1>8 DEF Appended, At
  <2>2. /\ StateOK(t) /\ Len(t.ms) = Len(s.ms) + 1 /\ t.ms[Len(s.ms) + 1] = r /\ t.cs = s.cs
        /\ \A j \in 1..Len(s.ms) : t.ms[j] = s.ms[j]
    BY <1>6, <1>7, <2>1, Adding
  <2>3. t \in States /\ Len(s.ms) <= Len(t.ms) /\ Len(s.ms) + 1 \in 1..Len(t.ms) /\ 0 \notin 1..Len(s.ms)
    BY <1>6, <2>2 DEF StateOK
  <2>4. IdsOf(s) \subseteq IdsOf(t)
    BY <1>6, <2>2, <2>3, IdsKept
  <2>5. r \in RecsOf(t)
    BY <2>2, <2>3, Recs
  <2> QED BY <1>3, <2>4, <2>5 DEF IdsOf
<1>9. ASSUME pc[p] = "saveClient" PROVE IdsOf(s) \subseteq IdsOf(t) /\ a \in IdsOf(t)
  <2>1. t = State(s.ms, Append(s.cs, r))
    BY <1>3, <1>4, <1>9 DEF Appended, At
  <2>2. /\ StateOK(t) /\ Len(t.cs) = Len(s.cs) + 1 /\ t.cs[Len(s.cs) + 1] = r /\ t.ms = s.ms
        /\ \A j \in 1..Len(s.cs) : t.cs[j] = s.cs[j]
    BY <1>6, <1>7, <2>1, Adding
  <2>3. t \in States /\ Len(s.cs) <= Len(t.cs) /\ Len(s.cs) + 1 \in 1..Len(t.cs) /\ 0 \notin 1..Len(s.ms)
    BY <1>6, <2>2 DEF StateOK
  <2>4. IdsOf(s) \subseteq IdsOf(t)
    BY <1>6, <2>2, <2>3, IdsKept
  <2>5. r \in RecsOf(t)
    BY <2>2, <2>3, Recs
  <2> QED BY <1>3, <2>4, <2>5 DEF IdsOf
<1>10. IdsOf(file) \subseteq IdsOf(file') /\ a \in IdsOf(file') /\ IdsOf(file') \subseteq IdsOf(mem'[p])
  BY <1>1, <1>4, <1>5, <1>8, <1>9 DEF Sole, Done
<1>11. \A i \in Ids : Running(i)' => Running(i)
  BY <1>5 DEF Running
<1> QED BY <1>2, <1>5, <1>10, <1>11, Accounts DEF ghostVars

LEMMA UpReadyAccounts ==
    ASSUME Alone, Inv, Sole, InstancesAccounted, NEW p \in Procs, UpReady(p)
    PROVE  Sole' /\ InstancesAccounted'
<1>1. /\ Arrays /\ pc[p] = "ready" /\ nid[p] = 0 /\ mem[p] \in States
      /\ k[p] \in 1..Len(mem[p].ms)
  BY DEF Inv, Good, UpReady, At, ProcOK, UpOK, InUp, Holding, StateOK
<1>2. PICK s, j : s = mem[p] /\ j = k[p]
  OBVIOUS
<1>3. PICK i \in Ids : i = MemOf(mem[p], k[p]).id
  BY <1>1, MemberFacts DEF MemOf
<1>4. UNCHANGED <<inst, file, nid, ghostVars>>
  BY DEF UpReady, UpRest, Rest, CallFails, ghostVars
<1>5. IdsOf(mem[p]) \subseteq IdsOf(mem'[p])
  <2>1. CASE mem' = mem
    BY <2>1
  <2>2. CASE mem' = [mem EXCEPT ![p] = [mem[p] EXCEPT !.ms[k[p]].vol = IF Replaceable THEN i ELSE 0]]
    <3>1. PICK v \in 0..MaxInst : v = IF Replaceable THEN i ELSE 0
      BY Numbers DEF Ids
    <3>2. PICK t : t = [s EXCEPT !.ms[j].vol = v]
      OBVIOUS
    <3>3. mem'[p] = t /\ s \in States /\ j \in 1..Len(s.ms) /\ s.ms[j].id = i
      BY <1>1, <1>2, <1>3, <2>2, <3>1, <3>2 DEF Arrays, MemOf
    <3>4. PICK r \in Records : r = Rec(s.ms[j].id, v) /\ r.id = i
      BY <3>3, MakeRecord
    <3>5. t = [s EXCEPT !.ms = [s.ms EXCEPT ![j] = r]]
      BY <3>2, <3>3, <3>4, ChangingVolume
    <3>6. /\ t \in States /\ Len(t.ms) = Len(s.ms) /\ t.cs = s.cs
          /\ t.ms[j] = r /\ \A n \in 1..Len(s.ms) : n # j => t.ms[n] = s.ms[n]
      BY <3>3, <3>5, Changing
    <3>7. /\ \A n \in 1..Len(s.ms) : t.ms[n].id = s.ms[n].id
          /\ Len(s.ms) <= Len(t.ms) /\ Len(s.cs) <= Len(t.cs) /\ 0 \notin 1..Len(s.ms)
      BY <3>3, <3>4, <3>6, StateFields
    <3> QED BY <1>2, <3>3, <3>6, <3>7, IdsKept
  <2> QED BY <1>3, <2>1, <2>2 DEF UpReady, CallFails, SetMem, MemOf
<1>6. Quiet(p)
  BY <1>1, <1>4, <1>5 DEF Quiet, Done
<1> QED BY <1>6, QuietAccounts

\* The state in memory is written again.
LEMMA RewriteAccounts ==
    ASSUME Alone, Inv, Sole, InstancesAccounted, NEW p \in Procs, UpSaveReady(p) \/ ReplaceRewrite(p)
    PROVE  Sole' /\ InstancesAccounted'
<1>1. pc[p] \notin Done /\ nid[p] = 0
  BY DEF UpSaveReady, ReplaceRewrite, At, Done, Inv, Good, ProcOK, Holding
<1>2. file' \in {file, mem[p]} /\ UNCHANGED <<inst, mem, nid, told, lost, abandoned, unheard>>
  BY DEF UpSaveReady, ReplaceRewrite, UpRest, ReplaceRest, Rest, Write, WriteFails, ghostVars
<1>3. IdsOf(file) \subseteq IdsOf(file') /\ IdsOf(file') \subseteq IdsOf(mem'[p])
  BY <1>1, <1>2 DEF Sole
<1>4. \A i \in Ids : Running(i)' => Running(i)
  BY <1>2 DEF Running
<1> QED BY <1>1, <1>2, <1>3, <1>4, Accounts

LEMMA UpAccounts ==
    ASSUME Alone, Inv, Sole, InstancesAccounted, NEW p \in Procs, Up(p)
    PROVE  Sole' /\ InstancesAccounted'
<1>1. CASE UpCreate(p)
  <2>1. Arrays /\ nid[p] = 0 /\ pc[p] \in {"create", "createClient"}
    BY <1>1 DEF UpCreate, At, Inv, Good, ProcOK, Holding
  <2>2. file' = file /\ mem' = mem /\ UNCHANGED <<told, lost, abandoned>>
    BY <1>1 DEF UpCreate, Rest, CallFails
  <2>3. ASSUME NEW x, NEW b, Launch(x, b), SetNid(p, NewId), UNCHANGED unheard,
               Goto(p, IF At(p, "create") THEN "save" ELSE "saveClient")
        PROVE  Sole' /\ InstancesAccounted'
    <3>1. pc'[p] \notin Done /\ nid' = [nid EXCEPT ![p] = NewId]
      BY <2>1, <2>3 DEF Goto, SetNid, Arrays, Done
    <3> QED BY <2>1, <2>2, <2>3, <3>1, LaunchAccounts DEF ghostVars
  <2>4. ASSUME inst' = inst, nid' = nid, unheard' = unheard PROVE Sole' /\ InstancesAccounted'
    <3>1. Quiet(p)
      BY <2>1, <2>2, <2>4 DEF Quiet, Done, ghostVars
    <3> QED BY <3>1, QuietAccounts
  <2>5. ASSUME NEW x, NEW b, LaunchUnheard(p, x, b), nid' = nid PROVE Sole' /\ InstancesAccounted'
    BY <2>1, <2>2, <2>5, UnheardAccounts
  <2> QED BY <1>1, <2>3, <2>4, <2>5 DEF UpCreate, CallFails
<1>2. CASE UpSaveFails(p)
  <2>1. PICK a \in Ids : a = nid[p]
    BY <1>2 DEF UpSaveFails, At, Inv, Good, ProcOK, Holding, Ids
  <2>2. pc'[p] \in Done
    BY <1>2 DEF UpSaveFails, Goto, Inv, Arrays, Done
  <2>3. Terminate(a) \/ (inst' = inst /\ a \in told')
    BY <1>2, <2>1 DEF UpSaveFails, TerminateUnheard
  <2>4. file' = file /\ told \subseteq told' /\ UNCHANGED <<lost, abandoned, unheard>>
    BY <1>2 DEF UpSaveFails, UpRest, Rest
  <2> QED BY <2>1, <2>2, <2>3, <2>4, FailureAccounts
<1>3. CASE UpReadyClient(p) \/ Bootstrap(p)
  <2>1. pc[p] \notin Done /\ nid[p] = 0
    BY <1>3 DEF UpReadyClient, Bootstrap, At, Done, Inv, Good, ProcOK, Holding
  <2>2. UNCHANGED <<inst, file, mem, nid, ghostVars>>
    BY <1>3 DEF UpReadyClient, Bootstrap, UpRest, Rest, CallFails, ghostVars
  <2>3. Quiet(p)
    BY <2>1, <2>2 DEF Quiet
  <2> QED BY <2>3, QuietAccounts
<1> QED BY <1>1, <1>2, <1>3, UpSaveAccounts, UpReadyAccounts, RewriteAccounts DEF Up

LEMMA DownAccounts ==
    ASSUME Alone, Inv, Sole, InstancesAccounted, NEW p \in Procs, Down(p)
    PROVE  Sole' /\ InstancesAccounted'
<1>1. /\ Arrays /\ pc[p] \in {"delete", "wait", "volumes", "remove"} /\ nid[p] = 0 /\ op[p] = "down"
      /\ pc[p] \notin Done /\ ProcOK(p) /\ DownOK(p)
  BY DEF Inv, Good, Down, DownDelete, DownSaveRemaining, DownDeleted, DownWait, DownVolume, DownRemove,
         At, ProcOK, InDown, Holding, Done
<1>2. mem' = mem /\ nid' = nid /\ UNCHANGED ghostVars
  BY DEF Down, DownDelete, DownSaveRemaining, DownDeleted, DownWait, DownVolume, DownRemove,
         DownRest, Rest, ghostVars
<1>3. CASE DownDelete(p) \/ DownDeleted(p) \/ DownWait(p) \/ DownVolume(p)
  <2>1. file' = file
    BY <1>3 DEF DownDelete, DownDeleted, DownWait, DownVolume
  <2>2. DownDelete(p) => inst' = inst \/ Terminate(Todo(p)[k[p]].id)
    BY DEF DownDelete, TerminateUnheard
  <2>3. DownDelete(p) => Todo(p)[k[p]].id \in Ids
    <3> SUFFICES ASSUME DownDelete(p) PROVE Todo(p)[k[p]].id \in Ids
      OBVIOUS
    <3>1. Size(mem[p]) \in Nat /\ StateOK(mem[p])
      BY <1>1, MemberFacts, StateFields DEF ProcOK
    <3>2. k[p] \in 1..(Size(mem[p]) + 1) /\ k[p] <= Size(mem[p])
      BY <1>1 DEF DownDelete, At, DownOK
    <3>3. k[p] \in 1..Size(mem[p])
      BY <3>1, <3>2
    <3> QED BY <3>1, <3>3, MemberFacts, Queue, GoodRecs
  <2>4. ~DownDelete(p) => inst' = inst
    BY <1>3 DEF DownDeleted, DownWait, DownVolume
  <2>5. Quiet(p)
    BY <1>1, <1>2, <2>1, <2>2, <2>3, <2>4 DEF Quiet
  <2> QED BY <2>5, QuietAccounts
<1>4. CASE DownSaveRemaining(p) \/ DownRemove(p)
  <2>1. /\ inst' = inst /\ pc'[p] \in {"ok", "err"}
        /\ \/ file' = file
           \/ pc[p] = "delete" /\ k[p] > Size(mem[p]) /\ file' = kept[p]
           \/ pc[p] = "remove"
    BY <1>1, <1>4 DEF DownSaveRemaining, DownRemove, DownRest, Rest, At, Goto, Write, WriteFails, Arrays
  <2>2. ASSUME NEW i \in Ids, i \in IdsOf(file), Running(i)' PROVE i \in IdsOf(file')
    <3>1. i \in IdsOf(mem[p]) /\ Running(i)
      BY <1>1, <2>1, <2>2 DEF Sole, Running
    <3>2. PICK r \in RecsOf(mem[p]) : r.id = i
      BY <3>1 DEF IdsOf
    <3>3. pc[p] # "remove"
      BY <1>1, <3>1, <3>2 DEF DownOK
    <3>4. CASE pc[p] = "delete" /\ k[p] > Size(mem[p]) /\ file' = kept[p]
      <4>1. Size(mem[p]) \in Nat /\ k[p] \in 1..(Size(mem[p]) + 1)
        BY <1>1, <3>4, MemberFacts, StateFields DEF DownOK
      <4>2. PICK j \in 1..Size(mem[p]) : Todo(p)[j] = r
        BY MemberFacts, Queue
      <4>3. j \in 1..(k[p] - 1)
        BY <3>4, <4>1
      <4>4. r \in RecsOf(kept[p])
        BY <1>1, <3>1, <3>2, <3>4, <4>2, <4>3 DEF DownOK
      <4> QED BY <3>2, <3>4, <4>4 DEF IdsOf
    <3>5. CASE file' = file
      BY <2>2, <3>5
    <3> QED BY <2>1, <3>3, <3>4, <3>5
  <2>3. \A i \in Ids : Running(i)' => Running(i)
    BY <2>1 DEF Running
  <2>4. pc'[p] \in Done
    BY <2>1 DEF Done
  <2> QED BY <1>1, <1>2, <2>2, <2>3, <2>4, Accounts DEF ghostVars
<1> QED BY <1>3, <1>4 DEF Down

\* The machine a "replace" drops from the records is gone.
LEMMA ReplaceRecordAccounts ==
    ASSUME Alone, Inv, Sole, InstancesAccounted, NEW p \in Procs, ReplaceRecord(p)
    PROVE  Sole' /\ InstancesAccounted'
<1>1. pc[p] = "record"
  BY DEF ReplaceRecord, At
<1>2. PICK s, j, a : s = mem[p] /\ j = k[p] /\ a = nid[p]
  OBVIOUS
<1>3. /\ Arrays /\ s \in States /\ j \in 1..Len(s.ms) /\ MemberOK(s.ms[j]) /\ a \in Ids
      /\ ~Live(s.ms[j].id)
  BY <1>1, <1>2, ReplaceFacts DEF InReplace, ReplaceOK, Holding, StateOK
<1>4. PICK r \in Records : r = Rec(a, s.ms[j].vol) /\ r.id = a
  BY <1>3, MakeRecord DEF MemberOK, Records
<1>5. PICK t : t = [s EXCEPT !.ms[j].id = a]
  OBVIOUS
<1>6. t = [s EXCEPT !.ms = [s.ms EXCEPT ![j] = r]]
  BY <1>3, <1>4, <1>5, ChangingInstance
<1>7. /\ t \in States /\ Len(t.ms) = Len(s.ms) /\ t.cs = s.cs
      /\ t.ms[j] = r /\ \A n \in 1..Len(s.ms) : n # j => t.ms[n] = s.ms[n]
  BY <1>3, <1>6, Changing
<1>8. /\ inst' = inst /\ mem'[p] = t /\ told \subseteq told' /\ UNCHANGED <<lost, abandoned, unheard>>
      /\ \/ file' = t
         \/ file' = file /\ pc'[p] = "err" /\ a \in told'
  BY <1>2, <1>3, <1>5 DEF ReplaceRecord, ReplaceRest, Rest, SetMem, Write, WriteFails, Goto, Arrays
<1>9. \A i \in IdsOf(s) : i \in IdsOf(t) \/ i = s.ms[j].id
  <2>1. Len(s.ms) <= Len(t.ms) /\ Len(s.cs) <= Len(t.cs)
    BY <1>3, <1>7, StateFields
  <2> QED BY <1>3, <1>7, <2>1, IdsKept
<1>10. a \in IdsOf(t)
  <2>1. r \in RecsOf(t)
    BY <1>3, <1>7, Recs
  <2> QED BY <1>4, <2>1 DEF IdsOf
<1>11. \A i \in Ids : Running(i)' => Running(i)
  BY <1>8 DEF Running
<1>12. IdsOf(file) \subseteq IdsOf(s)
  BY <1>1, <1>2 DEF Sole, Done
<1>13. \A i \in IdsOf(file) \cap Ids : Running(i)' => i \in IdsOf(file')
  BY <1>3, <1>8, <1>9, <1>11, <1>12 DEF Running, Live
<1>14. pc'[p] \notin Done => IdsOf(file') \subseteq IdsOf(mem'[p])
  BY <1>8 DEF Done
<1> QED BY <1>2, <1>8, <1>10, <1>11, <1>13, <1>14, Accounts

LEMMA ReplaceAccounts ==
    ASSUME Alone, Inv, Sole, InstancesAccounted, NEW p \in Procs, Replace(p)
    PROVE  Sole' /\ InstancesAccounted'
<1>1. CASE ReplaceLaunch(p)
  <2>1. pc[p] = "launch" /\ Arrays /\ nid[p] = 0
    BY <1>1, ReplaceFacts DEF ReplaceLaunch, At, InReplace, Holding
  <2>2. file' = file /\ mem' = mem /\ UNCHANGED <<told, lost, abandoned>>
    BY <1>1 DEF ReplaceLaunch, ReplaceRest, Rest, ReplaceCallFails, ReplaceGivesUp
  <2>3. CASE \E ip : /\ Launch(ip, FALSE) /\ SetNid(p, NewId) /\ ReplaceRest(p)
                     /\ Goto(p, IF rv[p] = 0 THEN "record" ELSE "attach")
    <3>1. pc'[p] \notin Done /\ nid' = [nid EXCEPT ![p] = NewId]
      BY <2>1, <2>3 DEF Goto, SetNid, Arrays, Done
    <3> QED BY <2>1, <2>2, <2>3, <3>1, LaunchAccounts DEF ReplaceRest, ghostVars
  <2>4. CASE ReplaceCallFails(p) \/ ReplaceGivesUp(p)
    <3>1. Quiet(p)
      BY <2>1, <2>2, <2>4 DEF Quiet, Done, ReplaceCallFails, ReplaceGivesUp, ReplaceRest, ghostVars
    <3> QED BY <3>1, QuietAccounts
  <2>5. CASE (\E ip : LaunchUnheard(p, ip, FALSE)) /\ nid' = nid
    BY <2>1, <2>2, <2>5, UnheardAccounts
  <2> QED BY <1>1, <2>3, <2>4, <2>5 DEF ReplaceLaunch
<1>2. CASE ReplaceAttachFails(p)
  <2>1. PICK a \in Ids : a = nid[p]
    BY <1>2 DEF ReplaceAttachFails, At, Inv, Good, ProcOK, Holding, Ids
  <2>2. pc'[p] \in Done
    BY <1>2 DEF ReplaceAttachFails, Goto, Inv, Arrays, Done
  <2>3. Terminate(a) \/ (inst' = inst /\ a \in abandoned')
    BY <1>2, <2>1 DEF ReplaceAttachFails, TerminateUnheard
  <2>4. file' = file /\ abandoned \subseteq abandoned' /\ UNCHANGED <<told, lost, unheard>>
    BY <1>2 DEF ReplaceAttachFails, ReplaceRest, Rest
  <2> QED BY <2>1, <2>2, <2>3, <2>4, FailureAccounts
<1>3. CASE \/ ReplaceSpec(p) \/ ReplaceTerminate(p) \/ ReplaceWait(p) \/ ReplaceAttach(p)
           \/ ReplaceResolve(p)
  <2>1. Arrays /\ pc[p] \in InReplace \ {"launch", "record", "rewrite"}
    BY <1>3 DEF ReplaceSpec, ReplaceTerminate, ReplaceWait, ReplaceAttach, ReplaceResolve, At,
                InReplace, Inv
  <2>2. UNCHANGED <<file, mem, nid, ghostVars>>
    BY <1>3 DEF ReplaceSpec, ReplaceTerminate, ReplaceWait, ReplaceAttach, ReplaceResolve,
                ReplaceCallFails, ReplaceGivesUp, ReplaceRest, Rest, ghostVars
  <2>3. inst' = inst \/ Terminate(Old(p))
    BY <1>3 DEF ReplaceSpec, ReplaceTerminate, ReplaceWait, ReplaceAttach, ReplaceResolve,
                TerminateUnheard, ReplaceCallFails, ReplaceGivesUp
  <2>4. pc[p] = "attach" => pc'[p] = "record"
    BY <1>3, <2>1 DEF ReplaceSpec, ReplaceTerminate, ReplaceWait, ReplaceAttach, ReplaceResolve, At,
                      Goto, Arrays
  <2>5. Old(p) \in Ids /\ (nid[p] # 0 => pc[p] = "attach")
    BY <2>1, ReplaceFacts DEF InReplace, Holding
  <2>6. Quiet(p)
    BY <2>1, <2>2, <2>3, <2>4, <2>5 DEF Quiet, InReplace, Done
  <2> QED BY <2>6, QuietAccounts
<1> QED BY <1>1, <1>2, <1>3, ReplaceRecordAccounts, RewriteAccounts DEF Replace

LEMMA BeginsAccounts ==
    ASSUME Alone, Inv, Sole, InstancesAccounted, NEW p \in Procs, Begins(p)
    PROVE  Sole' /\ InstancesAccounted'
<1>1. Arrays /\ ProcOK(p) /\ file' = file /\ inst' = inst
  BY DEF Inv, Good, Begins, StartUpCmd, StartDown, StartReplace, Start, Interrupt, Crash
<1>2. \A i \in Ids : Running(i)' => Running(i)
  BY <1>1 DEF Running
<1>3. PICK a : a = nid[p]
  OBVIOUS
<1>4. CASE StartUpCmd(p) \/ StartDown(p) \/ \E m \in 1..Members : StartReplace(p, m)
  <2>1. a = 0 /\ UNCHANGED ghostVars
    BY <1>1, <1>3, <1>4 DEF StartUpCmd, StartDown, StartReplace, Start, At, ProcOK, Holding
  <2>2. pc'[p] \notin Done => mem'[p] = file \/ file = NoFile
    BY <1>1, <1>4 DEF StartUpCmd, StartDown, StartReplace, Start, Goto, SetMem, Arrays, Done, Readable
  <2>3. IdsOf(NoFile) = {}
    BY DEF IdsOf, RecsOf
  <2>4. pc'[p] \notin Done => IdsOf(file') \subseteq IdsOf(mem'[p])
    BY <1>1, <2>2, <2>3
  <2> QED BY <1>1, <1>2, <1>3, <2>1, <2>4, Accounts DEF ghostVars
<1>5. CASE Interrupt(p)
  <2>1. Quiet(p)
    BY <1>5 DEF Interrupt, Quiet
  <2> QED BY <2>1, QuietAccounts
<1>6. CASE Crash(p)
  <2>1. /\ pc'[p] \in Done /\ UNCHANGED <<told, abandoned, unheard>> /\ lost \subseteq lost'
        /\ a # 0 => a \in lost'
    BY <1>1, <1>3, <1>6 DEF Crash, Goto, Arrays, Done
  <2> QED BY <1>1, <1>2, <1>3, <2>1, Accounts
<1> QED BY <1>4, <1>5, <1>6 DEF Begins

LEMMA AccountedStep ==
    ASSUME Alone, Inv, Sole, InstancesAccounted, [Next]_vars
    PROVE  Sole' /\ InstancesAccounted'
<1>1. CASE CloudActs
  <2>1. /\ UNCHANGED <<file, pc, mem, nid, told, lost, abandoned, unheard>>
    BY <1>1 DEF CloudActs, Ec2Terminated, Ec2Purges, Cloud, procVars, ghostVars, vars
  <2>2. \A i \in Ids : Running(i)' => Running(i)
    BY <1>1 DEF CloudActs, Ec2Terminated, Ec2Purges, vars, Running, Inv, CloudOK, InstTypes
  <2> QED BY <2>1, <2>2 DEF Sole, InstancesAccounted, InFlight
<1>2. ASSUME NEW p \in Procs, Acts(p) PROVE Sole' /\ InstancesAccounted'
  BY <1>2, UpAccounts, DownAccounts, ReplaceAccounts, BeginsAccounts DEF Acts
<1> QED BY <1>1, <1>2, NextCases

\* As long as one command runs at a time, every running instance is in the
\* state file, in the hands of that command, or one of the four kinds the code
\* lets go: named in an error, lost to a kill, a replacement that could not be
\* terminated, or launched by a RunInstances that returned an error.  Two
\* commands would write over each other's state file: it has no lock.
THEOREM InstancesKept ==
    ASSUME Alone
    PROVE  Spec => []InstancesAccounted
<1>1. Init => Sole /\ InstancesAccounted
  <2> SUFFICES ASSUME Init PROVE Sole /\ InstancesAccounted
    OBVIOUS
  <2>1. Sole
    BY DEF Init, Sole, Done
  <2>2. ASSUME NEW i \in Ids, Running(i) PROVE i \in IdsOf(file)
    <3>1. StartUp /\ i <= Members + Clients
      BY <2>2 DEF Init, Running, NoInst
    <3>2. file = UpFile
      BY <3>1 DEF Init
    <3>3. file \in States
      BY <3>1, <3>2, InvInit DEF Inv, FileOK, StateOK, UpFile, State, NoFile
    <3>4. CASE i <= Members
      <4>1. i \in 1..Members /\ UpFile.ms[i] = Rec(i, IF Replaceable THEN i ELSE 0)
        BY <3>4, Numbers DEF UpFile, State, Ids
      <4>2. Len(UpFile.ms) = Members
        BY Numbers DEF UpFile, State
      <4>3. UpFile.ms[i] \in RecsOf(file)
        BY <3>2, <3>3, <4>1, <4>2, Recs
      <4> QED BY <4>1, <4>3 DEF IdsOf, Rec
    <3>5. CASE i > Members
      <4>1. i - Members \in 1..Clients /\ UpFile.cs[i - Members] = Rec(Members + (i - Members), 0)
        BY <3>1, <3>5, Numbers DEF UpFile, State, Ids
      <4>2. Len(UpFile.cs) = Clients /\ Members + (i - Members) = i
        BY Numbers DEF UpFile, State, Ids
      <4>3. UpFile.cs[i - Members] \in RecsOf(file)
        BY <3>2, <3>3, <4>1, <4>2, Recs
      <4> QED BY <4>1, <4>2, <4>3 DEF IdsOf, Rec
    <3> QED BY <3>4, <3>5, Numbers DEF Ids
  <2> QED BY <2>1, <2>2 DEF InstancesAccounted
<1>2. Inv /\ (Sole /\ InstancesAccounted) /\ [Next]_vars => (Sole /\ InstancesAccounted)'
  BY AccountedStep
<1> QED BY <1>1, <1>2, Invariant, PTL DEF Spec

-----------------------------------------------------------------------------
(* Replacements: one machine per member *)

LEMMA PlacedStays ==
    ASSUME Progress, NEW s, StateOK(s), Placed(s)
    PROVE  Placed(s)'
<1>1. \A j \in 1..Len(s.ms) : s.ms[j].id \in Ids /\ Known(s.ms[j].id)
  BY DEF StateOK, MemberOK, Records
<1>2. ASSUME NEW j \in 1..Len(s.ms), NEW i, i = s.ms[j].id, Live(i)' PROVE inst'[i].ip = j
  BY <1>1, <1>2 DEF Progress, InstProgress, Placed
<1> QED BY <1>2 DEF Placed, Live

LEMMA PlacedIs ==
    ASSUME NEW p \in Procs, NEW s, Placed(s)'
    PROVE  /\ mem'[p] = s => Placed(mem[p])'
           /\ kept'[p] = s => Placed(kept[p])'
           /\ file' = s => (file # NoFile => Placed(file))'
BY DEF Placed, Live

LEMMA PlacedMem ==
    ASSUME Inv, OneAddress, Progress, NEW p \in Procs
    PROVE  /\ mem'[p] \in {mem[p], Empty} \/ (mem'[p] = file /\ file # NoFile) => Placed(mem[p])'
           /\ kept'[p] \in {kept[p], Empty} => Placed(kept[p])'
           /\ file' \in {file, mem[p], kept[p], NoFile} => (file # NoFile => Placed(file))'
<1>1. /\ \A s : s \in {mem[p], kept[p], Empty} \/ (s = file /\ file # NoFile) => StateOK(s) /\ Placed(s)
  <2>1. StateOK(mem[p]) /\ Placed(mem[p]) /\ StateOK(kept[p]) /\ Placed(kept[p])
    BY DEF Inv, Good, ProcOK, OneAddress, AddressOK
  <2>2. StateOK(Empty) /\ Placed(Empty)
    <3>1. Len(Empty.ms) = 0
      BY EmptyState
    <3> QED BY <3>1, EmptyState, Numbers DEF Placed
  <2>3. file # NoFile => StateOK(file) /\ Placed(file)
    BY DEF Inv, FileOK, OneAddress
  <2> QED BY <2>1, <2>2, <2>3
<1>2. \A s : s \in {mem[p], kept[p], Empty} \/ (s = file /\ file # NoFile) => Placed(s)'
  BY <1>1, PlacedStays
<1>3. file' = NoFile => (file # NoFile => Placed(file))'
  OBVIOUS
<1> QED BY <1>2, <1>3, PlacedIs

\* Addresses do not change, and only a launch brings an instance to life.
LEMMA ApartStays ==
    ASSUME CloudOK, Progress, Apart, \A i \in Ids : Known(i)' => Known(i)
    PROVE  Apart'
BY DEF Apart, Progress, InstProgress, Known, Live

LEMMA ApartLaunch ==
    ASSUME CloudOK, Progress, Apart, NEW x, NEW b, Launch(x, b), IpHolders(x) = {}
    PROVE  Apart'
<1>1. PICK n \in Ids : n = NewId
  BY FreshId DEF Launch
<1>2. inst'[n] = [st |-> "running", ip |-> x] /\ \A i \in Ids : i # n => inst'[i] = inst[i]
  BY <1>1 DEF Launch, CloudOK
<1>3. \A i \in Ids : i # n /\ Live(i)' => Live(i) /\ inst'[i].ip = inst[i].ip /\ inst[i].ip # x
  BY <1>2 DEF Live, IpHolders
<1> QED BY <1>2, <1>3 DEF Apart

\* What keeps the addresses of the command that acts in order.
LEMMA AddressStays ==
    ASSUME Inv, OneAddress, Progress, NEW p \in Procs,
           op'[p] = op[p], mem'[p] = mem[p], kept'[p] = kept[p], nid'[p] \in {0, nid[p]},
           k'[p] = k[p] \/ (nid'[p] = 0 /\ pc'[p] \notin InReplace),
           pc'[p] # "delete" \/ (pc[p] = "delete" /\ k'[p] = k[p]),
           pc'[p] \in InReplace => pc[p] \in InReplace
    PROVE  AddressOK(p)'
<1>1. AddressOK(p)
  BY DEF OneAddress
<1>2. Placed(mem[p])' /\ Placed(kept[p])'
  BY PlacedMem
<1>3. pc[p] \in InReplace => inst'[Old(p)].ip = inst[Old(p)].ip
  BY ReplaceFacts DEF Progress, InstProgress
<1>4. nid[p] # 0 => inst'[nid[p]].ip = inst[nid[p]].ip
  BY Numbers DEF Inv, Good, ProcOK, Ids, Progress, InstProgress
<1> QED BY <1>1, <1>2, <1>3, <1>4 DEF AddressOK, Old, MemOf, InReplace

LEMMA AddressUndisturbed ==
    ASSUME Inv, OneAddress, Progress, NEW q \in Procs, Same(q)
    PROVE  AddressOK(q)'
BY AddressStays DEF Same

\* Without faults no call fails.
LEMMA Calmly ==
    ASSUME Inv, Calm, [Next]_vars
    PROVE  Calm' /\ (MaxFaults = 0 => ~Fault /\ \A p \in Procs : ~Fails(p))
<1> SUFFICES ASSUME MaxFaults = 0
             PROVE  /\ faults' = 0 /\ \A p \in Procs : ~cancelled'[p]
                    /\ ~Fault /\ \A p \in Procs : ~Fails(p)
  BY DEF Calm
<1>1. faults = 0 /\ \A p \in Procs : ~cancelled[p]
  BY DEF Calm
<1>2. ~Fault /\ ~(faults + 1 < MaxFaults) /\ \A p \in Procs : ~Fails(p)
  BY <1>1 DEF Fault, Fails
<1>3. CASE CloudActs
  BY <1>1, <1>2, <1>3 DEF CloudActs, Ec2Terminated, Ec2Purges, Cloud, procVars, vars
<1>4. ASSUME NEW p \in Procs, Acts(p) PROVE faults' = 0 /\ \A q \in Procs : ~cancelled'[q]
  <2>1. CASE Up(p)
    <3>1. cancelled' = cancelled
      BY <2>1 DEF Up, UpCreate, UpSave, UpSaveFails, UpReady, UpReadyClient, UpSaveReady, Bootstrap,
                  UpRest, Rest
    <3>2. faults' = faults
      BY <1>1, <1>2, <2>1 DEF Up, UpCreate, UpSave, UpSaveFails, UpReady, UpReadyClient, UpSaveReady,
                              Bootstrap, LaunchUnheard, CallFails, Works, Write, WriteFails
    <3> QED BY <1>1, <3>1, <3>2
  <2>2. CASE Down(p)
    <3>1. cancelled' = cancelled
      BY <2>2 DEF Down, DownDelete, DownSaveRemaining, DownDeleted, DownWait, DownVolume, DownRemove,
                  DownRest, Rest
    <3>2. faults' = faults
      BY <1>1, <1>2, <2>2 DEF Down, DownDelete, DownSaveRemaining, DownDeleted, DownWait, DownVolume,
                              DownRemove, Works, Write, WriteFails
    <3> QED BY <1>1, <3>1, <3>2
  <2>3. CASE Replace(p)
    <3>1. cancelled' = cancelled
      BY <2>3 DEF Replace, ReplaceSpec, ReplaceTerminate, ReplaceWait, ReplaceLaunch, ReplaceAttach,
                  ReplaceAttachFails, ReplaceRecord, ReplaceResolve, ReplaceRewrite, ReplaceCallFails,
                  ReplaceGivesUp, ReplaceRest, Rest
    <3>2. faults' = faults
      BY <1>1, <1>2, <2>3 DEF Replace, ReplaceSpec, ReplaceTerminate, ReplaceWait, ReplaceLaunch,
           ReplaceAttach, ReplaceAttachFails, ReplaceRecord, ReplaceResolve, ReplaceRewrite,
           LaunchUnheard, ReplaceCallFails, ReplaceGivesUp, Works, Write, WriteFails
    <3> QED BY <1>1, <3>1, <3>2
  <2>4. CASE Begins(p)
    BY <1>1, <1>2, <2>4 DEF Begins, StartUpCmd, StartDown, StartReplace, Start, Interrupt, Crash, Inv, Arrays
  <2> QED BY <1>4, <2>1, <2>2, <2>3, <2>4 DEF Acts
<1> QED BY <1>1, <1>2, <1>3, <1>4, NextCases

\* What a step of command p has to keep.
Addressed(p) == Apart' /\ (file # NoFile => Placed(file))' /\ AddressOK(p)'

LEMMA NoneNew ==
    ASSUME Inv, OneAddress, Progress, inst' = inst \/ \E i \in Ids : Terminate(i)
    PROVE  Apart'
<1>1. \A i \in Ids : Known(i)' => Known(i)
  BY DEF Inv, CloudOK, Terminate, Known, InstTypes
<1> QED BY <1>1, ApartStays DEF Inv, OneAddress

LEMMA UpAddressed ==
    ASSUME ReplacingOnly, Inv, OneAddress, CloudOK', Progress, NEW p \in Procs, Up(p)
    PROVE  Addressed(p)
<1>1. op[p] # "up"
  BY DEF OneAddress, AddressOK, ReplacingOnly
<1>2. pc[p] \notin InUp
  BY <1>1 DEF Inv, Good, ProcOK
<1>3. Bootstrap(p)
  BY <1>2 DEF Up, UpCreate, UpSave, UpSaveFails, UpReady, UpReadyClient, UpSaveReady, At, InUp
<1>4. /\ UNCHANGED <<inst, file, op, mem, kept, nid, k>> /\ pc'[p] \in {"ok", "err"}
  BY <1>3 DEF Bootstrap, UpRest, Rest, Goto, Inv, Arrays
<1>5. AddressOK(p)'
  BY <1>4, AddressStays DEF InReplace
<1> QED BY <1>4, <1>5, NoneNew, PlacedMem DEF Addressed

\* With several members, a record a "down" keeps belongs to a machine that is
\* gone.
LEMMA KeepsPlaced ==
    ASSUME ReplacingOnly, Inv, OneAddress, CloudOK', Progress, NEW p \in Procs, DownDelete(p),
           MaxFaults = 0 => ~Fails(p)
    PROVE  AddressOK(p)'
<1>1. /\ Arrays /\ ProcOK(p) /\ DownOK(p) /\ AddressOK(p) /\ pc[p] = "delete" /\ op[p] = "down"
      /\ nid[p] = 0 /\ StateOK(kept[p]) /\ StateOK(mem[p]) /\ k[p] \in Nat
  BY DEF Inv, Good, DownDelete, At, ProcOK, InDown, Holding, OneAddress
<1>2. /\ mem'[p] = mem[p] /\ op'[p] = op[p] /\ nid'[p] = 0 /\ pc'[p] = "delete"
      /\ k'[p] = k[p] + 1 /\ k[p] <= Size(mem[p])
  BY <1>1 DEF DownDelete, DownRest, Rest, SetK, Arrays
<1>3. PICK s, r, m, c : s = kept[p] /\ r = Todo(p)[k[p]] /\ m = Len(mem[p].ms) /\ c = Len(mem[p].cs)
  OBVIOUS
<1>4. /\ m \in Nat /\ c \in Nat /\ k[p] \in 1..(m + c) /\ m <= Members /\ Placed(s) /\ StateOK(s)
      /\ Len(s.ms) = 0 \/ Len(s.ms) + c < k[p]
      /\ s \in States /\ Len(s.ms) \in Nat /\ Len(s.cs) \in Nat
  <2>1. /\ m \in Nat /\ c \in Nat /\ Size(mem[p]) = m + c
        /\ s \in States /\ Len(s.ms) \in Nat /\ Len(s.cs) \in Nat
    BY <1>1, <1>3, StateFields DEF StateOK
  <2>2. k[p] \in 1..(Size(mem[p]) + 1)
    BY <1>1 DEF DownOK
  <2>3. /\ m <= Members /\ Placed(s)
        /\ Len(s.ms) = 0 \/ Len(s.ms) + c < k[p]
    BY <1>1, <1>3 DEF AddressOK, Placed
  <2>4. PICK z : z = Size(mem[p])
    OBVIOUS
  <2>5. k[p] \in 1..(m + c)
    BY <1>1, <1>2, <2>1, <2>2, <2>4
  <2> QED BY <1>1, <1>3, <2>1, <2>3, <2>5
<1>5. /\ r \in Records /\ r.id \in Ids
      /\ IF k[p] <= c THEN ClientOK(r) ELSE /\ k[p] - c \in 1..m /\ r = mem[p].ms[k[p] - c]
                                            /\ MemberOK(r)
  <2>1. k[p] \in 1..Size(mem[p])
    BY <1>3, <1>4 DEF Size
  <2>2. IF k[p] <= c THEN r = mem[p].cs[k[p]]
        ELSE k[p] - c \in 1..m /\ r = mem[p].ms[k[p] - c]
    BY <1>3, <2>1, MemberFacts, Queue
  <2>3. k[p] <= c => k[p] \in 1..c
    BY <1>4
  <2> QED BY <1>1, <1>3, <2>2, <2>3 DEF StateOK, ClientOK, MemberOK, Records
<1>6. \/ kept'[p] = s
      \/ /\ kept'[p] = IF k[p] <= c THEN State(s.ms, Append(s.cs, r)) ELSE State(Append(s.ms, r), s.cs)
         /\ Fails(p) \/ ~Terminable(r.id)
  BY <1>1, <1>3 DEF DownDelete, Keep, Arrays
<1>7. PICK t : t = kept'[p]
  OBVIOUS
<1>8. Placed(t) /\ StateOK(t) /\ (Len(t.ms) = 0 \/ Len(t.ms) + c < k[p] + 1)
  <2>1. CASE t = s
    BY <1>4, <2>1
  <2>2. CASE k[p] <= c /\ t = State(s.ms, Append(s.cs, r))
    <3>1. StateOK(t) /\ t.ms = s.ms
      BY <1>4, <1>5, <2>2, Adding
    <3> QED BY <1>4, <3>1 DEF Placed
  <2>3. CASE k[p] > c /\ t = State(Append(s.ms, r), s.cs) /\ (Fails(p) \/ ~Terminable(r.id))
    <3>1. /\ StateOK(t) /\ Len(t.ms) = Len(s.ms) + 1 /\ t.ms[Len(s.ms) + 1] = r
          /\ \A j \in 1..Len(s.ms) : t.ms[j] = s.ms[j]
      BY <1>4, <1>5, <2>3, Adding
    <3>2. /\ Len(s.ms) + c < k[p] /\ Len(s.ms) + 1 <= m
      BY <1>4, <2>3
    <3>3. Live(r.id) => inst[r.id].ip = Len(s.ms) + 1
      <4>1. CASE MaxFaults = 0
        BY <2>3, <4>1 DEF Terminable, Live
      <4>2. CASE MaxFaults # 0
        <5>1. Members = 1
          BY <1>1, <4>2 DEF ReplacingOnly, AddressOK
        <5>2. Len(s.ms) = 0 /\ k[p] - c = 1 /\ m = 1
          BY <1>4, <1>5, <2>3, <3>2, <5>1
        <5> QED BY <1>1, <1>3, <1>5, <2>3, <5>2 DEF AddressOK, Placed
      <4> QED BY <4>1, <4>2
    <3>4. Placed(t)
      <4>1. \A j \in 1..Len(t.ms) : j \in 1..Len(s.ms) \/ j = Len(s.ms) + 1
        BY <1>4, <3>1
      <4>2. Len(t.ms) <= Members
        BY <1>4, <3>1, <3>2, Numbers
      <4> QED BY <1>4, <3>1, <3>3, <4>1, <4>2 DEF Placed
    <3> QED BY <1>4, <3>1, <3>2, <3>4
  <2> QED BY <1>4, <1>6, <1>7, <2>1, <2>2, <2>3
<1>9. Placed(kept[p])' /\ Placed(mem[p])'
  BY <1>2, <1>7, <1>8, PlacedStays, PlacedIs, PlacedMem
<1> QED BY <1>1, <1>2, <1>3, <1>7, <1>8, <1>9 DEF AddressOK, InReplace

LEMMA DownAddressed ==
    ASSUME ReplacingOnly, Inv, OneAddress, CloudOK', Progress, NEW p \in Procs, Down(p),
           MaxFaults = 0 => ~Fails(p)
    PROVE  Addressed(p)
<1>1. Arrays /\ ProcOK(p) /\ DownOK(p) /\ op[p] = "down" /\ nid[p] = 0
      /\ pc[p] \in {"delete", "wait", "volumes", "remove"}
  BY DEF Inv, Good, Down, DownDelete, DownSaveRemaining, DownDeleted, DownWait, DownVolume, DownRemove,
         At, ProcOK, InDown, Holding
<1>2. UNCHANGED <<op, mem, nid>>
  BY DEF Down, DownDelete, DownSaveRemaining, DownDeleted, DownWait, DownVolume, DownRemove,
         DownRest, Rest
<1>3. CASE DownDelete(p)
  <2>1. /\ file' = file
        /\ \/ inst' = inst
           \/ Terminate(Todo(p)[k[p]].id) /\ Todo(p)[k[p]].id \in Ids
    <3>1. Size(mem[p]) \in Nat /\ StateOK(mem[p])
      BY <1>1, MemberFacts, StateFields DEF ProcOK
    <3>2. k[p] \in 1..(Size(mem[p]) + 1) /\ k[p] <= Size(mem[p])
      BY <1>1, <1>3 DEF DownDelete, At, DownOK
    <3>3. k[p] \in 1..Size(mem[p])
      BY <3>1, <3>2
    <3>4. Todo(p)[k[p]].id \in Ids
      BY <3>1, <3>3, MemberFacts, Queue, GoodRecs
    <3> QED BY <1>3, <3>4 DEF DownDelete, TerminateUnheard
  <2> QED BY <1>3, <2>1, NoneNew, KeepsPlaced, PlacedMem DEF Addressed
<1>4. CASE DownSaveRemaining(p) \/ DownDeleted(p) \/ DownWait(p) \/ DownVolume(p) \/ DownRemove(p)
  <2>1. /\ inst' = inst /\ kept' = kept /\ file' \in {file, kept[p], NoFile}
    BY <1>4 DEF DownSaveRemaining, DownDeleted, DownWait, DownVolume, DownRemove, Write, WriteFails
  <2>2. pc'[p] \in {"wait", "volumes", "remove", "ok", "err"}
    <3>1. CASE DownSaveRemaining(p) \/ DownDeleted(p) \/ DownRemove(p)
      BY <1>1, <3>1 DEF DownSaveRemaining, DownDeleted, DownRemove, Goto, Arrays
    <3>2. CASE DownWait(p)
      BY <1>1, <3>2 DEF DownWait, At, Goto, Arrays
    <3>3. CASE DownVolume(p)
      BY <1>1, <3>3 DEF DownVolume, NextVol, At, Goto, Arrays
    <3> QED BY <1>4, <3>1, <3>2, <3>3
  <2>3. AddressOK(p)'
    BY <1>1, <1>2, <2>1, <2>2, AddressStays DEF InReplace
  <2> QED BY <2>1, <2>3, NoneNew, PlacedMem DEF Addressed
<1> QED BY <1>3, <1>4 DEF Down

LEMMA ReplaceRecordAddressed ==
    ASSUME Inv, OneAddress, CloudOK', Progress, NEW p \in Procs, ReplaceRecord(p)
    PROVE  Addressed(p)
<1>1. pc[p] = "record"
  BY DEF ReplaceRecord, At
<1>2. PICK s, j, a : s = mem[p] /\ j = k[p] /\ a = nid[p]
  OBVIOUS
<1>3. /\ Arrays /\ s \in States /\ StateOK(s) /\ j \in 1..Len(s.ms) /\ MemberOK(s.ms[j])
      /\ a \in Ids /\ a # 0 /\ Known(a)
      /\ s.ms[j].vol # 0 => Holds(a, s.ms[j].vol)
  BY <1>1, <1>2, ReplaceFacts DEF InReplace, ReplaceOK, Holding, StateOK
<1>4. PICK r \in Records : r = Rec(a, s.ms[j].vol) /\ r.id = a /\ r.vol = s.ms[j].vol
  BY <1>3, MakeRecord DEF MemberOK, Records
<1>5. PICK t : t = [s EXCEPT !.ms[j].id = a]
  OBVIOUS
<1>6. t = [s EXCEPT !.ms = [s.ms EXCEPT ![j] = r]]
  BY <1>3, <1>4, <1>5, ChangingInstance
<1>7. /\ t \in States /\ Len(t.ms) = Len(s.ms) /\ t.cs = s.cs
      /\ t.ms[j] = r /\ \A n \in 1..Len(s.ms) : n # j => t.ms[n] = s.ms[n]
  BY <1>3, <1>6, Changing
<1>8. StateOK(t)
  <2>1. MemberOK(r)
    BY <1>3, <1>4 DEF MemberOK
  <2> QED BY <1>3, <1>7, <2>1 DEF StateOK
<1>9. AddressOK(p) /\ inst[a].ip = j
  BY <1>2, <1>3 DEF OneAddress, AddressOK
<1>10. Placed(t)
  BY <1>2, <1>4, <1>7, <1>9 DEF AddressOK, Placed
<1>11. Placed(t)'
  BY <1>8, <1>10, PlacedStays
<1>12. /\ inst' = inst /\ mem'[p] = t /\ nid'[p] = 0 /\ file' \in {file, t}
       /\ op'[p] = op[p] /\ kept'[p] = kept[p] /\ k'[p] = j /\ pc'[p] \in {"resolve", "err"}
  BY <1>2, <1>3, <1>5 DEF ReplaceRecord, ReplaceRest, Rest, SetMem, SetNid, Write, WriteFails, Goto,
                          Arrays
<1>13. Placed(mem[p])' /\ Placed(kept[p])' /\ (file # NoFile => Placed(file))'
  BY <1>11, <1>12, PlacedIs, PlacedMem
<1>14. AddressOK(p)'
  BY <1>4, <1>7, <1>9, <1>12, <1>13 DEF AddressOK, Old, MemOf
<1> QED BY <1>12, <1>13, <1>14, NoneNew DEF Addressed

LEMMA ReplaceAddressed ==
    ASSUME ReplacingOnly, Inv, OneAddress, CloudOK', Progress, NEW p \in Procs, Replace(p)
    PROVE  Addressed(p)
<1>1. pc[p] \in InReplace
  BY DEF Replace, ReplaceSpec, ReplaceTerminate, ReplaceWait, ReplaceLaunch, ReplaceAttach,
         ReplaceAttachFails, ReplaceRecord, ReplaceResolve, ReplaceRewrite, At, InReplace
<1>2. Arrays /\ Old(p) \in Ids /\ k[p] \in 1..Len(mem[p].ms) /\ AddressOK(p)
  BY <1>1, ReplaceFacts DEF OneAddress
<1>3. CASE \E x : /\ Launch(x, FALSE) /\ x = inst[Old(p)].ip /\ IpHolders(x) = {} /\ pc[p] = "launch"
                  /\ SetNid(p, NewId) /\ Goto(p, IF rv[p] = 0 THEN "record" ELSE "attach")
                  /\ ReplaceRest(p) /\ UNCHANGED <<file, mem>>
  <2>1. PICK x : /\ Launch(x, FALSE) /\ x = inst[Old(p)].ip /\ IpHolders(x) = {}
    BY <1>3
  <2>2. PICK n \in Ids : n = NewId
    BY <2>1, FreshId DEF Launch, Inv
  <2>3. /\ nid'[p] = n /\ pc'[p] \in {"record", "attach"} /\ UNCHANGED <<op, file, mem, kept, k>>
    BY <1>2, <1>3, <2>2 DEF SetNid, Goto, ReplaceRest, Rest, Arrays
  <2>4. inst'[n].ip = x
    BY <2>1, <2>2 DEF Launch, Inv, CloudOK
  <2>5. inst'[Old(p)].ip = x /\ x = k[p]
    BY <1>1, <1>2, <2>1, ReplaceFacts DEF AddressOK, Progress, InstProgress
  <2>6. Apart'
    BY <2>1, ApartLaunch DEF Inv, OneAddress
  <2>7. AddressOK(p)'
    BY <1>2, <2>3, <2>4, <2>5, PlacedMem DEF AddressOK, Old, MemOf
  <2> QED BY <2>3, <2>6, <2>7, PlacedMem DEF Addressed
<1>4. CASE \E x : /\ LaunchUnheard(p, x, FALSE) /\ x = inst[Old(p)].ip /\ IpHolders(x) = {}
                  /\ Rest(p) /\ UNCHANGED <<kept, k, file, mem, nid>>
  <2>1. PICK x : Launch(x, FALSE) /\ x = inst[Old(p)].ip /\ IpHolders(x) = {}
    BY <1>4 DEF LaunchUnheard
  <2>2. pc'[p] = "err" /\ UNCHANGED <<op, file, mem, kept, k, nid>>
    BY <1>2, <1>4 DEF LaunchUnheard, Goto, Rest, Arrays
  <2>3. Apart'
    BY <2>1, ApartLaunch DEF Inv, OneAddress
  <2>4. AddressOK(p)'
    BY <1>1, <2>2, AddressStays DEF InReplace
  <2> QED BY <2>2, <2>3, <2>4, PlacedMem DEF Addressed
<1>5. CASE \/ ReplaceSpec(p) \/ ReplaceTerminate(p) \/ ReplaceWait(p) \/ ReplaceAttach(p)
           \/ ReplaceAttachFails(p) \/ ReplaceResolve(p) \/ ReplaceRewrite(p)
           \/ ReplaceCallFails(p) \/ ReplaceGivesUp(p)
  <2>1. UNCHANGED <<op, mem, kept, k>> /\ file' \in {file, mem[p]}
    BY <1>5 DEF ReplaceSpec, ReplaceTerminate, ReplaceWait, ReplaceAttach, ReplaceAttachFails,
                ReplaceResolve, ReplaceRewrite, ReplaceCallFails, ReplaceGivesUp, ReplaceRest, Rest,
                Write, WriteFails
  <2>2. nid'[p] \in {0, nid[p]} /\ pc'[p] \in InReplace \cup {"boot", "err"}
    BY <1>2, <1>5 DEF ReplaceSpec, ReplaceTerminate, ReplaceWait, ReplaceAttach, ReplaceAttachFails,
                ReplaceResolve, ReplaceRewrite, ReplaceCallFails, ReplaceGivesUp, SetNid, Goto, Arrays,
                InReplace
  <2>3. inst' = inst \/ Terminate(Old(p)) \/ (nid[p] \in Ids /\ Terminate(nid[p]))
    <3>1. pc[p] = "attach" => nid[p] \in Ids
      BY <1>1, ReplaceFacts DEF Holding
    <3> QED BY <1>5, <3>1 DEF ReplaceSpec, ReplaceTerminate, ReplaceWait, ReplaceAttach,
                ReplaceAttachFails, ReplaceResolve, ReplaceRewrite, TerminateUnheard, ReplaceCallFails,
                ReplaceGivesUp, At
  <2>4. AddressOK(p)'
    BY <1>1, <2>1, <2>2, AddressStays DEF InReplace
  <2>5. Apart'
    BY <1>2, <2>3, NoneNew
  <2> QED BY <2>1, <2>4, <2>5, PlacedMem DEF Addressed
<1> QED BY <1>3, <1>4, <1>5, ReplaceRecordAddressed DEF Replace, ReplaceLaunch, At

LEMMA BeginsAddressed ==
    ASSUME ReplacingOnly, Inv, OneAddress, CloudOK', Progress, NEW p \in Procs, Begins(p)
    PROVE  Addressed(p)
<1>1. Arrays /\ ProcOK(p) /\ AddressOK(p) /\ file' = file /\ inst' = inst
  BY DEF Inv, Good, OneAddress, Begins, StartUpCmd, StartDown, StartReplace, Start, Interrupt, Crash
<1>2. Apart' /\ (file # NoFile => Placed(file))'
  BY <1>1, NoneNew, PlacedMem
<1>3. ~StartUpCmd(p)
  BY DEF StartUpCmd, Start, ReplacingOnly
<1>4. CASE StartDown(p)
  <2>1. /\ op'[p] \in Ops /\ nid'[p] = 0 /\ kept'[p] = Empty /\ k'[p] = 1
        /\ pc'[p] \in {"ok", "delete", "err"} /\ (mem'[p] = Empty \/ (mem'[p] = file /\ file # NoFile))
    BY <1>1, <1>4 DEF StartDown, Start, Goto, SetNid, SetK, SetMem, Readable, Arrays
  <2>2. Len(Empty.ms) = 0
    BY EmptyState
  <2>3. AddressOK(p)'
    BY <2>1, <2>2, PlacedMem DEF AddressOK, InReplace
  <2> QED BY <1>2, <2>3 DEF Addressed
<1>5. ASSUME NEW m \in 1..Members, StartReplace(p, m) PROVE Addressed(p)
  <2>1. /\ op'[p] \in Ops /\ nid'[p] = 0 /\ kept'[p] = Empty /\ k'[p] = m /\ mem'[p] = file
        /\ file # NoFile /\ m \in 1..Len(file.ms)
        /\ pc'[p] = "err" \/ (pc'[p] = "spec" /\ inst[file.ms[m].id].st = "running")
    BY <1>1, <1>5 DEF StartReplace, Start, Goto, SetNid, SetK, SetMem, Readable, Arrays, MemOf
  <2>2. pc'[p] = "spec" => inst'[file.ms[m].id].ip = m
    BY <1>1, <2>1 DEF OneAddress, Placed, Live
  <2>3. AddressOK(p)'
    BY <2>1, <2>2, PlacedMem DEF AddressOK, InReplace, Old, MemOf
  <2> QED BY <1>2, <2>3 DEF Addressed
<1>6. CASE Interrupt(p)
  BY <1>2, <1>6, AddressUndisturbed DEF Interrupt, Same, Addressed
<1>7. CASE Crash(p)
  <2>1. /\ op'[p] = op[p] /\ nid'[p] = 0 /\ kept'[p] = kept[p] /\ k'[p] = k[p] /\ mem'[p] = mem[p]
        /\ pc'[p] = "idle"
    BY <1>1, <1>7 DEF Crash, Goto, SetNid, Arrays
  <2>2. AddressOK(p)'
    BY <2>1, AddressStays DEF InReplace
  <2> QED BY <1>2, <2>2 DEF Addressed
<1> QED BY <1>3, <1>4, <1>5, <1>6, <1>7 DEF Begins

LEMMA AddressStep ==
    ASSUME ReplacingOnly, Inv, OneAddress, [Next]_vars
    PROVE  OneAddress'
<1>1. CloudOK' /\ Progress
  BY NextCloud, CloudStays DEF Inv
<1>2. Calm' /\ (MaxFaults = 0 => \A p \in Procs : ~Fails(p))
  BY Calmly DEF OneAddress
<1>3. CASE CloudActs
  <2>1. file' = file /\ \A p \in Procs : Same(p)
    BY <1>3 DEF CloudActs, Ec2Terminated, Ec2Purges, Cloud, procVars, vars, Same
  <2>2. \A p \in Procs : AddressOK(p)'
    BY <1>1, <2>1, AddressUndisturbed
  <2>3. Apart'
    <3>1. \A i \in Ids : Known(i)' => Known(i)
      BY <1>3 DEF CloudActs, Ec2Terminated, Ec2Purges, vars, Known, Inv, CloudOK, InstTypes
    <3> QED BY <1>1, <3>1, ApartStays DEF Inv, OneAddress
  <2>4. (file # NoFile => Placed(file))'
    <3>1. ASSUME NEW s, s = file, s # NoFile PROVE Placed(s)'
      BY <1>1, <3>1, PlacedStays DEF Inv, FileOK, OneAddress
    <3> QED BY <2>1, <3>1 DEF Placed, Live
  <2> QED BY <1>2, <2>2, <2>3, <2>4 DEF OneAddress
<1>4. ASSUME NEW p \in Procs, Acts(p) PROVE OneAddress'
  <2>1. Addressed(p)
    BY <1>1, <1>2, <1>4, UpAddressed, DownAddressed, ReplaceAddressed, BeginsAddressed DEF Acts
  <2>2. \A q \in Procs \ {p} : AddressOK(q)'
    BY <1>1, <1>4, OnlyActs, AddressUndisturbed DEF Inv, Only
  <2>3. \A q \in Procs : AddressOK(q)'
    <3> SUFFICES ASSUME NEW q \in Procs PROVE AddressOK(q)'
      OBVIOUS
    <3>1. CASE q = p
      BY <2>1, <3>1 DEF Addressed
    <3>2. CASE q # p
      BY <2>2, <3>2
    <3> QED BY <3>1, <3>2
  <2> QED BY <1>2, <2>1, <2>3 DEF Addressed, OneAddress
<1> QED BY <1>3, <1>4, NextCases

LEMMA AddressInit == Init => OneAddress
<1> SUFFICES ASSUME Init PROVE OneAddress
  OBVIOUS
<1>1. Apart
  BY Numbers DEF Init, Apart, Live, NoInst, Ids
<1>2. Calm
  BY DEF Init, Calm
<1>3. ASSUME file # NoFile PROVE Placed(file)
  <2>1. StartUp /\ file = UpFile
    BY <1>3 DEF Init
  <2>2. Len(file.ms) = Members /\ \A j \in 1..Members : file.ms[j].id = j
    BY <2>1, Numbers DEF UpFile, State, Rec
  <2>3. \A j \in 1..Members : j \in Ids /\ inst[j].ip = j
    BY <2>1, CountAssumption DEF Init, Ids
  <2> QED BY <2>2, <2>3, Numbers DEF Placed
<1>4. ASSUME NEW p \in Procs PROVE AddressOK(p)
  <2>1. pc[p] = "idle" /\ op[p] = "none" /\ mem[p] = Empty /\ kept[p] = Empty /\ nid[p] = 0
    BY DEF Init
  <2>2. Len(Empty.ms) = 0
    BY EmptyState
  <2>3. Placed(Empty)
    BY <2>2, Numbers DEF Placed
  <2> QED BY <2>1, <2>3 DEF AddressOK, InReplace
<1> QED BY <1>1, <1>2, <1>3, <1>4 DEF OneAddress

\* However many replacements of a member run at the same time, at most one of
\* its recorded machine and their machines is running: all of them would have
\* the member's address.
THEOREM OneMachine ==
    ASSUME ReplacingOnly
    PROVE  Spec => []OneMachinePerMember
<1>1. Inv /\ OneAddress => OneMachinePerMember
  <2> SUFFICES ASSUME Inv, OneAddress, NEW m \in 1..Members, NEW S,
                      S = {i \in Ids : Running(i)
                             /\ \/ file # NoFile /\ m <= Len(file.ms) /\ file.ms[m].id = i
                                \/ \E p \in Procs : op[p] = "replace" /\ k[p] = m /\ nid[p] = i}
               PROVE  Cardinality(S) <= 1
    BY DEF OneMachinePerMember
  <2>1. m \in Nat /\ m # 0
    BY Numbers
  <2>2. ASSUME NEW i \in S PROVE i \in Ids /\ Live(i) /\ inst[i].ip = m
    <3>1. i \in Ids /\ Running(i) /\ Live(i)
      BY <2>2 DEF Running, Live
    <3>2. CASE file # NoFile /\ m <= Len(file.ms) /\ file.ms[m].id = i
      <4>1. file \in States /\ Placed(file)
        BY <3>2 DEF Inv, FileOK, StateOK, OneAddress
      <4>2. m \in 1..Len(file.ms)
        BY <3>2, <4>1, StateFields
      <4> QED BY <3>1, <3>2, <4>1, <4>2 DEF Placed
    <3>3. CASE \E p \in Procs : op[p] = "replace" /\ k[p] = m /\ nid[p] = i
      BY <3>1, <3>3, NonZero DEF OneAddress, AddressOK
    <3> QED BY <2>2, <3>1, <3>2, <3>3
  <2>3. \A i, j \in S : i = j
    BY <2>1, <2>2 DEF OneAddress, Apart
  <2>4. CASE S = {}
    <3>1. Cardinality(S) = 0
      BY <2>4, FS_EmptySet
    <3> QED BY <3>1
  <2>5. CASE S # {}
    <3>1. PICK i : i \in S
      BY <2>5
    <3>2. S = {i}
      BY <2>3, <3>1
    <3>3. Cardinality(S) = 1
      BY <3>2, FS_Singleton, Zenon
    <3> QED BY <3>3
  <2> QED BY <2>4, <2>5
<1>2. Inv /\ OneAddress /\ [Next]_vars => OneAddress'
  BY AddressStep
<1> QED BY <1>1, <1>2, AddressInit, Invariant, PTL DEF Spec
=============================================================================

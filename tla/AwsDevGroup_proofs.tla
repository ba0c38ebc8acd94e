------------------------ MODULE AwsDevGroup_proofs ------------------------
(***************************************************************************)
(* The owner token keeps dev groups apart, for any number of machines,     *)
(* accounts, "up" commands, boxes and faults.                              *)
(*                                                                         *)
(* The invariant says for every stage of a command what exists for its     *)
(* token (ProcOK), and for everything that exists who has it on file and   *)
(* that its template holds the name (CloudOK).  The stages matter because  *)
(* a check and the call that relies on it are two steps: between them the  *)
(* other machines run, and what has not changed is the point.              *)
(***************************************************************************)
EXTENDS AwsDevGroup, TLAPS

Files == [token : Tokens, acct : Accounts]
Groups == [token : Tokens, desired : 0..MaxBoxes, deleting : BOOLEAN]
Counts == [coming : Nat, live : Nat, dying : Nat]
Pcs == {"idle", "template", "templateLookup", "group", "groupLookup", "groupTaken", "legacy",
        "downGroup", "downDelete", "downWait", "downSweep", "downTemplate", "downRemove"}
Procs == [pc : Pcs, token : Tokens, acct : Accounts \cup {None}, count : 0..MaxBoxes]

\* Every variable keeps its type.
TInv ==
  /\ file \in [Machines -> Files \cup {None}]
  /\ proc \in [Machines -> Procs]
  /\ template \in [Accounts -> Tokens \cup {None}]
  /\ group \in [Accounts -> Groups \cup {None}]
  /\ boxes \in [Tokens -> Counts]
  /\ owner \in [Tokens -> Machines \cup {None}]
  /\ unsure \subseteq Tokens

Holds(m, t) == file[m] # None /\ file[m].token = t
NoGroup(t) == \A a \in Accounts : ~GroupTokenIs(a, t)
NoTemplate(t) == \A a \in Accounts : template[a] # t
Accounted(t) == t \in unsure \/ \E m \in Machines : Holds(m, t)

\* A token on file was drawn by that machine, so no two machines share one.
FilesOwned ==
  /\ \A m \in Machines : file[m] # None => owner[file[m].token] = m
  /\ \A t \in unsure : owner[t] # None

\* A group whose token is on file has its name held by its template, in the
\* account on file.
GroupHeld(t) ==
  \A a \in Accounts : GroupTokenIs(a, t) =>
    /\ t # Legacy /\ Accounted(t)
    /\ \A m \in Machines : Holds(m, t) => file[m].acct = a /\ template[a] = t

TemplateHeld(t) ==
  \A a \in Accounts : template[a] = t =>
    /\ t # Legacy /\ Accounted(t)
    /\ \A m \in Machines : Holds(m, t) => file[m].acct = a

\* A launch in progress belongs to a group that is still there.
BoxesHeld(t) ==
  /\ boxes[t] # NoBoxes => Accounted(t)
  /\ boxes[t].coming > 0 => ~NoGroup(t)

TokenOK(t) == GroupHeld(t) /\ TemplateHeld(t) /\ BoxesHeld(t)

CloudOK == FilesOwned /\ \A t \in Tokens : TokenOK(t)

Untouched(t) == NoGroup(t) /\ boxes[t] = NoBoxes

\* What a command relies on at each of its stages.
StageOK(m, t, a) ==
  /\ At(m, "template") => NoTemplate(t)
  /\ proc[m].pc \in {"template", "templateLookup", "group"} => Untouched(t)
  /\ At(m, "groupLookup") => Untouched(t) \/ (GroupTokenIs(a, t) /\ ~group[a].deleting)
  /\ At(m, "groupTaken") => Untouched(t) \/ t \in unsure
  /\ proc[m].pc \in {"downDelete", "downWait"} =>
       template[a] = t /\ (group[a] = None \/ GroupTokenIs(a, t))
  /\ At(m, "downSweep") => NoGroup(t)
  /\ proc[m].pc \in {"downTemplate", "downRemove"} => Untouched(t)
  /\ At(m, "downRemove") => NoTemplate(t)

ProcOK(m) ==
  ~At(m, "idle") =>
    /\ Holds(m, proc[m].token) /\ file[m].acct = proc[m].acct /\ proc[m].acct \in Accounts
    /\ proc[m].token = Legacy => proc[m].pc \in {"legacy", "downRemove"}
    /\ At(m, "legacy") => proc[m].token = Legacy
    /\ StageOK(m, proc[m].token, proc[m].acct)

IInv == TInv /\ CloudOK /\ \A m \in Machines : ProcOK(m)

USE DevAssumption, NoneAssumption

LEMMA TokenFacts == Legacy \in Tokens /\ MaxUps \in Nat /\ MaxBoxes \in Nat
BY DEF Legacy, Tokens

LEMMA InitIInv == Init => IInv
<1> SUFFICES ASSUME Init PROVE IInv OBVIOUS
<1>n. NoBoxes \in Counts /\ NoBoxes.coming = 0 /\ [NoBoxes EXCEPT !.live = 1] \in Counts
      /\ [NoBoxes EXCEPT !.live = 1].coming = 0
  BY DEF NoBoxes, Counts
<1>i. Idle \in Procs /\ Idle.pc = "idle" BY TokenFacts DEF Idle, Procs, Pcs
<1>g. \A a \in Accounts, t \in Tokens : ~GroupTokenIs(a, t)
  BY DEF Init, GroupTokenIs
<1>f. /\ \A m \in Machines : file[m] \in Files \cup {None}
      /\ \A m \in Machines : file[m] # None => m = OldUser /\ file[m].token = Legacy
      /\ OldUser # None => Holds(OldUser, Legacy)
      /\ file \in [Machines -> Files \cup {None}]
  BY TokenFacts DEF Init, Files, Holds
<1>b. \A t \in Tokens : /\ boxes[t] \in Counts /\ boxes[t].coming = 0
                        /\ boxes[t] # NoBoxes => t = Legacy /\ OldUser # None
  BY <1>n DEF Init
<1>1. TInv
  BY <1>n, <1>i, <1>f DEF Init, TInv
<1>2. FilesOwned
  BY <1>f, TokenFacts DEF Init, FilesOwned
<1>3. \A t \in Tokens : GroupHeld(t) /\ TemplateHeld(t)
  BY <1>g DEF GroupHeld, TemplateHeld, Init
<1>4. \A t \in Tokens : BoxesHeld(t)
  BY <1>b, <1>f, TokenFacts DEF BoxesHeld, Accounted, Init
<1>5. \A m \in Machines : ProcOK(m)
  BY <1>i DEF Init, ProcOK, At
<1> QED BY <1>1, <1>2, <1>3, <1>4, <1>5 DEF IInv, CloudOK, TokenOK

-----------------------------------------------------------------------------
(* How a command moves on. *)

LEMMA GotoFacts ==
  ASSUME TInv, NEW m \in Machines, NEW x \in Pcs, Goto(m, x)
  PROVE  \E p \in Procs : /\ proc' = [proc EXCEPT ![m] = p]
                          /\ p.pc = x /\ p.token = proc[m].token /\ p.acct = proc[m].acct
<1> DEFINE q == [proc[m] EXCEPT !.pc = x]
<1>1. proc[m] \in Procs /\ proc' = [proc EXCEPT ![m] = q] BY DEF TInv, Goto
<1>2. q \in Procs /\ q.pc = x /\ q.token = proc[m].token /\ q.acct = proc[m].acct
  BY <1>1 DEF Procs
<1> QED BY <1>1, <1>2

LEMMA StopFacts ==
  ASSUME NEW m \in Machines, Stop(m)
  PROVE  \E p \in Procs : proc' = [proc EXCEPT ![m] = p] /\ p.pc = "idle"
<1>1. Idle \in Procs /\ Idle.pc = "idle" BY TokenFacts DEF Idle, Procs, Pcs
<1> QED BY <1>1 DEF Stop

\* No two machines have the same token on file.
LEMMA HoldsUnique ==
  ASSUME IInv, NEW m \in Machines, NEW q \in Machines, NEW t, Holds(m, t), Holds(q, t)
  PROVE  m = q
BY DEF IInv, CloudOK, FilesOwned, Holds

\* A command that changes nothing but its own stage, and possibly learns that
\* a create of its own was taken for someone else's.
LEMMA ProcMove ==
  ASSUME IInv, NEW m \in Machines, NEW p \in Procs, proc' = [proc EXCEPT ![m] = p],
         UNCHANGED <<file, template, group, boxes, owner>>,
         unsure \subseteq unsure', unsure' \subseteq Tokens, \A t \in unsure' : owner[t] # None,
         ProcOK(m)'
  PROVE  IInv'
<1>1. TInv' BY DEF IInv, TInv
<1>2. \A t \in Tokens : Accounted(t) => Accounted(t)' BY DEF Accounted, Holds
<1>3. CloudOK'
  <2>1. FilesOwned' BY DEF IInv, CloudOK, FilesOwned
  <2>2. ASSUME NEW t \in Tokens PROVE TokenOK(t)'
    <3>0. TokenOK(t) BY DEF IInv, CloudOK
    <3>1. GroupHeld(t)' BY <3>0, <1>2 DEF TokenOK, GroupHeld, GroupTokenIs, Holds
    <3>2. TemplateHeld(t)' BY <3>0, <1>2 DEF TokenOK, TemplateHeld, Holds
    <3>3. BoxesHeld(t)' BY <3>0, <1>2 DEF TokenOK, BoxesHeld, NoGroup, GroupTokenIs
    <3> QED BY <3>1, <3>2, <3>3 DEF TokenOK
  <2> QED BY <2>1, <2>2 DEF CloudOK
<1>4. ASSUME NEW q \in Machines, q # m PROVE ProcOK(q)'
  <2>1. proc'[q] = proc[q] BY <1>4 DEF IInv, TInv
  <2>2. ProcOK(q) BY DEF IInv
  <2> QED BY <2>1, <2>2
          DEF ProcOK, StageOK, At, Holds, NoTemplate, NoGroup, Untouched, GroupTokenIs
<1> QED BY <1>1, <1>3, <1>4 DEF IInv

\* What holds for a command that is not idle.
LEMMA BusyFacts ==
  ASSUME IInv, NEW m \in Machines, ~At(m, "idle")
  PROVE  /\ proc[m] \in Procs /\ proc[m].token \in Tokens /\ proc[m].acct \in Accounts
         /\ Holds(m, proc[m].token) /\ file[m].acct = proc[m].acct
         /\ owner[proc[m].token] = m
         /\ proc[m].token = Legacy => proc[m].pc \in {"legacy", "downRemove"}
         /\ At(m, "legacy") => proc[m].token = Legacy
         /\ StageOK(m, proc[m].token, proc[m].acct)
<1>1. ProcOK(m) /\ proc[m] \in Procs BY DEF IInv, TInv
<1> QED BY <1>1 DEF ProcOK, Procs, IInv, CloudOK, FilesOwned, Holds

LEMMA CallFailsIInv == ASSUME IInv, NEW m \in Machines, CallFails(m) PROVE IInv'
<1>1. PICK p \in Procs : proc' = [proc EXCEPT ![m] = p] /\ p.pc = "idle"
  BY StopFacts DEF CallFails
<1>2. UNCHANGED <<file, template, group, boxes, owner, unsure>> BY DEF CallFails, cloud
<1>3. ProcOK(m)' BY <1>1 DEF IInv, TInv, ProcOK, At
<1>4. unsure \subseteq Tokens /\ \A t \in unsure : owner[t] # None
  BY DEF IInv, TInv, CloudOK, FilesOwned
<1> QED BY <1>1, <1>2, <1>3, <1>4, ProcMove

LEMMA StartDownIInv ==
  ASSUME IInv, NEW m \in Machines, NEW a \in Accounts, StartDown(m, a) PROVE IInv'
<1>f. file[m] \in Files /\ file[m] # None /\ file[m].acct = a /\ file[m].token \in Tokens
  BY DEF StartDown, IInv, TInv, Files
<1>1. PICK p \in Procs :
        /\ proc' = [proc EXCEPT ![m] = p] /\ p.token = file[m].token /\ p.acct = a
        /\ p.pc = IF file[m].token = Legacy THEN "legacy" ELSE "downGroup"
  <2> DEFINE q == [pc |-> IF file[m].token = Legacy THEN "legacy" ELSE "downGroup",
                   token |-> file[m].token, acct |-> a, count |-> 0]
  <2>1. q \in Procs BY <1>f, TokenFacts DEF Procs, Pcs
  <2> QED BY <2>1 DEF StartDown
<1>2. UNCHANGED <<file, template, group, boxes, owner, unsure>> BY DEF StartDown, cloud
<1>3. ProcOK(m)'
  <2>1. proc'[m] = p BY <1>1 DEF IInv, TInv
  <2> QED BY <2>1, <1>1, <1>2, <1>f DEF ProcOK, At, Holds, StageOK
<1>4. unsure \subseteq Tokens /\ \A t \in unsure : owner[t] # None
  BY DEF IInv, TInv, CloudOK, FilesOwned
<1> QED BY <1>1, <1>2, <1>3, <1>4, ProcMove

-----------------------------------------------------------------------------
(* What a step leaves of the other tokens. *)

\* A step of m that touches nothing of any token but s.
LEMMA Frame ==
  ASSUME IInv, NEW m \in Machines, NEW s \in Tokens,
         \A q \in Machines : q # m => proc'[q] = proc[q] /\ file'[q] = file[q],
         \A t \in Tokens : t # s => ~Holds(m, t) /\ ~Holds(m, t)' /\ boxes'[t] = boxes[t],
         \A q \in Machines : q # m => ~Holds(q, s),
         \A t \in Tokens, a \in Accounts : t # s =>
           /\ template'[a] = t <=> template[a] = t
           /\ GroupTokenIs(a, t)' <=> GroupTokenIs(a, t)
           /\ GroupTokenIs(a, t) => group'[a] = group[a]
           /\ template[a] = t /\ group[a] = None => group'[a] = None,
         unsure \subseteq unsure',
         TInv', FilesOwned', TokenOK(s)', ProcOK(m)'
  PROVE  IInv'
<1>1. ASSUME NEW t \in Tokens, t # s PROVE TokenOK(t)'
  <2>0. TokenOK(t) BY DEF IInv, CloudOK
  <2>h. \A q \in Machines : /\ Holds(q, t)' <=> Holds(q, t)
                            /\ Holds(q, t) => file'[q] = file[q]
    BY <1>1 DEF Holds
  <2>a. Accounted(t) => Accounted(t)' BY <2>h DEF Accounted
  <2>1. GroupHeld(t)' BY <2>0, <2>h, <2>a, <1>1 DEF TokenOK, GroupHeld
  <2>2. TemplateHeld(t)' BY <2>0, <2>h, <2>a, <1>1 DEF TokenOK, TemplateHeld
  <2>3. BoxesHeld(t)' BY <2>0, <2>a, <1>1 DEF TokenOK, BoxesHeld, NoGroup
  <2> QED BY <2>1, <2>2, <2>3 DEF TokenOK
<1>2. ASSUME NEW q \in Machines, q # m PROVE ProcOK(q)'
  <2>0. ProcOK(q) /\ proc'[q] = proc[q] /\ file'[q] = file[q] BY <1>2 DEF IInv
  <2>1. CASE At(q, "idle") BY <2>0, <2>1 DEF ProcOK, At
  <2>2. CASE ~At(q, "idle")
    <3>1. PICK t \in Tokens, b \in Accounts :
            /\ proc[q].token = t /\ proc[q].acct = b
            /\ t # s /\ Holds(q, t)' /\ StageOK(q, t, b)
      BY <2>0, <2>2, <1>2 DEF ProcOK, Holds, IInv, TInv, Procs
    <3>2. NoTemplate(t) => NoTemplate(t)' BY <3>1 DEF NoTemplate
    <3>3. NoGroup(t) => NoGroup(t)' BY <3>1 DEF NoGroup
    <3>4. Untouched(t) => Untouched(t)' BY <3>1, <3>3 DEF Untouched
    <3>5. template[b] = t /\ (group[b] = None \/ GroupTokenIs(b, t))
           => template'[b] = t /\ (group'[b] = None \/ GroupTokenIs(b, t)')
      BY <3>1
    <3>6. GroupTokenIs(b, t) /\ ~group[b].deleting => GroupTokenIs(b, t)' /\ ~group'[b].deleting
      BY <3>1
    <3>7. proc'[q].token = t /\ proc'[q].acct = b BY <2>0, <3>1
    <3>8. StageOK(q, t, b)'
      BY <2>0, <3>1, <3>2, <3>3, <3>4, <3>5, <3>6, <3>7 DEF StageOK, At
    <3> QED BY <2>0, <2>2, <3>1, <3>7, <3>8 DEF ProcOK, At
  <2> QED BY <2>1, <2>2
<1>3. CloudOK' BY <1>1 DEF CloudOK
<1> QED BY <1>2, <1>3 DEF IInv

\* A step that changes only the boxes, and those of a token without a group
\* only when there are some.
LEMMA BoxesMove ==
  ASSUME IInv, boxes' \in [Tokens -> Counts],
         UNCHANGED <<file, proc, template, group, owner, unsure>>,
         \A t \in Tokens : Untouched(t) => boxes'[t] = NoBoxes,
         \A t \in Tokens : boxes'[t].coming > 0 => boxes[t].coming > 0 \/ ~NoGroup(t)
  PROVE  IInv'
<1>1. TInv' BY DEF IInv, TInv
<1>2. ASSUME NEW t \in Tokens PROVE TokenOK(t)'
  <2>0. TokenOK(t) BY DEF IInv, CloudOK
  <2>a. Accounted(t)' <=> Accounted(t) BY DEF Accounted, Holds
  <2>g. NoGroup(t)' <=> NoGroup(t) BY DEF NoGroup, GroupTokenIs
  <2>1. GroupHeld(t)' BY <2>0, <2>a DEF TokenOK, GroupHeld, GroupTokenIs, Holds
  <2>2. TemplateHeld(t)' BY <2>0, <2>a DEF TokenOK, TemplateHeld, Holds
  <2>3. boxes[t] # NoBoxes \/ ~NoGroup(t) => Accounted(t)
    BY <2>0 DEF TokenOK, BoxesHeld, NoGroup, GroupHeld
  <2>4. BoxesHeld(t)' BY <2>0, <2>3, <2>a, <2>g DEF TokenOK, BoxesHeld, Untouched
  <2> QED BY <2>1, <2>2, <2>4 DEF TokenOK
<1>3. FilesOwned' BY DEF IInv, CloudOK, FilesOwned
<1>4. ASSUME NEW q \in Machines PROVE ProcOK(q)'
  <2>1. ProcOK(q) /\ (~At(q, "idle") => proc[q].token \in Tokens) BY DEF IInv, TInv, Procs
  <2>2. \A t \in Tokens : Untouched(t) => Untouched(t)' BY DEF Untouched, NoGroup, GroupTokenIs
  <2> QED BY <2>1, <2>2
          DEF ProcOK, StageOK, At, Holds, NoTemplate, NoGroup, GroupTokenIs
<1> QED BY <1>1, <1>2, <1>3, <1>4 DEF IInv, CloudOK

\* A command removes its state file and ends.
LEMMA FileGone ==
  ASSUME IInv, NEW m \in Machines, ~At(m, "idle"), NEW s \in Tokens, s = proc[m].token,
         NEW p \in Procs, p.pc = "idle",
         proc' = [proc EXCEPT ![m] = p], file' = [file EXCEPT ![m] = None],
         UNCHANGED <<group, boxes, owner>>,
         unsure \subseteq unsure', unsure' \subseteq unsure \cup {s},
         template' \in [Accounts -> Tokens \cup {None}],
         \A a \in Accounts : template'[a] = template[a] \/ (template[a] = s /\ template'[a] = None),
         (Untouched(s) /\ \A a \in Accounts : template'[a] # s) \/ s \in unsure'
  PROVE  IInv'
<1>0. Holds(m, s) /\ owner[s] = m BY BusyFacts
<1>1. TInv' BY DEF IInv, TInv
<1>f. file'[m] = None /\ \A q \in Machines : q # m => file'[q] = file[q] BY DEF IInv, TInv
<1>p. proc'[m] = p /\ \A q \in Machines : q # m => proc'[q] = proc[q] BY DEF IInv, TInv
<1>2. FilesOwned' BY <1>0, <1>f DEF IInv, CloudOK, FilesOwned
<1>3. \A q \in Machines : ~Holds(q, s)' BY <1>0, <1>f, HoldsUnique DEF Holds
<1>4. TokenOK(s)'
  <2>0. TokenOK(s) BY DEF IInv, CloudOK
  <2>1. CASE s \in unsure'
    <3>1. Accounted(s)' BY <2>1 DEF Accounted
    <3>2. GroupHeld(s)' BY <2>0, <1>3, <3>1 DEF TokenOK, GroupHeld, GroupTokenIs
    <3>3. TemplateHeld(s)' BY <2>0, <1>3, <3>1 DEF TokenOK, TemplateHeld
    <3>4. BoxesHeld(s)' BY <2>0, <3>1 DEF TokenOK, BoxesHeld, NoGroup, GroupTokenIs
    <3> QED BY <3>2, <3>3, <3>4 DEF TokenOK
  <2>2. CASE Untouched(s) /\ \A a \in Accounts : template'[a] # s
    BY <2>0, <2>2
    DEF TokenOK, GroupHeld, TemplateHeld, BoxesHeld, Untouched, NoGroup, GroupTokenIs, NoBoxes
  <2> QED BY <2>1, <2>2
<1>5. ProcOK(m)' BY <1>p DEF ProcOK, At
<1>6. \A q \in Machines : q # m => ~Holds(q, s) BY <1>0, HoldsUnique
<1>7. \A t \in Tokens : t # s => ~Holds(m, t) /\ ~Holds(m, t)' BY <1>0, <1>f DEF Holds
<1>8. \A t \in Tokens, a \in Accounts : t # s =>
        /\ template'[a] = t <=> template[a] = t
        /\ GroupTokenIs(a, t)' <=> GroupTokenIs(a, t)
  BY DEF GroupTokenIs
<1> QED BY <1>1, <1>2, <1>4, <1>5, <1>6, <1>7, <1>8, <1>f, <1>p, Frame

-----------------------------------------------------------------------------
(* The steps of "up". *)

\* Who may be unsure, for a step that leaves unsure alone.
LEMMA UnsureFacts == IInv => unsure \subseteq Tokens /\ \A t \in unsure : owner[t] # None
BY DEF IInv, TInv, CloudOK, FilesOwned

\* What exists for a token exists in the account on file for it.
LEMMA AccountOf ==
  ASSUME IInv, NEW m \in Machines, NEW t \in Tokens, Holds(m, t), NEW b \in Accounts
  PROVE  /\ GroupTokenIs(b, t) => b = file[m].acct /\ template[b] = t
         /\ template[b] = t => b = file[m].acct
<1>1. TokenOK(t) BY DEF IInv, CloudOK
<1> QED BY <1>1 DEF TokenOK, GroupHeld, TemplateHeld

LEMMA CreateTemplateIInv == ASSUME IInv, NEW m \in Machines, CreateTemplate(m) PROVE IInv'
<1>1. ~At(m, "idle") BY DEF CreateTemplate, At
<1>2. PICK s \in Tokens, a \in Accounts : s = proc[m].token /\ a = proc[m].acct
  BY <1>1, BusyFacts
<1>b. /\ Holds(m, s) /\ file[m].acct = a /\ owner[s] = m /\ s # Legacy
      /\ NoTemplate(s) /\ Untouched(s)
  BY <1>1, <1>2, BusyFacts DEF CreateTemplate, At, StageOK
<1>u. UNCHANGED <<file, group, boxes, owner, unsure>> BY DEF CreateTemplate
<1>g. {"group", "templateLookup"} \subseteq Pcs BY DEF Pcs
<1>t. TInv BY DEF IInv
<1>3. PICK x \in {"group", "templateLookup"} :
        /\ Goto(m, x)
        /\ \/ template[a] = None /\ template' = [template EXCEPT ![a] = s]
           \/ UNCHANGED template /\ x = "templateLookup"
  BY <1>2 DEF CreateTemplate
<1>4. PICK p \in Procs : /\ proc' = [proc EXCEPT ![m] = p]
                         /\ p.pc = x /\ p.token = s /\ p.acct = a
  BY <1>3, <1>2, <1>g, <1>t, GotoFacts
<1>5. proc'[m] = p /\ \A q \in Machines : q # m => proc'[q] = proc[q] BY <1>4 DEF IInv, TInv
<1>6. NoGroup(s)' /\ Untouched(s)' /\ Holds(m, s)'
  BY <1>b, <1>u DEF Untouched, NoGroup, GroupTokenIs, Holds
<1>7. ProcOK(m)'
  BY <1>4, <1>5, <1>6, <1>b, <1>u DEF ProcOK, At, StageOK, Holds
<1>8. CASE UNCHANGED template
  BY <1>4, <1>7, <1>8, <1>u, UnsureFacts, ProcMove
<1>9. CASE template[a] = None /\ template' = [template EXCEPT ![a] = s]
  <2>1. template'[a] = s /\ \A b \in Accounts : b # a => template'[b] = template[b]
    BY <1>9 DEF IInv, TInv
  <2>2. TInv' BY <1>4, <1>9, <1>u DEF IInv, TInv
  <2>3. FilesOwned' BY <1>u DEF IInv, CloudOK, FilesOwned
  <2>4. Accounted(s)' BY <1>6 DEF Accounted
  <2>5. \A q \in Machines : q # m => ~Holds(q, s) BY <1>b, HoldsUnique
  <2>6. TokenOK(s)'
    <3>1. GroupHeld(s)' BY <1>6 DEF GroupHeld, NoGroup
    <3>2. TemplateHeld(s)'
      BY <2>1, <2>4, <2>5, <1>b, <1>u DEF TemplateHeld, Holds, NoTemplate
    <3>3. BoxesHeld(s)' BY <1>6, <2>4 DEF BoxesHeld, Untouched, NoBoxes
    <3> QED BY <3>1, <3>2, <3>3 DEF TokenOK
  <2>7. \A t \in Tokens : t # s => ~Holds(m, t) /\ ~Holds(m, t)' BY <1>b, <1>6 DEF Holds
  <2>8. \A t \in Tokens, b \in Accounts : t # s =>
          /\ template'[b] = t <=> template[b] = t
          /\ GroupTokenIs(b, t)' <=> GroupTokenIs(b, t)
    BY <2>1, <1>9, <1>u DEF GroupTokenIs
  <2> QED BY <1>5, <1>7, <1>u, <2>2, <2>3, <2>5, <2>6, <2>7, <2>8, Frame
<1> QED BY <1>3, <1>8, <1>9

LEMMA TemplateLookupIInv == ASSUME IInv, NEW m \in Machines, TemplateLookup(m) PROVE IInv'
<1>1. ~At(m, "idle") /\ proc[m].pc = "templateLookup" BY DEF TemplateLookup, At
<1>2. PICK s \in Tokens, a \in Accounts : s = proc[m].token /\ a = proc[m].acct
  BY <1>1, BusyFacts
<1>b. Holds(m, s) /\ file[m].acct = a /\ s # Legacy /\ Untouched(s)
  BY <1>1, <1>2, BusyFacts DEF StageOK
<1>u. UNCHANGED <<template, group, boxes, owner, unsure>> BY DEF TemplateLookup, cloud
<1>t. TInv BY DEF IInv
<1>3. CASE template[a] = s
  <2>1. Goto(m, "group") /\ UNCHANGED file BY <1>2, <1>3 DEF TemplateLookup
  <2>2. "group" \in Pcs BY DEF Pcs
  <2>3. PICK p \in Procs : /\ proc' = [proc EXCEPT ![m] = p]
                           /\ p.pc = "group" /\ p.token = s /\ p.acct = a
    BY <2>1, <2>2, <1>2, <1>t, GotoFacts
  <2>4. proc'[m] = p BY <2>3, <1>t DEF TInv
  <2>5. Untouched(s)' /\ Holds(m, s)'
    BY <1>b, <1>u, <2>1 DEF Untouched, NoGroup, GroupTokenIs, Holds
  <2>6. ProcOK(m)' BY <2>1, <2>3, <2>4, <2>5, <1>b, <1>u DEF ProcOK, At, StageOK
  <2> QED BY <2>1, <2>3, <2>6, <1>u, UnsureFacts, ProcMove
<1>4. CASE template[a] # s
  <2>1. Stop(m) /\ file' = [file EXCEPT ![m] = None] BY <1>2, <1>4 DEF TemplateLookup
  <2>2. PICK p \in Procs : proc' = [proc EXCEPT ![m] = p] /\ p.pc = "idle"
    BY <2>1, StopFacts
  <2>3. \A b \in Accounts : template'[b] # s BY <1>4, <1>b, <1>u, AccountOf
  <2>4. template' \in [Accounts -> Tokens \cup {None}] BY <1>u, <1>t DEF TInv
  <2> QED BY <1>1, <1>2, <1>b, <1>u, <2>1, <2>2, <2>3, <2>4, FileGone
<1> QED BY <1>3, <1>4

LEMMA TemplateLookupFailsIInv ==
  ASSUME IInv, NEW m \in Machines, TemplateLookupFails(m) PROVE IInv'
<1>1. ~At(m, "idle") /\ proc[m].pc = "templateLookup" BY DEF TemplateLookupFails, At
<1>2. PICK s \in Tokens, a \in Accounts : s = proc[m].token /\ a = proc[m].acct
  BY <1>1, BusyFacts
<1>b. Holds(m, s) /\ file[m].acct = a /\ Untouched(s)
  BY <1>1, <1>2, BusyFacts DEF StageOK
<1>u. UNCHANGED <<template, group, boxes, owner>> BY DEF TemplateLookupFails, cloud
<1>3. PICK p \in Procs : proc' = [proc EXCEPT ![m] = p] /\ p.pc = "idle"
  BY StopFacts DEF TemplateLookupFails
<1>4. file' = [file EXCEPT ![m] = None] BY DEF TemplateLookupFails
<1>5. unsure' = IF template[a] = s THEN unsure \cup {s} ELSE unsure
  BY <1>2 DEF TemplateLookupFails
<1>6. s \in unsure' \/ \A b \in Accounts : template'[b] # s
  BY <1>5, <1>b, <1>u, AccountOf
<1>7. template' \in [Accounts -> Tokens \cup {None}] BY <1>u DEF IInv, TInv
<1> QED BY <1>1, <1>2, <1>3, <1>4, <1>5, <1>6, <1>7, <1>b, <1>u, FileGone

LEMMA CreateGroupIInv == ASSUME IInv, NEW m \in Machines, CreateGroup(m) PROVE IInv'
<1>1. ~At(m, "idle") /\ proc[m].pc = "group" BY DEF CreateGroup, At
<1>2. PICK s \in Tokens, a \in Accounts, n \in 0..MaxBoxes :
        s = proc[m].token /\ a = proc[m].acct /\ n = proc[m].count
  BY <1>1, BusyFacts DEF Procs
<1>b. Holds(m, s) /\ file[m].acct = a /\ owner[s] = m /\ s # Legacy /\ Untouched(s)
  BY <1>1, <1>2, BusyFacts DEF StageOK
<1>u. UNCHANGED <<file, template, boxes, owner, unsure>> BY DEF CreateGroup
<1>g. "groupLookup" \in Pcs BY DEF Pcs
<1>t. TInv BY DEF IInv
<1>3. PICK p \in Procs :
        /\ proc' = [proc EXCEPT ![m] = p]
        /\ p.pc = "idle" \/ (p.pc = "groupLookup" /\ p.token = s /\ p.acct = a)
        /\ UNCHANGED group => p.pc = "groupLookup"
  <2>1. CASE Goto(m, "groupLookup") BY <2>1, <1>2, <1>g, <1>t, GotoFacts
  <2>2. CASE Stop(m) /\ ~UNCHANGED group BY <2>2, StopFacts
  <2>3. Stop(m) => \/ group[a] = None /\ group' = [group EXCEPT ![a] =
                          [token |-> s, desired |-> n, deleting |-> FALSE]]
                   \/ Goto(m, "groupLookup")
    BY <1>2 DEF CreateGroup
  <2>4. CASE group[a] = None /\ group' = [group EXCEPT ![a] =
                     [token |-> s, desired |-> n, deleting |-> FALSE]]
    <3>1. group'[a] = [token |-> s, desired |-> n, deleting |-> FALSE] BY <2>4, <1>t DEF TInv
    <3>2. [token |-> s, desired |-> n, deleting |-> FALSE] \in Groups BY DEF Groups
    <3>3. group' # group BY <3>1, <3>2, <2>4 DEF Groups
    <3> QED BY <3>3, <2>1, <2>2 DEF CreateGroup
  <2> QED BY <2>1, <2>3, <2>4 DEF CreateGroup
<1>5. proc'[m] = p /\ \A q \in Machines : q # m => proc'[q] = proc[q] BY <1>3, <1>t DEF TInv
<1>6. Holds(m, s)' /\ Accounted(s)' BY <1>b, <1>u DEF Holds, Accounted
<1>7. CASE UNCHANGED group
  <2>1. Untouched(s)' BY <1>7, <1>b, <1>u DEF Untouched, NoGroup, GroupTokenIs
  <2>2. ProcOK(m)' BY <2>1, <1>3, <1>5, <1>6, <1>7, <1>b, <1>u DEF ProcOK, At, StageOK
  <2> QED BY <2>2, <1>3, <1>7, <1>u, UnsureFacts, ProcMove
<1>8. CASE ~UNCHANGED group
  <2> DEFINE G == [token |-> s, desired |-> n, deleting |-> FALSE]
  <2>0. group[a] = None /\ template[a] = s /\ group' = [group EXCEPT ![a] = G]
    BY <1>2, <1>8 DEF CreateGroup
  <2>h. G \in Groups /\ G.token = s /\ G.deleting = FALSE BY DEF Groups
  <2>g. G \in Groups /\ G # None /\ G.token = s /\ ~G.deleting
    <3> HIDE DEF G
    <3> QED BY <2>h DEF Groups
  <2> HIDE DEF G
  <2>1. group'[a] = G /\ \A b \in Accounts : b # a => group'[b] = group[b]
    BY <2>0, <1>t DEF TInv
  <2>2. TInv' BY <1>3, <2>0, <2>g, <1>u, <1>t DEF TInv
  <2>3. FilesOwned' BY <1>u DEF IInv, CloudOK, FilesOwned
  <2>4. GroupTokenIs(a, s)' /\ \A b \in Accounts : b # a => ~GroupTokenIs(b, s)'
    BY <2>1, <2>g, <1>b DEF GroupTokenIs, Untouched, NoGroup
  <2>5. \A q \in Machines : q # m => ~Holds(q, s) BY <1>b, HoldsUnique
  <2>6. TokenOK(s)'
    <3>1. GroupHeld(s)' BY <2>0, <2>4, <2>5, <1>6, <1>b, <1>u DEF GroupHeld, Holds
    <3>2. TemplateHeld(s)'
      BY <2>5, <1>6, <1>b, <1>u, AccountOf DEF TemplateHeld, Holds
    <3>3. BoxesHeld(s)' BY <1>6, <1>b, <1>u DEF BoxesHeld, Untouched, NoBoxes
    <3> QED BY <3>1, <3>2, <3>3 DEF TokenOK
  <2>7. \A t \in Tokens : t # s => ~Holds(m, t) /\ ~Holds(m, t)' BY <1>b, <1>u DEF Holds
  <2>8. \A t \in Tokens, b \in Accounts : t # s =>
          /\ template'[b] = t <=> template[b] = t
          /\ GroupTokenIs(b, t)' <=> GroupTokenIs(b, t)
          /\ GroupTokenIs(b, t) => group'[b] = group[b]
          /\ template[b] = t /\ group[b] = None => group'[b] = None
    BY <2>0, <2>1, <2>g, <1>u DEF GroupTokenIs
  <2>9. ProcOK(m)'
    BY <1>3, <1>5, <1>6, <1>b, <1>u, <2>1, <2>g, <2>4 DEF ProcOK, At, StageOK
  <2> QED BY <1>5, <1>u, <2>2, <2>3, <2>5, <2>6, <2>7, <2>8, <2>9, Frame
<1> QED BY <1>7, <1>8

LEMMA GroupLookupIInv ==
  ASSUME IInv, NEW m \in Machines, GroupLookup(m) \/ GroupLookupFails(m) PROVE IInv'
<1>1. ~At(m, "idle") /\ proc[m].pc = "groupLookup" BY DEF GroupLookup, GroupLookupFails, At
<1>2. PICK s \in Tokens, a \in Accounts : s = proc[m].token /\ a = proc[m].acct
  BY <1>1, BusyFacts
<1>b. /\ Holds(m, s) /\ file[m].acct = a /\ owner[s] = m /\ s # Legacy
      /\ Untouched(s) \/ GroupTokenIs(a, s)
  BY <1>1, <1>2, BusyFacts DEF StageOK, At
<1>u. UNCHANGED <<file, template, group, boxes, owner>>
  BY DEF GroupLookup, GroupLookupFails, cloud
<1>g. "groupTaken" \in Pcs BY DEF Pcs
<1>t. TInv BY DEF IInv
<1>3. unsure' = unsure \/ unsure' = unsure \cup {s}
  BY <1>2 DEF GroupLookup, GroupLookupFails
<1>4. PICK p \in Procs :
        /\ proc' = [proc EXCEPT ![m] = p]
        /\ \/ p.pc = "idle"
           \/ /\ p.pc = "groupTaken" /\ p.token = s /\ p.acct = a
              /\ ~GroupTokenIs(a, s) \/ s \in unsure'
  <2>1. CASE Stop(m) BY <2>1, StopFacts
  <2>2. CASE Goto(m, "groupTaken")
    <3>1. ~GroupTokenIs(a, s) \/ s \in unsure' \/ Stop(m)
      BY <1>2 DEF GroupLookup, GroupLookupFails
    <3> QED BY <2>1, <2>2, <3>1, <1>2, <1>g, <1>t, GotoFacts
  <2> QED BY <2>1, <2>2 DEF GroupLookup, GroupLookupFails
<1>5. proc'[m] = p BY <1>4, <1>t DEF TInv
<1>6. Holds(m, s)' /\ (Untouched(s) => Untouched(s)')
  BY <1>b, <1>u DEF Holds, Untouched, NoGroup, GroupTokenIs
<1>7. ProcOK(m)' BY <1>4, <1>5, <1>6, <1>b, <1>u DEF ProcOK, At, StageOK
<1>8. unsure \subseteq unsure' /\ unsure' \subseteq Tokens /\ \A t \in unsure' : owner[t] # None
  BY <1>3, <1>b, UnsureFacts
<1> QED BY <1>4, <1>7, <1>8, <1>u, ProcMove

LEMMA GroupTakenIInv == ASSUME IInv, NEW m \in Machines, GroupTaken(m) PROVE IInv'
<1>1. ~At(m, "idle") /\ proc[m].pc = "groupTaken" BY DEF GroupTaken, At
<1>2. PICK s \in Tokens, a \in Accounts : s = proc[m].token /\ a = proc[m].acct
  BY <1>1, BusyFacts
<1>b. Holds(m, s) /\ file[m].acct = a /\ (Untouched(s) \/ s \in unsure)
  BY <1>1, <1>2, BusyFacts DEF StageOK, At
<1>u. UNCHANGED <<group, boxes, owner, unsure>> BY DEF GroupTaken
<1>3. PICK p \in Procs : proc' = [proc EXCEPT ![m] = p] /\ p.pc = "idle"
  BY StopFacts DEF GroupTaken
<1>4. file' = [file EXCEPT ![m] = None] BY DEF GroupTaken
<1>5. template' = [template EXCEPT ![a] = IF template[a] = s THEN None ELSE template[a]]
  BY <1>2 DEF GroupTaken
<1>6. /\ template' \in [Accounts -> Tokens \cup {None}]
      /\ \A b \in Accounts : template'[b] = template[b] \/ (template[b] = s /\ template'[b] = None)
      /\ template'[a] # s /\ \A b \in Accounts : b # a => template'[b] = template[b]
  BY <1>5 DEF IInv, TInv
<1>7. \A b \in Accounts : template'[b] # s BY <1>6, <1>b, AccountOf
<1> QED BY <1>1, <1>2, <1>3, <1>4, <1>6, <1>7, <1>b, <1>u, FileGone

LEMMA StartUpIInv ==
  ASSUME IInv, NEW m \in Machines, NEW a \in Accounts, NEW n \in 1..MaxBoxes, StartUp(m, a, n)
  PROVE  IInv'
<1>1. PICK s \in Tokens \ {Legacy} :
        /\ owner[s] = None
        /\ owner' = [owner EXCEPT ![s] = m]
        /\ file' = [file EXCEPT ![m] = [token |-> s, acct |-> a]]
        /\ proc' = [proc EXCEPT ![m] =
                      [pc |-> "template", token |-> s, acct |-> a, count |-> n]]
  BY DEF StartUp
<1>u. file[m] = None /\ UNCHANGED <<template, group, boxes, unsure>> BY DEF StartUp, cloud
<1>t. TInv BY DEF IInv
<1>2. PICK p \in Procs : /\ proc' = [proc EXCEPT ![m] = p]
                         /\ p.pc = "template" /\ p.token = s /\ p.acct = a
  <2> DEFINE q == [pc |-> "template", token |-> s, acct |-> a, count |-> n]
  <2>1. q \in Procs BY TokenFacts DEF Procs, Pcs
  <2> QED BY <2>1, <1>1
<1>3. PICK f \in Files : file' = [file EXCEPT ![m] = f] /\ f.token = s /\ f.acct = a
  <2>1. [token |-> s, acct |-> a] \in Files BY DEF Files
  <2> QED BY <2>1, <1>1
<1>f. file'[m] = f /\ f # None /\ \A q \in Machines : q # m => file'[q] = file[q]
  BY <1>3, <1>t DEF TInv, Files
<1>p. proc'[m] = p /\ \A q \in Machines : q # m => proc'[q] = proc[q] BY <1>2, <1>t DEF TInv
<1>o. owner'[s] = m /\ \A t \in Tokens : t # s => owner'[t] = owner[t] BY <1>1, <1>t DEF TInv
<1>4. TInv' BY <1>1, <1>2, <1>3, <1>u, <1>t DEF TInv
<1>5. ~Accounted(s) /\ \A q \in Machines : ~Holds(q, s)
  BY <1>1 DEF Accounted, Holds, IInv, CloudOK, FilesOwned
<1>6. NoTemplate(s) /\ Untouched(s)
  <2>1. TokenOK(s) BY DEF IInv, CloudOK
  <2> QED BY <2>1, <1>5
          DEF TokenOK, GroupHeld, TemplateHeld, BoxesHeld, NoTemplate, NoGroup, Untouched
<1>7. NoTemplate(s)' /\ Untouched(s)' /\ Holds(m, s)'
  BY <1>6, <1>u, <1>f, <1>3 DEF NoTemplate, Untouched, NoGroup, GroupTokenIs, Holds
<1>8. FilesOwned'
  <2>1. \A q \in Machines : q # m /\ file[q] # None => file[q].token \in Tokens /\ file[q].token # s
    BY <1>5, <1>t DEF TInv, Files, Holds
  <2>2. \A t \in unsure : t # s BY <1>5 DEF Accounted
  <2> QED BY <2>1, <2>2, <1>f, <1>3, <1>o, <1>u, UnsureFacts DEF FilesOwned, IInv, CloudOK
<1>9. TokenOK(s)'
  BY <1>7 DEF TokenOK, GroupHeld, TemplateHeld, BoxesHeld, NoTemplate, NoGroup, Untouched, NoBoxes
<1>10. ProcOK(m)' BY <1>7, <1>p, <1>2, <1>3, <1>f DEF ProcOK, At, StageOK
<1>11. \A t \in Tokens : t # s => ~Holds(m, t) /\ ~Holds(m, t)' BY <1>u, <1>f, <1>3 DEF Holds
<1>12. \A t \in Tokens, b \in Accounts : GroupTokenIs(b, t)' <=> GroupTokenIs(b, t)
  BY <1>u DEF GroupTokenIs
<1> QED BY <1>4, <1>5, <1>8, <1>9, <1>10, <1>11, <1>12, <1>u, <1>f, <1>p, Frame


-----------------------------------------------------------------------------
(* The steps of "down". *)

\* Terminating keeps the launches in progress, and does nothing where
\* nothing is.
LEMMA TerminateFacts ==
  ASSUME NEW b \in Counts
  PROVE  /\ Terminate(b) \in Counts /\ Terminate(b).coming = b.coming
         /\ b = NoBoxes => Terminate(b) = NoBoxes
<1>1. b.coming \in Nat /\ b.live \in Nat /\ b.dying \in Nat BY DEF Counts
<1>2. PICK e \in Nat : e = b.dying + b.live BY <1>1
<1>3. Terminate(b) = [b EXCEPT !.live = 0, !.dying = e] BY <1>2 DEF Terminate
<1>4. Terminate(b) \in Counts /\ Terminate(b).coming = b.coming
  <2>1. [b EXCEPT !.live = 0, !.dying = e] \in Counts BY DEF Counts
  <2>2. [b EXCEPT !.live = 0, !.dying = e].coming = b.coming BY DEF Counts
  <2> QED BY <1>3, <2>1, <2>2
<1>5. ASSUME b = NoBoxes PROVE Terminate(b) = NoBoxes
  <2>1. b.dying = 0 /\ b.live = 0 BY <1>5 DEF NoBoxes
  <2>2. e = 0 BY <2>1, <1>2
  <2> QED BY <2>2, <1>3, <1>5 DEF NoBoxes
<1> QED BY <1>4, <1>5

\* The boxes of one token are terminated.
LEMMA TerminateMove ==
  ASSUME IInv, NEW s \in Tokens, boxes' = [boxes EXCEPT ![s] = Terminate(@)],
         UNCHANGED <<file, proc, template, group, owner, unsure>>
  PROVE  IInv'
<1>1. boxes[s] \in Counts BY DEF IInv, TInv
<1>2. PICK e \in Counts : /\ e = Terminate(boxes[s]) /\ e.coming = boxes[s].coming
                          /\ boxes[s] = NoBoxes => e = NoBoxes
  BY <1>1, TerminateFacts
<1>3. boxes' = [boxes EXCEPT ![s] = e] BY <1>2
<1>4. /\ boxes' \in [Tokens -> Counts] /\ boxes'[s] = e
      /\ \A t \in Tokens : t # s => boxes'[t] = boxes[t]
  BY <1>3 DEF IInv, TInv
<1>5. \A t \in Tokens : boxes'[t].coming = boxes[t].coming BY <1>2, <1>4
<1>6. \A t \in Tokens : Untouched(t) => boxes'[t] = NoBoxes BY <1>2, <1>4 DEF Untouched
<1> QED BY <1>4, <1>5, <1>6, BoxesMove

LEMMA DownLegacyIInv == ASSUME IInv, NEW m \in Machines, DownLegacy(m) PROVE IInv'
<1>1. ~At(m, "idle") /\ proc[m].pc = "legacy" BY DEF DownLegacy, At
<1>b. /\ proc[m].token = Legacy /\ Legacy \in Tokens /\ proc[m].acct \in Accounts
      /\ Holds(m, Legacy) /\ file[m].acct = proc[m].acct
  BY <1>1, BusyFacts DEF At
<1>u. UNCHANGED <<file, template, group, owner, unsure>> BY DEF DownLegacy
<1>2. CASE boxes' = [boxes EXCEPT ![Legacy] = Terminate(@)] /\ UNCHANGED proc
  <2>1. PICK s \in Tokens : s = Legacy BY <1>b
  <2> QED BY <1>2, <1>u, <2>1, TerminateMove
<1>3. CASE boxes[Legacy] = NoBoxes /\ Goto(m, "downRemove") /\ UNCHANGED boxes
  <2>1. TInv /\ "downRemove" \in Pcs BY DEF IInv, Pcs
  <2>2. PICK p \in Procs : /\ proc' = [proc EXCEPT ![m] = p] /\ p.pc = "downRemove"
                           /\ p.token = Legacy /\ p.acct = proc[m].acct
    BY <1>3, <2>1, <1>b, GotoFacts
  <2>3. proc'[m] = p BY <2>1, <2>2 DEF TInv
  <2>4. NoGroup(Legacy) /\ NoTemplate(Legacy)
    <3>1. TokenOK(Legacy) BY <1>b DEF IInv, CloudOK
    <3> QED BY <3>1 DEF TokenOK, GroupHeld, TemplateHeld, NoGroup, NoTemplate
  <2>5. PICK s \in Tokens : s = Legacy BY <1>b
  <2>6. NoTemplate(s)' /\ Untouched(s)' /\ Holds(m, s)'
    BY <2>4, <2>5, <1>3, <1>b, <1>u DEF NoTemplate, NoGroup, Untouched, GroupTokenIs, Holds
  <2>7. ProcOK(m)' BY <2>2, <2>3, <2>5, <2>6, <1>b, <1>u DEF ProcOK, At, StageOK
  <2> QED BY <2>2, <2>7, <1>3, <1>u, UnsureFacts, ProcMove
<1> QED BY <1>2, <1>3 DEF DownLegacy

LEMMA DownGroupIInv == ASSUME IInv, NEW m \in Machines, DownGroup(m) PROVE IInv'
<1>1. ~At(m, "idle") /\ proc[m].pc = "downGroup" BY DEF DownGroup, At
<1>2. PICK s \in Tokens, a \in Accounts : s = proc[m].token /\ a = proc[m].acct
  BY <1>1, BusyFacts
<1>b. Holds(m, s) /\ file[m].acct = a /\ s # Legacy BY <1>1, <1>2, BusyFacts
<1>u. UNCHANGED <<file, template, group, boxes, owner, unsure>> BY DEF DownGroup, cloud
<1>t. TInv /\ {"downDelete", "downSweep"} \subseteq Pcs BY DEF IInv, Pcs
<1>3. PICK x \in {"downDelete", "downSweep"} :
        Goto(m, x) /\ x = IF GroupTokenIs(a, s) THEN "downDelete" ELSE "downSweep"
  BY <1>2 DEF DownGroup
<1>4. PICK p \in Procs : /\ proc' = [proc EXCEPT ![m] = p]
                         /\ p.pc = x /\ p.token = s /\ p.acct = a
  BY <1>2, <1>3, <1>t, GotoFacts
<1>5. proc'[m] = p BY <1>4, <1>t DEF TInv
<1>6. /\ GroupTokenIs(a, s) => template[a] = s
      /\ ~GroupTokenIs(a, s) => NoGroup(s)
  BY <1>b, AccountOf DEF NoGroup
<1>7. /\ GroupTokenIs(a, s)' <=> GroupTokenIs(a, s)
      /\ NoGroup(s) => NoGroup(s)'
      /\ Holds(m, s)'
  BY <1>u, <1>b DEF GroupTokenIs, NoGroup, Holds
<1>8. ProcOK(m)'
  BY <1>3, <1>4, <1>5, <1>6, <1>7, <1>b, <1>u DEF ProcOK, At, StageOK
<1> QED BY <1>4, <1>8, <1>u, UnsureFacts, ProcMove

\* The group that is deleted by name is the command's own.
LEMMA DeletesOwn ==
  ASSUME IInv, NEW m \in Machines, DeleteGroup(m)
  PROVE  group[proc[m].acct] = None \/ GroupTokenIs(proc[m].acct, proc[m].token)
<1>1. ~At(m, "idle") /\ proc[m].pc = "downDelete" BY DEF DeleteGroup, At
<1> QED BY <1>1, BusyFacts DEF StageOK

LEMMA DeleteGroupIInv == ASSUME IInv, NEW m \in Machines, DeleteGroup(m) PROVE IInv'
<1>1. ~At(m, "idle") /\ proc[m].pc = "downDelete" BY DEF DeleteGroup, At
<1>2. PICK s \in Tokens, a \in Accounts : s = proc[m].token /\ a = proc[m].acct
  BY <1>1, BusyFacts
<1>b. /\ Holds(m, s) /\ file[m].acct = a /\ s # Legacy /\ template[a] = s
      /\ group[a] = None \/ GroupTokenIs(a, s)
  BY <1>1, <1>2, BusyFacts DEF StageOK
<1>u. UNCHANGED <<file, template, owner, unsure>> BY DEF DeleteGroup
<1>t. TInv /\ {"downDelete", "downWait"} \subseteq Pcs BY DEF IInv, Pcs
<1>3. PICK p \in Procs : /\ proc' = [proc EXCEPT ![m] = p] /\ p.token = s /\ p.acct = a
                         /\ p.pc \in {"downDelete", "downWait"}
  <2>1. CASE Goto(m, "downWait") BY <2>1, <1>2, <1>t, GotoFacts
  <2>2. CASE UNCHANGED proc
    <3>1. proc[m] \in Procs /\ proc' = [proc EXCEPT ![m] = proc[m]] BY <2>2, <1>t DEF TInv
    <3> QED BY <3>1, <1>1, <1>2
  <2> QED BY <2>1, <2>2 DEF DeleteGroup
<1>4. proc'[m] = p /\ \A q \in Machines : q # m => proc'[q] = proc[q] BY <1>3, <1>t DEF TInv
<1>5. Holds(m, s)' /\ Accounted(s)' BY <1>b, <1>u DEF Holds, Accounted
<1>6. CASE group[a] = None
  <2>1. UNCHANGED <<group, boxes>> BY <1>6, <1>2 DEF DeleteGroup
  <2>2. ProcOK(m)'
    BY <2>1, <1>3, <1>4, <1>5, <1>6, <1>b, <1>u DEF ProcOK, At, StageOK
  <2> QED BY <2>1, <2>2, <1>3, <1>u, UnsureFacts, ProcMove
<1>7. CASE group[a] # None
  <2>0. group[a] \in Groups /\ group[a].token = s /\ boxes[s] \in Counts
    BY <1>7, <1>b, <1>t DEF GroupTokenIs, TInv
  <2>1. PICK g \in Groups : group' = [group EXCEPT ![a] = g] /\ g.token = s
    <3> DEFINE h == [group[a] EXCEPT !.deleting = TRUE]
    <3>1. h \in Groups /\ h.token = s BY <2>0 DEF Groups
    <3>2. group' = [group EXCEPT ![a] = h] BY <1>2, <1>7 DEF DeleteGroup
    <3> QED BY <3>1, <3>2
  <2>2. PICK e \in Counts : /\ boxes' = [boxes EXCEPT ![s] = e] /\ e.coming = boxes[s].coming
                            /\ boxes[s] = NoBoxes => e = NoBoxes
    <3>1. boxes' = [boxes EXCEPT ![s] = Terminate(boxes[s])]
      BY <1>2, <1>7, <2>0 DEF DeleteGroup
    <3> QED BY <3>1, <2>0, TerminateFacts
  <2>3. /\ group'[a] = g /\ \A b \in Accounts : b # a => group'[b] = group[b]
        /\ boxes'[s] = e /\ \A t \in Tokens : t # s => boxes'[t] = boxes[t]
    BY <2>1, <2>2, <1>t DEF TInv
  <2>4. g # None BY DEF Groups
  <2>5. TInv' BY <2>1, <2>2, <1>3, <1>u, <1>t DEF TInv
  <2>6. FilesOwned' BY <1>u DEF IInv, CloudOK, FilesOwned
  <2>7. \A q \in Machines : q # m => ~Holds(q, s) BY <1>b, HoldsUnique
  <2>8. GroupTokenIs(a, s)' /\ \A b \in Accounts : b # a => ~GroupTokenIs(b, s)'
    <3>1. \A b \in Accounts : b # a => ~GroupTokenIs(b, s) BY <1>b, AccountOf
    <3> QED BY <3>1, <2>1, <2>3, <2>4 DEF GroupTokenIs
  <2>9. TokenOK(s)'
    <3>1. GroupHeld(s)' BY <2>7, <2>8, <1>5, <1>b, <1>u DEF GroupHeld, Holds
    <3>2. TemplateHeld(s)' BY <2>7, <1>5, <1>b, <1>u, AccountOf DEF TemplateHeld, Holds
    <3>3. BoxesHeld(s)' BY <2>8, <1>5 DEF BoxesHeld, NoGroup
    <3> QED BY <3>1, <3>2, <3>3 DEF TokenOK
  <2>10. \A t \in Tokens : t # s => ~Holds(m, t) /\ ~Holds(m, t)' BY <1>b, <1>u DEF Holds
  <2>11. \A t \in Tokens, b \in Accounts : t # s =>
           /\ template'[b] = t <=> template[b] = t
           /\ GroupTokenIs(b, t)' <=> GroupTokenIs(b, t)
           /\ GroupTokenIs(b, t) => group'[b] = group[b]
           /\ template[b] = t /\ group[b] = None => group'[b] = None
    BY <2>0, <2>1, <2>3, <2>4, <1>7, <1>u DEF GroupTokenIs
  <2>12. ProcOK(m)' BY <2>8, <1>3, <1>4, <1>5, <1>b, <1>u DEF ProcOK, At, StageOK
  <2> QED BY <2>3, <2>5, <2>6, <2>7, <2>9, <2>10, <2>11, <2>12, <1>4, <1>u, Frame
<1> QED BY <1>6, <1>7

LEMMA DownWaitIInv == ASSUME IInv, NEW m \in Machines, DownWait(m) PROVE IInv'
<1>1. ~At(m, "idle") /\ proc[m].pc = "downWait" BY DEF DownWait, At
<1>2. PICK s \in Tokens, a \in Accounts : s = proc[m].token /\ a = proc[m].acct
  BY <1>1, BusyFacts
<1>b. Holds(m, s) /\ file[m].acct = a /\ s # Legacy BY <1>1, <1>2, BusyFacts
<1>u. UNCHANGED <<file, template, group, boxes, owner, unsure>> BY DEF DownWait, cloud
<1>t. TInv /\ "downSweep" \in Pcs BY DEF IInv, Pcs
<1>3. PICK p \in Procs : /\ proc' = [proc EXCEPT ![m] = p]
                         /\ p.pc = "downSweep" /\ p.token = s /\ p.acct = a
  BY <1>2, <1>t, GotoFacts DEF DownWait
<1>4. proc'[m] = p BY <1>3, <1>t DEF TInv
<1>5. ~GroupTokenIs(a, s) BY <1>2 DEF DownWait, GroupTokenIs
<1>6. NoGroup(s) BY <1>5, <1>b, AccountOf DEF NoGroup
<1>7. NoGroup(s)' /\ Holds(m, s)' BY <1>6, <1>b, <1>u DEF NoGroup, GroupTokenIs, Holds
<1>8. ProcOK(m)' BY <1>3, <1>4, <1>7, <1>b, <1>u DEF ProcOK, At, StageOK
<1> QED BY <1>3, <1>8, <1>u, UnsureFacts, ProcMove

LEMMA DownSweepIInv == ASSUME IInv, NEW m \in Machines, DownSweep(m) PROVE IInv'
<1>1. ~At(m, "idle") /\ proc[m].pc = "downSweep" BY DEF DownSweep, At
<1>2. PICK s \in Tokens, a \in Accounts : s = proc[m].token /\ a = proc[m].acct
  BY <1>1, BusyFacts
<1>b. Holds(m, s) /\ file[m].acct = a /\ s # Legacy /\ NoGroup(s)
  BY <1>1, <1>2, BusyFacts DEF StageOK, At
<1>u. UNCHANGED <<file, template, group, owner, unsure>> BY DEF DownSweep
<1>t. TInv /\ "downTemplate" \in Pcs BY DEF IInv, Pcs
<1>3. CASE boxes' = [boxes EXCEPT ![s] = Terminate(@)] /\ UNCHANGED proc
  BY <1>3, <1>u, TerminateMove
<1>4. CASE /\ boxes[s].live = 0 /\ boxes[s].dying = 0
           /\ Goto(m, "downTemplate") /\ UNCHANGED boxes
  <2>1. PICK p \in Procs : /\ proc' = [proc EXCEPT ![m] = p]
                           /\ p.pc = "downTemplate" /\ p.token = s /\ p.acct = a
    BY <1>2, <1>4, <1>t, GotoFacts
  <2>2. proc'[m] = p BY <2>1, <1>t DEF TInv
  <2>3. boxes[s] = NoBoxes
    <3>1. TokenOK(s) BY DEF IInv, CloudOK
    <3>2. boxes[s] \in Counts /\ ~(boxes[s].coming > 0)
      BY <3>1, <1>b, <1>t DEF TokenOK, BoxesHeld, TInv
    <3>3. boxes[s].coming = 0 BY <3>2 DEF Counts
    <3> QED BY <3>2, <3>3, <1>4 DEF Counts, NoBoxes
  <2>4. Untouched(s)' /\ Holds(m, s)'
    BY <2>3, <1>4, <1>b, <1>u DEF Untouched, NoGroup, GroupTokenIs, Holds
  <2>5. ProcOK(m)' BY <2>1, <2>2, <2>4, <1>b, <1>u DEF ProcOK, At, StageOK
  <2> QED BY <2>1, <2>5, <1>4, <1>u, UnsureFacts, ProcMove
<1> QED BY <1>2, <1>3, <1>4 DEF DownSweep

LEMMA DownTemplateIInv == ASSUME IInv, NEW m \in Machines, DownTemplate(m) PROVE IInv'
<1>1. ~At(m, "idle") /\ proc[m].pc = "downTemplate" BY DEF DownTemplate, At
<1>2. PICK s \in Tokens, a \in Accounts : s = proc[m].token /\ a = proc[m].acct
  BY <1>1, BusyFacts
<1>b. Holds(m, s) /\ file[m].acct = a /\ s # Legacy /\ Untouched(s)
  BY <1>1, <1>2, BusyFacts DEF StageOK
<1>u. UNCHANGED <<file, group, boxes, owner, unsure>> BY DEF DownTemplate
<1>t. TInv /\ "downRemove" \in Pcs BY DEF IInv, Pcs
<1>3. PICK p \in Procs : /\ proc' = [proc EXCEPT ![m] = p]
                         /\ p.pc = "downRemove" /\ p.token = s /\ p.acct = a
  BY <1>2, <1>t, GotoFacts DEF DownTemplate
<1>4. proc'[m] = p /\ \A q \in Machines : q # m => proc'[q] = proc[q] BY <1>3, <1>t DEF TInv
<1>5. template' = [template EXCEPT ![a] = IF template[a] = s THEN None ELSE template[a]]
  BY <1>2 DEF DownTemplate
<1>6. /\ template' \in [Accounts -> Tokens \cup {None}] /\ template'[a] # s
      /\ \A b \in Accounts : /\ b # a => template'[b] = template[b]
                             /\ template'[b] = template[b] \/ (template[b] = s /\ template'[b] = None)
  BY <1>5, <1>t DEF TInv
<1>7. TInv' BY <1>3, <1>6, <1>u, <1>t DEF TInv
<1>8. FilesOwned' BY <1>u DEF IInv, CloudOK, FilesOwned
<1>9. NoTemplate(s)' /\ Untouched(s)' /\ Holds(m, s)'
  <2>1. \A b \in Accounts : template'[b] # s BY <1>6, <1>b, AccountOf
  <2> QED BY <2>1, <1>b, <1>u DEF NoTemplate, Untouched, NoGroup, GroupTokenIs, Holds
<1>10. TokenOK(s)'
  BY <1>9 DEF TokenOK, GroupHeld, TemplateHeld, BoxesHeld, NoTemplate, NoGroup, Untouched, NoBoxes
<1>11. ProcOK(m)' BY <1>3, <1>4, <1>9, <1>b, <1>u DEF ProcOK, At, StageOK
<1>12. \A q \in Machines : q # m => ~Holds(q, s) BY <1>b, HoldsUnique
<1>13. \A t \in Tokens : t # s => ~Holds(m, t) /\ ~Holds(m, t)' BY <1>b, <1>u DEF Holds
<1>14. \A t \in Tokens, b \in Accounts : t # s =>
         /\ template'[b] = t <=> template[b] = t
         /\ GroupTokenIs(b, t)' <=> GroupTokenIs(b, t)
  BY <1>6, <1>u DEF GroupTokenIs
<1> QED BY <1>4, <1>7, <1>8, <1>10, <1>11, <1>12, <1>13, <1>14, <1>u, Frame

LEMMA DownRemoveIInv == ASSUME IInv, NEW m \in Machines, DownRemove(m) PROVE IInv'
<1>1. ~At(m, "idle") /\ proc[m].pc = "downRemove" BY DEF DownRemove, At
<1>2. PICK s \in Tokens : s = proc[m].token BY <1>1, BusyFacts
<1>b. Untouched(s) /\ NoTemplate(s) BY <1>1, <1>2, BusyFacts DEF StageOK, At
<1>u. UNCHANGED <<template, group, boxes, owner, unsure>> BY DEF DownRemove, cloud
<1>3. PICK p \in Procs : proc' = [proc EXCEPT ![m] = p] /\ p.pc = "idle"
  BY StopFacts DEF DownRemove
<1>4. file' = [file EXCEPT ![m] = None] BY DEF DownRemove
<1>5. template' \in [Accounts -> Tokens \cup {None}] /\ \A a \in Accounts : template'[a] # s
  BY <1>b, <1>u DEF IInv, TInv, NoTemplate
<1> QED BY <1>1, <1>2, <1>3, <1>4, <1>5, <1>b, <1>u, FileGone

-----------------------------------------------------------------------------
(* scale and run, Auto Scaling and EC2. *)

\* A step that changes groups but neither who has one nor whether it is
\* being deleted.
LEMMA ScaleIInv ==
  ASSUME IInv, NEW m \in Machines, NEW a \in Accounts, NEW n \in 0..MaxBoxes, Scale(m, a, n)
  PROVE  IInv'
<1>u. UNCHANGED <<file, proc, template, boxes, owner, unsure>> BY DEF Scale
<1>1. group[a] # None BY DEF Scale, Commanded
<1>2. PICK g \in Groups : /\ group' = [group EXCEPT ![a] = g]
                          /\ g.token = group[a].token /\ g.deleting = group[a].deleting
  <2> DEFINE h == [group[a] EXCEPT !.desired = n]
  <2>0. group[a] \in Groups BY <1>1 DEF IInv, TInv
  <2>1. h \in Groups /\ h.token = group[a].token /\ h.deleting = group[a].deleting
    BY <2>0 DEF Groups
  <2>2. group' = [group EXCEPT ![a] = h] BY DEF Scale
  <2> QED BY <2>1, <2>2
<1>3. g # None BY DEF Groups
<1>4. group'[a] = g /\ \A b \in Accounts : b # a => group'[b] = group[b]
  BY <1>2 DEF IInv, TInv
<1>5. /\ \A b \in Accounts : /\ group'[b] = None <=> group[b] = None
                             /\ group[b] # None => group'[b].deleting = group[b].deleting
      /\ \A b \in Accounts, t \in Tokens : GroupTokenIs(b, t)' <=> GroupTokenIs(b, t)
  BY <1>1, <1>2, <1>3, <1>4 DEF GroupTokenIs
<1>6. TInv' BY <1>2, <1>u DEF IInv, TInv
<1>7. FilesOwned' BY <1>u DEF IInv, CloudOK, FilesOwned
<1>8. \A t \in Tokens : (NoGroup(t)' <=> NoGroup(t)) /\ (Untouched(t)' <=> Untouched(t))
  BY <1>5, <1>u DEF NoGroup, Untouched
<1>9. ASSUME NEW t \in Tokens PROVE TokenOK(t)'
  <2>0. TokenOK(t) BY DEF IInv, CloudOK
  <2>a. Accounted(t)' <=> Accounted(t) BY <1>u DEF Accounted, Holds
  <2>1. GroupHeld(t)' BY <2>0, <2>a, <1>5, <1>u DEF TokenOK, GroupHeld, Holds
  <2>2. TemplateHeld(t)' BY <2>0, <2>a, <1>u DEF TokenOK, TemplateHeld, Holds
  <2>3. BoxesHeld(t)' BY <2>0, <2>a, <1>8, <1>u DEF TokenOK, BoxesHeld
  <2> QED BY <2>1, <2>2, <2>3 DEF TokenOK
<1>10. ASSUME NEW q \in Machines PROVE ProcOK(q)'
  <2>1. ProcOK(q) /\ (~At(q, "idle") => proc[q].token \in Tokens) BY DEF IInv, TInv, Procs
  <2>2. \A b \in Accounts, t \in Tokens : GroupTokenIs(b, t) /\ ~group[b].deleting =>
          GroupTokenIs(b, t)' /\ ~group'[b].deleting
    BY <1>5 DEF GroupTokenIs
  <2> QED BY <2>1, <2>2, <1>5, <1>8, <1>u DEF ProcOK, StageOK, At, Holds, NoTemplate
<1> QED BY <1>6, <1>7, <1>9, <1>10 DEF IInv, CloudOK

LEMMA GroupGoesIInv == ASSUME IInv, NEW a \in Accounts, GroupGoes(a) PROVE IInv'
<1>u. UNCHANGED <<file, proc, template, boxes, owner, unsure>> BY DEF GroupGoes
<1>1. /\ group[a] # None /\ group[a].deleting /\ boxes[group[a].token].coming = 0
      /\ group' = [group EXCEPT ![a] = None]
  BY DEF GroupGoes
<1>2. group'[a] = None /\ \A b \in Accounts : b # a => group'[b] = group[b]
  BY <1>1 DEF IInv, TInv
<1>3. \A b \in Accounts, t \in Tokens : GroupTokenIs(b, t)' <=> GroupTokenIs(b, t) /\ b # a
  BY <1>2 DEF GroupTokenIs
<1>4. TInv' BY <1>1, <1>u DEF IInv, TInv
<1>5. FilesOwned' BY <1>u DEF IInv, CloudOK, FilesOwned
<1>6. \A t \in Tokens : (NoGroup(t) => NoGroup(t)') /\ (Untouched(t) => Untouched(t)')
  BY <1>3, <1>u DEF NoGroup, Untouched
<1>7. ASSUME NEW t \in Tokens PROVE TokenOK(t)'
  <2>0. TokenOK(t) BY DEF IInv, CloudOK
  <2>a. Accounted(t)' <=> Accounted(t) BY <1>u DEF Accounted, Holds
  <2>1. GroupHeld(t)' BY <2>0, <2>a, <1>3, <1>u DEF TokenOK, GroupHeld, Holds
  <2>2. TemplateHeld(t)' BY <2>0, <2>a, <1>u DEF TokenOK, TemplateHeld, Holds
  <2>3. boxes[t].coming > 0 => ~GroupTokenIs(a, t) BY <1>1 DEF GroupTokenIs
  <2>4. BoxesHeld(t)' BY <2>0, <2>a, <2>3, <1>3, <1>u DEF TokenOK, BoxesHeld, NoGroup
  <2> QED BY <2>1, <2>2, <2>4 DEF TokenOK
<1>8. ASSUME NEW q \in Machines PROVE ProcOK(q)'
  <2>1. ProcOK(q) /\ (~At(q, "idle") => proc[q].token \in Tokens) BY DEF IInv, TInv, Procs
  <2>2. \A b \in Accounts, t \in Tokens :
          /\ GroupTokenIs(b, t) /\ ~group[b].deleting => GroupTokenIs(b, t)' /\ ~group'[b].deleting
          /\ group[b] = None \/ GroupTokenIs(b, t) => group'[b] = None \/ GroupTokenIs(b, t)'
    BY <1>1, <1>2, <1>3
  <2> QED BY <2>1, <2>2, <1>6, <1>u DEF ProcOK, StageOK, At, Holds, NoTemplate
<1> QED BY <1>4, <1>5, <1>7, <1>8 DEF IInv, CloudOK

\* A step of AWS on the boxes of one token: a launch needs its group.
LEMMA BoxStep ==
  ASSUME IInv, NEW s \in Tokens, NEW e \in Counts, boxes' = [boxes EXCEPT ![s] = e],
         UNCHANGED <<file, proc, template, group, owner, unsure>>,
         ~NoGroup(s) \/ (boxes[s] # NoBoxes /\ e.coming <= boxes[s].coming)
  PROVE  IInv'
<1>1. /\ boxes' \in [Tokens -> Counts] /\ boxes'[s] = e
      /\ \A t \in Tokens : t # s => boxes'[t] = boxes[t]
  BY DEF IInv, TInv
<1>2. boxes[s] \in Counts BY DEF IInv, TInv
<1>3. boxes[s].coming \in Nat /\ e.coming \in Nat BY <1>2 DEF Counts
<1>4. \A t \in Tokens : Untouched(t) => boxes'[t] = NoBoxes BY <1>1 DEF Untouched
<1>5. \A t \in Tokens : boxes'[t].coming > 0 => boxes[t].coming > 0 \/ ~NoGroup(t)
  BY <1>1, <1>3
<1> QED BY <1>1, <1>4, <1>5, BoxesMove

LEMMA AwsBoxIInv ==
  ASSUME IInv,
         \/ \E a \in Accounts : LaunchStarts(a) \/ ScalesIn(a)
         \/ \E t \in Tokens : BoxAppears(t) \/ BoxEnds(t)
  PROVE  IInv'
<1>u. UNCHANGED <<file, proc, template, group, owner, unsure>>
  BY DEF LaunchStarts, ScalesIn, BoxAppears, BoxEnds
<1>1. ASSUME NEW a \in Accounts, LaunchStarts(a) \/ ScalesIn(a) PROVE IInv'
  <2>1. PICK s \in Tokens : s = group[a].token /\ group[a] # None
    <3>1. group[a] \in Groups BY <1>1 DEF IInv, TInv, LaunchStarts, ScalesIn
    <3> QED BY <3>1, <1>1 DEF Groups, LaunchStarts, ScalesIn
  <2>2. ~NoGroup(s) BY <2>1 DEF NoGroup, GroupTokenIs
  <2>3. boxes[s] \in Counts BY DEF IInv, TInv
  <2>4. CASE LaunchStarts(a)
    <3>1. PICK c \in Nat : c = boxes[s].coming + 1 BY <2>3 DEF Counts
    <3>2. PICK e \in Counts : e = [boxes[s] EXCEPT !.coming = c] BY <2>3 DEF Counts
    <3>3. boxes' = [boxes EXCEPT ![s] = e] BY <2>1, <2>4, <3>1, <3>2 DEF LaunchStarts
    <3> QED BY <3>3, <2>2, <1>u, BoxStep
  <2>5. CASE ScalesIn(a)
    <3>0. boxes[s].live > group[a].desired /\ group[a].desired \in Nat
      <4>1. group[a] \in Groups BY <2>1 DEF IInv, TInv
      <4> QED BY <4>1, <2>1, <2>5 DEF ScalesIn, Groups
    <3>1. PICK c \in Nat, d \in Nat : c = boxes[s].live - 1 /\ d = boxes[s].dying + 1
      <4>1. boxes[s].live \in Nat /\ boxes[s].dying \in Nat BY <2>3 DEF Counts
      <4>2. boxes[s].live - 1 \in Nat BY <4>1, <3>0
      <4>3. boxes[s].dying + 1 \in Nat BY <4>1
      <4> QED BY <4>2, <4>3
    <3>2. PICK e \in Counts : e = [boxes[s] EXCEPT !.live = c, !.dying = d] BY <2>3 DEF Counts
    <3>3. boxes' = [boxes EXCEPT ![s] = e] BY <2>1, <2>3, <2>5, <3>1, <3>2 DEF ScalesIn
    <3> QED BY <3>3, <2>2, <1>u, BoxStep
  <2> QED BY <1>1, <2>4, <2>5
<1>2. ASSUME NEW s \in Tokens, BoxAppears(s) \/ BoxEnds(s) PROVE IInv'
  <2>1. boxes[s] \in Counts BY DEF IInv, TInv
  <2>2. CASE BoxAppears(s)
    <3>1. PICK c \in Nat, d \in Nat :
            c = boxes[s].coming - 1 /\ d = boxes[s].live + 1 /\ c <= boxes[s].coming
      BY <2>1, <2>2 DEF Counts, BoxAppears
    <3>2. PICK e \in Counts : e = [boxes[s] EXCEPT !.coming = c, !.live = d] /\ e.coming = c
      <4>1. [boxes[s] EXCEPT !.coming = c, !.live = d] \in Counts BY <2>1 DEF Counts
      <4>2. [boxes[s] EXCEPT !.coming = c, !.live = d].coming = c BY <2>1 DEF Counts
      <4> QED BY <4>1, <4>2
    <3>3. boxes' = [boxes EXCEPT ![s] = e] BY <2>1, <2>2, <3>1, <3>2 DEF BoxAppears
    <3>4. boxes[s] # NoBoxes BY <2>2 DEF BoxAppears, NoBoxes
    <3> QED BY <3>1, <3>2, <3>3, <3>4, <1>u, BoxStep
  <2>3. CASE BoxEnds(s)
    <3>1. PICK c \in Nat : c = boxes[s].dying - 1 BY <2>1, <2>3 DEF Counts, BoxEnds
    <3>2. PICK e \in Counts : e = [boxes[s] EXCEPT !.dying = c] /\ e.coming = boxes[s].coming
      <4>1. [boxes[s] EXCEPT !.dying = c] \in Counts BY <2>1 DEF Counts
      <4>2. [boxes[s] EXCEPT !.dying = c].coming = boxes[s].coming BY <2>1 DEF Counts
      <4> QED BY <4>1, <4>2
    <3>3. boxes' = [boxes EXCEPT ![s] = e] BY <2>1, <2>3, <3>1, <3>2 DEF BoxEnds
    <3>4. boxes[s] # NoBoxes BY <2>3 DEF BoxEnds, NoBoxes
    <3>5. e.coming <= boxes[s].coming BY <3>2, <2>1 DEF Counts
    <3> QED BY <3>3, <3>4, <3>5, <1>u, BoxStep
  <2> QED BY <1>2, <2>2, <2>3
<1> QED BY <1>1, <1>2

\* A step that changes nothing the invariant speaks of ("run", stuttering).
LEMMA QuietIInv ==
  ASSUME IInv, UNCHANGED <<file, proc, template, group, boxes, owner, unsure>> PROVE IInv'
<1>1. \A t \in Tokens : boxes[t] \in Counts BY DEF IInv, TInv
<1>2. boxes' \in [Tokens -> Counts] BY DEF IInv, TInv
<1> QED BY <1>1, <1>2, BoxesMove DEF Untouched

LEMMA StepIInv == ASSUME IInv, [Next]_vars PROVE IInv'
<1>1. ASSUME NEW m \in Machines, UpStep(m) PROVE IInv'
  BY <1>1, CreateTemplateIInv, TemplateLookupIInv, CreateGroupIInv, GroupLookupIInv,
     GroupTakenIInv DEF UpStep
<1>2. ASSUME NEW m \in Machines, DownStep(m) PROVE IInv'
  BY <1>2, DownLegacyIInv, DownGroupIInv, DeleteGroupIInv, DownWaitIInv, DownSweepIInv,
     DownTemplateIInv, DownRemoveIInv DEF DownStep
<1>3. ASSUME NEW m \in Machines, Fault(m) PROVE IInv'
  BY <1>3, TemplateLookupFailsIInv, GroupLookupIInv, CallFailsIInv DEF Fault
<1>4. ASSUME NEW m \in Machines, NEW a \in Accounts, StartDown(m, a) PROVE IInv'
  BY <1>4, StartDownIInv
<1>5. ASSUME NEW m \in Machines, NEW a \in Accounts, Run(m, a) PROVE IInv'
  BY <1>5, QuietIInv DEF Run, cloud
<1>6. ASSUME NEW m \in Machines, NEW a \in Accounts, NEW n \in 1..MaxBoxes, StartUp(m, a, n)
      PROVE IInv'
  BY <1>6, StartUpIInv
<1>7. ASSUME NEW m \in Machines, NEW a \in Accounts, NEW n \in 0..MaxBoxes, Scale(m, a, n)
      PROVE IInv'
  BY <1>7, ScaleIInv
<1>8. ASSUME AwsStep PROVE IInv'
  BY <1>8, AwsBoxIInv, GroupGoesIInv DEF AwsStep
<1>9. ASSUME UNCHANGED vars PROVE IInv'
  BY <1>9, QuietIInv DEF vars, cloud
<1> QED BY <1>1, <1>2, <1>3, <1>4, <1>5, <1>6, <1>7, <1>8, <1>9 DEF Next

LEMMA Invariance == Spec => []IInv
BY InitIInv, StepIInv, PTL DEF Spec

-----------------------------------------------------------------------------
\* Cleanup ("up" and "down" of aws_dev.go): whatever exists in AWS for a token
\* is on file at the machine whose "up" drew the token, or is the one case of
\* a create whose ownership lookup failed; for any number of machines and any
\* interleaving of their commands, failures and kills.
THEOREM NothingForgotten == Spec => []ResourcesCovered
<1>1. IInv => ResourcesCovered
  <2> SUFFICES ASSUME IInv, NEW t \in Tokens, Exists(t) PROVE Covered(t) \/ t \in unsure
    BY DEF ResourcesCovered
  <2>1. TokenOK(t) BY DEF IInv, CloudOK
  <2>2. Accounted(t)
    BY <2>1 DEF Exists, TokenOK, GroupHeld, TemplateHeld, BoxesHeld
  <2>3. CASE \E m \in Machines : Holds(m, t)
    BY <2>3 DEF Holds, IInv, CloudOK, FilesOwned, Covered
  <2> QED BY <2>2, <2>3 DEF Accounted
<1> QED BY <1>1, Invariance, PTL

\* A group whose creator still has it on file has its name held by its own
\* launch template, from the create call to the end of "down": no other "up"
\* can put a group under the name in between.
THEOREM NameStaysLocked == Spec => []NameLocked
<1>1. IInv => NameLocked
  <2> SUFFICES ASSUME IInv, NEW a \in Accounts, group[a] # None
               PROVE  template[a] = group[a].token \/ group[a].token \in unsure
    BY DEF NameLocked
  <2>1. group[a] \in Groups BY DEF IInv, TInv
  <2>2. PICK t \in Tokens : t = group[a].token BY <2>1 DEF Groups
  <2>3. TokenOK(t) /\ GroupTokenIs(a, t) BY <2>2 DEF IInv, CloudOK, GroupTokenIs
  <2> QED BY <2>2, <2>3 DEF TokenOK, GroupHeld, Accounted
<1> QED BY <1>1, Invariance, PTL

\* "down" checks the owner token of the group and then deletes it by name
\* (aws_dev.go:663-679): the group it deletes is always its own.
THEOREM DownDeletesOwn == Spec => OnlyOwnDeleted
<1>1. ASSUME IInv, [Next]_vars
      PROVE  [\A m \in Machines :
                DeleteGroup(m) => \/ group[proc[m].acct] = None
                                  \/ GroupTokenIs(proc[m].acct, proc[m].token)]_vars
  BY <1>1, DeletesOwn
<1> QED BY <1>1, Invariance, PTL DEF Spec, OnlyOwnDeleted
=============================================================================

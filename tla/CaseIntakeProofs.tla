--------------------------- MODULE CaseIntakeProofs ---------------------------
(***************************************************************************)
(* Theorems of CaseIntake, for any number of alerts, overlapping requests  *)
(* and calls, requests lost and transactions expired.  Everything rests on *)
(* one fact: a case is never about two alerts.  Links are overwritten and  *)
(* taken away by requests that decided on an earlier state, but whatever a *)
(* request in flight is about to link, split or group, it is about the one *)
(* alert that leads to the case already.                                   *)
(***************************************************************************)
EXTENDS CaseIntake, TLAPS, WellFoundedInduction

\* Nothing goes wrong while the AML case of an AI split is made: the compensation
\* takes the group away, and the alert's own link may be gone by then.
Whole == "amlThrows" \notin Faults

(***************************************************************************)
(* The invariant.                                                          *)
(***************************************************************************)
TasksOK == tasks \in Seq(Seq(Task)) /\ Len(tasks) = Len(cases)

IntakeTypeOK ==
    /\ alerts \in [Alerts -> Alert]
    /\ \A a \in Alerts : alerts[a].case \in 0..Len(cases)
    /\ groups \subseteq Alerts
    /\ cases \in Seq(Case)
    /\ TasksOK
    /\ req \in [Requests -> Request]

\* The steps with an alert, with a case, and beside a case that was put in a group.
AboutAlert ==
    {"group", "primary", "sibling", "link", "draft", "ingest", "triage", "triageClose", "triageSplit",
     "triageTask", "predict", "aiTask", "aiGroup", "aiParent", "kinCase", "kinFinished", "kinTask"}
BeforeCase == {"idle", "group", "primary", "draft", "triage"}
BesideCase == {"sibling", "kinCase", "kinFinished", "kinTask"}

\* What a request carries, given the rows.
RequestOK(q) ==
    /\ q.case \in 0..Len(cases)
    /\ q.at \notin {"undo", "dropGroup"}
    /\ q.at = "insert" => q.arg \in TaskNames
    /\ q.at \in AboutAlert => q.alert \in Alerts
    /\ q.at \notin BeforeCase => q.case # 0
    /\ q.at \in {"completeLock", "completeTask", "completeCommit", "triage", "triageClose"} =>
           q.type \in CaseTypes
    /\ q.at = "sibling" => q.type = "FRAUD_AND_AML"
    /\ (q.at = "primary" /\ q.type = "FRAUD_AND_AML") \/ q.at = "aiParent" => q.alert \in groups
    /\ q.at \in BesideCase =>
           q.alert \in groups /\ cases[q.case].group = q.alert

\* An alert lays claim to a case: by its link, as the case's group, or through a
\* request that is going to make it so.
Claims(a, c) ==
    \/ alerts[a].case = c
    \/ cases[c].group = a
    \/ \E r \in Requests : req[r].alert = a /\ req[r].case = c

OneAlert == \A c \in CaseIds : \A a, b \in Alerts : Claims(a, c) /\ Claims(b, c) => a = b

\* An alert that asked for a case has a link or a group with a case.
KeepsCase(a) == alerts[a].kind = "ALRT" => alerts[a].case # 0 \/ InGroup(a) # {}

NInv ==
    /\ IntakeTypeOK
    /\ \A r \in Requests : RequestOK(req[r])
    /\ OneAlert
    /\ \A a \in Alerts : KeepsCase(a)
-----------------------------------------------------------------------------
(***************************************************************************)
(* What a step may do, when it is about alert b (NoAlert: about none).     *)
(***************************************************************************)
NewIds == (Len(cases) + 1)..Len(cases')
Reach(b) == {c \in CaseIds : Claims(b, c)} \union NewIds

Moves(r, q, b) ==
    /\ q \in Request /\ req' = [req EXCEPT ![r] = q]
    /\ alerts' \in [Alerts -> Alert]
    /\ cases' \in Seq(Case) /\ Len(cases) <= Len(cases')
    /\ TasksOK'
    /\ groups \subseteq groups' /\ groups' \subseteq Alerts
    /\ \A a \in Alerts : a # b => alerts'[a] = alerts[a]
    /\ b \in Alerts => alerts'[b].case \in {0} \union Reach(b) /\ KeepsCase(b)'
    /\ \A c \in CaseIds :
          \/ cases'[c].group = cases[c].group
          \/ b \in Alerts /\ Claims(b, c) /\ cases'[c].group = b
    /\ \A c \in NewIds : cases'[c].group \in {NoAlert, b}
    /\ q.alert \in {NoAlert, b}
    /\ q.alert \in Alerts => q.case \in {0} \union Reach(b)
    /\ RequestOK(q)'

\* What every step preserves: the invariant, and the groups that cases are in.
GroupsKept ==
    \A c \in CaseIds :
        c \in CaseIds' /\ (cases[c].group # NoAlert => cases'[c].group = cases[c].group)
Preserved == NInv' /\ GroupsKept

(***************************************************************************)
(* Tasks.                                                                  *)
(***************************************************************************)
\* There is a newest task of a name, if there is any.
LEMMA NewestIsOne ==
    ASSUME IntakeTypeOK, NEW c \in CaseIds, NEW n, Named(c, n) # {}
    PROVE  /\ Newest(c, n) \in Named(c, n) /\ Newest(c, n) \in Nat
           /\ \A o \in Named(c, n) : o <= Newest(c, n)
<1> DEFINE T == Named(c, n)
           last == Len(tasks[c])
           Back == {last - t : t \in T}
<1>1. last \in Nat /\ T \subseteq 1..last /\ T # {}
    <2>1. tasks[c] \in Seq(Task)
        BY DEF IntakeTypeOK, TasksOK, CaseIds
    <2> QED
        BY <2>1 DEF Named
<1> HIDE DEF T, last
<1>2. Back \subseteq Nat /\ Back # {}
    <2>1. \A t \in T : last - t \in Nat
        BY <1>1
    <2> QED
        BY <1>1, <2>1
<1>3. PICK x \in Back : \A y \in Back : ~(<<y, x>> \in OpToRel(<, Nat))
    BY <1>2, NatLessThanWellFounded, WFMin
<1>4. \A y \in Back : ~(y < x)
    BY <1>2, <1>3 DEF OpToRel
<1>5. PICK t \in T : x = last - t
    BY <1>2
<1>6. \A o \in T : o <= t
    <2>1. SUFFICES ASSUME NEW o \in T PROVE o <= t
        OBVIOUS
    <2>2. last - o \in Back
        OBVIOUS
    <2> QED
        BY <1>1, <1>4, <1>5, <2>2
<1>7. Newest(c, n) = CHOOSE u \in T : \A o \in T : o <= u
    BY DEF Newest, T
<1>8. Newest(c, n) \in T /\ \A o \in T : o <= Newest(c, n)
    BY <1>6, <1>7
<1> QED
    BY <1>1, <1>8 DEF T

LEMMA SameTasks == ASSUME IntakeTypeOK, UNCHANGED <<cases, tasks>> PROVE TasksOK'
BY DEF IntakeTypeOK, TasksOK

\* The list of a case is written; one that is not there changes nothing.
LEMMA TasksWritten ==
    ASSUME IntakeTypeOK, NEW c, NEW list, tasks' = [tasks EXCEPT ![c] = list],
           c \in CaseIds => list \in Seq(Task), Len(cases') = Len(cases)
    PROVE  TasksOK'
<1>1. Len(cases) \in Nat /\ tasks \in [1..Len(cases) -> Seq(Task)]
    BY DEF IntakeTypeOK, TasksOK
<1>2. tasks' \in [1..Len(cases) -> Seq(Task)]
    BY <1>1 DEF CaseIds
<1>3. tasks' \in Seq(Seq(Task))
    BY <1>1, <1>2
<1>4. Len(tasks') = Len(cases)
    BY <1>1, <1>2
<1> QED
    BY <1>3, <1>4 DEF TasksOK

LEMMA TasksAdded ==
    ASSUME IntakeTypeOK, NEW c, NEW task \in Task, AddTask(c, task), Len(cases') = Len(cases)
    PROVE  TasksOK'
<1>1. c \in CaseIds => Append(tasks[c], task) \in Seq(Task)
    BY DEF IntakeTypeOK, TasksOK, CaseIds
<1> QED
    BY <1>1, TasksWritten DEF AddTask

\* A task is completed.
Closes(c, t) == tasks' = [tasks EXCEPT ![c][t].open = FALSE]

LEMMA ListFinished ==
    ASSUME NEW list \in Seq(Task), NEW t PROVE [list EXCEPT ![t].open = FALSE] \in Seq(Task)
<1>1. PICK n \in Nat : list \in [1..n -> Task]
    OBVIOUS
<1>2. [list EXCEPT ![t].open = FALSE] \in [1..n -> Task]
    BY <1>1, Zenon DEF Task
<1> QED
    BY <1>2

LEMMA TasksFinished ==
    ASSUME IntakeTypeOK, NEW c, NEW t, Closes(c, t), Len(cases') = Len(cases)
    PROVE  TasksOK'
<1>1. c \in CaseIds => tasks[c] \in Seq(Task)
    BY DEF IntakeTypeOK, TasksOK, CaseIds
<1>2. c \in CaseIds => [tasks[c] EXCEPT ![t].open = FALSE] \in Seq(Task)
    BY <1>1, ListFinished, Zenon
<1> QED
    BY <1>2, TasksWritten DEF Closes

LEMMA TaskRows ==
    ASSUME NEW n \in TaskNames PROVE Kept(n) \in Task /\ Finished(n) \in Task
BY DEF Kept, Finished, Task

LEMMA RowTypes ==
    ASSUME IntakeTypeOK
    PROVE  /\ Len(cases) \in Nat
           /\ \A c \in CaseIds : cases[c] \in Case /\ c \in Nat
           /\ \A a \in Alerts : alerts[a].case \in Nat
           /\ \A r \in Requests : req[r] \in Request
BY DEF IntakeTypeOK, CaseIds

\* An existing case stays in its group.
LEMMA GroupsStay ==
    ASSUME NInv, NEW r \in Requests, NEW q, NEW b, Moves(r, q, b)
    PROVE  GroupsKept
<1> USE DEF NInv
<1>1. Len(cases) \in Nat /\ Len(cases') \in Nat
    BY RowTypes DEF Moves
<1>2. \A c \in CaseIds : c \in CaseIds'
    BY <1>1 DEF CaseIds, Moves
<1>3. ASSUME NEW c \in CaseIds, cases[c].group # NoAlert
      PROVE  cases'[c].group = cases[c].group
    <2>1. cases[c].group \in Alerts
        BY <1>3, RowTypes DEF Case
    <2>2. Claims(cases[c].group, c)
        BY DEF Claims
    <2> QED
        BY <2>1, <2>2 DEF OneAlert, Moves
<1> QED
    BY <1>2, <1>3 DEF GroupsKept

LEMMA OthersCarryOn ==
    ASSUME NInv, NEW r \in Requests, NEW q, NEW b, Moves(r, q, b), NEW p \in Requests, p # r
    PROVE  RequestOK(req[p])'
<1> USE DEF NInv
<1>1. req'[p] = req[p]
    BY DEF Moves, IntakeTypeOK
<1>2. RequestOK(req[p]) /\ req[p] \in Request
    BY RowTypes
<1>3. Len(cases) \in Nat /\ Len(cases') \in Nat /\ Len(cases) <= Len(cases') /\ groups \subseteq groups'
    BY RowTypes DEF Moves
<1>4. req[p].case \in 0..Len(cases')
    BY <1>2, <1>3 DEF RequestOK
<1>5. ASSUME req[p].at \in BesideCase
      PROVE  req[p].alert \in groups' /\ cases'[req[p].case].group = req[p].alert
    <2>1. req[p].case \in CaseIds /\ req[p].alert \in groups
        BY <1>2, <1>3, <1>5 DEF RequestOK, CaseIds, BesideCase, BeforeCase
    <2>2. req[p].alert # NoAlert
        BY <2>1, IntakeAssumption DEF IntakeTypeOK
    <2> QED
        BY <1>2, <1>3, <1>5, <2>1, <2>2, GroupsStay DEF RequestOK, GroupsKept
<1> QED
    BY <1>1, <1>2, <1>3, <1>4, <1>5 DEF RequestOK

\* What leads to a case afterwards led to it before, or is what the step is about.
LEMMA ClaimsStay ==
    ASSUME NInv, NEW r \in Requests, NEW q, NEW b, Moves(r, q, b),
           NEW a \in Alerts, NEW c \in CaseIds', Claims(a, c)'
    PROVE  IF c \in CaseIds THEN Claims(a, c) ELSE a = b
<1> USE DEF NInv
<1>1. Len(cases) \in Nat /\ Len(cases') \in Nat /\ c \in 1..Len(cases')
    BY RowTypes DEF Moves, CaseIds
<1>2. c \in CaseIds \/ c \in NewIds
    BY <1>1 DEF CaseIds, NewIds
<1>3. b \in Alerts => \A x \in Reach(b) : x \in CaseIds => Claims(b, x)
    BY <1>1 DEF Reach, CaseIds, NewIds
<1>4. CASE alerts'[a].case = c
    <2>1. CASE a # b
        BY <1>1, <1>4, <2>1 DEF Moves, IntakeTypeOK, CaseIds, Claims
    <2>2. CASE a = b
        BY <1>1, <1>3, <1>4, <2>2 DEF Moves
    <2> QED
        BY <2>1, <2>2
<1>5. CASE cases'[c].group = a
    <2>1. CASE c \in CaseIds
        BY <1>5, <2>1 DEF Moves, Claims
    <2>2. CASE c \notin CaseIds
        BY <1>2, <1>5, <2>2, IntakeAssumption DEF Moves
    <2> QED
        BY <2>1, <2>2
<1>6. ASSUME NEW p \in Requests, req'[p].alert = a, req'[p].case = c
      PROVE  IF c \in CaseIds THEN Claims(a, c) ELSE a = b
    <2>1. CASE p = r
        <3>1. req'[p] = q
            BY <2>1 DEF Moves, IntakeTypeOK
        <3>2. a = b /\ c \in Reach(b)
            BY <1>1, <1>6, <3>1, IntakeAssumption DEF Moves
        <3> QED
            BY <1>3, <3>2
    <2>2. CASE p # r
        <3>1. req'[p] = req[p]
            BY <2>2 DEF Moves, IntakeTypeOK
        <3>2. c \in CaseIds
            BY <1>1, <1>6, <3>1 DEF RequestOK, CaseIds
        <3> QED
            BY <1>6, <3>1, <3>2 DEF Claims
    <2> QED
        BY <2>1, <2>2
<1> QED
    BY <1>4, <1>5, <1>6 DEF Claims

LEMMA MovesKeepNInv ==
    ASSUME NInv, NEW r \in Requests, NEW q, NEW b, Moves(r, q, b)
    PROVE  Preserved
<1> USE DEF NInv
<1>1. Len(cases) \in Nat /\ Len(cases') \in Nat /\ Len(cases) <= Len(cases')
    BY RowTypes DEF Moves
<1>2. IntakeTypeOK'
    <2>1. req' \in [Requests -> Request]
        BY DEF Moves, IntakeTypeOK
    <2>2. ASSUME NEW a \in Alerts PROVE alerts'[a].case \in 0..Len(cases')
        <3>1. CASE a # b
            BY <1>1, <3>1 DEF Moves, IntakeTypeOK
        <3>2. CASE a = b
            BY <1>1, <3>2 DEF Moves, Reach, CaseIds, NewIds
        <3> QED
            BY <3>1, <3>2
    <2> QED
        BY <2>1, <2>2 DEF Moves, IntakeTypeOK
<1>3. \A p \in Requests : RequestOK(req[p])'
    <2> TAKE p \in Requests
    <2>1. CASE p = r
        BY <2>1 DEF Moves, IntakeTypeOK
    <2>2. CASE p # r
        BY <2>2, OthersCarryOn
    <2> QED
        BY <2>1, <2>2
<1>4. OneAlert'
    <2>1. SUFFICES ASSUME NEW c \in CaseIds', NEW a \in Alerts, NEW e \in Alerts,
                          Claims(a, c)', Claims(e, c)'
                   PROVE  a = e
        BY DEF OneAlert
    <2>2. /\ IF c \in CaseIds THEN Claims(a, c) ELSE a = b
          /\ IF c \in CaseIds THEN Claims(e, c) ELSE e = b
        BY <2>1, ClaimsStay
    <2> QED
        BY <2>2 DEF OneAlert
<1>5. \A a \in Alerts : KeepsCase(a)'
    <2> TAKE a \in Alerts
    <2>1. CASE a = b
        BY <2>1 DEF Moves
    <2>2. CASE a # b
        <3>1. alerts'[a] = alerts[a]
            BY <2>2 DEF Moves
        <3>2. InGroup(a) # {} => InGroup(a)' # {}
            BY GroupsStay, IntakeAssumption DEF InGroup, GroupsKept
        <3> QED
            BY <3>1, <3>2 DEF KeepsCase
    <2> QED
        BY <2>1, <2>2
<1>6. NInv'
    BY <1>2, <1>3, <1>4, <1>5
<1> QED
    BY <1>6, GroupsStay DEF Preserved
-----------------------------------------------------------------------------
(***************************************************************************)
(* Requests.                                                               *)
(***************************************************************************)
Args == TaskNames \union {"none", "investigate", "close", "both", "ready", "inTriage", "expired"}
Types == CaseTypes \union {NoType}
LEMMA Puts ==
    ASSUME NEW q \in Request
    PROVE  /\ \A x \in Steps : [q EXCEPT !.at = x] \in Request
           /\ \A x \in Roles : [q EXCEPT !.role = x] \in Request
           /\ \A x \in Alerts : [q EXCEPT !.alert = x] \in Request
           /\ \A x \in Nat : /\ [q EXCEPT !.case = x] \in Request
                             /\ [q EXCEPT !.task = x] \in Request
                             /\ [q EXCEPT !.home = x] \in Request
           /\ \A x \in Seq(Nat) : [q EXCEPT !.kin = x] \in Request
           /\ \A x \in Types : [q EXCEPT !.type = x] \in Request
           /\ \A x \in Args : [q EXCEPT !.arg = x] \in Request
<1>1. \A x \in Steps : [q EXCEPT !.at = x] \in Request
    BY DEF Request
<1>2. \A x \in Roles : [q EXCEPT !.role = x] \in Request
    BY DEF Request
<1>3. \A x \in Alerts : [q EXCEPT !.alert = x] \in Request
    BY DEF Request
<1>4. \A x \in Nat : [q EXCEPT !.case = x] \in Request
    BY DEF Request
<1>5. \A x \in Nat : [q EXCEPT !.task = x] \in Request
    BY DEF Request
<1>6. \A x \in Nat : [q EXCEPT !.home = x] \in Request
    BY DEF Request
<1>7. \A x \in Seq(Nat) : [q EXCEPT !.kin = x] \in Request
    BY DEF Request
<1>8. \A x \in Types : [q EXCEPT !.type = x] \in Request
    BY DEF Request, Types
<1>9. \A x \in Args : [q EXCEPT !.arg = x] \in Request
    BY DEF Request, Args
<1> QED
    BY <1>1, <1>2, <1>3, <1>4, <1>5, <1>6, <1>7, <1>8, <1>9
-----------------------------------------------------------------------------
(***************************************************************************)
(* Steps that leave every case in its group and every alert alone.         *)
(***************************************************************************)
LEMMA IdleRequest ==
    /\ Idle \in Request /\ Idle.alert = NoAlert /\ Idle.case = 0 /\ Idle.at = "idle"
    /\ Idle.type = NoType
BY DEF Idle, Request, Steps, NoType

LEMMA IdleOK == ASSUME IntakeTypeOK PROVE RequestOK(Idle)
BY IdleRequest, RowTypes
   DEF RequestOK, AboutAlert, BeforeCase, BesideCase, NoType

LEMMA KeepsGroups ==
    ASSUME NInv, NEW r \in Requests, NEW q \in Request, req' = [req EXCEPT ![r] = q],
           alerts' = alerts, groups \subseteq groups', groups' \subseteq Alerts,
           cases' \in Seq(Case), Len(cases') = Len(cases), TasksOK',
           \A c \in CaseIds : cases'[c].group = cases[c].group,
           q.case = 0 \/ q.alert = NoAlert \/ Claims(q.alert, q.case),
           RequestOK(q)'
    PROVE  Preserved
<1> USE DEF NInv
<1>1. Len(cases) \in Nat /\ \A a \in Alerts : alerts[a].case \in 0..Len(cases)
    BY RowTypes DEF IntakeTypeOK
<1>2. NewIds = {}
    BY <1>1 DEF NewIds
<1>3. q.case \in 0..Len(cases) /\ q.alert \in Alerts \union {NoAlert}
    BY DEF RequestOK, Request
<1>4. \A a \in Alerts : KeepsCase(a)'
    <2> TAKE a \in Alerts
    <2>1. InGroup(a)' = InGroup(a)
        BY DEF InGroup, CaseIds
    <2> QED
        BY <2>1 DEF KeepsCase
<1>5. \A a \in Alerts : alerts[a].case \in {0} \union Reach(a)
    BY <1>1 DEF Reach, CaseIds, Claims
<1>6. q.alert \in Alerts => q.case \in {0} \union Reach(q.alert)
    BY <1>1, <1>3, IntakeAssumption DEF Reach, CaseIds
<1>7. Moves(r, q, q.alert)
    BY <1>1, <1>2, <1>3, <1>4, <1>5, <1>6 DEF Moves, IntakeTypeOK
<1> QED
    BY <1>7, MovesKeepNInv

\* The rows stay as they are.
LEMMA QuietStep ==
    ASSUME NInv, NEW r \in Requests, NEW q \in Request, req' = [req EXCEPT ![r] = q],
           UNCHANGED <<alerts, groups, cases>>, TasksOK',
           q.case = 0 \/ q.alert = NoAlert \/ (q.alert = req[r].alert /\ q.case = req[r].case)
                      \/ Claims(q.alert, q.case),
           RequestOK(q)
    PROVE  Preserved
<1> USE DEF NInv
<1>1. RequestOK(q)'
    BY DEF RequestOK
<1>2. q.case = 0 \/ q.alert = NoAlert \/ Claims(q.alert, q.case)
    BY DEF Claims
<1> QED
    BY <1>1, <1>2, KeepsGroups DEF IntakeTypeOK, CaseIds

\* A row of cases gets another status, or also another type.
LEMMA RowStep ==
    ASSUME NInv, NEW r \in Requests, NEW q \in Request, req' = [req EXCEPT ![r] = q],
           NEW c \in CaseIds, NEW row \in Case, cases' = [cases EXCEPT ![c] = row],
           row.group = cases[c].group,
           UNCHANGED <<alerts, groups>>, TasksOK',
           q.case = 0 \/ q.alert = NoAlert \/ (q.alert = req[r].alert /\ q.case = req[r].case),
           RequestOK(q)
    PROVE  Preserved
<1> USE DEF NInv
<1>1. cases' \in Seq(Case) /\ Len(cases') = Len(cases)
    BY DEF IntakeTypeOK, CaseIds
<1>2. \A d \in CaseIds : cases'[d] = IF d = c THEN row ELSE cases[d]
    BY DEF IntakeTypeOK, CaseIds
<1>3. \A d \in CaseIds : cases'[d].group = cases[d].group
    BY <1>2
<1>4. RequestOK(q)'
    <2>1. q.at \in BesideCase => q.case \in CaseIds
        BY RowTypes DEF RequestOK, BesideCase, BeforeCase, CaseIds
    <2> QED
        BY <1>1, <1>3, <2>1 DEF RequestOK
<1>5. q.case = 0 \/ q.alert = NoAlert \/ Claims(q.alert, q.case)
    BY DEF Claims
<1> QED
    BY <1>1, <1>3, <1>4, <1>5, KeepsGroups DEF IntakeTypeOK

\* A request is done, or lost.
LEMMA DoneStep ==
    ASSUME NInv, NEW r \in Requests, Done(r), UNCHANGED <<alerts, groups, cases>>, TasksOK'
    PROVE  Preserved
BY QuietStep, IdleRequest, IdleOK DEF NInv, Done, Goes

\* A request goes on, about the same alert and the same case.
LEMMA OnwardStep ==
    ASSUME NInv, NEW r \in Requests, NEW q \in Request, req' = [req EXCEPT ![r] = q],
           UNCHANGED <<alerts, groups, cases>>, TasksOK',
           q.alert = req[r].alert, q.case = req[r].case, RequestOK(q)
    PROVE  Preserved
BY QuietStep

\* What is left to do when the last task is inserted.
LEMMA InsertStep ==
    ASSUME NInv, NEW r \in Requests, NEW n \in TaskNames, ThenInsert(r, n),
           req[r].at \notin BeforeCase, UNCHANGED <<alerts, groups, cases>>, TasksOK'
    PROVE  Preserved
<1> PICK q : q = req[r]
    OBVIOUS
<1> PICK p : p = [q EXCEPT !.at = "insert", !.arg = n]
    OBVIOUS
<1>1. q \in Request /\ RequestOK(q) /\ q.at \notin BeforeCase
    BY RowTypes DEF NInv
<1>2. p \in Request
    BY <1>1, Puts, Zenon DEF Steps, Args
<1>3. /\ p.at = "insert" /\ p.arg = n
      /\ p.alert = q.alert /\ p.case = q.case /\ p.type = q.type
    BY <1>1 DEF Request
<1>4. RequestOK(p)
    BY <1>1, <1>3 DEF RequestOK, AboutAlert, BeforeCase, BesideCase
<1>5. req' = [req EXCEPT ![r] = p]
    BY DEF ThenInsert, Goes
<1> QED
    BY <1>2, <1>3, <1>4, <1>5, OnwardStep

\* The steps that need a case, and whose case and type are not written by them.
Plain ==
    {"legacyReady", "legacyTask", "abandon", "abandonTask", "approve", "reject",
     "rejectTask", "insertFirst", "investigate", "ready", "aiClose", "triageCommit"}

LEMMA ContinuesTo ==
    ASSUME NInv, NEW r \in Requests, NEW at \in Steps, NEW p, p = [req[r] EXCEPT !.at = at]
    PROVE  /\ p \in Request /\ p.at = at
           /\ p.alert = req[r].alert /\ p.case = req[r].case /\ p.type = req[r].type
           /\ RequestOK(req[r]) /\ req[r] \in Request
           /\ req[r].at \notin BeforeCase /\ at \in Plain => RequestOK(p)
<1> PICK q : q = req[r]
    OBVIOUS
<1>1. q \in Request /\ RequestOK(q)
    BY RowTypes DEF NInv
<1>2. p \in Request
    BY <1>1, Puts, Zenon
<1>3. p.at = at /\ p.alert = q.alert /\ p.case = q.case /\ p.type = q.type
    BY <1>1 DEF Request
<1>4. q.at \notin BeforeCase /\ at \in Plain => RequestOK(p)
    BY <1>1, <1>3 DEF RequestOK, Plain, AboutAlert, BeforeCase, BesideCase
<1> QED
    BY <1>1, <1>2, <1>3, <1>4

LEMMA PlainContinues ==
    ASSUME NInv, NEW r \in Requests, NEW at \in Plain, Continues(r, at), req[r].at \notin BeforeCase,
           UNCHANGED <<alerts, groups, cases>>, TasksOK'
    PROVE  Preserved
<1> PICK p : p = [req[r] EXCEPT !.at = at]
    OBVIOUS
<1>1. at \in Steps
    BY DEF Plain, Steps
<1>2. /\ p \in Request /\ RequestOK(p)
      /\ p.alert = req[r].alert /\ p.case = req[r].case
    BY <1>1, ContinuesTo
<1>3. req' = [req EXCEPT ![r] = p]
    BY DEF Continues, Goes
<1> QED
    BY <1>2, <1>3, OnwardStep

\* The checks of the handlers of creation.
LEMMA CreationCallsKeep ==
    ASSUME NInv, NEW r \in Requests, CreationCalls(r)
    PROVE  Preserved
\* Those about an alert that has no case.
<1>1. ASSUME NEW a \in Alerts, NEW role \in Roles, NEW type \in CaseTypes,
             NEW at \in {"group", "primary", "draft"},
             type = "FRAUD_AND_AML" => at # "primary",
             NEW q, q = [Idle EXCEPT !.at = at, !.role = role, !.alert = a, !.type = type],
             Starts(r, q), UNCHANGED rows
      PROVE  Preserved
    <2>1. q \in Request
        BY <1>1, IdleRequest, Puts, Zenon DEF Steps, Types
    <2>2. q.at = at /\ q.alert = a /\ q.type = type /\ q.case = 0
        BY <1>1 DEF Idle
    <2>3. Len(cases) \in Nat
        BY RowTypes DEF NInv
    <2>4. RequestOK(q)
        BY <1>1, <2>2, <2>3 DEF RequestOK, CaseTypes, AboutAlert, BeforeCase, BesideCase
    <2> QED
        BY <1>1, <2>1, <2>2, <2>4, SameTasks, QuietStep DEF NInv, Starts, rows
\* Those about a case.
<1>2. ASSUME NEW q \in Request, Starts(r, q), UNCHANGED rows,
             q.case \in CaseIds, q.alert = NoAlert,
             q.at \in {"completeLock", "legacyReady", "abandon", "approve", "reject"},
             q.at = "completeLock" => q.type \in CaseTypes
      PROVE  Preserved
    <2>1. q.case \in 0..Len(cases) /\ q.case # 0
        BY <1>2, RowTypes DEF NInv, CaseIds
    <2>2. RequestOK(q)
        BY <1>2, <2>1 DEF RequestOK, AboutAlert, BeforeCase, BesideCase
    <2> QED
        BY <1>2, <2>2, SameTasks, QuietStep DEF NInv, Starts, rows
<1>3. ASSUME NEW c \in CaseIds, NEW role \in Roles, NEW type \in CaseTypes,
             CompleteCheck(r, role, c, type)
      PROVE  Preserved
    <2> PICK q : q = [Idle EXCEPT !.at = "completeLock", !.role = role, !.case = c, !.type = type]
        OBVIOUS
    <2>1. q \in Request
        BY RowTypes, IdleRequest, Puts, Zenon DEF NInv, Steps, Types
    <2>2. q.at = "completeLock" /\ q.case = c /\ q.alert = NoAlert /\ q.type = type
        BY DEF Idle
    <2> QED
        BY <1>2, <1>3, <2>1, <2>2 DEF CompleteCheck, CaseTypes
<1>4. ASSUME NEW c \in CaseIds, LegacyCheck(r, c) PROVE Preserved
    <2> PICK q : q = [Idle EXCEPT !.at = "legacyReady", !.role = "SUPERVISOR", !.case = c]
        OBVIOUS
    <2>1. q \in Request
        BY RowTypes, IdleRequest, Puts, Zenon DEF NInv, Steps, Roles
    <2>2. q.at = "legacyReady" /\ q.case = c /\ q.alert = NoAlert /\ q.type = NoType
        BY DEF Idle
    <2> QED
        BY <1>2, <1>4, <2>1, <2>2 DEF LegacyCheck, NoType
<1>5. ASSUME NEW c \in CaseIds, NEW role \in Roles, AbandonCheck(r, role, c) PROVE Preserved
    <2> PICK q : q = [Idle EXCEPT !.at = "abandon", !.role = role, !.case = c,
                                  !.task = Newest(c, "Complete")]
        OBVIOUS
    <2>1. Newest(c, "Complete") \in Nat
        BY <1>5, NewestIsOne DEF NInv, AbandonCheck, NewestIsOpen
    <2>2. q \in Request
        <3>1. "abandon" \in Steps /\ c \in Nat
            BY RowTypes DEF NInv, Steps
        <3> QED
            BY <2>1, <3>1, IdleRequest, Puts, Zenon
    <2>3. q.at = "abandon" /\ q.case = c /\ q.alert = NoAlert /\ q.type = NoType
        BY DEF Idle
    <2> QED
        BY <1>2, <1>5, <2>2, <2>3 DEF AbandonCheck, NoType
<1>6. ASSUME NEW c \in CaseIds, NEW t \in OpenNamed(c, "Approve"), NEW step \in {"approve", "reject"},
             DecisionCheck(r, c, t, step)
      PROVE  Preserved
    <2> PICK q : q = [Idle EXCEPT !.at = step, !.role = "SUPERVISOR", !.case = c, !.task = t]
        OBVIOUS
    <2>1. t \in Nat
        BY DEF OpenNamed, Named
    <2>2. q \in Request
        <3>1. step \in Steps /\ c \in Nat /\ "SUPERVISOR" \in Roles
            BY RowTypes DEF NInv, Steps, Roles
        <3> QED
            BY <2>1, <3>1, IdleRequest, Puts, Zenon
    <2>3. q.at = step /\ q.case = c /\ q.alert = NoAlert /\ q.type = NoType
        BY DEF Idle
    <2> QED
        BY <1>2, <1>6, <2>2, <2>3, Zenon DEF DecisionCheck, NoType
<1>7. ASSUME NEW role \in Roles, NEW a \in Alerts, NEW type \in CaseTypes,
             ManualCheck(r, role, a, type) \/ DraftCheck(r, role, a, type)
      PROVE  Preserved
    BY <1>1, <1>7, Zenon DEF ManualCheck, DraftCheck, CaseTypes
<1> QED
    BY <1>3, <1>4, <1>5, <1>6, <1>7, Zenon DEF CreationCalls, CaseTypes

\* What getAlertByCaseId returns leads to the case.
LEMMA AlertsClaim ==
    ASSUME NInv, NEW c \in CaseIds, NEW a \in AlertsOf(c) PROVE a \in Alerts /\ Claims(a, c)
<1>1. cases[c].group \in Alerts \union {NoAlert}
    BY RowTypes DEF NInv, Case
<1> QED
    BY <1>1 DEF AlertsOf, Claims

\* The steps of the handlers of creation that write no row but a task.
LEMMA CreationTasksKeep ==
    ASSUME NInv, NEW r \in Requests,
           \/ CompleteLock(r) \/ CompleteTask(r) \/ LegacyTask(r) \/ AbandonTask(r) \/ RejectTask(r)
    PROVE  Preserved
<1> PICK q : q = req[r]
    OBVIOUS
<1>1. q \in Request /\ RequestOK(q) /\ IntakeTypeOK
    BY RowTypes DEF NInv
<1>2. CASE CompleteLock(r)
    <2>1. q.at = "completeLock" /\ UNCHANGED <<alerts, groups, cases>> /\ TasksOK'
        BY <1>1, <1>2, SameTasks DEF CompleteLock, rows
    <2>2. CASE Done(r)
        BY <2>1, <2>2, DoneStep
    <2>3. CASE ~Done(r)
        <3>1. NewestIsOpen(q.case, "Complete")
            BY <1>2, <2>3 DEF CompleteLock
        <3>2. q.case \in CaseIds
            BY <1>1, <2>1, RowTypes DEF RequestOK, BeforeCase, CaseIds
        <3>3. PICK a \in IF Splits(q.role, q.type) THEN AlertsOf(q.case) ELSE {NoAlert} :
                  req' = [req EXCEPT ![r] = [q EXCEPT !.at = "completeTask",
                                                      !.task = Newest(q.case, "Complete"), !.alert = a]]
            BY <1>2, <2>3, Zenon DEF CompleteLock, Goes
        <3> PICK t : t = Newest(q.case, "Complete")
            OBVIOUS
        <3> PICK p : p = [q EXCEPT !.at = "completeTask", !.task = t, !.alert = a]
            OBVIOUS
        <3>4. a = NoAlert \/ (a \in Alerts /\ Claims(a, q.case))
            BY <3>2, <3>3, AlertsClaim
        <3>5. t \in Nat
            BY <1>1, <3>1, <3>2, NewestIsOne DEF NewestIsOpen
        <3>6. p \in Request
            <4> PICK mid : mid = [q EXCEPT !.at = "completeTask", !.task = t]
                OBVIOUS
            <4>1. mid \in Request
                BY <1>1, <3>5, Puts, Zenon DEF Steps
            <4>2. p = [mid EXCEPT !.alert = a]
                BY <1>1 DEF Request
            <4> QED
                BY <3>4, <4>1, <4>2, ZenonT(60) DEF Request
        <3>7. p.at = "completeTask" /\ p.alert = a /\ p.case = q.case /\ p.type = q.type
            BY <1>1 DEF Request
        <3>8. RequestOK(p)
            BY <1>1, <2>1, <3>7, SMTT(30) DEF RequestOK, AboutAlert, BeforeCase, BesideCase
        <3> QED
            BY <2>1, <3>3, <3>4, <3>6, <3>7, <3>8, QuietStep
    <2> QED
        BY <2>2, <2>3
<1>3. CASE CompleteTask(r)
    <2>1. q.at = "completeTask" /\ UNCHANGED <<alerts, groups, cases>> /\ TasksOK'
        BY <1>1, <1>3, TasksFinished DEF CompleteTask, FinishTask, Closes
    <2>2. CASE Done(r)
        BY <2>1, <2>2, DoneStep
    <2>3. CASE ~Done(r)
        <3> PICK p : p = [q EXCEPT !.at = "completeCommit"]
            OBVIOUS
        <3>1. req' = [req EXCEPT ![r] = p]
            BY <1>3, <2>3 DEF CompleteTask, Continues, Goes
        <3>2. p \in Request
            BY <1>1, Puts, Zenon DEF Steps
        <3>3. p.at = "completeCommit" /\ p.alert = q.alert /\ p.case = q.case /\ p.type = q.type
            BY <1>1 DEF Request
        <3>4. RequestOK(p)
            BY <1>1, <2>1, <3>3 DEF RequestOK, AboutAlert, BeforeCase, BesideCase
        <3> QED
            BY <2>1, <3>1, <3>2, <3>3, <3>4, OnwardStep
    <2> QED
        BY <2>2, <2>3
<1>4. CASE LegacyTask(r)
    <2>1. q.at \notin BeforeCase /\ UNCHANGED <<alerts, groups, cases>>
        BY <1>4 DEF LegacyTask, BeforeCase
    <2>2. TasksOK'
        BY <1>1, <1>4, SameTasks, TasksFinished DEF LegacyTask, FinishTask, Closes
    <2> QED
        BY <1>4, <2>1, <2>2, DoneStep, InsertStep DEF LegacyTask, TaskNames
<1>5. CASE AbandonTask(r)
    <2>1. TasksOK'
        BY <1>1, <1>5, TasksFinished DEF AbandonTask, FinishTask, Closes
    <2> QED
        BY <1>5, <2>1, DoneStep DEF AbandonTask
<1>6. CASE RejectTask(r)
    <2>1. q.at \notin BeforeCase /\ TasksOK'
        BY <1>1, <1>6, TasksFinished DEF RejectTask, FinishTask, Closes, BeforeCase
    <2> QED
        BY <1>6, <2>1, InsertStep DEF RejectTask, TaskNames
<1> QED
    BY <1>2, <1>3, <1>4, <1>5, <1>6

\* The steps of the handlers of creation that write the status of a case, or only a
\* group.
LEMMA StatusWritten ==
    ASSUME NInv, NEW c \in CaseIds, NEW s \in Origins, cases' = [cases EXCEPT ![c].status = s]
    PROVE  \E row \in Case : /\ cases' = [cases EXCEPT ![c] = row]
                             /\ row.group = cases[c].group /\ row.type = cases[c].type
<1> PICK old : old = cases[c]
    OBVIOUS
<1> PICK row : row = [old EXCEPT !.status = s]
    OBVIOUS
<1>1. old \in Case
    BY RowTypes DEF NInv
<1>2. row \in Case /\ row.group = old.group /\ row.type = old.type
    BY <1>1 DEF Case
<1>3. cases' = [cases EXCEPT ![c] = row]
    OBVIOUS
<1> QED
    BY <1>2, <1>3

LEMMA StatusStep ==
    ASSUME NInv, NEW r \in Requests, NEW q \in Request, req' = [req EXCEPT ![r] = q],
           NEW c \in CaseIds, NEW s \in Origins, SetStatus(r, c, s),
           UNCHANGED <<alerts, groups>>, TasksOK',
           q.case = 0 \/ q.alert = NoAlert \/ (q.alert = req[r].alert /\ q.case = req[r].case),
           RequestOK(q)
    PROVE  Preserved
BY StatusWritten, RowStep DEF SetStatus

\* The tasks of as many cases.
LEMMA SameLength ==
    ASSUME NInv, UNCHANGED tasks, Len(cases') = Len(cases) PROVE TasksOK'
BY DEF NInv, IntakeTypeOK, TasksOK

LEMMA CreationStatusKeeps ==
    ASSUME NInv, NEW r \in Requests, LegacyReady(r) \/ AbandonCase(r) \/ RejectCase(r)
    PROVE  Preserved
<1>1. ASSUME NEW at \in Plain, NEW s \in Origins, SetStatus(r, req[r].case, s), Continues(r, at),
             req[r].at \notin BeforeCase, UNCHANGED <<alerts, groups, tasks>>
      PROVE  Preserved
    <2> PICK p : p = [req[r] EXCEPT !.at = at]
        OBVIOUS
    <2> PICK c : c = req[r].case
        OBVIOUS
    <2>1. at \in Steps
        BY DEF Plain, Steps
    <2>2. /\ p \in Request /\ RequestOK(p) /\ RequestOK(req[r])
          /\ p.alert = req[r].alert /\ p.case = req[r].case
        BY <1>1, <2>1, ContinuesTo
    <2>3. req' = [req EXCEPT ![r] = p]
        BY <1>1 DEF Continues, Goes
    <2>4. c \in CaseIds
        BY <1>1, <2>2, RowTypes DEF NInv, RequestOK, CaseIds
    <2>5. Len(cases') = Len(cases)
        BY <1>1 DEF NInv, IntakeTypeOK, SetStatus
    <2>6. TasksOK'
        BY <1>1, <2>5, SameLength
    <2> QED
        BY <1>1, <2>2, <2>3, <2>4, <2>6, StatusStep
<1>2. CASE LegacyReady(r)
    BY <1>1, <1>2 DEF LegacyReady, BeforeCase, Plain, Origins
<1>3. CASE AbandonCase(r)
    BY <1>1, <1>3 DEF AbandonCase, BeforeCase, Plain, Origins
<1>4. CASE RejectCase(r)
    BY <1>1, <1>4 DEF RejectCase, BeforeCase, Plain, Origins
<1> QED
    BY <1>2, <1>3, <1>4
-----------------------------------------------------------------------------
(***************************************************************************)
(* The last task, a request lost, a transaction expired.                   *)
(***************************************************************************)
LEMMA StoreKeeps ==
    ASSUME NInv, NEW r \in Requests, Insert(r) \/ Fail(r) \/ Expire(r)
    PROVE  Preserved
<1> PICK q : q = req[r]
    OBVIOUS
<1>1. q \in Request /\ RequestOK(q) /\ IntakeTypeOK
    BY RowTypes DEF NInv
<1>2. CASE Insert(r)
    <2>1. Kept(q.arg) \in Task
        BY <1>1, <1>2, TaskRows DEF Insert, RequestOK
    <2>2. TasksOK'
        BY <1>1, <1>2, <2>1, TasksAdded DEF Insert
    <2> QED
        BY <1>2, <2>2, DoneStep DEF Insert
<1>3. CASE Fail(r)
    BY <1>1, <1>3, SameTasks, DoneStep DEF Fail, rows
<1>4. CASE Expire(r)
    <2>1. UNCHANGED <<alerts, groups, cases>> /\ TasksOK'
        BY <1>1, <1>4, SameTasks DEF Expire, rows
    <2>2. CASE Done(r)
        BY <2>1, <2>2, DoneStep
    <2>3. CASE ~Done(r)
        <3> PICK p : p = [q EXCEPT !.arg = "expired"]
            OBVIOUS
        <3>1. /\ req' = [req EXCEPT ![r] = p]
              /\ q.at \in {"completeTask", "investigate", "ready", "triageClose"}
            BY <1>4, <2>3 DEF Expire, Goes
        <3>2. p \in Request
            BY <1>1, Puts, Zenon DEF Args
        <3>3. p.at = q.at /\ p.alert = q.alert /\ p.case = q.case /\ p.type = q.type
            BY <1>1 DEF Request
        <3>4. RequestOK(p)
            BY <1>1, <3>1, <3>3 DEF RequestOK, AboutAlert, BeforeCase, BesideCase
        <3> QED
            BY <2>1, <3>1, <3>2, <3>3, <3>4, OnwardStep
    <2> QED
        BY <2>2, <2>3
<1> QED
    BY <1>2, <1>3, <1>4
-----------------------------------------------------------------------------
(***************************************************************************)
(* Steps that link an alert to a case it lays claim to, make a case, or    *)
(* split one.                                                              *)
(***************************************************************************)
\* A request that goes on about its case, or about none.
LEMMA SameClaim ==
    ASSUME NInv, NEW r \in Requests, NEW q \in Request, NEW a \in Alerts, NEW c \in CaseIds,
           Claims(a, c), req[r].case = c, q.alert = req[r].alert
    PROVE  q.alert \in {NoAlert, a}
<1>1. q.alert \in Alerts => Claims(q.alert, c)
    BY DEF Claims
<1>2. q.alert \in Alerts \union {NoAlert}
    BY DEF Request
<1> QED
    BY <1>1, <1>2 DEF NInv, OneAlert

LEMMA LinkStep ==
    ASSUME NInv, NEW r \in Requests, NEW q \in Request, req' = [req EXCEPT ![r] = q],
           NEW a \in Alerts, NEW c \in CaseIds, Claims(a, c),
           NEW row \in Alert, row.case = c, alerts' = [alerts EXCEPT ![a] = row],
           UNCHANGED groups, cases' \in Seq(Case), Len(cases') = Len(cases), TasksOK',
           \A d \in CaseIds : cases'[d].group = cases[d].group,
           q.alert \in {NoAlert, a}, q.alert = a => q.case \in {0, c},
           RequestOK(q)'
    PROVE  Preserved
<1> USE DEF NInv
<1>1. Len(cases) \in Nat
    BY RowTypes
<1>2. NewIds = {}
    BY <1>1 DEF NewIds
<1>3. c \in Reach(a) /\ c # 0
    BY <1>1 DEF Reach, CaseIds
<1>4. /\ alerts' \in [Alerts -> Alert] /\ alerts'[a].case = c
      /\ \A e \in Alerts : e # a => alerts'[e] = alerts[e]
    BY DEF IntakeTypeOK
<1>5. KeepsCase(a)'
    BY <1>3, <1>4 DEF KeepsCase
<1>6. Moves(r, q, a)
    BY <1>1, <1>2, <1>3, <1>4, <1>5, IntakeAssumption DEF Moves, IntakeTypeOK
<1> QED
    BY <1>6, MovesKeepNInv

\* A case about alert b is added, and b may be linked to it.
LEMMA AddStep ==
    ASSUME NInv, NEW r \in Requests, NEW q \in Request, req' = [req EXCEPT ![r] = q],
           NEW b \in Alerts, NEW new \in Case, NEW list \in Seq(Task), AddCase(new, list),
           new.group \in {NoAlert, b},
           UNCHANGED groups,
           alerts' = alerts \/ alerts' = [alerts EXCEPT ![b].case = Len(cases) + 1],
           q.alert = b,
           q.case = Len(cases) + 1 \/ (q.case = req[r].case /\ req[r].alert = b),
           RequestOK(q)'
    PROVE  Preserved
<1> USE DEF NInv
<1> PICK n : n = Len(cases) + 1
    OBVIOUS
<1>1. Len(cases) \in Nat /\ n \in Nat \ {0}
    BY RowTypes
<1>2. /\ cases' \in Seq(Case) /\ Len(cases') = n /\ cases'[n] = new
      /\ \A c \in CaseIds : cases'[c] = cases[c]
    BY <1>1 DEF AddCase, IntakeTypeOK, CaseIds
<1>3. TasksOK'
    <2>1. tasks \in Seq(Seq(Task)) /\ Len(tasks) = Len(cases)
        BY DEF IntakeTypeOK, TasksOK
    <2>2. tasks' \in Seq(Seq(Task)) /\ Len(tasks') = n
        BY <2>1 DEF AddCase
    <2> QED
        BY <1>2, <2>2 DEF TasksOK
<1>4. NewIds = {n}
    BY <1>1, <1>2 DEF NewIds
<1>5. PICK row \in Alert : /\ alerts' = [alerts EXCEPT ![b] = row] /\ row.kind = alerts[b].kind
                           /\ row.case \in {alerts[b].case, n}
    <2> PICK old : old = alerts[b]
        OBVIOUS
    <2>1. old \in Alert /\ alerts \in [Alerts -> Alert]
        BY DEF IntakeTypeOK
    <2>2. CASE alerts' = alerts
        BY <2>1, <2>2
    <2>3. CASE alerts' = [alerts EXCEPT ![b].case = n]
        <3> PICK row : row = [old EXCEPT !.case = n]
            OBVIOUS
        <3>1. row \in Alert /\ row.kind = old.kind /\ row.case = n
            BY <1>1, <2>1 DEF Alert
        <3>2. alerts' = [alerts EXCEPT ![b] = row]
            BY <2>3
        <3> QED
            BY <3>1, <3>2
    <2> QED
        BY <2>2, <2>3
<1>6. /\ alerts' \in [Alerts -> Alert]
      /\ \A a \in Alerts : a # b => alerts'[a] = alerts[a]
      /\ alerts'[b].kind = alerts[b].kind
      /\ alerts'[b].case \in {alerts[b].case, n}
    BY <1>5 DEF IntakeTypeOK
<1>7. alerts'[b].case \in {0} \union Reach(b)
    BY <1>1, <1>4, <1>6 DEF Reach, CaseIds, Claims, IntakeTypeOK
<1>8. KeepsCase(b)'
    <2>1. InGroup(b) \subseteq InGroup(b)'
        BY <1>1, <1>2 DEF InGroup, CaseIds
    <2>2. alerts[b].case # 0 => alerts'[b].case # 0
        BY <1>1, <1>6
    <2> QED
        BY <1>6, <2>1, <2>2 DEF KeepsCase
<1>9. q.case \in {0} \union Reach(b)
    <2>1. CASE q.case = n
        BY <1>4, <2>1 DEF Reach
    <2>2. CASE q.case = req[r].case /\ req[r].alert = b
        <3>1. req[r].case \in 0..Len(cases)
            BY DEF RequestOK
        <3>2. q.case = 0 \/ q.case \in CaseIds
            BY <1>1, <2>2, <3>1 DEF CaseIds
        <3>3. Claims(b, q.case)
            BY <2>2 DEF Claims
        <3> QED
            BY <3>2, <3>3 DEF Reach
    <2> QED
        BY <2>1, <2>2
<1>10. Moves(r, q, b)
    <2>1. \A c \in NewIds : cases'[c].group \in {NoAlert, b}
        BY <1>2, <1>4
    <2>2. groups' \subseteq Alerts /\ Len(cases) <= Len(cases')
        BY <1>1, <1>2 DEF IntakeTypeOK
    <2> QED
        BY <1>2, <1>3, <1>6, <1>7, <1>8, <1>9, <2>1, <2>2 DEF Moves
<1> QED
    BY <1>10, MovesKeepNInv

\* A case is split for an alert that lays claim to it.
LEMMA SplitStep ==
    ASSUME NInv, NEW r \in Requests, NEW q \in Request, req' = [req EXCEPT ![r] = q],
           NEW c \in CaseIds, NEW a \in Alerts, Claims(a, c),
           NEW list \in Seq(Seq(Task)), Len(list) = Len(cases), NEW kin \in Seq(Task),
           Split(r, c, a, list, kin),
           q.alert \in {NoAlert, a}, q.alert = a => q.case \in {0, c},
           RequestOK(q)'
    PROVE  Preserved
<1> USE DEF NInv
<1> PICK n : n = Len(cases) + 1
    OBVIOUS
<1> PICK own : own = NewCase("READY", "FRAUD", a)
    OBVIOUS
<1> PICK new : new = NewCase("READY", "AML", a)
    OBVIOUS
<1>1. Len(cases) \in Nat /\ n \in Nat \ {0} /\ c \in 1..Len(cases)
    BY RowTypes DEF CaseIds
<1>2. /\ own \in Case /\ own.group = a /\ own.type = "FRAUD"
      /\ new \in Case /\ new.group = a /\ new.type = "AML"
    BY DEF NewCase, Case, Origins, CaseTypes
<1>3. /\ cases' \in Seq(Case) /\ Len(cases') = n /\ cases'[n] = new
      /\ \A d \in CaseIds : cases'[d] = IF d = c THEN own ELSE cases[d]
    <2> PICK mid : mid = [cases EXCEPT ![c] = own]
        OBVIOUS
    <2>1. cases' = Append(mid, new)
        BY DEF Split
    <2>2. /\ mid \in Seq(Case) /\ Len(mid) = Len(cases)
          /\ \A d \in CaseIds : mid[d] = IF d = c THEN own ELSE cases[d]
        BY <1>1, <1>2 DEF IntakeTypeOK, CaseIds
    <2> QED
        BY <1>1, <1>2, <2>1, <2>2 DEF CaseIds
<1>4. TasksOK'
    <2>1. tasks' = Append(list, kin)
        BY DEF Split
    <2>2. tasks' \in Seq(Seq(Task)) /\ Len(tasks') = n
        BY <1>1, <2>1
    <2> QED
        BY <1>3, <2>2 DEF TasksOK
<1>5. NewIds = {n}
    BY <1>1, <1>3 DEF NewIds
<1>6. /\ alerts' \in [Alerts -> Alert] /\ alerts'[a].case = 0
      /\ \A e \in Alerts : e # a => alerts'[e] = alerts[e]
    BY DEF Split, IntakeTypeOK, Alert
<1>7. KeepsCase(a)'
    <2>1. n \in InGroup(a)'
        BY <1>1, <1>2, <1>3 DEF InGroup, CaseIds
    <2> QED
        BY <2>1 DEF KeepsCase
<1>8. c \in Reach(a)
    BY DEF Reach
<1>9. Moves(r, q, a)
    <2>1. \A d \in NewIds : cases'[d].group \in {NoAlert, a}
        BY <1>2, <1>3, <1>5
    <2>2. groups \subseteq groups' /\ groups' \subseteq Alerts /\ Len(cases) <= Len(cases')
        BY <1>1, <1>3 DEF IntakeTypeOK, Split
    <2>3. \A d \in CaseIds :
            cases'[d].group = cases[d].group \/ (Claims(a, d) /\ cases'[d].group = a)
        BY <1>2, <1>3
    <2> QED
        BY <1>3, <1>4, <1>6, <1>7, <1>8, <2>1, <2>2, <2>3, IntakeAssumption DEF Moves
<1> QED
    BY <1>9, MovesKeepNInv
-----------------------------------------------------------------------------
(***************************************************************************)
(* The steps of the handlers of creation that make, link or split a case.  *)
(***************************************************************************)
\* The list of tasks of case c is replaced in a table of lists.
LEMMA ListPut ==
    ASSUME NEW all \in Seq(Seq(Task)), NEW c, NEW list, c \in 1..Len(all) => list \in Seq(Task)
    PROVE  [all EXCEPT ![c] = list] \in Seq(Seq(Task)) /\ Len([all EXCEPT ![c] = list]) = Len(all)
<1> PICK n \in Nat : all \in [1..n -> Seq(Task)] /\ n = Len(all)
    OBVIOUS
<1>1. [all EXCEPT ![c] = list] \in [1..n -> Seq(Task)]
    OBVIOUS
<1> QED
    BY <1>1

LEMMA GroupUpsertKeeps ==
    ASSUME NInv, NEW r \in Requests, GroupUpsert(r)
    PROVE  Preserved
<1> PICK q : q = req[r]
    OBVIOUS
<1> PICK p : p = [q EXCEPT !.at = "primary"]
    OBVIOUS
<1>1. q \in Request /\ RequestOK(q) /\ IntakeTypeOK /\ q.at = "group" /\ q.alert \in Alerts
    BY RowTypes DEF NInv, GroupUpsert, RequestOK, AboutAlert
<1>2. p \in Request
    BY <1>1, Puts, Zenon DEF Steps
<1>3. p.at = "primary" /\ p.alert = q.alert /\ p.case = q.case /\ p.type = q.type
    BY <1>1 DEF Request
<1>4. /\ req' = [req EXCEPT ![r] = p] /\ UNCHANGED <<alerts, cases, tasks>>
      /\ groups' = groups \union {q.alert}
    BY DEF GroupUpsert, Continues, Goes
<1>5. RequestOK(p)'
    BY <1>1, <1>3, <1>4 DEF RequestOK, AboutAlert, BeforeCase, BesideCase
<1>6. TasksOK' /\ groups' \subseteq Alerts /\ cases' \in Seq(Case)
    BY <1>1, <1>4, SameTasks DEF IntakeTypeOK
<1>7. Claims(p.alert, p.case)
    BY <1>3 DEF Claims
<1> QED
    BY <1>2, <1>4, <1>5, <1>6, <1>7, KeepsGroups

LEMMA CreatePrimaryKeeps ==
    ASSUME NInv, NEW r \in Requests, CreatePrimary(r)
    PROVE  Preserved
<1> PICK q : q = req[r]
    OBVIOUS
<1> PICK n : n = Len(cases) + 1
    OBVIOUS
<1> PICK split \in BOOLEAN : split = Splits(q.role, q.type)
    BY DEF Splits
<1> PICK new : new = NewCase(ManualStatus(q.role), IF split THEN "FRAUD" ELSE q.type, GroupOf(q))
    OBVIOUS
<1> PICK p : p = [q EXCEPT !.at = IF split THEN "sibling" ELSE "link", !.case = n]
    OBVIOUS
<1>1. /\ q \in Request /\ RequestOK(q) /\ IntakeTypeOK /\ q.at = "primary" /\ q.alert \in Alerts
      /\ n \in Nat \ {0}
    BY RowTypes DEF NInv, CreatePrimary, RequestOK, AboutAlert
<1>2. /\ AddCase(new, <<>>) /\ req' = [req EXCEPT ![r] = p] /\ UNCHANGED <<alerts, groups>>
    BY <1>1, Zenon DEF CreatePrimary, Goes
<1>3. /\ p.at = (IF split THEN "sibling" ELSE "link")
      /\ p.alert = q.alert /\ p.case = n /\ p.type = q.type
    BY <1>1 DEF Request
<1>4. (IF split THEN "sibling" ELSE "link") \in Steps
    BY DEF Steps
<1>5. p \in Request
    BY <1>1, <1>4, Puts, Zenon
<1>6. /\ new \in Case /\ new.group \in {NoAlert, q.alert}
      /\ split => new.group = q.alert /\ q.type = "FRAUD_AND_AML"
    <2>1. ManualStatus(q.role) \in Origins
        BY DEF ManualStatus, Origins
    <2>2. (IF split THEN "FRAUD" ELSE q.type) \in CaseTypes \union {NoType}
        BY <1>1 DEF CaseTypes, Request
    <2>3. GroupOf(q) \in {NoAlert, q.alert}
        BY DEF GroupOf
    <2> QED
        BY <1>1, <2>1, <2>2, <2>3 DEF NewCase, Case, Splits, GroupOf
<1>7. Len(cases') = n /\ cases'[n] = new
    BY <1>1, <1>2, <1>6 DEF AddCase, IntakeTypeOK
<1>8. RequestOK(p)'
    BY <1>1, <1>2, <1>3, <1>6, <1>7 DEF RequestOK, AboutAlert, BeforeCase, BesideCase
<1>9. <<>> \in Seq(Task)
    OBVIOUS
<1> QED
    BY <1>1, <1>2, <1>3, <1>5, <1>6, <1>8, <1>9, AddStep

LEMMA CreateSiblingKeeps ==
    ASSUME NInv, NEW r \in Requests, CreateSibling(r)
    PROVE  Preserved
<1> PICK q : q = req[r]
    OBVIOUS
<1> PICK n : n = Len(cases) + 1
    OBVIOUS
<1> PICK new : new = NewCase(ManualStatus(q.role), "AML", GroupOf(q))
    OBVIOUS
<1> PICK p : p = [q EXCEPT !.at = "link", !.kin = <<n>>]
    OBVIOUS
<1>1. /\ q \in Request /\ RequestOK(q) /\ IntakeTypeOK /\ q.at = "sibling" /\ q.alert \in Alerts
      /\ n \in Nat \ {0} /\ q.type = "FRAUD_AND_AML"
    BY RowTypes DEF NInv, CreateSibling, RequestOK, AboutAlert
<1>2. /\ AddCase(new, <<>>) /\ req' = [req EXCEPT ![r] = p] /\ UNCHANGED <<alerts, groups>>
    BY <1>1, Zenon DEF CreateSibling, Goes
<1>3. p.at = "link" /\ p.alert = q.alert /\ p.case = q.case /\ p.type = q.type
    BY <1>1 DEF Request
<1>4. p \in Request
    <2>1. <<n>> \in Seq(Nat) /\ "link" \in Steps
        BY <1>1 DEF Steps
    <2> QED
        BY <1>1, <2>1, Puts, Zenon
<1>5. new \in Case /\ new.group = q.alert
    <2>1. ManualStatus(q.role) \in Origins
        BY DEF ManualStatus, Origins
    <2> QED
        BY <1>1, <2>1 DEF NewCase, Case, CaseTypes, GroupOf
<1>6. q.case \in CaseIds /\ q.alert \in groups /\ cases[q.case].group = q.alert
    BY <1>1, RowTypes DEF RequestOK, BesideCase, BeforeCase, CaseIds
<1>7. Len(cases') = n
    BY <1>1, <1>2, <1>5 DEF AddCase, IntakeTypeOK
<1>8. RequestOK(p)'
    BY <1>1, <1>3, <1>7 DEF RequestOK, AboutAlert, BeforeCase, BesideCase
<1>9. <<>> \in Seq(Task)
    OBVIOUS
<1> QED
    BY <1>1, <1>2, <1>3, <1>4, <1>5, <1>8, <1>9, AddStep

LEMMA LinkAlertKeeps ==
    ASSUME NInv, NEW r \in Requests, LinkAlert(r)
    PROVE  Preserved
<1> PICK q : q = req[r]
    OBVIOUS
<1> PICK task : task = Kept(IF q.role = "SUPERVISOR" THEN "Investigate" ELSE "Approve")
    OBVIOUS
<1>1. q \in Request /\ RequestOK(q) /\ IntakeTypeOK /\ q.at = "link" /\ q.alert \in Alerts
    BY RowTypes DEF NInv, LinkAlert, RequestOK, AboutAlert
<1>2. PICK made : tasks' = [c \in CaseIds |-> IF c \in made THEN Append(tasks[c], task) ELSE tasks[c]]
    BY Zenon DEF LinkAlert
<1>3. TasksOK' /\ cases' = cases /\ groups' = groups
    <2>1. task \in Task
        BY TaskRows DEF TaskNames
    <2>2. Len(cases) \in Nat /\ tasks \in [1..Len(cases) -> Seq(Task)]
        BY <1>1 DEF IntakeTypeOK, TasksOK
    <2>3. tasks' \in [1..Len(cases) -> Seq(Task)]
        BY <1>2, <2>1, <2>2 DEF CaseIds
    <2>4. UNCHANGED <<groups, cases>>
        BY DEF LinkAlert
    <2>5. tasks' \in Seq(Seq(Task)) /\ Len(tasks') = Len(cases)
        BY <2>2, <2>3
    <2> QED
        BY <2>4, <2>5 DEF TasksOK
<1>4. CASE q.type = "FRAUD_AND_AML"
    BY <1>3, <1>4, DoneStep DEF LinkAlert
<1>5. CASE q.type # "FRAUD_AND_AML"
    <2> PICK old : old = alerts[q.alert]
        OBVIOUS
    <2> PICK row : row = [old EXCEPT !.case = q.case]
        OBVIOUS
    <2>1. q.case \in CaseIds /\ q.case \in Nat
        BY <1>1, RowTypes DEF RequestOK, BeforeCase, CaseIds
    <2>2. old \in Alert
        BY <1>1 DEF IntakeTypeOK
    <2>3. row \in Alert /\ row.case = q.case
        BY <2>1, <2>2 DEF Alert
    <2>4. alerts' = [alerts EXCEPT ![q.alert] = row]
        BY <1>5 DEF LinkAlert
    <2>5. Claims(q.alert, q.case)
        BY DEF Claims
    <2>6. req' = [req EXCEPT ![r] = Idle]
        BY DEF LinkAlert, Done, Goes
    <2>7. RequestOK(Idle)'
        BY <1>1, <1>3, IdleOK DEF RequestOK
    <2> QED
        BY <1>1, <1>3, <2>1, <2>3, <2>4, <2>5, <2>6, <2>7, IdleRequest, LinkStep DEF IntakeTypeOK
<1> QED
    BY <1>4, <1>5

LEMMA CreateDraftKeeps ==
    ASSUME NInv, NEW r \in Requests, CreateDraft(r)
    PROVE  Preserved
<1> PICK q : q = req[r]
    OBVIOUS
<1> PICK n : n = Len(cases) + 1
    OBVIOUS
<1> PICK new : new = NewCase("DRAFT", q.type, NoAlert)
    OBVIOUS
<1> PICK p : p = [q EXCEPT !.at = "insert", !.case = n, !.arg = "Complete"]
    OBVIOUS
<1>1. /\ q \in Request /\ RequestOK(q) /\ IntakeTypeOK /\ q.at = "draft" /\ q.alert \in Alerts
      /\ n \in Nat \ {0}
    BY RowTypes DEF NInv, CreateDraft, RequestOK, AboutAlert
<1>2. /\ AddCase(new, <<>>) /\ req' = [req EXCEPT ![r] = p]
      /\ alerts' = [alerts EXCEPT ![q.alert].case = n] /\ UNCHANGED groups
    BY <1>1, Zenon DEF CreateDraft, Goes
<1>3. /\ p.at = "insert" /\ p.arg = "Complete"
      /\ p.alert = q.alert /\ p.case = n /\ p.type = q.type
    BY <1>1 DEF Request
<1>4. p \in Request
    <2>1. "insert" \in Steps /\ n \in Nat /\ "Complete" \in Args
        BY <1>1 DEF Steps, Args, TaskNames
    <2> QED
        BY <1>1, <2>1, Puts, Zenon
<1>5. new \in Case /\ new.group = NoAlert /\ new.type = q.type
    BY <1>1 DEF NewCase, Case, Request, Origins
<1>6. Len(cases') = n
    BY <1>1, <1>2, <1>5 DEF AddCase, IntakeTypeOK
<1>7. RequestOK(p)'
    BY <1>1, <1>3, <1>6 DEF RequestOK, AboutAlert, BeforeCase, BesideCase, TaskNames
<1>8. <<>> \in Seq(Task)
    OBVIOUS
<1> QED
    BY <1>1, <1>2, <1>3, <1>4, <1>5, <1>7, <1>8, AddStep

\* The transaction of completeCaseCreation commits: split, or linked.
LEMMA CompleteCommitKeeps ==
    ASSUME NInv, NEW r \in Requests, CompleteCommit(r)
    PROVE  Preserved
<1> PICK q : q = req[r]
    OBVIOUS
<1> PICK c : c = q.case
    OBVIOUS
<1>1. /\ q \in Request /\ RequestOK(q) /\ IntakeTypeOK /\ q.at = "completeCommit"
      /\ c \in CaseIds /\ c \in Nat /\ q.type \in CaseTypes
    <2>1. q \in Request /\ RequestOK(q) /\ IntakeTypeOK /\ q.at = "completeCommit"
        BY RowTypes DEF NInv, CompleteCommit
    <2> QED
        BY <2>1, RowTypes DEF RequestOK, BeforeCase, CaseIds
<1> PICK toLink : toLink = IF q.alert = NoAlert THEN AlertsOf(c) ELSE {q.alert}
    OBVIOUS
<1>2. CASE toLink = {}
    BY <1>1, <1>2, SameTasks, DoneStep DEF CompleteCommit, rows
<1>3. CASE toLink # {}
    <2> PICK name \in TaskNames : name = IF q.role = "SUPERVISOR" THEN "Investigate" ELSE "Approve"
        BY DEF TaskNames
    <2> PICK p : p = [q EXCEPT !.at = "insert", !.arg = name]
        OBVIOUS
    <2> DEFINE kin == <<Finished("Complete"), Kept("Investigate")>>
    <2>1. PICK a \in toLink :
            /\ IF Splits(q.role, q.type) THEN Split(r, c, a, tasks, kin)
               ELSE /\ FreeAlert(r, a)
                    /\ cases' = [cases EXCEPT ![c].status = ManualStatus(q.role), ![c].type = q.type]
                    /\ alerts' = [alerts EXCEPT ![a].case = c]
                    /\ UNCHANGED <<groups, tasks>>
            /\ req' = [req EXCEPT ![r] = p]
        BY <1>3, Zenon DEF CompleteCommit, ThenInsert, Goes
    <2>2. a \in Alerts /\ Claims(a, c)
        <3>1. CASE q.alert = NoAlert
            BY <1>1, <2>1, <3>1, AlertsClaim
        <3>2. CASE q.alert # NoAlert
            BY <1>1, <2>1, <3>2 DEF Claims, Request
        <3> QED
            BY <3>1, <3>2
    <2>3. p \in Request
        <3>1. "insert" \in Steps /\ name \in Args
            BY DEF Steps, Args
        <3> QED
            BY <1>1, <3>1, Puts, Zenon
    <2>4. /\ p.at = "insert" /\ p.arg = name
          /\ p.alert = q.alert /\ p.case = c /\ p.type = q.type
        BY <1>1 DEF Request
    <2>5. p.alert \in {NoAlert, a}
        BY <1>1, <2>2, <2>3, <2>4, SameClaim
    <2>6. ASSUME Len(cases') \in Nat, Len(cases) <= Len(cases') PROVE RequestOK(p)'
        <3>1. p.case \in 0..Len(cases')
            BY <1>1, <2>4, <2>6 DEF CaseIds
        <3> QED
            BY <1>1, <2>4, <3>1, RowTypes DEF RequestOK, AboutAlert, BeforeCase, BesideCase, CaseIds
    <2>7. CASE Splits(q.role, q.type)
        <3>1. Split(r, c, a, tasks, kin)
            BY <2>1, <2>7
        <3>2. kin \in Seq(Task) /\ tasks \in Seq(Seq(Task)) /\ Len(tasks) = Len(cases)
            BY <1>1, TaskRows DEF IntakeTypeOK, TasksOK, TaskNames
        <3>3. Len(cases') = Len(cases) + 1 /\ Len(cases) \in Nat
            BY <1>1, <3>1 DEF Split, IntakeTypeOK
        <3>4. RequestOK(p)'
            BY <2>6, <3>3
        <3> HIDE DEF kin
        <3> QED
            BY <1>1, <2>1, <2>2, <2>3, <2>4, <2>5, <3>1, <3>2, <3>4, SplitStep
    <2>8. CASE ~Splits(q.role, q.type)
        <3> PICK old : old = cases[c]
            OBVIOUS
        <3> PICK row : row = [old EXCEPT !.status = ManualStatus(q.role), !.type = q.type]
            OBVIOUS
        <3> PICK was : was = alerts[a]
            OBVIOUS
        <3> PICK link : link = [was EXCEPT !.case = c]
            OBVIOUS
        <3>1. old \in Case /\ was \in Alert
            BY <1>1, <2>2, RowTypes DEF IntakeTypeOK
        <3>2. row \in Case /\ row.group = old.group /\ row.type = q.type
            <4>1. ManualStatus(q.role) \in Origins /\ q.type \in CaseTypes \union {NoType}
                BY <1>1 DEF ManualStatus, Origins, CaseTypes
            <4> QED
                BY <3>1, <4>1 DEF Case
        <3>3. link \in Alert /\ link.case = c
            BY <1>1, <3>1 DEF Alert
        <3>4. cases' = [cases EXCEPT ![c] = row]
            BY <2>1, <2>8, <1>1 DEF IntakeTypeOK, CaseIds
        <3>5. alerts' = [alerts EXCEPT ![a] = link] /\ UNCHANGED <<groups, tasks>>
            BY <2>1, <2>8
        <3>6. cases' \in Seq(Case) /\ Len(cases') = Len(cases) /\ Len(cases) \in Nat
            BY <1>1, <3>2, <3>4 DEF IntakeTypeOK, CaseIds
        <3>7. \A d \in CaseIds : cases'[d].group = cases[d].group
            BY <1>1, <3>2, <3>4 DEF IntakeTypeOK, CaseIds
        <3>8. TasksOK' /\ RequestOK(p)'
            BY <2>6, <3>5, <3>6, SameLength
        <3> QED
            BY <1>1, <2>1, <2>2, <2>3, <2>4, <2>5, <3>3, <3>5, <3>6, <3>7, <3>8, LinkStep
    <2> QED
        BY <2>7, <2>8
<1> QED
    BY <1>2, <1>3

LEMMA ApproveKeeps ==
    ASSUME NInv, NEW r \in Requests, Approve(r)
    PROVE  Preserved
<1> PICK q : q = req[r]
    OBVIOUS
<1> PICK c : c = q.case
    OBVIOUS
<1> PICK t : t = q.task
    OBVIOUS
<1>1. q \in Request /\ RequestOK(q) /\ IntakeTypeOK /\ q.at = "approve" /\ c \in CaseIds
    <2>1. q \in Request /\ RequestOK(q) /\ IntakeTypeOK /\ q.at = "approve"
        BY RowTypes DEF NInv, Approve
    <2> QED
        BY <2>1, RowTypes DEF RequestOK, BeforeCase, CaseIds
<1>2. CASE cases[c].type # "FRAUD_AND_AML"
    <2> PICK p : p = [q EXCEPT !.at = "insert", !.arg = "Investigate"]
        OBVIOUS
    <2>1. /\ SetStatus(r, c, "READY") /\ FinishTask(r, c, t)
          /\ req' = [req EXCEPT ![r] = p] /\ UNCHANGED <<alerts, groups>>
        BY <1>2 DEF Approve, ThenInsert, Goes
    <2>2. p \in Request
        <3>1. "insert" \in Steps /\ "Investigate" \in Args
            BY DEF Steps, Args, TaskNames
        <3> QED
            BY <1>1, <3>1, Puts, Zenon
    <2>3. /\ p.at = "insert" /\ p.arg = "Investigate"
          /\ p.alert = q.alert /\ p.case = c /\ p.type = q.type
        BY <1>1 DEF Request
    <2>4. RequestOK(p)
        BY <1>1, <2>3 DEF RequestOK, AboutAlert, BeforeCase, BesideCase, TaskNames
    <2>5. Len(cases') = Len(cases)
        BY <1>1, <2>1 DEF SetStatus, IntakeTypeOK
    <2>6. TasksOK'
        BY <1>1, <2>1, <2>5, TasksFinished DEF FinishTask, Closes
    <2>7. "READY" \in Origins
        BY DEF Origins
    <2> QED
        BY <1>1, <2>1, <2>2, <2>3, <2>4, <2>6, <2>7, StatusStep
<1>3. CASE cases[c].type = "FRAUD_AND_AML" /\ AlertsOf(c) = {}
    BY <1>1, <1>3, SameTasks, DoneStep DEF Approve, rows
<1>4. CASE cases[c].type = "FRAUD_AND_AML" /\ AlertsOf(c) # {}
    <2> PICK mine : mine = Append([tasks[c] EXCEPT ![t].open = FALSE], Kept("Investigate"))
        OBVIOUS
    <2> PICK list : list = [tasks EXCEPT ![c] = mine]
        OBVIOUS
    <2> PICK kin : kin = <<Finished("Complete"), Finished("Approve"), Kept("Investigate")>>
        OBVIOUS
    <2>1. PICK a \in AlertsOf(c) : Split(r, c, a, list, kin) /\ req' = [req EXCEPT ![r] = Idle]
        BY <1>4, Zenon DEF Approve, Done, Goes
    <2>2. a \in Alerts /\ Claims(a, c)
        BY <1>1, AlertsClaim
    <2>3. kin \in Seq(Task) /\ Kept("Investigate") \in Task
        BY TaskRows DEF TaskNames
    <2>4. tasks \in Seq(Seq(Task)) /\ Len(tasks) = Len(cases) /\ tasks[c] \in Seq(Task)
        BY <1>1 DEF IntakeTypeOK, TasksOK, CaseIds
    <2>5. [tasks[c] EXCEPT ![t].open = FALSE] \in Seq(Task)
        BY <2>4, ListFinished
    <2>6. mine \in Seq(Task)
        BY <2>3, <2>5
    <2>7. list \in Seq(Seq(Task)) /\ Len(list) = Len(cases)
        BY <2>4, <2>6, ListPut
    <2>8. RequestOK(Idle)'
        <3>1. Len(cases') = Len(cases) + 1 /\ Len(cases) \in Nat
            BY <1>1, <2>1 DEF Split, IntakeTypeOK
        <3> QED
            BY <3>1, IdleRequest DEF RequestOK, AboutAlert, BeforeCase, BesideCase, NoType
    <2> QED
        BY <1>1, <2>1, <2>2, <2>3, <2>7, <2>8, IdleRequest, SplitStep
<1> QED
    BY <1>2, <1>3, <1>4

LEMMA CreationStepsKeep ==
    ASSUME NInv, NEW r \in Requests, CreationSteps(r)
    PROVE  Preserved
BY CreationTasksKeep, CreationStatusKeeps, GroupUpsertKeeps, CreatePrimaryKeeps, CreateSiblingKeeps,
   LinkAlertKeeps, CreateDraftKeeps, CompleteCommitKeeps, ApproveKeeps DEF CreationSteps
-----------------------------------------------------------------------------
(***************************************************************************)
(* Intake.                                                                 *)
(***************************************************************************)
LEMMA TriageCallsKeep ==
    ASSUME NInv, NEW r \in Requests, TriageCalls(r)
    PROVE  Preserved
<1>1. Len(cases) \in Nat /\ IntakeTypeOK
    BY RowTypes DEF NInv
<1>2. ASSUME NEW a \in Alerts, IngestNalt(r, a) PROVE Preserved
    <2>1. /\ req' = [req EXCEPT ![r] = Idle] /\ alerts' = [alerts EXCEPT ![a] = Row("NALT", 0)]
          /\ UNCHANGED <<groups, cases, tasks>>
        BY <1>2 DEF IngestNalt, Starts
    <2>2. Row("NALT", 0) \in Alert /\ Row("NALT", 0).case = 0 /\ Row("NALT", 0).kind = "NALT"
        BY DEF Row, Alert
    <2>3. /\ alerts' \in [Alerts -> Alert] /\ alerts'[a] = Row("NALT", 0)
          /\ \A e \in Alerts : e # a => alerts'[e] = alerts[e]
        BY <1>1, <2>1, <2>2 DEF IntakeTypeOK
    <2>4. KeepsCase(a)'
        BY <2>2, <2>3 DEF KeepsCase
    <2>5. TasksOK' /\ RequestOK(Idle)' /\ NewIds = {}
        BY <1>1, <2>1, SameTasks, IdleOK DEF RequestOK, NewIds
    <2>6. Moves(r, Idle, a)
        BY <1>1, <2>1, <2>2, <2>3, <2>4, <2>5, IdleRequest, IntakeAssumption DEF Moves, IntakeTypeOK
    <2> QED
        BY <2>6, MovesKeepNInv
<1>3. ASSUME NEW a \in Alerts, IngestCase(r, a) PROVE Preserved
    <2> PICK n : n = Len(cases) + 1
        OBVIOUS
    <2> PICK new : new = NewCase("DRAFT", NoType, NoAlert)
        OBVIOUS
    <2> PICK p : p = [Idle EXCEPT !.at = "ingest", !.alert = a, !.case = n]
        OBVIOUS
    <2>1. AddCase(new, <<>>) /\ req' = [req EXCEPT ![r] = p] /\ UNCHANGED <<alerts, groups>>
        BY <1>3 DEF IngestCase, Starts
    <2>2. n \in Nat \ {0}
        BY <1>1
    <2>3. p \in Request
        <3>1. "ingest" \in Steps /\ n \in Nat
            BY <2>2 DEF Steps
        <3> QED
            BY <3>1, IdleRequest, Puts, Zenon
    <2>4. p.at = "ingest" /\ p.alert = a /\ p.case = n /\ p.type = NoType
        BY DEF Idle
    <2>5. new \in Case /\ new.group = NoAlert /\ <<>> \in Seq(Task)
        BY DEF NewCase, Case, Origins, NoType
    <2>6. Len(cases') = n
        BY <1>1, <2>1, <2>5 DEF AddCase, IntakeTypeOK
    <2>7. RequestOK(p)'
        BY <2>2, <2>4, <2>6 DEF RequestOK, AboutAlert, BeforeCase, BesideCase, NoType
    <2> QED
        BY <2>1, <2>3, <2>4, <2>5, <2>7, AddStep
<1>4. ASSUME NEW a \in Alerts, NEW c \in CaseIds, NEW way \in {"close", "ready"},
             NEW type \in CaseTypes, NEW t \in OpenNamed(c, "Complete"),
             TriageCheck(r, a, c, t, way, type)
      PROVE  Preserved
    <2> PICK p : p = [Idle EXCEPT !.at = "triage", !.alert = a, !.task = t, !.home = c,
                                  !.type = type, !.arg = way]
        OBVIOUS
    <2>1. req' = [req EXCEPT ![r] = p] /\ UNCHANGED rows
        BY <1>4 DEF TriageCheck, Starts
    <2>2. p \in Request
        <3>1. "triage" \in Steps /\ t \in Nat /\ c \in Nat /\ type \in Types /\ way \in Args
            BY <1>1, RowTypes DEF Steps, OpenNamed, Named, Types, Args
        <3> QED
            BY <3>1, IdleRequest, Puts, Zenon
    <2>3. p.at = "triage" /\ p.alert = a /\ p.case = 0 /\ p.type = type
        BY DEF Idle
    <2>4. RequestOK(p)
        BY <1>1, <2>3 DEF RequestOK, AboutAlert, BeforeCase, BesideCase
    <2> QED
        BY <1>1, <2>1, <2>2, <2>3, <2>4, SameTasks, QuietStep DEF rows
<1> QED
    BY <1>2, <1>3, <1>4, Zenon DEF TriageCalls

\* The alert is stored with the case made for it.
LEMMA IngestAlertKeeps ==
    ASSUME NInv, triageType \in TriageTypes, NEW r \in Requests, IngestAlert(r)
    PROVE  Preserved
<1> PICK q : q = req[r]
    OBVIOUS
<1> PICK at \in Steps, arg \in Args :
        /\ at = AfterIngest[triageType].at /\ arg = AfterIngest[triageType].arg
        /\ (at = "insert" /\ arg = "Complete") \/ at \in {"insertFirst", "triageTask"}
    <2>1. triageType \in {"AI", "MANUAL", "DISABLED"}
        BY IntakeAssumption
    <2> QED
        BY <2>1 DEF AfterIngest, Steps, Args, TaskNames
<1> PICK p : p = [q EXCEPT !.at = at, !.arg = arg]
    OBVIOUS
<1>1. /\ q \in Request /\ RequestOK(q) /\ IntakeTypeOK /\ q.at = "ingest" /\ q.alert \in Alerts
      /\ q.case \in CaseIds /\ q.case \in Nat
    <2>1. q \in Request /\ RequestOK(q) /\ IntakeTypeOK /\ q.at = "ingest"
        BY RowTypes DEF NInv, IngestAlert
    <2> QED
        BY <2>1, RowTypes DEF RequestOK, BeforeCase, AboutAlert, CaseIds
<1>2. /\ req' = [req EXCEPT ![r] = p] /\ alerts' = [alerts EXCEPT ![q.alert] = Row("ALRT", q.case)]
      /\ UNCHANGED <<groups, cases, tasks>>
    BY DEF IngestAlert, Goes
<1>3. p \in Request
    BY <1>1, Puts, Zenon
<1>4. p.at = at /\ p.arg = arg /\ p.alert = q.alert /\ p.case = q.case /\ p.type = q.type
    BY <1>1 DEF Request
<1>5. Row("ALRT", q.case) \in Alert /\ Row("ALRT", q.case).case = q.case
    BY <1>1 DEF Row, Alert
<1>6. RequestOK(p)'
    BY <1>1, <1>2, <1>4 DEF RequestOK, AboutAlert, BeforeCase, BesideCase, TaskNames
<1>7. TasksOK' /\ cases' \in Seq(Case) /\ CaseIds' = CaseIds /\ Claims(q.alert, q.case)
    BY <1>1, <1>2, SameTasks DEF IntakeTypeOK, CaseIds, Claims
<1> QED
    BY <1>1, <1>2, <1>3, <1>4, <1>5, <1>6, <1>7, LinkStep

LEMMA InsertFirstKeeps ==
    ASSUME NInv, NEW r \in Requests, InsertFirst(r)
    PROVE  Preserved
<1> PICK q : q = req[r]
    OBVIOUS
<1> PICK p : p = [q EXCEPT !.at = "investigate", !.arg = "none"]
    OBVIOUS
<1>1. q \in Request /\ RequestOK(q) /\ IntakeTypeOK /\ q.at = "insertFirst"
    BY RowTypes DEF NInv, InsertFirst
<1>2. req' = [req EXCEPT ![r] = p] /\ UNCHANGED <<alerts, groups, cases>>
    BY DEF InsertFirst, Goes
<1>3. p \in Request
    BY <1>1, Puts, Zenon DEF Steps, Args
<1>4. p.at = "investigate" /\ p.alert = q.alert /\ p.case = q.case /\ p.type = q.type
    BY <1>1 DEF Request
<1>5. RequestOK(p)
    BY <1>1, <1>4 DEF RequestOK, AboutAlert, BeforeCase, BesideCase
<1>6. TasksOK'
    BY <1>1, TaskRows, TasksAdded DEF InsertFirst, TaskNames
<1> QED
    BY <1>2, <1>3, <1>4, <1>5, <1>6, OnwardStep

LEMMA InvestigateKeeps ==
    ASSUME NInv, NEW r \in Requests, Investigate(r)
    PROVE  Preserved
<1>1. TasksOK'
    BY TaskRows, TasksAdded DEF NInv, Investigate, TaskNames
<1>2. req[r].at \notin BeforeCase /\ "ready" \in Plain
    BY DEF Investigate, BeforeCase, Plain
<1> QED
    BY <1>1, <1>2, PlainContinues DEF Investigate

\* A request that is at a step of updateCaseStatus or of triage writes its case.
LEMMA ReadyKeeps ==
    ASSUME NInv, NEW r \in Requests, Ready(r)
    PROVE  Preserved
<1> PICK q : q = req[r]
    OBVIOUS
<1> PICK c : c = q.case
    OBVIOUS
<1> PICK old : old = cases[c]
    OBVIOUS
<1> PICK row : row = WithType([old EXCEPT !.status = "READY"], q.type)
    OBVIOUS
<1>1. q \in Request /\ RequestOK(q) /\ IntakeTypeOK /\ q.at = "ready" /\ c \in CaseIds /\ old \in Case
    <2>1. q \in Request /\ RequestOK(q) /\ IntakeTypeOK /\ q.at = "ready"
        BY RowTypes DEF NInv, Ready
    <2> QED
        BY <2>1, RowTypes DEF RequestOK, BeforeCase, CaseIds
<1>2. row \in Case /\ row.group = old.group
    <2> PICK mid : mid = [old EXCEPT !.status = "READY"]
        OBVIOUS
    <2>1. mid \in Case /\ mid.group = old.group /\ mid.type = old.type
        BY <1>1 DEF Case, Origins
    <2>2. CASE q.type = NoType
        BY <2>1, <2>2 DEF WithType
    <2>3. CASE q.type # NoType
        <3>1. q.type \in CaseTypes
            BY <1>1, <2>3 DEF Request
        <3>2. row = [mid EXCEPT !.type = q.type]
            BY <2>3 DEF WithType
        <3> QED
            BY <2>1, <3>1, <3>2 DEF Case
    <2> QED
        BY <2>2, <2>3
<1>3. cases' = [cases EXCEPT ![c] = row] /\ UNCHANGED <<alerts, groups, tasks>>
    BY DEF Ready
<1>4. TasksOK'
    <2>1. Len(cases') = Len(cases)
        BY <1>1, <1>3 DEF IntakeTypeOK
    <2> QED
        BY <1>3, <2>1, SameLength
<1>5. CASE q.arg = "inTriage"
    <2> PICK p : p = [q EXCEPT !.at = "triageCommit"]
        OBVIOUS
    <2>1. req' = [req EXCEPT ![r] = p]
        BY <1>5 DEF Ready, Continues, Goes
    <2>2. "triageCommit" \in Steps /\ "triageCommit" \in Plain /\ q.at \notin BeforeCase
        BY <1>1 DEF Steps, Plain, BeforeCase
    <2>3. p \in Request /\ RequestOK(p) /\ p.alert = q.alert /\ p.case = q.case
        BY <2>2, ContinuesTo
    <2> QED
        BY <1>1, <1>2, <1>3, <1>4, <2>1, <2>3, RowStep
<1>6. CASE q.arg # "inTriage"
    <2>1. req' = [req EXCEPT ![r] = Idle]
        BY <1>6 DEF Ready, Done, Goes
    <2> QED
        BY <1>1, <1>2, <1>3, <1>4, <2>1, IdleRequest, IdleOK, RowStep
<1> QED
    BY <1>5, <1>6
-----------------------------------------------------------------------------
(***************************************************************************)
(* Triage by a person.                                                     *)
(***************************************************************************)
LEMMA TriageLockKeeps ==
    ASSUME NInv, NEW r \in Requests, TriageLock(r)
    PROVE  Preserved
<1> PICK q : q = req[r]
    OBVIOUS
<1> PICK c : c = alerts[q.alert].case
    OBVIOUS
<1>1. /\ q \in Request /\ RequestOK(q) /\ IntakeTypeOK /\ q.at = "triage" /\ q.alert \in Alerts
      /\ c \in 0..Len(cases) /\ c \in Nat /\ q.type \in CaseTypes
    <2>1. q \in Request /\ RequestOK(q) /\ IntakeTypeOK /\ q.at = "triage"
        BY RowTypes DEF NInv, TriageLock
    <2>2. q.alert \in Alerts /\ q.type \in CaseTypes
        BY <2>1 DEF RequestOK, AboutAlert
    <2> QED
        BY <2>1, <2>2, RowTypes DEF IntakeTypeOK
<1>2. UNCHANGED <<alerts, groups, cases>> /\ TasksOK'
    BY <1>1, SameTasks DEF TriageLock, rows
<1>3. ASSUME NEW p \in Request, req' = [req EXCEPT ![r] = p],
             p.alert = q.alert, p.case = c, c # 0, p.type = q.type,
             p.at \in {"triageClose", "triageSplit", "investigate"}
      PROVE  Preserved
    <2>1. RequestOK(p)
        BY <1>1, <1>3 DEF RequestOK, AboutAlert, BeforeCase, BesideCase
    <2>2. Claims(p.alert, p.case)
        BY <1>3 DEF Claims
    <2> QED
        BY <1>2, <1>3, <2>1, <2>2, QuietStep
<1>4. CASE c = 0
    BY <1>2, <1>4, DoneStep DEF TriageLock
<1>5. CASE c # 0 /\ q.arg = "close"
    <2> PICK p : p = [q EXCEPT !.at = "triageClose", !.case = c]
        OBVIOUS
    <2>1. p \in Request
        BY <1>1, Puts, Zenon DEF Steps
    <2>2. p.at = "triageClose" /\ p.alert = q.alert /\ p.case = c /\ p.type = q.type
        BY <1>1 DEF Request
    <2>3. req' = [req EXCEPT ![r] = p]
        BY <1>5 DEF TriageLock, Goes
    <2> QED
        BY <1>3, <1>5, <2>1, <2>2, <2>3
<1>6. CASE c # 0 /\ q.arg = "ready" /\ q.type = "FRAUD_AND_AML"
    <2> PICK p : p = [q EXCEPT !.at = "triageSplit", !.case = c]
        OBVIOUS
    <2>1. p \in Request
        BY <1>1, Puts, Zenon DEF Steps
    <2>2. p.at = "triageSplit" /\ p.alert = q.alert /\ p.case = c /\ p.type = q.type
        BY <1>1 DEF Request
    <2>3. req' = [req EXCEPT ![r] = p]
        BY <1>6 DEF TriageLock, Goes
    <2> QED
        BY <1>3, <1>6, <2>1, <2>2, <2>3
<1>7. CASE c # 0 /\ q.arg # "close" /\ ~(q.arg = "ready" /\ q.type = "FRAUD_AND_AML")
    <2> PICK p : p = [q EXCEPT !.at = "investigate", !.case = c, !.arg = "inTriage"]
        OBVIOUS
    <2>1. p \in Request
        <3>1. "investigate" \in Steps /\ "inTriage" \in Args
            BY DEF Steps, Args
        <3> QED
            BY <1>1, <3>1, Puts, Zenon
    <2>2. p.at = "investigate" /\ p.alert = q.alert /\ p.case = c /\ p.type = q.type
        BY <1>1 DEF Request
    <2>3. req' = [req EXCEPT ![r] = p]
        BY <1>7 DEF TriageLock, Goes
    <2> QED
        BY <1>3, <1>7, <2>1, <2>2, <2>3
<1> QED
    BY <1>4, <1>5, <1>6, <1>7

LEMMA TriageCloseKeeps ==
    ASSUME NInv, NEW r \in Requests, TriageClose(r)
    PROVE  Preserved
<1> PICK q : q = req[r]
    OBVIOUS
<1> PICK c : c = q.case
    OBVIOUS
<1> PICK old : old = cases[c]
    OBVIOUS
<1> PICK row : row = [old EXCEPT !.status = "CLOSED", !.type = q.type]
    OBVIOUS
<1>1. /\ q \in Request /\ RequestOK(q) /\ IntakeTypeOK /\ q.at = "triageClose"
      /\ c \in CaseIds /\ old \in Case /\ q.type \in CaseTypes
    <2>1. q \in Request /\ RequestOK(q) /\ IntakeTypeOK /\ q.at = "triageClose"
        BY RowTypes DEF NInv, TriageClose
    <2> QED
        BY <2>1, RowTypes DEF RequestOK, BeforeCase, CaseIds
<1>2. row \in Case /\ row.group = old.group
    <2>1. "CLOSED" \in Origins /\ q.type \in CaseTypes \union {NoType}
        BY <1>1 DEF Origins, CaseTypes
    <2> QED
        BY <1>1, <2>1 DEF Case
<1>3. cases' = [cases EXCEPT ![c] = row] /\ UNCHANGED <<alerts, groups, tasks>>
    BY <1>1 DEF TriageClose, IntakeTypeOK, CaseIds
<1>4. TasksOK'
    <2>1. Len(cases') = Len(cases)
        BY <1>1, <1>3 DEF IntakeTypeOK
    <2> QED
        BY <1>3, <2>1, SameLength
<1>5. CASE q.arg = "expired"
    <2>1. req' = [req EXCEPT ![r] = Idle]
        BY <1>5 DEF TriageClose, Done, Goes
    <2> QED
        BY <1>1, <1>2, <1>3, <1>4, <2>1, IdleRequest, IdleOK, RowStep
<1>6. CASE q.arg # "expired"
    <2> PICK p : p = [q EXCEPT !.at = "triageCommit", !.arg = "inTriage"]
        OBVIOUS
    <2>1. req' = [req EXCEPT ![r] = p]
        BY <1>6 DEF TriageClose, Goes
    <2>2. p \in Request
        <3>1. "triageCommit" \in Steps /\ "inTriage" \in Args
            BY DEF Steps, Args
        <3> QED
            BY <1>1, <3>1, Puts, Zenon
    <2>3. p.at = "triageCommit" /\ p.alert = q.alert /\ p.case = q.case /\ p.type = q.type
        BY <1>1 DEF Request
    <2>4. RequestOK(p)
        BY <1>1, <2>3 DEF RequestOK, AboutAlert, BeforeCase, BesideCase
    <2> QED
        BY <1>1, <1>2, <1>3, <1>4, <2>1, <2>2, <2>3, <2>4, RowStep
<1> QED
    BY <1>5, <1>6

\* The tasks of a split: the triage task is completed, the case gets an investigation.
FinishedFirst(home, t, c) ==
    [[tasks EXCEPT ![home][t].open = FALSE] EXCEPT ![c] = Append(@, Kept("Investigate"))]

LEMMA FinishedFirstType ==
    ASSUME IntakeTypeOK, NEW home, NEW t, NEW c \in CaseIds
    PROVE  FinishedFirst(home, t, c) \in Seq(Seq(Task)) /\ Len(FinishedFirst(home, t, c)) = Len(cases)
<1> PICK n \in Nat : n = Len(cases)
    BY RowTypes
<1> PICK task \in Task : task = Kept("Investigate")
    BY TaskRows DEF TaskNames
<1> DEFINE finished == [tasks EXCEPT ![home][t].open = FALSE]
           list == [finished EXCEPT ![c] = Append(@, task)]
<1>1. tasks \in [1..n -> Seq(Task)] /\ c \in 1..n
    BY DEF IntakeTypeOK, TasksOK, CaseIds
<1>2. \A i \in 1..n : [tasks[i] EXCEPT ![t].open = FALSE] \in Seq(Task)
    BY <1>1, ListFinished, Zenon
<1>3. finished \in [1..n -> Seq(Task)]
    BY <1>1, <1>2, Zenon
<1> HIDE DEF finished
<1>4. Append(finished[c], task) \in Seq(Task)
    BY <1>1, <1>3
<1>5. list \in [1..n -> Seq(Task)]
    BY <1>3, <1>4, Zenon
<1> HIDE DEF list
<1>6. list \in Seq(Seq(Task)) /\ Len(list) = n
    BY <1>5
<1>7. FinishedFirst(home, t, c) = list
    BY Zenon DEF FinishedFirst, finished, list
<1> QED
    BY <1>6, <1>7

LEMMA TriageSplitKeeps ==
    ASSUME NInv, NEW r \in Requests, TriageSplit(r)
    PROVE  Preserved
<1> PICK q : q = req[r]
    OBVIOUS
<1> PICK c : c = q.case
    OBVIOUS
<1> PICK list : list = FinishedFirst(q.home, q.task, c)
    OBVIOUS
<1> PICK kin : kin = <<Finished("Complete"), Kept("Investigate")>>
    OBVIOUS
<1>1. q \in Request /\ RequestOK(q) /\ IntakeTypeOK
    BY RowTypes DEF NInv
<1>2. q.at = "triageSplit"
    BY Zenon DEF TriageSplit
<1>3. q.alert \in Alerts /\ c \in CaseIds
    BY <1>1, <1>2, RowTypes DEF RequestOK, BeforeCase, AboutAlert, CaseIds
<1>4. Split(r, c, q.alert, list, kin) /\ req' = [req EXCEPT ![r] = Idle]
    BY Zenon DEF TriageSplit, FinishedFirst, Done, Goes
<1>5. kin \in Seq(Task)
    BY TaskRows DEF TaskNames
<1>6. list \in Seq(Seq(Task)) /\ Len(list) = Len(cases)
    BY <1>1, <1>3, FinishedFirstType, Zenon
<1>7. RequestOK(Idle)'
    <2>1. Len(cases') = Len(cases) + 1 /\ Len(cases) \in Nat
        BY <1>1, <1>4 DEF Split, IntakeTypeOK
    <2> QED
        BY <2>1, IdleRequest DEF RequestOK, AboutAlert, BeforeCase, BesideCase, NoType
<1>8. Claims(q.alert, c)
    BY DEF Claims
<1> QED
    BY <1>1, <1>3, <1>4, <1>5, <1>6, <1>7, <1>8, IdleRequest, SplitStep

LEMMA TriageCommitKeeps ==
    ASSUME NInv, NEW r \in Requests, TriageCommit(r)
    PROVE  Preserved
<1>1. TasksOK'
    BY TasksFinished DEF NInv, TriageCommit, Closes
<1> QED
    BY <1>1, DoneStep DEF TriageCommit
-----------------------------------------------------------------------------
(***************************************************************************)
(* Triage by the model.                                                    *)
(***************************************************************************)
\* Its steps that write no row but a task.
LEMMA AiTasksKeep ==
    ASSUME NInv, NEW r \in Requests,
           TriageTask(r) \/ Predict(r) \/ AiTask(r) \/ KinFinished(r) \/ KinTask(r)
    PROVE  Preserved
<1> PICK q : q = req[r]
    OBVIOUS
<1>1. q \in Request /\ RequestOK(q) /\ IntakeTypeOK
    BY RowTypes DEF NInv
\* The request goes on about its alert and its case.
<1>2. ASSUME NEW p \in Request, req' = [req EXCEPT ![r] = p], UNCHANGED <<alerts, groups, cases>>,
             TasksOK', p.alert = q.alert, p.case = q.case, q.at \in AboutAlert, q.at \notin BeforeCase,
             p.at \in {"predict", "aiTask", "investigate", "aiClose", "aiGroup", "kinCase", "kinTask"},
             p.at \in BesideCase => q.at \in BesideCase
      PROVE  Preserved
    <2>1. RequestOK(p)
        BY <1>1, <1>2 DEF RequestOK, AboutAlert, BeforeCase, BesideCase
    <2> QED
        BY <1>2, <2>1, OnwardStep
<1>3. CASE TriageTask(r)
    <2> PICK t : t = Len(tasks[q.case]) + 1
        OBVIOUS
    <2> PICK p : p = [q EXCEPT !.at = "predict", !.task = t]
        OBVIOUS
    <2>1. q.at = "triageTask" /\ req' = [req EXCEPT ![r] = p] /\ UNCHANGED <<alerts, groups, cases>>
        BY <1>3 DEF TriageTask, Goes
    <2>2. t \in Nat
        <3>1. q.case \in CaseIds
            BY <1>1, <2>1, RowTypes DEF RequestOK, BeforeCase, CaseIds
        <3>2. tasks[q.case] \in Seq(Task)
            BY <1>1, <3>1 DEF IntakeTypeOK, TasksOK, CaseIds
        <3> QED
            BY <3>2
    <2>3. p \in Request
        BY <1>1, <2>2, Puts, Zenon DEF Steps
    <2>4. p.at = "predict" /\ p.alert = q.alert /\ p.case = q.case /\ p.type = q.type
        BY <1>1 DEF Request
    <2>5. TasksOK'
        BY <1>1, <1>3, TaskRows, TasksAdded DEF TriageTask, TaskNames
    <2> QED
        BY <1>1, <1>2, <2>1, <2>3, <2>4, <2>5 DEF RequestOK, AboutAlert, BeforeCase, BesideCase
<1>4. CASE Predict(r)
    <2>1. PICK a \in Answers : \E type \in IF a = "investigate" THEN CaseTypes ELSE {NoType} :
              req' = [req EXCEPT ![r] = [q EXCEPT !.at = "aiTask", !.arg = a, !.type = type]]
        BY <1>4, Zenon DEF Predict, Goes
    <2> PICK type \in Types :
            req' = [req EXCEPT ![r] = [q EXCEPT !.at = "aiTask", !.arg = a, !.type = type]]
        BY <2>1 DEF Types
    <2> PICK p : p = [q EXCEPT !.at = "aiTask", !.arg = a, !.type = type]
        OBVIOUS
    <2>2. q.at = "predict" /\ UNCHANGED rows
        BY <1>4, Zenon DEF Predict
    <2>3. p \in Request
        <3>1. "aiTask" \in Steps /\ a \in Args
            BY IntakeAssumption DEF Steps, Args
        <3> QED
            BY <1>1, <3>1, Puts, Zenon
    <2>4. p.at = "aiTask" /\ p.alert = q.alert /\ p.case = q.case
        BY <1>1 DEF Request
    <2>5. UNCHANGED <<alerts, groups, cases>> /\ TasksOK'
        BY <1>1, <2>2, SameTasks DEF rows
    <2> QED
        BY <1>1, <1>2, <2>1, <2>2, <2>3, <2>4, <2>5 DEF RequestOK, AboutAlert, BeforeCase, BesideCase
<1>5. CASE AiTask(r)
    <2> PICK at \in {"investigate", "aiClose", "aiGroup"} : at = AfterAnswer(q.arg)
        BY DEF AfterAnswer
    <2> PICK p : p = [q EXCEPT !.at = at, !.arg = "none"]
        OBVIOUS
    <2>1. q.at = "aiTask" /\ req' = [req EXCEPT ![r] = p] /\ UNCHANGED <<alerts, groups, cases>>
        BY <1>5 DEF AiTask, Goes
    <2>2. p \in Request
        <3>1. at \in Steps /\ "none" \in Args
            BY DEF Steps, Args
        <3> QED
            BY <1>1, <3>1, Puts, Zenon
    <2>3. p.at = at /\ p.alert = q.alert /\ p.case = q.case
        BY <1>1 DEF Request
    <2>4. TasksOK'
        BY <1>1, <1>5, TasksFinished DEF AiTask, FinishTask, Closes
    <2> QED
        BY <1>1, <1>2, <2>1, <2>2, <2>3, <2>4 DEF AboutAlert, BeforeCase, BesideCase, NoType
<1>6. CASE KinFinished(r)
    <2> PICK p : p = [q EXCEPT !.at = "kinTask"]
        OBVIOUS
    <2>1. q.at = "kinFinished" /\ req' = [req EXCEPT ![r] = p] /\ UNCHANGED <<alerts, groups, cases>>
        BY <1>6 DEF KinFinished, Continues, Goes
    <2>2. p \in Request
        BY <1>1, Puts, Zenon DEF Steps
    <2>3. p.at = "kinTask" /\ p.alert = q.alert /\ p.case = q.case /\ p.type = q.type
        BY <1>1 DEF Request
    <2>4. TasksOK'
        BY <1>1, <1>6, TaskRows, TasksAdded DEF KinFinished, TaskNames
    <2> QED
        BY <1>1, <1>2, <2>1, <2>2, <2>3, <2>4 DEF RequestOK, AboutAlert, BeforeCase, BesideCase
<1>7. CASE KinTask(r)
    <2>1. q.at = "kinTask" /\ UNCHANGED <<alerts, groups, cases>>
        BY <1>7 DEF KinTask
    <2>2. TasksOK'
        BY <1>1, <1>7, TaskRows, TasksAdded DEF KinTask, TaskNames
    <2>3. CASE Done(r)
        BY <2>1, <2>2, <2>3, DoneStep
    <2>4. CASE ~Done(r)
        <3> PICK p : p = [q EXCEPT !.at = "kinCase"]
            OBVIOUS
        <3>1. req' = [req EXCEPT ![r] = p]
            BY <1>7, <2>4 DEF KinTask, Continues, Goes
        <3>2. p \in Request
            BY <1>1, Puts, Zenon DEF Steps
        <3>3. p.at = "kinCase" /\ p.alert = q.alert /\ p.case = q.case /\ p.type = q.type
            BY <1>1 DEF Request
        <3> QED
            BY <1>1, <1>2, <2>1, <2>2, <3>1, <3>2, <3>3
               DEF RequestOK, AboutAlert, BeforeCase, BesideCase
    <2> QED
        BY <2>3, <2>4
<1> QED
    BY <1>3, <1>4, <1>5, <1>6, <1>7

LEMMA AiCloseKeeps ==
    ASSUME NInv, NEW r \in Requests, AiClose(r)
    PROVE  Preserved
<1> PICK c : c = req[r].case
    OBVIOUS
<1>1. /\ SetStatus(r, c, "CLOSED") /\ req' = [req EXCEPT ![r] = Idle]
      /\ UNCHANGED <<alerts, groups, tasks>> /\ req[r].at = "aiClose"
    BY DEF AiClose, Done, Goes
<1>2. c \in CaseIds
    BY <1>1, RowTypes DEF NInv, RequestOK, BeforeCase, CaseIds
<1>3. TasksOK'
    <2>1. Len(cases') = Len(cases)
        BY <1>1 DEF NInv, IntakeTypeOK, SetStatus
    <2> QED
        BY <1>1, <2>1, SameLength
<1>4. RequestOK(Idle) /\ "CLOSED" \in Origins
    BY IdleOK DEF NInv, Origins
<1> QED
    BY <1>1, <1>2, <1>3, <1>4, IdleRequest, StatusStep

LEMMA AiGroupKeeps ==
    ASSUME NInv, NEW r \in Requests, AiGroup(r)
    PROVE  Preserved
<1> PICK q : q = req[r]
    OBVIOUS
<1> PICK p : p = [q EXCEPT !.at = "aiParent"]
    OBVIOUS
<1>1. q \in Request /\ RequestOK(q) /\ IntakeTypeOK /\ q.at = "aiGroup" /\ q.alert \in Alerts
    BY RowTypes DEF NInv, AiGroup, RequestOK, AboutAlert
<1>2. p \in Request
    BY <1>1, Puts, Zenon DEF Steps
<1>3. p.at = "aiParent" /\ p.alert = q.alert /\ p.case = q.case /\ p.type = q.type
    BY <1>1 DEF Request
<1>4. /\ req' = [req EXCEPT ![r] = p] /\ UNCHANGED <<alerts, cases, tasks>>
      /\ groups' = groups \union {q.alert}
    BY DEF AiGroup, Continues, Goes
<1>5. RequestOK(p)'
    BY <1>1, <1>3, <1>4 DEF RequestOK, AboutAlert, BeforeCase, BesideCase
<1>6. TasksOK' /\ groups' \subseteq Alerts /\ cases' \in Seq(Case)
    BY <1>1, <1>4, SameTasks DEF IntakeTypeOK
<1>7. Claims(p.alert, p.case)
    BY <1>3 DEF Claims
<1> QED
    BY <1>2, <1>4, <1>5, <1>6, <1>7, KeepsGroups

\* The alert's own case joins the group.
LEMMA AiParentKeeps ==
    ASSUME NInv, NEW r \in Requests, AiParent(r)
    PROVE  Preserved
<1> PICK q : q = req[r]
    OBVIOUS
<1> PICK b : b = q.alert
    OBVIOUS
<1> PICK c : c = q.case
    OBVIOUS
<1> PICK row : row = NewCase("READY", "FRAUD_AND_AML", b)
    OBVIOUS
<1> PICK p : p = [q EXCEPT !.at = "kinCase"]
    OBVIOUS
<1>1. /\ q \in Request /\ RequestOK(q) /\ IntakeTypeOK /\ q.at = "aiParent" /\ b \in Alerts
      /\ b \in groups /\ c \in CaseIds /\ Len(cases) \in Nat
    <2>1. q \in Request /\ RequestOK(q) /\ IntakeTypeOK /\ q.at = "aiParent"
        BY RowTypes DEF NInv, AiParent
    <2> QED
        BY <2>1, RowTypes DEF RequestOK, BeforeCase, AboutAlert, CaseIds
<1>2. p \in Request
    BY <1>1, Puts, Zenon DEF Steps
<1>3. p.at = "kinCase" /\ p.alert = b /\ p.case = c /\ p.type = q.type
    BY <1>1 DEF Request
<1>4. /\ req' = [req EXCEPT ![r] = p] /\ UNCHANGED <<alerts, groups, tasks>>
      /\ cases' = [cases EXCEPT ![c] = row]
    BY DEF AiParent, Continues, Goes
<1>5. row \in Case /\ row.group = b /\ row.type = "FRAUD_AND_AML"
    BY <1>1 DEF NewCase, Case, Origins, CaseTypes
<1>6. /\ cases' \in Seq(Case) /\ Len(cases') = Len(cases)
      /\ \A d \in CaseIds : cases'[d] = IF d = c THEN row ELSE cases[d]
    BY <1>1, <1>4, <1>5 DEF IntakeTypeOK, CaseIds
<1>7. TasksOK' /\ NewIds = {}
    BY <1>1, <1>4, <1>6, SameLength DEF NewIds
<1>8. Claims(b, c) /\ c \in Reach(b)
    BY <1>1 DEF Claims, Reach
<1>9. \A d \in CaseIds :
        cases'[d].group = cases[d].group \/ (Claims(b, d) /\ cases'[d].group = b)
    <2> TAKE d \in CaseIds
    <2>1. CASE d = c
        BY <1>5, <1>6, <1>8, <2>1
    <2>2. CASE d # c
        BY <1>6, <2>2
    <2> QED
        BY <2>1, <2>2
<1>10. RequestOK(p)'
    BY <1>1, <1>3, <1>4, <1>5, <1>6 DEF RequestOK, AboutAlert, BeforeCase, BesideCase
<1>11. KeepsCase(b)' /\ alerts'[b].case \in {0} \union Reach(b)
    <2>1. c \in InGroup(b)'
        BY <1>1, <1>5, <1>6 DEF InGroup, CaseIds
    <2>2. alerts[b].case \in {0} \union {d \in CaseIds : Claims(b, d)}
        BY <1>1 DEF IntakeTypeOK, CaseIds, Claims
    <2> QED
        BY <1>4, <2>1, <2>2 DEF KeepsCase, Reach
<1>12. Moves(r, p, b)
    BY <1>1, <1>2, <1>3, <1>4, <1>6, <1>7, <1>8, <1>9, <1>10, <1>11, IntakeAssumption
       DEF Moves, IntakeTypeOK
<1> QED
    BY <1>12, MovesKeepNInv

LEMMA KinCaseKeeps ==
    ASSUME NInv, NEW r \in Requests, KinCase(r)
    PROVE  Preserved
<1> PICK q : q = req[r]
    OBVIOUS
<1> PICK n : n = Len(cases) + 1
    OBVIOUS
<1> PICK kin : kin = Append(q.kin, n)
    OBVIOUS
<1> PICK new : new = NewCase("READY", IF q.kin = <<>> THEN "FRAUD" ELSE "AML", q.alert)
    OBVIOUS
<1> PICK p : p = [q EXCEPT !.at = "kinFinished", !.kin = kin]
    OBVIOUS
<1>1. /\ q \in Request /\ RequestOK(q) /\ IntakeTypeOK /\ q.at = "kinCase" /\ q.alert \in Alerts
      /\ n \in Nat \ {0}
    BY RowTypes DEF NInv, KinCase, RequestOK, AboutAlert
<1>2. /\ AddCase(new, <<>>) /\ req' = [req EXCEPT ![r] = p] /\ UNCHANGED <<alerts, groups>>
    BY <1>1 DEF KinCase, Goes
<1>3. p.at = "kinFinished" /\ p.alert = q.alert /\ p.case = q.case /\ p.type = q.type
    BY <1>1 DEF Request
<1>4. p \in Request
    <2>1. kin \in Seq(Nat) /\ "kinFinished" \in Steps
        BY <1>1 DEF Steps, Request
    <2> QED
        BY <1>1, <2>1, Puts, Zenon
<1>5. new \in Case /\ new.group = q.alert
    BY <1>1 DEF NewCase, Case, CaseTypes, Origins
<1>6. q.case \in CaseIds /\ q.alert \in groups /\ cases[q.case].group = q.alert
    BY <1>1, RowTypes DEF RequestOK, BesideCase, BeforeCase, CaseIds
<1>7. Len(cases') = n /\ cases'[q.case] = cases[q.case]
    BY <1>1, <1>2, <1>5, <1>6 DEF AddCase, IntakeTypeOK, CaseIds
<1>8. RequestOK(p)'
    BY <1>1, <1>2, <1>3, <1>6, <1>7 DEF RequestOK, AboutAlert, BeforeCase, BesideCase, CaseIds
<1>9. <<>> \in Seq(Task)
    OBVIOUS
<1> QED
    BY <1>1, <1>2, <1>3, <1>4, <1>5, <1>8, <1>9, AddStep

LEMMA TriageStepsKeep ==
    ASSUME NInv, triageType \in TriageTypes, NEW r \in Requests, TriageSteps(r)
    PROVE  Preserved
<1>1. ~Undo(r) /\ ~DropGroup(r)
    BY DEF NInv, RequestOK, Undo, DropGroup
<1> QED
    BY <1>1, IngestAlertKeeps, InsertFirstKeeps, InvestigateKeeps, ReadyKeeps, TriageLockKeeps,
       TriageCloseKeeps, TriageSplitKeeps, TriageCommitKeeps, AiTasksKeep, AiCloseKeeps, AiGroupKeeps,
       AiParentKeeps, KinCaseKeeps DEF TriageSteps
-----------------------------------------------------------------------------
(***************************************************************************)
(* The theorems.                                                           *)
(***************************************************************************)
LEMMA TypeStays ==
    ASSUME NEW r \in Requests,
           CreationCalls(r) \/ TriageCalls(r) \/ Step(r) \/ AmlThrows(r) \/ Fail(r) \/ Expire(r)
    PROVE  triageType' = triageType
<1>1. CASE CreationCalls(r)
    BY <1>1, Zenon DEF CreationCalls, ManualCheck, DraftCheck, CompleteCheck, LegacyCheck, AbandonCheck,
       DecisionCheck, Starts
<1>2. CASE TriageCalls(r)
    BY <1>2, ZenonT(60) DEF TriageCalls, IngestNalt, IngestCase, TriageCheck, Starts
<1>3. CASE CreationSteps(r)
    BY <1>3, Zenon DEF CreationSteps, GroupUpsert, CreatePrimary, CreateSibling, LinkAlert, CreateDraft,
       CompleteLock, CompleteTask, CompleteCommit, LegacyReady, LegacyTask, AbandonCase, AbandonTask,
       Approve, RejectCase, RejectTask, Goes, Continues, Done, ThenInsert
<1>4. CASE TriageSteps(r)
    BY <1>4, Zenon DEF TriageSteps, IngestAlert, InsertFirst, Investigate, Ready, TriageLock, TriageClose,
       TriageSplit, TriageCommit, TriageTask, Predict, AiTask, AiClose, AiGroup, AiParent, KinCase,
       KinFinished, KinTask, Undo, DropGroup, Goes, Continues, Done
<1>5. CASE Insert(r) \/ AmlThrows(r) \/ Fail(r) \/ Expire(r)
    BY <1>5, Zenon DEF Insert, AmlThrows, Fail, Expire, Done, Goes
<1> QED
    BY <1>1, <1>2, <1>3, <1>4, <1>5 DEF Step

LEMMA InitNInv == ASSUME Init PROVE NInv /\ triageType \in TriageTypes
<1>1. Len(cases) = 0 /\ CaseIds = {}
    BY DEF Init, CaseIds
<1>2. Row("none", 0) \in Alert /\ Row("none", 0).case = 0 /\ Row("none", 0).kind = "none"
    BY DEF Row, Alert
<1>3. alerts = [a \in Alerts |-> Row("none", 0)] /\ req = [r \in Requests |-> Idle]
    BY DEF Init
<1>4. IntakeTypeOK
    BY <1>1, <1>2, <1>3, IdleRequest DEF Init, IntakeTypeOK, TasksOK
<1>5. \A r \in Requests : RequestOK(req[r])
    BY <1>3, <1>4, IdleOK
<1>6. \A a \in Alerts : KeepsCase(a)
    BY <1>2, <1>3 DEF KeepsCase
<1> QED
    BY <1>1, <1>4, <1>5, <1>6 DEF Init, NInv, OneAlert

LEMMA NextNInv ==
    ASSUME Whole, NInv, triageType \in TriageTypes, [Next]_vars
    PROVE  NInv' /\ triageType' \in TriageTypes
<1>1. CASE UNCHANGED vars
    BY <1>1 DEF vars, NInv, IntakeTypeOK, TasksOK, RequestOK, OneAlert, Claims, KeepsCase, InGroup,
       CaseIds
<1>2. CASE Next
    <2> PICK r \in Requests :
            CreationCalls(r) \/ TriageCalls(r) \/ Step(r) \/ AmlThrows(r) \/ Fail(r) \/ Expire(r)
        BY <1>2 DEF Next
    <2>1. ~AmlThrows(r)
        BY DEF Whole, AmlThrows
    <2>2. Preserved
        BY <2>1, CreationCallsKeep, TriageCallsKeep, CreationStepsKeep, TriageStepsKeep, StoreKeeps DEF Step
    <2> QED
        BY <2>2, TypeStays DEF Preserved
<1> QED
    BY <1>1, <1>2

LEMMA AlwaysNInv == Whole => (Spec => []NInv)
<1> SUFFICES ASSUME Whole PROVE Spec => []NInv
    OBVIOUS
<1>1. Init => NInv /\ triageType \in TriageTypes
    BY InitNInv
<1>2. NInv /\ triageType \in TriageTypes /\ [Next]_vars => NInv' /\ (triageType \in TriageTypes)'
    BY NextNInv
<1> QED
    BY <1>1, <1>2, PTL DEF Spec

RequestsOK == \A r \in Requests : RequestOK(req[r])

\* Every row and every request has its type, and a request in flight carries what its
\* next step needs: the case it is to write, the alert it is to link, and beside a
\* split that is being made a case about fraud that is in the group.
THEOREM IntakeTypeCorrect == Whole => (Spec => [](IntakeTypeOK /\ RequestsOK))
<1>1. NInv => IntakeTypeOK /\ RequestsOK
    BY DEF NInv, RequestsOK
<1> QED
    BY <1>1, AlwaysNInv, PTL

\* A case is never about two alerts: of its link, its group and the requests in flight
\* about it, all name the same one.
THEOREM OneAlertPerCase == Whole => (Spec => []OneAlert)
<1>1. NInv => OneAlert
    BY DEF NInv
<1> QED
    BY <1>1, AlwaysNInv, PTL

\* An alert that asked for a case always leads to one, whatever completions, approvals,
\* triage and expired transactions take its link away and put it back.
THEOREM AlertAlwaysKeepsCase == Whole => (Spec => []AlertKeepsCase)
<1>1. ASSUME NInv, NEW a \in Alerts, alerts[a].kind = "ALRT"
      PROVE  CasesOf(a) # {}
    <2>1. CASE alerts[a].case # 0
        <3> PICK c : c = alerts[a].case
            OBVIOUS
        <3>1. c \in CaseIds
            BY <1>1, <2>1, RowTypes DEF NInv, IntakeTypeOK, CaseIds
        <3>2. a \in AlertsOf(c)
            BY DEF AlertsOf
        <3> QED
            BY <3>1, <3>2 DEF CasesOf
    <2>2. CASE alerts[a].case = 0
        <3>1. PICK c \in CaseIds : cases[c].group = a
            BY <1>1, <2>2 DEF NInv, KeepsCase, InGroup
        <3>2. \A b \in Alerts : alerts[b].case = c => b = a
            BY <1>1, <3>1 DEF NInv, OneAlert, Claims
        <3>3. {b \in Alerts : alerts[b].case = c} = {}
            BY <2>2, <3>1, <3>2, RowTypes, <1>1 DEF NInv, CaseIds
        <3>4. a # NoAlert
            BY IntakeAssumption
        <3>5. a \in AlertsOf(c)
            BY <3>1, <3>3, <3>4 DEF AlertsOf
        <3> QED
            BY <3>1, <3>5 DEF CasesOf
    <2> QED
        BY <2>1, <2>2
<1>2. NInv => AlertKeepsCase
    BY <1>1 DEF AlertKeepsCase
<1> QED
    BY <1>2, AlwaysNInv, PTL

-----------------------------------------------------------------------------
(***************************************************************************)
(* Partners.  While a split by a supervisor or by the AI model is being    *)
(* made, its FRAUD case is in the group and belongs to nobody else: no     *)
(* alert is linked to it, so triage does not find it, and it is READY, so  *)
(* completion, approval and abandonment do not begin on it.                *)
(***************************************************************************)
Making == {"kinCase", "kinFinished", "kinTask"}
Half(q) ==
    IF q.at = "sibling" THEN q.case
    ELSE IF q.at \in Making /\ q.kin # <<>> THEN q.kin[1] ELSE 0

Unlinked(c) == \A a \in Alerts : alerts[a].case # c

HalfOK(r) ==
    LET c == Half(req[r])
    IN  c # 0 =>
          /\ c \in CaseIds /\ Unlinked(c)
          /\ cases[c] = NewCase("READY", "FRAUD", req[r].alert)
          /\ \A p \in Requests : req[p].case = c => p = r /\ req[r].at = "sibling"

\* On the way to a split by the AI model nothing has been made yet, and what has been
\* made later is a case.
ToSplit == {"ingest", "triageTask", "predict", "aiTask", "aiGroup", "aiParent"}
KinOK(r) ==
    /\ req[r].at \in ToSplit => req[r].kin = <<>>
    /\ req[r].at \in Making /\ req[r].kin # <<>> => req[r].kin[1] # 0

PInv == NInv /\ \A r \in Requests : HalfOK(r) /\ KinOK(r)

(***************************************************************************)
(* What the steps of a request do to cases that are not its own.           *)
(***************************************************************************)
LEMMA Added ==
    ASSUME NInv, NEW new, NEW list, AddCase(new, list)
    PROVE  /\ CaseIds' = CaseIds \union {Len(cases) + 1} /\ Len(cases) \in Nat
           /\ \A c \in CaseIds : cases'[c] = cases[c] /\ c < Len(cases) + 1
           /\ cases'[Len(cases) + 1] = new
<1>1. Len(cases) \in Nat /\ cases \in Seq(Case)
    BY DEF NInv, IntakeTypeOK
<1>2. cases' = Append(cases, new)
    BY DEF AddCase
<1> QED
    BY <1>1, <1>2 DEF CaseIds

LEMMA Replaced ==
    ASSUME NInv, NEW x, NEW row, cases' = [cases EXCEPT ![x] = row]
    PROVE  /\ CaseIds' = CaseIds
           /\ \A c \in CaseIds : cases'[c] = IF c = x THEN row ELSE cases[c]
           /\ \A c \in CaseIds : c # x => c \in CaseIds' /\ cases'[c] = cases[c]
BY DEF NInv, IntakeTypeOK, CaseIds

LEMMA TwoFields ==
    ASSUME NInv, NEW c \in CaseIds, NEW s, NEW type,
           cases' = [cases EXCEPT ![c].status = s, ![c].type = type]
    PROVE  cases' = [cases EXCEPT ![c] = [cases[c] EXCEPT !.status = s, !.type = type]]
BY DEF NInv, IntakeTypeOK, CaseIds

\* The rows after a split.
LEMMA WasSplit ==
    ASSUME NInv, NEW r, NEW x \in CaseIds, NEW a, NEW list, NEW kin, Split(r, x, a, list, kin)
    PROVE  /\ CaseIds' = CaseIds \union {Len(cases) + 1} /\ Len(cases) \in Nat
           /\ cases'[x] = NewCase("READY", "FRAUD", a)
           /\ cases'[Len(cases) + 1] = NewCase("READY", "AML", a)
           /\ \A c \in CaseIds : c # x => cases'[c] = cases[c]
<1> PICK own : own = NewCase("READY", "FRAUD", a)
    OBVIOUS
<1> PICK new : new = NewCase("READY", "AML", a)
    OBVIOUS
<1> PICK mid : mid = [cases EXCEPT ![x] = own]
    OBVIOUS
<1>1. Len(cases) \in Nat /\ cases \in Seq(Case)
    BY DEF NInv, IntakeTypeOK
<1>2. /\ Len(mid) = Len(cases) /\ mid[x] = own
      /\ \A c \in CaseIds : c # x => mid[c] = cases[c]
    BY <1>1 DEF CaseIds
<1>3. mid \in Seq({cases[c] : c \in CaseIds} \union {own})
    <2>1. mid \in [1..Len(cases) -> {cases[c] : c \in CaseIds} \union {own}]
        BY <1>1 DEF CaseIds
    <2> QED
        BY <1>1, <2>1
<1>4. cases' = Append(mid, new)
    BY DEF Split
<1> QED
    BY <1>1, <1>2, <1>3, <1>4 DEF CaseIds

LEMMA SplitElsewhere ==
    ASSUME NInv, NEW r, NEW x \in CaseIds, NEW a, NEW list, NEW kin, Split(r, x, a, list, kin),
           NEW c \in CaseIds, c # x
    PROVE  c \in CaseIds' /\ cases'[c] = cases[c]
<1>1. CaseIds' = CaseIds \union {Len(cases) + 1} /\ \A d \in CaseIds : d # x => cases'[d] = cases[d]
    BY WasSplit, Zenon
<1> QED
    BY <1>1

\* A step of r leaves case c and its links alone, and what others carry.
Spares(r, c) ==
    /\ c \in CaseIds' /\ cases'[c] = cases[c] /\ Unlinked(c)'
    /\ req'[r].case # c
    /\ \A p \in Requests : p # r => req'[p] = req[p]

LEMMA CreationSpares ==
    ASSUME NInv, NEW r \in Requests, CreationCalls(r) \/ CreationSteps(r),
           NEW c \in CaseIds, cases[c].status = "READY", Unlinked(c), req[r].case # c
    PROVE  Spares(r, c)
<1> PICK q : q = req[r]
    OBVIOUS
<1>1. /\ req \in [Requests -> Request] /\ q \in Request /\ c \in Nat \ {0} /\ q.case # c
      /\ alerts \in [Alerts -> Alert] /\ Len(cases) \in Nat /\ Len(cases) + 1 # c /\ 0 # c
    BY RowTypes DEF NInv, IntakeTypeOK, CaseIds
\* No row but a task, or a group.
<1>2. ASSUME NEW p, req' = [req EXCEPT ![r] = p], p.case # c, UNCHANGED <<alerts, cases>>
      PROVE  Spares(r, c)
    BY <1>1, <1>2 DEF Spares, Unlinked, CaseIds
\* A row of cases, not that of c.
<1>3. ASSUME NEW p, req' = [req EXCEPT ![r] = p], p.case # c, NEW x, x # c, NEW row,
             cases' = [cases EXCEPT ![x] = row], Unlinked(c)'
      PROVE  Spares(r, c)
    <2>1. c \in CaseIds' /\ cases'[c] = cases[c]
        BY <1>3, Replaced, Zenon
    <2>2. req'[r].case # c /\ \A o \in Requests : o # r => req'[o] = req[o]
        BY <1>1, <1>3
    <2> QED
        BY <1>3, <2>1, <2>2 DEF Spares
\* A new row.
<1>4. ASSUME NEW p, req' = [req EXCEPT ![r] = p], p.case # c, NEW new, NEW list, AddCase(new, list),
             Unlinked(c)'
      PROVE  Spares(r, c)
    <2>1. c \in CaseIds' /\ cases'[c] = cases[c]
        BY <1>4, Added
    <2>2. req'[r].case # c /\ \A o \in Requests : o # r => req'[o] = req[o]
        BY <1>1, <1>4
    <2> QED
        BY <1>4, <2>1, <2>2 DEF Spares
<1>5. ASSUME NEW x, x # c, NEW a, alerts' = alerts \/ alerts' = [alerts EXCEPT ![a].case = x]
      PROVE  Unlinked(c)'
    BY <1>1, <1>5 DEF Unlinked, Alert
\* A split.
<1>6. ASSUME NEW p, req' = [req EXCEPT ![r] = p], p.case # c, NEW x \in CaseIds, x # c, NEW a,
             NEW list, NEW kin, Split(r, x, a, list, kin)
      PROVE  Spares(r, c)
    <2>1. alerts' = [alerts EXCEPT ![a].case = 0]
        BY <1>6 DEF Split
    <2>2. Unlinked(c)'
        BY <1>1, <1>5, <2>1, Zenon
    <2> QED
        <3>1. c \in CaseIds' /\ cases'[c] = cases[c]
            BY <1>6, SplitElsewhere
        <3>2. req'[r].case # c /\ \A o \in Requests : o # r => req'[o] = req[o]
            BY <1>1, <1>6
        <3> QED
            BY <2>2, <3>1, <3>2 DEF Spares
<1>7. CASE CreationCalls(r)
    <2>1. ASSUME NEW p, Starts(r, p), UNCHANGED rows, p.case # c PROVE Spares(r, c)
        BY <1>2, <2>1 DEF Starts, rows
    <2>2. ASSUME NEW role, NEW a, NEW type, ManualCheck(r, role, a, type) PROVE Spares(r, c)
        <3>1. PICK at : Starts(r, [Idle EXCEPT !.at = at, !.role = role, !.alert = a, !.type = type])
            BY <2>2, Zenon DEF ManualCheck
        <3>2. [Idle EXCEPT !.at = at, !.role = role, !.alert = a, !.type = type].case = 0
            BY DEF Idle
        <3> QED
            BY <1>1, <2>1, <2>2, <3>1, <3>2 DEF ManualCheck
    <2>3. ASSUME NEW role, NEW a, NEW type, DraftCheck(r, role, a, type) PROVE Spares(r, c)
        <3>1. [Idle EXCEPT !.at = "draft", !.role = role, !.alert = a, !.type = type].case = 0
            BY DEF Idle
        <3> QED
            BY <1>1, <2>1, <2>3, <3>1 DEF DraftCheck
    <2>4. ASSUME NEW role, NEW x, NEW type, CompleteCheck(r, role, x, type) PROVE Spares(r, c)
        <3>1. [Idle EXCEPT !.at = "completeLock", !.role = role, !.case = x, !.type = type].case = x
            BY DEF Idle
        <3>2. x # c
            BY <2>4 DEF CompleteCheck
        <3> QED
            BY <2>1, <2>4, <3>1, <3>2 DEF CompleteCheck
    <2>5. ASSUME NEW x, LegacyCheck(r, x) PROVE Spares(r, c)
        BY <1>1, <2>1, <2>5 DEF LegacyCheck, Idle
    <2>6. ASSUME NEW role, NEW x, AbandonCheck(r, role, x) PROVE Spares(r, c)
        BY <1>1, <2>1, <2>6 DEF AbandonCheck, Idle
    <2>7. ASSUME NEW x, NEW t, NEW step, DecisionCheck(r, x, t, step) PROVE Spares(r, c)
        BY <1>1, <2>1, <2>7 DEF DecisionCheck, Idle
    <2> QED
        BY <1>7, <2>2, <2>3, <2>4, <2>5, <2>6, <2>7, Zenon DEF CreationCalls
<1>8. Idle.case # c
    BY <1>1 DEF Idle
<1>9. CASE Done(r) /\ UNCHANGED <<alerts, cases>>
    BY <1>2, <1>8, <1>9 DEF Done, Goes
\* The request goes on.
<1>10. ASSUME NEW at, Continues(r, at)
       PROVE  \E p : req' = [req EXCEPT ![r] = p] /\ p.case # c
    <2> PICK p : p = [q EXCEPT !.at = at]
        OBVIOUS
    <2>1. req' = [req EXCEPT ![r] = p]
        BY <1>10 DEF Continues, Goes
    <2>2. p.case = q.case
        BY <1>1 DEF Request
    <2> QED
        BY <1>1, <2>1, <2>2
<1>11. ASSUME NEW n, ThenInsert(r, n)
       PROVE  \E p : req' = [req EXCEPT ![r] = p] /\ p.case # c
    <2> PICK p : p = [q EXCEPT !.at = "insert", !.arg = n]
        OBVIOUS
    <2>1. req' = [req EXCEPT ![r] = p]
        BY <1>11 DEF ThenInsert, Goes
    <2>2. p.case = q.case
        BY <1>1 DEF Request
    <2> QED
        BY <1>1, <2>1, <2>2
<1>12. CASE CompleteLock(r) /\ ~Done(r)
    <2>1. PICK t, a : req' = [req EXCEPT ![r] = [q EXCEPT !.at = "completeTask", !.task = t, !.alert = a]]
        BY <1>12, Zenon DEF CompleteLock, Goes
    <2> PICK p : p = [q EXCEPT !.at = "completeTask", !.task = t, !.alert = a]
        OBVIOUS
    <2>2. p.case = q.case
        BY <1>1 DEF Request
    <2>3. UNCHANGED <<alerts, cases>>
        BY <1>12, Zenon DEF CompleteLock, rows
    <2> QED
        BY <1>1, <1>2, <2>1, <2>2, <2>3
<1>13. CASE GroupUpsert(r) \/ CompleteTask(r) \/ LegacyTask(r) \/ AbandonTask(r) \/ RejectTask(r)
            \/ (CompleteLock(r) /\ Done(r))
    <2>1. UNCHANGED <<alerts, cases>> /\ (Done(r) \/ \E p : req' = [req EXCEPT ![r] = p] /\ p.case # c)
        BY <1>10, <1>11, <1>13 DEF GroupUpsert, CompleteTask, LegacyTask, AbandonTask, RejectTask,
           CompleteLock, rows
    <2> QED
        BY <1>2, <1>9, <2>1
<1>14. CASE LegacyReady(r) \/ AbandonCase(r) \/ RejectCase(r)
    <2>1. PICK s : SetStatus(r, q.case, s) /\ UNCHANGED alerts
        BY <1>14 DEF LegacyReady, AbandonCase, RejectCase
    <2>2. PICK row : cases' = [cases EXCEPT ![q.case] = row]
        BY <2>1 DEF SetStatus
    <2>3. \E p : req' = [req EXCEPT ![r] = p] /\ p.case # c
        BY <1>10, <1>14 DEF LegacyReady, AbandonCase, RejectCase
    <2> QED
        BY <1>1, <1>3, <2>1, <2>2, <2>3 DEF Unlinked
<1>15. CASE CreatePrimary(r)
    <2>1. PICK at, new : /\ AddCase(new, <<>>) /\ UNCHANGED alerts
                         /\ req' = [req EXCEPT ![r] = [q EXCEPT !.at = at, !.case = Len(cases) + 1]]
        BY <1>15, Zenon DEF CreatePrimary, Goes
    <2> PICK p : p = [q EXCEPT !.at = at, !.case = Len(cases) + 1]
        OBVIOUS
    <2>2. p.case # c
        BY <1>1 DEF Request
    <2>3. Unlinked(c)'
        BY <2>1 DEF Unlinked
    <2> QED
        BY <1>4, <2>1, <2>2, <2>3, Zenon
<1>16. CASE CreateSibling(r)
    <2>1. PICK new : /\ AddCase(new, <<>>) /\ UNCHANGED alerts
                     /\ req' = [req EXCEPT ![r] = [q EXCEPT !.at = "link", !.kin = <<Len(cases) + 1>>]]
        BY <1>16, Zenon DEF CreateSibling, Goes
    <2> PICK p : p = [q EXCEPT !.at = "link", !.kin = <<Len(cases) + 1>>]
        OBVIOUS
    <2>2. p.case = q.case
        BY <1>1 DEF Request
    <2>3. Unlinked(c)'
        BY <2>1 DEF Unlinked
    <2> QED
        BY <1>1, <1>4, <2>1, <2>2, <2>3
<1>17. CASE LinkAlert(r)
    <2>1. /\ req' = [req EXCEPT ![r] = Idle] /\ cases' = cases
          /\ alerts' = alerts \/ alerts' = [alerts EXCEPT ![q.alert].case = q.case]
        BY <1>17, Zenon DEF LinkAlert, Done, Goes
    <2>2. Unlinked(c)'
        BY <1>1, <1>5, <2>1
    <2> QED
        BY <1>1, <1>8, <2>1, <2>2 DEF Spares, CaseIds
<1>18. CASE CreateDraft(r)
    <2>1. /\ AddCase(NewCase("DRAFT", q.type, NoAlert), <<>>)
          /\ alerts' = [alerts EXCEPT ![q.alert].case = Len(cases) + 1]
          /\ req' = [req EXCEPT ![r] = [q EXCEPT !.at = "insert", !.case = Len(cases) + 1,
                                                 !.arg = "Complete"]]
        BY <1>18, Zenon DEF CreateDraft, Goes
    <2>2. Unlinked(c)'
        BY <1>1, <1>5, <2>1, Zenon
    <2> PICK p : p = [q EXCEPT !.at = "insert", !.case = Len(cases) + 1, !.arg = "Complete"]
        OBVIOUS
    <2>3. p.case # c
        BY <1>1 DEF Request
    <2> QED
        BY <1>4, <2>1, <2>2, <2>3, Zenon
<1>19. CASE CompleteCommit(r) /\ ~(Done(r) /\ UNCHANGED <<alerts, cases>>)
    <2>1. q.case \in CaseIds
        BY <1>1, <1>19 DEF NInv, RequestOK, BeforeCase, CompleteCommit, CaseIds
    <2>2. PICK p : req' = [req EXCEPT ![r] = p] /\ p.case # c
        BY <1>11, <1>19, Zenon DEF CompleteCommit, rows
    <2>3. PICK a : \/ \E list, kin : Split(r, q.case, a, list, kin)
                   \/ /\ \E row : cases' = [cases EXCEPT ![q.case] = row]
                      /\ alerts' = [alerts EXCEPT ![a].case = q.case]
        <3>1. PICK a : \/ Split(r, q.case, a, tasks, <<Finished("Complete"), Kept("Investigate")>>)
                       \/ /\ cases' = [cases EXCEPT ![q.case].status = ManualStatus(q.role),
                                                    ![q.case].type = q.type]
                          /\ alerts' = [alerts EXCEPT ![a].case = q.case]
            BY <1>19, Zenon DEF CompleteCommit, rows
        <3>2. ASSUME cases' = [cases EXCEPT ![q.case].status = ManualStatus(q.role), ![q.case].type = q.type]
              PROVE  \E row : cases' = [cases EXCEPT ![q.case] = row]
            BY <2>1, <3>2 DEF NInv, IntakeTypeOK, CaseIds
        <3> QED
            BY <3>1, <3>2, Zenon
    <2>4. CASE \E list, kin : Split(r, q.case, a, list, kin)
        BY <1>1, <1>6, <2>1, <2>2, <2>4
    <2>5. CASE \E row : cases' = [cases EXCEPT ![q.case] = row] /\ alerts' = [alerts EXCEPT ![a].case = q.case]
        BY <1>1, <1>3, <1>5, <2>2, <2>5
    <2> QED
        BY <2>3, <2>4, <2>5
<1>20. CASE Approve(r) /\ ~(Done(r) /\ UNCHANGED <<alerts, cases>>)
    <2>1. q.case \in CaseIds
        BY <1>1, <1>20 DEF NInv, RequestOK, BeforeCase, Approve, CaseIds
    <2>2. PICK p : req' = [req EXCEPT ![r] = p] /\ p.case # c
        BY <1>8, <1>11, <1>20, Zenon DEF Approve, rows, Done, Goes
    <2>3. \/ \E a, list, kin : Split(r, q.case, a, list, kin)
          \/ SetStatus(r, q.case, "READY") /\ UNCHANGED alerts
        BY <1>20, Zenon DEF Approve, rows
    <2>4. CASE SetStatus(r, q.case, "READY") /\ UNCHANGED alerts
        BY <1>1, <1>3, <2>2, <2>4 DEF SetStatus, Unlinked
    <2> QED
        BY <1>1, <1>6, <2>1, <2>2, <2>3, <2>4
<1> QED
    BY <1>7, <1>9, <1>12, <1>13, <1>14, <1>15, <1>16, <1>17, <1>18, <1>19, <1>20, Zenon DEF CreationSteps

LEMMA TriageSpares ==
    ASSUME NInv, NEW r \in Requests, TriageCalls(r) \/ TriageSteps(r), ~Undo(r), ~DropGroup(r),
           NEW c \in CaseIds, cases[c].status = "READY", Unlinked(c), req[r].case # c
    PROVE  Spares(r, c)
<1> PICK q : q = req[r]
    OBVIOUS
<1>1. /\ req \in [Requests -> Request] /\ q \in Request /\ c \in Nat \ {0} /\ q.case # c
      /\ alerts \in [Alerts -> Alert] /\ Len(cases) \in Nat /\ Len(cases) + 1 # c /\ 0 # c
    BY RowTypes DEF NInv, IntakeTypeOK, CaseIds
\* No row but a task, or a group.
<1>2. ASSUME NEW p, req' = [req EXCEPT ![r] = p], p.case # c, UNCHANGED <<alerts, cases>>
      PROVE  Spares(r, c)
    BY <1>1, <1>2 DEF Spares, Unlinked, CaseIds
\* A row of cases, not that of c.
<1>3. ASSUME NEW p, req' = [req EXCEPT ![r] = p], p.case # c, NEW x, x # c, NEW row,
             cases' = [cases EXCEPT ![x] = row], Unlinked(c)'
      PROVE  Spares(r, c)
    <2>1. c \in CaseIds' /\ cases'[c] = cases[c]
        BY <1>3, Replaced, Zenon
    <2>2. req'[r].case # c /\ \A o \in Requests : o # r => req'[o] = req[o]
        BY <1>1, <1>3
    <2> QED
        BY <1>3, <2>1, <2>2 DEF Spares
\* A new row.
<1>4. ASSUME NEW p, req' = [req EXCEPT ![r] = p], p.case # c, NEW new, NEW list, AddCase(new, list),
             Unlinked(c)'
      PROVE  Spares(r, c)
    <2>1. c \in CaseIds' /\ cases'[c] = cases[c]
        BY <1>4, Added
    <2>2. req'[r].case # c /\ \A o \in Requests : o # r => req'[o] = req[o]
        BY <1>1, <1>4
    <2> QED
        BY <1>4, <2>1, <2>2 DEF Spares
<1>5. ASSUME NEW x, x # c, NEW a, alerts' = alerts \/ alerts' = [alerts EXCEPT ![a].case = x]
      PROVE  Unlinked(c)'
    BY <1>1, <1>5 DEF Unlinked, Alert
\* A split.
<1>6. ASSUME NEW p, req' = [req EXCEPT ![r] = p], p.case # c, NEW x \in CaseIds, x # c, NEW a,
             NEW list, NEW kin, Split(r, x, a, list, kin)
      PROVE  Spares(r, c)
    <2>1. alerts' = [alerts EXCEPT ![a].case = 0]
        BY <1>6 DEF Split
    <2>2. Unlinked(c)'
        BY <1>1, <1>5, <2>1, Zenon
    <2> QED
        <3>1. c \in CaseIds' /\ cases'[c] = cases[c]
            BY <1>6, SplitElsewhere
        <3>2. req'[r].case # c /\ \A o \in Requests : o # r => req'[o] = req[o]
            BY <1>1, <1>6
        <3> QED
            BY <2>2, <3>1, <3>2 DEF Spares
<1>7. Idle.case # c
    BY <1>1 DEF Idle
<1>8. ASSUME Done(r), UNCHANGED <<alerts, cases>> PROVE Spares(r, c)
    BY <1>2, <1>7, <1>8 DEF Done, Goes
\* The request goes on.
<1>9. ASSUME NEW at, Continues(r, at)
      PROVE  \E p : req' = [req EXCEPT ![r] = p] /\ p.case # c
    <2> PICK p : p = [q EXCEPT !.at = at]
        OBVIOUS
    <2>1. req' = [req EXCEPT ![r] = p]
        BY <1>9 DEF Continues, Goes
    <2>2. p.case = q.case
        BY <1>1 DEF Request
    <2> QED
        BY <1>1, <2>1, <2>2
<1>10. CASE TriageCalls(r)
    <2>1. ASSUME NEW a, IngestNalt(r, a) PROVE Spares(r, c)
        <3>1. /\ req' = [req EXCEPT ![r] = Idle] /\ alerts' = [alerts EXCEPT ![a] = Row("NALT", 0)]
              /\ cases' = cases
            BY <2>1, Zenon DEF IngestNalt, Starts
        <3>2. Row("NALT", 0).case # c
            BY <1>1 DEF Row
        <3>3. Unlinked(c)'
            BY <1>1, <3>1, <3>2 DEF Unlinked
        <3>4. req'[r] = Idle /\ \A o \in Requests : o # r => req'[o] = req[o]
            BY <1>1, <3>1
        <3> QED
            BY <1>7, <3>1, <3>3, <3>4 DEF Spares, CaseIds
    <2>2. ASSUME NEW a, IngestCase(r, a) PROVE Spares(r, c)
        <3> PICK p : p = [Idle EXCEPT !.at = "ingest", !.alert = a, !.case = Len(cases) + 1]
            OBVIOUS
        <3>1. /\ AddCase(NewCase("DRAFT", NoType, NoAlert), <<>>) /\ UNCHANGED alerts
              /\ req' = [req EXCEPT ![r] = p]
            BY <2>2, Zenon DEF IngestCase, Starts
        <3>2. p.case # c
            BY <1>1 DEF Idle
        <3>3. Unlinked(c)'
            BY <3>1 DEF Unlinked
        <3> QED
            BY <1>4, <3>1, <3>2, <3>3, Zenon
    <2>3. ASSUME NEW a, NEW x, NEW t, NEW way, NEW type, TriageCheck(r, a, x, t, way, type)
          PROVE  Spares(r, c)
        <3> PICK p : p = [Idle EXCEPT !.at = "triage", !.alert = a, !.task = t, !.home = x,
                                      !.type = type, !.arg = way]
            OBVIOUS
        <3>1. req' = [req EXCEPT ![r] = p] /\ UNCHANGED <<alerts, cases>>
            BY <2>3, Zenon DEF TriageCheck, Starts, rows
        <3>2. p.case # c
            BY <1>1 DEF Idle
        <3> QED
            BY <1>2, <3>1, <3>2, Zenon
    <2> QED
        BY <1>10, <2>1, <2>2, <2>3, Zenon DEF TriageCalls
<1>11. CASE Investigate(r) \/ TriageCommit(r) \/ AiGroup(r) \/ KinFinished(r) \/ KinTask(r)
    <2>1. UNCHANGED <<alerts, cases>> /\ (Done(r) \/ \E p : req' = [req EXCEPT ![r] = p] /\ p.case # c)
        BY <1>9, <1>11 DEF Investigate, TriageCommit, AiGroup, KinFinished, KinTask
    <2> QED
        BY <1>2, <1>8, <2>1
\* The request goes on with some of what it carries changed, but not the case.
<1>12. ASSUME NEW p, Goes(r, p), p.case = q.case, UNCHANGED <<alerts, cases>> PROVE Spares(r, c)
    BY <1>1, <1>2, <1>12 DEF Goes
<1>13. CASE InsertFirst(r)
    <2>1. [q EXCEPT !.at = "investigate", !.arg = "none"].case = q.case
        BY <1>1 DEF Request
    <2> QED
        BY <1>12, <1>13, <2>1, Zenon DEF InsertFirst
<1>14. CASE TriageTask(r)
    <2>1. PICK t : Goes(r, [q EXCEPT !.at = "predict", !.task = t]) /\ UNCHANGED <<alerts, cases>>
        BY <1>14, Zenon DEF TriageTask
    <2>2. [q EXCEPT !.at = "predict", !.task = t].case = q.case
        BY <1>1 DEF Request
    <2> QED
        BY <1>12, <2>1, <2>2, Zenon
<1>15. CASE Predict(r)
    <2>1. PICK a, type : /\ Goes(r, [q EXCEPT !.at = "aiTask", !.arg = a, !.type = type])
                         /\ UNCHANGED <<alerts, cases>>
        BY <1>15, Zenon DEF Predict, rows
    <2>2. [q EXCEPT !.at = "aiTask", !.arg = a, !.type = type].case = q.case
        BY <1>1 DEF Request
    <2> QED
        BY <1>12, <2>1, <2>2, Zenon
<1>16. CASE AiTask(r)
    <2>1. PICK at : Goes(r, [q EXCEPT !.at = at, !.arg = "none"]) /\ UNCHANGED <<alerts, cases>>
        BY <1>16, Zenon DEF AiTask
    <2>2. [q EXCEPT !.at = at, !.arg = "none"].case = q.case
        BY <1>1 DEF Request
    <2> QED
        BY <1>12, <2>1, <2>2, Zenon
<1>17. CASE AiClose(r)
    <2>1. /\ req' = [req EXCEPT ![r] = Idle] /\ cases' = [cases EXCEPT ![q.case].status = "CLOSED"]
          /\ UNCHANGED alerts
        BY <1>17 DEF AiClose, SetStatus, Done, Goes
    <2> QED
        BY <1>1, <1>3, <1>7, <2>1 DEF Unlinked
<1>18. CASE Ready(r)
    <2>1. PICK row : cases' = [cases EXCEPT ![q.case] = row] /\ UNCHANGED alerts
        BY <1>18 DEF Ready
    <2>2. Done(r) \/ \E p : req' = [req EXCEPT ![r] = p] /\ p.case # c
        BY <1>9, <1>18 DEF Ready
    <2> QED
        BY <1>1, <1>3, <1>7, <2>1, <2>2 DEF Unlinked, Done, Goes
<1>19. CASE AiParent(r)
    <2>1. PICK row : cases' = [cases EXCEPT ![q.case] = row] /\ UNCHANGED alerts
        BY <1>19 DEF AiParent
    <2>2. \E p : req' = [req EXCEPT ![r] = p] /\ p.case # c
        BY <1>9, <1>19 DEF AiParent
    <2> QED
        BY <1>1, <1>3, <2>1, <2>2 DEF Unlinked
<1>20. CASE TriageClose(r)
    <2>1. q.case \in CaseIds
        BY <1>1, <1>20 DEF NInv, RequestOK, BeforeCase, TriageClose, CaseIds
    <2>2. UNCHANGED alerts
        BY <1>20, Zenon DEF TriageClose
    <2> PICK row : row = [cases[q.case] EXCEPT !.status = "CLOSED", !.type = q.type]
        OBVIOUS
    <2>3. cases' = [cases EXCEPT ![q.case] = row]
        BY <1>20, <2>1, TwoFields, ZenonT(60) DEF TriageClose
    <2>4. [q EXCEPT !.at = "triageCommit", !.arg = "inTriage"].case = q.case
        BY <1>1 DEF Request
    <2>5. \E p : req' = [req EXCEPT ![r] = p] /\ p.case # c
        BY <1>1, <1>7, <1>20, <2>4, Zenon DEF TriageClose, Done, Goes
    <2> QED
        BY <1>1, <1>3, <2>2, <2>3, <2>5 DEF Unlinked
<1>21. CASE TriageSplit(r)
    <2>1. q.case \in CaseIds
        BY <1>1, <1>21 DEF NInv, RequestOK, BeforeCase, TriageSplit, CaseIds
    <2>2. PICK list, kin : Split(r, q.case, q.alert, list, kin) /\ req' = [req EXCEPT ![r] = Idle]
        BY <1>21, Zenon DEF TriageSplit, Done, Goes
    <2> QED
        BY <1>1, <1>6, <1>7, <2>1, <2>2
<1>22. CASE KinCase(r)
    <2>1. PICK new, kin : /\ AddCase(new, <<>>) /\ UNCHANGED alerts
                          /\ req' = [req EXCEPT ![r] = [q EXCEPT !.at = "kinFinished", !.kin = kin]]
        BY <1>22, Zenon DEF KinCase, Goes
    <2>2. [q EXCEPT !.at = "kinFinished", !.kin = kin].case # c
        BY <1>1 DEF Request
    <2>3. Unlinked(c)'
        BY <2>1 DEF Unlinked
    <2> QED
        BY <1>4, <2>1, <2>2, <2>3, Zenon
<1>23. CASE IngestAlert(r)
    <2>1. PICK at, arg : /\ req' = [req EXCEPT ![r] = [q EXCEPT !.at = at, !.arg = arg]]
                         /\ alerts' = [alerts EXCEPT ![q.alert] = Row("ALRT", q.case)]
                         /\ cases' = cases
        BY <1>23, Zenon DEF IngestAlert, Goes
    <2>2. [q EXCEPT !.at = at, !.arg = arg].case = q.case
        BY <1>1 DEF Request
    <2>3. Row("ALRT", q.case).case = q.case
        BY DEF Row
    <2>4. Unlinked(c)'
        BY <1>1, <2>1, <2>3 DEF Unlinked
    <2>5. req'[r].case # c /\ \A o \in Requests : o # r => req'[o] = req[o]
        BY <1>1, <2>1, <2>2
    <2> QED
        BY <2>1, <2>4, <2>5 DEF Spares, CaseIds
<1>24. CASE TriageLock(r)
    <2> PICK x : x = alerts[q.alert].case
        OBVIOUS
    <2>1. q.alert \in Alerts
        BY <1>1, <1>24 DEF NInv, RequestOK, AboutAlert, TriageLock
    <2>2. x # c /\ UNCHANGED <<alerts, cases>>
        BY <1>24, <2>1 DEF Unlinked, TriageLock, rows
    <2>3. /\ [q EXCEPT !.at = "triageClose", !.case = x].case = x
          /\ [q EXCEPT !.at = "triageSplit", !.case = x].case = x
          /\ [q EXCEPT !.at = "investigate", !.case = x, !.arg = "inTriage"].case = x
        BY <1>1 DEF Request
    <2>4. \/ Done(r) \/ Goes(r, [q EXCEPT !.at = "triageClose", !.case = x])
          \/ Goes(r, [q EXCEPT !.at = "triageSplit", !.case = x])
          \/ Goes(r, [q EXCEPT !.at = "investigate", !.case = x, !.arg = "inTriage"])
        <3>1. CASE x = 0
            BY <1>24, <3>1 DEF TriageLock
        <3>2. CASE x # 0 /\ q.arg = "close"
            BY <1>24, <3>2 DEF TriageLock
        <3>3. CASE x # 0 /\ q.arg = "ready" /\ q.type = "FRAUD_AND_AML"
            BY <1>24, <3>3 DEF TriageLock
        <3>4. CASE x # 0 /\ q.arg # "close" /\ ~(q.arg = "ready" /\ q.type = "FRAUD_AND_AML")
            BY <1>24, <3>4 DEF TriageLock
        <3> QED
            BY <3>1, <3>2, <3>3, <3>4
    <2>5. Done(r) \/ \E p : req' = [req EXCEPT ![r] = p] /\ p.case # c
        BY <2>2, <2>3, <2>4, Zenon DEF Goes
    <2> QED
        BY <1>2, <1>8, <2>2, <2>5
<1> QED
    BY <1>10, <1>11, <1>13, <1>14, <1>15, <1>16, <1>17, <1>18, <1>19, <1>20, <1>21, <1>22, <1>23, <1>24,
       Zenon DEF TriageSteps

LEMMA StoreSpares ==
    ASSUME NInv, NEW r \in Requests, Insert(r) \/ Fail(r) \/ Expire(r), NEW c \in CaseIds,
           cases[c].status = "READY", Unlinked(c), req[r].case # c
    PROVE  Spares(r, c)
<1> PICK q : q = req[r]
    OBVIOUS
<1>1. req \in [Requests -> Request] /\ q \in Request /\ q.case # c /\ Idle.case # c
    BY RowTypes DEF NInv, IntakeTypeOK, CaseIds, Idle
<1>2. UNCHANGED <<alerts, cases>>
    BY DEF Insert, Fail, Expire, rows
<1>3. Done(r) \/ req' = [req EXCEPT ![r] = [q EXCEPT !.arg = "expired"]]
    BY Zenon DEF Insert, Fail, Expire, Goes
<1>4. [q EXCEPT !.arg = "expired"].case = q.case
    BY <1>1 DEF Request
<1>5. PICK p : req' = [req EXCEPT ![r] = p] /\ p.case # c
    BY <1>1, <1>3, <1>4 DEF Done, Goes
<1> QED
    BY <1>1, <1>2, <1>5 DEF Spares, Unlinked, CaseIds
-----------------------------------------------------------------------------
(***************************************************************************)
(* The FRAUD case of a split that is being made stays as it is.            *)
(***************************************************************************)
LEMMA NextSpares ==
    ASSUME Whole, NInv, NEW r \in Requests,
           CreationCalls(r) \/ TriageCalls(r) \/ Step(r) \/ AmlThrows(r) \/ Fail(r) \/ Expire(r),
           NEW c \in CaseIds, cases[c].status = "READY", Unlinked(c), req[r].case # c
    PROVE  Spares(r, c)
<1>1. ~AmlThrows(r) /\ ~Undo(r) /\ ~DropGroup(r)
    BY DEF Whole, AmlThrows, NInv, RequestOK, Undo, DropGroup
<1> QED
    BY <1>1, CreationSpares, TriageSpares, StoreSpares DEF Step

\* A request that has begun, or goes on with, the FRAUD case of a split.
LEMMA HalfBegins ==
    ASSUME PInv, NEW r \in Requests, CreatePrimary(r) \/ KinCase(r), Preserved,
           Half(req'[r]) # Half(req[r]), Half(req'[r]) # 0
    PROVE  HalfOK(r)'
<1> PICK q : q = req[r]
    OBVIOUS
<1> PICK n : n = Len(cases) + 1
    OBVIOUS
<1>1. /\ req \in [Requests -> Request] /\ q \in Request /\ n \in Nat \ {0} /\ NInv
      /\ \A p \in Requests : req[p].case # n
      /\ \A a \in Alerts : alerts[a].case # n
    BY RowTypes DEF PInv, NInv, IntakeTypeOK, RequestOK
\* The new case is that one.
<1>2. ASSUME NEW p, req' = [req EXCEPT ![r] = p], Half(p) = n, UNCHANGED alerts,
             AddCase(NewCase("READY", "FRAUD", p.alert), <<>>),
             p.case = n => p.at = "sibling"
      PROVE  HalfOK(r)'
    <2>1. req'[r] = p /\ \A o \in Requests : o # r => req'[o] = req[o]
        BY <1>1, <1>2
    <2>2. n \in CaseIds' /\ cases'[n] = NewCase("READY", "FRAUD", p.alert)
        BY <1>1, <1>2, Added
    <2>3. \A o \in Requests : req'[o].case = n => o = r /\ p.at = "sibling"
        BY <1>1, <1>2, <2>1
    <2>4. Unlinked(n)'
        BY <1>1, <1>2 DEF Unlinked
    <2> QED
        BY <1>2, <2>1, <2>2, <2>3, <2>4 DEF HalfOK
<1>3. CASE CreatePrimary(r)
    <2> PICK split \in BOOLEAN : split = Splits(q.role, q.type)
        BY DEF Splits
    <2> PICK p : p = [q EXCEPT !.at = IF split THEN "sibling" ELSE "link", !.case = n]
        OBVIOUS
    <2>1. /\ AddCase(NewCase(ManualStatus(q.role), IF split THEN "FRAUD" ELSE q.type, GroupOf(q)), <<>>)
          /\ req' = [req EXCEPT ![r] = p] /\ UNCHANGED alerts
        BY <1>3, Zenon DEF CreatePrimary, Goes
    <2>2. /\ p.at = (IF split THEN "sibling" ELSE "link")
          /\ p.alert = q.alert /\ p.case = n
        BY <1>1 DEF Request
    <2>3. req'[r] = p
        BY <1>1, <2>1
    <2>4. split
        BY <2>2, <2>3 DEF Half, Making
    <2>5. ManualStatus(q.role) = "READY" /\ GroupOf(q) = p.alert
        BY <2>2, <2>4 DEF Splits, ManualStatus, GroupOf
    <2>6. Half(p) = n
        BY <2>2, <2>4 DEF Half
    <2> QED
        BY <1>2, <2>1, <2>2, <2>4, <2>5, <2>6
<1>4. CASE KinCase(r)
    <2> PICK kin : kin = Append(q.kin, n)
        OBVIOUS
    <2> PICK p : p = [q EXCEPT !.at = "kinFinished", !.kin = kin]
        OBVIOUS
    <2>1. /\ AddCase(NewCase("READY", IF q.kin = <<>> THEN "FRAUD" ELSE "AML", q.alert), <<>>)
          /\ req' = [req EXCEPT ![r] = p] /\ UNCHANGED alerts /\ q.at = "kinCase"
        BY <1>4, Zenon DEF KinCase, Goes
    <2>2. p.at = "kinFinished" /\ p.alert = q.alert /\ p.case = q.case /\ p.kin = kin
        BY <1>1 DEF Request
    <2>3. req'[r] = p
        BY <1>1, <2>1
    <2>4. q.kin \in Seq(Nat) /\ kin # <<>>
        BY <1>1 DEF Request
    <2>5. CASE q.kin = <<>>
        <3>1. Half(p) = n
            BY <1>1, <2>2, <2>4, <2>5 DEF Half, Making
        <3> QED
            BY <1>1, <1>2, <2>1, <2>2, <2>5, <3>1
    <2>6. CASE q.kin # <<>>
        <3>1. kin[1] = q.kin[1]
            BY <1>1, <2>4, <2>6
        <3> QED
            BY <2>1, <2>2, <2>3, <2>4, <2>6, <3>1 DEF Half, Making
    <2> QED
        BY <2>5, <2>6
<1> QED
    BY <1>3, <1>4

\* Where a request goes on when it is not about to split a case or splitting one.
Tracked == ToSplit \union Making \union {"sibling"}

LEMMA UntrackedCreation ==
    ASSUME NInv, NEW r \in Requests, CreationCalls(r) \/ CreationSteps(r), ~CreatePrimary(r)
    PROVE  req'[r].at \notin Tracked
<1> PICK q : q = req[r]
    OBVIOUS
<1>1. req \in [Requests -> Request] /\ q \in Request
    BY RowTypes DEF NInv, IntakeTypeOK
<1>2. ASSUME NEW p, req' = [req EXCEPT ![r] = p] PROVE req'[r] = p
    BY <1>1, <1>2
<1>3. ASSUME Done(r) PROVE req'[r].at \notin Tracked
    BY <1>1, <1>3 DEF Done, Goes, Idle, Tracked, ToSplit, Making
<1>4. ASSUME NEW n, ThenInsert(r, n) PROVE req'[r].at \notin Tracked
    <2> PICK p : p = [q EXCEPT !.at = "insert", !.arg = n]
        OBVIOUS
    <2>1. req'[r] = p
        BY <1>1, <1>4 DEF ThenInsert, Goes
    <2>2. p.at = "insert"
        BY <1>1 DEF Request
    <2> QED
        BY <2>1, <2>2 DEF Tracked, ToSplit, Making
<1>5. ASSUME NEW at, Continues(r, at), at \notin Tracked PROVE req'[r].at \notin Tracked
    <2> PICK p : p = [q EXCEPT !.at = at]
        OBVIOUS
    <2>1. req'[r] = p
        BY <1>1, <1>5 DEF Continues, Goes
    <2>2. p.at = at
        BY <1>1 DEF Request
    <2> QED
        BY <1>5, <2>1, <2>2
<1>6. CASE CreationCalls(r)
    <2>1. ASSUME NEW p, Starts(r, p), p.at \notin Tracked PROVE req'[r].at \notin Tracked
        BY <1>2, <2>1 DEF Starts
    <2>2. ASSUME NEW role, NEW a, NEW type, ManualCheck(r, role, a, type)
          PROVE  req'[r].at \notin Tracked
        <3> PICK at \in {"group", "primary"} : at = IF type = "FRAUD_AND_AML" THEN "group" ELSE "primary"
            OBVIOUS
        <3> PICK p : p = [Idle EXCEPT !.at = at, !.role = role, !.alert = a, !.type = type]
            OBVIOUS
        <3>1. Starts(r, p)
            BY <2>2, Zenon DEF ManualCheck
        <3>2. p.at = at
            BY DEF Idle
        <3> QED
            BY <2>1, <3>1, <3>2 DEF Tracked, ToSplit, Making
    <2>3. ASSUME NEW role, NEW a, NEW type, DraftCheck(r, role, a, type) PROVE req'[r].at \notin Tracked
        <3>1. [Idle EXCEPT !.at = "draft", !.role = role, !.alert = a, !.type = type].at \notin Tracked
            BY DEF Idle, Tracked, ToSplit, Making
        <3> QED
            BY <2>1, <2>3, <3>1 DEF DraftCheck
    <2>4. ASSUME NEW role, NEW x, NEW type, CompleteCheck(r, role, x, type)
          PROVE  req'[r].at \notin Tracked
        <3>1. [Idle EXCEPT !.at = "completeLock", !.role = role, !.case = x, !.type = type].at \notin Tracked
            BY DEF Idle, Tracked, ToSplit, Making
        <3> QED
            BY <2>1, <2>4, <3>1 DEF CompleteCheck
    <2>5. ASSUME NEW x, LegacyCheck(r, x) PROVE req'[r].at \notin Tracked
        <3>1. [Idle EXCEPT !.at = "legacyReady", !.role = "SUPERVISOR", !.case = x].at \notin Tracked
            BY DEF Idle, Tracked, ToSplit, Making
        <3> QED
            BY <2>1, <2>5, <3>1 DEF LegacyCheck
    <2>6. ASSUME NEW role, NEW x, AbandonCheck(r, role, x) PROVE req'[r].at \notin Tracked
        <3> PICK t : t = Newest(x, "Complete")
            OBVIOUS
        <3>1. [Idle EXCEPT !.at = "abandon", !.role = role, !.case = x, !.task = t].at \notin Tracked
            BY DEF Idle, Tracked, ToSplit, Making
        <3> QED
            BY <2>1, <2>6, <3>1 DEF AbandonCheck
    <2>7. ASSUME NEW x, NEW t, NEW step \in {"approve", "reject"}, DecisionCheck(r, x, t, step)
          PROVE  req'[r].at \notin Tracked
        <3>1. [Idle EXCEPT !.at = step, !.role = "SUPERVISOR", !.case = x, !.task = t].at \notin Tracked
            BY DEF Idle, Tracked, ToSplit, Making
        <3> QED
            BY <2>1, <2>7, <3>1 DEF DecisionCheck
    <2> QED
        BY <1>6, <2>2, <2>3, <2>4, <2>5, <2>6, <2>7, Zenon DEF CreationCalls
<1>7. CASE CompleteLock(r)
    <2>1. ASSUME NEW t, NEW a PROVE [q EXCEPT !.at = "completeTask", !.task = t, !.alert = a].at \notin Tracked
        BY <1>1 DEF Request, Tracked, ToSplit, Making
    <2> QED
        BY <1>2, <1>3, <1>7, <2>1, Zenon DEF CompleteLock, Goes
<1>8. CASE CreateSibling(r)
    <2>1. ASSUME NEW kin PROVE [q EXCEPT !.at = "link", !.kin = kin].at \notin Tracked
        BY <1>1 DEF Request, Tracked, ToSplit, Making
    <2> QED
        BY <1>2, <1>8, <2>1, Zenon DEF CreateSibling, Goes
<1>9. CASE CreateDraft(r)
    <2>1. ASSUME NEW n PROVE [q EXCEPT !.at = "insert", !.case = n, !.arg = "Complete"].at \notin Tracked
        BY <1>1 DEF Request, Tracked, ToSplit, Making
    <2> QED
        BY <1>2, <1>9, <2>1, Zenon DEF CreateDraft, Goes
<1>10. CASE GroupUpsert(r) \/ CompleteTask(r) \/ LegacyReady(r) \/ AbandonCase(r) \/ RejectCase(r)
    <2>1. {"primary", "completeCommit", "legacyTask", "abandonTask", "rejectTask"} \cap Tracked = {}
        BY DEF Tracked, ToSplit, Making
    <2> QED
        BY <1>3, <1>5, <1>10, <2>1 DEF GroupUpsert, CompleteTask, LegacyReady, AbandonCase, RejectCase
<1>11. CASE LinkAlert(r) \/ LegacyTask(r) \/ AbandonTask(r) \/ RejectTask(r)
    BY <1>3, <1>4, <1>11 DEF LinkAlert, LegacyTask, AbandonTask, RejectTask
<1>12. CASE CompleteCommit(r)
    BY <1>3, <1>4, <1>12, Zenon DEF CompleteCommit
<1>13. CASE Approve(r)
    BY <1>3, <1>4, <1>13, Zenon DEF Approve
<1> QED
    BY <1>6, <1>7, <1>8, <1>9, <1>10, <1>11, <1>12, <1>13, Zenon DEF CreationSteps

LEMMA UntrackedTriage ==
    ASSUME NInv, NEW r \in Requests,
           \/ \E a \in Alerts : IngestNalt(r, a)
           \/ \E a, c, t, way, type : TriageCheck(r, a, c, t, way, type)
           \/ InsertFirst(r) \/ Investigate(r) \/ Ready(r) \/ TriageLock(r) \/ TriageClose(r)
           \/ TriageSplit(r) \/ TriageCommit(r) \/ AiClose(r)
           \/ Insert(r) \/ Fail(r) \/ Expire(r)
    PROVE  req'[r].at \notin Tracked
<1> PICK q : q = req[r]
    OBVIOUS
<1>1. req \in [Requests -> Request] /\ q \in Request
    BY RowTypes DEF NInv, IntakeTypeOK
<1>2. ASSUME NEW p, req' = [req EXCEPT ![r] = p] PROVE req'[r] = p
    BY <1>1, <1>2
<1>3. ASSUME Done(r) PROVE req'[r].at \notin Tracked
    BY <1>1, <1>3 DEF Done, Goes, Idle, Tracked, ToSplit, Making
<1>4. ASSUME NEW at, Continues(r, at), at \in {"ready", "triageCommit"} PROVE req'[r].at \notin Tracked
    <2> PICK p : p = [q EXCEPT !.at = at]
        OBVIOUS
    <2>1. req'[r] = p
        BY <1>1, <1>4 DEF Continues, Goes
    <2>2. p.at = at
        BY <1>1 DEF Request
    <2> QED
        BY <1>4, <2>1, <2>2 DEF Tracked, ToSplit, Making
<1>5. ASSUME NEW a, IngestNalt(r, a) PROVE req'[r].at \notin Tracked
    <2>1. req'[r] = Idle
        BY <1>2, <1>5, Zenon DEF IngestNalt, Starts
    <2> QED
        BY <2>1 DEF Idle, Tracked, ToSplit, Making
<1>6. ASSUME NEW a, NEW c, NEW t, NEW way, NEW type, TriageCheck(r, a, c, t, way, type)
      PROVE  req'[r].at \notin Tracked
    <2> PICK p : p = [Idle EXCEPT !.at = "triage", !.alert = a, !.task = t, !.home = c,
                                  !.type = type, !.arg = way]
        OBVIOUS
    <2>1. req'[r] = p
        BY <1>2, <1>6, Zenon DEF TriageCheck, Starts
    <2>2. p.at = "triage"
        BY DEF Idle
    <2> QED
        BY <2>1, <2>2 DEF Tracked, ToSplit, Making
<1>7. CASE InsertFirst(r)
    <2>1. [q EXCEPT !.at = "investigate", !.arg = "none"].at \notin Tracked
        BY <1>1 DEF Request, Tracked, ToSplit, Making
    <2> QED
        BY <1>2, <1>7, <2>1, Zenon DEF InsertFirst, Goes
<1>8. CASE TriageLock(r)
    <2> PICK x : x = alerts[q.alert].case
        OBVIOUS
    <2>1. /\ [q EXCEPT !.at = "triageClose", !.case = x].at \notin Tracked
          /\ [q EXCEPT !.at = "triageSplit", !.case = x].at \notin Tracked
          /\ [q EXCEPT !.at = "investigate", !.case = x, !.arg = "inTriage"].at \notin Tracked
        BY <1>1 DEF Request, Tracked, ToSplit, Making
    <2>2. CASE x = 0
        BY <1>3, <1>8, <2>2 DEF TriageLock
    <2>3. ASSUME NEW p, Goes(r, p), p.at \notin Tracked PROVE req'[r].at \notin Tracked
        BY <1>2, <2>3 DEF Goes
    <2>4. CASE x # 0 /\ q.arg = "close"
        <3>1. Goes(r, [q EXCEPT !.at = "triageClose", !.case = x])
            BY <1>8, <2>4 DEF TriageLock
        <3> QED
            BY <2>1, <2>3, <3>1, Zenon
    <2>5. CASE x # 0 /\ q.arg = "ready" /\ q.type = "FRAUD_AND_AML"
        <3>1. Goes(r, [q EXCEPT !.at = "triageSplit", !.case = x])
            BY <1>8, <2>5 DEF TriageLock
        <3> QED
            BY <2>1, <2>3, <3>1, Zenon
    <2>6. CASE x # 0 /\ q.arg # "close" /\ ~(q.arg = "ready" /\ q.type = "FRAUD_AND_AML")
        <3>1. Goes(r, [q EXCEPT !.at = "investigate", !.case = x, !.arg = "inTriage"])
            BY <1>8, <2>6 DEF TriageLock
        <3> QED
            BY <2>1, <2>3, <3>1, Zenon
    <2> QED
        BY <2>2, <2>4, <2>5, <2>6
<1>9. CASE TriageClose(r)
    <2>1. [q EXCEPT !.at = "triageCommit", !.arg = "inTriage"].at \notin Tracked
        BY <1>1 DEF Request, Tracked, ToSplit, Making
    <2> QED
        BY <1>2, <1>3, <1>9, <2>1, Zenon DEF TriageClose, Goes
<1>10. CASE Investigate(r) \/ Ready(r)
    BY <1>3, <1>4, <1>10 DEF Investigate, Ready
<1>11. CASE TriageSplit(r) \/ TriageCommit(r) \/ AiClose(r) \/ Insert(r) \/ Fail(r)
    BY <1>3, <1>11, Zenon DEF TriageSplit, TriageCommit, AiClose, Insert, Fail
<1>12. CASE Expire(r)
    <2>1. [q EXCEPT !.arg = "expired"].at = q.at
        BY <1>1 DEF Request
    <2>2. {"completeTask", "investigate", "ready", "triageClose"} \cap Tracked = {}
        BY DEF Tracked, ToSplit, Making
    <2> QED
        BY <1>2, <1>3, <1>12, <2>1, <2>2 DEF Expire, Goes
<1> QED
    BY <1>5, <1>6, <1>7, <1>8, <1>9, <1>10, <1>11, <1>12, Zenon

\* The other steps: the FRAUD case there is remains the same one, unless one is made.
LEMMA TrackedSteps ==
    ASSUME NInv, triageType \in TriageTypes, NEW r \in Requests, KinOK(r),
           \/ CreatePrimary(r) \/ \E a \in Alerts : IngestCase(r, a)
           \/ IngestAlert(r) \/ TriageTask(r) \/ Predict(r) \/ AiTask(r) \/ AiGroup(r) \/ AiParent(r)
           \/ KinCase(r) \/ KinFinished(r) \/ KinTask(r)
    PROVE  /\ KinOK(r)'
           /\ \/ Half(req'[r]) = 0
              \/ CreatePrimary(r) \/ KinCase(r)
              \/ req[r].at \in Making /\ req'[r].at \in Making /\ req'[r].alert = req[r].alert
                 /\ Half(req'[r]) = Half(req[r])
<1> PICK q : q = req[r]
    OBVIOUS
<1>1. req \in [Requests -> Request] /\ q \in Request
    BY RowTypes DEF NInv, IntakeTypeOK
<1>2. ASSUME NEW p, req' = [req EXCEPT ![r] = p] PROVE req'[r] = p
    BY <1>1, <1>2
\* Nothing made yet.
<1>3. ASSUME NEW p, req' = [req EXCEPT ![r] = p], q.at \in ToSplit, p.kin = q.kin, p.at # "sibling"
      PROVE  KinOK(r)' /\ Half(req'[r]) = 0
    BY <1>2, <1>3 DEF KinOK, Half
<1>4. ASSUME req'[r] = Idle PROVE KinOK(r)' /\ Half(req'[r]) = 0
    BY <1>4 DEF KinOK, ToSplit, Half, Making, Idle
<1>5. CASE CreatePrimary(r)
    <2> PICK at \in {"sibling", "link"} : at = IF Splits(q.role, q.type) THEN "sibling" ELSE "link"
        OBVIOUS
    <2> PICK p : p = [q EXCEPT !.at = at, !.case = Len(cases) + 1]
        OBVIOUS
    <2>1. req'[r] = p
        BY <1>2, <1>5, Zenon DEF CreatePrimary, Goes
    <2>2. p.at = at
        BY <1>1 DEF Request
    <2> QED
        BY <1>5, <2>1, <2>2 DEF KinOK, ToSplit, Making
<1>6. ASSUME NEW a, IngestCase(r, a) PROVE KinOK(r)' /\ Half(req'[r]) = 0
    <2> PICK p : p = [Idle EXCEPT !.at = "ingest", !.alert = a, !.case = Len(cases) + 1]
        OBVIOUS
    <2>1. req'[r] = p
        BY <1>2, <1>6, Zenon DEF IngestCase, Starts
    <2>2. p.at = "ingest" /\ p.kin = <<>>
        BY DEF Idle
    <2> QED
        BY <2>1, <2>2 DEF KinOK, Half, Making
<1>7. CASE IngestAlert(r)
    <2>1. PICK at, arg : /\ req' = [req EXCEPT ![r] = [q EXCEPT !.at = at, !.arg = arg]]
                         /\ at = AfterIngest[triageType].at
        BY <1>7, Zenon DEF IngestAlert, Goes
    <2> PICK p : p = [q EXCEPT !.at = at, !.arg = arg]
        OBVIOUS
    <2>2. p.at = at /\ p.kin = q.kin
        BY <1>1 DEF Request
    <2>3. q.kin = <<>> /\ req'[r] = p
        BY <1>2, <1>7, <2>1 DEF KinOK, ToSplit, IngestAlert
    <2>4. at # "sibling"
        <3>1. triageType \in {"AI", "MANUAL", "DISABLED"}
            BY IntakeAssumption
        <3> QED
            BY <2>1, <3>1 DEF AfterIngest
    <2> QED
        BY <2>2, <2>3, <2>4 DEF KinOK, Half
<1>8. CASE TriageTask(r)
    <2>1. PICK t : req' = [req EXCEPT ![r] = [q EXCEPT !.at = "predict", !.task = t]]
        BY <1>8, Zenon DEF TriageTask, Goes
    <2> PICK p : p = [q EXCEPT !.at = "predict", !.task = t]
        OBVIOUS
    <2>2. p.kin = q.kin /\ p.at # "sibling"
        BY <1>1 DEF Request
    <2> QED
        BY <1>3, <1>8, <2>1, <2>2 DEF TriageTask, ToSplit, KinOK
<1>9. CASE Predict(r)
    <2>1. PICK a, type : req' = [req EXCEPT ![r] = [q EXCEPT !.at = "aiTask", !.arg = a, !.type = type]]
        BY <1>9, Zenon DEF Predict, Goes
    <2> PICK p : p = [q EXCEPT !.at = "aiTask", !.arg = a, !.type = type]
        OBVIOUS
    <2>2. p.kin = q.kin /\ p.at # "sibling"
        BY <1>1 DEF Request
    <2>3. q.at \in ToSplit
        BY <1>9, Zenon DEF Predict, ToSplit
    <2> QED
        BY <1>3, <2>1, <2>2, <2>3
<1>10. CASE AiTask(r)
    <2>1. PICK at : /\ req' = [req EXCEPT ![r] = [q EXCEPT !.at = at, !.arg = "none"]]
                    /\ at = AfterAnswer(q.arg)
        BY <1>10, Zenon DEF AiTask, Goes
    <2> PICK p : p = [q EXCEPT !.at = at, !.arg = "none"]
        OBVIOUS
    <2>2. p.kin = q.kin /\ p.at # "sibling"
        BY <1>1, <2>1 DEF Request, AfterAnswer
    <2>3. q.at \in ToSplit
        BY <1>10 DEF AiTask, ToSplit
    <2> QED
        BY <1>3, <2>1, <2>2, <2>3
<1>11. CASE AiGroup(r) \/ AiParent(r)
    <2>1. PICK at \in {"aiParent", "kinCase"} : req' = [req EXCEPT ![r] = [q EXCEPT !.at = at]]
        BY <1>11 DEF AiGroup, AiParent, Continues, Goes
    <2> PICK p : p = [q EXCEPT !.at = at]
        OBVIOUS
    <2>2. p.kin = q.kin /\ p.at # "sibling"
        BY <1>1 DEF Request
    <2>3. q.at \in ToSplit
        BY <1>11 DEF AiGroup, AiParent, ToSplit
    <2> QED
        BY <1>3, <2>1, <2>2, <2>3
<1>12. CASE KinCase(r)
    <2> PICK kin : kin = Append(q.kin, Len(cases) + 1)
        OBVIOUS
    <2>1. req' = [req EXCEPT ![r] = [q EXCEPT !.at = "kinFinished", !.kin = kin]]
        BY <1>12, Zenon DEF KinCase, Goes
    <2> PICK p : p = [q EXCEPT !.at = "kinFinished", !.kin = kin]
        OBVIOUS
    <2>2. p.at = "kinFinished" /\ p.kin = kin /\ req'[r] = p
        BY <1>1, <1>2, <2>1 DEF Request
    <2>3. q.kin \in Seq(Nat) /\ Len(cases) \in Nat /\ q.at = "kinCase"
        BY <1>1, <1>12 DEF Request, NInv, IntakeTypeOK, KinCase
    <2>4. kin[1] # 0
        BY <2>3 DEF KinOK, Making
    <2> QED
        BY <1>12, <2>2, <2>4 DEF KinOK, ToSplit
<1>13. CASE (KinFinished(r) \/ KinTask(r)) /\ ~Done(r)
    <2>1. PICK at \in {"kinTask", "kinCase"} : req' = [req EXCEPT ![r] = [q EXCEPT !.at = at]]
        BY <1>13 DEF KinFinished, KinTask, Continues, Goes
    <2> PICK p : p = [q EXCEPT !.at = at]
        OBVIOUS
    <2>2. p.kin = q.kin /\ p.at = at /\ p.alert = q.alert /\ req'[r] = p
        BY <1>1, <1>2, <2>1 DEF Request
    <2>3. q.at \in Making
        BY <1>13 DEF KinFinished, KinTask, Making
    <2> QED
        BY <2>2, <2>3 DEF KinOK, ToSplit, Half, Making
<1>14. CASE Done(r)
    BY <1>2, <1>4, <1>14 DEF Done, Goes
<1> QED
    BY <1>5, <1>6, <1>7, <1>8, <1>9, <1>10, <1>11, <1>12, <1>13, <1>14

LEMMA OwnHalf ==
    ASSUME Whole, PInv, triageType \in TriageTypes, NEW r \in Requests,
           CreationCalls(r) \/ TriageCalls(r) \/ Step(r) \/ AmlThrows(r) \/ Fail(r) \/ Expire(r)
    PROVE  /\ KinOK(r)'
           /\ \/ Half(req'[r]) = 0
              \/ CreatePrimary(r) \/ KinCase(r)
              \/ req[r].at \in Making /\ req'[r].at \in Making /\ req'[r].alert = req[r].alert
                 /\ Half(req'[r]) = Half(req[r])
<1>1. NInv /\ KinOK(r) /\ ~AmlThrows(r) /\ ~Undo(r) /\ ~DropGroup(r)
    BY DEF PInv, Whole, AmlThrows, NInv, RequestOK, Undo, DropGroup
<1>2. CASE req'[r].at \notin Tracked
    BY <1>2 DEF Tracked, ToSplit, Making, KinOK, Half
<1>3. CASE CreationCalls(r) \/ CreationSteps(r)
    BY <1>1, <1>2, <1>3, UntrackedCreation, TrackedSteps
<1>4. CASE TriageCalls(r)
    BY <1>1, <1>2, <1>4, UntrackedTriage, TrackedSteps, Zenon DEF TriageCalls
<1>5. CASE TriageSteps(r)
    BY <1>1, <1>2, <1>5, UntrackedTriage, TrackedSteps, Zenon DEF TriageSteps
<1>6. CASE Insert(r) \/ Fail(r) \/ Expire(r)
    BY <1>1, <1>2, <1>6, UntrackedTriage, Zenon
<1> QED
    BY <1>1, <1>3, <1>4, <1>5, <1>6 DEF Step

LEMMA SameHalf ==
    ASSUME PInv, NEW r \in Requests, CreatePrimary(r) \/ KinCase(r), Half(req[r]) # 0
    PROVE  req[r].at \in Making /\ req'[r].at \in Making /\ req'[r].alert = req[r].alert
<1> PICK q : q = req[r]
    OBVIOUS
<1> PICK p : p = [q EXCEPT !.at = "kinFinished", !.kin = Append(@, Len(cases) + 1)]
    OBVIOUS
<1>1. req \in [Requests -> Request] /\ q \in Request
    BY RowTypes DEF PInv, NInv, IntakeTypeOK
<1>2. ~CreatePrimary(r)
    BY DEF CreatePrimary, Half, Making
<1>3. req' = [req EXCEPT ![r] = p] /\ q.at = "kinCase"
    BY <1>2, Zenon DEF KinCase, Goes
<1>4. p.at = "kinFinished" /\ p.alert = q.alert
    BY <1>1 DEF Request
<1> QED
    BY <1>1, <1>3, <1>4 DEF Making

\* A step writes what its own request carries.
LEMMA OthersSame ==
    ASSUME NInv, NEW r \in Requests,
           CreationCalls(r) \/ TriageCalls(r) \/ Step(r) \/ AmlThrows(r) \/ Fail(r) \/ Expire(r)
    PROVE  \A o \in Requests : o # r => req'[o] = req[o]
<1>1. ASSUME CreationCalls(r) PROVE \E q : req' = [req EXCEPT ![r] = q]
    BY <1>1, Zenon DEF CreationCalls, ManualCheck, DraftCheck, CompleteCheck, LegacyCheck, AbandonCheck,
       DecisionCheck, Starts
<1>2. ASSUME TriageCalls(r) PROVE \E q : req' = [req EXCEPT ![r] = q]
    BY <1>2, ZenonT(60) DEF TriageCalls, IngestNalt, IngestCase, TriageCheck, Starts
<1>3. ASSUME CreationSteps(r) PROVE \E q : Goes(r, q)
    BY <1>3, Zenon DEF CreationSteps, GroupUpsert, CreatePrimary, CreateSibling, LinkAlert, CreateDraft,
       CompleteLock, CompleteTask, CompleteCommit, LegacyReady, LegacyTask, AbandonCase, AbandonTask,
       Approve, RejectCase, RejectTask, Continues, Done, ThenInsert
<1>4. ASSUME TriageSteps(r) PROVE \E q : Goes(r, q)
    BY <1>4, Zenon DEF TriageSteps, IngestAlert, InsertFirst, Investigate, Ready, TriageLock, TriageClose,
       TriageSplit, TriageCommit, TriageTask, Predict, AiTask, AiClose, AiGroup, AiParent, KinCase,
       KinFinished, KinTask, Undo, DropGroup, Continues, Done
<1>5. ASSUME Insert(r) \/ AmlThrows(r) \/ Fail(r) \/ Expire(r) PROVE \E q : Goes(r, q)
    BY <1>5, Zenon DEF Insert, AmlThrows, Fail, Expire, Done
<1>6. \E q : req' = [req EXCEPT ![r] = q]
    BY <1>1, <1>2, <1>3, <1>4, <1>5, Zenon DEF Step, Goes
<1>7. req \in [Requests -> Request]
    BY DEF NInv, IntakeTypeOK
<1> QED
    BY <1>6, <1>7

LEMMA HalfStays ==
    ASSUME Whole, PInv, triageType \in TriageTypes, Preserved, NEW r \in Requests,
           CreationCalls(r) \/ TriageCalls(r) \/ Step(r) \/ AmlThrows(r) \/ Fail(r) \/ Expire(r)
    PROVE  \A p \in Requests : HalfOK(p)' /\ KinOK(p)'
<1> SUFFICES ASSUME NEW p \in Requests PROVE HalfOK(p)' /\ KinOK(p)'
    OBVIOUS
<1>1. /\ NInv /\ HalfOK(p) /\ KinOK(p)
      /\ \A c \in CaseIds : cases[c].status = "READY" /\ Unlinked(c) /\ req[r].case # c => Spares(r, c)
    <2>1. NInv /\ HalfOK(p) /\ KinOK(p)
        BY DEF PInv
    <2>2. \A c \in CaseIds : cases[c].status = "READY" /\ Unlinked(c) /\ req[r].case # c => Spares(r, c)
        BY <2>1, NextSpares, Zenon
    <2> QED
        BY <2>1, <2>2
<1>2. \A o \in Requests : o # r => req'[o] = req[o]
    BY <1>1, OthersSame, Zenon
<1>3. CASE p # r
    <2> PICK c : c = Half(req[p])
        OBVIOUS
    <2>1. req'[p] = req[p] /\ Half(req'[p]) = c /\ KinOK(p)'
        BY <1>1, <1>2, <1>3 DEF KinOK
    <2>2. CASE c = 0
        BY <2>1, <2>2 DEF HalfOK
    <2>3. CASE c # 0
        <3>1. /\ c \in CaseIds /\ Unlinked(c) /\ cases[c] = NewCase("READY", "FRAUD", req[p].alert)
              /\ \A o \in Requests : req[o].case = c => o = p /\ req[p].at = "sibling"
            BY <1>1, <2>3 DEF HalfOK
        <3>2. cases[c].status = "READY" /\ req[r].case # c
            BY <1>3, <3>1 DEF NewCase
        <3>3. Spares(r, c)
            BY <1>1, <3>1, <3>2
        <3>4. \A o \in Requests : req'[o].case = c => o = p /\ req'[p].at = "sibling"
            BY <1>2, <2>1, <3>1, <3>3 DEF Spares
        <3> QED
            BY <2>1, <3>1, <3>3, <3>4 DEF HalfOK, Spares
    <2> QED
        BY <2>2, <2>3
<1>4. CASE p = r
    <2> PICK c : c = Half(req[r])
        OBVIOUS
    <2>1. /\ KinOK(r)'
          /\ \/ Half(req'[r]) = 0
             \/ CreatePrimary(r) \/ KinCase(r)
             \/ req[r].at \in Making /\ req'[r].at \in Making /\ req'[r].alert = req[r].alert
                /\ Half(req'[r]) = c
        BY OwnHalf
    <2>2. CASE Half(req'[r]) = 0
        BY <1>4, <2>1, <2>2 DEF HalfOK
    <2>3. CASE Half(req'[r]) # 0 /\ Half(req'[r]) # c
        BY <1>4, <2>1, <2>3, HalfBegins, SMTT(30) DEF Making
    <2>4. CASE Half(req'[r]) # 0 /\ Half(req'[r]) = c
        <3>1. req[r].at \in Making /\ req'[r].at \in Making /\ req'[r].alert = req[r].alert
            BY <2>1, <2>4, SameHalf DEF PInv
        <3>2. /\ c \in CaseIds /\ Unlinked(c) /\ cases[c] = NewCase("READY", "FRAUD", req[r].alert)
              /\ \A o \in Requests : req[o].case # c
            BY <1>1, <1>4, <2>4, <3>1 DEF HalfOK, Making
        <3>3. cases[c].status = "READY" /\ req[r].case # c
            BY <3>2 DEF NewCase
        <3>4. Spares(r, c)
            BY <1>1, <3>2, <3>3
        <3>5. \A o \in Requests : req'[o].case # c
            BY <1>2, <3>2, <3>4 DEF Spares
        <3> QED
            BY <1>4, <2>1, <2>4, <3>1, <3>2, <3>4, <3>5 DEF HalfOK, Spares
    <2> QED
        BY <2>2, <2>3, <2>4
<1> QED
    BY <1>3, <1>4
-----------------------------------------------------------------------------
(***************************************************************************)
(* A case becomes AML.                                                     *)
(***************************************************************************)
\* Case d is AML, was not, and nobody asked for it.
Alone(d) ==
    /\ cases'[d].type = "AML" /\ ~(d \in CaseIds /\ cases[d].type = "AML")
    /\ ~AskedFor("AML")

LEMMA BornPartnered ==
    ASSUME Whole, PInv, Preserved, NEW r \in Requests,
           CreationCalls(r) \/ TriageCalls(r) \/ Step(r) \/ AmlThrows(r) \/ Fail(r) \/ Expire(r),
           NEW d \in CaseIds', Alone(d)
    PROVE  Partnered(d)'
<1> PICK q : q = req[r]
    OBVIOUS
<1> PICK n : n = Len(cases) + 1
    OBVIOUS
<1>1. /\ req \in [Requests -> Request] /\ q \in Request /\ NInv /\ n \in Nat /\ n \notin CaseIds
      /\ RequestOK(q)
    BY RowTypes DEF PInv, NInv, IntakeTypeOK, CaseIds
<1>2. ~AmlThrows(r) /\ ~Undo(r) /\ ~DropGroup(r)
    BY DEF Whole, AmlThrows, PInv, NInv, RequestOK, Undo, DropGroup
\* What asks for it.
<1>3. q.type = "AML" => req'[r] = q
    BY DEF Alone, AskedFor
<1>4. cases' # cases
    BY DEF Alone, CaseIds
\* No type is written.
<1>5. ASSUME NEW x, NEW s, SetStatus(r, x, s) PROVE FALSE
    <2>1. \A c \in CaseIds : cases'[c].type = cases[c].type
        BY <1>1, <1>5 DEF NInv, IntakeTypeOK, CaseIds, SetStatus, Case
    <2>2. CaseIds' = CaseIds
        BY <1>1, <1>5 DEF NInv, IntakeTypeOK, CaseIds, SetStatus
    <2> QED
        BY <2>1, <2>2 DEF Alone
\* A type is written that was asked for.
<1>6. ASSUME NEW x, NEW row, cases' = [cases EXCEPT ![x] = row],
             x \in CaseIds => row.type \in {q.type, cases[x].type, "FRAUD_AND_AML"}, req'[r] # q
      PROVE  FALSE
    <2>1. /\ CaseIds' = CaseIds
          /\ \A c \in CaseIds : cases'[c] = IF c = x THEN row ELSE cases[c]
        BY <1>1, <1>6, Replaced, Zenon
    <2>2. d \in CaseIds /\ cases'[d] = IF d = x THEN row ELSE cases[d]
        BY <2>1
    <2> QED
        BY <1>3, <1>6, <2>2 DEF Alone
\* A case is made that is AML because that was asked for, or not at all.
<1>7. ASSUME NEW new, NEW list, AddCase(new, list)
      PROVE  d = n /\ cases'[n] = new /\ new.type = "AML"
    <2>1. /\ CaseIds' = CaseIds \union {n} /\ cases'[n] = new
          /\ \A c \in CaseIds : cases'[c] = cases[c]
        BY <1>1, <1>7, Added
    <2> QED
        BY <2>1 DEF Alone
\* A split.
<1>8. ASSUME NEW x \in CaseIds, NEW a, NEW list, NEW kin, Split(r, x, a, list, kin)
      PROVE  Partnered(d)'
    <2>1. /\ CaseIds' = CaseIds \union {n} /\ cases'[x] = NewCase("READY", "FRAUD", a)
          /\ cases'[n] = NewCase("READY", "AML", a)
          /\ \A c \in CaseIds : c # x => cases'[c] = cases[c]
        BY <1>1, <1>8, WasSplit
    <2>2. d = n
        BY <2>1 DEF Alone, NewCase
    <2>3. x < n /\ a \in groups'
        BY <1>1, <1>8 DEF CaseIds, Split
    <2> QED
        BY <2>1, <2>2, <2>3 DEF Partnered, InGroup, NewCase
\* The partner is there already.
<1>9. ASSUME NEW c, c # 0, Half(q) = c, NEW list, AddCase(NewCase("READY", "AML", q.alert), list),
             q.at \in BesideCase, UNCHANGED groups
      PROVE  Partnered(d)'
    <2>1. d = n /\ cases'[n] = NewCase("READY", "AML", q.alert)
        BY <1>7, <1>9
    <2>2. c \in CaseIds /\ cases[c] = NewCase("READY", "FRAUD", q.alert)
        BY <1>9 DEF PInv, HalfOK
    <2>3. q.alert \in groups
        BY <1>1, <1>9 DEF RequestOK
    <2>4. c \in CaseIds' /\ cases'[c] = cases[c] /\ c < n
        BY <1>1, <1>9, <2>2, Added
    <2> QED
        BY <1>9, <2>1, <2>2, <2>3, <2>4 DEF Partnered, InGroup, NewCase
<1>10. CASE CreationCalls(r)
    BY <1>4, <1>10, Zenon DEF CreationCalls, ManualCheck, DraftCheck, CompleteCheck, LegacyCheck,
       AbandonCheck, DecisionCheck, rows
<1>11. CASE TriageCalls(r)
    <2>1. ASSUME NEW a, IngestCase(r, a) PROVE FALSE
        BY <1>7, <2>1 DEF IngestCase, NewCase, NoType
    <2> QED
        BY <1>4, <1>11, <2>1, Zenon DEF TriageCalls, IngestNalt, TriageCheck, rows
<1>12. CASE Insert(r) \/ Fail(r) \/ Expire(r)
    BY <1>4, <1>12 DEF Insert, Fail, Expire, rows
<1>13. CASE CreationSteps(r)
    <2>1. CASE CreatePrimary(r)
        <3>1. PICK g : AddCase(NewCase(ManualStatus(q.role),
                                       IF Splits(q.role, q.type) THEN "FRAUD" ELSE q.type, g), <<>>)
            BY <2>1, Zenon DEF CreatePrimary
        <3>2. q.type = "AML"
            BY <1>7, <3>1 DEF NewCase
        <3>3. req'[r] # q
            <4> PICK at \in {"sibling", "link"} : at = IF Splits(q.role, q.type) THEN "sibling" ELSE "link"
                OBVIOUS
            <4> PICK p : p = [q EXCEPT !.at = at, !.case = n]
                OBVIOUS
            <4>1. req' = [req EXCEPT ![r] = p] /\ q.at = "primary"
                BY <2>1, Zenon DEF CreatePrimary, Goes
            <4>2. p.at = at /\ req'[r] = p
                BY <1>1, <4>1 DEF Request
            <4> QED
                BY <4>1, <4>2
        <3> QED
            BY <1>3, <3>2, <3>3
    <2>2. CASE CreateSibling(r)
        <3>1. q.at = "sibling" /\ q.type = "FRAUD_AND_AML" /\ UNCHANGED groups
            BY <1>1, <2>2 DEF CreateSibling, RequestOK
        <3>2. AddCase(NewCase(ManualStatus(q.role), "AML", q.alert), <<>>)
            BY <2>2, <3>1, Zenon DEF CreateSibling, GroupOf
        <3>3. q.case # 0 /\ Half(q) = q.case
            BY <1>1, <3>1 DEF RequestOK, BeforeCase, Half
        <3>4. q.case \in CaseIds /\ cases[q.case] = NewCase("READY", "FRAUD", q.alert)
            BY <3>3 DEF PInv, HalfOK
        <3>5. d = n /\ cases'[n] = NewCase(ManualStatus(q.role), "AML", q.alert)
            BY <1>7, <3>2
        <3>6. q.case \in CaseIds' /\ cases'[q.case] = cases[q.case] /\ q.case < n
            BY <1>1, <3>2, <3>4, Added
        <3>7. q.alert \in groups'
            BY <1>1, <3>1 DEF RequestOK, BesideCase
        <3> PICK c : c = q.case
            OBVIOUS
        <3> PICK new : new = cases'[d]
            OBVIOUS
        <3>8. new.group = q.alert
            BY <3>5 DEF NewCase
        <3>9. cases'[c].group = q.alert /\ cases'[c].type = "FRAUD" /\ c \in CaseIds' /\ c < d
            BY <3>4, <3>5, <3>6 DEF NewCase
        <3> QED
            BY <3>7, <3>8, <3>9, Zenon DEF Partnered, InGroup
    <2>3. CASE CreateDraft(r)
        <3>1. AddCase(NewCase("DRAFT", q.type, NoAlert), <<>>) /\ q.at = "draft"
            BY <2>3, Zenon DEF CreateDraft
        <3>2. q.type = "AML"
            BY <1>7, <3>1 DEF NewCase
        <3> PICK p : p = [q EXCEPT !.at = "insert", !.case = n, !.arg = "Complete"]
            OBVIOUS
        <3>3. req' = [req EXCEPT ![r] = p]
            BY <2>3, Zenon DEF CreateDraft, Goes
        <3>4. p.at = "insert"
            BY <1>1 DEF Request
        <3> QED
            BY <1>1, <1>3, <3>1, <3>2, <3>3, <3>4
    <2>4. CASE CompleteCommit(r)
        <3>1. q.case \in CaseIds /\ q.at = "completeCommit"
            BY <1>1, <2>4 DEF RequestOK, BeforeCase, CompleteCommit, CaseIds
        <3>2. PICK a : \/ Split(r, q.case, a, tasks, <<Finished("Complete"), Kept("Investigate")>>)
                       \/ /\ cases' = [cases EXCEPT ![q.case].status = ManualStatus(q.role),
                                                    ![q.case].type = q.type]
                          /\ \E name : ThenInsert(r, name)
            BY <1>4, <2>4, Zenon DEF CompleteCommit, rows
        <3>3. CASE \E name : ThenInsert(r, name)
                   /\ cases' = [cases EXCEPT ![q.case].status = ManualStatus(q.role),
                                             ![q.case].type = q.type]
            <4> PICK old : old = cases[q.case]
                OBVIOUS
            <4> PICK row : row = [old EXCEPT !.status = ManualStatus(q.role), !.type = q.type]
                OBVIOUS
            <4>1. cases' = [cases EXCEPT ![q.case] = row]
                BY <1>1, <3>1, <3>3, TwoFields, ZenonT(60)
            <4>2. old \in Case
                BY <1>1, <3>1, RowTypes DEF NInv
            <4>3. row.type = q.type
                BY <4>2 DEF Case
            <4>4. PICK name : req' = [req EXCEPT ![r] = [q EXCEPT !.at = "insert", !.arg = name]]
                BY <3>3 DEF ThenInsert, Goes
            <4>5. [q EXCEPT !.at = "insert", !.arg = name].at = "insert"
                BY <1>1 DEF Request
            <4>6. req'[r] # q
                BY <1>1, <3>1, <4>4, <4>5
            <4> QED
                BY <1>6, <4>1, <4>3, <4>6
        <3> QED
            BY <1>8, <3>1, <3>2, <3>3
    <2>5. CASE Approve(r)
        <3>1. q.case \in CaseIds
            BY <1>1, <2>5 DEF RequestOK, BeforeCase, Approve, CaseIds
        <3>2. \/ \E a, list, kin : Split(r, q.case, a, list, kin)
              \/ SetStatus(r, q.case, "READY")
            BY <1>4, <2>5, Zenon DEF Approve, rows
        <3> QED
            BY <1>5, <1>8, <3>1, <3>2
    <2>6. CASE LegacyReady(r) \/ AbandonCase(r) \/ RejectCase(r)
        BY <1>5, <2>6 DEF LegacyReady, AbandonCase, RejectCase
    <2>7. CASE \/ GroupUpsert(r) \/ LinkAlert(r) \/ CompleteLock(r) \/ CompleteTask(r) \/ LegacyTask(r)
               \/ AbandonTask(r) \/ RejectTask(r)
        BY <1>4, <2>7, Zenon DEF GroupUpsert, LinkAlert, CompleteLock, CompleteTask, LegacyTask,
           AbandonTask, RejectTask, rows
    <2> QED
        BY <1>13, <2>1, <2>2, <2>3, <2>4, <2>5, <2>6, <2>7, Zenon DEF CreationSteps
<1>14. CASE TriageSteps(r)
    <2>1. CASE Ready(r)
        <3> PICK old : old = cases[q.case]
            OBVIOUS
        <3> PICK mid : mid = [old EXCEPT !.status = "READY"]
            OBVIOUS
        <3> PICK row : row = WithType(mid, q.type)
            OBVIOUS
        <3>1. cases' = [cases EXCEPT ![q.case] = row] /\ q.at = "ready"
            BY <2>1, Zenon DEF Ready
        <3>2. old \in Case
            <4>1. q.case \in CaseIds
                BY <1>1, <3>1 DEF RequestOK, BeforeCase, CaseIds
            <4> QED
                BY <1>1, <4>1, RowTypes DEF NInv
        <3>3. mid \in Case /\ mid.type = old.type
            BY <3>2 DEF Case, Origins
        <3>4. row.type \in {q.type, old.type}
            BY <3>3 DEF WithType, Case
        <3>5. req'[r] = Idle \/ req'[r] = [q EXCEPT !.at = "triageCommit"]
            BY <1>1, <2>1 DEF Ready, Done, Continues, Goes
        <3>6. req'[r] # q
            <4>1. Idle.at = "idle" /\ [q EXCEPT !.at = "triageCommit"].at = "triageCommit"
                BY <1>1 DEF Idle, Request
            <4> QED
                BY <3>1, <3>5, <4>1
        <3> QED
            BY <1>6, <3>1, <3>4, <3>6
    <2>2. CASE TriageClose(r)
        <3> PICK old : old = cases[q.case]
            OBVIOUS
        <3> PICK row : row = [old EXCEPT !.status = "CLOSED", !.type = q.type]
            OBVIOUS
        <3>1. q.at = "triageClose" /\ q.case \in CaseIds
            BY <1>1, <2>2 DEF TriageClose, RequestOK, BeforeCase, CaseIds
        <3>2. cases' = [cases EXCEPT ![q.case] = row]
            BY <1>1, <2>2, <3>1, TwoFields, ZenonT(60) DEF TriageClose
        <3>3. row.type = q.type
            <4>1. old \in Case
                BY <1>1, <3>1, RowTypes DEF NInv
            <4> QED
                BY <4>1 DEF Case
        <3>4. req'[r] = Idle \/ req'[r] = [q EXCEPT !.at = "triageCommit", !.arg = "inTriage"]
            BY <1>1, <2>2 DEF TriageClose, Done, Goes
        <3>5. req'[r] # q
            <4>1. /\ Idle.at = "idle"
                  /\ [q EXCEPT !.at = "triageCommit", !.arg = "inTriage"].at = "triageCommit"
                BY <1>1 DEF Idle, Request
            <4> QED
                BY <3>1, <3>4, <4>1
        <3> QED
            BY <1>6, <3>2, <3>3, <3>5
    <2>3. CASE TriageSplit(r)
        <3>1. q.case \in CaseIds
            BY <1>1, <2>3 DEF RequestOK, BeforeCase, TriageSplit, CaseIds
        <3>2. \E list, kin : Split(r, q.case, q.alert, list, kin)
            BY <2>3, Zenon DEF TriageSplit
        <3> QED
            BY <1>8, <3>1, <3>2
    <2>4. CASE AiClose(r)
        BY <1>5, <2>4 DEF AiClose
    <2>5. CASE AiParent(r)
        <3> PICK row : row = NewCase("READY", "FRAUD_AND_AML", q.alert)
            OBVIOUS
        <3>1. /\ cases' = [cases EXCEPT ![q.case] = row] /\ q.at = "aiParent"
              /\ req' = [req EXCEPT ![r] = [q EXCEPT !.at = "kinCase"]]
            BY <2>5, Zenon DEF AiParent, Continues, Goes
        <3>2. [q EXCEPT !.at = "kinCase"].at = "kinCase" /\ row.type = "FRAUD_AND_AML"
            BY <1>1 DEF Request, NewCase
        <3>3. req'[r] # q
            BY <1>1, <3>1, <3>2
        <3> QED
            BY <1>6, <3>1, <3>2, <3>3
    <2>6. CASE KinCase(r)
        <3>1. /\ AddCase(NewCase("READY", IF q.kin = <<>> THEN "FRAUD" ELSE "AML", q.alert), <<>>)
              /\ q.at = "kinCase" /\ UNCHANGED groups
            BY <2>6, Zenon DEF KinCase
        <3>2. q.kin # <<>>
            BY <1>7, <3>1 DEF NewCase
        <3>3. Half(q) # 0
            <4>1. KinOK(r)
                BY DEF PInv
            <4> QED
                BY <3>1, <3>2, <4>1 DEF Half, Making, KinOK
        <3> QED
            BY <1>9, <3>1, <3>2, <3>3 DEF BesideCase
    <2>7. CASE \/ IngestAlert(r) \/ InsertFirst(r) \/ Investigate(r) \/ TriageLock(r) \/ TriageCommit(r)
               \/ TriageTask(r) \/ Predict(r) \/ AiTask(r) \/ AiGroup(r) \/ KinFinished(r) \/ KinTask(r)
        BY <1>4, <2>7, Zenon DEF IngestAlert, InsertFirst, Investigate, TriageLock, TriageCommit,
           TriageTask, Predict, AiTask, AiGroup, KinFinished, KinTask, rows
    <2> QED
        BY <1>2, <1>14, <2>1, <2>2, <2>3, <2>4, <2>5, <2>6, <2>7, Zenon DEF TriageSteps
<1> QED
    BY <1>2, <1>10, <1>11, <1>12, <1>13, <1>14 DEF Step

LEMMA InitPInv == ASSUME Init PROVE PInv /\ triageType \in TriageTypes
<1>1. NInv /\ triageType \in TriageTypes
    BY InitNInv
<1>2. \A r \in Requests : req[r] = Idle
    BY DEF Init
<1>3. Idle.at = "idle"
    BY DEF Idle
<1>4. ASSUME NEW r \in Requests PROVE HalfOK(r) /\ KinOK(r)
    BY <1>2, <1>3 DEF HalfOK, KinOK, Half, ToSplit, Making
<1> QED
    BY <1>1, <1>4 DEF PInv

\* A step keeps the invariant, keeps cases in their groups, and leaves no AML case
\* that nobody asked for without its partner.
PartneredStep ==
    /\ GroupsKept
    /\ \A d \in CaseIds' :
          cases'[d].type = "AML" =>
              (d \in CaseIds /\ cases[d].type = "AML") \/ AskedFor("AML") \/ Partnered(d)'

LEMMA NextPInv ==
    ASSUME Whole, PInv, triageType \in TriageTypes, [Next]_vars
    PROVE  PInv' /\ triageType' \in TriageTypes /\ (vars' = vars \/ PartneredStep)
<1>1. NInv
    BY DEF PInv
<1>2. NInv' /\ triageType' \in TriageTypes
    BY <1>1, NextNInv
<1>3. CASE UNCHANGED vars
    <2>1. \A r \in Requests : HalfOK(r)' /\ KinOK(r)'
        BY <1>3 DEF vars, PInv, HalfOK, KinOK, Unlinked, CaseIds
    <2> QED
        BY <1>2, <1>3, <2>1 DEF PInv
<1>4. CASE Next
    <2> PICK r \in Requests :
            CreationCalls(r) \/ TriageCalls(r) \/ Step(r) \/ AmlThrows(r) \/ Fail(r) \/ Expire(r)
        BY <1>4 DEF Next
    <2>1. ~AmlThrows(r)
        BY DEF Whole, AmlThrows
    <2>2. Preserved
        BY <1>1, <2>1, CreationCallsKeep, TriageCallsKeep, CreationStepsKeep, TriageStepsKeep, StoreKeeps
        DEF Step
    <2>3. \A p \in Requests : HalfOK(p)' /\ KinOK(p)'
        BY <2>2, HalfStays, Zenon
    <2>4. \A d \in CaseIds' : Alone(d) => Partnered(d)'
        BY <2>2, BornPartnered, Zenon
    <2> QED
        BY <1>2, <2>2, <2>3, <2>4 DEF PInv, Preserved, PartneredStep, Alone
<1> QED
    BY <1>3, <1>4

\* A case becomes AML because somebody, or the AI model, asked for that, or else beside
\* an older case about fraud in the same group; and no step takes a case out of its
\* group, as long as nothing fails while a split by the AI model is made.
THEOREM SplitsAlwaysHavePartners == Whole => (Spec => SplitsHavePartners)
<1> SUFFICES ASSUME Whole PROVE Spec => SplitsHavePartners
    OBVIOUS
<1>1. Init => PInv /\ triageType \in TriageTypes
    BY InitPInv
<1>2. PInv /\ triageType \in TriageTypes /\ [Next]_vars => PInv' /\ (triageType \in TriageTypes)'
    BY NextPInv
<1>3. PInv /\ triageType \in TriageTypes /\ [Next]_vars =>
        [/\ \A c \in CaseIds' : cases'[c].type = "AML" =>
                (c \in CaseIds /\ cases[c].type = "AML") \/ AskedFor("AML") \/ Partnered(c)'
         /\ \A c \in CaseIds : cases[c].group \in {cases'[c].group, NoAlert}]_vars
    BY NextPInv DEF PartneredStep, GroupsKept
<1> QED
    BY <1>1, <1>2, <1>3, PTL DEF Spec, SplitsHavePartners
=============================================================================

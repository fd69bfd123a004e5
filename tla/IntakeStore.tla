----------------------------- MODULE IntakeStore -----------------------------
(***************************************************************************)
(* Where cases come from: the rows of `alerts`, `cases`, `tasks` and       *)
(* `investigation_groups` until a case is ready for assignment, and the    *)
(* requests and messages in flight that write them.                        *)
(*                                                                         *)
(* A handler is a sequence of committed transactions; a request keeps in   *)
(* `at` the one it still owes.  Most transactions are one action.  Three   *)
(* kinds keep row locks while other connections commit on their behalf:    *)
(* completeCaseCreation (the case row) and handleManualTriage (the alert   *)
(* row and the triage task), which call services that open transactions of *)
(* their own.                                                              *)
(***************************************************************************)
EXTENDS Integers, Sequences, FiniteSets

CONSTANTS
    Alerts,       \* the alerts that may arrive
    NoAlert,      \* a null group_id; a request about no alert
    Requests,     \* slots: how many requests can overlap
    MaxCalls,     \* bound on the requests made
    TriageTypes,  \* the values of TRIAGE_TYPE looked at
    Answers,      \* what the AI model's answer leads to
    ViaUI,        \* TRUE: calls are made only when the web client offers them
    Faults        \* what can go wrong: see Fail, Expire and AmlThrows

ASSUME IntakeAssumption ==
    /\ NoAlert \notin Alerts
    /\ MaxCalls \in Nat
    /\ TriageTypes \subseteq {"AI", "MANUAL", "DISABLED"}
    /\ Answers \subseteq {"investigate", "close", "both"}
    /\ ViaUI \in BOOLEAN
    /\ Faults \subseteq {"lost", "expires", "amlThrows"}

VARIABLES
    triageType,  \* the configured TRIAGE_TYPE
    alerts,      \* the alert rows: alert_data.status and case_id (0 for null)
    groups,      \* the alerts that have a row in investigation_groups
    cases,       \* the case rows, in the order of case_id
    tasks,       \* tasks[c]: the tasks of case c, in the order of created_at
    req,         \* the requests in flight
    calls        \* how many requests were made

rows == <<alerts, groups, cases, tasks>>
vars == <<triageType, alerts, groups, cases, tasks, req, calls>>
-----------------------------------------------------------------------------
Roles == {"INVESTIGATOR", "SUPERVISOR"}
CaseTypes == {"FRAUD", "AML", "FRAUD_AND_AML"}
NoType == "NONE"
\* 00, 01, 02, 99, and 71, 72, 8x for a case that triage closes.
Origins == {"DRAFT", "PENDING", "READY", "ABANDONED", "CLOSED"}
TaskNames == {"Complete", "Approve", "Investigate"}

Alert == [kind: {"none", "NALT", "ALRT"}, case: Nat]
Case == [status: Origins, type: CaseTypes \union {NoType}, group: Alerts \union {NoAlert}]
Task == [name: TaskNames, open: BOOLEAN]

CaseIds == 1..Len(cases)
Kept(n) == [name |-> n, open |-> TRUE]
Finished(n) == [name |-> n, open |-> FALSE]
NewCase(s, t, g) == [status |-> s, type |-> t, group |-> g]

Named(c, n) == {t \in 1..Len(tasks[c]) : tasks[c][t].name = n}
OpenNamed(c, n) == {t \in Named(c, n) : tasks[c][t].open}
\* getTasksByCaseId sorts by created_at, the newest first.
Newest(c, n) == CHOOSE t \in Named(c, n) : \A o \in Named(c, n) : o <= t
NewestIsOpen(c, n) == Named(c, n) # {} /\ tasks[c][Newest(c, n)].open

\* getAlertByCaseId: the alert linked to the case, or else that of its group.
AlertsOf(c) ==
    LET linked == {a \in Alerts : alerts[a].case = c}
    IN  IF linked # {} THEN linked ELSE {cases[c].group} \ {NoAlert}
\* The cases that lead to an alert.
CasesOf(a) == {c \in CaseIds : a \in AlertsOf(c)}
-----------------------------------------------------------------------------
(***************************************************************************)
(* Requests.                                                               *)
(***************************************************************************)
Steps ==
    {"idle", "insert",
     "group", "primary", "sibling", "link", "draft",
     "completeLock", "completeTask", "completeCommit",
     "legacyReady", "legacyTask", "abandon", "abandonTask",
     "approve", "reject", "rejectTask",
     "ingest", "insertFirst", "triageTask", "predict", "aiTask", "aiClose", "aiGroup", "aiParent",
     "kinCase", "kinFinished", "kinTask", "undo", "dropGroup",
     "investigate", "ready",
     "triage", "triageClose", "triageSplit", "triageCommit"}

\* case: the case worked on; kin: the sibling cases made for it; task: the task
\* found; home: in triage, the case it belongs to; type: the case type asked for;
\* arg: the name of the task to insert, the branch taken, or whether a transaction
\* is open around the step; todo: cases still to abandon.
Request ==
    [at: Steps, role: Roles \union {"none"}, alert: Alerts \union {NoAlert}, case: Nat,
     kin: Seq(Nat), task: Nat, home: Nat, type: CaseTypes \union {NoType},
     arg: TaskNames \union {"none", "investigate", "close", "both", "ready", "inTriage", "expired"},
     todo: SUBSET Nat]

Idle == [at |-> "idle", role |-> "none", alert |-> NoAlert, case |-> 0, kin |-> <<>>,
         task |-> 0, home |-> 0, type |-> NoType, arg |-> "none", todo |-> {}]

Starts(r, q) ==
    /\ req[r].at = "idle" /\ calls < MaxCalls
    /\ calls' = calls + 1
    /\ req' = [req EXCEPT ![r] = q]
    /\ UNCHANGED triageType
Goes(r, q) == req' = [req EXCEPT ![r] = q] /\ UNCHANGED <<triageType, calls>>
Continues(r, step) == Goes(r, [req[r] EXCEPT !.at = step])
Done(r) == Goes(r, Idle)
\* The last thing many handlers do: insert an open task for case c.
ThenInsert(r, n) == Goes(r, [req[r] EXCEPT !.at = "insert", !.arg = n])
-----------------------------------------------------------------------------
(***************************************************************************)
(* Row locks that outlast an action, and writes that wait for them.        *)
(***************************************************************************)
LocksCase(q, c) ==
    req[q].at \in {"completeTask", "completeCommit"} /\ req[q].case = c /\ req[q].arg # "expired"
InTriage(q) ==
    \/ req[q].arg = "inTriage"
    \/ req[q].at \in {"triageClose", "triageSplit"} /\ req[q].arg # "expired"

FreeCase(r, c) == \A q \in Requests \ {r} : ~LocksCase(q, c)
FreeAlert(r, a) == \A q \in Requests \ {r} : ~(InTriage(q) /\ req[q].alert = a)
FreeTask(r, c, t) ==
    \A q \in Requests \ {r} : ~(InTriage(q) /\ req[q].home = c /\ req[q].task = t)

SetStatus(r, c, s) ==
    FreeCase(r, c) /\ cases' = [cases EXCEPT ![c].status = s]
FinishTask(r, c, t) ==
    FreeTask(r, c, t) /\ tasks' = [tasks EXCEPT ![c][t].open = FALSE]
AddTask(c, task) == tasks' = [tasks EXCEPT ![c] = Append(@, task)]
AddCase(new, list) == cases' = Append(cases, new) /\ tasks' = Append(tasks, list)

\* Mutant: the two cases are not put into the group.
SplitUngrouped(r, c, a, list, kin) ==
    /\ FreeCase(r, c) /\ FreeAlert(r, a)
    /\ cases' = Append([cases EXCEPT ![c] = NewCase("READY", "FRAUD", NoAlert)],
                       NewCase("READY", "AML", NoAlert))
    /\ tasks' = Append(list, kin)
    /\ groups' = groups \union {a}
    /\ alerts' = [alerts EXCEPT ![a].case = 0]

\* Mutant: there is no second case.
SplitAlone(r, c, a, list, kin) ==
    /\ FreeCase(r, c) /\ FreeAlert(r, a)
    /\ cases' = [cases EXCEPT ![c] = NewCase("READY", "FRAUD", a)]
    /\ tasks' = list
    /\ groups' = groups \union {a}
    /\ alerts' = [alerts EXCEPT ![a].case = 0]

\* Mutant: the case itself stays out of the group.
SplitSiblingOnly(r, c, a, list, kin) ==
    /\ FreeCase(r, c) /\ FreeAlert(r, a)
    /\ cases' = Append([cases EXCEPT ![c] = NewCase("READY", "FRAUD", NoAlert)],
                       NewCase("READY", "AML", a))
    /\ tasks' = Append(list, kin)
    /\ groups' = groups \union {a}
    /\ alerts' = [alerts EXCEPT ![a].case = 0]

\* A FRAUD_AND_AML case c becomes the FRAUD case of a group and gets an AML
\* sibling: one transaction, which also takes the alert's own link away.  list and
\* kin: the tasks of the cases there are, and of the sibling.
Split(r, c, a, list, kin) ==
    /\ FreeCase(r, c) /\ FreeAlert(r, a)
    /\ cases' = Append([cases EXCEPT ![c] = NewCase("READY", "FRAUD", a)],
                       NewCase("READY", "AML", a))
    /\ tasks' = Append(list, kin)
    /\ groups' = groups \union {a}
    /\ alerts' = [alerts EXCEPT ![a].case = 0]

\* createTask after everything else.
Insert(r) ==
    /\ req[r].at = "insert"
    /\ AddTask(req[r].case, Kept(req[r].arg))
    /\ Done(r)
    /\ UNCHANGED <<alerts, groups, cases>>

\* A request is lost between two transactions, its open one rolled back: the
\* process dies, or the database, Flowable or the model answers with an error.
Fail(r) ==
    /\ "lost" \in Faults
    /\ req[r].at # "idle"
    /\ Done(r)
    /\ UNCHANGED rows

\* Mutant: an interactive transaction has no time limit.
ExpireNever(r) == FALSE

\* The five seconds of an interactive transaction are over: it is rolled back.  A
\* call it has made on another connection goes on.
Expire(r) ==
    LET q == req[r] IN
    /\ "expires" \in Faults
    /\ InTriage(r) \/ LocksCase(r, q.case)
    /\ IF q.at \in {"completeTask", "investigate", "ready", "triageClose"}
       THEN Goes(r, [q EXCEPT !.arg = "expired"])
       ELSE Done(r)
    /\ UNCHANGED rows
=============================================================================

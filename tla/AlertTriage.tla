----------------------------- MODULE AlertTriage -----------------------------
(***************************************************************************)
(* Cases made from alerts: intake (ProcessAlertService, AlertService) and  *)
(* triage, by a person or by the AI model (TriageService).                 *)
(***************************************************************************)
EXTENDS IntakeStore

Row(kind, c) == [kind |-> kind, case |-> c]

Arrives(a) ==
    alerts[a].kind = "none" /\ \A q \in Requests : req[q].at = "ingest" => req[q].alert # a

\* An alert nobody need look at is stored without a case.
IngestNalt(r, a) ==
    /\ Arrives(a)
    /\ Starts(r, Idle)
    /\ alerts' = [alerts EXCEPT ![a] = Row("NALT", 0)]
    /\ UNCHANGED <<groups, cases, tasks>>

\* Any other gets its case first.
IngestCase(r, a) ==
    /\ Arrives(a)
    /\ AddCase(NewCase("DRAFT", NoType, NoAlert), <<>>)
    /\ Starts(r, [Idle EXCEPT !.at = "ingest", !.alert = a, !.case = Len(cases) + 1])
    /\ UNCHANGED <<alerts, groups>>

\* What processIncomingAlert does with it depends on TRIAGE_TYPE.
AfterIngest ==
    [MANUAL   |-> [at |-> "insert", arg |-> "Complete"],
     DISABLED |-> [at |-> "insertFirst", arg |-> "Investigate"],
     AI       |-> [at |-> "triageTask", arg |-> "none"]]

IngestAlert(r) ==
    LET q == req[r]  next == AfterIngest[triageType] IN
    /\ q.at = "ingest"
    /\ alerts' = [alerts EXCEPT ![q.alert] = Row("ALRT", q.case)]
    /\ Goes(r, [q EXCEPT !.at = next.at, !.arg = next.arg])
    /\ UNCHANGED <<groups, cases, tasks>>

\* Without triage: one investigation here, and a second one by updateCaseStatus.
InsertFirst(r) ==
    /\ req[r].at = "insertFirst"
    /\ AddTask(req[r].case, Kept("Investigate"))
    /\ Goes(r, [req[r] EXCEPT !.at = "investigate", !.arg = "none"])
    /\ UNCHANGED <<alerts, groups, cases>>
-----------------------------------------------------------------------------
(***************************************************************************)
(* updateCaseStatus without a transaction of the caller: the investigation *)
(* is inserted, then the case becomes READY.  Under manual triage a        *)
(* caller's transaction is still open around both.                         *)
(***************************************************************************)
Investigate(r) ==
    /\ req[r].at = "investigate"
    /\ AddTask(req[r].case, Kept("Investigate"))
    /\ Continues(r, "ready")
    /\ UNCHANGED <<alerts, groups, cases>>

WithType(case, type) == IF type = NoType THEN case ELSE [case EXCEPT !.type = type]

Ready(r) ==
    LET q == req[r] IN
    /\ q.at = "ready"
    /\ FreeCase(r, q.case)
    /\ cases' = [cases EXCEPT ![q.case] = WithType([@ EXCEPT !.status = "READY"], q.type)]
    /\ IF q.arg = "inTriage" THEN Continues(r, "triageCommit") ELSE Done(r)
    /\ UNCHANGED <<alerts, groups, tasks>>
-----------------------------------------------------------------------------
(***************************************************************************)
(* handleManualTriage.  One transaction that updates the alert and the     *)
(* task; for a single case updateCaseStatus runs on connections of its own *)
(* inside it, for a split everything is part of it.                        *)
(***************************************************************************)
\* The dialog is there while the newest "Complete New Case" task is open.  The
\* handler looks at any such task.
TriageCheck(r, a, c, t, way, type) ==
    /\ triageType = "MANUAL"
    /\ alerts[a].case = c
    /\ cases[c].status # "CLOSED"
    /\ ViaUI => NewestIsOpen(c, "Complete") /\ (way = "close" => type = "FRAUD")
    /\ Starts(r, [Idle EXCEPT !.at = "triage", !.alert = a, !.task = t, !.home = c,
                              !.type = type, !.arg = way])
    /\ UNCHANGED rows

\* The first two updates take the rows, and the first returns the alert as it is
\* now.  What follows is done to the case it is linked to by then, which need not
\* be the task's; without one they are rolled back.
TriageLock(r) ==
    LET q == req[r]  c == alerts[q.alert].case IN
    /\ q.at = "triage"
    /\ FreeAlert(r, q.alert) /\ FreeTask(r, q.home, q.task)
    /\ IF c = 0 THEN Done(r)
       ELSE CASE q.arg = "close" -> Goes(r, [q EXCEPT !.at = "triageClose", !.case = c])
              [] q.arg = "ready" /\ q.type = "FRAUD_AND_AML" ->
                     Goes(r, [q EXCEPT !.at = "triageSplit", !.case = c])
              [] OTHER -> Goes(r, [q EXCEPT !.at = "investigate", !.case = c, !.arg = "inTriage"])
    /\ UNCHANGED rows

TriageClose(r) ==
    LET q == req[r] IN
    /\ q.at = "triageClose"
    /\ FreeCase(r, q.case)
    /\ cases' = [cases EXCEPT ![q.case].status = "CLOSED", ![q.case].type = q.type]
    /\ IF q.arg = "expired" THEN Done(r)
       ELSE Goes(r, [q EXCEPT !.at = "triageCommit", !.arg = "inTriage"])
    /\ UNCHANGED <<alerts, groups, tasks>>

TriageSplit(r) ==
    LET q == req[r]
        finished == [tasks EXCEPT ![q.home][q.task].open = FALSE]
    IN
    /\ q.at = "triageSplit"
    /\ Split(r, q.case, q.alert, [finished EXCEPT ![q.case] = Append(@, Kept("Investigate"))],
             <<Finished("Complete"), Kept("Investigate")>>)
    /\ Done(r)

\* Mutant: the triage task stays open.
TriageCommitLeavesTask(r) ==
    /\ req[r].at = "triageCommit"
    /\ Done(r)
    /\ UNCHANGED rows

TriageCommit(r) ==
    /\ req[r].at = "triageCommit"
    /\ tasks' = [tasks EXCEPT ![req[r].home][req[r].task].open = FALSE]
    /\ Done(r)
    /\ UNCHANGED <<alerts, groups, cases>>
-----------------------------------------------------------------------------
(***************************************************************************)
(* handleAITriage.                                                         *)
(***************************************************************************)
TriageTask(r) ==
    /\ req[r].at = "triageTask"
    /\ AddTask(req[r].case, Kept("Complete"))
    /\ Goes(r, [req[r] EXCEPT !.at = "predict", !.task = Len(tasks[req[r].case]) + 1])
    /\ UNCHANGED <<alerts, groups, cases>>

\* predictAlert asks the model.  A case to be investigated gets the predicted type,
\* whatever it is, without a split.
Predict(r) ==
    /\ req[r].at = "predict"
    /\ \E p \in Answers : \E type \in IF p = "investigate" THEN CaseTypes ELSE {NoType} :
          Goes(r, [req[r] EXCEPT !.at = "aiTask", !.arg = p, !.type = type])
    /\ UNCHANGED rows

AfterAnswer(p) ==
    CASE p = "investigate" -> "investigate" [] p = "close" -> "aiClose" [] OTHER -> "aiGroup"

AiTask(r) ==
    LET q == req[r] IN
    /\ q.at = "aiTask"
    /\ FinishTask(r, q.case, q.task)
    /\ Goes(r, [q EXCEPT !.at = AfterAnswer(q.arg), !.arg = "none"])
    /\ UNCHANGED <<alerts, groups, cases>>

\* autoCloseCase leaves the type alone.
AiClose(r) ==
    /\ req[r].at = "aiClose"
    /\ SetStatus(r, req[r].case, "CLOSED")
    /\ Done(r)
    /\ UNCHANGED <<alerts, groups, tasks>>

(***************************************************************************)
(* A true positive that is both FRAUD and AML: the alert's own case stays, *)
(* READY and without an investigation, beside two new ones.                *)
(***************************************************************************)
AiGroup(r) ==
    /\ req[r].at = "aiGroup"
    /\ groups' = groups \union {req[r].alert}
    /\ Continues(r, "aiParent")
    /\ UNCHANGED <<alerts, cases, tasks>>

AiParent(r) ==
    LET q == req[r] IN
    /\ q.at = "aiParent"
    /\ FreeCase(r, q.case)
    /\ cases' = [cases EXCEPT ![q.case] = NewCase("READY", "FRAUD_AND_AML", q.alert)]
    /\ Continues(r, "kinCase")
    /\ UNCHANGED <<alerts, groups, tasks>>

\* createCaseWithInvestigationTask, first for FRAUD and then for AML.
KinCase(r) ==
    LET q == req[r] IN
    /\ q.at = "kinCase"
    /\ AddCase(NewCase("READY", IF q.kin = <<>> THEN "FRAUD" ELSE "AML", q.alert), <<>>)
    /\ Goes(r, [q EXCEPT !.at = "kinFinished", !.kin = Append(@, Len(cases) + 1)])
    /\ UNCHANGED <<alerts, groups>>

KinFinished(r) ==
    /\ req[r].at = "kinFinished"
    /\ AddTask(req[r].kin[Len(req[r].kin)], Finished("Complete"))
    /\ Continues(r, "kinTask")
    /\ UNCHANGED <<alerts, groups, cases>>

KinTask(r) ==
    LET q == req[r] IN
    /\ q.at = "kinTask"
    /\ AddTask(q.kin[Len(q.kin)], Kept("Investigate"))
    /\ IF Len(q.kin) = 1 THEN Continues(r, "kinCase") ELSE Done(r)
    /\ UNCHANGED <<alerts, groups, cases>>

\* Making the AML case fails at one of its steps: the alert's case and the FRAUD
\* case are to be abandoned.
AmlThrows(r) ==
    LET q == req[r] IN
    /\ "amlThrows" \in Faults
    /\ q.at \in {"kinCase", "kinFinished", "kinTask"} /\ q.kin # <<>>
    /\ q.at # "kinCase" => Len(q.kin) = 2
    /\ Goes(r, [q EXCEPT !.at = "undo", !.todo = {q.case, q.kin[1]}])
    /\ UNCHANGED rows

\* Promise.all: two commits in either order.
Undo(r) ==
    LET q == req[r] IN
    /\ q.at = "undo"
    /\ \E c \in q.todo :
          /\ FreeCase(r, c)
          /\ cases' = [cases EXCEPT ![c].status = "ABANDONED", ![c].group = NoAlert]
          /\ Goes(r, [q EXCEPT !.todo = @ \ {c},
                               !.at = IF q.todo = {c} THEN "dropGroup" ELSE "undo"])
    /\ UNCHANGED <<alerts, groups, tasks>>

\* The cases still in the group (an AML case half made) have their group_id set
\* to null by the foreign key.
DropGroup(r) ==
    LET a == req[r].alert IN
    /\ req[r].at = "dropGroup"
    /\ groups' = groups \ {a}
    /\ cases' = [c \in CaseIds |-> IF cases[c].group = a THEN [cases[c] EXCEPT !.group = NoAlert]
                                   ELSE cases[c]]
    /\ Done(r)
    /\ UNCHANGED <<alerts, tasks>>
-----------------------------------------------------------------------------
TriageCalls(r) ==
    \E a \in Alerts :
        \/ IngestNalt(r, a) \/ IngestCase(r, a)
        \/ \E c \in CaseIds, way \in {"close", "ready"}, type \in CaseTypes :
              \E t \in OpenNamed(c, "Complete") : TriageCheck(r, a, c, t, way, type)

TriageSteps(r) ==
    \/ IngestAlert(r) \/ InsertFirst(r) \/ Investigate(r) \/ Ready(r)
    \/ TriageLock(r) \/ TriageClose(r) \/ TriageSplit(r) \/ TriageCommit(r)
    \/ TriageTask(r) \/ Predict(r) \/ AiTask(r) \/ AiClose(r)
    \/ AiGroup(r) \/ AiParent(r) \/ KinCase(r) \/ KinFinished(r) \/ KinTask(r)
    \/ Undo(r) \/ DropGroup(r)
=============================================================================

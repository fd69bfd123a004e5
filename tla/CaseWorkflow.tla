---------------------------- MODULE CaseWorkflow ----------------------------
(***************************************************************************)
(* The life of one case: every handler that works on it, interleaved.      *)
(***************************************************************************)
EXTENDS CaseSuspension, CaseClosure, CaseReopening

\* What CaseIntake hands over: a READY case has one investigation to assign, and
\* the owner who made it, if a person did; one the AI triage closed has no task
\* left to do, no owner and no final outcome.
Init ==
    /\ \/ /\ caseStatus = "READY" /\ tasks = <<NewTask("Investigate", "UNASSIGNED", NoUser)>>
          /\ caseOwner \in Investigators \union Supervisors \union {NoUser}
       \/ caseStatus \in AutoClosed /\ tasks = <<>> /\ caseOwner = NoUser
    /\ finalOutcome = None
    /\ later = 0
    /\ newer = {}
    /\ req = [r \in Requests |-> Idle]

Next ==
    \E r \in Requests :
        TaskWorkNext(r) \/ SuspensionNext(r) \/ ClosureNext(r) \/ ReopeningNext(r) \/ Fail(r)

Spec == Init /\ [][Next]_vars
-----------------------------------------------------------------------------
(***************************************************************************)
(* Types.                                                                  *)
(***************************************************************************)
OfTask == {"assign", "unassign", "patch", "promote", "complete", "submit", "recommend", "direct",
           "approve", "claim", "claimOnly", "claimReturn", "insertReopen", "approveReopen",
           "rejectReopen"}

\* What a request that owes a step carries along: it works on tasks that exist,
\* and it has been through the check of its role and its arguments.
RequestOK(q) ==
    /\ q.at # "idle" => q.by \in Users \/ (q.at \in {"patch", "promote"} /\ ~ViaUI)
    /\ q.at \in {"direct", "approve", "rejectReopen"} => q.by \in Supervisors
    /\ q.at \in OfTask => q.task \in TaskSet
    /\ q.todo \subseteq TaskSet
    /\ q.at \in {"assign", "reject"} => q.arg \in Users
    /\ q.at \in {"patch", "promote"} => q.arg \in TaskStatuses
    /\ q.at \in {"submit", "recommend", "direct", "approve", "rejectReopen"} => q.arg \in Outcomes
    /\ q.at = "rejectReopen" /\ q.arg # "INCONCLUSIVE" => finalOutcome # None

\* The columns hold values of their enumerations, and every request in flight
\* carries what its next write needs.
TypeOK == StoreTypeOK /\ \A r \in Requests : RequestOK(req[r])

\* No request is between two of its transactions.
Quiet == \A r \in Requests : req[r].at = "idle"
OpenTasks == {t \in TaskSet : tasks[t].status # "COMPLETED"}

-----------------------------------------------------------------------------
(***************************************************************************)
(* No dead ends: whatever status a case rests in, the rows hold what the   *)
(* handler that leads on looks for.  One request at a time, none lost.     *)
(***************************************************************************)
\* A READY case has an investigation that can be assigned: assignTaskToInvestigator
\* is the only way out of READY.
ReadyOffersWork ==
    Quiet /\ caseStatus = "READY" => Investigations({"UNASSIGNED"}) # {}

\* The owner of a case under work holds its latest investigation, so that
\* closeCase, which looks for exactly that, accepts the owner.
OwnerCanWork ==
    LET t == Latest(Named("Investigate")) IN
    Quiet /\ caseStatus \in {"ASSIGNED", "IN_PROGRESS"} =>
        /\ caseOwner # NoUser /\ tasks[t].assignee = caseOwner
        /\ tasks[t].status \in
              IF caseStatus = "ASSIGNED" THEN {"ASSIGNED"} ELSE {"ASSIGNED", "IN_PROGRESS", "COMPLETED"}

\* resumeCase finds the owner it insists on and a blocked investigation.
SuspendedCanResume ==
    Quiet /\ caseStatus = "SUSPENDED" => caseOwner # NoUser /\ Investigations({"BLOCKED"}) # {}

\* A closure that waits for a decision can be approved (an unassigned approval
\* task, a case that validateCaseCompleteness finds complete, its recommendation
\* among the latest comments) and rejected (no other task open); so can a reopening.
PendingIsDecidable ==
    Quiet =>
        /\ caseStatus = "PENDING_CLOSURE" =>
              CaseComplete /\ \E t \in Having("ApproveClosure", {"UNASSIGNED"}) : OpenTasks = {t}
        /\ caseStatus = "PENDING_REOPENING" => Having("ApproveReopening", {"UNASSIGNED"}) # {}

\* Every status leads on, by the handlers that ask for these rows.
NoDeadEnds == ReadyOffersWork /\ OwnerCanWork /\ SuspendedCanResume /\ PendingIsDecidable

\* A closed case leaves nobody with a task in their list, the SAR/STR filing
\* excepted.
ClosedIsFinished ==
    Quiet /\ caseStatus \in Closed => OpenTasks \subseteq Named("SAR")

\* A confirmed case has its SAR/STR filing task.
ConfirmedIsFiled ==
    Quiet /\ caseStatus = "CONFIRMED" => Named("SAR") # {}

\* Nothing is confirmed or refuted, or waits for that, without a completed
\* investigation.
ClosedWasInvestigated ==
    caseStatus \in {"PENDING_CLOSURE", "REFUTED", "CONFIRMED"} => Investigations({"COMPLETED"}) # {}

\* A case that is over is complete: nobody has work left, the filing that must
\* follow is asked for, and the outcome rests on a completed investigation.
ClosedIsComplete == ClosedIsFinished /\ ConfirmedIsFiled /\ ClosedWasInvestigated
-----------------------------------------------------------------------------
(***************************************************************************)
(* The promise of CaseLifecycle.                                           *)
(***************************************************************************)
Stage ==
    CASE caseStatus = "READY" -> "waiting"
      [] caseStatus \in {"ASSIGNED", "IN_PROGRESS"} -> "held"
      [] caseStatus = "SUSPENDED" -> "suspended"
      [] caseStatus = "PENDING_CLOSURE" -> "closing"
      [] caseStatus = "PENDING_REOPENING" -> "reopening"
      [] OTHER -> "closed"

\* reopenCase leaves the old owner in the row of a READY case; nobody holds it.
Lifecycle == INSTANCE CaseLifecycle WITH
    People <- Users, Nobody <- NoUser, Verdict <- Outcomes, NoVerdict <- None,
    stage <- Stage,
    holder <- IF Stage \in {"held", "suspended", "closing"} THEN caseOwner ELSE NoUser,
    verdict <- finalOutcome

\* Every behaviour of the handlers is, seen through the case row, a behaviour of
\* the lifecycle.
ImplementsLifecycle == Lifecycle!LifecycleSpec
-----------------------------------------------------------------------------
(***************************************************************************)
(* What a lost request cannot break.                                       *)
(***************************************************************************)
\* A case closed by people shows the outcome that was decided, in both columns.
ClosedAsDecided ==
    caseStatus \in Outcomes => finalOutcome \in {caseStatus, None}

\* A case in work, suspended or waiting for its closure has the owner who may
\* resume or close it, whoever suspended, blocked, resumed or rejected it and
\* whatever of that was lost halfway; only a PATCH that keeps an unassigned
\* investigation unassigned takes a case into work without one.
OwnedStatuses == {"IN_PROGRESS", "SUSPENDED", "PENDING_CLOSURE"}
Unowned == caseStatus \in OwnedStatuses /\ caseOwner = NoUser
KeepsOwner ==
    [][Unowned' => Unowned \/ \E r \in Requests : req[r].at = "promote" /\ req[r].by = NoUser]_vars
-----------------------------------------------------------------------------
(***************************************************************************)
(* What overlapping requests cannot break either.                          *)
(***************************************************************************)
\* The outcome of a case that is, or waits to be, confirmed or refuted is known.
OutcomeRecorded ==
    caseStatus \in {"PENDING_CLOSURE", "REFUTED", "CONFIRMED"} => finalOutcome # None

\* A reopening that waits for a decision keeps an open task for it, however many
\* requests ask, approve and reject at once.
ReopeningHasApproval ==
    caseStatus = "PENDING_REOPENING" => OpenTasks \intersect Named("ApproveReopening") # {}

\* A task in somebody's hands has an assignee, an ASSIGNED case an owner: the
\* dashboards and the notifications look them up without checking.
HeldTasksHaveHolder ==
    /\ \A t \in TaskSet :
          tasks[t].status \in {"ASSIGNED", "IN_PROGRESS", "BLOCKED"} => tasks[t].assignee # NoUser
    /\ caseStatus = "ASSIGNED" => caseOwner # NoUser

\* A case is closed by a supervisor's request, never by an investigator's.
ClosesBySupervisor ==
    [][caseStatus \notin Outcomes /\ caseStatus' \in Outcomes =>
         \E r \in Requests : req[r].at # "idle" /\ req'[r] # req[r] /\ req[r].by \in Supervisors]_vars

\* When a granted reopening commits, the investigation it inserted outside its
\* transaction is still there to be assigned: nobody has taken it meanwhile.
ReopenedOffersWork ==
    [][\A r \in Requests : req[r].at = "approveReopen" /\ caseStatus' = "READY" =>
         \E t \in DOMAIN tasks' : tasks'[t].name = "Investigate" /\ tasks'[t].status = "UNASSIGNED"]_vars
=============================================================================

------------------------------ MODULE TaskWork ------------------------------
(***************************************************************************)
(* Work on the tasks of a case: assign, reassign, unassign, update (PATCH  *)
(* /task/:id) and complete.  TaskLifecycleService and TaskService.         *)
(***************************************************************************)
EXTENDS CaseStore

(***************************************************************************)
(* What the web client's task table offers.                                *)
(***************************************************************************)
ApprovalTasks == {"ApproveClosure", "ApproveReopening"}

\* A completed task offers nothing, nor does a blocked one of a suspended case;
\* a SAR/STR task is worked by compliance officers only.
TableOffers(u, t) ==
    /\ tasks[t].status # "COMPLETED"
    /\ ~(tasks[t].status = "BLOCKED" /\ caseStatus = "SUSPENDED")
    /\ tasks[t].name = "SAR" => u \in ComplianceOfficers

AssignOffered(u, t) ==
    /\ TableOffers(u, t)
    /\ tasks[t].status # "IN_PROGRESS"
    /\ tasks[t].assignee = NoUser
    /\ tasks[t].name \notin ApprovalTasks
UnassignOffered(u, t) == TableOffers(u, t) /\ tasks[t].assignee # NoUser

\* The people the assign and reassign dialogs list: oneself, the investigators,
\* or for a SAR/STR task the compliance officers; never the present assignee.
Assignees(u, t) ==
    ((IF tasks[t].name = "SAR" THEN ComplianceOfficers ELSE Investigators)
        \union {u}) \ {tasks[t].assignee}

StartOffered(u, t) ==
    /\ TableOffers(u, t)
    /\ tasks[t].assignee = u
    /\ tasks[t].status # "IN_PROGRESS"
FinishOffered(u, t) ==
    tasks[t].status = "IN_PROGRESS" /\ tasks[t].name = "Investigate" /\ tasks[t].assignee = u
FileOffered(u, t) ==
    tasks[t].status = "IN_PROGRESS" /\ tasks[t].name = "SAR" /\ u \in ComplianceOfficers

\* The statuses the client's two dialogs send: "In Progress" and "Complete".
PatchOffered(u, t, s) ==
    (s = "IN_PROGRESS" /\ StartOffered(u, t)) \/ (s = "COMPLETED" /\ FinishOffered(u, t))
-----------------------------------------------------------------------------
(***************************************************************************)
(* assignTaskToInvestigator and reassignTask: the same reads, the same     *)
(* writes.  Neither looks at the status of the task.                       *)
(***************************************************************************)
AssignCheck(r, u, t, a) ==
    /\ req[r].at = "idle"
    /\ Tier2(u, "task")
    /\ ViaUI => (AssignOffered(u, t) \/ UnassignOffered(u, t)) /\ a \in Assignees(u, t)
    /\ Goes(r, "assign", u, t, {}, a)
    /\ UNCHANGED <<caseVars, taskVars>>

\* Mutant: the owner of the case is forgotten.
AssignCommitNoOwner(r) ==
    LET t == req[r].task IN
    /\ req[r].at = "assign"
    /\ WriteTask(r, t, "ASSIGNED", req[r].arg)
    /\ IF tasks[t].name = "Investigate"
       THEN WriteCase(r, "ASSIGNED", caseOwner, finalOutcome)
       ELSE Commented \/ UNCHANGED caseVars
    /\ Done(r)

\* One transaction: the task, for an investigation the case and its owner, and a
\* comment, which an assignment may do without.
AssignCommit(r) ==
    LET t == req[r].task  a == req[r].arg IN
    /\ req[r].at = "assign"
    /\ WriteTask(r, t, "ASSIGNED", a)
    /\ IF tasks[t].name = "Investigate"
       THEN WriteCase(r, "ASSIGNED", a, finalOutcome)
       ELSE Commented \/ UNCHANGED caseVars
    /\ Done(r)

(***************************************************************************)
(* unassignTask: whatever the task, unless it is a SAR/STR filing, the     *)
(* case goes back to READY without an owner.                               *)
(***************************************************************************)
UnassignCheck(r, u, t) ==
    /\ req[r].at = "idle"
    /\ Tier2(u, "task")
    /\ tasks[t].status # "COMPLETED" /\ tasks[t].assignee # NoUser
    /\ ViaUI => UnassignOffered(u, t)
    /\ Goes(r, "unassign", u, t, {}, None)
    /\ UNCHANGED <<caseVars, taskVars>>

UnassignCommit(r) ==
    LET t == req[r].task IN
    /\ req[r].at = "unassign"
    /\ WriteTask(r, t, "UNASSIGNED", NoUser)
    /\ IF tasks[t].name # "SAR"
       THEN WriteCase(r, "READY", NoUser, finalOutcome)
       ELSE Commented
    /\ Done(r)
-----------------------------------------------------------------------------
(***************************************************************************)
(* updateTask, behind PATCH /task/:id: any status, no tier-2 check; the    *)
(* caller becomes the assignee unless the call names the present one, null *)
(* on an unassigned task included (the client never does).  `by` is the    *)
(* assignee to be written.  Starting an investigation promotes an eligible *)
(* case; its owner stays when the task has nobody.                         *)
(***************************************************************************)
Promotes(t, s) ==
    /\ s = "IN_PROGRESS" /\ tasks[t].status # "IN_PROGRESS"
    /\ tasks[t].name = "Investigate"
    /\ caseStatus \in {"ASSIGNED", "READY"}

PatchCheck(r, u, t, s, a) ==
    /\ req[r].at = "idle"
    /\ a \in {u, tasks[t].assignee}
    /\ ViaUI => PatchOffered(u, t, s) /\ a = u
    /\ Goes(r, IF Promotes(t, s) THEN "promote" ELSE "patch", a, t, {}, s)
    /\ UNCHANGED <<caseVars, taskVars>>

\* Mutant: the promotion leaves the owner alone.
PatchCommitNoOwner(r) ==
    /\ req[r].at \in {"patch", "promote"}
    /\ WriteTask(r, req[r].task, req[r].arg, req[r].by)
    /\ IF req[r].at = "promote"
       THEN WriteCase(r, "IN_PROGRESS", caseOwner, finalOutcome)
       ELSE UNCHANGED caseVars
    /\ Done(r)

PatchCommit(r) ==
    /\ req[r].at \in {"patch", "promote"}
    /\ WriteTask(r, req[r].task, req[r].arg, req[r].by)
    /\ IF req[r].at = "promote"
       THEN WriteCase(r, "IN_PROGRESS",
                      IF req[r].by = NoUser THEN caseOwner ELSE req[r].by, finalOutcome)
       ELSE UNCHANGED caseVars
    /\ Done(r)

(***************************************************************************)
(* completeTask, behind POST /task/:id/complete.  The web client calls it  *)
(* for the SAR/STR filing only.                                            *)
(***************************************************************************)
CompleteCheck(r, u, t) ==
    /\ req[r].at = "idle"
    /\ Tier2(u, "complete")
    /\ u \in ComplianceOfficers => tasks[t].name = "SAR"
    /\ ViaUI => FileOffered(u, t)
    /\ Goes(r, "complete", u, t, {}, None)
    /\ UNCHANGED <<caseVars, taskVars>>

CompleteCommit(r) ==
    LET t == req[r].task IN
    /\ req[r].at = "complete"
    /\ WriteTask(r, t, "COMPLETED", tasks[t].assignee)
    /\ Done(r)
    /\ UNCHANGED caseVars
-----------------------------------------------------------------------------
TaskWorkNext(r) ==
    \/ \E u \in Users, t \in TaskSet :
          \/ \E a \in Users : AssignCheck(r, u, t, a)
          \/ UnassignCheck(r, u, t)
          \/ \E s \in TaskStatuses, a \in Users \union {NoUser} : PatchCheck(r, u, t, s, a)
          \/ CompleteCheck(r, u, t)
    \/ AssignCommit(r) \/ UnassignCommit(r) \/ PatchCommit(r) \/ CompleteCommit(r)
=============================================================================

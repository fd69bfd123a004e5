---------------------------- MODULE CaseClosure -----------------------------
(***************************************************************************)
(* Close a case, and approve, reject or return a closure an investigator   *)
(* asked for.  CaseClosureApprovalService and the transactions it runs in  *)
(* CaseRepository.                                                         *)
(***************************************************************************)
EXTENDS CaseStore

CloseOffered(u) ==
    /\ caseOwner = u
    /\ \A t \in Named("Investigate") : tasks[t].status = "COMPLETED"

\* Mutant: nobody is asked.
CloseCheckDirect(r, u, o) ==
    LET started == Investigations({"IN_PROGRESS", "COMPLETED"}) IN
    /\ req[r].at = "idle"
    /\ Tier2(u, "close")
    /\ caseOwner = u \/ \E t \in Named("Investigate") : tasks[t].assignee = u
    /\ started # {} /\ tasks[Latest(started)].assignee = u
    /\ ViaUI => CloseOffered(u)
    /\ Goes(r, "direct", u, Latest(started), {}, o)
    /\ UNCHANGED <<caseVars, taskVars>>

\* The caller owns the case or holds an investigation of it, and the latest
\* investigation that was started is the caller's.
CloseCheck(r, u, o) ==
    LET started == Investigations({"IN_PROGRESS", "COMPLETED"}) IN
    /\ req[r].at = "idle"
    /\ Tier2(u, "close")
    /\ caseOwner = u \/ \E t \in Named("Investigate") : tasks[t].assignee = u
    /\ started # {} /\ tasks[Latest(started)].assignee = u
    /\ ViaUI => CloseOffered(u)
    /\ Goes(r, IF u \in Supervisors THEN "direct" ELSE "submit", u, Latest(started), {}, o)
    /\ UNCHANGED <<caseVars, taskVars>>

\* A confirmed case gets its SAR/STR filing task in a transaction of its own.
ThenSAR(r, o) ==
    IF o = "CONFIRMED" THEN Goes(r, "fileSAR", req[r].by, 0, {}, None) ELSE Done(r)

\* Mutant: only the status is written.
DirectClosureStatusOnly(r) ==
    LET t == req[r].task  o == req[r].arg IN
    /\ req[r].at = "direct"
    /\ WriteCase(r, o, caseOwner, finalOutcome)
    /\ WriteTask(r, t, "COMPLETED", tasks[t].assignee)
    /\ ThenSAR(r, o)

\* updateCaseStatusAndCompleteTask for a supervisor: closed at once.
DirectClosure(r) ==
    LET t == req[r].task  o == req[r].arg IN
    /\ req[r].at = "direct"
    /\ WriteCase(r, o, caseOwner, o)
    /\ WriteTask(r, t, "COMPLETED", tasks[t].assignee)
    /\ ThenSAR(r, o)

\* For an investigator the approval task is created first, on its own ...
SubmitClosure(r) ==
    /\ req[r].at = "submit"
    /\ InsertTask("ApproveClosure", "UNASSIGNED", NoUser)
    /\ Goes(r, "recommend", req[r].by, req[r].task, {}, req[r].arg)
    /\ UNCHANGED caseVars

\* ... then updateCaseStatusAndCompleteTask.
RecommendClosure(r) ==
    LET t == req[r].task IN
    /\ req[r].at = "recommend"
    /\ WriteCase(r, "PENDING_CLOSURE", caseOwner, req[r].arg)
    /\ WriteTask(r, t, "COMPLETED", tasks[t].assignee)
    /\ Done(r)

FileSAR(r) ==
    /\ req[r].at = "fileSAR"
    /\ InsertTask("SAR", "UNASSIGNED", NoUser)
    /\ Done(r)
    /\ UNCHANGED caseVars
-----------------------------------------------------------------------------
(***************************************************************************)
(* approveCaseClosure: an unassigned approval task and a complete case; the *)
(* outcome is the supervisor's choice.                                     *)
(***************************************************************************)
\* validateCaseCompleteness: a completed investigation, and a recommendation among
\* the latest comments.  The priority, the type and the creator it also asks for
\* never change here: two of the columns cannot be null, and a case without a type
\* is not made READY.
CaseComplete == Investigations({"COMPLETED"}) # {} /\ later < LatestComments

ApproveCheck(r, u, t, o) ==
    /\ req[r].at = "idle"
    /\ Tier2(u, "decideClosure")
    /\ t \in Having("ApproveClosure", {"UNASSIGNED"})
    /\ CaseComplete
    /\ Goes(r, "approve", u, t, {}, o)
    /\ UNCHANGED <<caseVars, taskVars>>

\* Mutant: the approval task is claimed, not completed.
ApproveClosureLeavesTask(r) ==
    /\ req[r].at = "approve"
    /\ WriteCase(r, req[r].arg, caseOwner, req[r].arg)
    /\ WriteTask(r, req[r].task, "ASSIGNED", req[r].by)
    /\ ThenSAR(r, req[r].arg)

ApproveClosure(r) ==
    /\ req[r].at = "approve"
    /\ WriteCase(r, req[r].arg, caseOwner, req[r].arg)
    /\ WriteTask(r, req[r].task, "COMPLETED", req[r].by)
    /\ ThenSAR(r, req[r].arg)
-----------------------------------------------------------------------------
(***************************************************************************)
(* validateApprovalPreconditions, for a rejection and for a return: the    *)
(* latest approval task, claimed for the caller when it is unassigned; all *)
(* other tasks, as read before the claim, must be completed.               *)
(***************************************************************************)
ApprovalTask == Latest(Named("ApproveClosure"))
OpenBeside(t) == {o \in TaskSet \ {t} : tasks[o].status # "COMPLETED"}
ClaimedBy(u, t) == tasks[t].status \in {"ASSIGNED", "IN_PROGRESS"} /\ tasks[t].assignee = u

ReviewCheck(r, u, returning) ==
    LET t == ApprovalTask  open == OpenBeside(t) IN
    /\ req[r].at = "idle"
    /\ Tier2(u, IF returning THEN "returnCase" ELSE "decideClosure")
    /\ caseStatus = "PENDING_CLOSURE"
    /\ Named("ApproveClosure") # {}
    /\ ViaUI => ~returning
    /\ \/ /\ tasks[t].status = "UNASSIGNED"
          /\ Goes(r, IF open # {} THEN "claimOnly" ELSE IF returning THEN "claimReturn" ELSE "claim",
                  u, t, {}, None)
       \/ /\ ClaimedBy(u, t) /\ open = {}
          /\ Goes(r, IF returning THEN "return" ELSE "findInvestigator", u, t, {}, None)
    /\ UNCHANGED <<caseVars, taskVars>>

\* claimTask.  When another task is open the request ends with an error.
ClaimApproval(r) ==
    LET Then(step) == Goes(r, step, req[r].by, req[r].task, {}, None) IN
    /\ \/ req[r].at = "claim" /\ Then("findInvestigator")
       \/ req[r].at = "claimReturn" /\ Then("return")
       \/ req[r].at = "claimOnly" /\ Done(r)
    /\ WriteTask(r, req[r].task, "ASSIGNED", req[r].by)
    /\ UNCHANGED caseVars

\* TASK_NAMES.APPROVE_CASE_CLOSURE_LOWER.  No code creates a task of this name.
ReturnedTask == "Approve case closure"

\* returnCaseForReview: the approval task it finds is completed and the case goes
\* on; when it finds none, the transaction rolls back.
ReturnCase(r) ==
    LET held == {t \in Named(ReturnedTask) : ClaimedBy(req[r].by, t)} IN
    /\ req[r].at = "return"
    /\ IF held = {} THEN UNCHANGED <<caseVars, taskVars>>
       ELSE \E t \in held : /\ WriteCase(r, "IN_PROGRESS", caseOwner, finalOutcome)
                            /\ WriteTask(r, t, "COMPLETED", req[r].by)
    /\ Done(r)

\* The completed investigation that was updated last names the person to go on;
\* without it the request ends with an error.
LastCompleted ==
    {w \in Investigations({"COMPLETED"}) :
        \A o \in Investigations({"COMPLETED"}) \ {w} : <<w, o>> \in newer}

FindInvestigator(r) ==
    LET found == {tasks[w].assignee : w \in LastCompleted} \ {NoUser} IN
    /\ req[r].at = "findInvestigator"
    /\ IF found = {} THEN Done(r)
       ELSE \E i \in found : Goes(r, "reject", req[r].by, 0, {}, i)
    /\ UNCHANGED <<caseVars, taskVars>>

\* rejectClosureTask: an approval task the caller still holds is completed, a new
\* investigation is opened for the investigator, the owner stays.
RejectClosure(r, t) ==
    /\ req[r].at = "reject"
    /\ t \in Named("ApproveClosure") /\ ClaimedBy(req[r].by, t)
    /\ Len(tasks) < MaxTasks
    /\ tasks' = Append([tasks EXCEPT ![t].status = "COMPLETED"],
                       NewTask("Investigate", "ASSIGNED", req[r].arg))
    /\ WriteCase(r, "IN_PROGRESS", caseOwner, finalOutcome)
    /\ Done(r)
    /\ UNCHANGED newer

\* The caller holds none any more: the transaction rolls back.
RejectNotFound(r) ==
    /\ req[r].at = "reject"
    /\ \A t \in Named("ApproveClosure") : ~ClaimedBy(req[r].by, t)
    /\ Done(r)
    /\ UNCHANGED <<caseVars, taskVars>>

\* addCommentFromController: reads the status, adds the comment.  The client has
\* a function for it and calls it nowhere.
AddComment(r, u) ==
    /\ req[r].at = "idle"
    /\ Tier2(u, "comment")
    /\ ~ViaUI
    /\ Commented
    /\ UNCHANGED <<taskVars, req>>

ClosureNext(r) ==
    \/ \E u \in Users :
          \/ \E o \in Verdicts : CloseCheck(r, u, o)
          \/ \E t \in TaskSet, o \in Verdicts : ApproveCheck(r, u, t, o)
          \/ \E returning \in BOOLEAN : ReviewCheck(r, u, returning)
          \/ AddComment(r, u)
    \/ DirectClosure(r) \/ SubmitClosure(r) \/ RecommendClosure(r) \/ FileSAR(r)
    \/ ApproveClosure(r) \/ ClaimApproval(r) \/ ReturnCase(r) \/ FindInvestigator(r)
    \/ \E t \in TaskSet : RejectClosure(r, t)
    \/ RejectNotFound(r)
=============================================================================

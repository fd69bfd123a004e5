--------------------------- MODULE CaseReopening ----------------------------
(***************************************************************************)
(* Reopen a closed case; approve or reject a reopening an investigator     *)
(* asked for.  CaseReopeningService.                                       *)
(***************************************************************************)
EXTENDS CaseStore

\* The client offers it for every closed status but AUTO_REFUTED, and for a
\* confirmed case once its latest SAR/STR filing is completed.
ReopenOffered ==
    /\ caseStatus # "AUTO_REFUTED"
    /\ caseStatus = "CONFIRMED" =>
          Named("SAR") # {} /\ tasks[Latest(Named("SAR"))].status = "COMPLETED"

\* The status is read again inside the transaction, without a lock: this is
\* that last read.
ReopenCheck(r, u) ==
    /\ req[r].at = "idle"
    /\ Tier2(u, "reopen")
    /\ ViaUI => ReopenOffered
    /\ Goes(r, IF u \in Supervisors THEN "reopen" ELSE "requestReopen", u, 0, {}, None)
    /\ UNCHANGED <<caseVars, taskVars>>

ReopenCase(r) ==
    /\ req[r].at = "reopen"
    /\ WriteCase(r, "READY", caseOwner, finalOutcome)
    /\ InsertTask("Investigate", "UNASSIGNED", NoUser)
    /\ Done(r)

\* Mutant: the approval task of an earlier request is taken for this one.
RequestReopeningOnce(r) ==
    /\ req[r].at = "requestReopen"
    /\ WriteCase(r, "PENDING_REOPENING", caseOwner, finalOutcome)
    /\ IF Named("ApproveReopening") = {} THEN InsertTask("ApproveReopening", "UNASSIGNED", NoUser)
       ELSE UNCHANGED taskVars
    /\ Done(r)

\* The status and the approval task in one transaction, unlike SubmitClosure.
RequestReopening(r) ==
    /\ req[r].at = "requestReopen"
    /\ WriteCase(r, "PENDING_REOPENING", caseOwner, finalOutcome)
    /\ InsertTask("ApproveReopening", "UNASSIGNED", NoUser)
    /\ Done(r)
-----------------------------------------------------------------------------
ApproveReopeningCheck(r, u, t) ==
    /\ req[r].at = "idle"
    /\ Tier2(u, "decideReopening")
    /\ t \in Having("ApproveReopening", {"UNASSIGNED"})
    /\ Goes(r, "insertReopen", u, t, {}, None)
    /\ UNCHANGED <<caseVars, taskVars>>

\* The transaction updates the case and the approval task, and before it
\* commits createTask, which is not given the transaction, inserts and commits
\* the investigation.
InsertReopenedTask(r) ==
    /\ req[r].at = "insertReopen"
    /\ \A q \in Requests : ~Holds(q)
    /\ InsertTask("Investigate", "UNASSIGNED", NoUser)
    /\ Goes(r, "approveReopen", req[r].by, req[r].task, {}, None)
    /\ UNCHANGED caseVars

ApproveReopening(r) ==
    /\ req[r].at = "approveReopen"
    /\ WriteCase(r, "READY", caseOwner, finalOutcome)
    /\ WriteTask(r, req[r].task, "COMPLETED", req[r].by)
    /\ Done(r)
-----------------------------------------------------------------------------
\* Mutant: no fallback for a missing outcome.
RejectReopeningCheckNull(r, u, t) ==
    /\ req[r].at = "idle"
    /\ Tier2(u, "decideReopening")
    /\ t \in Having("ApproveReopening", {"UNASSIGNED"})
    /\ Goes(r, "rejectReopen", u, t, {}, finalOutcome)
    /\ UNCHANGED <<caseVars, taskVars>>

\* Mutant: always the fallback.
RejectReopeningCheckFallback(r, u, t) ==
    /\ req[r].at = "idle"
    /\ Tier2(u, "decideReopening")
    /\ t \in Having("ApproveReopening", {"UNASSIGNED"})
    /\ Goes(r, "rejectReopen", u, t, {}, "INCONCLUSIVE")
    /\ UNCHANGED <<caseVars, taskVars>>

\* The status to go back to is final_outcome, which an auto-closed case does not
\* have; it is read before the transaction, as is the approval task.
RejectReopeningCheck(r, u, t) ==
    /\ req[r].at = "idle"
    /\ Tier2(u, "decideReopening")
    /\ t \in Having("ApproveReopening", {"UNASSIGNED"})
    /\ Goes(r, "rejectReopen", u, t, {},
            IF finalOutcome = None THEN "INCONCLUSIVE" ELSE finalOutcome)
    /\ UNCHANGED <<caseVars, taskVars>>

\* Mutant: the restored status becomes the outcome.
RejectReopeningDecides(r) ==
    /\ req[r].at = "rejectReopen"
    /\ WriteCase(r, req[r].arg, caseOwner, req[r].arg)
    /\ WriteTask(r, req[r].task, "COMPLETED", req[r].by)
    /\ Done(r)

RejectReopening(r) ==
    /\ req[r].at = "rejectReopen"
    /\ WriteCase(r, req[r].arg, caseOwner, finalOutcome)
    /\ WriteTask(r, req[r].task, "COMPLETED", req[r].by)
    /\ Done(r)

ReopeningNext(r) ==
    \/ \E u \in Users :
          \/ ReopenCheck(r, u)
          \/ \E t \in TaskSet : ApproveReopeningCheck(r, u, t) \/ RejectReopeningCheck(r, u, t)
    \/ ReopenCase(r) \/ RequestReopening(r)
    \/ InsertReopenedTask(r) \/ ApproveReopening(r) \/ RejectReopening(r)
=============================================================================

--------------------------- MODULE CaseSuspension ---------------------------
(***************************************************************************)
(* Suspend and resume a case.  CaseService opens a transaction around both *)
(* but passes it to none of the calls inside: the case update and every    *)
(* task update commit on their own, in any order among the tasks.          *)
(***************************************************************************)
EXTENDS TaskWork

\* The client lets the user pick investigations in progress; the endpoint takes
\* any tasks of the case.
SuspendCheck(r, u, T) ==
    /\ req[r].at = "idle"
    /\ Tier2(u, "suspend")
    /\ u \in Supervisors \/ caseOwner = u
    /\ T # {}
    /\ ViaUI => T \subseteq Investigations({"IN_PROGRESS"})
    /\ Goes(r, "suspend", u, 0, T, None)
    /\ UNCHANGED <<caseVars, taskVars>>

SuspendCase(r) ==
    /\ req[r].at = "suspend"
    /\ WriteCase(r, "SUSPENDED", caseOwner, finalOutcome)
    /\ Goes(r, "block", req[r].by, 0, req[r].todo, None)
    /\ UNCHANGED taskVars

\* The rest of the request once the update of task t has committed.
Rest(r, t) ==
    IF req[r].todo = {t} THEN Done(r)
    ELSE Goes(r, req[r].at, req[r].by, 0, req[r].todo \ {t}, None)

\* When all tasks are updated the reason becomes a comment.
Comments(r, t) == IF req[r].todo = {t} THEN Commented ELSE UNCHANGED caseVars

\* Mutant: whoever the task has now keeps it.
BlockTaskKeepsAssignee(r, t) ==
    /\ req[r].at = "block"
    /\ WriteTask(r, t, "BLOCKED", tasks[t].assignee)
    /\ Rest(r, t)
    /\ Comments(r, t)

\* updateTask makes the caller the assignee of the task it blocks.
BlockTask(r, t) ==
    /\ req[r].at = "block"
    /\ WriteTask(r, t, "BLOCKED", req[r].by)
    /\ Rest(r, t)
    /\ Comments(r, t)

ResumeCheck(r, u) ==
    LET blocked == Investigations({"BLOCKED"}) IN
    /\ req[r].at = "idle"
    /\ Tier2(u, "resume")
    /\ caseOwner = u
    /\ blocked # {}
    /\ Goes(r, "resume", u, 0, blocked, None)
    /\ UNCHANGED <<caseVars, taskVars>>

ResumeCase(r) ==
    /\ req[r].at = "resume"
    /\ WriteCase(r, "IN_PROGRESS", caseOwner, finalOutcome)
    /\ Goes(r, "unblock", req[r].by, 0, req[r].todo, None)
    /\ UNCHANGED taskVars

\* updateTask again: it would promote a case that meanwhile left IN_PROGRESS.
UnblockTask(r, t) ==
    /\ req[r].at = "unblock"
    /\ WriteTask(r, t, "IN_PROGRESS", req[r].by)
    /\ IF Promotes(t, "IN_PROGRESS")
       THEN WriteCase(r, "IN_PROGRESS", req[r].by, finalOutcome)
       ELSE Comments(r, t)
    /\ Rest(r, t)

SuspensionNext(r) ==
    \/ \E u \in Users :
          \/ \E T \in SUBSET TaskSet : SuspendCheck(r, u, T)
          \/ ResumeCheck(r, u)
    \/ SuspendCase(r) \/ ResumeCase(r)
    \/ \E t \in req[r].todo : BlockTask(r, t) \/ UnblockTask(r, t)
=============================================================================

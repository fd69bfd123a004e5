---------------------------- MODULE CaseCreation ----------------------------
(***************************************************************************)
(* Cases made by people: manual creation, drafts, their completion,        *)
(* approval, rejection and abandonment.  CaseCreationService,              *)
(* CaseCreationApprovalService and the draft handlers of CaseService.      *)
(***************************************************************************)
EXTENDS IntakeStore

\* The dialog lists alerts that look suspicious to nobody yet: NALT, without a
\* case and without an investigation group.
NaltOffered(a) == alerts[a].kind = "NALT" /\ alerts[a].case = 0 /\ a \notin groups

\* What manualCaseCreation and saveCaseAsDraft check.
MayFile(a) == alerts[a].kind = "NALT" /\ alerts[a].case = 0

(***************************************************************************)
(* manualCaseCreation.  A supervisor's case is READY at once, and a        *)
(* FRAUD_AND_AML one is two cases; another's waits for approval.           *)
(***************************************************************************)
Splits(role, type) == role = "SUPERVISOR" /\ type = "FRAUD_AND_AML"

ManualCheck(r, role, a, type) ==
    /\ MayFile(a)
    /\ ViaUI => NaltOffered(a)
    /\ Starts(r, [Idle EXCEPT !.at = IF type = "FRAUD_AND_AML" THEN "group" ELSE "primary",
                              !.role = role, !.alert = a, !.type = type])
    /\ UNCHANGED rows

GroupUpsert(r) ==
    /\ req[r].at = "group"
    /\ groups' = groups \union {req[r].alert}
    /\ Continues(r, "primary")
    /\ UNCHANGED <<alerts, cases, tasks>>

ManualStatus(role) == IF role = "SUPERVISOR" THEN "READY" ELSE "PENDING"
GroupOf(q) == IF q.type = "FRAUD_AND_AML" THEN q.alert ELSE NoAlert

CreatePrimary(r) ==
    LET q == req[r]  split == Splits(q.role, q.type) IN
    /\ q.at = "primary"
    /\ AddCase(NewCase(ManualStatus(q.role), IF split THEN "FRAUD" ELSE q.type, GroupOf(q)), <<>>)
    /\ Goes(r, [q EXCEPT !.at = IF split THEN "sibling" ELSE "link", !.case = Len(cases) + 1])
    /\ UNCHANGED <<alerts, groups>>

CreateSibling(r) ==
    /\ req[r].at = "sibling"
    /\ AddCase(NewCase(ManualStatus(req[r].role), "AML", GroupOf(req[r])), <<>>)
    /\ Goes(r, [req[r] EXCEPT !.at = "link", !.kin = <<Len(cases) + 1>>])
    /\ UNCHANGED <<alerts, groups>>

\* Mutant: the alert is never linked.
LinkAlertNot(r) ==
    LET q == req[r]
        made == {q.case} \union {q.kin[i] : i \in 1..Len(q.kin)}
        task == Kept(IF q.role = "SUPERVISOR" THEN "Investigate" ELSE "Approve")
    IN  /\ q.at = "link"
        /\ tasks' = [c \in CaseIds |-> IF c \in made THEN Append(tasks[c], task) ELSE tasks[c]]
        /\ Done(r)
        /\ UNCHANGED <<alerts, groups, cases>>

\* One transaction: the alert's link (left alone when there is a group), and a
\* task for each case.
LinkAlert(r) ==
    LET q == req[r]
        made == {q.case} \union {q.kin[i] : i \in 1..Len(q.kin)}
        task == Kept(IF q.role = "SUPERVISOR" THEN "Investigate" ELSE "Approve")
    IN  /\ q.at = "link"
        /\ FreeAlert(r, q.alert)
        /\ alerts' = IF q.type = "FRAUD_AND_AML" THEN alerts
                     ELSE [alerts EXCEPT ![q.alert].case = q.case]
        /\ tasks' = [c \in CaseIds |-> IF c \in made THEN Append(tasks[c], task) ELSE tasks[c]]
        /\ Done(r)
        /\ UNCHANGED <<groups, cases>>

(***************************************************************************)
(* saveCaseAsDraft: the case and the alert's link are one transaction, the *)
(* creator's task another.                                                 *)
(***************************************************************************)
DraftCheck(r, role, a, type) ==
    /\ MayFile(a)
    /\ ViaUI => NaltOffered(a)
    /\ Starts(r, [Idle EXCEPT !.at = "draft", !.role = role, !.alert = a, !.type = type])
    /\ UNCHANGED rows

CreateDraft(r) ==
    LET q == req[r] IN
    /\ q.at = "draft"
    /\ FreeAlert(r, q.alert)
    /\ AddCase(NewCase("DRAFT", q.type, NoAlert), <<>>)
    /\ alerts' = [alerts EXCEPT ![q.alert].case = Len(cases) + 1]
    /\ Goes(r, [q EXCEPT !.at = "insert", !.case = Len(cases) + 1, !.arg = "Complete"])
    /\ UNCHANGED groups
-----------------------------------------------------------------------------
(***************************************************************************)
(* completeCaseCreation.  Its transaction makes the group of a case to be  *)
(* split, updates the case, then reads the tasks, then completes one in a  *)
(* transaction of its own, which stays when the outer one rolls back.      *)
(***************************************************************************)
CompleteCheck(r, role, c, type) ==
    /\ cases[c].status = "DRAFT"
    /\ Starts(r, [Idle EXCEPT !.at = "completeLock", !.role = role, !.case = c, !.type = type])
    /\ UNCHANGED rows

\* A supervisor's FRAUD_AND_AML case is to be split: its group needs the alert.
\* The first update takes the row; the tasks are read, and an already completed
\* one rolls everything back.
CompleteLock(r) ==
    LET q == req[r]  c == q.case
        groupsFor == IF Splits(q.role, q.type) THEN AlertsOf(c) ELSE {NoAlert}
    IN  /\ q.at = "completeLock"
        /\ FreeCase(r, c)
        /\ IF NewestIsOpen(c, "Complete") /\ groupsFor # {}
           THEN \E a \in groupsFor :
                   Goes(r, [q EXCEPT !.at = "completeTask", !.task = Newest(c, "Complete"), !.alert = a])
           ELSE Done(r)
        /\ UNCHANGED rows

CompleteTask(r) ==
    /\ req[r].at = "completeTask"
    /\ FinishTask(r, req[r].case, req[r].task)
    /\ IF req[r].arg = "expired" THEN Done(r) ELSE Continues(r, "completeCommit")
    /\ UNCHANGED <<alerts, groups, cases>>

\* The case to be split is; any other is linked to its alert, and one without an
\* alert makes the lookup throw.
CompleteCommit(r) ==
    LET q == req[r]  c == q.case
        toLink == IF q.alert = NoAlert THEN AlertsOf(c) ELSE {q.alert}
    IN  /\ q.at = "completeCommit"
        /\ IF toLink = {} THEN Done(r) /\ UNCHANGED rows
           ELSE \E a \in toLink :
                  /\ IF Splits(q.role, q.type)
                     THEN Split(r, c, a, tasks, <<Finished("Complete"), Kept("Investigate")>>)
                     ELSE /\ FreeAlert(r, a)
                          /\ cases' = [cases EXCEPT ![c].status = ManualStatus(q.role),
                                                    ![c].type = q.type]
                          /\ alerts' = [alerts EXCEPT ![a].case = c]
                          /\ UNCHANGED <<groups, tasks>>
                  /\ ThenInsert(r, IF q.role = "SUPERVISOR" THEN "Investigate" ELSE "Approve")

(***************************************************************************)
(* completeCase, behind PUT /cases/:id/complete, which the client does not *)
(* call and the permission matrix leaves to supervisors.                   *)
(***************************************************************************)
LegacyCheck(r, c) ==
    /\ ~ViaUI
    /\ cases[c].status = "DRAFT" /\ cases[c].type # NoType
    /\ Starts(r, [Idle EXCEPT !.at = "legacyReady", !.role = "SUPERVISOR", !.case = c])
    /\ UNCHANGED rows

LegacyReady(r) ==
    /\ req[r].at = "legacyReady"
    /\ SetStatus(r, req[r].case, "READY")
    /\ Continues(r, "legacyTask")
    /\ UNCHANGED <<alerts, groups, tasks>>

LegacyTask(r) ==
    LET c == req[r].case IN
    /\ req[r].at = "legacyTask"
    /\ IF NewestIsOpen(c, "Complete")
       THEN FinishTask(r, c, Newest(c, "Complete")) /\ ThenInsert(r, "Investigate")
       ELSE UNCHANGED tasks /\ Done(r)
    /\ UNCHANGED <<alerts, groups, cases>>
-----------------------------------------------------------------------------
(***************************************************************************)
(* abandonCase: two commits, although they are called inside a third.      *)
(***************************************************************************)
AbandonCheck(r, role, c) ==
    /\ cases[c].status = "DRAFT" /\ NewestIsOpen(c, "Complete")
    /\ Starts(r, [Idle EXCEPT !.at = "abandon", !.role = role, !.case = c,
                              !.task = Newest(c, "Complete")])
    /\ UNCHANGED rows

AbandonCase(r) ==
    /\ req[r].at = "abandon"
    /\ SetStatus(r, req[r].case, "ABANDONED")
    /\ Continues(r, "abandonTask")
    /\ UNCHANGED <<alerts, groups, tasks>>

AbandonTask(r) ==
    /\ req[r].at = "abandonTask"
    /\ FinishTask(r, req[r].case, req[r].task)
    /\ Done(r)
    /\ UNCHANGED <<alerts, groups, cases>>
-----------------------------------------------------------------------------
(***************************************************************************)
(* approveCaseCreation and rejectCaseCreation, which check the same.       *)
(***************************************************************************)
DecisionCheck(r, c, t, step) ==
    /\ cases[c].status = "PENDING" /\ cases[c].type # NoType
    /\ Starts(r, [Idle EXCEPT !.at = step, !.role = "SUPERVISOR", !.case = c, !.task = t])
    /\ UNCHANGED rows

\* One transaction.  The case it has just updated says whether it must be split:
\* a second approval finds a FRAUD case.
Approve(r) ==
    LET c == req[r].case  t == req[r].task IN
    /\ req[r].at = "approve"
    /\ IF cases[c].type # "FRAUD_AND_AML"
       THEN /\ SetStatus(r, c, "READY")
            /\ FinishTask(r, c, t)
            /\ ThenInsert(r, "Investigate")
            /\ UNCHANGED <<alerts, groups>>
       ELSE IF AlertsOf(c) = {} THEN FreeCase(r, c) /\ Done(r) /\ UNCHANGED rows
       ELSE \E a \in AlertsOf(c) :
              /\ Split(r, c, a,
                       [tasks EXCEPT ![c] = Append([@ EXCEPT ![t].open = FALSE], Kept("Investigate"))],
                       <<Finished("Complete"), Finished("Approve"), Kept("Investigate")>>)
              /\ Done(r)

RejectCase(r) ==
    /\ req[r].at = "reject"
    /\ SetStatus(r, req[r].case, "DRAFT")
    /\ Continues(r, "rejectTask")
    /\ UNCHANGED <<alerts, groups, tasks>>

\* Mutant: nobody is asked to revise the draft.
RejectTaskOnly(r) ==
    /\ req[r].at = "rejectTask"
    /\ FinishTask(r, req[r].case, req[r].task)
    /\ Done(r)
    /\ UNCHANGED <<alerts, groups, cases>>

RejectTask(r) ==
    /\ req[r].at = "rejectTask"
    /\ FinishTask(r, req[r].case, req[r].task)
    /\ ThenInsert(r, "Complete")
    /\ UNCHANGED <<alerts, groups, cases>>
-----------------------------------------------------------------------------
CreationCalls(r) ==
    \/ \E role \in Roles, type \in CaseTypes :
          \/ \E a \in Alerts : ManualCheck(r, role, a, type) \/ DraftCheck(r, role, a, type)
          \/ \E c \in CaseIds : CompleteCheck(r, role, c, type)
    \/ \E c \in CaseIds :
          \/ LegacyCheck(r, c)
          \/ \E role \in Roles : AbandonCheck(r, role, c)
          \/ \E t \in OpenNamed(c, "Approve"), step \in {"approve", "reject"} :
                DecisionCheck(r, c, t, step)

CreationSteps(r) ==
    \/ GroupUpsert(r) \/ CreatePrimary(r) \/ CreateSibling(r) \/ LinkAlert(r)
    \/ CreateDraft(r)
    \/ CompleteLock(r) \/ CompleteTask(r) \/ CompleteCommit(r)
    \/ LegacyReady(r) \/ LegacyTask(r)
    \/ AbandonCase(r) \/ AbandonTask(r)
    \/ Approve(r) \/ RejectCase(r) \/ RejectTask(r)
=============================================================================

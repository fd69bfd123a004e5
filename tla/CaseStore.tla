------------------------------ MODULE CaseStore ------------------------------
(***************************************************************************)
(* One case of the case-management backend: its row in table `cases`, its *)
(* rows in table `tasks`, and the HTTP requests in flight that work on it.*)
(*                                                                         *)
(* A handler of the backend reads the case and its tasks, decides from     *)
(* that snapshot, and writes later, in one or more database transactions   *)
(* that neither lock what was read nor check it again.  A request is       *)
(* therefore a record [at, by, task, todo, arg]: `at` names the write it   *)
(* still owes, the other fields hold what it has read or been given.       *)
(* Every handler below is a "Check" action (all its reads and guards) and  *)
(* one action per committed transaction; Fail is a request that is lost    *)
(* between two of them.                                                    *)
(***************************************************************************)
EXTENDS Integers, Sequences, FiniteSets

CONSTANTS
    Investigators,       \* users whose role is CMS_INVESTIGATOR
    Supervisors,         \* users whose role is CMS_SUPERVISOR
    ComplianceOfficers,  \* users whose role is CMS_COMPLIANCE_OFFICER
    NoUser,              \* a null user column
    Requests,            \* request slots: how many requests can overlap
    Verdicts,            \* the outcomes users recommend or decide
    MaxTasks,            \* bound on the tasks of the case
    ViaUI,               \* TRUE: calls are made only when the web client offers them
    MayFail              \* TRUE: a request may be lost between two transactions

Users == Investigators \union Supervisors \union ComplianceOfficers

ASSUME UsersAssumption ==
    /\ NoUser \notin Users
    /\ Investigators \intersect Supervisors = {}
    /\ Investigators \intersect ComplianceOfficers = {}
    /\ Supervisors \intersect ComplianceOfficers = {}

ASSUME BoundsAssumption ==
    /\ MaxTasks \in Nat \ {0}
    /\ ViaUI \in BOOLEAN
    /\ MayFail \in BOOLEAN

VARIABLES
    caseStatus,    \* cases.status
    caseOwner,     \* cases.case_owner_user_id
    finalOutcome,  \* cases.final_outcome
    later,         \* the comments since the recommendation of a pending closure
    tasks,         \* the rows of `tasks`, in the order of created_at
    newer,         \* pairs of completed investigations, the later updated_at first
    req            \* the requests in flight

rowVars == <<caseStatus, caseOwner, finalOutcome>>
caseVars == <<caseStatus, caseOwner, finalOutcome, later>>
taskVars == <<tasks, newer>>
vars == <<caseStatus, caseOwner, finalOutcome, later, tasks, newer, req>>
-----------------------------------------------------------------------------
(***************************************************************************)
(* Statuses, names and rows.                                               *)
(***************************************************************************)
Outcomes == {"REFUTED", "CONFIRMED", "INCONCLUSIVE"}       \* 81, 82, 83
AutoClosed == {"AUTO_CONFIRMED", "AUTO_REFUTED"}           \* 71, 72
Closed == Outcomes \union AutoClosed
ASSUME VerdictsAssumption == Verdicts \subseteq Outcomes
CaseStatuses ==
    {"READY", "ASSIGNED", "IN_PROGRESS", "SUSPENDED", "PENDING_CLOSURE",
     "PENDING_REOPENING"} \union Closed
None == "NONE"                                             \* a null final_outcome

TaskStatuses == {"UNASSIGNED", "ASSIGNED", "IN_PROGRESS", "BLOCKED", "COMPLETED"}
TaskNames == {"Investigate", "ApproveClosure", "ApproveReopening", "SAR"}

TaskIds == 1..MaxTasks
Task == [name: TaskNames, status: TaskStatuses, assignee: Users \union {NoUser}]

NewTask(n, s, u) == [name |-> n, status |-> s, assignee |-> u]
TaskSet == 1..Len(tasks)
Named(n) == {t \in TaskSet : tasks[t].name = n}
Having(n, S) == {t \in Named(n) : tasks[t].status \in S}
Investigations(S) == Having("Investigate", S)
Latest(T) == CHOOSE t \in T : \A o \in T : o <= t
-----------------------------------------------------------------------------
(***************************************************************************)
(* Who may call what: the tier-2 rows of the permission matrix (the case   *)
(* statuses in which a role may call an endpoint).                         *)
(***************************************************************************)
Desk == {"READY", "ASSIGNED", "IN_PROGRESS"}
Active == CaseStatuses \ Closed

InvestigatorTier2(endpoint) ==
    CASE endpoint = "task"     -> Desk
      [] endpoint = "complete" -> {"IN_PROGRESS"}
      [] endpoint = "suspend"  -> {"IN_PROGRESS"}
      [] endpoint = "resume"   -> {"SUSPENDED"}
      [] endpoint = "close"    -> {"IN_PROGRESS"}
      [] endpoint = "reopen"   -> Closed
      [] endpoint = "comment"  -> Active
      [] OTHER                 -> {}

SupervisorTier2(endpoint) ==
    CASE endpoint = "task"           -> Desk \union {"PENDING_CLOSURE", "PENDING_REOPENING"}
      [] endpoint = "decideClosure"  -> {"PENDING_CLOSURE"}
      [] endpoint = "returnCase"     -> {"IN_PROGRESS", "PENDING_CLOSURE"}
      [] endpoint = "decideReopening" -> {"PENDING_REOPENING"}
      [] OTHER                       -> InvestigatorTier2(endpoint)

ComplianceTier2(endpoint) ==
    IF endpoint \in {"task", "complete", "comment"} THEN {"CONFIRMED"} ELSE {}

Tier2(u, endpoint) ==
    caseStatus \in IF u \in Supervisors THEN SupervisorTier2(endpoint)
                   ELSE IF u \in Investigators THEN InvestigatorTier2(endpoint)
                   ELSE ComplianceTier2(endpoint)
-----------------------------------------------------------------------------
(***************************************************************************)
(* Requests in flight.                                                     *)
(***************************************************************************)
Steps ==
    {"assign", "unassign", "patch", "promote", "complete",
     "suspend", "block", "resume", "unblock",
     "submit", "recommend", "direct", "approve", "fileSAR",
     "claim", "claimOnly", "claimReturn", "return", "findInvestigator",
     "reject",
     "reopen", "requestReopen", "insertReopen", "approveReopen", "rejectReopen"}

Args == CaseStatuses \union TaskStatuses \union Users \union {None}

Request == [at: Steps \union {"idle"}, by: Users \union {NoUser},
            task: TaskIds \union {0}, todo: SUBSET TaskIds, arg: Args]

Idle == [at |-> "idle", by |-> NoUser, task |-> 0, todo |-> {}, arg |-> None]
Owes(step, u, t, todo, arg) ==
    [at |-> step, by |-> u, task |-> t, todo |-> todo, arg |-> arg]

\* Request r starts, or goes on, and owes `step`.
Goes(r, step, u, t, todo, arg) == req' = [req EXCEPT ![r] = Owes(step, u, t, todo, arg)]
Done(r) == req' = [req EXCEPT ![r] = Idle]

-----------------------------------------------------------------------------
(***************************************************************************)
(* Writes.                                                                 *)
(***************************************************************************)
\* approveCaseReopening has updated the case row and its approval task but not
\* committed: whoever writes one of these rows waits.
Holds(q) == req[q].at = "approveReopen"

\* Mutant: no row lock.
WriteCaseUnlocked(r, s, u, o) ==
    caseStatus' = s /\ caseOwner' = u /\ finalOutcome' = o /\ later' = 0

\* Comments are counted while a closure is pending, from the one that recommends
\* it and is written with that status; nobody looks at their number otherwise.
WriteCase(r, s, u, o) ==
    /\ \A q \in Requests \ {r} : ~Holds(q)
    /\ caseStatus' = s /\ caseOwner' = u /\ finalOutcome' = o /\ later' = 0

\* How many comments an approval looks at.
LatestComments == 5

\* A comment on the case.  One that speaks of a recommended outcome itself counts
\* as a recommendation.
Commented ==
    /\ later' \in IF caseStatus # "PENDING_CLOSURE" THEN {later}
                  ELSE {0, IF later < LatestComments THEN later + 1 ELSE LatestComments}
    /\ UNCHANGED rowVars

WriteTask(r, t, s, u) ==
    LET done == IF tasks[t].name = "Investigate" /\ s = "COMPLETED"
                THEN Investigations({"COMPLETED"}) \ {t} ELSE {}
    IN  /\ \A q \in Requests \ {r} : Holds(q) => req[q].task # t
        /\ tasks' = [tasks EXCEPT ![t] = NewTask(tasks[t].name, s, u)]
        /\ newer' = {p \in newer : p[1] # t /\ p[2] # t} \union ({t} \X done)

InsertTask(n, s, u) ==
    /\ Len(tasks) < MaxTasks
    /\ tasks' = Append(tasks, NewTask(n, s, u))
    /\ UNCHANGED newer

\* A request is lost between two transactions: the process dies, the database
\* or Flowable answers with an error, the client's connection is gone.
Fail(r) ==
    /\ MayFail
    /\ req[r].at # "idle"
    /\ Done(r)
    /\ UNCHANGED <<caseVars, taskVars>>

StoreTypeOK ==
    /\ caseStatus \in CaseStatuses
    /\ caseOwner \in Users \union {NoUser}
    /\ finalOutcome \in Outcomes \union {None}
    /\ later \in 0..LatestComments
    /\ tasks \in Seq(Task)
    /\ Len(tasks) <= MaxTasks
    /\ newer \subseteq TaskIds \X TaskIds
    /\ req \in [Requests -> Request]
=============================================================================

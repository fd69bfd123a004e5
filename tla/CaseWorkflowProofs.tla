------------------------- MODULE CaseWorkflowProofs -------------------------
(***************************************************************************)
(* Theorems of CaseWorkflow, for any staff, any number of requests in      *)
(* flight, any bound on the tasks, with or without the web client and with *)
(* or without lost requests.                                               *)
(*                                                                         *)
(* TypeOK, OutcomeRecorded and, of the web client's calls,                 *)
(* HeldTasksHaveHolder are inductive together: the last two follow from    *)
(* what a request in flight carries (RequestOK).                           *)
(* The proof looks at every handler's write in three parts, the case row,  *)
(* the task rows and the request, which the lemmas below settle once.      *)
(*                                                                         *)
(* The second part is about one request at a time (OneAtATime): the owner  *)
(* of a case in work, the outcome of a closed one, what the web client     *)
(* promises to its users, and the lifecycle of CaseLifecycle.              *)
(***************************************************************************)
EXTENDS CaseWorkflow, TLAPS, SequenceTheorems, WellFoundedInduction

IInv == TypeOK /\ OutcomeRecorded /\ (ViaUI => HeldTasksHaveHolder)

-----------------------------------------------------------------------------
(***************************************************************************)
(* Latest.                                                                 *)
(***************************************************************************)
\* Among some of the tasks there is a latest one: Latest(T), which the handlers
\* take from a query ordered by created_at, is one of them.
LEMMA LatestIsOne ==
    ASSUME NEW n \in Nat, NEW T, T \subseteq 1..n, T # {}
    PROVE  Latest(T) \in T /\ \A o \in T : o <= Latest(T)
<1> DEFINE Back == {n - t : t \in T}
<1>1. Back \subseteq Nat /\ Back # {}
    <2>1. \A t \in T : n - t \in Nat
        OBVIOUS
    <2> QED
        BY <2>1
<1>2. PICK x \in Back : \A y \in Back : ~(<<y, x>> \in OpToRel(<, Nat))
    BY <1>1, NatLessThanWellFounded, WFMin
<1>3. \A y \in Back : ~(y < x)
    BY <1>1, <1>2 DEF OpToRel
<1>4. PICK t \in T : x = n - t
    OBVIOUS
<1>5. \A o \in T : o <= t
    <2>1. SUFFICES ASSUME NEW o \in T PROVE o <= t
        OBVIOUS
    <2>2. n - o \in Back
        OBVIOUS
    <2> QED
        BY <1>3, <1>4, <2>2
<1> QED
    BY <1>5 DEF Latest
-----------------------------------------------------------------------------
(***************************************************************************)
(* What a step may do to the case row and to the task rows.                *)
(***************************************************************************)
\* Task t has the assignee its status calls for.
HasHolder(t) ==
    ViaUI /\ t.status \in {"ASSIGNED", "IN_PROGRESS", "BLOCKED"} => t.assignee # NoUser

TasksGrow ==
    /\ tasks' \in Seq(Task)
    /\ Len(tasks) <= Len(tasks') /\ Len(tasks') <= MaxTasks
    /\ newer' \subseteq TaskIds \X TaskIds
    /\ \A t \in 1..Len(tasks') : HasHolder(tasks'[t])

CaseRowOK(s, u, o) ==
    /\ s \in CaseStatuses
    /\ u \in Users \union {NoUser}
    /\ o \in Outcomes \union {None}
    /\ finalOutcome # None => o # None
    /\ s \in {"PENDING_CLOSURE", "REFUTED", "CONFIRMED"} => o # None
    /\ ViaUI /\ s = "ASSIGNED" => u # NoUser

CaseMoves == CaseRowOK(caseStatus', caseOwner', finalOutcome') /\ later' \in 0..LatestComments

\* Writing the case row with such values.
LEMMA CaseWritten ==
    ASSUME NEW r \in Requests, NEW s, NEW u, NEW o, CaseRowOK(s, u, o), WriteCase(r, s, u, o)
    PROVE  CaseMoves
BY DEF WriteCase, CaseMoves, LatestComments

\* Leaving the case row alone.
LEMMA CaseUnchanged ==
    ASSUME IInv, UNCHANGED caseVars
    PROVE  CaseMoves
BY DEF IInv, TypeOK, StoreTypeOK, OutcomeRecorded, HeldTasksHaveHolder, CaseMoves, CaseRowOK, caseVars

\* A comment.
LEMMA CaseCommented ==
    ASSUME IInv, Commented
    PROVE  CaseMoves
BY DEF IInv, TypeOK, StoreTypeOK, OutcomeRecorded, HeldTasksHaveHolder, CaseMoves, CaseRowOK,
       Commented, rowVars, LatestComments

\* Leaving the task rows alone.
LEMMA TasksUnchanged ==
    ASSUME IInv, UNCHANGED taskVars
    PROVE  TasksGrow
<1> USE DEF IInv, TypeOK, StoreTypeOK, HeldTasksHaveHolder, HasHolder, TasksGrow, TaskSet, taskVars
<1>1. Len(tasks) \in Nat
    BY LenProperties
<1> QED
    BY <1>1

\* Updating the status and the assignee of one task.
LEMMA TaskWritten ==
    ASSUME IInv, NEW r \in Requests, NEW t \in TaskSet,
           NEW s \in TaskStatuses, NEW u \in Users \union {NoUser},
           ViaUI /\ s \in {"ASSIGNED", "IN_PROGRESS", "BLOCKED"} => u # NoUser,
           WriteTask(r, t, s, u)
    PROVE  TasksGrow
<1> DEFINE new == NewTask(tasks[t].name, s, u)
<1>1. tasks \in Seq(Task) /\ Len(tasks) <= MaxTasks /\ newer \subseteq TaskIds \X TaskIds
    BY DEF IInv, TypeOK, StoreTypeOK
<1>2. Len(tasks) \in Nat /\ t \in 1..Len(tasks) /\ MaxTasks \in Nat
    BY <1>1, LenProperties, BoundsAssumption DEF TaskSet
<1>3. \A o \in 1..Len(tasks) : tasks[o] \in Task /\ HasHolder(tasks[o])
    BY <1>1, ElementOfSeq DEF IInv, HeldTasksHaveHolder, HasHolder, TaskSet
<1>4. new \in Task /\ HasHolder(new)
    BY <1>2, <1>3 DEF NewTask, Task, HasHolder
<1>5. tasks' = [tasks EXCEPT ![t] = new]
    BY DEF WriteTask
<1>6. /\ tasks' \in Seq(Task) /\ Len(tasks') = Len(tasks)
      /\ \A o \in 1..Len(tasks) : tasks'[o] = IF o = t THEN new ELSE tasks[o]
    <2> HIDE DEF new
    <2> QED
        BY <1>1, <1>2, <1>4, <1>5, ExceptSeq
<1>7. newer' \subseteq TaskIds \X TaskIds
    <2>1. t \in TaskIds /\ TaskSet \subseteq TaskIds
        BY <1>1, <1>2 DEF TaskSet, TaskIds
    <2>2. Investigations({"COMPLETED"}) \subseteq TaskIds
        BY <2>1 DEF Investigations, Having, Named
    <2> QED
        BY <1>1, <2>1, <2>2 DEF WriteTask
<1> QED
    BY <1>1, <1>2, <1>3, <1>4, <1>6, <1>7 DEF TasksGrow

\* Inserting a task.
LEMMA TaskInserted ==
    ASSUME IInv, NEW n \in TaskNames, InsertTask(n, "UNASSIGNED", NoUser)
    PROVE  TasksGrow
<1> DEFINE new == NewTask(n, "UNASSIGNED", NoUser)
<1>1. tasks \in Seq(Task) /\ Len(tasks) \in Nat /\ newer \subseteq TaskIds \X TaskIds
    BY LenProperties DEF IInv, TypeOK, StoreTypeOK
<1>2. \A o \in 1..Len(tasks) : HasHolder(tasks[o])
    BY DEF IInv, HeldTasksHaveHolder, HasHolder, TaskSet
<1>3. new \in Task /\ HasHolder(new)
    BY DEF NewTask, Task, TaskStatuses, HasHolder
<1>4. tasks' = Append(tasks, new) /\ newer' = newer /\ Len(tasks) < MaxTasks
    BY DEF InsertTask
<1>5. /\ tasks' \in Seq(Task) /\ Len(tasks') = Len(tasks) + 1
      /\ \A o \in 1..Len(tasks) : tasks'[o] = tasks[o]
      /\ tasks'[Len(tasks) + 1] = new
    <2> HIDE DEF new
    <2> QED
        BY <1>1, <1>3, <1>4, AppendProperties
<1>6. ASSUME NEW o \in 1..Len(tasks') PROVE HasHolder(tasks'[o])
    BY <1>1, <1>2, <1>3, <1>5
<1> QED
    BY <1>1, <1>4, <1>5, <1>6, BoundsAssumption DEF TasksGrow
-----------------------------------------------------------------------------
(***************************************************************************)
(* What a step may do to a request.                                        *)
(***************************************************************************)
\* What a request carries stays right while the tasks grow and the case moves.
LEMMA RequestStaysOK ==
    ASSUME IInv, TasksGrow, CaseMoves, NEW q \in Request, RequestOK(q)
    PROVE  RequestOK(q)'
<1>1. TaskSet \subseteq TaskSet'
    <2>1. Len(tasks) \in Nat /\ Len(tasks') \in Nat /\ Len(tasks) <= Len(tasks')
        BY LenProperties DEF IInv, TypeOK, StoreTypeOK, TasksGrow
    <2> QED
        BY <2>1 DEF TaskSet
<1>2. finalOutcome # None => finalOutcome' # None
    BY DEF CaseMoves, CaseRowOK
<1>3. q.todo \subseteq TaskSet'
    BY <1>1 DEF RequestOK
<1>4. q.at \in OfTask => q.task \in TaskSet'
    BY <1>1 DEF RequestOK
<1> QED
    BY <1>2, <1>3, <1>4 DEF RequestOK

\* One request goes on with what it carries, the others wait.
LEMMA StepKeepsIInv ==
    ASSUME IInv, TasksGrow, CaseMoves, NEW r \in Requests,
           NEW x \in Request, RequestOK(x), req' = [req EXCEPT ![r] = x]
    PROVE  IInv'
<1>1. req' \in [Requests -> Request] /\ \A q \in Requests : req'[q] = IF q = r THEN x ELSE req[q]
    BY DEF IInv, TypeOK, StoreTypeOK
<1>2. StoreTypeOK'
    BY <1>1 DEF StoreTypeOK, TasksGrow, CaseMoves, CaseRowOK
<1>3. ASSUME NEW q \in Requests PROVE RequestOK(req[q])'
    <2>1. req'[q] \in Request /\ RequestOK(req'[q])
        BY <1>1 DEF IInv, TypeOK, StoreTypeOK
    <2>2. \A y \in Request : RequestOK(y) => RequestOK(y)'
        BY RequestStaysOK
    <2> QED
        BY <2>1, <2>2 DEF RequestOK
<1>4. TypeOK'
    BY <1>2, <1>3 DEF TypeOK
<1>5. OutcomeRecorded'
    BY DEF OutcomeRecorded, CaseMoves, CaseRowOK
<1>6. ViaUI => HeldTasksHaveHolder'
    BY DEF HeldTasksHaveHolder, CaseMoves, CaseRowOK, TasksGrow, HasHolder, TaskSet
<1> QED
    BY <1>4, <1>5, <1>6 DEF IInv

\* A request that ends, whatever it has written.
LEMMA DoneKeepsIInv ==
    ASSUME IInv, TasksGrow, CaseMoves, NEW r \in Requests, Done(r)
    PROVE  IInv'
<1>1. Idle \in Request
    BY DEF Idle, Request, Args
<1>2. RequestOK(Idle)
    BY DEF Idle, RequestOK, OfTask
<1> HIDE DEF Idle
<1> QED
    BY <1>1, <1>2, StepKeepsIInv DEF Done

\* A request that goes on to owe a step, whatever it has written.
LEMMA GoesKeepsIInv ==
    ASSUME IInv, TasksGrow, CaseMoves, NEW r \in Requests,
           NEW step \in Steps, NEW u \in Users \union {NoUser}, NEW t \in TaskSet \union {0},
           NEW todo, todo \subseteq TaskSet, NEW arg \in Args,
           RequestOK(Owes(step, u, t, todo, arg)),
           Goes(r, step, u, t, todo, arg)
    PROVE  IInv'
<1>1. TaskSet \subseteq TaskIds
    <2>1. Len(tasks) \in Nat /\ Len(tasks) <= MaxTasks /\ MaxTasks \in Nat
        BY LenProperties, BoundsAssumption DEF IInv, TypeOK, StoreTypeOK
    <2> QED
        BY <2>1 DEF TaskSet, TaskIds
<1>2. todo \in SUBSET TaskIds /\ t \in TaskIds \union {0}
    BY <1>1
<1>3. Owes(step, u, t, todo, arg) \in Request
    BY <1>2 DEF Owes, Request
<1> DEFINE x == Owes(step, u, t, todo, arg)
<1>4. req' = [req EXCEPT ![r] = x]
    BY DEF Goes
<1> HIDE DEF x
<1> QED
    BY <1>3, <1>4, StepKeepsIInv DEF x
-----------------------------------------------------------------------------
(***************************************************************************)
(* One step per action of TaskWork.                                        *)
(***************************************************************************)
\* The request that takes a step, as the invariant knows it.
LEMMA RequestKnown ==
    ASSUME IInv, NEW r \in Requests
    PROVE  /\ req[r] \in Request /\ RequestOK(req[r])
           /\ caseOwner \in Users \union {NoUser} /\ finalOutcome \in Outcomes \union {None}
           /\ \A t \in TaskSet : tasks[t] \in Task
           /\ NoUser \notin Users
BY ElementOfSeq, UsersAssumption DEF IInv, TypeOK, StoreTypeOK, TaskSet

LEMMA AssignCheckKeeps ==
    ASSUME IInv, NEW r \in Requests, NEW u \in Users, NEW t \in TaskSet, NEW a \in Users,
           AssignCheck(r, u, t, a)
    PROVE  IInv'
<1>1. TasksGrow /\ CaseMoves
    BY CaseUnchanged, TasksUnchanged DEF AssignCheck, caseVars, taskVars
<1>2. Goes(r, "assign", u, t, {}, a)
    BY DEF AssignCheck
<1>3. "assign" \in Steps /\ a \in Args
    BY DEF Steps, Args
<1>4. RequestOK(Owes("assign", u, t, {}, a))
    BY DEF Owes, RequestOK, OfTask
<1> QED
    BY <1>1, <1>2, <1>3, <1>4, GoesKeepsIInv

LEMMA AssignCommitKeeps ==
    ASSUME IInv, NEW r \in Requests, AssignCommit(r)
    PROVE  IInv'
<1> DEFINE t == req[r].task
           a == req[r].arg
<1>1. t \in TaskSet /\ a \in Users /\ a # NoUser
    BY RequestKnown DEF AssignCommit, RequestOK, OfTask
<1>2. TasksGrow
    <2>1. WriteTask(r, t, "ASSIGNED", a)
        BY DEF AssignCommit
    <2>2. "ASSIGNED" \in TaskStatuses
        BY DEF TaskStatuses
    <2> HIDE DEF t, a
    <2> QED
        BY <1>1, <2>1, <2>2, TaskWritten
<1>3. CaseMoves
    <2>1. CASE WriteCase(r, "ASSIGNED", a, finalOutcome)
        <3>1. CaseRowOK("ASSIGNED", a, finalOutcome)
            BY <1>1, RequestKnown DEF CaseRowOK, CaseStatuses
        <3> QED
            BY <2>1, <3>1, CaseWritten
    <2>2. CASE Commented \/ UNCHANGED caseVars
        BY <2>2, CaseUnchanged, CaseCommented
    <2> QED
        BY <2>1, <2>2 DEF AssignCommit
<1>4. Done(r)
    BY DEF AssignCommit
<1> QED
    BY <1>2, <1>3, <1>4, DoneKeepsIInv

LEMMA UnassignCheckKeeps ==
    ASSUME IInv, NEW r \in Requests, NEW u \in Users, NEW t \in TaskSet, UnassignCheck(r, u, t)
    PROVE  IInv'
<1>1. TasksGrow /\ CaseMoves
    BY CaseUnchanged, TasksUnchanged DEF UnassignCheck, caseVars, taskVars
<1>2. Goes(r, "unassign", u, t, {}, None)
    BY DEF UnassignCheck
<1>3. "unassign" \in Steps /\ None \in Args
    BY DEF Steps, Args
<1>4. RequestOK(Owes("unassign", u, t, {}, None))
    BY DEF Owes, RequestOK, OfTask
<1> QED
    BY <1>1, <1>2, <1>3, <1>4, GoesKeepsIInv

LEMMA UnassignCommitKeeps ==
    ASSUME IInv, NEW r \in Requests, UnassignCommit(r)
    PROVE  IInv'
<1> DEFINE t == req[r].task
<1>1. t \in TaskSet
    BY RequestKnown DEF UnassignCommit, RequestOK, OfTask
<1>2. TasksGrow
    <2>1. WriteTask(r, t, "UNASSIGNED", NoUser)
        BY DEF UnassignCommit
    <2>2. "UNASSIGNED" \in TaskStatuses
        BY DEF TaskStatuses
    <2> HIDE DEF t
    <2> QED
        BY <1>1, <2>1, <2>2, TaskWritten
<1>3. CaseMoves
    <2>1. CASE WriteCase(r, "READY", NoUser, finalOutcome)
        <3>1. CaseRowOK("READY", NoUser, finalOutcome)
            BY RequestKnown DEF CaseRowOK, CaseStatuses
        <3> QED
            BY <2>1, <3>1, CaseWritten
    <2>2. CASE Commented \/ UNCHANGED caseVars
        BY <2>2, CaseUnchanged, CaseCommented
    <2> QED
        BY <2>1, <2>2 DEF UnassignCommit
<1>4. Done(r)
    BY DEF UnassignCommit
<1> QED
    BY <1>2, <1>3, <1>4, DoneKeepsIInv

LEMMA PatchCheckKeeps ==
    ASSUME IInv, NEW r \in Requests, NEW u \in Users, NEW t \in TaskSet,
           NEW s \in TaskStatuses, NEW a \in Users \union {NoUser},
           PatchCheck(r, u, t, s, a)
    PROVE  IInv'
<1>1. TasksGrow /\ CaseMoves
    BY CaseUnchanged, TasksUnchanged DEF PatchCheck, caseVars, taskVars
<1>2. PICK step \in {"promote", "patch"} : Goes(r, step, a, t, {}, s)
    BY DEF PatchCheck
<1>3. step \in Steps /\ s \in Args
    BY DEF Steps, Args
<1>4. RequestOK(Owes(step, a, t, {}, s))
    <2>1. ViaUI => a \in Users
        BY DEF PatchCheck
    <2> QED
        BY <2>1 DEF Owes, RequestOK, OfTask
<1> QED
    BY <1>1, <1>2, <1>3, <1>4, GoesKeepsIInv

LEMMA PatchCommitKeeps ==
    ASSUME IInv, NEW r \in Requests, PatchCommit(r)
    PROVE  IInv'
<1> DEFINE t == req[r].task
           s == req[r].arg
           u == req[r].by
<1>1. t \in TaskSet /\ s \in TaskStatuses /\ u \in Users \union {NoUser} /\ (ViaUI => u # NoUser)
    BY RequestKnown DEF PatchCommit, RequestOK, OfTask, Request
<1>2. TasksGrow
    <2>1. WriteTask(r, t, s, u)
        BY DEF PatchCommit
    <2> HIDE DEF t, s, u
    <2> QED
        BY <1>1, <2>1, TaskWritten
<1>3. CaseMoves
    <2> DEFINE w == IF u = NoUser THEN caseOwner ELSE u
    <2>1. CASE WriteCase(r, "IN_PROGRESS", w, finalOutcome)
        <3>1. w \in Users \union {NoUser}
            BY <1>1, RequestKnown
        <3> HIDE DEF w
        <3>2. CaseRowOK("IN_PROGRESS", w, finalOutcome)
            BY <3>1, RequestKnown DEF CaseRowOK, CaseStatuses
        <3> QED
            BY <2>1, <3>2, CaseWritten
    <2>2. CASE UNCHANGED caseVars
        BY <2>2, CaseUnchanged
    <2> QED
        BY <2>1, <2>2 DEF PatchCommit
<1>4. Done(r)
    BY DEF PatchCommit
<1> QED
    BY <1>2, <1>3, <1>4, DoneKeepsIInv

LEMMA CompleteCheckKeeps ==
    ASSUME IInv, NEW r \in Requests, NEW u \in Users, NEW t \in TaskSet, CompleteCheck(r, u, t)
    PROVE  IInv'
<1>1. TasksGrow /\ CaseMoves
    BY CaseUnchanged, TasksUnchanged DEF CompleteCheck, caseVars, taskVars
<1>2. Goes(r, "complete", u, t, {}, None)
    BY DEF CompleteCheck
<1>3. "complete" \in Steps /\ None \in Args
    BY DEF Steps, Args
<1>4. RequestOK(Owes("complete", u, t, {}, None))
    BY DEF Owes, RequestOK, OfTask
<1> QED
    BY <1>1, <1>2, <1>3, <1>4, GoesKeepsIInv

\* Completing a task without touching its assignee: completeTask, and the two
\* closures of an investigation.
LEMMA TaskCompleted ==
    ASSUME IInv, NEW r \in Requests, NEW t \in TaskSet,
           WriteTask(r, t, "COMPLETED", tasks[t].assignee)
    PROVE  TasksGrow
<1> DEFINE u == tasks[t].assignee
<1>1. u \in Users \union {NoUser}
    BY RequestKnown DEF Task
<1>2. "COMPLETED" \in TaskStatuses
    BY DEF TaskStatuses
<1>3. WriteTask(r, t, "COMPLETED", u)
    OBVIOUS
<1> HIDE DEF u
<1> QED
    BY <1>1, <1>2, <1>3, TaskWritten

LEMMA CompleteCommitKeeps ==
    ASSUME IInv, NEW r \in Requests, CompleteCommit(r)
    PROVE  IInv'
<1>1. req[r].task \in TaskSet
    BY RequestKnown DEF CompleteCommit, RequestOK, OfTask
<1>2. TasksGrow
    BY <1>1, TaskCompleted DEF CompleteCommit
<1>3. CaseMoves /\ Done(r)
    BY CaseUnchanged DEF CompleteCommit
<1> QED
    BY <1>2, <1>3, DoneKeepsIInv

LEMMA TaskWorkKeepsIInv ==
    ASSUME IInv, NEW r \in Requests, TaskWorkNext(r)
    PROVE  IInv'
BY AssignCheckKeeps, AssignCommitKeeps, UnassignCheckKeeps, UnassignCommitKeeps,
   PatchCheckKeeps, PatchCommitKeeps, CompleteCheckKeeps, CompleteCommitKeeps
   DEF TaskWorkNext
-----------------------------------------------------------------------------
(***************************************************************************)
(* One step per action of CaseSuspension.                                  *)
(***************************************************************************)
LEMMA SuspendCheckKeeps ==
    ASSUME IInv, NEW r \in Requests, NEW u \in Users, NEW T \in SUBSET TaskSet, SuspendCheck(r, u, T)
    PROVE  IInv'
<1>1. TasksGrow /\ CaseMoves
    BY CaseUnchanged, TasksUnchanged DEF SuspendCheck, caseVars, taskVars
<1>2. Goes(r, "suspend", u, 0, T, None)
    BY DEF SuspendCheck
<1>3. "suspend" \in Steps /\ None \in Args
    BY DEF Steps, Args
<1>4. RequestOK(Owes("suspend", u, 0, T, None))
    BY DEF Owes, RequestOK, OfTask
<1> QED
    BY <1>1, <1>2, <1>3, <1>4, GoesKeepsIInv

LEMMA ResumeCheckKeeps ==
    ASSUME IInv, NEW r \in Requests, NEW u \in Users, ResumeCheck(r, u)
    PROVE  IInv'
<1> DEFINE T == Investigations({"BLOCKED"})
<1>1. TasksGrow /\ CaseMoves
    BY CaseUnchanged, TasksUnchanged DEF ResumeCheck, caseVars, taskVars
<1>2. Goes(r, "resume", u, 0, T, None) /\ T \subseteq TaskSet
    BY DEF ResumeCheck, Investigations, Having, Named
<1> HIDE DEF T
<1>3. "resume" \in Steps /\ None \in Args
    BY DEF Steps, Args
<1>4. RequestOK(Owes("resume", u, 0, T, None))
    BY <1>2 DEF Owes, RequestOK, OfTask
<1> QED
    BY <1>1, <1>2, <1>3, <1>4, GoesKeepsIInv

\* The first write of both: the case.
LEMMA CasePartKeeps ==
    ASSUME IInv, NEW r \in Requests, SuspendCase(r) \/ ResumeCase(r)
    PROVE  IInv'
<1> DEFINE u == req[r].by
           T == req[r].todo
<1>1. u \in Users /\ T \subseteq TaskSet
    BY RequestKnown DEF SuspendCase, ResumeCase, RequestOK
<1>2. PICK s \in {"SUSPENDED", "IN_PROGRESS"} : WriteCase(r, s, caseOwner, finalOutcome)
    BY DEF SuspendCase, ResumeCase
<1>3. PICK step \in {"block", "unblock"} : Goes(r, step, u, 0, T, None)
    BY DEF SuspendCase, ResumeCase
<1> HIDE DEF u, T
<1>4. CaseMoves
    <2>1. CaseRowOK(s, caseOwner, finalOutcome)
        BY RequestKnown DEF CaseRowOK, CaseStatuses
    <2> QED
        BY <1>2, <2>1, CaseWritten
<1>5. TasksGrow
    BY TasksUnchanged DEF SuspendCase, ResumeCase
<1>6. step \in Steps /\ None \in Args
    BY DEF Steps, Args
<1>7. RequestOK(Owes(step, u, 0, T, None))
    BY <1>1 DEF Owes, RequestOK, OfTask
<1> QED
    BY <1>1, <1>3, <1>4, <1>5, <1>6, <1>7, GoesKeepsIInv

\* What is left of such a request after one of its tasks.
LEMMA RestKeeps ==
    ASSUME IInv, NEW r \in Requests, NEW t, req[r].at \in {"block", "unblock"},
           TasksGrow, CaseMoves, Rest(r, t)
    PROVE  IInv'
<1> DEFINE u == req[r].by
           step == req[r].at
           T == req[r].todo \ {t}
<1>1. u \in Users /\ T \subseteq TaskSet /\ step \in {"block", "unblock"}
    BY RequestKnown DEF RequestOK
<1>2. CASE Goes(r, step, u, 0, T, None)
    <2> HIDE DEF u, step, T
    <2>1. step \in Steps /\ None \in Args
        BY <1>1 DEF Steps, Args
    <2>2. RequestOK(Owes(step, u, 0, T, None))
        BY <1>1 DEF Owes, RequestOK, OfTask
    <2> QED
        BY <1>1, <1>2, <2>1, <2>2, GoesKeepsIInv
<1>3. CASE Done(r)
    BY <1>3, DoneKeepsIInv
<1> QED
    BY <1>2, <1>3 DEF Rest

LEMMA BlockTaskKeeps ==
    ASSUME IInv, NEW r \in Requests, NEW t \in req[r].todo, BlockTask(r, t)
    PROVE  IInv'
<1> DEFINE u == req[r].by
<1>1. t \in TaskSet /\ u \in Users /\ u # NoUser
    BY RequestKnown DEF BlockTask, RequestOK
<1>2. TasksGrow
    <2>1. WriteTask(r, t, "BLOCKED", u)
        BY DEF BlockTask
    <2>2. "BLOCKED" \in TaskStatuses
        BY DEF TaskStatuses
    <2> HIDE DEF u
    <2> QED
        BY <1>1, <2>1, <2>2, TaskWritten
<1>3. CaseMoves /\ Rest(r, t) /\ req[r].at \in {"block", "unblock"}
    BY CaseUnchanged, CaseCommented DEF BlockTask, Comments
<1> QED
    BY <1>2, <1>3, RestKeeps

LEMMA UnblockTaskKeeps ==
    ASSUME IInv, NEW r \in Requests, NEW t \in req[r].todo, UnblockTask(r, t)
    PROVE  IInv'
<1> DEFINE u == req[r].by
<1>1. t \in TaskSet /\ u \in Users /\ u # NoUser
    BY RequestKnown DEF UnblockTask, RequestOK
<1>2. TasksGrow
    <2>1. WriteTask(r, t, "IN_PROGRESS", u)
        BY DEF UnblockTask
    <2>2. "IN_PROGRESS" \in TaskStatuses
        BY DEF TaskStatuses
    <2> HIDE DEF u
    <2> QED
        BY <1>1, <2>1, <2>2, TaskWritten
<1>3. CaseMoves
    <2>1. CASE WriteCase(r, "IN_PROGRESS", u, finalOutcome)
        <3>1. CaseRowOK("IN_PROGRESS", u, finalOutcome)
            BY <1>1, RequestKnown DEF CaseRowOK, CaseStatuses
        <3> QED
            BY <2>1, <3>1, CaseWritten
    <2>2. CASE Comments(r, t)
        BY <2>2, CaseUnchanged, CaseCommented DEF Comments
    <2> QED
        BY <2>1, <2>2 DEF UnblockTask
<1>4. Rest(r, t) /\ req[r].at \in {"block", "unblock"}
    BY DEF UnblockTask
<1> QED
    BY <1>2, <1>3, <1>4, RestKeeps

LEMMA SuspensionKeepsIInv ==
    ASSUME IInv, NEW r \in Requests, SuspensionNext(r)
    PROVE  IInv'
BY SuspendCheckKeeps, ResumeCheckKeeps, CasePartKeeps, BlockTaskKeeps, UnblockTaskKeeps
   DEF SuspensionNext
-----------------------------------------------------------------------------
(***************************************************************************)
(* One step per action of CaseClosure.                                     *)
(***************************************************************************)
\* Only supervisors pass the tier-2 check of the decisions.
LEMMA DecidedBySupervisor ==
    ASSUME NEW u \in Users, NEW e \in {"decideClosure", "decideReopening"}, Tier2(u, e)
    PROVE  u \in Supervisors
BY DEF Tier2, InvestigatorTier2, ComplianceTier2

\* The latest of some of the tasks is one of the tasks.
LEMMA LatestIsATask ==
    ASSUME IInv, NEW T, T \subseteq TaskSet, T # {}
    PROVE  Latest(T) \in T
BY LatestIsOne, LenProperties DEF IInv, TypeOK, StoreTypeOK, TaskSet

LEMMA CloseCheckKeeps ==
    ASSUME IInv, NEW r \in Requests, NEW u \in Users, NEW o \in Verdicts, CloseCheck(r, u, o)
    PROVE  IInv'
<1> DEFINE started == Investigations({"IN_PROGRESS", "COMPLETED"})
           t == Latest(started)
<1>1. TasksGrow /\ CaseMoves
    BY CaseUnchanged, TasksUnchanged DEF CloseCheck, caseVars, taskVars
<1>2. PICK step \in {"direct", "submit"} :
         Goes(r, step, u, t, {}, o) /\ (step = "direct" => u \in Supervisors)
    BY DEF CloseCheck
<1>3. t \in TaskSet
    <2>1. started \subseteq TaskSet /\ started # {}
        BY DEF CloseCheck, Investigations, Having, Named
    <2> QED
        BY <2>1, LatestIsATask
<1> HIDE DEF started, t
<1>4. step \in Steps /\ o \in Args /\ o \in Outcomes
    BY VerdictsAssumption DEF Steps, Args, CaseStatuses, Closed
<1>5. RequestOK(Owes(step, u, t, {}, o))
    BY <1>2, <1>3, <1>4 DEF Owes, RequestOK, OfTask
<1> QED
    BY <1>1, <1>2, <1>3, <1>4, <1>5, GoesKeepsIInv

\* A closure that has been written ends, or owes the SAR/STR filing task.
LEMMA ThenSARKeeps ==
    ASSUME IInv, NEW r \in Requests, NEW o, req[r].at \in {"direct", "approve"},
           TasksGrow, CaseMoves, ThenSAR(r, o)
    PROVE  IInv'
<1> DEFINE u == req[r].by
<1>1. u \in Users
    BY RequestKnown DEF RequestOK
<1>2. CASE Goes(r, "fileSAR", u, 0, {}, None)
    <2> HIDE DEF u
    <2>1. "fileSAR" \in Steps /\ None \in Args
        BY DEF Steps, Args
    <2>2. RequestOK(Owes("fileSAR", u, 0, {}, None))
        BY <1>1 DEF Owes, RequestOK, OfTask
    <2> QED
        BY <1>1, <1>2, <2>1, <2>2, GoesKeepsIInv
<1>3. CASE Done(r)
    BY <1>3, DoneKeepsIInv
<1> QED
    BY <1>2, <1>3 DEF ThenSAR

LEMMA DirectClosureKeeps ==
    ASSUME IInv, NEW r \in Requests, DirectClosure(r)
    PROVE  IInv'
<1> DEFINE o == req[r].arg
<1>1. req[r].task \in TaskSet /\ o \in Outcomes
    BY RequestKnown DEF DirectClosure, RequestOK, OfTask
<1>2. TasksGrow
    BY <1>1, TaskCompleted DEF DirectClosure
<1>3. CaseMoves
    <2>1. WriteCase(r, o, caseOwner, o)
        BY DEF DirectClosure
    <2> HIDE DEF o
    <2>2. CaseRowOK(o, caseOwner, o)
        BY <1>1, RequestKnown DEF CaseRowOK, CaseStatuses, Closed, Outcomes, None
    <2> QED
        BY <2>1, <2>2, CaseWritten
<1>4. ThenSAR(r, o) /\ req[r].at = "direct"
    BY DEF DirectClosure
<1> QED
    BY <1>2, <1>3, <1>4, ThenSARKeeps

LEMMA SubmitClosureKeeps ==
    ASSUME IInv, NEW r \in Requests, SubmitClosure(r)
    PROVE  IInv'
<1> DEFINE t == req[r].task
           u == req[r].by
           o == req[r].arg
<1>1. t \in TaskSet /\ u \in Users /\ o \in Outcomes
    BY RequestKnown DEF SubmitClosure, RequestOK, OfTask
<1>2. TasksGrow /\ CaseMoves
    BY CaseUnchanged, TaskInserted DEF SubmitClosure, TaskNames
<1>3. Goes(r, "recommend", u, t, {}, o)
    BY DEF SubmitClosure
<1> HIDE DEF t, u, o
<1>4. "recommend" \in Steps /\ o \in Args
    BY <1>1 DEF Steps, Args, CaseStatuses, Closed
<1>5. RequestOK(Owes("recommend", u, t, {}, o))
    BY <1>1 DEF Owes, RequestOK, OfTask
<1> QED
    BY <1>1, <1>2, <1>3, <1>4, <1>5, GoesKeepsIInv

LEMMA RecommendClosureKeeps ==
    ASSUME IInv, NEW r \in Requests, RecommendClosure(r)
    PROVE  IInv'
<1> DEFINE o == req[r].arg
<1>1. req[r].task \in TaskSet /\ o \in Outcomes
    BY RequestKnown DEF RecommendClosure, RequestOK, OfTask
<1>2. TasksGrow
    BY <1>1, TaskCompleted DEF RecommendClosure
<1>3. CaseMoves
    <2>1. WriteCase(r, "PENDING_CLOSURE", caseOwner, o)
        BY DEF RecommendClosure
    <2> HIDE DEF o
    <2>2. CaseRowOK("PENDING_CLOSURE", caseOwner, o)
        BY <1>1, RequestKnown DEF CaseRowOK, CaseStatuses, Outcomes, None
    <2> QED
        BY <2>1, <2>2, CaseWritten
<1>4. Done(r)
    BY DEF RecommendClosure
<1> QED
    BY <1>2, <1>3, <1>4, DoneKeepsIInv

LEMMA FileSARKeeps ==
    ASSUME IInv, NEW r \in Requests, FileSAR(r)
    PROVE  IInv'
BY CaseUnchanged, TaskInserted, DoneKeepsIInv DEF FileSAR, TaskNames

LEMMA ApproveCheckKeeps ==
    ASSUME IInv, NEW r \in Requests, NEW u \in Users, NEW t \in TaskSet, NEW o \in Verdicts,
           ApproveCheck(r, u, t, o)
    PROVE  IInv'
<1>1. TasksGrow /\ CaseMoves
    BY CaseUnchanged, TasksUnchanged DEF ApproveCheck, caseVars, taskVars
<1>2. Goes(r, "approve", u, t, {}, o)
    BY DEF ApproveCheck
<1>3. "approve" \in Steps /\ o \in Args /\ o \in Outcomes
    BY VerdictsAssumption DEF Steps, Args, CaseStatuses, Closed
<1>4. u \in Supervisors
    BY DecidedBySupervisor DEF ApproveCheck
<1>5. RequestOK(Owes("approve", u, t, {}, o))
    BY <1>3, <1>4 DEF Owes, RequestOK, OfTask
<1> QED
    BY <1>1, <1>2, <1>3, <1>5, GoesKeepsIInv

\* Completing a task in somebody's name: the approvals and the rejected reopening.
LEMMA TaskDecided ==
    ASSUME IInv, NEW r \in Requests, NEW t \in TaskSet, NEW u \in Users,
           WriteTask(r, t, "COMPLETED", u)
    PROVE  TasksGrow
BY TaskWritten DEF TaskStatuses

LEMMA ApproveClosureKeeps ==
    ASSUME IInv, NEW r \in Requests, ApproveClosure(r)
    PROVE  IInv'
<1> DEFINE o == req[r].arg
<1>1. req[r].task \in TaskSet /\ req[r].by \in Users /\ o \in Outcomes
    BY RequestKnown DEF ApproveClosure, RequestOK, OfTask
<1>2. TasksGrow
    BY <1>1, TaskDecided DEF ApproveClosure
<1>3. CaseMoves
    <2>1. WriteCase(r, o, caseOwner, o)
        BY DEF ApproveClosure
    <2> HIDE DEF o
    <2>2. CaseRowOK(o, caseOwner, o)
        BY <1>1, RequestKnown DEF CaseRowOK, CaseStatuses, Closed, Outcomes, None
    <2> QED
        BY <2>1, <2>2, CaseWritten
<1>4. ThenSAR(r, o) /\ req[r].at = "approve"
    BY DEF ApproveClosure
<1> QED
    BY <1>2, <1>3, <1>4, ThenSARKeeps

LEMMA ReviewCheckKeeps ==
    ASSUME IInv, NEW r \in Requests, NEW u \in Users, NEW returning \in BOOLEAN,
           ReviewCheck(r, u, returning)
    PROVE  IInv'
<1> DEFINE t == ApprovalTask
<1>1. TasksGrow /\ CaseMoves
    BY CaseUnchanged, TasksUnchanged DEF ReviewCheck, caseVars, taskVars
<1>2. PICK step \in {"claimReturn", "claimOnly", "claim", "return", "findInvestigator"} :
         Goes(r, step, u, t, {}, None)
    BY DEF ReviewCheck
<1>3. t \in TaskSet
    <2>1. Named("ApproveClosure") \subseteq TaskSet /\ Named("ApproveClosure") # {}
        BY DEF ReviewCheck, Named
    <2> QED
        BY <2>1, LatestIsATask DEF ApprovalTask
<1> HIDE DEF t
<1>4. step \in Steps /\ None \in Args
    BY DEF Steps, Args
<1>5. RequestOK(Owes(step, u, t, {}, None))
    BY <1>3 DEF Owes, RequestOK, OfTask
<1> QED
    BY <1>1, <1>2, <1>3, <1>4, <1>5, GoesKeepsIInv

LEMMA ClaimApprovalKeeps ==
    ASSUME IInv, NEW r \in Requests, ClaimApproval(r)
    PROVE  IInv'
<1> DEFINE t == req[r].task
           u == req[r].by
<1>1. t \in TaskSet /\ u \in Users /\ u # NoUser
    BY RequestKnown DEF ClaimApproval, RequestOK, OfTask
<1>2. WriteTask(r, t, "ASSIGNED", u) /\ CaseMoves
    BY CaseUnchanged DEF ClaimApproval
<1>3. \/ \E step \in {"findInvestigator", "return"} : Goes(r, step, u, t, {}, None)
      \/ Done(r)
    BY DEF ClaimApproval
<1> HIDE DEF t, u
<1>4. TasksGrow
    BY <1>1, <1>2, TaskWritten DEF TaskStatuses
<1>5. ASSUME NEW step \in {"findInvestigator", "return"}, Goes(r, step, u, t, {}, None)
      PROVE  IInv'
    <2>1. step \in Steps /\ None \in Args
        BY DEF Steps, Args
    <2>2. RequestOK(Owes(step, u, t, {}, None))
        BY <1>1 DEF Owes, RequestOK, OfTask
    <2> QED
        BY <1>1, <1>2, <1>4, <1>5, <2>1, <2>2, GoesKeepsIInv
<1>6. CASE Done(r)
    BY <1>2, <1>4, <1>6, DoneKeepsIInv
<1> QED
    BY <1>3, <1>5, <1>6

\* No task has the name a return looks for: its transaction changes nothing.
LEMMA ReturnRollsBack ==
    ASSUME IInv, NEW r \in Requests, ReturnCase(r)
    PROVE  UNCHANGED <<caseVars, taskVars>>
<1>1. \A t \in TaskSet : tasks[t].name \in TaskNames
    BY RequestKnown DEF Task
<1>2. Named(ReturnedTask) = {}
    BY <1>1 DEF Named, ReturnedTask, TaskNames
<1> QED
    BY <1>2 DEF ReturnCase

LEMMA ReturnCaseKeeps ==
    ASSUME IInv, NEW r \in Requests, ReturnCase(r)
    PROVE  IInv'
<1>1. UNCHANGED caseVars /\ UNCHANGED taskVars
    BY ReturnRollsBack
<1> QED
    BY <1>1, CaseUnchanged, TasksUnchanged, DoneKeepsIInv DEF ReturnCase

LEMMA FindInvestigatorKeeps ==
    ASSUME IInv, NEW r \in Requests, FindInvestigator(r)
    PROVE  IInv'
<1> DEFINE u == req[r].by
           found == {tasks[w].assignee : w \in LastCompleted} \ {NoUser}
<1>1. u \in Users
    BY RequestKnown DEF FindInvestigator, RequestOK
<1>2. found \subseteq Users
    BY RequestKnown DEF LastCompleted, Investigations, Having, Named, Task
<1>3. TasksGrow /\ CaseMoves
    BY CaseUnchanged, TasksUnchanged DEF FindInvestigator, caseVars, taskVars
<1>4. Done(r) \/ \E i \in found : Goes(r, "reject", u, 0, {}, i)
    BY DEF FindInvestigator
<1>5. CASE Done(r)
    BY <1>3, <1>5, DoneKeepsIInv
<1> HIDE DEF u, found
<1>6. ASSUME NEW i \in found, Goes(r, "reject", u, 0, {}, i) PROVE IInv'
    <2>1. "reject" \in Steps /\ i \in Args
        BY <1>2 DEF Steps, Args
    <2>2. RequestOK(Owes("reject", u, 0, {}, i))
        BY <1>1, <1>2 DEF Owes, RequestOK, OfTask
    <2> QED
        BY <1>1, <1>3, <1>6, <2>1, <2>2, GoesKeepsIInv
<1> QED
    BY <1>4, <1>5, <1>6

\* The rejection completes the approval task and appends an investigation that
\* has a holder.
LEMMA RejectClosureKeeps ==
    ASSUME IInv, NEW r \in Requests, NEW t \in TaskSet, RejectClosure(r, t)
    PROVE  IInv'
<1> DEFINE old == [tasks[t] EXCEPT !.status = "COMPLETED"]
           mid == [tasks EXCEPT ![t] = old]
           new == NewTask("Investigate", "ASSIGNED", req[r].arg)
<1>1. req[r].arg \in Users /\ req[r].arg # NoUser
    BY RequestKnown DEF RejectClosure, RequestOK
<1>2. tasks \in Seq(Task) /\ Len(tasks) \in Nat /\ newer \subseteq TaskIds \X TaskIds
    BY LenProperties DEF IInv, TypeOK, StoreTypeOK
<1>3. \A o \in 1..Len(tasks) : HasHolder(tasks[o])
    BY DEF IInv, HeldTasksHaveHolder, HasHolder, TaskSet
<1>4. old \in Task /\ HasHolder(old)
    BY RequestKnown DEF Task, TaskStatuses, HasHolder
<1>5. new \in Task /\ HasHolder(new)
    BY <1>1 DEF NewTask, Task, TaskNames, TaskStatuses, HasHolder
<1>6. tasks' = Append(mid, new) /\ newer' = newer /\ Len(tasks) < MaxTasks
    BY DEF RejectClosure
<1>7. /\ mid \in Seq(Task) /\ Len(mid) = Len(tasks)
      /\ \A o \in 1..Len(tasks) : mid[o] = IF o = t THEN old ELSE tasks[o]
    <2> HIDE DEF old
    <2> QED
        BY <1>2, <1>4, ExceptSeq DEF TaskSet
<1> HIDE DEF old, mid, new
<1>8. /\ tasks' \in Seq(Task) /\ Len(tasks') = Len(tasks) + 1
      /\ \A o \in 1..Len(tasks) : tasks'[o] = mid[o]
      /\ tasks'[Len(tasks) + 1] = new
    BY <1>2, <1>5, <1>6, <1>7, AppendProperties
<1>9. ASSUME NEW o \in 1..Len(tasks') PROVE HasHolder(tasks'[o])
    BY <1>2, <1>3, <1>4, <1>5, <1>7, <1>8
<1>10. TasksGrow
    BY <1>2, <1>6, <1>8, <1>9, BoundsAssumption DEF TasksGrow
<1>11. CaseMoves
    <2>1. CaseRowOK("IN_PROGRESS", caseOwner, finalOutcome)
        BY RequestKnown DEF CaseRowOK, CaseStatuses
    <2> QED
        BY <2>1, CaseWritten DEF RejectClosure
<1> QED
    BY <1>10, <1>11, DoneKeepsIInv DEF RejectClosure

LEMMA RejectNotFoundKeeps ==
    ASSUME IInv, NEW r \in Requests, RejectNotFound(r)
    PROVE  IInv'
BY CaseUnchanged, TasksUnchanged, DoneKeepsIInv DEF RejectNotFound, caseVars, taskVars

\* A comment belongs to no request in flight.
LEMMA AddCommentKeeps ==
    ASSUME IInv, NEW r \in Requests, NEW u \in Users, AddComment(r, u)
    PROVE  IInv'
<1>1. TasksGrow /\ CaseMoves
    BY CaseCommented, TasksUnchanged DEF AddComment, taskVars
<1>2. req[r] \in Request /\ RequestOK(req[r])
    BY RequestKnown
<1>3. req' = [req EXCEPT ![r] = req[r]]
    BY DEF AddComment, IInv, TypeOK, StoreTypeOK
<1> QED
    BY <1>1, <1>2, <1>3, StepKeepsIInv

LEMMA ClosureKeepsIInv ==
    ASSUME IInv, NEW r \in Requests, ClosureNext(r)
    PROVE  IInv'
BY CloseCheckKeeps, DirectClosureKeeps, SubmitClosureKeeps, RecommendClosureKeeps, FileSARKeeps,
   ApproveCheckKeeps, ApproveClosureKeeps, ReviewCheckKeeps, ClaimApprovalKeeps, ReturnCaseKeeps,
   FindInvestigatorKeeps, RejectClosureKeeps, RejectNotFoundKeeps, AddCommentKeeps
   DEF ClosureNext
-----------------------------------------------------------------------------
(***************************************************************************)
(* One step per action of CaseReopening.                                   *)
(***************************************************************************)
LEMMA ReopenCheckKeeps ==
    ASSUME IInv, NEW r \in Requests, NEW u \in Users, ReopenCheck(r, u)
    PROVE  IInv'
<1>1. TasksGrow /\ CaseMoves
    BY CaseUnchanged, TasksUnchanged DEF ReopenCheck, caseVars, taskVars
<1>2. PICK step \in {"reopen", "requestReopen"} : Goes(r, step, u, 0, {}, None)
    BY DEF ReopenCheck
<1>3. step \in Steps /\ None \in Args
    BY DEF Steps, Args
<1>4. RequestOK(Owes(step, u, 0, {}, None))
    BY DEF Owes, RequestOK, OfTask
<1> QED
    BY <1>1, <1>2, <1>3, <1>4, GoesKeepsIInv

\* Neither the direct nor the requested reopening forgets the final outcome.
LEMMA ReopeningKeeps ==
    ASSUME IInv, NEW r \in Requests, ReopenCase(r) \/ RequestReopening(r)
    PROVE  IInv'
<1>1. PICK s \in {"READY", "PENDING_REOPENING"} : WriteCase(r, s, caseOwner, finalOutcome)
    BY DEF ReopenCase, RequestReopening
<1>2. PICK n \in TaskNames : InsertTask(n, "UNASSIGNED", NoUser)
    BY DEF ReopenCase, RequestReopening, TaskNames
<1>3. CaseRowOK(s, caseOwner, finalOutcome)
    BY RequestKnown DEF CaseRowOK, CaseStatuses
<1>4. TasksGrow /\ CaseMoves
    BY <1>1, <1>2, <1>3, CaseWritten, TaskInserted
<1> QED
    BY <1>4, DoneKeepsIInv DEF ReopenCase, RequestReopening

LEMMA ApproveReopeningCheckKeeps ==
    ASSUME IInv, NEW r \in Requests, NEW u \in Users, NEW t \in TaskSet,
           ApproveReopeningCheck(r, u, t)
    PROVE  IInv'
<1>1. TasksGrow /\ CaseMoves
    BY CaseUnchanged, TasksUnchanged DEF ApproveReopeningCheck, caseVars, taskVars
<1>2. Goes(r, "insertReopen", u, t, {}, None)
    BY DEF ApproveReopeningCheck
<1>3. "insertReopen" \in Steps /\ None \in Args
    BY DEF Steps, Args
<1>4. RequestOK(Owes("insertReopen", u, t, {}, None))
    BY DEF Owes, RequestOK, OfTask
<1> QED
    BY <1>1, <1>2, <1>3, <1>4, GoesKeepsIInv

LEMMA InsertReopenedTaskKeeps ==
    ASSUME IInv, NEW r \in Requests, InsertReopenedTask(r)
    PROVE  IInv'
<1> DEFINE t == req[r].task
           u == req[r].by
<1>1. t \in TaskSet /\ u \in Users
    BY RequestKnown DEF InsertReopenedTask, RequestOK, OfTask
<1>2. TasksGrow /\ CaseMoves
    BY CaseUnchanged, TaskInserted DEF InsertReopenedTask, TaskNames
<1>3. Goes(r, "approveReopen", u, t, {}, None)
    BY DEF InsertReopenedTask
<1> HIDE DEF t, u
<1>4. "approveReopen" \in Steps /\ None \in Args
    BY DEF Steps, Args
<1>5. RequestOK(Owes("approveReopen", u, t, {}, None))
    BY <1>1 DEF Owes, RequestOK, OfTask
<1> QED
    BY <1>1, <1>2, <1>3, <1>4, <1>5, GoesKeepsIInv

LEMMA ApproveReopeningKeeps ==
    ASSUME IInv, NEW r \in Requests, ApproveReopening(r)
    PROVE  IInv'
<1>1. req[r].task \in TaskSet /\ req[r].by \in Users
    BY RequestKnown DEF ApproveReopening, RequestOK, OfTask
<1>2. CaseRowOK("READY", caseOwner, finalOutcome)
    BY RequestKnown DEF CaseRowOK, CaseStatuses
<1>3. TasksGrow /\ CaseMoves
    BY <1>1, <1>2, CaseWritten, TaskDecided DEF ApproveReopening
<1> QED
    BY <1>3, DoneKeepsIInv DEF ApproveReopening

LEMMA RejectReopeningCheckKeeps ==
    ASSUME IInv, NEW r \in Requests, NEW u \in Users, NEW t \in TaskSet,
           RejectReopeningCheck(r, u, t)
    PROVE  IInv'
<1> DEFINE o == IF finalOutcome = None THEN "INCONCLUSIVE" ELSE finalOutcome
<1>1. TasksGrow /\ CaseMoves
    BY CaseUnchanged, TasksUnchanged DEF RejectReopeningCheck, caseVars, taskVars
<1>2. Goes(r, "rejectReopen", u, t, {}, o) /\ u \in Supervisors
    BY DecidedBySupervisor DEF RejectReopeningCheck
<1>3. o \in Outcomes /\ (o # "INCONCLUSIVE" => finalOutcome # None)
    BY RequestKnown DEF Outcomes
<1> HIDE DEF o
<1>4. "rejectReopen" \in Steps /\ o \in Args
    BY <1>3 DEF Steps, Args, CaseStatuses, Closed
<1>5. RequestOK(Owes("rejectReopen", u, t, {}, o))
    BY <1>2, <1>3 DEF Owes, RequestOK, OfTask
<1> QED
    BY <1>1, <1>2, <1>4, <1>5, GoesKeepsIInv

\* The status the rejection goes back to needs the final outcome it was read from.
LEMMA RejectReopeningKeeps ==
    ASSUME IInv, NEW r \in Requests, RejectReopening(r)
    PROVE  IInv'
<1> DEFINE o == req[r].arg
<1>1. /\ req[r].task \in TaskSet /\ req[r].by \in Users
      /\ o \in Outcomes /\ (o # "INCONCLUSIVE" => finalOutcome # None)
    BY RequestKnown DEF RejectReopening, RequestOK, OfTask
<1>2. TasksGrow
    BY <1>1, TaskDecided DEF RejectReopening
<1>3. CaseMoves
    <2>1. WriteCase(r, o, caseOwner, finalOutcome)
        BY DEF RejectReopening
    <2> HIDE DEF o
    <2>2. CaseRowOK(o, caseOwner, finalOutcome)
        BY <1>1, RequestKnown DEF CaseRowOK, CaseStatuses, Closed, Outcomes
    <2> QED
        BY <2>1, <2>2, CaseWritten
<1> QED
    BY <1>2, <1>3, DoneKeepsIInv DEF RejectReopening

LEMMA ReopeningKeepsIInv ==
    ASSUME IInv, NEW r \in Requests, ReopeningNext(r)
    PROVE  IInv'
BY ReopenCheckKeeps, ReopeningKeeps, ApproveReopeningCheckKeeps, InsertReopenedTaskKeeps,
   ApproveReopeningKeeps, RejectReopeningCheckKeeps, RejectReopeningKeeps
   DEF ReopeningNext
-----------------------------------------------------------------------------
(***************************************************************************)
(* The theorems.                                                           *)
(***************************************************************************)
LEMMA InitIInv == Init => IInv
<1> SUFFICES ASSUME Init PROVE IInv
    OBVIOUS
<1>1. tasks \in Seq(Task) /\ Len(tasks) <= MaxTasks /\ \A t \in 1..Len(tasks) : HasHolder(tasks[t])
    <2> DEFINE new == NewTask("Investigate", "UNASSIGNED", NoUser)
    <2>1. new \in Task /\ HasHolder(new)
        BY DEF NewTask, Task, TaskNames, TaskStatuses, HasHolder
    <2> HIDE DEF new
    <2>2. CASE tasks = <<new>>
        BY <2>1, <2>2, BoundsAssumption
    <2>3. CASE tasks = <<>>
        BY <2>3, BoundsAssumption
    <2> QED
        BY <2>2, <2>3 DEF Init, new
<1>2. caseStatus \in {"READY"} \union AutoClosed /\ caseOwner \in Users \union {NoUser}
      /\ finalOutcome = None
    BY DEF Init, Users
<1>3. Idle \in Request /\ RequestOK(Idle)
    BY DEF Idle, Request, Args, RequestOK, OfTask
<1>4. req = [r \in Requests |-> Idle]
    BY DEF Init
<1>5. TypeOK
    <2>1. StoreTypeOK
        <3> HIDE DEF Idle
        <3> QED
            BY <1>1, <1>2, <1>3, <1>4 DEF StoreTypeOK, Init, CaseStatuses, Closed, LatestComments
    <2>2. \A r \in Requests : RequestOK(req[r])
        BY <1>3, <1>4
    <2> QED
        BY <2>1, <2>2 DEF TypeOK
<1>6. OutcomeRecorded
    BY <1>2 DEF OutcomeRecorded, AutoClosed
<1>7. ViaUI => HeldTasksHaveHolder
    BY <1>1, <1>2 DEF HeldTasksHaveHolder, HasHolder, TaskSet, AutoClosed
<1> QED
    BY <1>5, <1>6, <1>7 DEF IInv

\* A lost request writes nothing.
LEMMA FailKeepsIInv ==
    ASSUME IInv, NEW r \in Requests, Fail(r)
    PROVE  IInv'
BY CaseUnchanged, TasksUnchanged, DoneKeepsIInv DEF Fail, caseVars, taskVars

LEMMA NextKeepsIInv == IInv /\ [Next]_vars => IInv'
<1> SUFFICES ASSUME IInv, [Next]_vars PROVE IInv'
    OBVIOUS
<1>1. CASE Next
    BY <1>1, TaskWorkKeepsIInv, SuspensionKeepsIInv, ClosureKeepsIInv, ReopeningKeepsIInv,
       FailKeepsIInv DEF Next
<1>2. CASE UNCHANGED vars
    <2>1. TypeOK'
        BY <1>2 DEF vars, IInv, TypeOK, StoreTypeOK, RequestOK, TaskSet
    <2>2. OutcomeRecorded' /\ (ViaUI => HeldTasksHaveHolder')
        BY <1>2 DEF vars, IInv, OutcomeRecorded, HeldTasksHaveHolder, TaskSet
    <2> QED
        BY <2>1, <2>2 DEF IInv
<1> QED
    BY <1>1, <1>2

LEMMA IInvInvariant == Spec => []IInv
BY InitIInv, NextKeepsIInv, PTL DEF Spec

\* The columns keep to their enumerations, and a request in flight always owes a
\* write on tasks that exist, in the name of a user who passed its check.
THEOREM TypeCorrect == Spec => []TypeOK
<1>1. IInv => TypeOK
    BY DEF IInv
<1> QED
    BY <1>1, IInvInvariant, PTL

\* However the handlers overlap, and wherever requests are lost, a case that is, or
\* waits to be, confirmed or refuted has its final_outcome.
THEOREM OutcomeAlwaysRecorded == Spec => []OutcomeRecorded
<1>1. IInv => OutcomeRecorded
    BY DEF IInv
<1> QED
    BY <1>1, IInvInvariant, PTL

\* However the calls of the web client overlap, a task that is assigned, in progress
\* or blocked has an assignee, and an ASSIGNED case an owner.  (A PATCH of another
\* client may start an unassigned task and leave it unassigned.)
THEOREM HeldTasksAlwaysHaveHolder == ViaUI => (Spec => []HeldTasksHaveHolder)
<1> SUFFICES ASSUME ViaUI PROVE Spec => []HeldTasksHaveHolder
    OBVIOUS
<1>1. IInv => HeldTasksHaveHolder
    BY DEF IInv
<1> QED
    BY <1>1, IInvInvariant, PTL
-----------------------------------------------------------------------------
(***************************************************************************)
(* Who closes a case.                                                      *)
(***************************************************************************)
Closes == caseStatus \notin Outcomes /\ caseStatus' \in Outcomes

\* Only three writes put an outcome into the status column.
LEMMA ClosingWrites ==
    ASSUME NEW r \in Requests, Closes,
           TaskWorkNext(r) \/ SuspensionNext(r) \/ ClosureNext(r) \/ ReopeningNext(r) \/ Fail(r)
    PROVE  DirectClosure(r) \/ ApproveClosure(r) \/ RejectReopening(r)
<1> USE DEF Closes, Outcomes, caseVars, rowVars, WriteCase, Commented, Comments
<1>1. ~TaskWorkNext(r)
    BY DEF TaskWorkNext, AssignCheck, AssignCommit, UnassignCheck, UnassignCommit,
           PatchCheck, PatchCommit, CompleteCheck, CompleteCommit
<1>2. ~SuspensionNext(r)
    BY DEF SuspensionNext, SuspendCheck, SuspendCase, BlockTask, ResumeCheck, ResumeCase, UnblockTask
<1>3. ClosureNext(r) => DirectClosure(r) \/ ApproveClosure(r)
    BY DEF ClosureNext, CloseCheck, SubmitClosure, RecommendClosure, FileSAR, ApproveCheck,
           ReviewCheck, ClaimApproval, ReturnCase, FindInvestigator, RejectClosure, RejectNotFound,
           AddComment
<1>4. ReopeningNext(r) => RejectReopening(r)
    BY DEF ReopeningNext, ReopenCheck, ReopenCase, RequestReopening, ApproveReopeningCheck,
           InsertReopenedTask, ApproveReopening, RejectReopeningCheck
<1>5. ~Fail(r)
    BY DEF Fail
<1> QED
    BY <1>1, <1>2, <1>3, <1>4, <1>5

\* Such a write ends the request or leaves it the SAR/STR filing to owe.
LEMMA ClosingStepMovesRequest ==
    ASSUME IInv, NEW r \in Requests, DirectClosure(r) \/ ApproveClosure(r) \/ RejectReopening(r)
    PROVE  req[r].at # "idle" /\ req'[r] # req[r] /\ req[r].by \in Supervisors
<1>1. req[r].at \in {"direct", "approve", "rejectReopen"}
    BY DEF DirectClosure, ApproveClosure, RejectReopening
<1>2. Done(r) \/ Goes(r, "fileSAR", req[r].by, 0, {}, None)
    BY DEF DirectClosure, ApproveClosure, RejectReopening, ThenSAR
<1>3. req'[r].at \in {"idle", "fileSAR"}
    BY <1>2 DEF Goes, Done, Owes, Idle, IInv, TypeOK, StoreTypeOK
<1> QED
    BY <1>1, <1>3, RequestKnown DEF RequestOK

\* Whatever the interleaving, an outcome enters the status column through a step of
\* a request a supervisor made: the role checked when it began is the role of the
\* request that writes.
THEOREM OnlySupervisorsClose == Spec => ClosesBySupervisor
<1>1. ASSUME IInv, [Next]_vars, Closes
      PROVE  \E r \in Requests :
                req[r].at # "idle" /\ req'[r] # req[r] /\ req[r].by \in Supervisors
    <2>1. ~UNCHANGED vars
        BY <1>1 DEF Closes, vars
    <2>2. PICK r \in Requests :
             TaskWorkNext(r) \/ SuspensionNext(r) \/ ClosureNext(r) \/ ReopeningNext(r) \/ Fail(r)
        BY <1>1, <2>1 DEF Next
    <2> QED
        BY <1>1, <2>2, ClosingWrites, ClosingStepMovesRequest
<1>2. IInv /\ [Next]_vars =>
         [caseStatus \notin Outcomes /\ caseStatus' \in Outcomes =>
            \E r \in Requests :
               req[r].at # "idle" /\ req'[r] # req[r] /\ req[r].by \in Supervisors]_vars
    BY <1>1 DEF Closes
<1> QED
    BY <1>2, IInvInvariant, PTL DEF Spec, ClosesBySupervisor
-----------------------------------------------------------------------------
(***************************************************************************)
(* What overlapping requests of the web client cannot break about a        *)
(* reopening, also when some are lost: ReopeningHasApproval and            *)
(* ReopenedOffersWork.                                                     *)
(*                                                                         *)
(* Both rest on who may write a task row.  A row has changed hands by the  *)
(* time a request writes it; but the client offers nothing on an approval  *)
(* of a reopening except its decision, and nothing on a free investigation *)
(* except to assign it, which the lock of a granted reopening holds back.  *)
(***************************************************************************)
Approval == NewTask("ApproveReopening", "UNASSIGNED", NoUser)
Offer == NewTask("Investigate", "UNASSIGNED", NoUser)
ReopenSteps == {"insertReopen", "approveReopen", "rejectReopen"}

\* A request q in flight is going to write task t.
Aims(q, t) == (q.at \in OfTask /\ q.task = t) \/ t \in q.todo

\* Only the decision on a reopening writes its approval task.
Aimed ==
    \A r \in Requests, t \in TaskSet :
        Aims(req[r], t) => (tasks[t].name = "ApproveReopening" <=> req[r].at \in ReopenSteps)

\* The approval of a reopening is as it was inserted until it is completed.
Untouched ==
    \A t \in TaskSet :
        tasks[t].name = "ApproveReopening" => tasks[t].status = "COMPLETED" \/ tasks[t] = Approval

Waits == caseStatus = "PENDING_REOPENING" => \E t \in TaskSet : tasks[t] = Approval

\* While a granted reopening holds its lock there is a free investigation that no
\* request is about to write, except to assign it.
OfferKept ==
    \A r \in Requests : Holds(r) =>
        \E t \in TaskSet :
            tasks[t] = Offer /\ \A q \in Requests : Aims(req[q], t) => req[q].at = "assign"

RInv == Aimed /\ Untouched /\ Waits /\ OfferKept
-----------------------------------------------------------------------------
(***************************************************************************)
(* What a step of request r may do.                                        *)
(***************************************************************************)
\* To the rows that are there: it writes those it aims at and the approval of a
\* closure, it never completes a reopening's approval and leaves it pending, and
\* it assigns no investigation while another request holds the lock.
RowsMove(r) ==
    \A t \in TaskSet : tasks'[t] # tasks[t] =>
        /\ tasks'[t].name = tasks[t].name
        /\ Aims(req[r], t) \/ tasks[t].name = "ApproveClosure"
        /\ req[r].at = "assign" /\ tasks[t].name = "Investigate" =>
              \A q \in Requests \ {r} : ~Holds(q)
        /\ tasks[t].name = "ApproveReopening" =>
              tasks'[t].status = "COMPLETED" /\ caseStatus' # "PENDING_REOPENING"

\* New rows: a pending reopening comes with its approval.
RowsCome ==
    /\ TaskSet \subseteq TaskSet'
    /\ \A t \in TaskSet' \ TaskSet : tasks'[t].name = "ApproveReopening" => tasks'[t] = Approval
    /\ caseStatus' = "PENDING_REOPENING" /\ caseStatus # "PENDING_REOPENING" =>
          \E t \in TaskSet' : tasks'[t] = Approval

\* What the request may aim at when it goes on as x.
AimOK(r, x) ==
    \A t \in TaskSet \union TaskSet' : Aims(x, t) =>
        /\ t \in TaskSet
        /\ \/ /\ Aims(req[r], t)
              /\ req[r].at # "assign"
              /\ req[r].at \in ReopenSteps <=> x.at \in ReopenSteps
           \/ /\ tasks[t].name = "ApproveReopening" <=> x.at \in ReopenSteps
              /\ tasks[t] = Offer => x.at = "assign"

\* To take the lock it must have inserted the investigation.
LockOK(x) == x.at = "approveReopen" => \E t \in TaskSet' \ TaskSet : tasks'[t] = Offer

StepOK(r) ==
    /\ RowsMove(r)
    /\ RowsCome
    /\ \E x : req' = [req EXCEPT ![r] = x] /\ AimOK(r, x) /\ LockOK(x)

LEMMA AimsAtTasks ==
    ASSUME IInv, NEW r \in Requests, NEW t, Aims(req[r], t)
    PROVE  t \in TaskSet
BY RequestKnown DEF RequestOK, Aims

LEMMA TasksAreRows ==
    ASSUME IInv
    PROVE  Len(tasks) \in Nat /\ tasks \in Seq(Task) /\ TaskSet = 1..Len(tasks)
BY LenProperties DEF IInv, TypeOK, StoreTypeOK, TaskSet

\* Steps that respect StepOK keep the invariant.
LEMMA StepKeepsAimed ==
    ASSUME IInv, RInv, NEW r \in Requests, StepOK(r)
    PROVE  Aimed'
<1>1. PICK x : req' = [req EXCEPT ![r] = x] /\ AimOK(r, x)
    BY DEF StepOK
<1>2. \A q \in Requests : req'[q] = IF q = r THEN x ELSE req[q]
    BY <1>1 DEF IInv, TypeOK, StoreTypeOK
<1>3. \A t \in TaskSet : t \in TaskSet' /\ tasks'[t].name = tasks[t].name
    BY DEF StepOK, RowsMove, RowsCome
<1>4. ASSUME NEW q \in Requests, NEW t \in TaskSet', Aims(req'[q], t)
      PROVE  tasks'[t].name = "ApproveReopening" <=> req'[q].at \in ReopenSteps
    <2>1. CASE q = r
        <3>1. Aims(x, t)
            BY <1>2, <1>4, <2>1
        <3>2. t \in TaskSet
            BY <1>1, <3>1 DEF AimOK
        <3>3. tasks[t].name = "ApproveReopening" <=> x.at \in ReopenSteps
            BY <1>1, <3>1, <3>2 DEF AimOK, RInv, Aimed
        <3> QED
            BY <1>2, <1>3, <2>1, <3>2, <3>3
    <2>2. CASE q # r
        <3>1. Aims(req[q], t)
            BY <1>2, <1>4, <2>2
        <3>2. t \in TaskSet
            BY <3>1, AimsAtTasks
        <3> QED
            BY <1>2, <1>3, <2>2, <3>1, <3>2 DEF RInv, Aimed
    <2> QED
        BY <2>1, <2>2
<1> QED
    BY <1>4 DEF Aimed, Aims, OfTask

LEMMA StepKeepsUntouched ==
    ASSUME IInv, RInv, NEW r \in Requests, StepOK(r)
    PROVE  Untouched' /\ Waits'
<1>1. RowsMove(r) /\ RowsCome
    BY DEF StepOK
<1>2. Untouched'
    <2>1. ASSUME NEW t \in TaskSet', tasks'[t].name = "ApproveReopening"
          PROVE  tasks'[t].status = "COMPLETED" \/ tasks'[t] = Approval
        <3>1. CASE t \notin TaskSet
            BY <1>1, <2>1, <3>1 DEF RowsCome
        <3>2. CASE t \in TaskSet /\ tasks'[t] = tasks[t]
            BY <2>1, <3>2 DEF RInv, Untouched
        <3>3. CASE t \in TaskSet /\ tasks'[t] # tasks[t]
            BY <1>1, <2>1, <3>3 DEF RowsMove
        <3> QED
            BY <3>1, <3>2, <3>3
    <2> QED
        BY <2>1 DEF Untouched, Approval, NewTask
<1>3. Waits'
    <2>1. SUFFICES ASSUME caseStatus' = "PENDING_REOPENING" PROVE \E t \in TaskSet' : tasks'[t] = Approval
        BY DEF Waits, Approval, NewTask
    <2>2. CASE caseStatus # "PENDING_REOPENING"
        BY <1>1, <2>1, <2>2 DEF RowsCome
    <2>3. CASE caseStatus = "PENDING_REOPENING"
        <3>1. PICK t \in TaskSet : tasks[t] = Approval
            BY <2>3 DEF RInv, Waits
        <3>2. tasks'[t] = tasks[t]
            BY <1>1, <2>1, <3>1 DEF RowsMove, Approval, NewTask
        <3> QED
            BY <1>1, <3>1, <3>2 DEF RowsCome
    <2> QED
        BY <2>2, <2>3
<1> QED
    BY <1>2, <1>3

\* The free investigation a granted reopening counts on is not written.
LEMMA OfferStays ==
    ASSUME IInv, NEW p \in Requests, NEW r \in Requests, StepOK(r), Holds(p),
           NEW t \in TaskSet, tasks[t] = Offer, Aims(req[r], t) => req[r].at = "assign"
    PROVE  tasks'[t] = Offer
<1>1. SUFFICES ASSUME tasks'[t] # tasks[t] PROVE FALSE
    OBVIOUS
<1>2. tasks[t].name = "Investigate"
    BY DEF Offer, NewTask
<1>3. req[r].at = "assign" /\ \A q \in Requests \ {r} : ~Holds(q)
    BY <1>1, <1>2 DEF StepOK, RowsMove
<1> QED
    BY <1>3 DEF Holds

LEMMA StepKeepsOffer ==
    ASSUME IInv, RInv, NEW r \in Requests, StepOK(r)
    PROVE  OfferKept'
<1>1. PICK x : req' = [req EXCEPT ![r] = x] /\ AimOK(r, x) /\ LockOK(x)
    BY DEF StepOK
<1>2. \A q \in Requests : req'[q] = IF q = r THEN x ELSE req[q]
    BY <1>1 DEF IInv, TypeOK, StoreTypeOK
<1>3. ASSUME NEW p \in Requests, req'[p].at = "approveReopen"
      PROVE  \E t \in TaskSet' :
                tasks'[t] = Offer /\ \A q \in Requests : Aims(req'[q], t) => req'[q].at = "assign"
    <2>1. CASE p = r
        <3>1. PICK t \in TaskSet' \ TaskSet : tasks'[t] = Offer
            BY <1>1, <1>2, <1>3, <2>1 DEF LockOK
        <3>2. ASSUME NEW q \in Requests, Aims(req'[q], t) PROVE FALSE
            <4>1. CASE q = r
                BY <1>1, <1>2, <3>1, <3>2, <4>1 DEF AimOK
            <4>2. CASE q # r
                BY <1>2, <3>1, <3>2, <4>2, AimsAtTasks
            <4> QED
                BY <4>1, <4>2
        <3> QED
            BY <3>1, <3>2
    <2>2. CASE p # r
        <3>1. Holds(p)
            BY <1>2, <1>3, <2>2 DEF Holds
        <3>2. PICK t \in TaskSet :
                 tasks[t] = Offer /\ \A q \in Requests : Aims(req[q], t) => req[q].at = "assign"
            BY <3>1 DEF RInv, OfferKept
        <3>3. tasks'[t] = Offer /\ t \in TaskSet'
            BY <3>1, <3>2, OfferStays DEF StepOK, RowsCome
        <3>4. Aims(x, t) => x.at = "assign"
            BY <1>1, <3>2 DEF AimOK
        <3> QED
            BY <1>2, <3>2, <3>3, <3>4
    <2> QED
        BY <2>1, <2>2
<1> QED
    BY <1>3 DEF OfferKept, Holds, Offer, NewTask, Aims, OfTask

LEMMA StepKeepsRInv ==
    ASSUME IInv, RInv, NEW r \in Requests, StepOK(r)
    PROVE  RInv'
BY StepKeepsAimed, StepKeepsUntouched, StepKeepsOffer DEF RInv
-----------------------------------------------------------------------------
(***************************************************************************)
(* The parts steps are made of.                                            *)
(***************************************************************************)
\* The case is not made to wait for a reopening by this step.
NoNewWait == caseStatus' = "PENDING_REOPENING" => caseStatus = "PENDING_REOPENING"

LEMMA Unwritten ==
    ASSUME NEW r \in Requests, UNCHANGED taskVars, NoNewWait
    PROVE  RowsMove(r) /\ RowsCome /\ TaskSet' = TaskSet
BY DEF taskVars, TaskSet, RowsMove, RowsCome, NoNewWait

LEMMA RowWritten ==
    ASSUME IInv, NEW r \in Requests, NEW t \in TaskSet, NEW s, NEW u, WriteTask(r, t, s, u),
           Aims(req[r], t), NoNewWait,
           req[r].at = "assign" /\ tasks[t].name = "Investigate" => \A q \in Requests \ {r} : ~Holds(q),
           tasks[t].name = "ApproveReopening" => s = "COMPLETED" /\ caseStatus' # "PENDING_REOPENING"
    PROVE  RowsMove(r) /\ RowsCome /\ TaskSet' = TaskSet
<1> DEFINE new == NewTask(tasks[t].name, s, u)
<1>1. tasks' = [tasks EXCEPT ![t] = new]
    BY DEF WriteTask
<1>2. new.name = tasks[t].name /\ new.status = s
    BY DEF NewTask
<1> HIDE DEF new
<1>3. Len(tasks') = Len(tasks) /\ \A o \in TaskSet : tasks'[o] = IF o = t THEN new ELSE tasks[o]
    BY <1>1, TasksAreRows
<1>4. TaskSet' = TaskSet
    BY <1>3 DEF TaskSet
<1>5. RowsMove(r)
    BY <1>2, <1>3 DEF RowsMove
<1> QED
    BY <1>4, <1>5 DEF RowsCome, NoNewWait

LEMMA RowInserted ==
    ASSUME IInv, NEW r \in Requests, NEW n, InsertTask(n, "UNASSIGNED", NoUser),
           n = "ApproveReopening" \/ NoNewWait
    PROVE  /\ RowsMove(r) /\ RowsCome
           /\ \E t \in TaskSet' \ TaskSet : tasks'[t] = NewTask(n, "UNASSIGNED", NoUser)
<1> DEFINE new == NewTask(n, "UNASSIGNED", NoUser)
           last == Len(tasks) + 1
<1>1. tasks' = Append(tasks, new)
    BY DEF InsertTask
<1>2. new.name = n /\ (n = "ApproveReopening" => new = Approval)
    BY DEF NewTask, Approval
<1> HIDE DEF new
<1>3. Len(tasks') = last /\ tasks'[last] = new /\ \A o \in TaskSet : tasks'[o] = tasks[o]
    BY <1>1, TasksAreRows
<1>4. TaskSet' = TaskSet \union {last} /\ last \notin TaskSet
    BY <1>3, TasksAreRows DEF TaskSet
<1> HIDE DEF last
<1>5. RowsMove(r)
    BY <1>3 DEF RowsMove
<1>6. RowsCome
    BY <1>2, <1>3, <1>4 DEF RowsCome, NoNewWait
<1> QED
    BY <1>3, <1>4, <1>5, <1>6 DEF new

\* A step that ends the request.
LEMMA Ends ==
    ASSUME IInv, NEW r \in Requests, RowsMove(r), RowsCome, Done(r)
    PROVE  StepOK(r)
<1>1. Idle.at = "idle" /\ Idle.todo = {} /\ "idle" \notin OfTask
    BY DEF Idle, OfTask
<1> HIDE DEF Idle
<1>2. AimOK(r, Idle) /\ LockOK(Idle)
    BY <1>1 DEF AimOK, LockOK, Aims
<1> QED
    BY <1>2 DEF Done, StepOK

\* A step after which the request owes a write to no task in particular.
LEMMA EndsAimless ==
    ASSUME IInv, NEW r \in Requests, RowsMove(r), RowsCome,
           NEW step, NEW u, NEW t, NEW arg, step \notin OfTask, Goes(r, step, u, t, {}, arg)
    PROVE  StepOK(r)
<1> DEFINE x == Owes(step, u, t, {}, arg)
<1>1. req' = [req EXCEPT ![r] = x]
    BY DEF Goes
<1>2. x.at = step /\ x.todo = {} /\ "approveReopen" \in OfTask
    BY DEF Owes, OfTask
<1> HIDE DEF x
<1>3. AimOK(r, x) /\ LockOK(x)
    BY <1>2 DEF AimOK, LockOK, Aims
<1> QED
    BY <1>1, <1>3 DEF StepOK

\* A step after which the request owes more writes to tasks it aims at already.
LEMMA KeepsAim ==
    ASSUME IInv, NEW r \in Requests, RowsMove(r), RowsCome,
           NEW step, NEW u, NEW t, NEW todo, NEW arg, Goes(r, step, u, t, todo, arg),
           step \in OfTask => t = req[r].task /\ req[r].at \in OfTask,
           todo \subseteq req[r].todo,
           req[r].at # "assign", req[r].at \in ReopenSteps <=> step \in ReopenSteps,
           step = "approveReopen" => \E o \in TaskSet' \ TaskSet : tasks'[o] = Offer
    PROVE  StepOK(r)
<1> DEFINE x == Owes(step, u, t, todo, arg)
<1>1. req' = [req EXCEPT ![r] = x]
    BY DEF Goes
<1>2. x.at = step /\ x.task = t /\ x.todo = todo
    BY DEF Owes
<1> HIDE DEF x
<1>3. \A o : Aims(x, o) => Aims(req[r], o)
    BY <1>2 DEF Aims
<1>4. AimOK(r, x)
    BY <1>2, <1>3, AimsAtTasks DEF AimOK
<1>5. LockOK(x)
    BY <1>2 DEF LockOK
<1> QED
    BY <1>1, <1>4, <1>5 DEF StepOK

\* A check that has passed: the request now aims at a task, or at some.
LEMMA TakesAim ==
    ASSUME IInv, NEW r \in Requests, UNCHANGED <<caseVars, taskVars>>,
           NEW step, NEW u, NEW t, NEW todo, NEW arg, Goes(r, step, u, t, todo, arg),
           step # "approveReopen", todo \subseteq TaskSet, step \in OfTask => t \in TaskSet,
           \A o \in TaskSet : (step \in OfTask /\ o = t) \/ o \in todo =>
               /\ tasks[o].name = "ApproveReopening" <=> step \in ReopenSteps
               /\ tasks[o] = Offer => step = "assign"
    PROVE  StepOK(r)
<1> DEFINE x == Owes(step, u, t, todo, arg)
<1>1. req' = [req EXCEPT ![r] = x]
    BY DEF Goes
<1>2. x.at = step /\ x.task = t /\ x.todo = todo
    BY DEF Owes
<1> HIDE DEF x
<1>3. RowsMove(r) /\ RowsCome
    BY Unwritten DEF caseVars, NoNewWait
<1>4. TaskSet' = TaskSet
    BY DEF TaskSet, taskVars
<1>5. AimOK(r, x)
    BY <1>2, <1>4 DEF AimOK, Aims
<1> QED
    BY <1>1, <1>2, <1>3, <1>5 DEF StepOK, LockOK
-----------------------------------------------------------------------------
(***************************************************************************)
(* One step per action: the checks that offer a task.                      *)
(***************************************************************************)
\* What a free investigation and the approval of a reopening look like.
LEMMA OfferLooks ==
    ASSUME IInv, NEW t \in TaskSet
    PROVE  /\ tasks[t] = Offer => /\ tasks[t].name = "Investigate"
                                  /\ tasks[t].status = "UNASSIGNED"
                                  /\ tasks[t].assignee = NoUser
           /\ tasks[t] = Approval => tasks[t].status = "UNASSIGNED" /\ tasks[t].assignee = NoUser
           /\ tasks[t].assignee \in Users \union {NoUser} /\ NoUser \notin Users
<1>1. tasks[t] \in Task
    BY TasksAreRows, ElementOfSeq
<1>2. tasks[t].assignee \in Users \union {NoUser} /\ NoUser \notin Users
    BY <1>1, UsersAssumption DEF Task
<1>3. /\ Offer.name = "Investigate" /\ Offer.status = "UNASSIGNED" /\ Offer.assignee = NoUser
      /\ Approval.status = "UNASSIGNED" /\ Approval.assignee = NoUser
    BY DEF Offer, Approval, NewTask
<1> QED
    BY <1>2, <1>3

LEMMA TaskChecksOK ==
    ASSUME IInv, RInv, ViaUI, NEW r \in Requests, NEW u \in Users, NEW t \in TaskSet,
           \/ \E a \in Users : AssignCheck(r, u, t, a)
           \/ UnassignCheck(r, u, t)
           \/ \E s \in TaskStatuses, a \in Users \union {NoUser} : PatchCheck(r, u, t, s, a)
           \/ CompleteCheck(r, u, t)
    PROVE  StepOK(r)
<1>1. tasks[t].name = "ApproveReopening" => tasks[t].status = "COMPLETED" \/ tasks[t].assignee = NoUser
    BY OfferLooks DEF RInv, Untouched
<1>2. CASE \E a \in Users : AssignCheck(r, u, t, a)
    <2>1. PICK a \in Users : AssignCheck(r, u, t, a)
        BY <1>2
    <2>2. tasks[t].name # "ApproveReopening"
        BY <1>1, <2>1 DEF AssignCheck, AssignOffered, UnassignOffered, TableOffers, ApprovalTasks
    <2>3. Goes(r, "assign", u, t, {}, a) /\ UNCHANGED <<caseVars, taskVars>>
        BY <2>1 DEF AssignCheck
    <2> QED
        BY <2>2, <2>3, TakesAim DEF ReopenSteps
<1>3. CASE UnassignCheck(r, u, t)
    <2>1. tasks[t].name # "ApproveReopening" /\ tasks[t].assignee # NoUser
        BY <1>1, <1>3 DEF UnassignCheck
    <2>2. Goes(r, "unassign", u, t, {}, None) /\ UNCHANGED <<caseVars, taskVars>>
        BY <1>3 DEF UnassignCheck
    <2>3. tasks[t] # Offer
        BY <2>1, OfferLooks
    <2> QED
        BY <2>1, <2>2, <2>3, TakesAim DEF ReopenSteps
<1>4. CASE \E s \in TaskStatuses, a \in Users \union {NoUser} : PatchCheck(r, u, t, s, a)
    <2>1. PICK s \in TaskStatuses, a \in Users \union {NoUser} : PatchCheck(r, u, t, s, a)
        BY <1>4
    <2>2. tasks[t].name # "ApproveReopening" /\ tasks[t].assignee = u
        BY <1>1, <2>1, OfferLooks DEF PatchCheck, PatchOffered, StartOffered, FinishOffered, TableOffers
    <2>3. PICK step \in {"promote", "patch"} : Goes(r, step, a, t, {}, s)
        BY <2>1 DEF PatchCheck
    <2>4. tasks[t] # Offer
        BY <2>2, OfferLooks
    <2>5. UNCHANGED <<caseVars, taskVars>>
        BY <2>1 DEF PatchCheck
    <2> QED
        BY <2>2, <2>3, <2>4, <2>5, TakesAim DEF ReopenSteps
<1>5. CASE CompleteCheck(r, u, t)
    <2>1. tasks[t].name = "SAR"
        BY <1>5 DEF CompleteCheck, FileOffered
    <2>2. Goes(r, "complete", u, t, {}, None) /\ UNCHANGED <<caseVars, taskVars>>
        BY <1>5 DEF CompleteCheck
    <2> QED
        BY <2>1, <2>2, OfferLooks, TakesAim DEF ReopenSteps
<1> QED
    BY <1>2, <1>3, <1>4, <1>5

\* Suspending and resuming: investigations in progress, or blocked.
LEMMA SuspensionChecksOK ==
    ASSUME IInv, RInv, ViaUI, NEW r \in Requests, NEW u \in Users,
           (\E T \in SUBSET TaskSet : SuspendCheck(r, u, T)) \/ ResumeCheck(r, u)
    PROVE  StepOK(r)
<1>1. PICK step \in {"suspend", "resume"}, T \in SUBSET Investigations({"IN_PROGRESS", "BLOCKED"}) :
         Goes(r, step, u, 0, T, None)
    BY DEF SuspendCheck, ResumeCheck, Investigations, Having
<1>2. UNCHANGED <<caseVars, taskVars>>
    BY DEF SuspendCheck, ResumeCheck
<1>3. T \subseteq TaskSet /\ \A o \in T : tasks[o].name = "Investigate" /\ tasks[o].status # "UNASSIGNED"
    BY DEF Investigations, Having, Named
<1>4. \A o \in T : tasks[o] # Offer
    BY <1>3, OfferLooks
<1>5. step \notin OfTask /\ step \notin ReopenSteps /\ step # "approveReopen"
    BY DEF OfTask, ReopenSteps
<1> QED
    BY <1>1, <1>2, <1>3, <1>4, <1>5, TakesAim

LEMMA ClosureChecksOK ==
    ASSUME IInv, RInv, ViaUI, NEW r \in Requests, NEW u \in Users,
           \/ \E o \in Verdicts : CloseCheck(r, u, o)
           \/ \E t \in TaskSet, o \in Verdicts : ApproveCheck(r, u, t, o)
           \/ \E returning \in BOOLEAN : ReviewCheck(r, u, returning)
    PROVE  StepOK(r)
<1>1. CASE \E o \in Verdicts : CloseCheck(r, u, o)
    <2> DEFINE started == Investigations({"IN_PROGRESS", "COMPLETED"})
    <2>1. PICK o \in Verdicts : CloseCheck(r, u, o)
        BY <1>1
    <2>2. PICK step \in {"direct", "submit"} : Goes(r, step, u, Latest(started), {}, o)
        BY <2>1 DEF CloseCheck
    <2>3. Latest(started) \in started
        <3>1. started \subseteq TaskSet /\ started # {}
            BY <2>1 DEF CloseCheck, Investigations, Having, Named
        <3> QED
            BY <3>1, LatestIsATask
    <2>4. \A t \in started : t \in TaskSet /\ tasks[t].name = "Investigate" /\ tasks[t].status # "UNASSIGNED"
        BY DEF Investigations, Having, Named
    <2> DEFINE t == Latest(started)
    <2> HIDE DEF started
    <2>5. tasks[t] # Offer
        BY <2>3, <2>4, OfferLooks
    <2>6. UNCHANGED <<caseVars, taskVars>>
        BY <2>1 DEF CloseCheck
    <2> HIDE DEF t
    <2> QED
        BY <2>2, <2>3, <2>4, <2>5, <2>6, TakesAim DEF t, ReopenSteps
<1>2. CASE \E t \in TaskSet, o \in Verdicts : ApproveCheck(r, u, t, o)
    <2>1. PICK t \in TaskSet, o \in Verdicts : ApproveCheck(r, u, t, o)
        BY <1>2
    <2>2. tasks[t].name = "ApproveClosure" /\ Goes(r, "approve", u, t, {}, o)
          /\ UNCHANGED <<caseVars, taskVars>>
        BY <2>1 DEF ApproveCheck, Having, Named
    <2> QED
        BY <2>2, OfferLooks, TakesAim DEF ReopenSteps
<1>3. CASE \E returning \in BOOLEAN : ReviewCheck(r, u, returning)
    <2> DEFINE t == ApprovalTask
    <2>1. PICK returning \in BOOLEAN : ReviewCheck(r, u, returning)
        BY <1>3
    <2>2. PICK step \in {"claimOnly", "claimReturn", "claim", "return", "findInvestigator"} :
             Goes(r, step, u, t, {}, None)
        BY <2>1 DEF ReviewCheck
    <2>3. t \in TaskSet /\ tasks[t].name = "ApproveClosure"
        <3>1. Named("ApproveClosure") \subseteq TaskSet /\ Named("ApproveClosure") # {}
            BY <2>1 DEF ReviewCheck, Named
        <3>2. t \in Named("ApproveClosure")
            BY <3>1, LatestIsATask DEF ApprovalTask
        <3> QED
            BY <3>2 DEF Named
    <2>4. UNCHANGED <<caseVars, taskVars>>
        BY <2>1 DEF ReviewCheck
    <2> HIDE DEF t
    <2>5. tasks[t] # Offer
        BY <2>3, OfferLooks
    <2>6. step # "approveReopen" /\ step \notin ReopenSteps
        BY DEF ReopenSteps
    <2> QED
        BY <2>2, <2>3, <2>4, <2>5, <2>6, TakesAim
<1> QED
    BY <1>1, <1>2, <1>3

LEMMA ReopeningChecksOK ==
    ASSUME IInv, RInv, NEW r \in Requests, NEW u \in Users,
           \/ ReopenCheck(r, u)
           \/ \E t \in TaskSet : ApproveReopeningCheck(r, u, t) \/ RejectReopeningCheck(r, u, t)
    PROVE  StepOK(r)
<1>1. CASE ReopenCheck(r, u)
    <2>1. PICK step \in {"reopen", "requestReopen"} : Goes(r, step, u, 0, {}, None)
        BY <1>1 DEF ReopenCheck
    <2>2. UNCHANGED <<caseVars, taskVars>>
        BY <1>1 DEF ReopenCheck
    <2> QED
        BY <2>1, <2>2, TakesAim DEF OfTask
<1>2. CASE \E t \in TaskSet : ApproveReopeningCheck(r, u, t) \/ RejectReopeningCheck(r, u, t)
    <2>1. PICK t \in TaskSet : ApproveReopeningCheck(r, u, t) \/ RejectReopeningCheck(r, u, t)
        BY <1>2
    <2>2. PICK step \in {"insertReopen", "rejectReopen"}, o \in Outcomes \union {None} :
             Goes(r, step, u, t, {}, o)
        <3>1. CASE ApproveReopeningCheck(r, u, t)
            BY <3>1 DEF ApproveReopeningCheck
        <3>2. CASE RejectReopeningCheck(r, u, t)
            BY <3>2, RequestKnown DEF RejectReopeningCheck, Outcomes
        <3> QED
            BY <2>1, <3>1, <3>2
    <2>3. tasks[t].name = "ApproveReopening" /\ UNCHANGED <<caseVars, taskVars>>
        BY <2>1 DEF ApproveReopeningCheck, RejectReopeningCheck, Having, Named
    <2> QED
        BY <2>2, <2>3, OfferLooks, TakesAim DEF ReopenSteps
<1> QED
    BY <1>1, <1>2
-----------------------------------------------------------------------------
(***************************************************************************)
(* One step per action: the writes.                                        *)
(***************************************************************************)
\* A request that writes an ordinary task aims at one that approves no reopening.
LEMMA OrdinaryAim ==
    ASSUME IInv, RInv, NEW r \in Requests, req[r].at \in OfTask \ ReopenSteps
    PROVE  /\ req[r].task \in TaskSet /\ Aims(req[r], req[r].task)
           /\ tasks[req[r].task].name # "ApproveReopening"
BY RequestKnown DEF RequestOK, RInv, Aimed, Aims

LEMMA TaskWritesOK ==
    ASSUME IInv, RInv, NEW r \in Requests,
           AssignCommit(r) \/ UnassignCommit(r) \/ PatchCommit(r) \/ CompleteCommit(r)
    PROVE  StepOK(r)
<1> DEFINE t == req[r].task
<1>1. req[r].at \in OfTask \ ReopenSteps
    BY DEF AssignCommit, UnassignCommit, PatchCommit, CompleteCommit, OfTask, ReopenSteps
<1>2. t \in TaskSet /\ Aims(req[r], t) /\ tasks[t].name # "ApproveReopening"
    BY <1>1, OrdinaryAim
<1>3. NoNewWait
    <2>1. Commented \/ UNCHANGED caseVars => NoNewWait
        BY DEF Commented, rowVars, caseVars, NoNewWait
    <2> QED
        BY <2>1 DEF AssignCommit, UnassignCommit, PatchCommit, CompleteCommit, WriteCase, NoNewWait
<1>4. \E s, u : WriteTask(r, t, s, u)
    BY DEF AssignCommit, UnassignCommit, PatchCommit, CompleteCommit
<1>5. req[r].at = "assign" /\ tasks[t].name = "Investigate" => \A q \in Requests \ {r} : ~Holds(q)
    BY DEF AssignCommit, UnassignCommit, PatchCommit, CompleteCommit, WriteCase
<1>6. Done(r)
    BY DEF AssignCommit, UnassignCommit, PatchCommit, CompleteCommit
<1> HIDE DEF t
<1> QED
    BY <1>2, <1>3, <1>4, <1>5, <1>6, RowWritten, Ends

LEMMA SuspensionWritesOK ==
    ASSUME IInv, RInv, NEW r \in Requests,
           \/ SuspendCase(r) \/ ResumeCase(r)
           \/ \E t \in req[r].todo : BlockTask(r, t) \/ UnblockTask(r, t)
    PROVE  StepOK(r)
<1>1. CASE SuspendCase(r) \/ ResumeCase(r)
    <2>1. PICK step \in {"block", "unblock"} : Goes(r, step, req[r].by, 0, req[r].todo, None)
        BY <1>1 DEF SuspendCase, ResumeCase
    <2>2. req[r].at \in {"suspend", "resume"} /\ UNCHANGED taskVars /\ NoNewWait
        BY <1>1 DEF SuspendCase, ResumeCase, WriteCase, NoNewWait
    <2> QED
        BY <2>1, <2>2, Unwritten, KeepsAim DEF OfTask, ReopenSteps
<1>2. CASE \E t \in req[r].todo : BlockTask(r, t) \/ UnblockTask(r, t)
    <2>1. PICK t \in req[r].todo : BlockTask(r, t) \/ UnblockTask(r, t)
        BY <1>2
    <2>2. req[r].at \in {"block", "unblock"}
        BY <2>1 DEF BlockTask, UnblockTask
    <2>3. t \in TaskSet /\ Aims(req[r], t) /\ tasks[t].name # "ApproveReopening"
        BY <2>2, RequestKnown DEF RequestOK, RInv, Aimed, Aims, ReopenSteps
    <2>4. (\E s, u : WriteTask(r, t, s, u)) /\ NoNewWait
        BY <2>1 DEF BlockTask, UnblockTask, Comments, Commented, WriteCase, rowVars, caseVars, NoNewWait
    <2>5. RowsMove(r) /\ RowsCome
        BY <2>2, <2>3, <2>4, RowWritten
    <2>6. Done(r) \/ Goes(r, req[r].at, req[r].by, 0, req[r].todo \ {t}, None)
        BY <2>1 DEF BlockTask, UnblockTask, Rest
    <2>7. CASE Done(r)
        BY <2>5, <2>7, Ends
    <2>8. CASE Goes(r, req[r].at, req[r].by, 0, req[r].todo \ {t}, None)
        BY <2>2, <2>5, <2>8, KeepsAim DEF OfTask
    <2> QED
        BY <2>6, <2>7, <2>8
<1> QED
    BY <1>1, <1>2

\* A closure that is written: DirectClosure, RecommendClosure, ApproveClosure.
LEMMA ClosureWritesOK ==
    ASSUME IInv, RInv, NEW r \in Requests,
           DirectClosure(r) \/ RecommendClosure(r) \/ ApproveClosure(r)
    PROVE  StepOK(r)
<1> DEFINE t == req[r].task
<1>1. req[r].at \in {"direct", "recommend", "approve"}
    BY DEF DirectClosure, RecommendClosure, ApproveClosure
<1>2. t \in TaskSet /\ Aims(req[r], t) /\ tasks[t].name # "ApproveReopening"
    BY <1>1, OrdinaryAim DEF OfTask, ReopenSteps
<1>3. caseStatus' \in Outcomes \union {"PENDING_CLOSURE"}
    BY RequestKnown DEF DirectClosure, RecommendClosure, ApproveClosure, WriteCase, RequestOK
<1>4. NoNewWait
    BY <1>3 DEF NoNewWait, Outcomes
<1>5. \E s, u : WriteTask(r, t, s, u)
    BY DEF DirectClosure, RecommendClosure, ApproveClosure
<1>6. Done(r) \/ Goes(r, "fileSAR", req[r].by, 0, {}, None)
    BY DEF DirectClosure, RecommendClosure, ApproveClosure, ThenSAR
<1> HIDE DEF t
<1>7. RowsMove(r) /\ RowsCome
    BY <1>1, <1>2, <1>4, <1>5, RowWritten
<1>8. CASE Done(r)
    BY <1>7, <1>8, Ends
<1>9. CASE Goes(r, "fileSAR", req[r].by, 0, {}, None)
    BY <1>7, <1>9, EndsAimless DEF OfTask
<1> QED
    BY <1>6, <1>8, <1>9

LEMMA ClosureInsertsOK ==
    ASSUME IInv, RInv, NEW r \in Requests, SubmitClosure(r) \/ FileSAR(r)
    PROVE  StepOK(r)
<1>1. UNCHANGED caseVars /\ \E n : InsertTask(n, "UNASSIGNED", NoUser)
    BY DEF SubmitClosure, FileSAR
<1>2. RowsMove(r) /\ RowsCome
    BY <1>1, RowInserted DEF caseVars, NoNewWait
<1>3. CASE SubmitClosure(r)
    <2>1. req[r].at = "submit" /\ Goes(r, "recommend", req[r].by, req[r].task, {}, req[r].arg)
        BY <1>3 DEF SubmitClosure
    <2> QED
        BY <1>2, <2>1, KeepsAim DEF OfTask, ReopenSteps
<1>4. CASE FileSAR(r)
    BY <1>2, <1>4, Ends DEF FileSAR
<1> QED
    BY <1>3, <1>4

LEMMA ClaimApprovalOK ==
    ASSUME IInv, RInv, NEW r \in Requests, ClaimApproval(r)
    PROVE  StepOK(r)
<1> DEFINE t == req[r].task
<1>1. req[r].at \in {"claim", "claimReturn", "claimOnly"}
    BY DEF ClaimApproval
<1>2. t \in TaskSet /\ Aims(req[r], t) /\ tasks[t].name # "ApproveReopening"
    BY <1>1, OrdinaryAim DEF OfTask, ReopenSteps
<1>3. NoNewWait /\ WriteTask(r, t, "ASSIGNED", req[r].by)
    BY DEF ClaimApproval, caseVars, NoNewWait
<1>4. Done(r) \/ \E step \in {"findInvestigator", "return"} : Goes(r, step, req[r].by, t, {}, None)
    BY DEF ClaimApproval
<1> HIDE DEF t
<1>5. RowsMove(r) /\ RowsCome
    BY <1>1, <1>2, <1>3, RowWritten
<1>6. CASE Done(r)
    BY <1>5, <1>6, Ends
<1>7. ASSUME NEW step \in {"findInvestigator", "return"}, Goes(r, step, req[r].by, t, {}, None)
      PROVE  StepOK(r)
    BY <1>5, <1>7, EndsAimless DEF OfTask
<1> QED
    BY <1>4, <1>6, <1>7

\* Steps that read, or find nothing to write.
LEMMA ClosureReadsOK ==
    ASSUME IInv, NEW r \in Requests, ReturnCase(r) \/ FindInvestigator(r) \/ RejectNotFound(r) \/ Fail(r)
    PROVE  StepOK(r)
<1>1. UNCHANGED <<caseVars, taskVars>>
    BY ReturnRollsBack DEF FindInvestigator, RejectNotFound, Fail
<1>2. RowsMove(r) /\ RowsCome
    BY <1>1, Unwritten DEF caseVars, NoNewWait
<1>3. Done(r) \/ \E i : Goes(r, "reject", req[r].by, 0, {}, i)
    BY DEF ReturnCase, FindInvestigator, RejectNotFound, Fail
<1>4. CASE Done(r)
    BY <1>2, <1>4, Ends
<1>5. ASSUME NEW i, Goes(r, "reject", req[r].by, 0, {}, i)
      PROVE  StepOK(r)
    BY <1>2, <1>5, EndsAimless DEF OfTask
<1> QED
    BY <1>3, <1>4, <1>5

\* A rejection completes the approval of a closure and appends an investigation.
LEMMA RejectClosureOK ==
    ASSUME IInv, NEW r \in Requests, NEW t \in TaskSet, RejectClosure(r, t)
    PROVE  StepOK(r)
<1> DEFINE done == [tasks EXCEPT ![t].status = "COMPLETED"]
           new == NewTask("Investigate", "ASSIGNED", req[r].arg)
           last == Len(tasks) + 1
<1>1. tasks' = Append(done, new) /\ Done(r) /\ tasks[t].name = "ApproveClosure"
    BY DEF RejectClosure, Named
<1>2. caseStatus' = "IN_PROGRESS"
    BY DEF RejectClosure, WriteCase
<1>3. \A o \in TaskSet : done[o] = IF o = t THEN [tasks[t] EXCEPT !.status = "COMPLETED"] ELSE tasks[o]
    BY TasksAreRows
<1>4. /\ done \in Seq(Task) /\ Len(done) = Len(tasks)
      /\ done[t].name = "ApproveClosure"
    <2>1. tasks[t] \in Task
        BY TasksAreRows, ElementOfSeq
    <2>2. [tasks[t] EXCEPT !.status = "COMPLETED"] \in Task
          /\ [tasks[t] EXCEPT !.status = "COMPLETED"].name = tasks[t].name
        BY <2>1 DEF Task, TaskStatuses
    <2> DEFINE row == [tasks[t] EXCEPT !.status = "COMPLETED"]
    <2>3. done = [tasks EXCEPT ![t] = row]
        BY TasksAreRows
    <2> HIDE DEF row
    <2> QED
        BY <1>1, <1>3, <2>2, <2>3, TasksAreRows, ExceptSeq DEF row
<1>5. new.name = "Investigate"
    BY DEF NewTask
<1> HIDE DEF done, new
<1>6. Len(tasks') = last /\ tasks'[last] = new /\ \A o \in TaskSet : tasks'[o] = done[o]
    BY <1>1, <1>4, TasksAreRows, AppendProperties
<1>7. TaskSet' = TaskSet \union {last} /\ last \notin TaskSet
    BY <1>6, TasksAreRows DEF TaskSet
<1> HIDE DEF last
<1>8. \A o \in TaskSet : o # t => tasks'[o] = tasks[o]
    BY <1>3, <1>6
<1>9. tasks'[t].name = "ApproveClosure"
    BY <1>4, <1>6
<1>10. RowsMove(r)
    BY <1>1, <1>8, <1>9 DEF RowsMove
<1>11. RowsCome
    BY <1>2, <1>5, <1>6, <1>7 DEF RowsCome
<1> QED
    BY <1>1, <1>10, <1>11, Ends

LEMMA ReopeningWritesOK ==
    ASSUME IInv, RInv, NEW r \in Requests,
           ReopenCase(r) \/ RequestReopening(r) \/ InsertReopenedTask(r)
    PROVE  StepOK(r)
<1>1. CASE ReopenCase(r)
    <2>1. InsertTask("Investigate", "UNASSIGNED", NoUser) /\ Done(r) /\ NoNewWait
        BY <1>1 DEF ReopenCase, WriteCase, NoNewWait
    <2> QED
        BY <2>1, RowInserted, Ends
<1>2. CASE RequestReopening(r)
    <2>1. InsertTask("ApproveReopening", "UNASSIGNED", NoUser) /\ Done(r)
        BY <1>2 DEF RequestReopening
    <2> QED
        BY <2>1, RowInserted, Ends
<1>3. CASE InsertReopenedTask(r)
    <2>1. /\ InsertTask("Investigate", "UNASSIGNED", NoUser) /\ NoNewWait
          /\ req[r].at = "insertReopen"
          /\ Goes(r, "approveReopen", req[r].by, req[r].task, {}, None)
        BY <1>3 DEF InsertReopenedTask, caseVars, NoNewWait
    <2>2. RowsMove(r) /\ RowsCome /\ \E o \in TaskSet' \ TaskSet : tasks'[o] = Offer
        BY <2>1, RowInserted DEF Offer
    <2> QED
        BY <2>1, <2>2, KeepsAim DEF OfTask, ReopenSteps
<1> QED
    BY <1>1, <1>2, <1>3

\* The decision completes the approval task and takes the case out of its wait.
LEMMA ReopeningDecisionsOK ==
    ASSUME IInv, RInv, NEW r \in Requests, ApproveReopening(r) \/ RejectReopening(r)
    PROVE  StepOK(r)
<1> DEFINE t == req[r].task
<1>1. req[r].at \in {"approveReopen", "rejectReopen"}
    BY DEF ApproveReopening, RejectReopening
<1>2. t \in TaskSet /\ Aims(req[r], t)
    BY <1>1, RequestKnown DEF RequestOK, OfTask, Aims
<1>3. caseStatus' \in Outcomes \union {"READY"}
    BY RequestKnown DEF ApproveReopening, RejectReopening, WriteCase, RequestOK
<1>4. caseStatus' # "PENDING_REOPENING" /\ NoNewWait
    BY <1>3 DEF NoNewWait, Outcomes
<1>5. WriteTask(r, t, "COMPLETED", req[r].by) /\ Done(r)
    BY DEF ApproveReopening, RejectReopening
<1> HIDE DEF t
<1> QED
    BY <1>1, <1>2, <1>4, <1>5, RowWritten, Ends
-----------------------------------------------------------------------------
(***************************************************************************)
(* The theorems.                                                           *)
(***************************************************************************)
LEMMA NextStepOK ==
    ASSUME IInv, RInv, ViaUI, Next
    PROVE  \E r \in Requests : StepOK(r)
<1>1. PICK r \in Requests :
         TaskWorkNext(r) \/ SuspensionNext(r) \/ ClosureNext(r) \/ ReopeningNext(r) \/ Fail(r)
    BY DEF Next
<1>2. CASE TaskWorkNext(r)
    BY <1>2, TaskChecksOK, TaskWritesOK DEF TaskWorkNext
<1>3. CASE SuspensionNext(r)
    BY <1>3, SuspensionChecksOK, SuspensionWritesOK DEF SuspensionNext
<1>4. CASE ClosureNext(r)
    BY <1>4, ClosureChecksOK, ClosureWritesOK, ClosureInsertsOK, ClaimApprovalOK, ClosureReadsOK,
       RejectClosureOK DEF ClosureNext, AddComment
<1>5. CASE ReopeningNext(r)
    BY <1>5, ReopeningChecksOK, ReopeningWritesOK, ReopeningDecisionsOK DEF ReopeningNext
<1>6. CASE Fail(r)
    BY <1>6, ClosureReadsOK
<1> QED
    BY <1>1, <1>2, <1>3, <1>4, <1>5, <1>6

LEMMA InitRInv == Init => RInv
<1> SUFFICES ASSUME Init PROVE RInv
    OBVIOUS
<1>1. \A r \in Requests : req[r] = Idle
    BY DEF Init
<1>2. Idle.at = "idle" /\ Idle.todo = {} /\ "idle" \notin OfTask
    BY DEF Idle, OfTask
<1> HIDE DEF Idle
<1>3. Aimed /\ OfferKept
    BY <1>1, <1>2 DEF Aimed, Aims, OfferKept, Holds
<1>4. caseStatus # "PENDING_REOPENING"
    BY DEF Init, AutoClosed
<1>5. Untouched
    BY DEF Init, Untouched, TaskSet, NewTask
<1> QED
    BY <1>3, <1>4, <1>5 DEF RInv, Waits

LEMMA NextKeepsRInv ==
    ASSUME IInv, RInv, ViaUI, [Next]_vars
    PROVE  RInv'
<1>1. CASE Next
    BY <1>1, NextStepOK, StepKeepsRInv
<1>2. CASE UNCHANGED vars
    BY <1>2 DEF vars, RInv, Aimed, Aims, Untouched, Waits, OfferKept, Holds, TaskSet
<1> QED
    BY <1>1, <1>2

LEMMA RInvInvariant == ViaUI => (Spec => [](IInv /\ RInv))
<1> SUFFICES ASSUME ViaUI PROVE Spec => [](IInv /\ RInv)
    OBVIOUS
<1>1. Init => IInv /\ RInv
    BY InitIInv, InitRInv
<1>2. IInv /\ RInv /\ [Next]_vars => (IInv /\ RInv)'
    BY NextKeepsIInv, NextKeepsRInv
<1> QED
    BY <1>1, <1>2, PTL DEF Spec

\* However many requests of the client ask for a reopening, approve and reject it at
\* once, and wherever some are lost, a pending reopening can be decided: its approval
\* task comes with the status in one transaction, and whoever completes one takes
\* the case out of that status in the same transaction.
THEOREM ReopeningAlwaysHasApproval == ViaUI => (Spec => []ReopeningHasApproval)
<1> SUFFICES ASSUME ViaUI PROVE Spec => []ReopeningHasApproval
    OBVIOUS
<1>1. RInv => ReopeningHasApproval
    BY DEF RInv, Waits, ReopeningHasApproval, OpenTasks, Named, Approval, NewTask
<1> QED
    BY <1>1, RInvInvariant, PTL

\* However the requests of the client overlap, the investigation that a granted
\* reopening inserted before its own transaction is free when that commits: nobody
\* but an assignment aims at it, and that waits for the lock on the case.
THEOREM ReopenedAlwaysOffersWork == ViaUI => (Spec => ReopenedOffersWork)
<1> SUFFICES ASSUME ViaUI PROVE Spec => ReopenedOffersWork
    OBVIOUS
<1> DEFINE Free == \E t \in DOMAIN tasks' : tasks'[t].name = "Investigate" /\ tasks'[t].status = "UNASSIGNED"
<1>1. ASSUME IInv, RInv, [Next]_vars, NEW p \in Requests, Holds(p)
      PROVE  Free
    <2>1. PICK t \in TaskSet :
             tasks[t] = Offer /\ \A q \in Requests : Aims(req[q], t) => req[q].at = "assign"
        BY <1>1 DEF RInv, OfferKept
    <2>2. tasks'[t] = Offer /\ t \in TaskSet'
        <3>1. CASE Next
            <4>1. PICK r \in Requests : StepOK(r)
                BY <1>1, <3>1, NextStepOK
            <4> QED
                BY <1>1, <2>1, <4>1, OfferStays DEF StepOK, RowsCome
        <3>2. CASE UNCHANGED vars
            BY <2>1, <3>2 DEF vars, TaskSet
        <3> QED
            BY <1>1, <3>1, <3>2
    <2>3. t \in DOMAIN tasks'
        <3>1. tasks' \in Seq(Task)
            BY <1>1, NextKeepsIInv DEF IInv, TypeOK, StoreTypeOK
        <3> QED
            BY <2>2, <3>1 DEF TaskSet
    <2> QED
        BY <2>2, <2>3 DEF Offer, NewTask
<1>2. IInv /\ RInv /\ [Next]_vars =>
         [\A r \in Requests : req[r].at = "approveReopen" /\ caseStatus' = "READY" => Free]_vars
    BY <1>1 DEF Holds
<1> QED
    BY <1>2, RInvInvariant, PTL DEF Spec, ReopenedOffersWork

-----------------------------------------------------------------------------
(***************************************************************************)
(* What holds of a case as long as one request at a time works on it.      *)
(*                                                                         *)
(* First with any call, and any of them lost: KeepsOwner and               *)
(* ClosedAsDecided.  A handler reads the case, checks, and writes in a     *)
(* later transaction: a promise about two columns holds as long as nobody  *)
(* writes between.  The invariant says for each step a request may owe     *)
(* what its check has read and is still so.                                *)
(*                                                                         *)
(* Then what the workflow promises to people who use the web client, when  *)
(* no request is lost: NoDeadEnds, ClosedIsComplete and the lifecycle of   *)
(* CaseLifecycle, for any staff, any verdicts and any bound on the tasks.  *)
(* The invariant: of the tasks of one name only the last can be open, and  *)
(* the status of the case says which names have an open task and in whose  *)
(* hands it is (Shape).  Between two transactions of a request the rows    *)
(* have another shape, given for each step it may owe (Flight).            *)
(***************************************************************************)

OneAtATime == \A r, q \in Requests : r = q
-----------------------------------------------------------------------------
(***************************************************************************)
(* Any call, any of them lost: the owner and the outcome.                  *)
(***************************************************************************)
OwnedSteps == {"suspend", "resume", "submit", "recommend", "claim", "findInvestigator", "reject"}

\* There is an owner, or there was none when this case was taken into work, which
\* the web client does not do.
Owned == caseOwner # NoUser \/ (caseStatus \in OwnedStatuses /\ ~ViaUI)

CaseSound ==
    /\ caseStatus \in OwnedStatuses => Owned
    /\ caseStatus \in Outcomes => finalOutcome \in {caseStatus, None}

\* What a request x counts on.
CountsOn(x) ==
    /\ x.at \in OwnedSteps => Owned
    /\ x.at = "rejectReopen" => finalOutcome \in {x.arg, None}

SInv == CaseSound /\ \A r \in Requests : CountsOn(req[r])

\* What a step of r has to show.
OwnerStays(r) == Unowned' => Unowned \/ (req[r].at = "promote" /\ req[r].by = NoUser)
SoundRow(r) == CaseSound' /\ OwnerStays(r)
Sound(r) == SoundRow(r) /\ \E x : req' = [req EXCEPT ![r] = x] /\ CountsOn(x)'

LEMMA SoundKeepsSInv ==
    ASSUME IInv, OneAtATime, NEW r \in Requests, Sound(r)
    PROVE  SInv'
<1>1. PICK x : req' = [req EXCEPT ![r] = x] /\ CountsOn(x)'
    BY DEF Sound
<1>2. \A q \in Requests : req'[q] = x
    BY <1>1 DEF IInv, TypeOK, StoreTypeOK, OneAtATime
<1> QED
    BY <1>1, <1>2 DEF Sound, SoundRow, SInv, CountsOn, Owned

\* A request that ends, or goes on to a step that counts on nothing.
LEMMA SoundlyDone ==
    ASSUME NEW r \in Requests, SoundRow(r), Done(r)
    PROVE  Sound(r)
<1>1. Idle.at = "idle"
    BY DEF Idle
<1> HIDE DEF Idle
<1> QED
    BY <1>1 DEF Done, Sound, CountsOn, OwnedSteps

LEMMA SoundlyGoes ==
    ASSUME NEW r \in Requests, NEW step, NEW u, NEW t, NEW todo, NEW arg, SoundRow(r),
           Goes(r, step, u, t, todo, arg),
           step \in OwnedSteps => Owned',
           step = "rejectReopen" => finalOutcome' \in {arg, None}
    PROVE  Sound(r)
<1> DEFINE x == Owes(step, u, t, todo, arg)
<1>1. x.at = step /\ x.arg = arg /\ req' = [req EXCEPT ![r] = x]
    BY DEF Owes, Goes
<1> HIDE DEF x
<1> QED
    BY <1>1 DEF Sound, CountsOn

\* The status in which some of the calls are allowed.
LEMMA AllowedStatus ==
    ASSUME NEW u \in Users
    PROVE  /\ Tier2(u, "suspend") => caseStatus = "IN_PROGRESS"
           /\ Tier2(u, "resume") => caseStatus = "SUSPENDED"
           /\ Tier2(u, "close") => caseStatus = "IN_PROGRESS"
           /\ Tier2(u, "complete") => caseStatus \in {"IN_PROGRESS", "CONFIRMED"}
           /\ Tier2(u, "reopen") => caseStatus \in Closed
           /\ Tier2(u, "decideClosure") => caseStatus = "PENDING_CLOSURE"
           /\ Tier2(u, "decideReopening") => caseStatus = "PENDING_REOPENING"
           /\ Tier2(u, "task") =>
                caseStatus \in Desk \union {"PENDING_CLOSURE", "PENDING_REOPENING", "CONFIRMED"}
BY DEF Tier2, InvestigatorTier2, SupervisorTier2, ComplianceTier2

LEMMA UnchangedIsSound ==
    ASSUME SInv, NEW r \in Requests, UNCHANGED rowVars
    PROVE  SoundRow(r) /\ (Owned => Owned') /\ finalOutcome' = finalOutcome
BY DEF SInv, CaseSound, SoundRow, OwnerStays, Unowned, Owned, rowVars

\* The case row stays, whether somebody comments on the case or not.
LEMMA RowStays ==
    ASSUME UNCHANGED caseVars \/ Commented \/ \E r, t : Comments(r, t)
    PROVE  UNCHANGED rowVars
BY DEF caseVars, rowVars, Commented, Comments

LEMMA ChecksAreSound ==
    ASSUME SInv, IInv, NEW r \in Requests, UNCHANGED rowVars,
           NEW step \in {"assign", "unassign", "patch", "promote", "complete", "direct", "approve",
                         "claimOnly", "claimReturn", "return", "block", "unblock", "fileSAR",
                         "reopen", "requestReopen", "insertReopen", "approveReopen"},
           NEW u, NEW t, NEW todo, NEW arg, Goes(r, step, u, t, todo, arg)
    PROVE  Sound(r)
BY UnchangedIsSound, SoundlyGoes DEF OwnedSteps

LEMMA TaskWorkIsSound ==
    ASSUME IInv, SInv, NEW r \in Requests, TaskWorkNext(r)
    PROVE  Sound(r)
<1>1. ASSUME NEW u \in Users, NEW t \in TaskSet,
             \/ \E a \in Users : AssignCheck(r, u, t, a)
             \/ UnassignCheck(r, u, t)
             \/ \E s \in TaskStatuses, a \in Users \union {NoUser} : PatchCheck(r, u, t, s, a)
             \/ CompleteCheck(r, u, t)
      PROVE  Sound(r)
    <2>1. UNCHANGED rowVars
        BY <1>1, RowStays DEF AssignCheck, UnassignCheck, PatchCheck, CompleteCheck
    <2>2. PICK step \in {"assign", "unassign", "patch", "promote", "complete"} :
             \E v, arg : Goes(r, step, v, t, {}, arg)
        BY <1>1 DEF AssignCheck, UnassignCheck, PatchCheck, CompleteCheck
    <2> QED
        BY <2>1, <2>2, ChecksAreSound
<1>2. ASSUME AssignCommit(r) \/ UnassignCommit(r) \/ PatchCommit(r) \/ CompleteCommit(r)
      PROVE  Sound(r)
    <2>1. Done(r)
        BY <1>2 DEF AssignCommit, UnassignCommit, PatchCommit, CompleteCommit
    <2>2. req[r].at = "promote" /\ ViaUI => req[r].by \in Users
        BY RequestKnown DEF RequestOK
    <2>3. SoundRow(r)
        <3>1. CASE UNCHANGED rowVars
            BY <3>1, UnchangedIsSound
        <3>2. CASE \E u : WriteCase(r, "ASSIGNED", u, finalOutcome) \/ WriteCase(r, "READY", u, finalOutcome)
            BY <3>2 DEF WriteCase, SoundRow, CaseSound, OwnerStays, Unowned, OwnedStatuses, Outcomes
        <3>3. CASE /\ req[r].at = "promote"
                   /\ WriteCase(r, "IN_PROGRESS",
                                IF req[r].by = NoUser THEN caseOwner ELSE req[r].by, finalOutcome)
            BY <2>2, <3>3, RequestKnown
               DEF WriteCase, SoundRow, CaseSound, OwnerStays, Unowned, Owned, OwnedStatuses, Outcomes
        <3> QED
            BY <1>2, <3>1, <3>2, <3>3, RowStays DEF AssignCommit, UnassignCommit, PatchCommit, CompleteCommit
    <2> QED
        BY <2>1, <2>3, SoundlyDone
<1> QED
    BY <1>1, <1>2 DEF TaskWorkNext

LEMMA SuspensionIsSound ==
    ASSUME IInv, SInv, NEW r \in Requests, SuspensionNext(r)
    PROVE  Sound(r)
<1>1. ASSUME NEW u \in Users, (\E T \in SUBSET TaskSet : SuspendCheck(r, u, T)) \/ ResumeCheck(r, u)
      PROVE  Sound(r)
    <2>1. UNCHANGED rowVars /\ caseStatus \in OwnedStatuses
        BY <1>1, AllowedStatus, RowStays DEF SuspendCheck, ResumeCheck, OwnedStatuses
    <2>2. PICK step \in {"suspend", "resume"} : \E T : Goes(r, step, u, 0, T, None)
        BY <1>1 DEF SuspendCheck, ResumeCheck
    <2>3. Owned
        BY <2>1 DEF SInv, CaseSound
    <2> QED
        BY <2>1, <2>2, <2>3, UnchangedIsSound, SoundlyGoes
<1>2. ASSUME SuspendCase(r) \/ ResumeCase(r)
      PROVE  Sound(r)
    <2>1. PICK step \in {"block", "unblock"} : Goes(r, step, req[r].by, 0, req[r].todo, None)
        BY <1>2 DEF SuspendCase, ResumeCase
    <2>2. PICK s \in {"SUSPENDED", "IN_PROGRESS"} : WriteCase(r, s, caseOwner, finalOutcome)
        BY <1>2 DEF SuspendCase, ResumeCase
    <2>3. Owned
        BY <1>2 DEF SuspendCase, ResumeCase, SInv, CountsOn, OwnedSteps
    <2>4. SoundRow(r)
        BY <2>2, <2>3 DEF WriteCase, SoundRow, CaseSound, OwnerStays, Unowned, Owned, OwnedStatuses, Outcomes
    <2> QED
        BY <2>1, <2>4, SoundlyGoes DEF OwnedSteps
<1>3. ASSUME NEW t \in req[r].todo, BlockTask(r, t) \/ UnblockTask(r, t)
      PROVE  Sound(r)
    <2>1. req[r].at \in {"block", "unblock"} /\ req[r].by \in Users
        BY <1>3, RequestKnown DEF BlockTask, UnblockTask, RequestOK
    <2>2. SoundRow(r)
        <3>1. CASE UNCHANGED rowVars
            BY <3>1, UnchangedIsSound
        <3>2. CASE WriteCase(r, "IN_PROGRESS", req[r].by, finalOutcome)
            BY <2>1, <3>2, RequestKnown DEF WriteCase, SoundRow, CaseSound, OwnerStays, Unowned, Owned, Outcomes
        <3> QED
            BY <1>3, <3>1, <3>2, RowStays DEF BlockTask, UnblockTask
    <2>3. Done(r) \/ Goes(r, req[r].at, req[r].by, 0, req[r].todo \ {t}, None)
        BY <1>3 DEF BlockTask, UnblockTask, Rest
    <2>4. CASE Done(r)
        BY <2>2, <2>4, SoundlyDone
    <2>5. CASE Goes(r, req[r].at, req[r].by, 0, req[r].todo \ {t}, None)
        BY <2>1, <2>2, <2>5, SoundlyGoes DEF OwnedSteps
    <2> QED
        BY <2>3, <2>4, <2>5
<1> QED
    BY <1>1, <1>2, <1>3 DEF SuspensionNext

LEMMA ClosureIsSound ==
    ASSUME IInv, SInv, NEW r \in Requests, ClosureNext(r)
    PROVE  Sound(r)
<1>1. ASSUME NEW u \in Users, NEW o \in Verdicts, CloseCheck(r, u, o)
      PROVE  Sound(r)
    <2>1. UNCHANGED rowVars /\ Owned
        BY <1>1, AllowedStatus, RowStays DEF CloseCheck, SInv, CaseSound, OwnedStatuses
    <2>2. PICK step \in {"direct", "submit"} : \E t : Goes(r, step, u, t, {}, o)
        BY <1>1 DEF CloseCheck
    <2> QED
        BY <2>1, <2>2, UnchangedIsSound, SoundlyGoes
<1>2. ASSUME NEW u \in Users, NEW t \in TaskSet, NEW o \in Verdicts, ApproveCheck(r, u, t, o)
      PROVE  Sound(r)
    BY <1>2, ChecksAreSound, RowStays DEF ApproveCheck
<1>3. ASSUME NEW u \in Users, NEW returning \in BOOLEAN, ReviewCheck(r, u, returning)
      PROVE  Sound(r)
    <2>1. UNCHANGED rowVars /\ Owned
        BY <1>3, RowStays DEF ReviewCheck, SInv, CaseSound, OwnedStatuses
    <2>2. PICK step \in {"claimOnly", "claimReturn", "claim", "return", "findInvestigator"} :
             \E t : Goes(r, step, u, t, {}, None)
        BY <1>3 DEF ReviewCheck
    <2> QED
        BY <2>1, <2>2, UnchangedIsSound, SoundlyGoes
<1>4. ASSUME DirectClosure(r) \/ ApproveClosure(r)
      PROVE  Sound(r)
    <2>1. PICK o \in Outcomes : WriteCase(r, o, caseOwner, o) /\ ThenSAR(r, o)
        BY <1>4, RequestKnown DEF DirectClosure, ApproveClosure, RequestOK
    <2>2. SoundRow(r)
        BY <2>1 DEF WriteCase, SoundRow, CaseSound, OwnerStays, Unowned, Outcomes, OwnedStatuses
    <2>3. CASE Done(r)
        BY <2>2, <2>3, SoundlyDone
    <2>4. CASE Goes(r, "fileSAR", req[r].by, 0, {}, None)
        BY <2>2, <2>4, SoundlyGoes DEF OwnedSteps
    <2> QED
        BY <2>1, <2>3, <2>4 DEF ThenSAR
<1>5. ASSUME SubmitClosure(r)
      PROVE  Sound(r)
    <2>1. UNCHANGED rowVars /\ Owned
        BY <1>5, RowStays DEF SubmitClosure, SInv, CountsOn, OwnedSteps
    <2>2. Goes(r, "recommend", req[r].by, req[r].task, {}, req[r].arg)
        BY <1>5 DEF SubmitClosure
    <2> QED
        BY <2>1, <2>2, UnchangedIsSound, SoundlyGoes
<1>6. ASSUME RecommendClosure(r)
      PROVE  Sound(r)
    <2>1. Owned
        BY <1>6 DEF RecommendClosure, SInv, CountsOn, OwnedSteps
    <2>2. SoundRow(r) /\ Done(r)
        BY <1>6, <2>1 DEF RecommendClosure, WriteCase, SoundRow, CaseSound, OwnerStays, Unowned, Owned,
                          OwnedStatuses, Outcomes
    <2> QED
        BY <2>2, SoundlyDone
<1>7. ASSUME FileSAR(r) \/ ReturnCase(r) \/ RejectNotFound(r)
      PROVE  Sound(r)
    <2>1. UNCHANGED rowVars /\ Done(r)
        BY <1>7, ReturnRollsBack, RowStays DEF FileSAR, ReturnCase, RejectNotFound
    <2> QED
        BY <2>1, UnchangedIsSound, SoundlyDone
<1>8. ASSUME ClaimApproval(r) \/ FindInvestigator(r)
      PROVE  Sound(r)
    <2>1. UNCHANGED rowVars
        BY <1>8, RowStays DEF ClaimApproval, FindInvestigator
    <2>2. CASE Done(r)
        BY <2>1, <2>2, UnchangedIsSound, SoundlyDone
    <2>3. ASSUME ~Done(r)
          PROVE  \E step \in {"return", "findInvestigator", "reject"} : \E t, i :
                    /\ Goes(r, step, req[r].by, t, {}, i)
                    /\ step \in OwnedSteps => Owned
        BY <1>8, <2>3 DEF ClaimApproval, FindInvestigator, SInv, CountsOn, OwnedSteps
    <2> QED
        BY <2>1, <2>2, <2>3, UnchangedIsSound, SoundlyGoes
<1>9. ASSUME NEW t \in TaskSet, RejectClosure(r, t)
      PROVE  Sound(r)
    <2>1. Owned
        BY <1>9 DEF RejectClosure, SInv, CountsOn, OwnedSteps
    <2>2. SoundRow(r) /\ Done(r)
        BY <1>9, <2>1 DEF RejectClosure, WriteCase, SoundRow, CaseSound, OwnerStays, Unowned, Owned,
                          OwnedStatuses, Outcomes
    <2> QED
        BY <2>2, SoundlyDone
<1>10. ASSUME NEW u \in Users, AddComment(r, u)
       PROVE  Sound(r)
    <2>1. SoundRow(r) /\ (Owned => Owned') /\ finalOutcome' = finalOutcome
        BY <1>10, UnchangedIsSound, RowStays DEF AddComment
    <2>2. req' = [req EXCEPT ![r] = req[r]] /\ CountsOn(req[r])
        BY <1>10 DEF AddComment, SInv, IInv, TypeOK, StoreTypeOK
    <2>3. PICK x : x = req[r]
        OBVIOUS
    <2> QED
        BY <2>1, <2>2, <2>3 DEF Sound, CountsOn
<1> QED
    BY <1>1, <1>2, <1>3, <1>4, <1>5, <1>6, <1>7, <1>8, <1>9, <1>10 DEF ClosureNext

LEMMA ReopeningIsSound ==
    ASSUME IInv, SInv, NEW r \in Requests, ReopeningNext(r)
    PROVE  Sound(r)
<1>1. ASSUME \/ InsertReopenedTask(r)
             \/ \E u \in Users : ReopenCheck(r, u) \/ \E t \in TaskSet : ApproveReopeningCheck(r, u, t)
      PROVE  Sound(r)
    <2>1. UNCHANGED rowVars
        BY <1>1, RowStays DEF ReopenCheck, ApproveReopeningCheck, InsertReopenedTask
    <2>2. PICK step \in {"reopen", "requestReopen", "insertReopen", "approveReopen"} :
             \E v, t : Goes(r, step, v, t, {}, None)
        BY <1>1 DEF ReopenCheck, ApproveReopeningCheck, InsertReopenedTask
    <2> QED
        BY <2>1, <2>2, ChecksAreSound
<1>2. ASSUME NEW u \in Users, NEW t \in TaskSet, RejectReopeningCheck(r, u, t)
      PROVE  Sound(r)
    <2> DEFINE o == IF finalOutcome = None THEN "INCONCLUSIVE" ELSE finalOutcome
    <2>1. UNCHANGED rowVars /\ Goes(r, "rejectReopen", u, t, {}, o)
        BY <1>2, RowStays DEF RejectReopeningCheck
    <2>2. finalOutcome \in {o, None}
        OBVIOUS
    <2> HIDE DEF o
    <2> QED
        BY <2>1, <2>2, UnchangedIsSound, SoundlyGoes DEF OwnedSteps
<1>3. ASSUME ReopenCase(r) \/ RequestReopening(r) \/ ApproveReopening(r)
      PROVE  Sound(r)
    <2>1. SoundRow(r) /\ Done(r)
        BY <1>3 DEF ReopenCase, RequestReopening, ApproveReopening, WriteCase, SoundRow, CaseSound,
                    OwnerStays, Unowned, OwnedStatuses, Outcomes
    <2> QED
        BY <2>1, SoundlyDone
<1>4. ASSUME RejectReopening(r)
      PROVE  Sound(r)
    <2>1. req[r].arg \in Outcomes /\ finalOutcome \in {req[r].arg, None}
        BY <1>4, RequestKnown DEF RejectReopening, RequestOK, SInv, CountsOn
    <2>2. SoundRow(r) /\ Done(r)
        BY <1>4, <2>1 DEF RejectReopening, WriteCase, SoundRow, CaseSound, OwnerStays, Unowned,
                          OwnedStatuses, Outcomes
    <2> QED
        BY <2>2, SoundlyDone
<1> QED
    BY <1>1, <1>2, <1>3, <1>4 DEF ReopeningNext

\* Every step of the system is one of these.
LEMMA NextIsSound ==
    ASSUME IInv, SInv, Next
    PROVE  \E r \in Requests : Sound(r)
<1>1. PICK r \in Requests :
         TaskWorkNext(r) \/ SuspensionNext(r) \/ ClosureNext(r) \/ ReopeningNext(r) \/ Fail(r)
    BY DEF Next
<1>2. Fail(r) => Sound(r)
    BY UnchangedIsSound, RowStays, SoundlyDone DEF Fail
<1> QED
    BY <1>1, <1>2, TaskWorkIsSound, SuspensionIsSound, ClosureIsSound, ReopeningIsSound

LEMMA SInvInvariant == OneAtATime => (Spec => [](IInv /\ SInv))
<1> SUFFICES ASSUME OneAtATime PROVE Spec => [](IInv /\ SInv)
    OBVIOUS
<1>1. Init => IInv /\ SInv
    <2>1. Idle.at = "idle"
        BY DEF Idle
    <2> HIDE DEF Idle
    <2>2. Init => SInv
        BY <2>1 DEF Init, SInv, CaseSound, CountsOn, OwnedStatuses, OwnedSteps, AutoClosed, Outcomes
    <2> QED
        BY <2>2, InitIInv
<1>2. IInv /\ SInv /\ [Next]_vars => (IInv /\ SInv)'
    <2> SUFFICES ASSUME IInv, SInv, [Next]_vars PROVE SInv'
        BY NextKeepsIInv
    <2>1. CASE UNCHANGED vars
        BY <2>1 DEF vars, SInv, CaseSound, CountsOn, Owned
    <2>2. CASE Next
        BY <2>2, NextIsSound, SoundKeepsSInv
    <2> QED
        BY <2>1, <2>2
<1> QED
    BY <1>1, <1>2, PTL DEF Spec

\* One request at a time, any call and any of them lost: a case in work, suspended or
\* waiting for its closure keeps an owner.  Whoever takes a case into work becomes its
\* owner, but for the PATCH that leaves an unassigned investigation unassigned, and
\* only a case in work is suspended or closed.
THEOREM OwnersStay == OneAtATime => (Spec => KeepsOwner)
<1> SUFFICES ASSUME OneAtATime PROVE Spec => KeepsOwner
    OBVIOUS
<1>1. IInv /\ SInv /\ [Next]_vars =>
         [Unowned' => Unowned \/ \E r \in Requests : req[r].at = "promote" /\ req[r].by = NoUser]_vars
    BY NextIsSound DEF Sound, SoundRow, OwnerStays
<1> QED
    BY <1>1, SInvInvariant, PTL DEF Spec, KeepsOwner

\* One request at a time: the status of a closed case and its final_outcome agree,
\* through reopenings that are rejected or never decided.
THEOREM AlwaysClosedAsDecided == OneAtATime => (Spec => []ClosedAsDecided)
<1> SUFFICES ASSUME OneAtATime PROVE Spec => []ClosedAsDecided
    OBVIOUS
<1>1. SInv => ClosedAsDecided
    BY DEF SInv, CaseSound, ClosedAsDecided
<1> QED
    BY <1>1, SInvInvariant, PTL
-----------------------------------------------------------------------------
(***************************************************************************)
(* From the web client, and none lost.                                     *)
(***************************************************************************)
\* t is the last task of name n.
LastOf(n, t) == t \in Named(n) /\ \A o \in Named(n) : o <= t
Top(n, S, a) == \E t \in TaskSet : LastOf(n, t) /\ tasks[t].status \in S /\ tasks[t].assignee = a
Finished(N) == \A t \in TaskSet : tasks[t].name \in N => tasks[t].status = "COMPLETED"

Sole == \A t \in TaskSet : tasks[t].status # "COMPLETED" => LastOf(tasks[t].name, t)

\* An outcome rests on a completed investigation.
Investigated ==
    finalOutcome # None =>
        \E t \in TaskSet : tasks[t].name = "Investigate" /\ tasks[t].status = "COMPLETED"

\* While a case is worked on nothing waits for a decision or a filing.
DeskDone == Finished({"ApproveClosure", "ApproveReopening", "SAR"})

\* The investigation is over, and the owner is who completed it last.
Concluded ==
    /\ Finished({"Investigate", "ApproveReopening", "SAR"})
    /\ caseOwner # NoUser
    /\ \E w \in TaskSet : LastCompleted = {w} /\ tasks[w].assignee = caseOwner

Shape ==
    /\ caseStatus = "READY" => DeskDone /\ Top("Investigate", {"UNASSIGNED"}, NoUser)
    /\ caseStatus = "ASSIGNED" =>
          DeskDone /\ caseOwner # NoUser /\ Top("Investigate", {"ASSIGNED"}, caseOwner)
    /\ caseStatus = "IN_PROGRESS" =>
          /\ DeskDone /\ caseOwner # NoUser
          /\ Top("Investigate", {"ASSIGNED", "IN_PROGRESS", "COMPLETED"}, caseOwner)
    /\ caseStatus = "SUSPENDED" =>
          /\ DeskDone /\ caseOwner # NoUser
          /\ \E t \in TaskSet : LastOf("Investigate", t) /\ tasks[t].status = "BLOCKED"
    /\ caseStatus = "PENDING_CLOSURE" => Concluded /\ Top("ApproveClosure", {"UNASSIGNED"}, NoUser)
    /\ caseStatus = "PENDING_REOPENING" =>
          /\ Finished({"Investigate", "ApproveClosure", "SAR"})
          /\ Top("ApproveReopening", {"UNASSIGNED"}, NoUser)
          /\ finalOutcome = "CONFIRMED" => Named("SAR") # {}
    /\ caseStatus \in Closed =>
          /\ Finished({"Investigate", "ApproveClosure", "ApproveReopening"})
          /\ caseStatus # "CONFIRMED" => Finished({"SAR"})
          /\ caseStatus = "CONFIRMED" => Named("SAR") # {}
    /\ caseStatus \in AutoClosed => finalOutcome = None

\* Steps before which a request has written nothing.
Before ==
    {"idle", "assign", "unassign", "patch", "promote", "complete", "suspend", "resume", "submit",
     "direct", "approve", "claim", "reopen", "requestReopen", "insertReopen", "rejectReopen"}

\* A request q that works on one task: on an open investigation of a case under
\* work, or on an open filing.
FlightOnTask(q) ==
    /\ q.at \in {"assign", "unassign", "patch", "promote", "complete"} =>
          tasks[q.task].status # "COMPLETED" /\ tasks[q.task].name \in {"Investigate", "SAR"}
    /\ q.at = "assign" /\ tasks[q.task].name = "Investigate" => caseStatus \in Desk
    /\ q.at = "unassign" /\ tasks[q.task].name = "Investigate" =>
          caseStatus \in {"ASSIGNED", "IN_PROGRESS"}
    /\ q.at = "patch" /\ tasks[q.task].name = "Investigate" =>
          /\ caseStatus = "IN_PROGRESS" /\ q.arg \in {"IN_PROGRESS", "COMPLETED"}
          /\ q.by = tasks[q.task].assignee
    /\ q.at = "promote" =>
          /\ tasks[q.task].name = "Investigate"
          /\ caseStatus = "ASSIGNED" /\ q.arg = "IN_PROGRESS"
          /\ q.by = tasks[q.task].assignee
    /\ q.at = "complete" => tasks[q.task].name = "SAR"

\* It suspends or resumes the one investigation that is open.
FlightOnCase(q) ==
    /\ q.at \in {"suspend", "block", "resume", "unblock"} =>
          \E t \in TaskSet :
              q.todo = {t} /\ LastOf("Investigate", t) /\ tasks[t].status # "COMPLETED"
    /\ q.at = "suspend" => caseStatus = "IN_PROGRESS"
    /\ q.at = "block" => caseStatus = "SUSPENDED" /\ DeskDone /\ caseOwner # NoUser
    /\ q.at = "resume" => caseStatus = "SUSPENDED" /\ q.by = caseOwner
    /\ q.at = "unblock" =>
          caseStatus = "IN_PROGRESS" /\ q.by = caseOwner /\ DeskDone /\ caseOwner # NoUser

\* It closes the case, or decides on its closure.
FlightOnClosure(q) ==
    /\ q.at \in {"submit", "direct", "recommend"} =>
          /\ caseStatus = "IN_PROGRESS" /\ Finished({"Investigate"})
          /\ LastOf("Investigate", q.task) /\ tasks[q.task].assignee = caseOwner
    /\ q.at = "recommend" =>
          /\ Finished({"ApproveReopening", "SAR"}) /\ caseOwner # NoUser
          /\ Top("ApproveClosure", {"UNASSIGNED"}, NoUser)
    /\ q.at \in {"approve", "claim"} =>
          caseStatus = "PENDING_CLOSURE" /\ LastOf("ApproveClosure", q.task)
    /\ q.at = "fileSAR" => caseStatus = "CONFIRMED" /\ Finished(TaskNames)
    /\ q.at \in {"findInvestigator", "reject"} =>
          caseStatus = "PENDING_CLOSURE" /\ Concluded /\ Top("ApproveClosure", {"ASSIGNED"}, q.by)
    /\ q.at = "reject" => q.arg = caseOwner

\* It reopens the case, or decides on its reopening.
FlightOnReopening(q) ==
    /\ q.at \in {"reopen", "requestReopen"} => caseStatus \in Closed /\ Finished({"SAR"})
    /\ q.at \in {"insertReopen", "rejectReopen", "approveReopen"} =>
          caseStatus = "PENDING_REOPENING" /\ LastOf("ApproveReopening", q.task)
    /\ q.at = "rejectReopen" => q.arg = IF finalOutcome = None THEN "INCONCLUSIVE" ELSE finalOutcome
    /\ q.at = "approveReopen" =>
          Finished({"ApproveClosure", "SAR"}) /\ Top("Investigate", {"UNASSIGNED"}, NoUser)

Flight(q) ==
    /\ q.at \notin {"claimOnly", "claimReturn", "return"}
    /\ FlightOnTask(q) /\ FlightOnCase(q) /\ FlightOnClosure(q) /\ FlightOnReopening(q)

UInv ==
    /\ Sole
    /\ Investigated
    /\ (\A r \in Requests : req[r].at \in Before) => Shape
    /\ \A r \in Requests : Flight(req[r])

\* What the lemmas on single steps assume.
Now == IInv /\ SInv /\ UInv /\ OneAtATime /\ ViaUI

-----------------------------------------------------------------------------
(***************************************************************************)
(* Writing, inserting and leaving alone the rows.                          *)
(***************************************************************************)
LEMMA TasksKnown ==
    ASSUME IInv
    PROVE  Len(tasks) \in Nat /\ tasks \in Seq(Task) /\ TaskSet = 1..Len(tasks)
BY LenProperties DEF IInv, TypeOK, StoreTypeOK, TaskSet

LEMMA LastIsOne ==
    ASSUME IInv, NEW n, NEW t, NEW o, LastOf(n, t), LastOf(n, o)
    PROVE  t = o
BY TasksKnown DEF LastOf, Named

\* Writing the last task of a name leaves the others as they are.
LEMMA LastWritten ==
    ASSUME IInv, Sole, NEW r \in Requests, NEW n, NEW t, LastOf(n, t),
           NEW s, NEW u, WriteTask(r, t, s, u)
    PROVE  /\ t \in TaskSet /\ tasks[t].name = n
           /\ Sole'
           /\ \A N : Finished(N) /\ (s = "COMPLETED" \/ n \notin N) => Finished(N)'
           /\ s = "COMPLETED" => Finished({n})'
           /\ \A m, S, a : Top(m, S, a) /\ m # n => Top(m, S, a)'
           /\ \A S : s \in S => Top(n, S, u)'
           /\ \A m : Named(m)' = Named(m)
           /\ \A m, o : LastOf(m, o) => LastOf(m, o)'
           /\ TaskSet' = TaskSet
           /\ \A o \in TaskSet : o # t => tasks'[o] = tasks[o]
           /\ tasks'[t].name = n /\ tasks'[t].status = s /\ tasks'[t].assignee = u
<1> DEFINE new == NewTask(tasks[t].name, s, u)
<1>1. t \in TaskSet /\ tasks[t].name = n
    BY DEF LastOf, Named
<1>2. new.name = n /\ new.status = s /\ new.assignee = u
    BY <1>1 DEF NewTask
<1>3. TaskSet' = TaskSet /\ \A o \in TaskSet : tasks'[o] = IF o = t THEN new ELSE tasks[o]
    BY <1>1, TasksKnown DEF WriteTask, TaskSet
<1> HIDE DEF new
<1>4. \A o \in TaskSet : tasks'[o].name = tasks[o].name
    BY <1>1, <1>2, <1>3
<1>5. \A m : Named(m)' = Named(m)
    BY <1>3, <1>4 DEF Named
<1>6. \A m, o : LastOf(m, o)' <=> LastOf(m, o)
    BY <1>5 DEF LastOf
<1>7. Sole'
    BY <1>2, <1>3, <1>4, <1>6 DEF Sole
<1>8. \A N : Finished(N) /\ (s = "COMPLETED" \/ n \notin N) => Finished(N)'
    BY <1>1, <1>2, <1>3 DEF Finished
<1>9. s = "COMPLETED" => Finished({n})'
    <2>1. \A o \in TaskSet : o # t /\ tasks[o].name = n => tasks[o].status = "COMPLETED"
        BY LastIsOne DEF Sole
    <2> QED
        BY <1>1, <1>2, <1>3, <1>4, <2>1 DEF Finished
<1>10. \A m, S, a : Top(m, S, a) /\ m # n => Top(m, S, a)'
    <2>1. \A m, o : LastOf(m, o) /\ m # n => o # t
        BY <1>1 DEF LastOf, Named
    <2> QED
        BY <1>3, <1>6, <2>1 DEF Top
<1>11. \A S : s \in S => Top(n, S, u)'
    BY <1>1, <1>2, <1>3, <1>6 DEF Top
<1> QED
    BY <1>1, <1>2, <1>3, <1>5, <1>6, <1>7, <1>8, <1>9, <1>10, <1>11

LEMMA OtherTopStays ==
    ASSUME IInv, Sole, NEW r \in Requests, NEW n, NEW t, LastOf(n, t),
           NEW s, NEW u, WriteTask(r, t, s, u),
           NEW m, NEW S, NEW a, Top(m, S, a), m # n
    PROVE  Top(m, S, a)'
BY ZenonT(60), LastWritten

\* Inserting a task when all others of its name are completed.
LEMMA LastInserted ==
    ASSUME IInv, Sole, NEW n, Finished({n}), InsertTask(n, "UNASSIGNED", NoUser)
    PROVE  /\ Sole'
           /\ \A N : Finished(N) /\ n \notin N => Finished(N)'
           /\ Top(n, {"UNASSIGNED"}, NoUser)'
           /\ \A m, S, a : Top(m, S, a) /\ m # n => Top(m, S, a)'
           /\ \A m : Named(m) \subseteq Named(m)'
           /\ Named(n)' # {}
           /\ \A m, o : m # n /\ LastOf(m, o) => LastOf(m, o)'
           /\ TaskSet \subseteq TaskSet'
           /\ \A o \in TaskSet : tasks'[o] = tasks[o]
<1> DEFINE new == NewTask(n, "UNASSIGNED", NoUser)
<1>0. PICK last : last = Len(tasks) + 1
    OBVIOUS
<1>1. new.name = n /\ new.status = "UNASSIGNED" /\ new.assignee = NoUser
    BY DEF NewTask
<1>2. tasks' = Append(tasks, new)
    BY DEF InsertTask
<1> HIDE DEF new
<1>3. Len(tasks') = last /\ tasks'[last] = new /\ \A o \in TaskSet : tasks'[o] = tasks[o]
    BY <1>0, <1>2, TasksKnown
<1>4. TaskSet' = TaskSet \union {last} /\ last \notin TaskSet /\ \A o \in TaskSet' : o <= last
    BY <1>0, <1>3, TasksKnown DEF TaskSet
<1>5. \A m : Named(m)' = IF m = n THEN Named(m) \union {last} ELSE Named(m)
    BY <1>1, <1>3, <1>4 DEF Named
<1>6. \A m, o : m # n => (LastOf(m, o)' <=> LastOf(m, o))
    BY <1>5 DEF LastOf
<1>7. LastOf(n, last)'
    BY <1>4, <1>5 DEF LastOf, Named
<1>8. Sole'
    <2>1. SUFFICES ASSUME NEW t \in TaskSet', tasks'[t].status # "COMPLETED",
                          NEW m, m = tasks'[t].name
                   PROVE  LastOf(m, t)'
        BY DEF Sole, LastOf
    <2>2. CASE t = last
        BY <1>1, <1>3, <1>7, <2>1, <2>2
    <2>3. CASE t # last
        <3>1. t \in TaskSet /\ tasks'[t] = tasks[t]
            BY <1>3, <1>4, <2>3
        <3>2. tasks[t].name # n
            BY <2>1, <3>1 DEF Finished
        <3> QED
            BY <1>6, <2>1, <3>1, <3>2 DEF Sole
    <2> QED
        BY <2>2, <2>3
<1>9. \A N : Finished(N) /\ n \notin N => Finished(N)'
    BY <1>1, <1>3, <1>4 DEF Finished
<1>10. Top(n, {"UNASSIGNED"}, NoUser)'
    BY <1>1, <1>3, <1>4, <1>7 DEF Top
<1>11. \A m, S, a : Top(m, S, a) /\ m # n => Top(m, S, a)'
    BY <1>3, <1>4, <1>6 DEF Top
<1> QED
    BY <1>3, <1>4, <1>5, <1>6, <1>8, <1>9, <1>10, <1>11

\* Leaving everything alone.
LEMMA Same ==
    ASSUME UNCHANGED taskVars
    PROVE  /\ Sole' <=> Sole
           /\ \A N : Finished(N)' <=> Finished(N)
           /\ \A n, S, a : Top(n, S, a)' <=> Top(n, S, a)
           /\ \A n, o : LastOf(n, o)' <=> LastOf(n, o)
           /\ TaskSet' = TaskSet /\ tasks' = tasks
           /\ \A n : Named(n)' = Named(n)
BY DEF taskVars, Sole, Finished, Top, LastOf, Named, TaskSet

LEMMA SameCase ==
    ASSUME UNCHANGED <<caseVars, taskVars>>
    PROVE  (Shape' <=> Shape) /\ (Investigated' <=> Investigated) /\ (Sole' <=> Sole)
BY DEF caseVars, taskVars, Sole, Shape, Investigated, DeskDone, Concluded, Finished, Top, LastOf, Named,
       TaskSet, LastCompleted, Investigations, Having

\* The investigation completed last stays that while another task is written, ...
LEMMA LastCompletedStays ==
    ASSUME IInv, NEW r \in Requests, NEW t \in TaskSet, NEW s, NEW u, WriteTask(r, t, s, u),
           tasks[t].name # "Investigate"
    PROVE  LastCompleted' = LastCompleted
<1>1. TaskSet' = TaskSet /\ \A o \in TaskSet : tasks'[o] = IF o = t THEN NewTask(tasks[t].name, s, u) ELSE tasks[o]
    BY TasksKnown DEF WriteTask, TaskSet
<1>2. Investigations({"COMPLETED"})' = Investigations({"COMPLETED"}) /\ t \notin Investigations({"COMPLETED"})
    BY <1>1 DEF Investigations, Having, Named, NewTask
<1>3. newer' = {p \in newer : p[1] # t /\ p[2] # t}
    BY DEF WriteTask
<1>4. ASSUME NEW w \in Investigations({"COMPLETED"}), NEW o \in Investigations({"COMPLETED"})
      PROVE  <<w, o>> \in newer' <=> <<w, o>> \in newer
    BY <1>2, <1>3, <1>4
<1> QED
    BY <1>2, <1>4 DEF LastCompleted

\* ... and an investigation that is completed is the one completed last.
LEMMA CompletedLast ==
    ASSUME IInv, NEW r \in Requests, NEW t \in TaskSet, NEW u, WriteTask(r, t, "COMPLETED", u),
           tasks[t].name = "Investigate"
    PROVE  LastCompleted' = {t}
<1> DEFINE inv == Investigations({"COMPLETED"})
<1>1. TaskSet' = TaskSet
      /\ \A o \in TaskSet : tasks'[o] = IF o = t THEN NewTask(tasks[t].name, "COMPLETED", u) ELSE tasks[o]
    BY TasksKnown DEF WriteTask, TaskSet
<1>2. inv' = inv \union {t}
    BY <1>1 DEF Investigations, Having, Named, NewTask
<1>3. newer' = {p \in newer : p[1] # t /\ p[2] # t} \union ({t} \X (inv \ {t}))
    BY DEF WriteTask
<1> HIDE DEF inv
<1>4. \A o \in inv' \ {t} : <<t, o>> \in newer' /\ <<o, t>> \notin newer'
    BY <1>2, <1>3
<1> QED
    BY <1>2, <1>4 DEF LastCompleted, inv
-----------------------------------------------------------------------------
(***************************************************************************)
(* What a step of r has to show.                                           *)
(***************************************************************************)
Good(r) ==
    /\ Sole' /\ Investigated'
    /\ \E x : req' = [req EXCEPT ![r] = x] /\ (x.at \in Before => Shape') /\ Flight(x)'

LEMMA GoodKeepsUInv ==
    ASSUME Now, NEW r \in Requests, Good(r)
    PROVE  UInv'
<1>1. PICK x : req' = [req EXCEPT ![r] = x] /\ (x.at \in Before => Shape') /\ Flight(x)'
    BY DEF Good
<1>2. \A q \in Requests : req'[q] = x
    BY <1>1 DEF Now, IInv, TypeOK, StoreTypeOK, OneAtATime
<1>3. (\A q \in Requests : req'[q].at \in Before) => Shape'
    BY <1>1, <1>2
<1>4. \A q \in Requests : Flight(req[q])'
    BY <1>1, <1>2 DEF Flight, FlightOnTask, FlightOnCase, FlightOnClosure, FlightOnReopening
<1> QED
    BY <1>3, <1>4 DEF Good, UInv, Before

LEMMA Resting ==
    ASSUME Now, NEW r \in Requests, req[r].at \in Before
    PROVE  Shape
BY DEF Now, UInv, OneAtATime

LEMMA InFlight ==
    ASSUME Now, NEW r \in Requests
    PROVE  Flight(req[r]) /\ Sole /\ Investigated /\ IInv
BY DEF Now, UInv

\* The client's users do not comment on a pending closure: whatever is worked on
\* while one waits, no filing is.
LEMMA CommentsElsewhere ==
    ASSUME caseStatus # "PENDING_CLOSURE", Commented
    PROVE  UNCHANGED caseVars
BY DEF Commented, rowVars, caseVars

LEMMA FilingElsewhere ==
    ASSUME Now, NEW r \in Requests, req[r].at \in {"assign", "unassign"},
           tasks[req[r].task].name = "SAR", Commented \/ UNCHANGED caseVars
    PROVE  UNCHANGED caseVars
<1>1. req[r].task \in TaskSet /\ tasks[req[r].task].status # "COMPLETED"
    BY RequestKnown, InFlight DEF Now, RequestOK, OfTask, Flight, FlightOnTask
<1>2. Shape
    BY Resting DEF Before
<1>3. caseStatus # "PENDING_CLOSURE"
    BY <1>1, <1>2 DEF Shape, Concluded, Finished
<1> QED
    BY <1>3, CommentsElsewhere

\* A request that ends.
LEMMA GoodEnd ==
    ASSUME NEW r \in Requests, Sole', Investigated', Shape', Done(r)
    PROVE  Good(r)
<1>1. Idle.at = "idle"
    BY DEF Idle
<1> HIDE DEF Idle
<1>2. \A x : x.at = "idle" => Flight(x)'
    BY DEF Flight, FlightOnTask, FlightOnCase, FlightOnClosure, FlightOnReopening
<1>3. PICK x : x = Idle
    OBVIOUS
<1> QED
    BY <1>1, <1>2, <1>3 DEF Done, Good

\* A request that goes on between two transactions.
LEMMA GoodStep ==
    ASSUME NEW r \in Requests, Sole', Investigated', NEW x, req' = [req EXCEPT ![r] = x],
           x.at \notin Before, Flight(x)'
    PROVE  Good(r)
BY DEF Good

\* A check that has passed.
LEMMA GoodCheck ==
    ASSUME Now, NEW r \in Requests, req[r].at = "idle", UNCHANGED <<caseVars, taskVars>>,
           NEW x, req' = [req EXCEPT ![r] = x], Flight(x)
    PROVE  Good(r)
<1>1. Shape' /\ Sole' /\ Investigated'
    BY Resting, SameCase DEF Now, UInv, Before
<1>2. Flight(x)'
    <2>1. \A t : (LastOf("Investigate", t)' <=> LastOf("Investigate", t))
        BY Same
    <2>2. DeskDone' <=> DeskDone
        BY Same DEF DeskDone
    <2>3. Concluded' <=> Concluded
        BY DEF caseVars, taskVars, Concluded, Finished, TaskSet, LastCompleted, Investigations, Having, Named
    <2>4. FlightOnTask(x)'
        BY DEF Flight, FlightOnTask, caseVars, taskVars
    <2>5. FlightOnCase(x)'
        BY <2>1, <2>2, Same DEF Flight, FlightOnCase, caseVars, taskVars
    <2>6. FlightOnClosure(x)'
        BY <2>3, Same DEF Flight, FlightOnClosure, caseVars, taskVars
    <2>7. FlightOnReopening(x)'
        BY Same DEF Flight, FlightOnReopening, caseVars, taskVars
    <2> QED
        BY <2>4, <2>5, <2>6, <2>7 DEF Flight
<1> QED
    BY <1>1, <1>2 DEF Good
-----------------------------------------------------------------------------
(***************************************************************************)
(* What an open task tells.                                                *)
(***************************************************************************)
LEMMA GoesAs ==
    ASSUME NEW r \in Requests, NEW step, NEW u, NEW t, NEW todo, NEW arg,
           Goes(r, step, u, t, todo, arg)
    PROVE  \E x : /\ req' = [req EXCEPT ![r] = x]
                  /\ x.at = step /\ x.by = u /\ x.task = t /\ x.todo = todo /\ x.arg = arg
<1>1. PICK x : x = Owes(step, u, t, todo, arg)
    OBVIOUS
<1>2. req' = [req EXCEPT ![r] = x]
    BY <1>1 DEF Goes
<1>3. x.at = step /\ x.by = u /\ x.task = t /\ x.todo = todo /\ x.arg = arg
    BY <1>1 DEF Owes
<1> QED
    BY <1>2, <1>3

LEMMA OpenIsTop ==
    ASSUME Now, NEW t \in TaskSet, tasks[t].status # "COMPLETED"
    PROVE  /\ LastOf(tasks[t].name, t)
           /\ \A S, a : Top(tasks[t].name, S, a) => tasks[t].status \in S /\ tasks[t].assignee = a
BY LastIsOne DEF Now, UInv, Sole, Top

LEMMA KnownStatus ==
    ASSUME Now
    PROVE  /\ caseStatus \in {"READY", "ASSIGNED", "IN_PROGRESS", "SUSPENDED", "PENDING_CLOSURE",
                              "PENDING_REOPENING"} \union Closed
           /\ caseOwner \in Users \union {NoUser} /\ NoUser \notin Users
           /\ \A t \in TaskSet : tasks[t] \in Task /\ tasks[t].name \in TaskNames
<1>1. \A t \in TaskSet : tasks[t] \in Task
    BY TasksKnown, ElementOfSeq DEF Now
<1> QED
    BY <1>1, UsersAssumption DEF Now, IInv, TypeOK, StoreTypeOK, CaseStatuses, Task

\* An open investigation: the case is under work, and the task is with its owner.
LEMMA OpenInvestigation ==
    ASSUME Now, Shape, NEW t \in TaskSet, tasks[t].status # "COMPLETED", tasks[t].name = "Investigate"
    PROVE  /\ LastOf("Investigate", t)
           /\ caseStatus \in Desk \union {"SUSPENDED"}
           /\ caseStatus = "READY" => tasks[t].assignee = NoUser
           /\ caseStatus = "ASSIGNED" => tasks[t].status = "ASSIGNED" /\ tasks[t].assignee = caseOwner
           /\ caseStatus = "IN_PROGRESS" => tasks[t].assignee = caseOwner
           /\ caseStatus = "SUSPENDED" => tasks[t].status = "BLOCKED"
           /\ DeskDone
<1>1. LastOf("Investigate", t)
      /\ \A S, a : Top("Investigate", S, a) => tasks[t].status \in S /\ tasks[t].assignee = a
    BY OpenIsTop
<1>2. \A N : Finished(N) => "Investigate" \notin N
    BY DEF Finished
<1>3. caseStatus \notin {"PENDING_CLOSURE", "PENDING_REOPENING"} \union Closed
    BY <1>2 DEF Shape, Concluded
<1>4. caseStatus = "SUSPENDED" => tasks[t].status = "BLOCKED"
    BY <1>1, LastIsOne DEF Shape, Now
<1> QED
    BY <1>1, <1>3, <1>4, KnownStatus DEF Shape, Desk

\* An open approval at rest is in nobody's hands; an open filing is of a confirmed case.
LEMMA OpenOther ==
    ASSUME Now, Shape, NEW t \in TaskSet, tasks[t].status # "COMPLETED", tasks[t].name # "Investigate"
    PROVE  /\ LastOf(tasks[t].name, t)
           /\ tasks[t].name \in ApprovalTasks => tasks[t].assignee = NoUser
           /\ tasks[t].name = "SAR" => caseStatus = "CONFIRMED"
           /\ tasks[t].name \in ApprovalTasks \union {"SAR"}
<1>1. LastOf(tasks[t].name, t)
      /\ \A S, a : Top(tasks[t].name, S, a) => tasks[t].status \in S /\ tasks[t].assignee = a
    BY OpenIsTop
<1>2. \A N : Finished(N) => tasks[t].name \notin N
    BY DEF Finished
<1>3. tasks[t].name = "ApproveClosure" => caseStatus = "PENDING_CLOSURE"
    BY <1>2, KnownStatus DEF Shape, DeskDone
<1>4. tasks[t].name = "ApproveReopening" => caseStatus = "PENDING_REOPENING"
    BY <1>2, KnownStatus DEF Shape, DeskDone, Concluded
<1>5. tasks[t].name = "SAR" => caseStatus = "CONFIRMED"
    BY <1>2, KnownStatus DEF Shape, DeskDone, Concluded
<1> QED
    BY <1>1, <1>3, <1>4, <1>5, KnownStatus DEF Shape, ApprovalTasks, TaskNames
-----------------------------------------------------------------------------
(***************************************************************************)
(* Work on tasks.                                                          *)
(***************************************************************************)
LEMMA AssignCheckGood ==
    ASSUME Now, NEW r \in Requests, NEW u \in Users, NEW t \in TaskSet, NEW a \in Users,
           AssignCheck(r, u, t, a)
    PROVE  Good(r)
<1>1. /\ req[r].at = "idle" /\ UNCHANGED <<caseVars, taskVars>> /\ Tier2(u, "task")
      /\ AssignOffered(u, t) \/ UnassignOffered(u, t)
    BY DEF AssignCheck, Now
<1>2. Shape
    BY <1>1, Resting DEF Before
<1>3. tasks[t].status # "COMPLETED"
    BY <1>1 DEF AssignOffered, UnassignOffered, TableOffers
<1>4. tasks[t].name \in {"Investigate", "SAR"}
    BY <1>1, <1>2, <1>3, OpenOther DEF AssignOffered, UnassignOffered
<1>5. tasks[t].name = "Investigate" => caseStatus \in Desk
    BY <1>1, <1>2, <1>3, OpenInvestigation, AllowedStatus DEF Desk
<1>6. PICK x : /\ req' = [req EXCEPT ![r] = x]
               /\ x.at = "assign" /\ x.by = u /\ x.task = t /\ x.todo = {} /\ x.arg = a
    BY GoesAs DEF AssignCheck
<1>7. Flight(x)
    BY <1>3, <1>4, <1>5, <1>6 DEF Flight, FlightOnTask, FlightOnCase, FlightOnClosure, FlightOnReopening
<1> QED
    BY <1>1, <1>6, <1>7, GoodCheck

LEMMA UnassignCheckGood ==
    ASSUME Now, NEW r \in Requests, NEW u \in Users, NEW t \in TaskSet, UnassignCheck(r, u, t)
    PROVE  Good(r)
<1>1. /\ req[r].at = "idle" /\ UNCHANGED <<caseVars, taskVars>> /\ Tier2(u, "task")
      /\ tasks[t].status # "COMPLETED" /\ tasks[t].assignee # NoUser
    BY DEF UnassignCheck
<1>2. Shape
    BY <1>1, Resting DEF Before
<1>3. tasks[t].name \in {"Investigate", "SAR"}
    BY <1>1, <1>2, OpenOther
<1>4. tasks[t].name = "Investigate" => caseStatus \in {"ASSIGNED", "IN_PROGRESS"}
    BY <1>1, <1>2, OpenInvestigation, AllowedStatus DEF Desk
<1>5. PICK x : req' = [req EXCEPT ![r] = x] /\ x.at = "unassign" /\ x.task = t
    BY GoesAs DEF UnassignCheck
<1>6. Flight(x)
    BY <1>1, <1>3, <1>4, <1>5 DEF Flight, FlightOnTask, FlightOnCase, FlightOnClosure, FlightOnReopening
<1> QED
    BY <1>1, <1>5, <1>6, GoodCheck

LEMMA PatchCheckGood ==
    ASSUME Now, NEW r \in Requests, NEW u \in Users, NEW t \in TaskSet,
           NEW s \in TaskStatuses, NEW a \in Users \union {NoUser},
           PatchCheck(r, u, t, s, a)
    PROVE  Good(r)
<1>1. /\ req[r].at = "idle" /\ UNCHANGED <<caseVars, taskVars>> /\ a = u
      /\ PatchOffered(u, t, s)
    BY DEF PatchCheck, Now
<1>2. Shape
    BY <1>1, Resting DEF Before
<1>3. /\ tasks[t].status # "COMPLETED" /\ tasks[t].assignee = u /\ u # NoUser
      /\ s \in {"IN_PROGRESS", "COMPLETED"}
      /\ s = "COMPLETED" => tasks[t].status = "IN_PROGRESS" /\ tasks[t].name = "Investigate"
      /\ s = "IN_PROGRESS" => ~(tasks[t].status = "BLOCKED" /\ caseStatus = "SUSPENDED")
      /\ s = "IN_PROGRESS" => tasks[t].status # "IN_PROGRESS"
    BY <1>1, KnownStatus DEF PatchOffered, StartOffered, FinishOffered, TableOffers
<1>4. tasks[t].name \in {"Investigate", "SAR"}
    BY <1>2, <1>3, OpenOther
<1>5. tasks[t].name = "Investigate" =>
         caseStatus = "IN_PROGRESS" \/ (caseStatus = "ASSIGNED" /\ s = "IN_PROGRESS")
    BY <1>2, <1>3, OpenInvestigation DEF Desk
<1>6. Promotes(t, s) <=> tasks[t].name = "Investigate" /\ caseStatus = "ASSIGNED"
    BY <1>3, <1>5 DEF Promotes
<1>7. PICK x : /\ req' = [req EXCEPT ![r] = x]
               /\ x.at = IF Promotes(t, s) THEN "promote" ELSE "patch"
               /\ x.by = u /\ x.task = t /\ x.arg = s
    BY <1>1, GoesAs DEF PatchCheck
<1>8. Flight(x)
    BY <1>3, <1>4, <1>5, <1>6, <1>7
       DEF Flight, FlightOnTask, FlightOnCase, FlightOnClosure, FlightOnReopening
<1> QED
    BY <1>1, <1>7, <1>8, GoodCheck

LEMMA CompleteCheckGood ==
    ASSUME Now, NEW r \in Requests, NEW u \in Users, NEW t \in TaskSet, CompleteCheck(r, u, t)
    PROVE  Good(r)
<1>1. /\ req[r].at = "idle" /\ UNCHANGED <<caseVars, taskVars>>
      /\ tasks[t].status = "IN_PROGRESS" /\ tasks[t].name = "SAR"
    BY DEF CompleteCheck, FileOffered, Now
<1>2. PICK x : req' = [req EXCEPT ![r] = x] /\ x.at = "complete" /\ x.task = t
    BY GoesAs DEF CompleteCheck
<1>3. Flight(x)
    BY <1>1, <1>2 DEF Flight, FlightOnTask, FlightOnCase, FlightOnClosure, FlightOnReopening
<1> QED
    BY <1>1, <1>2, <1>3, GoodCheck

\* Work on the filing of a confirmed case changes nothing else.
LEMMA FilingWritten ==
    ASSUME Now, Shape, NEW r \in Requests, NEW t \in TaskSet, NEW s, NEW u, WriteTask(r, t, s, u),
           tasks[t].status # "COMPLETED", tasks[t].name = "SAR", UNCHANGED caseVars
    PROVE  Sole' /\ Investigated' /\ Shape'
<1>1. LastOf("SAR", t) /\ caseStatus = "CONFIRMED" /\ IInv /\ Sole
    BY OpenOther DEF Now, UInv
<1>2. /\ Sole' /\ TaskSet' = TaskSet /\ \A o \in TaskSet : o # t => tasks'[o] = tasks[o]
      /\ \A N : Finished(N) /\ "SAR" \notin N => Finished(N)'
      /\ Named("SAR")' = Named("SAR")
    BY ZenonT(60), <1>1, LastWritten
<1>3. caseStatus' = "CONFIRMED" /\ finalOutcome' = finalOutcome
    BY <1>1 DEF caseVars
<1>4. Investigated'
    BY <1>2, <1>3 DEF Now, UInv, Investigated
<1>5. Finished({"Investigate", "ApproveClosure", "ApproveReopening"})' /\ Named("SAR")' # {}
    BY <1>1, <1>2 DEF Shape, Closed, Outcomes
<1>6. Shape'
    <2>1. caseStatus' \notin AutoClosed
        BY <1>3 DEF AutoClosed
    <2> QED
        BY <1>3, <1>5, <2>1 DEF Shape
<1> QED
    BY <1>2, <1>4, <1>6

\* Work on the open investigation leaves the rest of the desk as it is.
LEMMA InvestigationWritten ==
    ASSUME Now, NEW r \in Requests, NEW t \in TaskSet, NEW s, NEW u, WriteTask(r, t, s, u),
           tasks[t].status # "COMPLETED", LastOf("Investigate", t), DeskDone,
           finalOutcome' = finalOutcome
    PROVE  /\ Sole' /\ Investigated' /\ DeskDone'
           /\ \A S : s \in S => Top("Investigate", S, u)'
           /\ TaskSet' = TaskSet /\ LastOf("Investigate", t)' /\ tasks'[t].status = s
<1>1. IInv /\ Sole /\ Investigated
    BY DEF Now, UInv
<1>2. /\ TaskSet' = TaskSet /\ \A o \in TaskSet : o # t => tasks'[o] = tasks[o]
      /\ tasks'[t].status = s
    BY <1>1, TasksKnown DEF WriteTask, TaskSet, NewTask
<1>5. Sole'
    BY <1>1, LastWritten
<1>6. Finished({"ApproveClosure", "ApproveReopening", "SAR"})'
    <2>1. PICK N : N = {"ApproveClosure", "ApproveReopening", "SAR"}
        OBVIOUS
    <2>2. Finished(N) /\ "Investigate" \notin N
        BY <2>1 DEF DeskDone
    <2>3. Finished(N)'
        BY <1>1, <2>2, LastWritten
    <2> QED
        BY <2>1, <2>3
<1>7. \A S : s \in S => Top("Investigate", S, u)'
    BY <1>1, LastWritten
<1>8. LastOf("Investigate", t)'
    BY <1>1, LastWritten
<1>3. Investigated'
    <2>1. TaskSet' = TaskSet /\ \A o \in TaskSet : tasks[o].status = "COMPLETED" => tasks'[o] = tasks[o]
        BY <1>2
    <2> QED
        BY <1>1, <2>1 DEF Investigated
<1>4. DeskDone'
    BY <1>6 DEF DeskDone
<1> QED
    BY <1>2, <1>3, <1>4, <1>5, <1>7, <1>8

LEMMA AssignCommitGood ==
    ASSUME Now, NEW r \in Requests, AssignCommit(r)
    PROVE  Good(r)
<1>1. PICK t, a : t = req[r].task /\ a = req[r].arg
    OBVIOUS
<1>2. req[r].at = "assign" /\ WriteTask(r, t, "ASSIGNED", a) /\ Done(r)
    BY <1>1 DEF AssignCommit
<1>3. t \in TaskSet /\ a \in Users /\ a # NoUser
    BY <1>1, <1>2, RequestKnown DEF Now, RequestOK, OfTask
<1>4. /\ tasks[t].status # "COMPLETED" /\ tasks[t].name \in {"Investigate", "SAR"}
      /\ tasks[t].name = "Investigate" => caseStatus \in Desk
    BY <1>1, <1>2, InFlight DEF Flight, FlightOnTask
<1>5. Shape
    BY <1>2, Resting DEF Before
<1>6. CASE tasks[t].name = "SAR"
    <2>1. UNCHANGED caseVars
        BY <1>1, <1>2, <1>6, FilingElsewhere DEF AssignCommit
    <2> QED
        BY <1>2, <1>3, <1>4, <1>5, <1>6, <2>1, FilingWritten, GoodEnd
<1>7. CASE tasks[t].name = "Investigate"
    <2>1. caseStatus' = "ASSIGNED" /\ caseOwner' = a /\ finalOutcome' = finalOutcome
        BY <1>1, <1>7 DEF AssignCommit, WriteCase
    <2>2. LastOf("Investigate", t) /\ DeskDone
        BY <1>3, <1>4, <1>5, <1>7, OpenInvestigation
    <2>3. Sole' /\ Investigated' /\ DeskDone' /\ Top("Investigate", {"ASSIGNED"}, a)'
        BY <1>2, <1>3, <1>4, <2>1, <2>2, InvestigationWritten
    <2>4. Shape'
        BY <1>3, <2>1, <2>3 DEF Shape, Closed, Outcomes, AutoClosed, Top
    <2> QED
        BY <1>2, <2>3, <2>4, GoodEnd
<1> QED
    BY <1>4, <1>6, <1>7

LEMMA UnassignCommitGood ==
    ASSUME Now, NEW r \in Requests, UnassignCommit(r)
    PROVE  Good(r)
<1>1. PICK t : t = req[r].task
    OBVIOUS
<1>2. req[r].at = "unassign" /\ WriteTask(r, t, "UNASSIGNED", NoUser) /\ Done(r)
    BY <1>1 DEF UnassignCommit
<1>3. t \in TaskSet
    BY <1>1, <1>2, RequestKnown DEF Now, RequestOK, OfTask
<1>4. /\ tasks[t].status # "COMPLETED" /\ tasks[t].name \in {"Investigate", "SAR"}
      /\ tasks[t].name = "Investigate" => caseStatus \in {"ASSIGNED", "IN_PROGRESS"}
    BY <1>1, <1>2, InFlight DEF Flight, FlightOnTask
<1>5. Shape
    BY <1>2, Resting DEF Before
<1>6. CASE tasks[t].name = "SAR"
    <2>1. UNCHANGED caseVars
        BY <1>1, <1>2, <1>6, FilingElsewhere DEF UnassignCommit
    <2> QED
        BY <1>2, <1>3, <1>4, <1>5, <1>6, <2>1, FilingWritten, GoodEnd
<1>7. CASE tasks[t].name = "Investigate"
    <2>1. caseStatus' = "READY" /\ caseOwner' = NoUser /\ finalOutcome' = finalOutcome
        BY <1>1, <1>7 DEF UnassignCommit, WriteCase
    <2>2. LastOf("Investigate", t) /\ DeskDone
        BY <1>3, <1>4, <1>5, <1>7, OpenInvestigation
    <2>3. Sole' /\ Investigated' /\ DeskDone' /\ Top("Investigate", {"UNASSIGNED"}, NoUser)'
        BY <1>2, <1>3, <1>4, <2>1, <2>2, InvestigationWritten
    <2>4. Shape'
        BY <2>1, <2>3 DEF Shape, Closed, Outcomes, AutoClosed
    <2> QED
        BY <1>2, <2>3, <2>4, GoodEnd
<1> QED
    BY <1>4, <1>6, <1>7

LEMMA PatchCommitGood ==
    ASSUME Now, NEW r \in Requests, PatchCommit(r)
    PROVE  Good(r)
<1>1. PICK t, s, u : t = req[r].task /\ s = req[r].arg /\ u = req[r].by
    OBVIOUS
<1>2. req[r].at \in {"patch", "promote"} /\ WriteTask(r, t, s, u) /\ Done(r)
    BY <1>1 DEF PatchCommit
<1>3. t \in TaskSet /\ u # NoUser
    BY <1>1, <1>2, RequestKnown, UsersAssumption DEF Now, RequestOK, OfTask
<1>4. /\ tasks[t].status # "COMPLETED" /\ tasks[t].name \in {"Investigate", "SAR"}
      /\ tasks[t].name = "Investigate" => u = tasks[t].assignee /\ s \in {"IN_PROGRESS", "COMPLETED"}
      /\ req[r].at = "patch" /\ tasks[t].name = "Investigate" => caseStatus = "IN_PROGRESS"
      /\ req[r].at = "promote" => tasks[t].name = "Investigate" /\ caseStatus = "ASSIGNED"
    BY <1>1, <1>2, InFlight DEF Flight, FlightOnTask
<1>5. Shape
    BY <1>2, Resting DEF Before
<1>6. CASE tasks[t].name = "SAR"
    <2>1. UNCHANGED caseVars
        BY <1>2, <1>4, <1>6 DEF PatchCommit
    <2> QED
        BY <1>2, <1>3, <1>4, <1>5, <1>6, <2>1, FilingWritten, GoodEnd
<1>7. CASE tasks[t].name = "Investigate"
    <2>1. LastOf("Investigate", t) /\ DeskDone /\ u = caseOwner
        BY <1>2, <1>3, <1>4, <1>5, <1>7, OpenInvestigation
    <2>2. caseStatus' = "IN_PROGRESS" /\ caseOwner' = u /\ finalOutcome' = finalOutcome
        BY <1>1, <1>2, <1>4, <1>7, <2>1 DEF PatchCommit, WriteCase, caseVars
    <2>3. /\ Sole' /\ Investigated' /\ DeskDone'
          /\ \A S : s \in S => Top("Investigate", S, u)'
        BY <1>2, <1>3, <1>4, <2>1, <2>2, InvestigationWritten
    <2>4. PICK S : S = {"ASSIGNED", "IN_PROGRESS", "COMPLETED"}
        OBVIOUS
    <2>5. Top("Investigate", S, u)'
        BY <1>4, <1>7, <2>3, <2>4
    <2>6. Shape'
        BY <1>3, <2>2, <2>3, <2>4, <2>5 DEF Shape, Closed, Outcomes, AutoClosed, Top
    <2> QED
        BY <1>2, <2>3, <2>6, GoodEnd
<1> QED
    BY <1>4, <1>6, <1>7

LEMMA CompleteCommitGood ==
    ASSUME Now, NEW r \in Requests, CompleteCommit(r)
    PROVE  Good(r)
<1>1. PICK t, u : t = req[r].task /\ u = tasks[t].assignee
    OBVIOUS
<1>2. req[r].at = "complete" /\ WriteTask(r, t, "COMPLETED", u) /\ Done(r) /\ UNCHANGED caseVars
    BY <1>1 DEF CompleteCommit
<1>3. t \in TaskSet
    BY <1>1, <1>2, RequestKnown DEF Now, RequestOK, OfTask
<1>4. tasks[t].status # "COMPLETED" /\ tasks[t].name = "SAR"
    BY <1>1, <1>2, InFlight DEF Flight, FlightOnTask
<1>5. Shape
    BY <1>2, Resting DEF Before
<1> QED
    BY <1>2, <1>3, <1>4, <1>5, FilingWritten, GoodEnd

LEMMA TaskWorkGood ==
    ASSUME Now, NEW r \in Requests, TaskWorkNext(r)
    PROVE  Good(r)
BY AssignCheckGood, UnassignCheckGood, PatchCheckGood, CompleteCheckGood, AssignCommitGood,
   UnassignCommitGood, PatchCommitGood, CompleteCommitGood DEF TaskWorkNext
-----------------------------------------------------------------------------
(***************************************************************************)
(* Suspend and resume.                                                     *)
(***************************************************************************)
\* Open investigations are one investigation.
LEMMA OneOpenInvestigation ==
    ASSUME Now, NEW T \in SUBSET Named("Investigate"), T # {},
           \A t \in T : tasks[t].status # "COMPLETED"
    PROVE  \E t \in TaskSet : T = {t} /\ LastOf("Investigate", t) /\ tasks[t].status # "COMPLETED"
<1>1. \A t \in T : t \in TaskSet /\ LastOf("Investigate", t)
    BY DEF Now, UInv, Sole, Named
<1>2. \A t, o \in T : t = o
    BY <1>1, LastIsOne DEF Now
<1> QED
    BY <1>1, <1>2

LEMMA SuspendCheckGood ==
    ASSUME Now, NEW r \in Requests, NEW u \in Users, NEW T \in SUBSET TaskSet, SuspendCheck(r, u, T)
    PROVE  Good(r)
<1>1. /\ req[r].at = "idle" /\ UNCHANGED <<caseVars, taskVars>> /\ caseStatus = "IN_PROGRESS"
      /\ T # {} /\ T \subseteq Investigations({"IN_PROGRESS"})
    BY AllowedStatus DEF SuspendCheck, Now
<1>2. PICK t \in TaskSet : T = {t} /\ LastOf("Investigate", t) /\ tasks[t].status # "COMPLETED"
    BY <1>1, OneOpenInvestigation DEF Investigations, Having
<1>3. PICK x : req' = [req EXCEPT ![r] = x] /\ x.at = "suspend" /\ x.todo = T
    BY GoesAs DEF SuspendCheck
<1>4. Flight(x)
    BY <1>1, <1>2, <1>3 DEF Flight, FlightOnTask, FlightOnCase, FlightOnClosure, FlightOnReopening
<1> QED
    BY <1>1, <1>3, <1>4, GoodCheck

LEMMA ResumeCheckGood ==
    ASSUME Now, NEW r \in Requests, NEW u \in Users, ResumeCheck(r, u)
    PROVE  Good(r)
<1>1. /\ req[r].at = "idle" /\ UNCHANGED <<caseVars, taskVars>> /\ caseStatus = "SUSPENDED"
      /\ caseOwner = u /\ Investigations({"BLOCKED"}) # {}
    BY AllowedStatus DEF ResumeCheck
<1>2. PICK t \in TaskSet : /\ Investigations({"BLOCKED"}) = {t}
                           /\ LastOf("Investigate", t) /\ tasks[t].status # "COMPLETED"
    BY <1>1, OneOpenInvestigation DEF Investigations, Having
<1>3. PICK x : /\ req' = [req EXCEPT ![r] = x]
               /\ x.at = "resume" /\ x.by = u /\ x.todo = Investigations({"BLOCKED"})
    BY GoesAs DEF ResumeCheck
<1>4. Flight(x)
    BY <1>1, <1>2, <1>3 DEF Flight, FlightOnTask, FlightOnCase, FlightOnClosure, FlightOnReopening
<1> QED
    BY <1>1, <1>3, <1>4, GoodCheck

\* The case first, ...
LEMMA CasePartGood ==
    ASSUME Now, NEW r \in Requests, SuspendCase(r) \/ ResumeCase(r)
    PROVE  Good(r)
<1>1. PICK step, x : /\ req' = [req EXCEPT ![r] = x]
                     /\ x.at = step /\ x.by = req[r].by /\ x.todo = req[r].todo
                     /\ \/ req[r].at = "suspend" /\ step = "block" /\ caseStatus' = "SUSPENDED"
                        \/ req[r].at = "resume" /\ step = "unblock" /\ caseStatus' = "IN_PROGRESS"
                     /\ caseOwner' = caseOwner /\ finalOutcome' = finalOutcome /\ UNCHANGED taskVars
    BY GoesAs DEF SuspendCase, ResumeCase, WriteCase
<1>2. PICK t \in TaskSet : req[r].todo = {t} /\ LastOf("Investigate", t) /\ tasks[t].status # "COMPLETED"
    BY <1>1, InFlight DEF Flight, FlightOnCase
<1>3. /\ caseStatus = IF step = "block" THEN "IN_PROGRESS" ELSE "SUSPENDED"
      /\ step = "unblock" => req[r].by = caseOwner
    BY <1>1, InFlight DEF Flight, FlightOnCase
<1>4. DeskDone /\ caseOwner # NoUser
    BY <1>1, <1>3, Resting DEF Before, Shape
<1>5. DeskDone' /\ LastOf("Investigate", t)' /\ TaskSet' = TaskSet /\ tasks' = tasks
    BY <1>1, <1>2, <1>4, Same DEF DeskDone
<1>6. Flight(x)'
    BY <1>1, <1>2, <1>3, <1>4, <1>5
       DEF Flight, FlightOnTask, FlightOnCase, FlightOnClosure, FlightOnReopening
<1>7. Sole' /\ Investigated'
    BY <1>1, InFlight, Same DEF Investigated
<1>8. x.at \notin Before
    BY <1>1 DEF Before
<1> QED
    BY <1>1, <1>6, <1>7, <1>8, GoodStep

\* ... then the task.
LEMMA BlockTaskGood ==
    ASSUME Now, NEW r \in Requests, NEW t \in req[r].todo, BlockTask(r, t)
    PROVE  Good(r)
<1>1. PICK u : u = req[r].by
    OBVIOUS
<1>2. req[r].at = "block" /\ WriteTask(r, t, "BLOCKED", u) /\ Comments(r, t)
    BY <1>1 DEF BlockTask
<1>3. /\ req[r].todo = {t} /\ t \in TaskSet /\ LastOf("Investigate", t) /\ tasks[t].status # "COMPLETED"
      /\ caseStatus = "SUSPENDED" /\ DeskDone /\ caseOwner # NoUser
    BY <1>2, InFlight DEF Flight, FlightOnCase
<1>4. Done(r)
    BY <1>3 DEF BlockTask, Rest
<1>5. caseStatus' = "SUSPENDED" /\ caseOwner' = caseOwner /\ finalOutcome' = finalOutcome
    BY <1>2, <1>3 DEF Comments, Commented, rowVars, caseVars
<1>6. /\ Sole' /\ Investigated' /\ DeskDone' /\ TaskSet' = TaskSet
      /\ LastOf("Investigate", t)' /\ tasks'[t].status = "BLOCKED"
    BY <1>2, <1>3, <1>5, InvestigationWritten
<1>7. Shape'
    BY <1>3, <1>5, <1>6 DEF Shape, Closed, Outcomes, AutoClosed
<1> QED
    BY <1>4, <1>6, <1>7, GoodEnd

LEMMA UnblockTaskGood ==
    ASSUME Now, NEW r \in Requests, NEW t \in req[r].todo, UnblockTask(r, t)
    PROVE  Good(r)
<1>1. PICK u : u = req[r].by
    OBVIOUS
<1>2. req[r].at = "unblock" /\ WriteTask(r, t, "IN_PROGRESS", u)
    BY <1>1 DEF UnblockTask
<1>3. /\ req[r].todo = {t} /\ t \in TaskSet /\ LastOf("Investigate", t) /\ tasks[t].status # "COMPLETED"
      /\ caseStatus = "IN_PROGRESS" /\ DeskDone /\ caseOwner # NoUser /\ u = caseOwner
    BY <1>1, <1>2, InFlight DEF Flight, FlightOnCase
<1>4. Done(r)
    BY <1>3 DEF UnblockTask, Rest
<1>5. caseStatus' = "IN_PROGRESS" /\ caseOwner' = u /\ finalOutcome' = finalOutcome
    BY <1>3 DEF UnblockTask, Promotes, Comments, Commented, rowVars, caseVars
<1>6. PICK S : S = {"ASSIGNED", "IN_PROGRESS", "COMPLETED"}
    OBVIOUS
<1>7. Sole' /\ Investigated' /\ DeskDone' /\ Top("Investigate", S, u)'
    BY <1>2, <1>3, <1>5, <1>6, InvestigationWritten
<1>8. Shape'
    BY <1>3, <1>5, <1>6, <1>7 DEF Shape, Closed, Outcomes, AutoClosed
<1> QED
    BY <1>4, <1>7, <1>8, GoodEnd

LEMMA SuspensionGood ==
    ASSUME Now, NEW r \in Requests, SuspensionNext(r)
    PROVE  Good(r)
BY SuspendCheckGood, ResumeCheckGood, CasePartGood, BlockTaskGood, UnblockTaskGood DEF SuspensionNext
-----------------------------------------------------------------------------
(***************************************************************************)
(* Close.                                                                  *)
(***************************************************************************)
LEMMA LatestIsLast ==
    ASSUME IInv, NEW n, Named(n) # {}
    PROVE  LastOf(n, Latest(Named(n)))
<1>1. PICK len \in Nat : TaskSet = 1..len
    BY TasksKnown
<1>2. PICK T : T = Named(n)
    OBVIOUS
<1>3. T \subseteq 1..len /\ T # {}
    BY <1>1, <1>2 DEF Named
<1> QED
    BY <1>2, <1>3, LatestIsOne DEF LastOf

\* With the last open task completed nothing is open.
LEMMA AllFinished ==
    ASSUME IInv, Sole, NEW r \in Requests, NEW n, NEW t, LastOf(n, t), NEW u,
           WriteTask(r, t, "COMPLETED", u), NEW N, Finished(N), n \notin N
    PROVE  Sole' /\ Finished(N \union {n})' /\ TaskSet' = TaskSet /\ tasks[t].name = n
           /\ tasks'[t].status = "COMPLETED" /\ tasks'[t].name = n /\ tasks'[t].assignee = u
           /\ \A o \in TaskSet : o # t => tasks'[o] = tasks[o]
<1>0. t \in TaskSet /\ tasks[t].name = n
    BY DEF LastOf, Named
<1>1. /\ TaskSet' = TaskSet /\ tasks'[t].status = "COMPLETED" /\ tasks'[t].name = n
      /\ tasks'[t].assignee = u
      /\ \A o \in TaskSet : o # t => tasks'[o] = tasks[o]
    BY <1>0, TasksKnown DEF WriteTask, TaskSet, NewTask
<1>4. Sole'
    BY LastWritten
<1>2. Finished({n})'
    BY LastWritten
<1>3. Finished(N)'
    BY LastWritten
<1> QED
    BY <1>0, <1>1, <1>2, <1>3, <1>4 DEF Finished

\* A closed case.
LEMMA ClosedGood ==
    ASSUME Now, NEW r \in Requests, NEW o \in Outcomes, Sole', Investigated', Finished(TaskNames)',
           caseStatus' = o, finalOutcome' = o, ThenSAR(r, o)
    PROVE  Good(r)
<1>1. CASE o = "CONFIRMED"
    <2>1. PICK x : req' = [req EXCEPT ![r] = x] /\ x.at = "fileSAR"
        BY <1>1, GoesAs DEF ThenSAR
    <2>2. Flight(x)'
        BY <1>1, <2>1 DEF Flight, FlightOnTask, FlightOnCase, FlightOnClosure, FlightOnReopening
    <2> QED
        BY <2>1, <2>2, GoodStep DEF Before
<1>2. CASE o # "CONFIRMED"
    <2>1. Done(r)
        BY <1>2 DEF ThenSAR
    <2>2. Shape'
        BY <1>2 DEF Shape, Finished, TaskNames, Outcomes, Closed, AutoClosed
    <2> QED
        BY <2>1, <2>2, GoodEnd
<1> QED
    BY <1>1, <1>2

LEMMA CloseCheckGood ==
    ASSUME Now, NEW r \in Requests, NEW u \in Users, NEW o \in Verdicts, CloseCheck(r, u, o)
    PROVE  Good(r)
<1>1. PICK t : t = Latest(Investigations({"IN_PROGRESS", "COMPLETED"}))
    OBVIOUS
<1>2. /\ req[r].at = "idle" /\ UNCHANGED <<caseVars, taskVars>> /\ caseStatus = "IN_PROGRESS"
      /\ Investigations({"IN_PROGRESS", "COMPLETED"}) # {} /\ tasks[t].assignee = caseOwner
      /\ \A w \in Named("Investigate") : tasks[w].status = "COMPLETED"
    BY <1>1, AllowedStatus DEF CloseCheck, CloseOffered, Now
<1>3. Investigations({"IN_PROGRESS", "COMPLETED"}) = Named("Investigate")
    BY <1>2 DEF Investigations, Having
<1>4. LastOf("Investigate", t)
    BY <1>1, <1>2, <1>3, LatestIsLast DEF Now
<1>5. Finished({"Investigate"})
    BY <1>2 DEF Finished, Named
<1>6. PICK x : req' = [req EXCEPT ![r] = x] /\ x.at \in {"submit", "direct"} /\ x.task = t
    BY <1>1, GoesAs DEF CloseCheck
<1>7. Flight(x)
    BY <1>2, <1>4, <1>5, <1>6 DEF Flight, FlightOnTask, FlightOnCase, FlightOnClosure, FlightOnReopening
<1> QED
    BY <1>2, <1>6, <1>7, GoodCheck

LEMMA DirectClosureGood ==
    ASSUME Now, NEW r \in Requests, DirectClosure(r)
    PROVE  Good(r)
<1>1. PICK t, o, u : t = req[r].task /\ o = req[r].arg /\ u = tasks[t].assignee
    OBVIOUS
<1>2. /\ req[r].at = "direct" /\ WriteTask(r, t, "COMPLETED", u) /\ ThenSAR(r, o)
      /\ caseStatus' = o /\ finalOutcome' = o
    BY <1>1 DEF DirectClosure, WriteCase
<1>3. o \in Outcomes
    BY <1>1, <1>2, RequestKnown DEF Now, RequestOK
<1>4. LastOf("Investigate", t) /\ caseStatus = "IN_PROGRESS"
    BY <1>1, <1>2, InFlight DEF Flight, FlightOnClosure
<1>5. PICK N : N = {"ApproveClosure", "ApproveReopening", "SAR"}
    OBVIOUS
<1>6. Finished(N) /\ "Investigate" \notin N
    BY <1>2, <1>4, <1>5, Resting DEF Before, Shape, DeskDone
<1>7. /\ Sole' /\ Finished(N \union {"Investigate"})' /\ TaskSet' = TaskSet
      /\ tasks'[t].status = "COMPLETED" /\ tasks'[t].name = "Investigate"
    BY <1>2, <1>4, <1>6, InFlight, AllFinished
<1>8. Finished(TaskNames)'
    BY <1>5, <1>7 DEF Finished, TaskNames
<1>9. Investigated'
    BY <1>4, <1>7 DEF Investigated, LastOf, Named
<1> QED
    BY <1>2, <1>3, <1>7, <1>8, <1>9, ClosedGood

LEMMA SubmitClosureGood ==
    ASSUME Now, NEW r \in Requests, SubmitClosure(r)
    PROVE  Good(r)
<1>1. PICK t : t = req[r].task
    OBVIOUS
<1>2. /\ req[r].at = "submit" /\ InsertTask("ApproveClosure", "UNASSIGNED", NoUser)
      /\ caseStatus' = caseStatus /\ caseOwner' = caseOwner /\ finalOutcome' = finalOutcome
    BY DEF SubmitClosure, caseVars
<1>3. PICK x : req' = [req EXCEPT ![r] = x] /\ x.at = "recommend" /\ x.task = t
    BY <1>1, GoesAs DEF SubmitClosure
<1>4. /\ LastOf("Investigate", t) /\ Finished({"Investigate"}) /\ caseStatus = "IN_PROGRESS"
      /\ tasks[t].assignee = caseOwner
    BY <1>1, <1>2, InFlight DEF Flight, FlightOnClosure
<1>5. DeskDone /\ caseOwner # NoUser
    BY <1>2, <1>4, Resting DEF Before, Shape
<1>6. PICK n, N, S : n = "ApproveClosure" /\ N = {"ApproveReopening", "SAR"} /\ S = {"Investigate"}
    OBVIOUS
<1>7. Finished({n}) /\ Finished(N) /\ Finished(S) /\ n \notin N /\ n \notin S /\ n # "Investigate"
    BY <1>4, <1>5, <1>6 DEF Finished, DeskDone
<1>8. InsertTask(n, "UNASSIGNED", NoUser)
    BY <1>2, <1>6
<1>9. /\ Sole' /\ Finished(N)' /\ Finished(S)' /\ LastOf("Investigate", t)'
      /\ TaskSet \subseteq TaskSet' /\ \A o \in TaskSet : tasks'[o] = tasks[o]
    BY <1>4, <1>7, <1>8, InFlight, LastInserted
<1>10. Top(n, {"UNASSIGNED"}, NoUser)'
    BY <1>7, <1>8, InFlight, LastInserted
<1>11. Investigated'
    BY <1>2, <1>9, InFlight DEF Investigated
<1>12. tasks'[t].assignee = caseOwner'
    BY <1>2, <1>4, <1>9 DEF LastOf, Named
<1>13. Flight(x)'
    BY <1>2, <1>3, <1>4, <1>5, <1>6, <1>9, <1>10, <1>12
       DEF Flight, FlightOnTask, FlightOnCase, FlightOnClosure, FlightOnReopening
<1> QED
    BY <1>3, <1>9, <1>11, <1>13, GoodStep DEF Before

LEMMA RecommendClosureGood ==
    ASSUME Now, NEW r \in Requests, RecommendClosure(r)
    PROVE  Good(r)
<1>1. PICK t, u : t = req[r].task /\ u = tasks[t].assignee
    OBVIOUS
<1>2. /\ req[r].at = "recommend" /\ WriteTask(r, t, "COMPLETED", u) /\ Done(r)
      /\ caseStatus' = "PENDING_CLOSURE" /\ caseOwner' = caseOwner
    BY <1>1 DEF RecommendClosure, WriteCase
<1>3. /\ LastOf("Investigate", t) /\ u = caseOwner /\ caseOwner # NoUser
      /\ Finished({"ApproveReopening", "SAR"}) /\ Top("ApproveClosure", {"UNASSIGNED"}, NoUser)
    BY <1>1, <1>2, InFlight DEF Flight, FlightOnClosure
<1>4. PICK N, S, n : N = {"ApproveReopening", "SAR"} /\ S = {"UNASSIGNED"} /\ n = "ApproveClosure"
    OBVIOUS
<1>5. /\ Sole' /\ Finished(N \union {"Investigate"})' /\ TaskSet' = TaskSet
      /\ tasks'[t].status = "COMPLETED" /\ tasks'[t].name = "Investigate" /\ tasks'[t].assignee = u
      /\ t \in TaskSet /\ tasks[t].name = "Investigate"
    <2>1. Finished(N) /\ "Investigate" \notin N
        BY <1>3, <1>4
    <2>2. t \in TaskSet
        BY <1>3 DEF LastOf, Named
    <2> QED
        BY <1>2, <1>3, <2>1, <2>2, InFlight, AllFinished
<1>6. Top(n, S, NoUser)'
    <2>1. Top(n, S, NoUser) /\ n # "Investigate"
        BY <1>3, <1>4
    <2> QED
        BY <1>2, <1>3, <2>1, InFlight, LastWritten
<1>7. LastCompleted' = {t}
    BY <1>2, <1>5, InFlight, CompletedLast
<1>8. Concluded'
    <2>1. Finished({"Investigate", "ApproveReopening", "SAR"})'
        BY <1>4, <1>5 DEF Finished
    <2> QED
        BY <1>2, <1>3, <1>5, <1>7, <2>1 DEF Concluded
<1>9. Investigated'
    BY <1>5 DEF Investigated
<1>10. Shape'
    BY <1>2, <1>4, <1>6, <1>8 DEF Shape, Closed, Outcomes, AutoClosed
<1> QED
    BY <1>2, <1>5, <1>9, <1>10, GoodEnd

LEMMA FileSARGood ==
    ASSUME Now, NEW r \in Requests, FileSAR(r)
    PROVE  Good(r)
<1>1. PICK n, N : n = "SAR" /\ N = {"Investigate", "ApproveClosure", "ApproveReopening"}
    OBVIOUS
<1>2. /\ req[r].at = "fileSAR" /\ InsertTask(n, "UNASSIGNED", NoUser) /\ Done(r)
      /\ caseStatus' = caseStatus /\ finalOutcome' = finalOutcome
    BY <1>1 DEF FileSAR, caseVars
<1>3. caseStatus = "CONFIRMED" /\ Finished(TaskNames)
    BY <1>2, InFlight DEF Flight, FlightOnClosure
<1>4. Finished({n}) /\ Finished(N) /\ n \notin N
    BY <1>1, <1>3 DEF Finished, TaskNames
<1>5. /\ Sole' /\ Finished(N)' /\ TaskSet \subseteq TaskSet' /\ \A o \in TaskSet : tasks'[o] = tasks[o]
    BY <1>2, <1>4, InFlight, LastInserted
<1>6. Named(n)' # {}
    BY <1>2, <1>4, InFlight, LastInserted
<1>7. Investigated'
    BY <1>2, <1>5, InFlight DEF Investigated
<1>8. Shape'
    BY <1>1, <1>2, <1>3, <1>5, <1>6 DEF Shape, Closed, Outcomes, AutoClosed
<1> QED
    BY <1>2, <1>5, <1>7, <1>8, GoodEnd
-----------------------------------------------------------------------------
(***************************************************************************)
(* Decide on a closure.                                                    *)
(***************************************************************************)
\* An unassigned task of a name is its last.
LEMMA UnassignedIsLast ==
    ASSUME Now, NEW n, NEW t \in Having(n, {"UNASSIGNED"})
    PROVE  LastOf(n, t)
BY DEF Now, UInv, Sole, Having, Named

LEMMA ApproveCheckGood ==
    ASSUME Now, NEW r \in Requests, NEW u \in Users, NEW t \in TaskSet, NEW o \in Verdicts,
           ApproveCheck(r, u, t, o)
    PROVE  Good(r)
<1>1. /\ req[r].at = "idle" /\ UNCHANGED <<caseVars, taskVars>> /\ caseStatus = "PENDING_CLOSURE"
      /\ LastOf("ApproveClosure", t)
    BY AllowedStatus, UnassignedIsLast DEF ApproveCheck
<1>2. PICK x : req' = [req EXCEPT ![r] = x] /\ x.at = "approve" /\ x.task = t
    BY GoesAs DEF ApproveCheck
<1>3. Flight(x)
    BY <1>1, <1>2 DEF Flight, FlightOnTask, FlightOnCase, FlightOnClosure, FlightOnReopening
<1> QED
    BY <1>1, <1>2, <1>3, GoodCheck

LEMMA ApproveClosureGood ==
    ASSUME Now, NEW r \in Requests, ApproveClosure(r)
    PROVE  Good(r)
<1>1. PICK t, o, u : t = req[r].task /\ o = req[r].arg /\ u = req[r].by
    OBVIOUS
<1>2. /\ req[r].at = "approve" /\ WriteTask(r, t, "COMPLETED", u) /\ ThenSAR(r, o)
      /\ caseStatus' = o /\ finalOutcome' = o
    BY <1>1 DEF ApproveClosure, WriteCase
<1>3. o \in Outcomes
    BY <1>1, <1>2, RequestKnown DEF Now, RequestOK
<1>4. LastOf("ApproveClosure", t) /\ caseStatus = "PENDING_CLOSURE"
    BY <1>1, <1>2, InFlight DEF Flight, FlightOnClosure
<1>5. Concluded
    BY <1>2, <1>4, Resting DEF Before, Shape
<1>6. PICK N, n : N = {"Investigate", "ApproveReopening", "SAR"} /\ n = "ApproveClosure"
    OBVIOUS
<1>7. Finished(N) /\ n \notin N
    BY <1>5, <1>6 DEF Concluded
<1>8. /\ Sole' /\ Finished(N \union {n})' /\ TaskSet' = TaskSet /\ tasks[t].name = n
      /\ \A w \in TaskSet : w # t => tasks'[w] = tasks[w]
    BY SMTT(40), <1>2, <1>4, <1>6, <1>7, InFlight, AllFinished
<1>9. Finished(TaskNames)'
    BY <1>6, <1>8 DEF Finished, TaskNames
<1>10. Investigated'
    <2>1. PICK w \in TaskSet : tasks[w].name = "Investigate" /\ tasks[w].status = "COMPLETED"
        BY <1>5 DEF Concluded, LastCompleted, Investigations, Having, Named
    <2> QED
        BY <1>6, <1>8, <2>1 DEF Investigated
<1> QED
    BY <1>2, <1>3, <1>8, <1>9, <1>10, ClosedGood

LEMMA ReviewCheckGood ==
    ASSUME Now, NEW r \in Requests, NEW u \in Users, NEW returning \in BOOLEAN,
           ReviewCheck(r, u, returning)
    PROVE  Good(r)
<1>1. PICK t : t = ApprovalTask
    OBVIOUS
<1>2. /\ req[r].at = "idle" /\ UNCHANGED <<caseVars, taskVars>> /\ caseStatus = "PENDING_CLOSURE"
      /\ Named("ApproveClosure") # {} /\ ~returning
    BY DEF ReviewCheck, Now
<1>3. LastOf("ApproveClosure", t)
    BY <1>1, <1>2, LatestIsLast DEF Now, ApprovalTask
<1>4. Concluded /\ Top("ApproveClosure", {"UNASSIGNED"}, NoUser)
    BY <1>2, Resting DEF Before, Shape
<1>5. tasks[t].status = "UNASSIGNED"
    BY <1>3, <1>4, LastIsOne DEF Now, Top
<1>6. OpenBeside(t) = {}
    <2>1. SUFFICES ASSUME NEW o \in TaskSet, o # t, tasks[o].status # "COMPLETED" PROVE FALSE
        BY DEF OpenBeside
    <2>2. LastOf(tasks[o].name, o)
        BY <2>1 DEF Now, UInv, Sole
    <2>3. tasks[o].name # "ApproveClosure"
        BY <1>3, <2>1, <2>2, LastIsOne DEF Now
    <2> QED
        BY <1>4, <2>1, <2>3, KnownStatus DEF Concluded, Finished, TaskNames
<1>7. Goes(r, "claim", u, t, {}, None)
    BY <1>1, <1>2, <1>5, <1>6 DEF ReviewCheck, ClaimedBy
<1>8. PICK x : req' = [req EXCEPT ![r] = x] /\ x.at = "claim" /\ x.task = t
    BY <1>7, GoesAs
<1>9. Flight(x)
    BY <1>2, <1>3, <1>8 DEF Flight, FlightOnTask, FlightOnCase, FlightOnClosure, FlightOnReopening
<1> QED
    BY <1>2, <1>8, <1>9, GoodCheck

LEMMA ClaimApprovalGood ==
    ASSUME Now, NEW r \in Requests, ClaimApproval(r)
    PROVE  Good(r)
<1>1. PICK t, u : t = req[r].task /\ u = req[r].by
    OBVIOUS
<1>2. req[r].at = "claim"
    BY InFlight DEF ClaimApproval, Flight
<1>3. /\ WriteTask(r, t, "ASSIGNED", u)
      /\ caseStatus' = caseStatus /\ caseOwner' = caseOwner /\ finalOutcome' = finalOutcome
    BY <1>1 DEF ClaimApproval, caseVars
<1>4. PICK x : req' = [req EXCEPT ![r] = x] /\ x.at = "findInvestigator" /\ x.by = u
    BY <1>1, <1>2, GoesAs DEF ClaimApproval
<1>5. LastOf("ApproveClosure", t) /\ caseStatus = "PENDING_CLOSURE"
    BY <1>1, <1>2, InFlight DEF Flight, FlightOnClosure
<1>6. Concluded
    BY <1>2, <1>5, Resting DEF Before, Shape
<1>7. PICK N, S, n : /\ N = {"Investigate", "ApproveReopening", "SAR"} /\ S = {"ASSIGNED"}
                     /\ n = "ApproveClosure"
    OBVIOUS
<1>8. Finished(N) /\ n \notin N /\ LastOf(n, t)
    BY <1>5, <1>6, <1>7 DEF Concluded
<1>9. t \in TaskSet /\ tasks[t].name = n
    BY <1>8 DEF LastOf, Named
<1>10. Sole' /\ Finished(N)'
    BY <1>3, <1>8, InFlight, LastWritten
<1>11. Top(n, S, u)'
    <2>1. \A P : "ASSIGNED" \in P => Top(n, P, u)'
        BY <1>3, <1>8, InFlight, LastWritten
    <2> QED
        BY <1>7, <2>1
<1>12. TaskSet' = TaskSet /\ \A o \in TaskSet : o # t => tasks'[o] = tasks[o]
    BY <1>3, <1>9, InFlight, TasksKnown DEF WriteTask, TaskSet
<1>13. LastCompleted' = LastCompleted
    BY <1>3, <1>7, <1>9, InFlight, LastCompletedStays
<1>14. Concluded'
    <2>1. PICK w \in TaskSet : LastCompleted = {w} /\ tasks[w].assignee = caseOwner
        BY <1>6 DEF Concluded
    <2>2. w # t
        BY <1>7, <1>9, <2>1 DEF LastCompleted, Investigations, Having, Named
    <2>3. tasks'[w].assignee = caseOwner'
        BY <1>3, <1>12, <2>1, <2>2
    <2>4. Finished({"Investigate", "ApproveReopening", "SAR"})'
        BY <1>7, <1>10
    <2>5. caseOwner' # NoUser
        BY <1>3, <1>6 DEF Concluded
    <2> QED
        BY <1>12, <1>13, <2>1, <2>3, <2>4, <2>5 DEF Concluded
<1>15. Investigated'
    <2>1. \A w \in TaskSet : tasks[w].name = "Investigate" => tasks'[w] = tasks[w]
        BY <1>7, <1>9, <1>12
    <2> QED
        BY <1>3, <1>12, <2>1, InFlight DEF Investigated
<1>16. Top("ApproveClosure", {"ASSIGNED"}, u)'
    BY <1>7, <1>11
<1>17. Flight(x)'
    BY <1>3, <1>4, <1>5, <1>14, <1>16
       DEF Flight, FlightOnTask, FlightOnCase, FlightOnClosure, FlightOnReopening
<1> QED
    BY <1>4, <1>10, <1>15, <1>17, GoodStep DEF Before

LEMMA FindInvestigatorGood ==
    ASSUME Now, NEW r \in Requests, FindInvestigator(r)
    PROVE  Good(r)
<1>1. req[r].at = "findInvestigator" /\ UNCHANGED <<caseVars, taskVars>>
    BY DEF FindInvestigator
<1>2. PICK u : u = req[r].by
    OBVIOUS
<1>3. /\ caseStatus = "PENDING_CLOSURE" /\ Concluded /\ Top("ApproveClosure", {"ASSIGNED"}, u)
    BY <1>1, <1>2, InFlight DEF Flight, FlightOnClosure
<1>4. Goes(r, "reject", u, 0, {}, caseOwner)
    <2>1. {tasks[w].assignee : w \in LastCompleted} = {caseOwner} /\ caseOwner # NoUser
        BY <1>3 DEF Concluded
    <2> QED
        BY <1>2, <2>1 DEF FindInvestigator
<1>5. PICK x : req' = [req EXCEPT ![r] = x] /\ x.at = "reject" /\ x.by = u /\ x.arg = caseOwner
    BY <1>4, GoesAs
<1>6. Sole' /\ Investigated'
    BY <1>1, InFlight, SameCase
<1>7. Concluded'
    BY <1>1, <1>3 DEF caseVars, taskVars, Concluded, Finished, TaskSet, LastCompleted, Investigations,
                      Having, Named
<1>8. Top("ApproveClosure", {"ASSIGNED"}, u)'
    BY <1>1, <1>3, Same
<1>9. Flight(x)'
    BY <1>1, <1>3, <1>5, <1>7, <1>8
       DEF Flight, FlightOnTask, FlightOnCase, FlightOnClosure, FlightOnReopening, caseVars
<1> QED
    BY <1>5, <1>6, <1>9, GoodStep DEF Before

LEMMA RejectNotFoundGood ==
    ASSUME Now, NEW r \in Requests, RejectNotFound(r)
    PROVE  Good(r)
<1>1. Top("ApproveClosure", {"ASSIGNED"}, req[r].by)
    BY InFlight DEF RejectNotFound, Flight, FlightOnClosure
<1> QED
    BY <1>1 DEF RejectNotFound, Top, LastOf, ClaimedBy

LEMMA RejectClosureGood ==
    ASSUME Now, NEW r \in Requests, NEW t \in TaskSet, RejectClosure(r, t)
    PROVE  Good(r)
<1>1. PICK a, last, new : a = req[r].arg /\ last = Len(tasks) + 1 /\ new = NewTask("Investigate", "ASSIGNED", a)
    OBVIOUS
<1>2. /\ req[r].at = "reject" /\ t \in Named("ApproveClosure") /\ tasks[t].status # "COMPLETED"
      /\ tasks' = Append([tasks EXCEPT ![t].status = "COMPLETED"], new)
      /\ caseStatus' = "IN_PROGRESS" /\ caseOwner' = caseOwner /\ finalOutcome' = finalOutcome
      /\ Done(r)
    BY <1>1 DEF RejectClosure, ClaimedBy, WriteCase
<1>3. Concluded /\ a = caseOwner
    BY <1>1, <1>2, InFlight DEF Flight, FlightOnClosure
<1>4. new.name = "Investigate" /\ new.status = "ASSIGNED" /\ new.assignee = a
    BY <1>1 DEF NewTask
<1>5. /\ TaskSet' = TaskSet \union {last} /\ last \notin TaskSet /\ \A o \in TaskSet' : o <= last
      /\ tasks'[last] = new
      /\ \A o \in TaskSet : tasks'[o] = IF o = t THEN [tasks[t] EXCEPT !.status = "COMPLETED"] ELSE tasks[o]
    <2>1. PICK rows : rows = [tasks EXCEPT ![t].status = "COMPLETED"]
        OBVIOUS
    <2>2. tasks[t] \in Task /\ Len(tasks) \in Nat /\ TaskSet = 1..Len(tasks) /\ tasks \in Seq(Task)
        BY KnownStatus, TasksKnown DEF Now
    <2>3. rows \in Seq(Task) /\ Len(rows) = Len(tasks)
          /\ \A o \in TaskSet : rows[o] = IF o = t THEN [tasks[t] EXCEPT !.status = "COMPLETED"] ELSE tasks[o]
        BY SMTT(40), <2>1, <2>2 DEF Task, TaskStatuses
    <2>4. tasks' = Append(rows, new)
        BY <1>2, <2>1
    <2>5. Len(tasks') = last /\ tasks'[last] = new /\ \A o \in TaskSet : tasks'[o] = rows[o]
        BY <1>1, <2>2, <2>3, <2>4
    <2>6. TaskSet' = 1..Len(tasks')
        BY DEF TaskSet
    <2>7. TaskSet' = TaskSet \union {last} /\ last \notin TaskSet /\ \A o \in TaskSet' : o <= last
        BY <1>1, <2>2, <2>5, <2>6
    <2> QED
        BY <2>3, <2>5, <2>7
<1>6. /\ tasks'[t].status = "COMPLETED"
      /\ \A o \in TaskSet : tasks'[o].name = tasks[o].name
      /\ \A o \in TaskSet : o # t => tasks'[o] = tasks[o]
    BY <1>5, KnownStatus DEF Task
<1>7. \A o \in TaskSet : tasks'[o].status = "COMPLETED"
    <2>1. SUFFICES ASSUME NEW o \in TaskSet, o # t, tasks[o].status # "COMPLETED" PROVE FALSE
        BY <1>6
    <2>2. LastOf(tasks[o].name, o) /\ LastOf("ApproveClosure", t)
        BY <1>2, <2>1 DEF Now, UInv, Sole, Named
    <2>3. tasks[o].name # "ApproveClosure"
        BY <2>1, <2>2, LastIsOne DEF Now
    <2> QED
        BY <1>3, <2>1, <2>3, KnownStatus DEF Concluded, Finished, TaskNames
<1>8. LastOf("Investigate", last)'
    BY <1>4, <1>5 DEF LastOf, Named
<1>9. Sole' /\ DeskDone' /\ Top("Investigate", {"ASSIGNED", "IN_PROGRESS", "COMPLETED"}, a)'
    BY <1>4, <1>5, <1>7, <1>8 DEF Sole, DeskDone, Finished, Top
<1>10. Investigated'
    <2>1. PICK w \in TaskSet : tasks[w].name = "Investigate" /\ tasks[w].status = "COMPLETED"
        BY <1>3 DEF Concluded, LastCompleted, Investigations, Having, Named
    <2> QED
        BY <1>5, <1>6, <1>7, <2>1 DEF Investigated
<1>11. Shape'
    BY <1>2, <1>3, <1>9 DEF Shape, Closed, Outcomes, AutoClosed, Concluded
<1> QED
    BY <1>2, <1>9, <1>10, <1>11, GoodEnd

LEMMA ClosureGood ==
    ASSUME Now, NEW r \in Requests, ClosureNext(r)
    PROVE  Good(r)
<1>1. ~ReturnCase(r)
    BY InFlight DEF ReturnCase, Flight
<1> QED
    BY <1>1, CloseCheckGood, ApproveCheckGood, ReviewCheckGood, DirectClosureGood, SubmitClosureGood,
       RecommendClosureGood, FileSARGood, ApproveClosureGood, ClaimApprovalGood, FindInvestigatorGood,
       RejectClosureGood, RejectNotFoundGood DEF ClosureNext, AddComment, Now
-----------------------------------------------------------------------------
(***************************************************************************)
(* Reopen.                                                                 *)
(***************************************************************************)
LEMMA ReopenCheckGood ==
    ASSUME Now, NEW r \in Requests, NEW u \in Users, ReopenCheck(r, u)
    PROVE  Good(r)
<1>1. /\ req[r].at = "idle" /\ UNCHANGED <<caseVars, taskVars>> /\ caseStatus \in Closed /\ ReopenOffered
    BY AllowedStatus DEF ReopenCheck, Now
<1>2. Finished({"SAR"})
    <2>1. CASE caseStatus = "CONFIRMED"
        <3>1. PICK t : t = Latest(Named("SAR"))
            OBVIOUS
        <3>2. LastOf("SAR", t) /\ tasks[t].status = "COMPLETED"
            BY <1>1, <2>1, <3>1, LatestIsLast DEF Now, ReopenOffered
        <3> QED
            BY <3>2, LastIsOne DEF Now, UInv, Sole, Finished
    <2>2. CASE caseStatus # "CONFIRMED"
        BY <1>1, <2>2, Resting DEF Before, Shape
    <2> QED
        BY <2>1, <2>2
<1>3. PICK x : req' = [req EXCEPT ![r] = x] /\ x.at \in {"reopen", "requestReopen"}
    BY GoesAs DEF ReopenCheck
<1>4. Flight(x)
    BY <1>1, <1>2, <1>3 DEF Flight, FlightOnTask, FlightOnCase, FlightOnClosure, FlightOnReopening
<1> QED
    BY <1>1, <1>3, <1>4, GoodCheck

LEMMA ReopenCaseGood ==
    ASSUME Now, NEW r \in Requests, ReopenCase(r)
    PROVE  Good(r)
<1>1. PICK n, N : n = "Investigate" /\ N = {"ApproveClosure", "ApproveReopening", "SAR"}
    OBVIOUS
<1>2. /\ req[r].at = "reopen" /\ InsertTask(n, "UNASSIGNED", NoUser) /\ Done(r)
      /\ caseStatus' = "READY" /\ finalOutcome' = finalOutcome
    BY <1>1 DEF ReopenCase, WriteCase
<1>3. caseStatus \in Closed /\ Finished({"SAR"})
    BY <1>2, InFlight DEF Flight, FlightOnReopening
<1>4. Finished({n}) /\ Finished(N) /\ n \notin N
    BY <1>1, <1>2, <1>3, Resting DEF Before, Shape, Finished
<1>5. /\ Sole' /\ Finished(N)' /\ TaskSet \subseteq TaskSet' /\ \A o \in TaskSet : tasks'[o] = tasks[o]
    BY <1>2, <1>4, InFlight, LastInserted
<1>6. Top(n, {"UNASSIGNED"}, NoUser)'
    BY <1>2, <1>4, InFlight, LastInserted
<1>7. Investigated'
    BY <1>2, <1>5, InFlight DEF Investigated
<1>8. Shape'
    BY <1>1, <1>2, <1>5, <1>6 DEF Shape, Closed, Outcomes, AutoClosed, DeskDone
<1> QED
    BY <1>2, <1>5, <1>7, <1>8, GoodEnd

LEMMA RequestReopeningGood ==
    ASSUME Now, NEW r \in Requests, RequestReopening(r)
    PROVE  Good(r)
<1>1. PICK n, N, sar : n = "ApproveReopening" /\ N = {"Investigate", "ApproveClosure", "SAR"} /\ sar = "SAR"
    OBVIOUS
<1>2. /\ req[r].at = "requestReopen" /\ InsertTask(n, "UNASSIGNED", NoUser) /\ Done(r)
      /\ caseStatus' = "PENDING_REOPENING" /\ finalOutcome' = finalOutcome
    BY <1>1 DEF RequestReopening, WriteCase
<1>3. caseStatus \in Closed /\ Finished({"SAR"})
    BY <1>2, InFlight DEF Flight, FlightOnReopening
<1>4. Shape
    BY <1>2, Resting DEF Before
<1>5. Finished({n}) /\ Finished(N) /\ n \notin N
    BY <1>1, <1>3, <1>4 DEF Shape, Finished
<1>6. /\ Sole' /\ Finished(N)' /\ TaskSet \subseteq TaskSet' /\ \A o \in TaskSet : tasks'[o] = tasks[o]
      /\ Named(sar) \subseteq Named(sar)'
    BY <1>2, <1>5, InFlight, LastInserted
<1>7. Top(n, {"UNASSIGNED"}, NoUser)'
    BY <1>2, <1>5, InFlight, LastInserted
<1>8. finalOutcome = "CONFIRMED" => Named(sar) # {}
    <2>1. finalOutcome = "CONFIRMED" => caseStatus = "CONFIRMED"
        BY <1>3, <1>4 DEF Shape, Closed, None, Now, SInv, CaseSound
    <2> QED
        BY <1>1, <1>3, <1>4, <2>1 DEF Shape
<1>9. Investigated'
    BY <1>2, <1>6, InFlight DEF Investigated
<1>10. Shape'
    BY <1>1, <1>2, <1>6, <1>7, <1>8 DEF Shape, Closed, Outcomes, AutoClosed
<1> QED
    BY <1>2, <1>6, <1>9, <1>10, GoodEnd

LEMMA ApproveReopeningCheckGood ==
    ASSUME Now, NEW r \in Requests, NEW u \in Users, NEW t \in TaskSet, ApproveReopeningCheck(r, u, t)
    PROVE  Good(r)
<1>1. /\ req[r].at = "idle" /\ UNCHANGED <<caseVars, taskVars>> /\ caseStatus = "PENDING_REOPENING"
      /\ LastOf("ApproveReopening", t)
    BY AllowedStatus, UnassignedIsLast DEF ApproveReopeningCheck
<1>2. PICK x : req' = [req EXCEPT ![r] = x] /\ x.at = "insertReopen" /\ x.task = t
    BY GoesAs DEF ApproveReopeningCheck
<1>3. Flight(x)
    BY <1>1, <1>2 DEF Flight, FlightOnTask, FlightOnCase, FlightOnClosure, FlightOnReopening
<1> QED
    BY <1>1, <1>2, <1>3, GoodCheck

LEMMA RejectReopeningCheckGood ==
    ASSUME Now, NEW r \in Requests, NEW u \in Users, NEW t \in TaskSet, RejectReopeningCheck(r, u, t)
    PROVE  Good(r)
<1>1. /\ req[r].at = "idle" /\ UNCHANGED <<caseVars, taskVars>> /\ caseStatus = "PENDING_REOPENING"
      /\ LastOf("ApproveReopening", t)
    BY AllowedStatus, UnassignedIsLast DEF RejectReopeningCheck
<1>2. PICK x : /\ req' = [req EXCEPT ![r] = x] /\ x.at = "rejectReopen" /\ x.task = t
               /\ x.arg = IF finalOutcome = None THEN "INCONCLUSIVE" ELSE finalOutcome
    BY GoesAs DEF RejectReopeningCheck
<1>3. Flight(x)
    BY <1>1, <1>2 DEF Flight, FlightOnTask, FlightOnCase, FlightOnClosure, FlightOnReopening
<1> QED
    BY <1>1, <1>2, <1>3, GoodCheck

LEMMA InsertReopenedTaskGood ==
    ASSUME Now, NEW r \in Requests, InsertReopenedTask(r)
    PROVE  Good(r)
<1>1. PICK t, n, N, m : /\ t = req[r].task /\ n = "Investigate" /\ N = {"ApproveClosure", "SAR"}
                        /\ m = "ApproveReopening"
    OBVIOUS
<1>2. /\ req[r].at = "insertReopen" /\ InsertTask(n, "UNASSIGNED", NoUser)
      /\ caseStatus' = caseStatus /\ finalOutcome' = finalOutcome
    BY <1>1 DEF InsertReopenedTask, caseVars
<1>3. PICK x : req' = [req EXCEPT ![r] = x] /\ x.at = "approveReopen" /\ x.task = t
    BY <1>1, GoesAs DEF InsertReopenedTask
<1>4. caseStatus = "PENDING_REOPENING" /\ LastOf(m, t)
    BY <1>1, <1>2, InFlight DEF Flight, FlightOnReopening
<1>5. Finished({n}) /\ Finished(N) /\ n \notin N /\ m # n
    BY <1>1, <1>2, <1>4, Resting DEF Before, Shape, Finished
<1>6. /\ Sole' /\ Finished(N)' /\ LastOf(m, t)'
      /\ TaskSet \subseteq TaskSet' /\ \A o \in TaskSet : tasks'[o] = tasks[o]
    BY <1>2, <1>4, <1>5, InFlight, LastInserted
<1>7. Top(n, {"UNASSIGNED"}, NoUser)'
    BY <1>2, <1>5, InFlight, LastInserted
<1>8. Investigated'
    BY <1>2, <1>6, InFlight DEF Investigated
<1>9. Flight(x)'
    BY <1>1, <1>2, <1>3, <1>4, <1>6, <1>7
       DEF Flight, FlightOnTask, FlightOnCase, FlightOnClosure, FlightOnReopening
<1> QED
    BY <1>3, <1>6, <1>8, <1>9, GoodStep DEF Before

LEMMA ApproveReopeningGood ==
    ASSUME Now, NEW r \in Requests, ApproveReopening(r)
    PROVE  Good(r)
<1>1. PICK t, u, n, N, m, S : /\ t = req[r].task /\ u = req[r].by
                              /\ n = "ApproveReopening" /\ N = {"ApproveClosure", "SAR"}
                              /\ m = "Investigate" /\ S = {"UNASSIGNED"}
    OBVIOUS
<1>2. /\ req[r].at = "approveReopen" /\ WriteTask(r, t, "COMPLETED", u) /\ Done(r)
      /\ caseStatus' = "READY" /\ finalOutcome' = finalOutcome
    BY <1>1 DEF ApproveReopening, WriteCase
<1>3. LastOf(n, t) /\ Finished(N) /\ Top(m, S, NoUser) /\ m # n /\ n \notin N
    BY <1>1, <1>2, InFlight DEF Flight, FlightOnReopening
<1>4. /\ Sole' /\ Finished(N \union {n})' /\ TaskSet' = TaskSet
      /\ tasks[t].name = n /\ \A o \in TaskSet : o # t => tasks'[o] = tasks[o]
    BY <1>2, <1>3, InFlight, AllFinished
<1>5. Top(m, S, NoUser)'
    <2>1. IInv /\ Sole /\ LastOf(n, t) /\ WriteTask(r, t, "COMPLETED", u)
        BY <1>2, <1>3, InFlight
    <2> QED
        BY <1>3, <2>1, OtherTopStays
<1>6. Investigated'
    <2>1. \A w \in TaskSet : tasks[w].name = "Investigate" => tasks'[w] = tasks[w]
        BY <1>1, <1>4
    <2> QED
        BY <1>2, <1>4, <2>1, InFlight DEF Investigated
<1>7. DeskDone'
    BY <1>1, <1>4 DEF DeskDone, Finished
<1>8. Shape'
    BY <1>1, <1>2, <1>5, <1>7 DEF Shape, Closed, Outcomes, AutoClosed
<1> QED
    BY <1>2, <1>4, <1>6, <1>8, GoodEnd

LEMMA RejectReopeningGood ==
    ASSUME Now, NEW r \in Requests, RejectReopening(r)
    PROVE  Good(r)
<1>1. PICK t, u, o, n, N : /\ t = req[r].task /\ u = req[r].by /\ o = req[r].arg
                           /\ n = "ApproveReopening" /\ N = {"Investigate", "ApproveClosure", "SAR"}
    OBVIOUS
<1>2. /\ req[r].at = "rejectReopen" /\ WriteTask(r, t, "COMPLETED", u) /\ Done(r)
      /\ caseStatus' = o /\ finalOutcome' = finalOutcome
    BY <1>1 DEF RejectReopening, WriteCase
<1>3. /\ LastOf(n, t) /\ caseStatus = "PENDING_REOPENING"
      /\ o = IF finalOutcome = None THEN "INCONCLUSIVE" ELSE finalOutcome
    BY <1>1, <1>2, InFlight DEF Flight, FlightOnReopening
<1>4. o \in Outcomes
    BY <1>1, <1>2, RequestKnown DEF Now, RequestOK
<1>5. /\ Finished(N) /\ n \notin N /\ (o = "CONFIRMED" => Named("SAR") # {})
    BY <1>1, <1>2, <1>3, Resting DEF Before, Shape
<1>6. /\ Sole' /\ Finished(N \union {n})' /\ TaskSet' = TaskSet
      /\ tasks[t].name = n /\ \A w \in TaskSet : w # t => tasks'[w] = tasks[w]
    BY <1>2, <1>3, <1>5, InFlight, AllFinished
<1>7. Investigated'
    <2>1. \A w \in TaskSet : tasks[w].name = "Investigate" => tasks'[w] = tasks[w]
        BY <1>1, <1>6
    <2> QED
        BY <1>2, <1>6, <2>1, InFlight DEF Investigated
<1>8. o = "CONFIRMED" => Named("SAR")' # {}
    BY <1>1, <1>5, <1>6 DEF Named
<1>9. Finished({"Investigate", "ApproveClosure", "ApproveReopening"})' /\ Finished({"SAR"})'
    BY <1>1, <1>6 DEF Finished
<1>10. Shape'
    BY <1>2, <1>4, <1>8, <1>9 DEF Shape, Outcomes, AutoClosed
<1> QED
    BY <1>2, <1>6, <1>7, <1>10, GoodEnd

LEMMA ReopeningGood ==
    ASSUME Now, NEW r \in Requests, ReopeningNext(r)
    PROVE  Good(r)
BY ReopenCheckGood, ReopenCaseGood, RequestReopeningGood, ApproveReopeningCheckGood,
   RejectReopeningCheckGood, InsertReopenedTaskGood, ApproveReopeningGood, RejectReopeningGood
   DEF ReopeningNext
-----------------------------------------------------------------------------
(***************************************************************************)
(* The invariant.                                                          *)
(***************************************************************************)
\* The setting of the promises: the web client, one request at a time, none lost.
Careful == OneAtATime /\ ViaUI /\ ~MayFail

LEMMA InitUInv == Init => UInv
<1> SUFFICES ASSUME Init PROVE UInv
    OBVIOUS
<1>1. PICK new : new = NewTask("Investigate", "UNASSIGNED", NoUser)
    OBVIOUS
<1>2. new.name = "Investigate" /\ new.status = "UNASSIGNED" /\ new.assignee = NoUser
    BY <1>1 DEF NewTask
<1>3. \/ caseStatus = "READY" /\ TaskSet = {1} /\ tasks[1] = new
      \/ caseStatus \in AutoClosed /\ TaskSet = {}
    <2>1. CASE tasks = <<new>>
        <3>1. Len(tasks) = 1 /\ tasks[1] = new
            BY <2>1
        <3>2. TaskSet = {1}
            BY <3>1 DEF TaskSet
        <3>3. caseStatus \in {"READY"} \union AutoClosed /\ (caseStatus \in AutoClosed => tasks = <<>>)
            BY DEF Init, AutoClosed
        <3>4. caseStatus = "READY"
            BY <3>1, <3>3
        <3> QED
            BY <3>1, <3>2, <3>4
    <2>2. CASE caseStatus \in AutoClosed /\ tasks = <<>>
        BY <2>2 DEF TaskSet
    <2> QED
        BY <1>1, <2>1, <2>2 DEF Init
<1>4. finalOutcome = None
    BY DEF Init
<1>5. Sole
    BY <1>3 DEF Sole, LastOf, Named
<1>6. Shape
    <2>1. CASE caseStatus = "READY" /\ TaskSet = {1} /\ tasks[1] = new
        BY <1>2, <2>1 DEF Shape, DeskDone, Finished, Top, LastOf, Named, Closed, Outcomes, AutoClosed
    <2>2. CASE caseStatus \in AutoClosed /\ TaskSet = {}
        BY <1>4, <2>2 DEF Shape, Finished, AutoClosed
    <2> QED
        BY <1>3, <2>1, <2>2
<1>7. \A r \in Requests : req[r].at = "idle"
    BY DEF Init, Idle
<1>8. \A r \in Requests : Flight(req[r])
    BY <1>7 DEF Flight, FlightOnTask, FlightOnCase, FlightOnClosure, FlightOnReopening
<1> QED
    BY <1>4, <1>5, <1>6, <1>8 DEF UInv, Investigated

LEMMA NextKeepsUInv ==
    ASSUME Careful, IInv, SInv, UInv, [Next]_vars
    PROVE  UInv'
<1>1. Now
    BY DEF Careful, Now
<1>2. CASE UNCHANGED vars
    <2>1. UNCHANGED <<caseVars, taskVars>> /\ req' = req
        BY <1>2 DEF vars, caseVars, taskVars
    <2>2. PICK x : x = req
        OBVIOUS
    <2>3. \A r \in Requests : Flight(x[r])'
        BY <1>2, <2>2 DEF UInv, Flight, FlightOnTask, FlightOnCase, FlightOnClosure, FlightOnReopening,
                      vars, Concluded, DeskDone, Finished, Top, LastOf, Named, TaskSet, LastCompleted,
                      Investigations, Having
    <2> QED
        BY <2>1, <2>2, <2>3, SameCase DEF UInv
<1>3. CASE Next
    <2>1. PICK r \in Requests :
             TaskWorkNext(r) \/ SuspensionNext(r) \/ ClosureNext(r) \/ ReopeningNext(r)
        BY <1>3 DEF Next, Fail, Careful
    <2>2. Good(r)
        BY <1>1, <2>1, TaskWorkGood, SuspensionGood, ClosureGood, ReopeningGood
    <2> QED
        BY <1>1, <2>2, GoodKeepsUInv
<1> QED
    BY <1>2, <1>3

LEMMA UInvInvariant == Careful => (Spec => [](IInv /\ SInv /\ UInv))
<1> SUFFICES ASSUME Careful PROVE Spec => [](IInv /\ SInv /\ UInv)
    OBVIOUS
<1>1. Spec => [](IInv /\ SInv)
    BY SInvInvariant DEF Careful
<1>2. IInv /\ SInv /\ UInv /\ [Next]_vars => UInv'
    BY NextKeepsUInv
<1> QED
    BY <1>1, <1>2, InitUInv, PTL DEF Spec
-----------------------------------------------------------------------------
(***************************************************************************)
(* The theorems.                                                           *)
(***************************************************************************)
LEMMA AtRest ==
    ASSUME UInv, Quiet
    PROVE  Shape
BY DEF UInv, Quiet, Before

LEMMA OpenIsNamed ==
    ASSUME Now, NEW t \in TaskSet, tasks[t].status # "COMPLETED", NEW N, Finished(N)
    PROVE  tasks[t].name \in TaskNames \ N /\ LastOf(tasks[t].name, t)
BY KnownStatus DEF Finished, Now, UInv, Sole

LEMMA NowClosedIsComplete ==
    ASSUME Now
    PROVE  ClosedIsComplete
<1>1. ClosedIsFinished
    <2>1. SUFFICES ASSUME Quiet, caseStatus \in Closed, NEW t \in OpenTasks PROVE t \in Named("SAR")
        BY DEF ClosedIsFinished
    <2>2. Finished({"Investigate", "ApproveClosure", "ApproveReopening"})
        BY <2>1, AtRest DEF Now, Shape
    <2> QED
        BY <2>1, <2>2, OpenIsNamed DEF OpenTasks, TaskNames, Named
<1>2. ConfirmedIsFiled
    BY AtRest DEF Now, ConfirmedIsFiled, Shape, Closed, Outcomes
<1>3. ClosedWasInvestigated
    BY DEF Now, IInv, OutcomeRecorded, UInv, Investigated, ClosedWasInvestigated, Investigations,
           Having, Named
<1> QED
    BY <1>1, <1>2, <1>3 DEF ClosedIsComplete

LEMMA NowNoDeadEnds ==
    ASSUME Now, later = 0
    PROVE  NoDeadEnds
<1>1. ReadyOffersWork
    BY AtRest DEF Now, ReadyOffersWork, Shape, Top, LastOf, Investigations, Having
<1>2. OwnerCanWork
    <2>1. SUFFICES ASSUME Quiet, caseStatus \in {"ASSIGNED", "IN_PROGRESS"},
                          NEW t, t = Latest(Named("Investigate"))
                   PROVE  /\ caseOwner # NoUser /\ tasks[t].assignee = caseOwner
                          /\ caseStatus = "ASSIGNED" => tasks[t].status = "ASSIGNED"
                          /\ tasks[t].status \in {"ASSIGNED", "IN_PROGRESS", "COMPLETED"}
        BY DEF OwnerCanWork
    <2>2. /\ caseOwner # NoUser
          /\ Top("Investigate", {"ASSIGNED", "IN_PROGRESS", "COMPLETED"}, caseOwner)
          /\ caseStatus = "ASSIGNED" => Top("Investigate", {"ASSIGNED"}, caseOwner)
        BY <2>1, AtRest DEF Now, Shape, Top
    <2>3. LastOf("Investigate", t)
        BY <2>1, <2>2, LatestIsLast DEF Now, Top, LastOf
    <2> QED
        BY <2>2, <2>3, LastIsOne DEF Now, Top
<1>3. SuspendedCanResume
    BY AtRest DEF Now, SuspendedCanResume, Shape, LastOf, Investigations, Having
<1>4. PendingIsDecidable
    <2>1. ASSUME Quiet, caseStatus = "PENDING_CLOSURE"
          PROVE  CaseComplete /\ \E t \in Having("ApproveClosure", {"UNASSIGNED"}) : OpenTasks = {t}
        <3>1. Concluded /\ Top("ApproveClosure", {"UNASSIGNED"}, NoUser)
            BY <2>1, AtRest DEF Now, Shape
        <3>2. PICK t \in TaskSet : LastOf("ApproveClosure", t) /\ tasks[t].status = "UNASSIGNED"
            BY <3>1 DEF Top
        <3>3. ASSUME NEW o \in TaskSet, tasks[o].status # "COMPLETED" PROVE o = t
            <4>1. tasks[o].name = "ApproveClosure" /\ LastOf(tasks[o].name, o)
                BY <3>1, <3>3, OpenIsNamed DEF Concluded, TaskNames
            <4> QED
                BY <3>2, <4>1, LastIsOne DEF Now
        <3>4. CaseComplete
            BY <2>1, NowClosedIsComplete DEF ClosedIsComplete, ClosedWasInvestigated, CaseComplete,
                                             LatestComments
        <3> QED
            BY <3>2, <3>3, <3>4 DEF Having, LastOf, OpenTasks
    <2>2. ASSUME Quiet, caseStatus = "PENDING_REOPENING"
          PROVE  Having("ApproveReopening", {"UNASSIGNED"}) # {}
        BY <2>2, AtRest DEF Now, Shape, Top, LastOf, Having
    <2> QED
        BY <2>1, <2>2 DEF PendingIsDecidable
<1> QED
    BY <1>1, <1>2, <1>3, <1>4 DEF NoDeadEnds

\* From the web client, one request at a time and none lost, a closed case is
\* complete: nobody has work left but the
\* filing of a confirmed one, which is asked for, and an outcome rests on a
\* completed investigation.
THEOREM ClosedAlwaysComplete == Careful => (Spec => []ClosedIsComplete)
<1> SUFFICES ASSUME Careful PROVE Spec => []ClosedIsComplete
    OBVIOUS
<1>1. IInv /\ SInv /\ UInv => ClosedIsComplete
    BY NowClosedIsComplete DEF Careful, Now
<1> QED
    BY <1>1, UInvInvariant, PTL
-----------------------------------------------------------------------------
(***************************************************************************)
(* The lifecycle.                                                          *)
(***************************************************************************)
\* What the handlers do to the case row.
Retaken ==
    /\ caseStatus \in Desk /\ caseStatus' \in {"ASSIGNED", "IN_PROGRESS"}
    /\ caseOwner' \in Users /\ finalOutcome' = finalOutcome
GivenUp ==
    /\ caseStatus \in {"ASSIGNED", "IN_PROGRESS"} /\ caseStatus' = "READY"
    /\ finalOutcome' = finalOutcome
Handed ==
    /\ <<caseStatus, caseStatus'>> \in {<<"IN_PROGRESS", "SUSPENDED">>, <<"SUSPENDED", "IN_PROGRESS">>,
                                        <<"PENDING_CLOSURE", "IN_PROGRESS">>}
    /\ caseOwner' = caseOwner /\ finalOutcome' = finalOutcome
Recommended ==
    /\ caseStatus = "IN_PROGRESS" /\ caseStatus' = "PENDING_CLOSURE"
    /\ caseOwner' = caseOwner /\ finalOutcome' \in Outcomes
Decided ==
    /\ caseStatus \in {"IN_PROGRESS", "PENDING_CLOSURE"} /\ caseStatus' \in Outcomes
    /\ finalOutcome' \in Outcomes
ReopenedOrAsked ==
    /\ caseStatus \in Closed /\ caseStatus' \in {"READY", "PENDING_REOPENING"}
    /\ finalOutcome' = finalOutcome
ReopeningDecided ==
    /\ caseStatus = "PENDING_REOPENING" /\ caseStatus' \in {"READY"} \union Outcomes
    /\ finalOutcome' = finalOutcome
RowMoves ==
    \/ UNCHANGED rowVars
    \/ Retaken \/ GivenUp \/ Handed \/ Recommended \/ Decided \/ ReopenedOrAsked \/ ReopeningDecided

LEMMA TaskWorkMovesRow ==
    ASSUME Now, NEW r \in Requests, TaskWorkNext(r)
    PROVE  RowMoves
<1>1. \/ UNCHANGED rowVars
      \/ AssignCommit(r) \/ UnassignCommit(r) \/ PatchCommit(r)
    BY DEF TaskWorkNext, AssignCheck, UnassignCheck, PatchCheck, CompleteCheck, CompleteCommit,
           caseVars, rowVars
<1>2. ASSUME AssignCommit(r) PROVE RowMoves
    <2>1. req[r].at = "assign" /\ req[r].arg \in Users
        BY <1>2, RequestKnown DEF AssignCommit, Now, RequestOK
    <2> QED
        BY <1>2, <2>1, InFlight DEF AssignCommit, WriteCase, Commented, caseVars, rowVars, Flight,
                                    FlightOnTask, RowMoves, Retaken
<1>3. ASSUME UnassignCommit(r) PROVE RowMoves
    <2>1. /\ req[r].at = "unassign"
          /\ tasks[req[r].task].name = "Investigate" => caseStatus \in {"ASSIGNED", "IN_PROGRESS"}
          /\ tasks[req[r].task].name \in {"Investigate", "SAR"}
        BY <1>3, InFlight DEF UnassignCommit, Flight, FlightOnTask
    <2> QED
        BY <1>3, <2>1 DEF UnassignCommit, WriteCase, Commented, RowMoves, GivenUp
<1>4. ASSUME PatchCommit(r) PROVE RowMoves
    <2>1. CASE req[r].at = "promote"
        <3>1. req[r].by \in Users /\ caseStatus = "ASSIGNED"
            BY <2>1, RequestKnown, InFlight DEF Now, RequestOK, Flight, FlightOnTask
        <3> QED
            BY <1>4, <2>1, <3>1, UsersAssumption DEF PatchCommit, WriteCase, RowMoves, Retaken, Desk
    <2>2. CASE req[r].at # "promote"
        BY <1>4, <2>2 DEF PatchCommit, RowMoves, caseVars, rowVars
    <2> QED
        BY <2>1, <2>2
<1> QED
    BY <1>1, <1>2, <1>3, <1>4 DEF RowMoves

LEMMA SuspensionMovesRow ==
    ASSUME Now, NEW r \in Requests, SuspensionNext(r)
    PROVE  RowMoves
<1>1. SuspendCase(r) => Handed
    BY InFlight DEF SuspendCase, WriteCase, Flight, FlightOnCase, Handed
<1>2. ResumeCase(r) => Handed
    BY InFlight DEF ResumeCase, WriteCase, Flight, FlightOnCase, Handed
<1>3. ASSUME NEW t \in req[r].todo, UnblockTask(r, t) PROVE UNCHANGED rowVars
    <2>1. caseStatus = "IN_PROGRESS"
        BY <1>3, InFlight DEF UnblockTask, Flight, FlightOnCase
    <2> QED
        BY <1>3, <2>1 DEF UnblockTask, Promotes, Comments, Commented, caseVars, rowVars
<1>4. ASSUME NEW t \in req[r].todo, BlockTask(r, t) PROVE UNCHANGED rowVars
    BY <1>4 DEF BlockTask, Comments, Commented, caseVars, rowVars
<1> QED
    BY <1>1, <1>2, <1>3, <1>4 DEF SuspensionNext, SuspendCheck, ResumeCheck, caseVars, rowVars, RowMoves

LEMMA ClosureMovesRow ==
    ASSUME Now, NEW r \in Requests, ClosureNext(r)
    PROVE  RowMoves
<1>1. \/ UNCHANGED rowVars
      \/ DirectClosure(r) \/ RecommendClosure(r) \/ ApproveClosure(r)
      \/ \E t \in TaskSet : RejectClosure(r, t)
    <2>1. ~ReturnCase(r)
        BY InFlight DEF ReturnCase, Flight
    <2> QED
        BY <2>1 DEF ClosureNext, CloseCheck, ApproveCheck, ReviewCheck, SubmitClosure, FileSAR,
                    ClaimApproval, FindInvestigator, RejectNotFound, AddComment, Commented, caseVars,
                    rowVars
<1>2. ASSUME DirectClosure(r) \/ ApproveClosure(r) PROVE Decided
    <2>1. /\ req[r].at \in {"direct", "approve"} /\ caseStatus' = req[r].arg /\ finalOutcome' = req[r].arg
        BY <1>2 DEF DirectClosure, ApproveClosure, WriteCase
    <2>2. req[r].arg \in Outcomes
        BY <2>1, RequestKnown DEF Now, RequestOK
    <2> QED
        BY <2>1, <2>2, InFlight DEF Flight, FlightOnClosure, Decided
<1>3. ASSUME RecommendClosure(r) PROVE Recommended
    <2>1. req[r].at = "recommend" /\ req[r].arg \in Outcomes
        BY <1>3, RequestKnown DEF RecommendClosure, Now, RequestOK
    <2> QED
        BY <1>3, <2>1, InFlight DEF RecommendClosure, WriteCase, Flight, FlightOnClosure, Recommended
<1>4. ASSUME NEW t \in TaskSet, RejectClosure(r, t) PROVE Handed
    BY <1>4, InFlight DEF RejectClosure, WriteCase, Flight, FlightOnClosure, Handed
<1> QED
    BY <1>1, <1>2, <1>3, <1>4 DEF RowMoves

LEMMA ReopeningMovesRow ==
    ASSUME Now, NEW r \in Requests, ReopeningNext(r)
    PROVE  RowMoves
<1>1. \/ UNCHANGED rowVars
      \/ ReopenCase(r) \/ RequestReopening(r) \/ ApproveReopening(r) \/ RejectReopening(r)
    BY DEF ReopeningNext, ReopenCheck, ApproveReopeningCheck, RejectReopeningCheck,
           InsertReopenedTask, caseVars, rowVars
<1>2. ReopenCase(r) \/ RequestReopening(r) => ReopenedOrAsked
    BY InFlight DEF ReopenCase, RequestReopening, WriteCase, Flight, FlightOnReopening, ReopenedOrAsked
<1>3. ApproveReopening(r) => ReopeningDecided
    BY InFlight DEF ApproveReopening, WriteCase, Flight, FlightOnReopening, ReopeningDecided
<1>4. ASSUME RejectReopening(r) PROVE ReopeningDecided
    <2>1. req[r].at = "rejectReopen" /\ req[r].arg \in Outcomes
        BY <1>4, RequestKnown DEF RejectReopening, Now, RequestOK
    <2> QED
        BY <1>4, <2>1, InFlight DEF RejectReopening, WriteCase, Flight, FlightOnReopening, ReopeningDecided
<1> QED
    BY <1>1, <1>2, <1>3, <1>4 DEF RowMoves

\* Every move of the row is a move of the lifecycle, or shows nothing.
LEMMA RowMovesAreMoves ==
    ASSUME RowMoves
    PROVE  Lifecycle!Move \/ UNCHANGED Lifecycle!cycle
<1>1. CASE UNCHANGED rowVars
    BY <1>1 DEF rowVars, Lifecycle!cycle, Stage
<1>2. CASE Retaken
    <2>1. Lifecycle!Take(caseOwner')
        BY <1>2 DEF Retaken, Desk, Lifecycle!Take, Stage
    <2> QED
        BY <1>2, <2>1 DEF Retaken, Lifecycle!Move
<1>3. CASE GivenUp
    BY <1>3 DEF GivenUp, Lifecycle!Move, Lifecycle!Release, Stage
<1>4. CASE Handed
    BY <1>4 DEF Handed, Lifecycle!Move, Lifecycle!Pause, Lifecycle!Continue, Lifecycle!SendBack, Stage
<1>5. CASE Recommended
    <2>1. Lifecycle!Recommend(finalOutcome')
        BY <1>5 DEF Recommended, Lifecycle!Recommend, Stage
    <2> QED
        BY <1>5, <2>1 DEF Recommended, Lifecycle!Move
<1>6. CASE Decided
    <2>1. Lifecycle!Close(finalOutcome')
        BY <1>6 DEF Decided, Lifecycle!Close, Stage, Outcomes
    <2> QED
        BY <1>6, <2>1 DEF Decided, Lifecycle!Move
<1>7. CASE ReopenedOrAsked
    BY <1>7 DEF ReopenedOrAsked, Closed, Outcomes, AutoClosed, Lifecycle!Move, Lifecycle!AskReopening,
                Lifecycle!Reopen, Stage
<1>8. CASE ReopeningDecided
    BY <1>8 DEF ReopeningDecided, Outcomes, Lifecycle!Move, Lifecycle!RefuseReopening,
                Lifecycle!Reopen, Stage
<1> QED
    BY <1>1, <1>2, <1>3, <1>4, <1>5, <1>6, <1>7, <1>8 DEF RowMoves

\* In the same setting the handlers implement the lifecycle: only the holder takes
\* a case out of the investigation, a closure that is not decided comes back to the
\* same holder, and a reopening keeps the verdict.
THEOREM HandlersImplementLifecycle == Careful => (Spec => ImplementsLifecycle)
<1> SUFFICES ASSUME Careful PROVE Spec => ImplementsLifecycle
    OBVIOUS
<1>1. Init => Lifecycle!Start
    BY DEF Init, Lifecycle!Start, Stage, AutoClosed
<1>2. IInv /\ SInv /\ UInv /\ [Next]_vars => [Lifecycle!Move]_(Lifecycle!cycle)
    <2> SUFFICES ASSUME IInv, SInv, UInv, [Next]_vars PROVE [Lifecycle!Move]_(Lifecycle!cycle)
        OBVIOUS
    <2>1. Now
        BY DEF Careful, Now
    <2>2. CASE UNCHANGED vars
        BY <2>2, RowMovesAreMoves DEF vars, rowVars, RowMoves
    <2>3. CASE Next
        BY <2>1, <2>3, TaskWorkMovesRow, SuspensionMovesRow, ClosureMovesRow, ReopeningMovesRow,
           RowMovesAreMoves DEF Next, Fail, Careful
    <2> QED
        BY <2>2, <2>3
<1> QED
    BY <1>1, <1>2, UInvInvariant, PTL DEF Spec, ImplementsLifecycle, Lifecycle!LifecycleSpec
-----------------------------------------------------------------------------
(***************************************************************************)
(* No dead ends.                                                           *)
(***************************************************************************)
\* Nothing comments on a closure that waits.
LEMMA NothingHeard ==
    ASSUME Now, later = 0, NEW r \in Requests,
           TaskWorkNext(r) \/ SuspensionNext(r) \/ ClosureNext(r) \/ ReopeningNext(r)
    PROVE  later' = 0
<1>1. CASE TaskWorkNext(r)
    <2>1. AssignCommit(r) \/ UnassignCommit(r) => later' = 0
        <3>1. (req[r].at \in {"assign", "unassign"}) =>
                 tasks[req[r].task].name \in {"Investigate", "SAR"}
            BY InFlight DEF Flight, FlightOnTask
        <3> QED
            BY <3>1, FilingElsewhere DEF AssignCommit, UnassignCommit, WriteCase, caseVars
    <2> QED
        BY <1>1, <2>1 DEF TaskWorkNext, AssignCheck, UnassignCheck, PatchCheck, CompleteCheck,
                          PatchCommit, CompleteCommit, WriteCase, caseVars
<1>2. CASE SuspensionNext(r)
    <2>1. ASSUME NEW t \in req[r].todo, BlockTask(r, t) \/ UnblockTask(r, t)
          PROVE  later' = 0
        <3>1. caseStatus # "PENDING_CLOSURE"
            BY <2>1, InFlight DEF BlockTask, UnblockTask, Flight, FlightOnCase
        <3> QED
            BY <2>1, <3>1, CommentsElsewhere DEF BlockTask, UnblockTask, Comments, WriteCase, caseVars
    <2> QED
        BY <1>2, <2>1 DEF SuspensionNext, SuspendCheck, ResumeCheck, SuspendCase, ResumeCase,
                          WriteCase, caseVars
<1>3. CASE ClosureNext(r)
    BY <1>3 DEF ClosureNext, CloseCheck, ApproveCheck, ReviewCheck, SubmitClosure, FileSAR,
                ClaimApproval, FindInvestigator, RejectNotFound, AddComment, DirectClosure,
                RecommendClosure, ApproveClosure, RejectClosure, ReturnCase, WriteCase, caseVars, Now
<1>4. CASE ReopeningNext(r)
    BY <1>4 DEF ReopeningNext, ReopenCheck, ApproveReopeningCheck, RejectReopeningCheck,
                InsertReopenedTask, ReopenCase, RequestReopening, ApproveReopening, RejectReopening,
                WriteCase, caseVars
<1> QED
    BY <1>1, <1>2, <1>3, <1>4

\* From the web client, one request at a time and none lost, no case gets stuck:
\* whatever status it rests in, the rows hold what the handler that leads on
\* looks for, the recommendation among the latest comments included.
THEOREM NeverADeadEnd == Careful => (Spec => []NoDeadEnds)
<1> SUFFICES ASSUME Careful PROVE Spec => []NoDeadEnds
    OBVIOUS
<1>1. Init => later = 0
    BY DEF Init
<1>2. IInv /\ SInv /\ UInv /\ later = 0 /\ [Next]_vars => (later = 0)'
    BY NothingHeard DEF Careful, Now, Next, Fail, vars
<1>3. IInv /\ SInv /\ UInv /\ later = 0 => NoDeadEnds
    BY NowNoDeadEnds DEF Careful, Now
<1> QED
    BY <1>1, <1>2, <1>3, UInvInvariant, PTL DEF Spec
=============================================================================

------------------------------ MODULE CaseTable -------------------------------
(***************************************************************************)
(* The table `cases` as the lists and reports see it: who owns a case, who *)
(* has a task of it, what type and status it has, when it was created and  *)
(* when it was last written.  The handlers that write it are modelled step *)
(* by step elsewhere (CaseIntake, CaseWorkflow); here each is the change   *)
(* of the row it commits.                                                  *)
(***************************************************************************)
EXTENDS Integers, Sequences, FiniteSets

CONSTANTS
    Investigators, Supervisors,
    NoUser,      \* a null case_owner_user_id
    MaxCases,    \* bound on the rows
    MaxChanges,  \* bound on the changes
    MaxDay,      \* the last day
    Jumps        \* how many days may pass at once

Users == Investigators \union Supervisors

ASSUME TableAssumption ==
    /\ NoUser \notin Users
    /\ Investigators \intersect Supervisors = {}
    /\ {MaxCases, MaxChanges, MaxDay} \subseteq Nat
    /\ Jumps \subseteq Nat \ {0}

VARIABLES
    cases,    \* the rows, in the order of case_id
    today,    \* the day it is
    changes   \* how many changes were made
-----------------------------------------------------------------------------
Outcomes == {"REFUTED", "CONFIRMED", "INCONCLUSIVE"}    \* 81, 82, 83
AutoClosed == {"AUTO_CONFIRMED", "AUTO_REFUTED"}        \* 71, 72
Closed == Outcomes \union AutoClosed
Statuses ==
    {"DRAFT", "PENDING", "READY", "ASSIGNED", "IN_PROGRESS", "SUSPENDED",
     "PENDING_CLOSURE", "PENDING_REOPENING", "ABANDONED"} \union Closed
CaseTypes == {"FRAUD", "AML", "FRAUD_AND_AML"}
NoType == "NONE"

CaseIds == 1..Len(cases)
\* The system's user, who creates the case of an alert and is asked to revise it when
\* it is rejected, looks at no list: it is NoUser as well.
Row == [status: Statuses, type: CaseTypes \union {NoType}, owner: Users \union {NoUser},
        creator: Users \union {NoUser}, workers: SUBSET (Users \union {NoUser}),
        created: 0..MaxDay, updated: 0..MaxDay]

NewRow(s, t, o, by, w) ==
    [status |-> s, type |-> t, owner |-> o, creator |-> by, workers |-> w,
     created |-> today, updated |-> today]

\* A change commits the rows `new`; @updatedAt stamps every row that is written.
Changed(new) ==
    /\ changes < MaxChanges /\ changes' = changes + 1
    /\ Len(new) <= MaxCases
    /\ cases' = [c \in 1..Len(new) |->
                    IF c \in CaseIds /\ new[c] = cases[c] THEN cases[c]
                    ELSE [new[c] EXCEPT !.updated = today]]
    /\ UNCHANGED today
-----------------------------------------------------------------------------
\* An alert that asks for a case, a draft, and a case filed by hand.
Arrive == Changed(Append(cases, NewRow("DRAFT", NoType, NoUser, NoUser, {})))
Save(u, t) == Changed(Append(cases, NewRow("DRAFT", t, u, u, {u})))
File(u, t) ==
    IF u \in Investigators
    THEN Changed(Append(cases, NewRow("PENDING", t, NoUser, u, {})))
    ELSE Changed(cases \o IF t = "FRAUD_AND_AML"
                          THEN <<NewRow("READY", "FRAUD", u, u, {}), NewRow("READY", "AML", u, u, {})>>
                          ELSE <<NewRow("READY", t, u, u, {})>>)

\* A FRAUD_AND_AML case becomes a FRAUD case with an AML sibling.
Split(c) ==
    \E o \in {NoUser, cases[c].owner} :
        Changed(Append([cases EXCEPT ![c].status = "READY", ![c].type = "FRAUD"],
                       NewRow("READY", "AML", o, NoUser, {})))

Complete(c, u, t) ==
    /\ cases[c].status = "DRAFT"
    /\ IF u \in Investigators
       THEN Changed([cases EXCEPT ![c].status = "PENDING", ![c].type = t])
       ELSE IF t = "FRAUD_AND_AML" THEN Split(c)
       ELSE Changed([cases EXCEPT ![c].status = "READY", ![c].type = t])

Approve(c) ==
    /\ cases[c].status = "PENDING"
    /\ IF cases[c].type = "FRAUD_AND_AML" THEN Split(c)
       ELSE Changed([cases EXCEPT ![c].status = "READY"])

\* The creator is asked to revise the draft.
Reject(c) ==
    /\ cases[c].status = "PENDING"
    /\ Changed([cases EXCEPT ![c].status = "DRAFT", ![c].workers = @ \union {cases[c].creator}])

\* An alert's case: triage by hand makes it ready or closes it for the user who
\* does it, the AI closes it for nobody.
Triage(c) ==
    /\ cases[c].status = "DRAFT" /\ cases[c].type = NoType
    /\ \/ Split(c)
       \/ \E t \in {"FRAUD", "AML"} :
             \/ Changed([cases EXCEPT ![c].status = "READY", ![c].type = t])
             \/ \E u \in Users, s \in Outcomes \union {"AUTO_CONFIRMED"} :
                   Changed([cases EXCEPT ![c].status = s, ![c].owner = u, ![c].type = t])
       \/ \E s \in AutoClosed : Changed([cases EXCEPT ![c].status = s])

\* Assignment and release of a task, with the ownership of the case.
Assign(c, u) ==
    /\ cases[c].status \in {"READY", "ASSIGNED", "IN_PROGRESS"}
    /\ \E gone \in SUBSET cases[c].workers :
          /\ Cardinality(gone) <= 1
          /\ Changed([cases EXCEPT ![c].status = "ASSIGNED", ![c].owner = u,
                                   ![c].workers = (@ \ gone) \union {u}])
Release(c) ==
    /\ cases[c].status \in {"ASSIGNED", "IN_PROGRESS"}
    /\ \E gone \in SUBSET cases[c].workers :
          /\ Cardinality(gone) <= 1
          /\ Changed([cases EXCEPT ![c].status = "READY", ![c].owner = NoUser,
                                   ![c].workers = @ \ gone])

\* The changes of the status alone.
Moves ==
    {<<"DRAFT", "ABANDONED">>, <<"ASSIGNED", "IN_PROGRESS">>, <<"IN_PROGRESS", "SUSPENDED">>, <<"SUSPENDED", "IN_PROGRESS">>,
     <<"IN_PROGRESS", "PENDING_CLOSURE">>, <<"PENDING_CLOSURE", "IN_PROGRESS">>}
    \union ({"IN_PROGRESS", "PENDING_CLOSURE", "PENDING_REOPENING"} \X Outcomes)
    \union (Closed \X {"PENDING_REOPENING"})
    \union ((Closed \union {"PENDING_REOPENING"}) \X {"READY"})

Move(c, s) ==
    /\ <<cases[c].status, s>> \in Moves
    /\ Changed([cases EXCEPT ![c].status = s])

DaysPass(n) ==
    /\ today + n <= MaxDay
    /\ today' = today + n
    /\ UNCHANGED <<cases, changes>>
-----------------------------------------------------------------------------
Change ==
    \/ Arrive
    \/ \E u \in Users, t \in {"FRAUD", "FRAUD_AND_AML"} :
          \/ Save(u, t) \/ File(u, t)
          \/ \E c \in CaseIds : Complete(c, u, t)
    \/ \E c \in CaseIds :
          \/ Approve(c) \/ Reject(c) \/ Triage(c) \/ Release(c)
          \/ \E u \in Users : Assign(c, u)
          \/ \E s \in Statuses : Move(c, s)
=============================================================================

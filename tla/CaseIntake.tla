----------------------------- MODULE CaseIntake -----------------------------
(***************************************************************************)
(* From alerts to cases that wait for an investigator: intake, triage and  *)
(* manual creation, interleaved.                                           *)
(***************************************************************************)
EXTENDS CaseCreation, AlertTriage

Init ==
    /\ triageType \in TriageTypes
    /\ alerts = [a \in Alerts |-> Row("none", 0)]
    /\ groups = {}
    /\ cases = <<>> /\ tasks = <<>>
    /\ req = [r \in Requests |-> Idle]
    /\ calls = 0

Step(r) == CreationSteps(r) \/ TriageSteps(r) \/ Insert(r)

Next ==
    \E r \in Requests :
        CreationCalls(r) \/ TriageCalls(r) \/ Step(r) \/ AmlThrows(r) \/ Fail(r) \/ Expire(r)

Spec == Init /\ [][Next]_vars

\* A handler goes on as long as what it awaits is answered, and the time limit of
\* an interactive transaction is always enforced.
FairSpec == Spec /\ \A r \in Requests : WF_vars(Step(r)) /\ WF_vars(Expire(r))
-----------------------------------------------------------------------------
Quiet == \A r \in Requests : req[r].at = "idle"
Live(c) == cases[c].status \in {"DRAFT", "PENDING", "READY"}
OpenTasks(c) == {t \in 1..Len(tasks[c]) : tasks[c][t].open}
InGroup(a) == {c \in CaseIds : cases[c].group = a}
Siblings(a, type) == {c \in InGroup(a) : cases[c].type = type}

\* What is left when making the AML case of a split failed after the row was there:
\* the FRAUD case made just before it was abandoned with its investigation open.
HalfMade(c) ==
    /\ cases[c].type = "AML" /\ cases[c].group = NoAlert
    /\ c > 1 /\ cases[c - 1].status = "ABANDONED" /\ OpenNamed(c - 1, "Investigate") # {}

\* The alert's own case, which a split by the AI leaves beside two new ones.
SplitParent(c) == cases[c].type = "FRAUD_AND_AML" /\ cases[c].group # NoAlert
-----------------------------------------------------------------------------
(***************************************************************************)
(* One request at a time, none lost.                                       *)
(***************************************************************************)
\* A draft has the task that completing it needs, a pending case the task and the
\* type that approving and rejecting it need.
NoDeadEnds ==
    Quiet => \A c \in CaseIds :
        /\ cases[c].status = "DRAFT" => NewestIsOpen(c, "Complete")
        /\ cases[c].status = "PENDING" => OpenNamed(c, "Approve") # {} /\ cases[c].type # NoType

\* From every case still alive the alert can be reached, through the alert's own
\* link or through the investigation group: completion, approval and the case
\* screen look for it.
LeadsToAlert ==
    Quiet => \A c \in CaseIds : Live(c) /\ ~HalfMade(c) => AlertsOf(c) # {}

\* A READY case has its investigation and nothing else to do (two investigations
\* if triage is disabled, none if it is the parent of an AI split), and one that
\* triage closed has nothing to do: this is where the life of a case begins.
HandsOver ==
    LET untriaged(c) ==
            triageType = "DISABLED" /\ \E a \in AlertsOf(c) : alerts[a].kind = "ALRT"
    IN  Quiet => \A c \in CaseIds :
        /\ cases[c].status = "READY" /\ ~SplitParent(c) /\ ~HalfMade(c) =>
             /\ OpenTasks(c) = OpenNamed(c, "Investigate")
             /\ Cardinality(OpenTasks(c)) = IF untriaged(c) THEN 2 ELSE 1
        /\ cases[c].status = "CLOSED" => OpenTasks(c) = {}

\* An alert is not filed twice: the cases it leads to differ in type.
FiledOnce ==
    Quiet => \A a \in Alerts : \A c, d \in CasesOf(a) :
        c # d /\ Live(c) /\ Live(d) => cases[c].type # cases[d].type

\* A READY case of a group that has not kept the alert for itself (because in the
\* end it was completed as one thing) has exactly one FRAUD and one AML case beside
\* it or in its place.
SplitIsWhole ==
    Quiet => \A a \in groups : \A c \in InGroup(a) :
        cases[c].status = "READY" /\ (alerts[a].case = c => SplitParent(c)) =>
            Cardinality(Siblings(a, "FRAUD")) = 1 /\ Cardinality(Siblings(a, "AML")) = 1
-----------------------------------------------------------------------------
(***************************************************************************)
(* Overlapping requests, lost ones, and transactions that run out of time. *)
(***************************************************************************)
\* An alert that asked for a case always leads to one.
AlertKeepsCase == \A a \in Alerts : alerts[a].kind = "ALRT" => CasesOf(a) # {}

\* A case becomes AML because somebody, or the AI model, said so, or else as a
\* partner: its group exists and holds an older case, one about fraud, whatever
\* approvals, triage and completions of that case overlapped.  And nothing takes a
\* case out of its group.  (The older case may have got another AML one: see the
\* findings of the README.)
Partnered(c) ==
    /\ cases[c].group \in groups
    /\ \E d \in InGroup(cases[c].group) : d < c /\ cases[d].type \in {"FRAUD", "FRAUD_AND_AML"}
AskedFor(type) == \E r \in Requests : req'[r] # req[r] /\ req[r].type = type
SplitsHavePartners ==
    [][/\ \A c \in CaseIds' : cases'[c].type = "AML" =>
             (c \in CaseIds /\ cases[c].type = "AML") \/ AskedFor("AML") \/ Partnered(c)'
       /\ \A c \in CaseIds : cases[c].group \in {cases'[c].group, NoAlert}]_vars

\* Every request ends, although triage holds the alert and its task while it waits
\* for the case, and completion the case while it waits for the task.
EveryRequestEnds == \A r \in Requests : req[r].at # "idle" ~> req[r].at = "idle"
=============================================================================

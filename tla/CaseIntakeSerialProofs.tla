----------------------- MODULE CaseIntakeSerialProofs -----------------------
(***************************************************************************)
(* What CaseIntake promises to people who use the web client, when one     *)
(* request at a time is handled and none is lost: NoDeadEnds,              *)
(* LeadsToAlert, HandsOver and SplitIsWhole, for any number of alerts and  *)
(* calls, and whether or not making the AML case of an AI split fails.     *)
(*                                                                         *)
(* The invariant: a case nobody works on has the tasks its status asks for *)
(* (Rest), the cases about an alert are one, or the two of a split beside  *)
(* their parent (Solo, Pair), and no case is about two alerts.  Between    *)
(* two transactions of a request the rows it works on look otherwise, one  *)
(* way for each step it may owe (Flight).                                  *)
(***************************************************************************)
EXTENDS CaseIntakeProofs, FiniteSetTheorems

Orderly == /\ \A r, q \in Requests : r = q
           /\ ViaUI
           /\ Faults \subseteq {"amlThrows"}

(***************************************************************************)
(* Tasks of a case, as a list.                                             *)
(***************************************************************************)
Opens(s) == {t \in 1..Len(s) : s[t].open}
Only(s, n) == Len(s) # 0 /\ s[Len(s)] = Kept(n) /\ Opens(s) = {Len(s)}
OneMore(s, t) == /\ t \in 1..Len(s) /\ t # Len(s)
                 /\ s[Len(s)] = Kept("Investigate") /\ Opens(s) = {t, Len(s)}
Decided(s) == \A t \in 1..Len(s) : s[t].name = "Complete" => ~s[t].open

(***************************************************************************)
(* A case at rest.                                                         *)
(***************************************************************************)
About(a, c) == alerts[a].case = c \/ cases[c].group = a
Alive(c) == \E a \in Alerts : About(a, c)
Untriaged(c) == triageType = "DISABLED" /\ \E a \in Alerts : About(a, c) /\ alerts[a].kind = "ALRT"
\* A case that a person decides on.
Held(c) == Alive(c) /\ ~Untriaged(c)

Draft(c) == cases[c].status = "DRAFT" /\ Held(c) /\ Only(tasks[c], "Complete")
Pending(c) == /\ cases[c].status = "PENDING" /\ Held(c) /\ Only(tasks[c], "Approve")
              /\ cases[c].type \in CaseTypes
Handed(c) ==
    /\ cases[c].status = "READY" /\ Decided(tasks[c])
    /\ \/ HalfMade(c)
       \/ SplitParent(c) /\ Alive(c)
       \/ ~SplitParent(c) /\ Held(c) /\ Only(tasks[c], "Investigate")
       \/ /\ ~SplitParent(c) /\ Untriaged(c)
          /\ tasks[c] = <<Kept("Investigate"), Kept("Investigate")>>
Over(c) == \/ cases[c].status = "CLOSED" /\ Opens(tasks[c]) = {}
           \/ cases[c].status = "ABANDONED" /\ Decided(tasks[c])

Rest(c) == Draft(c) \/ Pending(c) \/ Handed(c) \/ Over(c)

\* The FRAUD case that a split by the AI model leaves behind when making the AML case
\* failed: HalfMade looks at it.
Left(c) == cases[c].status = "ABANDONED" /\ OpenNamed(c, "Investigate") # {}

(***************************************************************************)
(* The cases about an alert at rest.                                       *)
(***************************************************************************)
Solo(a) ==
    /\ \A c, d \in CaseIds : About(a, c) /\ About(a, d) => c = d
    /\ \A c \in CaseIds : cases[c].group = a =>
          /\ cases[c].status = "READY" => cases[c].type # "FRAUD_AND_AML"
          /\ cases[c].type # "FRAUD_AND_AML" => alerts[a].case = c
IsPair(a, f, m) ==
    /\ f # m /\ cases[f].type = "FRAUD" /\ cases[m].type = "AML"
    /\ cases[f].group = a /\ cases[m].group = a /\ alerts[a].case \notin {f, m}
    /\ \A c \in CaseIds : About(a, c) =>
          cases[c].status = "READY" /\ (c \in {f, m} \/ cases[c].type = "FRAUD_AND_AML")
Pair(a) == \E f, m \in CaseIds : IsPair(a, f, m)

NoGhost(a) == /\ alerts[a].kind = "none" => alerts[a].case = 0 /\ a \notin groups
              /\ a \notin groups => \A c \in CaseIds : cases[c].group # a
OneSubject == \A a, b \in Alerts : \A c \in CaseIds : About(a, c) /\ About(b, c) => a = b
-----------------------------------------------------------------------------
(***************************************************************************)
(* A request in flight.                                                    *)
(***************************************************************************)
\* The cases it works on, and the alert whose cases it has half split.
Busy(q) == {q.case, q.home} \union {q.kin[i] : i \in 1..Len(q.kin)}
Splitting == {"sibling", "link", "kinCase", "kinFinished", "kinTask", "undo", "dropGroup"}
Torn(q) == IF q.at \in Splitting THEN q.alert ELSE NoAlert

\* The cases about an alert are those of S.
Just(a, S) == \A c \in CaseIds : About(a, c) => c \in S

\* An alert nobody has looked into.
Fresh(a) == /\ a \in Alerts /\ alerts[a].kind = "NALT" /\ alerts[a].case = 0
            /\ \A c \in CaseIds : cases[c].group # a

\* A case just inserted for alert a.
Made(c, s, t, g) == c \in CaseIds /\ cases[c] = NewCase(s, t, g)

\* The request works on case c alone, a draft (or not) that is held.
Works(q, c) == c \in CaseIds /\ q.case = c /\ q.kin = <<>> /\ q.home \in {0, c}
Drafting(c, s) == cases[c].status = s /\ Held(c)

\* Manual triage of the draft that its alert is linked to.
Triaging(q) ==
    /\ q.home \in CaseIds /\ q.kin = <<>> /\ q.alert \in Alerts
    /\ alerts[q.alert].case = q.home /\ triageType = "MANUAL" /\ q.type \in CaseTypes

\* The AI's triage, and none: the draft of a new alert.
Ingested(q) ==
    /\ q.case \in CaseIds /\ q.kin = <<>> /\ q.home = 0 /\ q.alert \in Alerts
    /\ alerts[q.alert].kind = "ALRT" /\ alerts[q.alert].case = q.case
    /\ cases[q.case].status = "DRAFT" /\ cases[q.case].group = NoAlert
    /\ Just(q.alert, {q.case})

FraudCase(q, k) == Made(k, "READY", "FRAUD", q.alert)
AmlCase(q, k) == Made(k, "READY", "AML", q.alert)

\* About to link the cases of a split, and a case.
LinksTwo(q) ==
    /\ q.role = "SUPERVISOR" /\ q.type = "FRAUD_AND_AML"
    /\ \E k \in CaseIds : /\ q.kin = <<k>> /\ k # q.case /\ tasks[k] = <<>>
                          /\ FraudCase(q, q.case) /\ AmlCase(q, k)
                          /\ Just(q.alert, {q.case, k})
LinksOne(q) ==
    /\ q.kin = <<>> /\ ~Splits(q.role, q.type) /\ q.type \in CaseTypes
    /\ Made(q.case, ManualStatus(q.role), q.type, GroupOf(q))
    /\ Just(q.alert, {q.case})
    /\ \A a \in Alerts : About(a, q.case) => a = q.alert

Siblingless(q) ==
    /\ q.kin = <<>> /\ q.home = 0 /\ q.role = "SUPERVISOR" /\ q.type = "FRAUD_AND_AML"
    /\ q.alert \in groups /\ alerts[q.alert].kind = "NALT" /\ alerts[q.alert].case = 0
    /\ FraudCase(q, q.case) /\ tasks[q.case] = <<>> /\ Just(q.alert, {q.case})
Linking(q) ==
    /\ q.home = 0 /\ q.alert \in Alerts
    /\ alerts[q.alert].kind = "NALT" /\ alerts[q.alert].case = 0
    /\ q.case \in CaseIds /\ tasks[q.case] = <<>>
    /\ q.type = "FRAUD_AND_AML" => q.alert \in groups
    /\ LinksTwo(q) \/ LinksOne(q)

\* The alert looked up for a case that is to be split leads to it.
Chosen(q) == q.alert = NoAlert \/ (q.alert \in Alerts /\ About(q.alert, q.case))

\* The types of a case that is not to be split.
OneKind == {"FRAUD", "AML"}

FlightCreation(q) ==
    CASE q.at \in {"group", "primary", "draft"} ->
             /\ q.case = 0 /\ q.kin = <<>> /\ q.home = 0
             /\ Fresh(q.alert) /\ q.type \in CaseTypes
             /\ q.at = "group" => q.type = "FRAUD_AND_AML"
             /\ q.at = "primary" /\ q.type = "FRAUD_AND_AML" => q.alert \in groups
      [] q.at = "sibling" -> Siblingless(q)
      [] q.at = "link" -> Linking(q)
      [] OTHER -> TRUE

FlightDecision(q) ==
    CASE q.at = "completeLock" ->
             Works(q, q.case) /\ Draft(q.case) /\ q.type \in CaseTypes /\ q.arg = "none"
      [] q.at = "completeTask" ->
             /\ Works(q, q.case) /\ Draft(q.case) /\ q.type \in CaseTypes /\ q.arg = "none"
             /\ q.task = Len(tasks[q.case]) /\ Chosen(q)
      [] q.at = "completeCommit" ->
             /\ Chosen(q) /\ Works(q, q.case) /\ Drafting(q.case, "DRAFT") /\ q.type \in CaseTypes
             /\ Opens(tasks[q.case]) = {}
      [] q.at = "abandon" ->
             Works(q, q.case) /\ Draft(q.case) /\ q.task = Len(tasks[q.case])
      [] q.at = "abandonTask" ->
             /\ Works(q, q.case) /\ Drafting(q.case, "ABANDONED")
             /\ Only(tasks[q.case], "Complete") /\ q.task = Len(tasks[q.case])
      [] q.at \in {"approve", "reject"} ->
             Works(q, q.case) /\ Pending(q.case) /\ q.task = Len(tasks[q.case])
      [] q.at = "rejectTask" ->
             /\ Works(q, q.case) /\ Drafting(q.case, "DRAFT")
             /\ Only(tasks[q.case], "Approve") /\ q.task = Len(tasks[q.case])
      [] q.at = "insert" ->
             /\ Works(q, q.case) /\ Held(q.case) /\ Opens(tasks[q.case]) = {}
             /\ \/ q.arg = "Complete" /\ cases[q.case].status = "DRAFT"
                \/ /\ q.arg = "Approve" /\ cases[q.case].status = "PENDING"
                   /\ cases[q.case].type \in CaseTypes
                \/ /\ q.arg = "Investigate" /\ cases[q.case].status = "READY"
                   /\ cases[q.case].type \in OneKind
      [] OTHER -> TRUE

FlightTriage(q) ==
    CASE q.at \in {"triage", "triageClose", "triageSplit"} ->
             /\ Triaging(q) /\ Draft(q.home) /\ q.task = Len(tasks[q.home])
             /\ IF q.at = "triage" THEN q.case = 0 /\ q.arg \in {"close", "ready"}
                ELSE q.case = q.home /\ q.arg \in {"close", "ready"}
      [] q.at \in {"investigate", "ready"} /\ q.arg = "inTriage" ->
             /\ Triaging(q) /\ q.case = q.home /\ q.type \in OneKind
             /\ Drafting(q.case, "DRAFT")
             /\ IF q.at = "investigate" THEN Only(tasks[q.case], "Complete") /\ q.task = Len(tasks[q.case])
                ELSE OneMore(tasks[q.case], q.task)
      [] q.at = "triageCommit" ->
             /\ Triaging(q) /\ q.case = q.home /\ Held(q.case)
             /\ \/ /\ cases[q.case].status = "READY" /\ cases[q.case].type \in OneKind
                   /\ OneMore(tasks[q.case], q.task)
                \/ /\ cases[q.case].status = "CLOSED" /\ q.task \in 1..Len(tasks[q.case])
                   /\ Opens(tasks[q.case]) = {q.task}
      [] OTHER -> TRUE

FlightIntake(q) ==
    CASE q.at = "ingest" ->
             /\ q.kin = <<>> /\ q.home = 0 /\ q.alert \in Alerts /\ alerts[q.alert].kind = "none"
             /\ Made(q.case, "DRAFT", NoType, NoAlert) /\ tasks[q.case] = <<>> /\ ~Alive(q.case)
             /\ q.type = NoType
      [] q.at = "insertFirst" ->
             /\ Ingested(q) /\ triageType = "DISABLED" /\ tasks[q.case] = <<>>
             /\ cases[q.case].type = NoType /\ q.type = NoType
      [] q.at \in {"investigate", "ready"} /\ q.arg # "inTriage" ->
             /\ Ingested(q) /\ q.arg = "none"
             /\ \/ /\ triageType = "DISABLED" /\ cases[q.case].type = NoType /\ q.type = NoType
                   /\ tasks[q.case] = IF q.at = "investigate" THEN <<Kept("Investigate")>>
                                      ELSE <<Kept("Investigate"), Kept("Investigate")>>
                \/ /\ triageType = "AI" /\ q.type \in CaseTypes
                   /\ IF q.at = "investigate" THEN Opens(tasks[q.case]) = {}
                      ELSE Only(tasks[q.case], "Investigate")
      [] q.at = "triageTask" ->
             Ingested(q) /\ triageType = "AI" /\ tasks[q.case] = <<>>
      [] q.at \in {"predict", "aiTask"} ->
             /\ Ingested(q) /\ triageType = "AI" /\ tasks[q.case] = <<Kept("Complete")>> /\ q.task = 1
             /\ q.at = "aiTask" => q.arg \in Answers /\ (q.arg = "investigate" => q.type \in CaseTypes)
      [] q.at \in {"aiClose", "aiGroup", "aiParent"} ->
             /\ Ingested(q) /\ triageType = "AI" /\ Opens(tasks[q.case]) = {}
             /\ q.at = "aiParent" => q.alert \in groups
      [] OTHER -> TRUE

\* The cases the request works on are about its alert, or about none.
Own(q) == \A c \in CaseIds : c \in Busy(q) =>
              cases[c].group \in {NoAlert, q.alert} /\ \A b \in Alerts : About(b, c) => b = q.alert

\* The parent, and the cases made so far.
Parent(q) ==
    /\ q.home = 0 /\ q.alert \in Alerts /\ triageType = "AI" /\ alerts[q.alert].kind = "ALRT"
    /\ q.case \in CaseIds /\ alerts[q.alert].case = q.case /\ Opens(tasks[q.case]) = {}
    /\ Just(q.alert, Busy(q)) /\ Own(q) /\ q.alert \in groups
    /\ \/ q.kin = <<>>
       \/ \E k \in CaseIds \ {q.case} : q.kin = <<k>> /\ k = Len(cases)
       \/ \E k \in CaseIds \ {q.case} : \E m \in CaseIds \ {q.case, k} : q.kin = <<k, m>> /\ m = k + 1
FraudDone(q) == FraudCase(q, q.kin[1]) /\ Only(tasks[q.kin[1]], "Investigate")
HalfDone(q) ==
    Len(q.kin) = 2 => /\ AmlCase(q, q.kin[2]) /\ Decided(tasks[q.kin[2]])
                      /\ Only(tasks[q.kin[1]], "Investigate")
Undone(c) == cases[c].status = "ABANDONED" /\ cases[c].group = NoAlert

FlightSplit(q) ==
    CASE q.at = "kinCase" ->
             /\ Parent(q) /\ Made(q.case, "READY", "FRAUD_AND_AML", q.alert)
             /\ Len(q.kin) # 2 /\ (Len(q.kin) = 1 => FraudDone(q))
      [] q.at \in {"kinFinished", "kinTask"} ->
             LET new == IF q.at = "kinFinished" THEN <<>> ELSE <<Finished("Complete")>> IN
             /\ Parent(q) /\ Made(q.case, "READY", "FRAUD_AND_AML", q.alert)
             /\ Len(q.kin) # 0
             /\ Len(q.kin) = 1 => FraudCase(q, q.kin[1]) /\ tasks[q.kin[1]] = new
             /\ Len(q.kin) = 2 => FraudDone(q) /\ AmlCase(q, q.kin[2]) /\ tasks[q.kin[2]] = new
      [] q.at = "undo" ->
             /\ Parent(q) /\ Len(q.kin) # 0 /\ HalfDone(q) /\ Decided(tasks[q.kin[1]])
             /\ q.todo # {} /\ q.todo \subseteq {q.case, q.kin[1]}
             /\ IF q.case \in q.todo THEN Made(q.case, "READY", "FRAUD_AND_AML", q.alert)
                ELSE Undone(q.case)
             /\ q.kin[1] \in q.todo \/ Undone(q.kin[1])
      [] q.at = "dropGroup" ->
             /\ Parent(q) /\ Len(q.kin) # 0 /\ HalfDone(q) /\ Decided(tasks[q.kin[1]])
             /\ Undone(q.case) /\ Undone(q.kin[1])
      [] OTHER -> TRUE

Flight(q) ==
    /\ q.at \notin {"legacyReady", "legacyTask"}
    /\ q.at = "idle" => q = Idle
    /\ FlightCreation(q) /\ FlightDecision(q) /\ FlightTriage(q) /\ FlightIntake(q) /\ FlightSplit(q)

XInv ==
    /\ IntakeTypeOK /\ triageType \in TriageTypes
    /\ OneSubject
    /\ \A a \in Alerts : NoGhost(a)
    /\ \A a \in Alerts : (\A r \in Requests : a # Torn(req[r])) => Solo(a) \/ Pair(a)
    /\ \A c \in CaseIds : (\A r \in Requests : c \notin Busy(req[r])) => Rest(c)
    /\ \A r \in Requests : Flight(req[r])
-----------------------------------------------------------------------------
(***************************************************************************)
(* Lists of tasks.                                                         *)
(***************************************************************************)
LEMMA NothingOpen == /\ <<>> \in Seq(Task) /\ Opens(<<>>) = {} /\ Decided(<<>>)
                     /\ Decided(<<Finished("Complete")>>) /\ Opens(<<Finished("Complete")>>) = {}
<1>1. <<>> \in Seq(Task) /\ Len(<<>>) = 0
    OBVIOUS
<1>2. Len(<<Finished("Complete")>>) = 1 /\ <<Finished("Complete")>>[1].open = FALSE
    BY DEF Finished
<1> QED
    BY <1>1, <1>2 DEF Opens, Decided

LEMMA ListAppended ==
    ASSUME NEW s \in Seq(Task), NEW x \in Task
    PROVE  /\ Append(s, x) \in Seq(Task) /\ Len(s) \in Nat
           /\ Len(Append(s, x)) = Len(s) + 1
           /\ Append(s, x)[Len(s) + 1] = x
           /\ \A t \in 1..Len(s) : Append(s, x)[t] = s[t]
OBVIOUS

LEMMA OpensAppended ==
    ASSUME NEW s \in Seq(Task), NEW n \in TaskNames
    PROVE  /\ Append(s, Kept(n)) \in Seq(Task)
           /\ Opens(Append(s, Kept(n))) = Opens(s) \union {Len(s) + 1}
           /\ Opens(s) = {} => Only(Append(s, Kept(n)), n)
<1> PICK u : u = Append(s, Kept(n))
    OBVIOUS
<1>1. /\ u \in Seq(Task) /\ Len(s) \in Nat /\ Len(u) = Len(s) + 1
      /\ u[Len(s) + 1] = Kept(n) /\ \A t \in 1..Len(s) : u[t] = s[t]
    BY ListAppended, TaskRows
<1>2. Kept(n).open
    BY DEF Kept
<1>3. Opens(u) = Opens(s) \union {Len(s) + 1}
    BY <1>1, <1>2 DEF Opens
<1> QED
    BY <1>1, <1>3 DEF Only

LEMMA ListClosed ==
    ASSUME NEW s \in Seq(Task), NEW t \in 1..Len(s)
    PROVE  LET u == [s EXCEPT ![t].open = FALSE]
           IN  /\ u \in Seq(Task) /\ Len(u) = Len(s) /\ ~u[t].open
               /\ \A o \in 1..Len(s) : o # t => u[o] = s[o]
               /\ \A o \in 1..Len(s) : u[o].name = s[o].name
               /\ Opens(u) = Opens(s) \ {t}
<1> PICK u : u = [s EXCEPT ![t].open = FALSE]
    OBVIOUS
<1>1. u \in Seq(Task)
    BY ListFinished
<1>2. s \in [1..Len(s) -> Task] /\ Len(s) \in Nat
    OBVIOUS
<1>3. s[t] \in [name: TaskNames, open: BOOLEAN]
    BY <1>2 DEF Task
<1>4. DOMAIN u = 1..Len(s) /\ u[t] = [s[t] EXCEPT !.open = FALSE]
    BY <1>2
<1>5. Len(u) = Len(s)
    BY <1>1, <1>2, <1>4
<1>6. ~u[t].open /\ u[t].name = s[t].name
    BY <1>3, <1>4
<1>7. \A o \in 1..Len(s) : o # t => u[o] = s[o]
    BY <1>2
<1>8. Opens(u) = Opens(s) \ {t}
    BY <1>5, <1>6, <1>7 DEF Opens
<1> QED
    BY <1>1, <1>5, <1>6, <1>7, <1>8

\* The only open task is completed; one of two is.
LEMMA OnlyClosed ==
    ASSUME NEW s \in Seq(Task), NEW n, Only(s, n), NEW t, t = Len(s)
    PROVE  /\ t \in 1..Len(s) /\ [s EXCEPT ![t].open = FALSE] \in Seq(Task)
           /\ Opens([s EXCEPT ![t].open = FALSE]) = {}
<1>1. t \in 1..Len(s) /\ Opens(s) = {t}
    BY DEF Only
<1>2. [s EXCEPT ![t].open = FALSE] \in Seq(Task)
    BY ListFinished
<1>3. Opens([s EXCEPT ![t].open = FALSE]) = Opens(s) \ {t}
    BY <1>1, ListClosed
<1> QED
    BY <1>1, <1>2, <1>3

LEMMA OneMoreClosed ==
    ASSUME NEW s \in Seq(Task), NEW t, OneMore(s, t)
    PROVE  /\ [s EXCEPT ![t].open = FALSE] \in Seq(Task)
           /\ Only([s EXCEPT ![t].open = FALSE], "Investigate")
<1> PICK last : last = Len(s)
    OBVIOUS
<1>1. t \in 1..last /\ t # last /\ last \in Nat
    BY DEF OneMore
<1>2. last # 0 /\ last \in 1..last
    BY <1>1
<1> PICK u : u = [s EXCEPT ![t].open = FALSE]
    OBVIOUS
<1>3. u \in Seq(Task) /\ Len(u) = last /\ Opens(u) = Opens(s) \ {t}
    BY <1>1, ListClosed
<1>4. \A o \in 1..last : o # t => u[o] = s[o]
    BY <1>1, ListClosed
<1>5. u[last] = s[last]
    BY <1>1, <1>2, <1>4
<1>6. s[last] = Kept("Investigate") /\ Opens(s) = {t, last}
    BY DEF OneMore
<1> QED
    BY <1>1, <1>2, <1>3, <1>5, <1>6 DEF Only

\* An investigation beside the triage task.
LEMMA OneMoreAppended ==
    ASSUME NEW s \in Seq(Task), NEW n, Only(s, n)
    PROVE  /\ Append(s, Kept("Investigate")) \in Seq(Task)
           /\ OneMore(Append(s, Kept("Investigate")), Len(s))
<1> PICK u : u = Append(s, Kept("Investigate"))
    OBVIOUS
<1>1. "Investigate" \in TaskNames
    BY DEF TaskNames
<1>2. /\ u \in Seq(Task) /\ Opens(u) = Opens(s) \union {Len(s) + 1}
      /\ Len(s) \in Nat /\ Len(u) = Len(s) + 1 /\ u[Len(s) + 1] = Kept("Investigate")
    BY <1>1, OpensAppended, ListAppended, TaskRows
<1> QED
    BY <1>2 DEF OneMore, Only

LEMMA DecidedLists ==
    ASSUME NEW s \in Seq(Task)
    PROVE  /\ Opens(s) = {} => Decided(s)
           /\ \A n : n # "Complete" /\ Only(s, n) => Decided(s)
<1>1. Opens(s) = {} => Decided(s)
    BY DEF Opens, Decided
<1>2. ASSUME NEW n, n # "Complete", Only(s, n), NEW t \in 1..Len(s), s[t].name = "Complete", s[t].open
      PROVE  FALSE
    <2>1. t = Len(s)
        BY <1>2 DEF Only, Opens
    <2> QED
        BY <1>2, <2>1 DEF Only, Kept
<1> QED
    BY <1>1, <1>2 DEF Decided

\* What the handlers look up.
LEMMA ListOf ==
    ASSUME IntakeTypeOK, NEW c \in CaseIds
    PROVE  tasks[c] \in Seq(Task) /\ cases[c] \in Case /\ c \in Nat /\ c # 0 /\ Len(cases) \in Nat
BY DEF IntakeTypeOK, TasksOK, CaseIds

LEMMA OnlyOpen ==
    ASSUME IntakeTypeOK, NEW c \in CaseIds, NEW n, Only(tasks[c], n)
    PROVE  /\ NewestIsOpen(c, n) /\ Newest(c, n) = Len(tasks[c])
           /\ \A m : \A t \in OpenNamed(c, m) : t = Len(tasks[c])
           /\ Len(tasks[c]) \in OpenNamed(c, n)
<1> PICK s : s = tasks[c]
    OBVIOUS
<1>1. s \in Seq(Task) /\ Len(s) \in 1..Len(s) /\ s[Len(s)] = Kept(n) /\ Opens(s) = {Len(s)}
    BY ListOf DEF Only
<1>2. Kept(n).name = n /\ Kept(n).open
    BY DEF Kept
<1>3. Len(s) \in Named(c, n)
    BY <1>1, <1>2 DEF Named
<1>4. Newest(c, n) = Len(s)
    <2>1. Newest(c, n) \in Named(c, n) /\ Len(s) <= Newest(c, n)
        BY <1>3, NewestIsOne
    <2> QED
        BY <1>1, <2>1 DEF Named
<1>5. \A m : \A t \in OpenNamed(c, m) : t = Len(s)
    BY <1>1 DEF OpenNamed, Named, Opens
<1> QED
    BY <1>1, <1>2, <1>3, <1>4, <1>5 DEF NewestIsOpen, OpenNamed

LEMMA DecidedNotOpen ==
    ASSUME IntakeTypeOK, NEW c \in CaseIds, Decided(tasks[c])
    PROVE  OpenNamed(c, "Complete") = {} /\ ~NewestIsOpen(c, "Complete")
<1>1. OpenNamed(c, "Complete") = {}
    BY DEF OpenNamed, Named, Decided
<1>2. Named(c, "Complete") # {} => Newest(c, "Complete") \in Named(c, "Complete")
    BY NewestIsOne
<1> QED
    BY <1>1, <1>2 DEF NewestIsOpen, OpenNamed
-----------------------------------------------------------------------------
(***************************************************************************)
(* What a step may do, when it is about alert a (NoAlert: about none) and  *)
(* writes only the cases of M: it need only show how those are left.       *)
(***************************************************************************)
Writes(a, M) ==
    /\ triageType' = triageType
    /\ IntakeTypeOK'
    /\ Len(cases) <= Len(cases')
    /\ \A b \in Alerts : b # a => alerts'[b] = alerts[b] /\ (b \in groups' <=> b \in groups)
    /\ \A c \in CaseIds : c \notin M => cases'[c] = cases[c] /\ tasks'[c] = tasks[c]
    /\ \A c \in CaseIds' : c \notin CaseIds => c \in M
    /\ \A c \in CaseIds' : c \in M => cases'[c].group \in {NoAlert, a}
    /\ \A c \in CaseIds : c \in M => \A b \in Alerts : About(b, c) => b = a

Concerns(a, M) ==
    a \in Alerts =>
        /\ NoGhost(a)'
        /\ \/ alerts'[a].case = alerts[a].case
           \/ alerts[a].case \in M \union {0} /\ alerts'[a].case \in M \union {0}
        /\ alerts'[a].kind = alerts[a].kind \/ \A c \in CaseIds : About(a, c) => c \in M

\* What a request may write: its own cases.  Only the compensation of a split works
\* on cases left behind, and it leaves them so.
Minds(p, M) ==
    \A c \in CaseIds : c \in M =>
        c \in Busy(p) /\ (p.at \in {"undo", "dropGroup"} /\ Left(c) => Left(c)')

Leaves(p, q, a, M) ==
    /\ Minds(p, M)
    /\ \A c \in CaseIds' : c \in M => c \in Busy(q) \/ Rest(c)'
    /\ \A c \in CaseIds : c \in Busy(p) => c \in M \/ c \in Busy(q)
    /\ Torn(p) \in {NoAlert, a}
    /\ a \in Alerts => a = Torn(q) \/ Solo(a)' \/ Pair(a)'
    /\ Flight(q)'

LEMMA SettledTypes ==
    ASSUME XInv
    PROVE  /\ IntakeTypeOK /\ Len(cases) \in Nat
           /\ \A c \in CaseIds : cases[c] \in Case /\ c \in Nat /\ c # 0 /\ tasks[c] \in Seq(Task)
           /\ \A a \in Alerts : alerts[a] \in Alert /\ alerts[a].case \in 0..Len(cases) /\ a # NoAlert
           /\ \A r \in Requests : req[r] \in Request /\ Flight(req[r])
BY ListOf, IntakeAssumption DEF XInv, IntakeTypeOK

LEMMA CasesStay ==
    ASSUME XInv, NEW a, NEW M, Writes(a, M)
    PROVE  /\ \A c \in CaseIds : c \in CaseIds'
           /\ \A c \in CaseIds' : c \notin M => c \in CaseIds
           /\ Len(cases') \in Nat
<1>1. Len(cases) \in Nat /\ Len(cases') \in Nat /\ Len(cases) <= Len(cases')
    BY DEF XInv, Writes, IntakeTypeOK
<1> QED
    BY <1>1 DEF Writes, CaseIds

\* Who is about a case that is not written stays so, and the other alerts lead to no
\* case that is written.
LEMMA AboutStays ==
    ASSUME XInv, NEW a, NEW M, Writes(a, M), Concerns(a, M)
    PROVE  /\ \A c \in CaseIds : c \notin M => \A b \in Alerts : About(b, c)' <=> About(b, c)
           /\ \A c \in CaseIds' : c \in M => \A b \in Alerts : About(b, c)' => b = a
<1>1. ASSUME NEW c \in CaseIds, c \notin M, NEW b \in Alerts
      PROVE  About(b, c)' <=> About(b, c)
    <2>1. cases'[c] = cases[c] /\ c # 0
        BY <1>1, SettledTypes DEF Writes
    <2>2. CASE b # a
        BY <2>1, <2>2 DEF Writes, About
    <2>3. CASE b = a
        BY <1>1, <2>1, <2>3 DEF Concerns, About
    <2> QED
        BY <2>2, <2>3
<1>2. ASSUME NEW c \in CaseIds', c \in M, NEW b \in Alerts, About(b, c)', b # a
      PROVE  FALSE
    <2>1. alerts'[b] = alerts[b]
        BY <1>2 DEF Writes
    <2>2. cases'[c].group # b
        BY <1>2, SettledTypes DEF Writes
    <2>3. alerts[b].case = c
        BY <1>2, <2>1, <2>2 DEF About
    <2>4. c \in Nat /\ c # 0
        BY <1>2, CasesStay DEF CaseIds
    <2>5. c \in CaseIds
        BY <2>3, <2>4, SettledTypes DEF CaseIds
    <2> QED
        BY <1>2, <2>3, <2>5 DEF Writes, About
<1> QED
    BY <1>1, <1>2

LEMMA HeldStays ==
    ASSUME XInv, NEW a, NEW M, Writes(a, M), Concerns(a, M),
           NEW c \in CaseIds, c \notin M
    PROVE  (Alive(c)' <=> Alive(c)) /\ (Untriaged(c)' <=> Untriaged(c)) /\ (Held(c)' <=> Held(c))
<1>1. \A b \in Alerts : About(b, c)' <=> About(b, c)
    BY AboutStays
<1>2. Alive(c)' <=> Alive(c)
    BY <1>1 DEF Alive
<1>3. \A b \in Alerts : About(b, c) => alerts'[b].kind = alerts[b].kind
    BY DEF Writes, Concerns
<1>4. Untriaged(c)' <=> Untriaged(c)
    BY <1>1, <1>3 DEF Untriaged, Writes
<1> QED
    BY <1>2, <1>4 DEF Held

\* What a request is doing.
CreationAt == {"group", "primary", "draft", "sibling", "link"}
DecisionAt == {"completeLock", "completeTask", "completeCommit", "abandon", "abandonTask",
               "approve", "reject", "rejectTask", "insert"}
TriageAt == {"triage", "triageClose", "triageSplit", "triageCommit"}
IntakeAt == {"ingest", "insertFirst", "triageTask", "predict", "aiTask", "aiClose", "aiGroup", "aiParent"}
SplitAt == {"kinCase", "kinFinished", "kinTask", "undo", "dropGroup"}

\* No request works on a case left behind, the compensation of a split aside.
LEMMA NoneLeft ==
    ASSUME XInv, NEW r \in Requests, NEW c \in CaseIds, c \in Busy(req[r]), Left(c)
    PROVE  req[r].at \in {"undo", "dropGroup"}
<1> PICK q : q = req[r]
    OBVIOUS
<1>1. Flight(q) /\ q \in Request /\ c # 0 /\ cases[c].status = "ABANDONED" /\ tasks[c] \in Seq(Task)
    BY SettledTypes DEF Left
<1>2. q.kin = <<>> => c \in {q.case, q.home}
    BY DEF Busy
<1>3. ASSUME q.at \in CreationAt PROVE FALSE
    <2>1. FlightCreation(q)
        BY <1>1 DEF Flight
    <2>2. CASE q.at \in {"group", "primary", "draft"}
        BY <1>1, <1>2, <2>1, <2>2 DEF FlightCreation
    <2>3. CASE q.at = "sibling"
        BY <1>1, <1>2, <2>1, <2>3 DEF FlightCreation, Siblingless, FraudCase, Made, NewCase
    <2>4. CASE q.at = "link"
        <3>1. Linking(q)
            BY <2>1, <2>4 DEF FlightCreation
        <3>2. CASE LinksOne(q)
            BY <1>1, <1>2, <3>1, <3>2 DEF Linking, LinksOne, Made, NewCase, ManualStatus
        <3>3. CASE LinksTwo(q)
            <4>1. PICK k \in CaseIds : /\ q.kin = <<k>>
                                       /\ FraudCase(q, q.case) /\ AmlCase(q, k)
                BY <3>3 DEF LinksTwo
            <4>2. c \in {q.case, q.home, k}
                BY <4>1 DEF Busy
            <4> QED
                BY <1>1, <3>1, <4>1, <4>2 DEF Linking, FraudCase, AmlCase, Made, NewCase
        <3> QED
            BY <3>1, <3>2, <3>3 DEF Linking
    <2> QED
        BY <1>3, <2>2, <2>3, <2>4 DEF CreationAt
<1>4. ASSUME q.at \in DecisionAt PROVE FALSE
    <2>1. FlightDecision(q)
        BY <1>1 DEF Flight
    <2>2. c = q.case
        BY <1>1, <1>2, <1>4, <2>1 DEF FlightDecision, Works, DecisionAt
    <2>3. q.at = "abandonTask"
        BY <1>1, <1>4, <2>1, <2>2 DEF FlightDecision, DecisionAt, Draft, Pending, Drafting
    <2>4. Only(tasks[c], "Complete")
        BY <2>1, <2>2, <2>3 DEF FlightDecision
    <2> QED
        BY <2>4 DEF Left, OpenNamed, Named, Only, Opens, Kept
<1>5. ASSUME q.at \in TriageAt \/ (q.at \in {"investigate", "ready"} /\ q.arg = "inTriage") PROVE FALSE
    <2>1. FlightTriage(q)
        BY <1>1 DEF Flight
    <2>2. c = q.home /\ (q.case # 0 => q.case = q.home)
        BY <1>1, <1>2, <1>5, <2>1 DEF FlightTriage, Triaging, TriageAt
    <2> QED
        BY <1>1, <1>5, <2>1, <2>2 DEF FlightTriage, TriageAt, Draft, Drafting
<1>6. ASSUME q.at \in IntakeAt \/ (q.at \in {"investigate", "ready"} /\ q.arg # "inTriage") PROVE FALSE
    <2>1. FlightIntake(q)
        BY <1>1 DEF Flight
    <2> QED
        BY <1>1, <1>2, <1>6, <2>1 DEF FlightIntake, IntakeAt, Ingested, Made, NewCase
<1>7. ASSUME q.at \in {"kinCase", "kinFinished", "kinTask"} PROVE FALSE
    <2>1. FlightSplit(q)
        BY <1>1 DEF Flight
    <2>2. Parent(q) /\ cases[q.case].status = "READY"
        BY <1>7, <2>1 DEF FlightSplit, Made, NewCase
    <2>3. CASE q.kin = <<>>
        BY <1>1, <1>2, <2>2, <2>3 DEF Parent
    <2>4. ASSUME NEW k, q.kin = <<k>> PROVE FALSE
        <3>1. Len(q.kin) = 1 /\ q.kin[1] = k /\ c \in {q.case, q.home, k}
            BY <2>4 DEF Busy
        <3> QED
            BY <1>1, <1>7, <2>1, <2>2, <3>1 DEF FlightSplit, Parent, FraudDone, FraudCase, Made, NewCase
    <2>5. ASSUME NEW k, NEW m, q.kin = <<k, m>> PROVE FALSE
        <3>1. Len(q.kin) = 2 /\ q.kin[1] = k /\ q.kin[2] = m /\ c \in {q.case, q.home, k, m}
            BY <2>5 DEF Busy
        <3> QED
            BY <1>1, <1>7, <2>1, <2>2, <3>1
            DEF FlightSplit, Parent, FraudDone, FraudCase, AmlCase, Made, NewCase
    <2> QED
        BY <2>2, <2>3, <2>4, <2>5 DEF Parent
<1>8. q.at # "idle"
    <2>1. Idle.kin = <<>> /\ Idle.case = 0 /\ Idle.home = 0
        BY DEF Idle
    <2> QED
        BY <1>1, <1>2, <2>1 DEF Flight
<1>9. q.at \in Steps /\ q.at \notin {"legacyReady", "legacyTask"}
    BY <1>1 DEF Request, Flight
<1>10. q.at \in {"investigate", "ready"} => q.arg = "inTriage" \/ q.arg # "inTriage"
    OBVIOUS
<1> PICK at : at = q.at
    OBVIOUS
<1>11. at \in Steps \ {"idle", "legacyReady", "legacyTask", "kinCase", "kinFinished", "kinTask"}
    BY <1>7, <1>8, <1>9
<1>12. at \notin CreationAt /\ at \notin DecisionAt /\ at \notin TriageAt /\ at \notin IntakeAt
       /\ at \notin {"investigate", "ready"}
    BY <1>3, <1>4, <1>5, <1>6, <1>10
<1>13. at \in {"undo", "dropGroup"}
    BY <1>11, <1>12 DEF Steps, CreationAt, DecisionAt, TriageAt, IntakeAt
<1> QED
    BY <1>13

LEMMA LeftStays ==
    ASSUME XInv, NEW r \in Requests, NEW a, NEW M, Writes(a, M), Minds(req[r], M)
    PROVE  \A c \in CaseIds : Left(c) => Left(c)'
BY NoneLeft DEF Writes, Minds, Left, OpenNamed, Named

LEMMA RestStays ==
    ASSUME XInv, NEW a, NEW M, Writes(a, M), Concerns(a, M),
           \A d \in CaseIds : Left(d) => Left(d)',
           NEW c \in CaseIds, c \notin M, Rest(c)
    PROVE  Rest(c)'
<1>1. cases'[c] = cases[c] /\ tasks'[c] = tasks[c]
    BY DEF Writes
<1>2. (Alive(c)' <=> Alive(c)) /\ (Untriaged(c)' <=> Untriaged(c)) /\ (Held(c)' <=> Held(c))
    BY HeldStays
<1>3. (Draft(c)' <=> Draft(c)) /\ (Pending(c)' <=> Pending(c)) /\ (Over(c)' <=> Over(c))
    BY <1>1, <1>2 DEF Draft, Pending, Over
<1>4. HalfMade(c) => HalfMade(c)'
    <2>1. c > 1 => c - 1 \in CaseIds
        BY SettledTypes DEF CaseIds
    <2> QED
        BY <1>1, <2>1 DEF HalfMade, Left
<1>5. Handed(c) => Handed(c)'
    BY <1>1, <1>2, <1>4 DEF Handed, SplitParent
<1> QED
    BY <1>3, <1>5 DEF Rest

LEMMA OtherAlerts ==
    ASSUME XInv, NEW a, NEW M, Writes(a, M), Concerns(a, M), NEW b \in Alerts, b # a
    PROVE  NoGhost(b)' /\ (Solo(b) => Solo(b)') /\ (Pair(b) => Pair(b)')
<1>1. alerts'[b] = alerts[b] /\ (b \in groups' <=> b \in groups)
    BY DEF Writes
<1>2. \A c \in CaseIds' : About(b, c)' => c \in CaseIds /\ c \notin M /\ About(b, c)
    BY AboutStays, CasesStay
<1>3. \A c \in CaseIds' : cases'[c].group = b => About(b, c)'
    BY DEF About
<1>4. \A c \in CaseIds : c \notin M => cases'[c] = cases[c]
    BY DEF Writes
<1>5. NoGhost(b)'
    BY <1>1, <1>2, <1>3, <1>4 DEF XInv, NoGhost
<1>6. Solo(b) => Solo(b)'
    BY <1>1, <1>2, <1>3, <1>4 DEF Solo
<1>7. ASSUME NEW f \in CaseIds, NEW m \in CaseIds, IsPair(b, f, m)
      PROVE  IsPair(b, f, m)' /\ f \in CaseIds' /\ m \in CaseIds'
    <2>1. About(b, f) /\ About(b, m)
        BY <1>7 DEF IsPair, About
    <2>2. f \notin M /\ m \notin M
        BY <2>1 DEF Writes
    <2>3. \A c \in CaseIds' : About(b, c)' =>
              cases'[c].status = "READY" /\ (c \in {f, m} \/ cases'[c].type = "FRAUD_AND_AML")
        BY <1>2, <1>4, <1>7 DEF IsPair
    <2>4. /\ f # m /\ cases'[f].type = "FRAUD" /\ cases'[m].type = "AML"
          /\ cases'[f].group = b /\ cases'[m].group = b /\ alerts'[b].case \notin {f, m}
        BY <1>1, <1>4, <1>7, <2>2 DEF IsPair
    <2> QED
        BY <2>3, <2>4, CasesStay DEF IsPair
<1>8. Pair(b) => Pair(b)'
    BY <1>7 DEF Pair
<1> QED
    BY <1>5, <1>6, <1>8

LEMMA Settles ==
    ASSUME Orderly, XInv, NEW r \in Requests, NEW q \in Request, req' = [req EXCEPT ![r] = q],
           NEW a, NEW M, Writes(a, M), Concerns(a, M), Leaves(req[r], q, a, M)
    PROVE  XInv'
<1>1. \A p \in Requests : p = r /\ req'[p] = q
    BY DEF Orderly, XInv, IntakeTypeOK
<1>2. IntakeTypeOK' /\ (triageType \in TriageTypes)'
    BY DEF Writes, XInv
<1>3. OneSubject'
    <2>1. SUFFICES ASSUME NEW b \in Alerts, NEW e \in Alerts, NEW c \in CaseIds',
                          About(b, c)', About(e, c)'
                   PROVE  b = e
        BY DEF OneSubject
    <2>2. CASE c \in M
        BY <2>1, <2>2, AboutStays
    <2>3. CASE c \notin M
        BY <2>1, <2>3, AboutStays, CasesStay DEF XInv, OneSubject
    <2> QED
        BY <2>2, <2>3
<1>4. \A b \in Alerts : NoGhost(b)'
    BY OtherAlerts DEF Concerns
<1>5. ASSUME NEW b \in Alerts, b # Torn(q) PROVE Solo(b)' \/ Pair(b)'
    <2>1. CASE b = a
        BY <1>5, <2>1 DEF Leaves
    <2>2. CASE b # a
        <3>1. b # Torn(req[r])
            BY <2>2, SettledTypes DEF Leaves
        <3>2. Solo(b) \/ Pair(b)
            BY <1>1, <3>1 DEF XInv
        <3> QED
            BY <2>2, <3>2, OtherAlerts
    <2> QED
        BY <2>1, <2>2
<1>6. ASSUME NEW c \in CaseIds', c \notin Busy(q) PROVE Rest(c)'
    <2>1. CASE c \in M
        BY <1>6, <2>1 DEF Leaves
    <2>2. CASE c \notin M
        <3>1. c \in CaseIds
            BY <1>6, <2>2, CasesStay
        <3>2. c \notin Busy(req[r])
            BY <1>6, <2>2, <3>1 DEF Leaves
        <3>3. Rest(c)
            BY <1>1, <3>1, <3>2 DEF XInv
        <3>4. \A d \in CaseIds : Left(d) => Left(d)'
            BY LeftStays DEF Leaves
        <3> QED
            BY <2>2, <3>1, <3>3, <3>4, RestStays
    <2> QED
        BY <2>1, <2>2
<1>7. \A p \in Requests : Flight(req[p])'
    BY <1>1 DEF Leaves
<1>8. \A b \in Alerts : (\A p \in Requests : b # Torn(req'[p])) => Solo(b)' \/ Pair(b)'
    BY <1>1, <1>5
<1>9. \A c \in CaseIds' : (\A p \in Requests : c \notin Busy(req'[p])) => Rest(c)'
    BY <1>1, <1>6
<1> QED
    BY <1>2, <1>3, <1>4, <1>7, <1>8, <1>9 DEF XInv, Torn, Busy
-----------------------------------------------------------------------------
(***************************************************************************)
(* Requests in flight, by what they are doing.                             *)
(***************************************************************************)
LEMMA FlightKinds ==
    ASSUME NEW q
    PROVE  /\ q.at \in CreationAt => (Flight(q) <=> FlightCreation(q))
           /\ q.at \in DecisionAt => (Flight(q) <=> FlightDecision(q))
           /\ q.at \in TriageAt => (Flight(q) <=> FlightTriage(q))
           /\ q.at \in IntakeAt => (Flight(q) <=> FlightIntake(q))
           /\ q.at \in SplitAt => (Flight(q) <=> FlightSplit(q))
           /\ q.at \in {"investigate", "ready"} => (Flight(q) <=> FlightTriage(q) /\ FlightIntake(q))
<1>1. q.at \notin CreationAt => FlightCreation(q)
    BY DEF CreationAt, FlightCreation
<1>2. q.at \notin DecisionAt => FlightDecision(q)
    BY DEF DecisionAt, FlightDecision
<1>3. q.at \notin TriageAt \union {"investigate", "ready"} => FlightTriage(q)
    BY DEF TriageAt, FlightTriage
<1>4. q.at \notin IntakeAt \union {"investigate", "ready"} => FlightIntake(q)
    BY DEF IntakeAt, FlightIntake
<1>5. q.at \notin SplitAt => FlightSplit(q)
    BY DEF SplitAt, FlightSplit
<1> QED
    BY <1>1, <1>2, <1>3, <1>4, <1>5
    DEF Flight, CreationAt, DecisionAt, TriageAt, IntakeAt, SplitAt

\* The same of the next state.
LEMMA FlightNext ==
    ASSUME NEW q
    PROVE  /\ q.at \in CreationAt => (Flight(q)' <=> FlightCreation(q)')
           /\ q.at \in DecisionAt => (Flight(q)' <=> FlightDecision(q)')
           /\ q.at \in TriageAt => (Flight(q)' <=> FlightTriage(q)')
           /\ q.at \in IntakeAt => (Flight(q)' <=> FlightIntake(q)')
           /\ q.at \in SplitAt => (Flight(q)' <=> FlightSplit(q)')
           /\ q.at \in {"investigate", "ready"} => (Flight(q)' <=> (FlightTriage(q)' /\ FlightIntake(q)'))
           /\ Flight(Idle)'
<1>1. q.at \notin CreationAt => FlightCreation(q)'
    BY DEF CreationAt, FlightCreation
<1>2. q.at \notin DecisionAt => FlightDecision(q)'
    BY DEF DecisionAt, FlightDecision
<1>3. q.at \notin TriageAt \union {"investigate", "ready"} => FlightTriage(q)'
    BY DEF TriageAt, FlightTriage
<1>4. q.at \notin IntakeAt \union {"investigate", "ready"} => FlightIntake(q)'
    BY DEF IntakeAt, FlightIntake
<1>5. q.at \notin SplitAt => FlightSplit(q)'
    BY DEF SplitAt, FlightSplit
<1>6. Flight(Idle)'
    BY DEF Idle, Flight, FlightCreation, FlightDecision, FlightTriage, FlightIntake, FlightSplit
<1> QED
    BY <1>1, <1>2, <1>3, <1>4, <1>5, <1>6
    DEF Flight, CreationAt, DecisionAt, TriageAt, IntakeAt, SplitAt

LEMMA FlightIdle == Flight(Idle)
BY DEF Idle, Flight, FlightCreation, FlightDecision, FlightTriage, FlightIntake, FlightSplit

LEMMA IdleFlight ==
    ASSUME XInv, NEW r \in Requests, req[r].at = "idle"
    PROVE  req[r] = Idle /\ Torn(req[r]) = NoAlert /\ \A c \in CaseIds : c \notin Busy(req[r])
<1>1. req[r] = Idle
    BY SettledTypes DEF Flight
<1> QED
    BY <1>1, SettledTypes DEF Idle, Torn, Splitting, Busy

\* Nobody is at work on anything else.
LEMMA Rests ==
    ASSUME Orderly, XInv, NEW r \in Requests
    PROVE  /\ \A c \in CaseIds : c \notin Busy(req[r]) => Rest(c)
           /\ \A a \in Alerts : a # Torn(req[r]) => Solo(a) \/ Pair(a)
           /\ \A q : q \in Requests => q = r
BY DEF Orderly, XInv

\* An alert with a case that is not READY has no other.
LEMMA SoloOf ==
    ASSUME Orderly, XInv, NEW r \in Requests, NEW c \in CaseIds, cases[c].status # "READY",
           NEW a \in Alerts, a # Torn(req[r]), About(a, c)
    PROVE  Solo(a) /\ \A d \in CaseIds : About(a, d) => d = c
<1>1. ~Pair(a)
    BY DEF Pair, IsPair
<1>2. Solo(a)
    BY <1>1, Rests
<1> QED
    BY <1>2 DEF Solo
-----------------------------------------------------------------------------
(***************************************************************************)
(* Steps that write no row, and steps that write one case.                 *)
(***************************************************************************)
LEMMA RowsKept ==
    ASSUME XInv, UNCHANGED <<triageType, rows>>
    PROVE  /\ OneSubject' /\ (triageType \in TriageTypes)' /\ CaseIds' = CaseIds
           /\ \A a \in Alerts : NoGhost(a)' /\ (Solo(a) \/ Pair(a) => Solo(a)' \/ Pair(a)')
           /\ \A c \in CaseIds : Rest(c) => Rest(c)'
           /\ \A q : Flight(q) => Flight(q)'
<1>2. UNCHANGED <<triageType, alerts, groups, cases, tasks>>
    BY DEF rows
<1>4. OneSubject' /\ \A a \in Alerts : NoGhost(a)'
    BY <1>2 DEF XInv, OneSubject, NoGhost, About, CaseIds
<1>5. \A c \in CaseIds : Rest(c) => Rest(c)'
    BY <1>2 DEF Rest, Draft, Pending, Handed, Over, HalfMade, SplitParent, OpenNamed, Named, Held, Alive,
       Untriaged, About
<1>6. \A a \in Alerts : Solo(a) \/ Pair(a) => Solo(a)' \/ Pair(a)'
    BY <1>2 DEF Solo, Pair, IsPair, About, CaseIds
<1>7. ASSUME NEW q, Flight(q) PROVE Flight(q)'
    <2>1. FlightCreation(q)'
        BY <1>2, <1>7 DEF Flight, FlightCreation, Siblingless, Linking, LinksTwo, LinksOne, Fresh,
           FraudCase, AmlCase, Made, Just, About, CaseIds
    <2>2. FlightDecision(q)'
        BY <1>2, <1>7 DEF Flight, FlightDecision, Works, Chosen, Drafting, Draft, Pending, Held,
           Alive, Untriaged, About, CaseIds
    <2>3. FlightTriage(q)'
        BY <1>2, <1>7 DEF Flight, FlightTriage, Triaging, Drafting, Draft, Held, Alive,
           Untriaged, About, CaseIds
    <2>4. FlightIntake(q)'
        BY <1>2, <1>7 DEF Flight, FlightIntake, Ingested, Made, Just, Alive, About, CaseIds
    <2>5. FlightSplit(q)'
        BY <1>2, <1>7 DEF Flight, FlightSplit, Parent, Own, FraudDone, HalfDone, Undone, FraudCase,
           AmlCase, Made, Just, About, CaseIds
    <2> QED
        BY <1>7, <2>1, <2>2, <2>3, <2>4, <2>5 DEF Flight
<1> QED
    BY <1>2, <1>4, <1>5, <1>6, <1>7 DEF XInv, CaseIds

LEMMA PaperStep ==
    ASSUME Orderly, XInv, NEW r \in Requests, NEW q \in Request, req' = [req EXCEPT ![r] = q],
           UNCHANGED <<triageType, rows>>,
           \A c \in CaseIds : c \in Busy(req[r]) => c \in Busy(q) \/ Rest(c),
           Torn(req[r]) \in {NoAlert, Torn(q)}, Flight(q)
    PROVE  XInv'
<1>1. \A p \in Requests : p = r /\ req'[p] = q
    BY DEF Orderly, XInv, IntakeTypeOK
<1>2. UNCHANGED <<triageType, alerts, groups, cases, tasks>>
    BY DEF rows
<1>3. IntakeTypeOK'
    BY <1>2 DEF XInv, IntakeTypeOK, TasksOK
<1>4. OneSubject' /\ \A a \in Alerts : NoGhost(a)'
    BY RowsKept
<1>5. \A c \in CaseIds : Rest(c) => Rest(c)'
    BY RowsKept
<1>6. \A a \in Alerts : Solo(a) \/ Pair(a) => Solo(a)' \/ Pair(a)'
    BY RowsKept
<1>7. Flight(q)'
    BY RowsKept
<1>8. \A c \in CaseIds : c \notin Busy(q) => Rest(c)'
    BY <1>5, Rests
<1>9. \A a \in Alerts : a # Torn(q) => Solo(a)' \/ Pair(a)'
    BY <1>6, Rests, SettledTypes
<1>10. CaseIds' = CaseIds
    BY <1>2 DEF CaseIds
<1>11. \A p \in Requests : Busy(req[p])' = Busy(q) /\ Torn(req[p])' = Torn(q) /\ Flight(req[p])'
    BY <1>1, <1>7 DEF Busy, Torn
<1>12. \A p \in Requests : p = r
    BY <1>1
<1>13. \A c \in CaseIds' : (\A p \in Requests : c \notin Busy(req[p])') => Rest(c)'
    BY <1>8, <1>10, <1>11, <1>12
<1>14. \A a \in Alerts : (\A p \in Requests : a # Torn(req[p])') => Solo(a)' \/ Pair(a)'
    BY <1>9, <1>11, <1>12
<1> QED
    BY <1>2, <1>3, <1>4, <1>11, <1>13, <1>14 DEF XInv

\* Who decides on a case does not depend on its status, type and tasks.
LEMMA SameHeld ==
    ASSUME UNCHANGED <<triageType, alerts>>, NEW c, cases'[c].group = cases[c].group
    PROVE  (Alive(c)' <=> Alive(c)) /\ (Untriaged(c)' <=> Untriaged(c)) /\ (Held(c)' <=> Held(c))
           /\ \A a \in Alerts : About(a, c)' <=> About(a, c)
BY DEF Alive, Untriaged, Held, About

\* Case c gets a row and a list of tasks; the alerts and groups are as they were.
Rewrites(c, row, list) ==
    /\ UNCHANGED <<triageType, alerts, groups>>
    /\ cases' = [cases EXCEPT ![c] = row] /\ tasks' = [tasks EXCEPT ![c] = list]

LEMMA RowWritten ==
    ASSUME IntakeTypeOK, NEW c \in CaseIds, NEW row \in Case, cases' = [cases EXCEPT ![c] = row]
    PROVE  /\ cases' \in Seq(Case) /\ Len(cases') = Len(cases) /\ CaseIds' = CaseIds
           /\ cases'[c] = row /\ \A d \in CaseIds : d # c => cases'[d] = cases[d]
<1> PICK n \in Nat : n = Len(cases) /\ cases \in [1..n -> Case]
    BY DEF IntakeTypeOK
<1>1. c \in 1..n
    BY DEF CaseIds
<1>2. cases' \in [1..n -> Case]
    BY <1>1
<1>3. cases' \in Seq(Case) /\ Len(cases') = n
    BY <1>2
<1> QED
    BY <1>1, <1>3 DEF CaseIds

LEMMA ListWritten ==
    ASSUME IntakeTypeOK, NEW c \in CaseIds, NEW list \in Seq(Task), tasks' = [tasks EXCEPT ![c] = list]
    PROVE  /\ tasks' \in Seq(Seq(Task)) /\ Len(tasks') = Len(cases)
           /\ tasks'[c] = list /\ \A d \in CaseIds : d # c => tasks'[d] = tasks[d]
<1> PICK n \in Nat : n = Len(cases) /\ tasks \in [1..n -> Seq(Task)]
    BY DEF IntakeTypeOK, TasksOK
<1>1. c \in 1..n
    BY DEF CaseIds
<1>2. tasks' \in [1..n -> Seq(Task)]
    BY <1>1
<1>3. tasks' \in Seq(Seq(Task)) /\ Len(tasks') = n
    BY <1>2
<1> QED
    BY <1>1, <1>3, SMTT(30) DEF CaseIds

LEMMA RewriteStep ==
    ASSUME Orderly, XInv, NEW r \in Requests, NEW q \in Request, req' = [req EXCEPT ![r] = q],
           NEW c \in CaseIds, NEW row \in Case, NEW list \in Seq(Task), Rewrites(c, row, list),
           row.group = cases[c].group,
           \/ row = cases[c]
           \/ /\ cases[c].status # "READY"
              /\ \/ row.group = NoAlert
                 \/ /\ row.status = "READY" => row.type # "FRAUD_AND_AML"
                    /\ row.type = cases[c].type \/ alerts[row.group].case = c,
           \A d \in CaseIds : d \in Busy(req[r]) => d = c \/ d \in Busy(q), c \in Busy(req[r]),
           Torn(req[r]) = NoAlert, Torn(q) = NoAlert,
           c \in Busy(q) \/ Rest(c)', Flight(q)'
    PROVE  XInv'
<1>1. PICK a \in Alerts \union {NoAlert} :
          IF Alive(c) THEN a \in Alerts /\ About(a, c) ELSE a = NoAlert
    BY SettledTypes DEF Alive
<1>2. /\ cases' \in Seq(Case) /\ Len(cases') = Len(cases) /\ CaseIds' = CaseIds
      /\ cases'[c] = row /\ \A d \in CaseIds : d # c => cases'[d] = cases[d]
    BY RowWritten DEF Rewrites, XInv
<1>3. /\ tasks' \in Seq(Seq(Task)) /\ Len(tasks') = Len(cases)
      /\ tasks'[c] = list /\ \A d \in CaseIds : d # c => tasks'[d] = tasks[d]
    BY ListWritten DEF Rewrites, XInv
<1>4. \A d \in CaseIds : cases'[d].group = cases[d].group
    BY <1>2
<1>5. UNCHANGED <<triageType, alerts, groups>>
    BY DEF Rewrites
<1>6. \A b \in Alerts : \A d \in CaseIds : About(b, d)' <=> About(b, d)
    BY <1>4, <1>5, SameHeld
<1>7. IntakeTypeOK'
    BY <1>2, <1>3, <1>5 DEF XInv, IntakeTypeOK, TasksOK
<1>8. \A b \in Alerts : About(b, c) => b = a
    BY <1>1 DEF XInv, OneSubject, Alive
<1>9. cases[c].group \in {NoAlert, a}
    BY <1>8, SettledTypes DEF About, Case
<1>10. Writes(a, {c})
    BY <1>2, <1>3, <1>5, <1>7, <1>8, <1>9, SettledTypes DEF Writes
<1>11. Concerns(a, {c})
    BY <1>2, <1>4, <1>5 DEF Concerns, XInv, NoGhost
<1>12. ASSUME a \in Alerts PROVE Solo(a)' \/ Pair(a)'
    <2>1. a # NoAlert /\ About(a, c)
        BY <1>1, <1>12, SettledTypes
    <2>2. CASE row = cases[c]
        <3>1. \A d \in CaseIds : cases'[d] = cases[d] /\ (About(a, d)' <=> About(a, d))
            BY <1>2, <1>6, <2>1, <2>2
        <3>2. CaseIds' = CaseIds /\ alerts' = alerts
            BY <1>2, <1>5
        <3>3. CASE Solo(a)
            BY <3>1, <3>2, <3>3 DEF Solo
        <3>4. CASE Pair(a)
            <4>1. PICK f \in CaseIds, m \in CaseIds : IsPair(a, f, m)
                BY <3>4 DEF Pair
            <4>2. IsPair(a, f, m)'
                BY <3>1, <3>2, <4>1 DEF IsPair
            <4> QED
                BY <3>2, <4>2 DEF Pair
        <3> QED
            BY <2>1, <3>3, <3>4, Rests
    <2>3. CASE row # cases[c]
        <3>1. Solo(a) /\ \A d \in CaseIds : About(a, d) => d = c
            BY <2>1, <2>3, SoloOf, SettledTypes
        <3>2. \A d \in CaseIds : cases'[d].group = a => d = c
            BY <1>4, <3>1 DEF About
        <3>3. Solo(a)'
            BY <1>2, <1>5, <1>6, <2>1, <2>3, <3>1, <3>2 DEF Solo
        <3> QED
            BY <3>3
    <2> QED
        BY <2>2, <2>3
<1>13. req[r].at \notin {"undo", "dropGroup"}
    BY SettledTypes DEF Torn, Splitting, Flight, FlightSplit, Parent
<1>14. Leaves(req[r], q, a, {c})
    BY <1>2, <1>12, <1>13 DEF Leaves, Minds
<1> QED
    BY <1>10, <1>11, <1>14, Settles
-----------------------------------------------------------------------------
(***************************************************************************)
(* The calls: what the web client offers while no request is in flight.    *)
(***************************************************************************)
LEMMA CallStep ==
    ASSUME Orderly, XInv, NEW r \in Requests, NEW q \in Request, Starts(r, q), UNCHANGED rows, Flight(q)
    PROVE  XInv'
<1>1. Torn(req[r]) = NoAlert /\ \A c \in CaseIds : c \notin Busy(req[r])
    BY IdleFlight DEF Starts
<1> QED
    BY <1>1, PaperStep DEF Starts

\* What people see is at rest.
LEMMA CallSees ==
    ASSUME Orderly, XInv, NEW r \in Requests, req[r].at = "idle"
    PROVE  \A c \in CaseIds :
               /\ Rest(c)
               /\ cases[c].status = "DRAFT" => Draft(c)
               /\ cases[c].status = "PENDING" => Pending(c)
BY IdleFlight, Rests DEF Rest, Draft, Pending, Handed, Over

LEMMA FilingCalls ==
    ASSUME Orderly, XInv, NEW r \in Requests,
           NEW role \in Roles, NEW a \in Alerts, NEW type \in CaseTypes,
           ManualCheck(r, role, a, type) \/ DraftCheck(r, role, a, type)
    PROVE  XInv'
<1>1. PICK at \in {"group", "primary", "draft"} :
          /\ type = "FRAUD_AND_AML" => at # "primary"
          /\ at = "group" => type = "FRAUD_AND_AML"
          /\ Starts(r, [Idle EXCEPT !.at = at, !.role = role, !.alert = a, !.type = type])
          /\ UNCHANGED rows
    BY DEF ManualCheck, DraftCheck
<1> PICK q : q = [Idle EXCEPT !.at = at, !.role = role, !.alert = a, !.type = type]
    OBVIOUS
<1>2. q \in Request
    BY IdleRequest, Puts, Zenon DEF Steps, Types, CaseTypes
<1>3. /\ q.at = at /\ q.alert = a /\ q.type = type
      /\ q.case = 0 /\ q.kin = <<>> /\ q.home = 0
    BY DEF Idle
<1>4. alerts[a].kind = "NALT" /\ alerts[a].case = 0 /\ a \notin groups
    BY DEF ManualCheck, DraftCheck, NaltOffered, Orderly
<1>5. Fresh(a)
    BY <1>4 DEF Fresh, XInv, NoGhost
<1>6. FlightCreation(q)
    BY <1>1, <1>3, <1>5 DEF FlightCreation
<1>7. Flight(q)
    BY <1>3, <1>6, FlightKinds DEF CreationAt
<1> QED
    BY <1>1, <1>2, <1>7, CallStep

LEMMA CaseCalls ==
    ASSUME Orderly, XInv, NEW r \in Requests, NEW c \in CaseIds, NEW q \in Request,
           Starts(r, q), UNCHANGED rows,
           q.case = c, q.kin = <<>>, q.home = 0, q.arg = "none",
           \/ q.at = "completeLock" /\ cases[c].status = "DRAFT" /\ q.type \in CaseTypes
           \/ q.at = "abandon" /\ cases[c].status = "DRAFT" /\ q.task = Newest(c, "Complete")
           \/ q.at \in {"approve", "reject"} /\ cases[c].status = "PENDING" /\ q.task \in OpenNamed(c, "Approve")
    PROVE  XInv'
<1>1. /\ cases[c].status = "DRAFT" => Draft(c)
      /\ cases[c].status = "PENDING" => Pending(c)
    BY CallSees DEF Starts
<1>2. Draft(c) => Newest(c, "Complete") = Len(tasks[c])
    BY OnlyOpen DEF XInv, Draft
<1>3. Pending(c) => \A t \in OpenNamed(c, "Approve") : t = Len(tasks[c])
    BY OnlyOpen DEF XInv, Pending
<1>4. FlightDecision(q)
    BY <1>1, <1>2, <1>3 DEF FlightDecision, Works
<1>5. Flight(q)
    BY <1>4, FlightKinds DEF DecisionAt
<1> QED
    BY <1>5, CallStep

LEMMA CreationCallsSettle ==
    ASSUME Orderly, XInv, NEW r \in Requests, CreationCalls(r)
    PROVE  XInv'
<1>1. IntakeTypeOK
    BY DEF XInv
<1>2. ASSUME NEW c \in CaseIds, NEW role \in Roles, NEW type \in CaseTypes,
             CompleteCheck(r, role, c, type)
      PROVE  XInv'
    <2> PICK q : q = [Idle EXCEPT !.at = "completeLock", !.role = role, !.case = c, !.type = type]
        OBVIOUS
    <2>1. q \in Request
        BY <1>1, RowTypes, IdleRequest, Puts, Zenon DEF Steps, Types, CaseTypes
    <2>2. /\ q.at = "completeLock" /\ q.case = c /\ q.type = type
          /\ q.kin = <<>> /\ q.home = 0 /\ q.arg = "none"
        BY DEF Idle
    <2> QED
        BY <1>2, <2>1, <2>2, CaseCalls DEF CompleteCheck
<1>3. ASSUME NEW c \in CaseIds, NEW role \in Roles, AbandonCheck(r, role, c) PROVE XInv'
    <2> PICK q : q = [Idle EXCEPT !.at = "abandon", !.role = role, !.case = c,
                                  !.task = Newest(c, "Complete")]
        OBVIOUS
    <2>1. Newest(c, "Complete") \in Nat
        BY <1>1, <1>3, NewestIsOne DEF AbandonCheck, NewestIsOpen
    <2>2. q \in Request
        <3>1. "abandon" \in Steps /\ c \in Nat
            BY <1>1, RowTypes DEF Steps
        <3> QED
            BY <2>1, <3>1, IdleRequest, Puts, Zenon
    <2>3. /\ q.at = "abandon" /\ q.case = c /\ q.task = Newest(c, "Complete")
          /\ q.kin = <<>> /\ q.home = 0 /\ q.arg = "none"
        BY DEF Idle
    <2> QED
        BY <1>3, <2>2, <2>3, CaseCalls DEF AbandonCheck
<1>4. ASSUME NEW c \in CaseIds, NEW t \in OpenNamed(c, "Approve"), NEW step \in {"approve", "reject"},
             DecisionCheck(r, c, t, step)
      PROVE  XInv'
    <2> PICK q : q = [Idle EXCEPT !.at = step, !.role = "SUPERVISOR", !.case = c, !.task = t]
        OBVIOUS
    <2>1. t \in Nat
        BY DEF OpenNamed, Named
    <2>2. q \in Request
        <3>1. step \in Steps /\ c \in Nat /\ "SUPERVISOR" \in Roles
            BY <1>1, RowTypes DEF Steps, Roles
        <3> QED
            BY <2>1, <3>1, IdleRequest, Puts, Zenon
    <2>3. /\ q.at = step /\ q.case = c /\ q.task = t
          /\ q.kin = <<>> /\ q.home = 0 /\ q.arg = "none"
        BY DEF Idle
    <2>4. Starts(r, q) /\ UNCHANGED rows /\ cases[c].status = "PENDING"
        BY <1>4, Zenon DEF DecisionCheck
    <2> QED
        BY <1>4, <2>2, <2>3, <2>4, CaseCalls
<1>5. \A c \in CaseIds : ~LegacyCheck(r, c)
    BY DEF Orderly, LegacyCheck
<1> QED
    BY <1>2, <1>3, <1>4, <1>5, FilingCalls, Zenon DEF CreationCalls, CaseTypes

LEMMA TriageCheckSettles ==
    ASSUME Orderly, XInv, NEW r \in Requests, NEW a \in Alerts, NEW c \in CaseIds,
           NEW way \in {"close", "ready"}, NEW type \in CaseTypes, NEW t \in OpenNamed(c, "Complete"),
           TriageCheck(r, a, c, t, way, type)
    PROVE  XInv'
<1> PICK q : q = [Idle EXCEPT !.at = "triage", !.alert = a, !.task = t, !.home = c,
                              !.type = type, !.arg = way]
    OBVIOUS
<1>1. /\ triageType = "MANUAL" /\ alerts[a].case = c /\ cases[c].status # "CLOSED"
      /\ NewestIsOpen(c, "Complete") /\ Starts(r, q) /\ UNCHANGED rows
    BY Zenon DEF TriageCheck, Orderly
<1>2. Rest(c) /\ IntakeTypeOK
    BY <1>1, CallSees, SettledTypes DEF Starts
<1>3. q \in Request
    <2>1. c \in Nat /\ t \in Nat /\ "triage" \in Steps /\ way \in Args /\ type \in Types
        BY <1>2, RowTypes DEF OpenNamed, Named, Steps, Args, Types, CaseTypes
    <2> QED
        BY <2>1, IdleRequest, Puts, Zenon
<1>4. /\ q.at = "triage" /\ q.alert = a /\ q.task = t /\ q.home = c /\ q.type = type /\ q.arg = way
      /\ q.kin = <<>> /\ q.case = 0
    BY DEF Idle
<1>5. ~Decided(tasks[c])
    BY <1>1, <1>2, DecidedNotOpen
<1>6. ~Only(tasks[c], "Approve")
    <2> SUFFICES ASSUME Only(tasks[c], "Approve") PROVE FALSE
        OBVIOUS
    <2>1. t = Len(tasks[c]) /\ tasks[c][t].name = "Complete"
        BY <1>2, OnlyOpen DEF OpenNamed, Named
    <2> QED
        BY <2>1 DEF Only, Kept
<1>7. Draft(c)
    BY <1>1, <1>2, <1>5, <1>6 DEF Rest, Pending, Handed, Over
<1>8. t = Len(tasks[c])
    BY <1>2, <1>7, OnlyOpen DEF Draft
<1>9. FlightTriage(q)
    BY <1>1, <1>4, <1>7, <1>8 DEF FlightTriage, Triaging
<1>10. Flight(q)
    BY <1>4, <1>9, FlightKinds DEF TriageAt
<1> QED
    BY <1>1, <1>3, <1>10, CallStep

LEMMA IngestNaltSettles ==
    ASSUME Orderly, XInv, NEW r \in Requests, NEW a \in Alerts, IngestNalt(r, a)
    PROVE  XInv'
<1>1. /\ alerts[a].kind = "none" /\ alerts' = [alerts EXCEPT ![a] = Row("NALT", 0)]
      /\ UNCHANGED <<triageType, groups, cases, tasks>> /\ req' = [req EXCEPT ![r] = Idle]
      /\ req[r].at = "idle"
    BY DEF IngestNalt, Arrives, Starts
<1>2. alerts[a].case = 0 /\ a \notin groups /\ \A c \in CaseIds : ~About(a, c)
    BY <1>1, SettledTypes DEF XInv, NoGhost, About
<1>3. /\ alerts'[a].case = 0 /\ alerts'[a].kind = "NALT" /\ Row("NALT", 0) \in Alert
      /\ \A b \in Alerts : b # a => alerts'[b] = alerts[b]
    BY <1>1 DEF XInv, IntakeTypeOK, Row, Alert
<1>4. IntakeTypeOK'
    BY <1>1, <1>3, IdleRequest DEF XInv, IntakeTypeOK, TasksOK
<1>5. CaseIds' = CaseIds /\ Len(cases) \in Nat
    BY <1>1, SettledTypes DEF CaseIds
<1>6. Writes(a, {})
    BY <1>1, <1>3, <1>4, <1>5 DEF Writes
<1>7. NoGhost(a)' /\ Solo(a)'
    BY <1>1, <1>2, <1>3, <1>5, SettledTypes DEF NoGhost, Solo, About
<1>8. Concerns(a, {})
    BY <1>2, <1>3, <1>7 DEF Concerns
<1>9. Flight(Idle)'
    BY FlightNext
<1>10. Leaves(req[r], Idle, a, {})
    BY <1>1, <1>7, <1>9, IdleFlight DEF Leaves, Minds
<1> QED
    BY <1>1, <1>6, <1>8, <1>10, IdleRequest, Settles

\* There is one case more, n, with a row and a list of tasks.
Grows(n, new, list) ==
    /\ n \in Nat /\ n # 0 /\ n \notin CaseIds /\ Len(cases) = n - 1
    /\ cases' \in Seq(Case) /\ tasks' \in Seq(Seq(Task))
    /\ Len(cases') = n /\ Len(tasks') = Len(cases')
    /\ CaseIds' = CaseIds \union {n}
    /\ cases'[n] = new /\ tasks'[n] = list
    /\ \A c \in CaseIds : cases'[c] = cases[c] /\ tasks'[c] = tasks[c]

LEMMA CaseAdded ==
    ASSUME IntakeTypeOK, NEW new \in Case, NEW list \in Seq(Task), AddCase(new, list),
           NEW n, n = Len(cases) + 1
    PROVE  Grows(n, new, list)
<1>1. cases \in Seq(Case) /\ tasks \in Seq(Seq(Task)) /\ Len(tasks) = Len(cases) /\ Len(cases) \in Nat
    BY DEF IntakeTypeOK, TasksOK
<1>2. cases' = Append(cases, new) /\ tasks' = Append(tasks, list)
    BY DEF AddCase
<1>3. /\ cases' \in Seq(Case) /\ Len(cases') = n
      /\ cases'[n] = new /\ \A c \in 1..Len(cases) : cases'[c] = cases[c]
    BY <1>1, <1>2
<1>4. /\ tasks' \in Seq(Seq(Task)) /\ Len(tasks') = n
      /\ tasks'[n] = list /\ \A c \in 1..Len(cases) : tasks'[c] = tasks[c]
    BY <1>1, <1>2
<1> QED
    BY <1>1, <1>3, <1>4, SMT DEF CaseIds, Grows

LEMMA IngestCaseSettles ==
    ASSUME Orderly, XInv, NEW r \in Requests, NEW a \in Alerts, IngestCase(r, a)
    PROVE  XInv'
<1> PICK n : n = Len(cases) + 1
    OBVIOUS
<1> PICK new : new = NewCase("DRAFT", NoType, NoAlert)
    OBVIOUS
<1> PICK q : q = [Idle EXCEPT !.at = "ingest", !.alert = a, !.case = n]
    OBVIOUS
<1>1. /\ alerts[a].kind = "none" /\ AddCase(new, <<>>) /\ req' = [req EXCEPT ![r] = q]
      /\ UNCHANGED <<triageType, alerts, groups>> /\ req[r].at = "idle"
    BY DEF IngestCase, Arrives, Starts
<1>2. new \in Case /\ new.group = NoAlert
    BY DEF NewCase, Case, Origins
<1>3. <<>> \in Seq(Task) /\ IntakeTypeOK
    BY DEF XInv
<1>4. Grows(n, new, <<>>)
    BY <1>1, <1>2, <1>3, CaseAdded
<1>5. q \in Request
    BY <1>4, IdleRequest, Puts, Zenon DEF Steps, Grows
<1>6. /\ q.at = "ingest" /\ q.alert = a /\ q.case = n /\ q.type = NoType
      /\ q.kin = <<>> /\ q.home = 0
    BY DEF Idle
<1>7. IntakeTypeOK'
    BY <1>1, <1>3, <1>4, <1>5 DEF IntakeTypeOK, TasksOK, Grows
<1>8. Writes(NoAlert, {n})
    BY <1>1, <1>2, <1>4, <1>7 DEF Writes, Grows
<1>9. Concerns(NoAlert, {n})
    BY SettledTypes DEF Concerns
<1>10. ~Alive(n)'
    BY <1>1, <1>2, <1>4, SettledTypes DEF Alive, About, CaseIds, Grows
<1>11. FlightIntake(q)'
    BY <1>1, <1>4, <1>6, <1>10 DEF FlightIntake, Made, Grows
<1>12. Flight(q)'
    BY <1>6, <1>11, FlightNext DEF IntakeAt
<1>13. Leaves(req[r], q, NoAlert, {n})
    BY <1>1, <1>4, <1>6, <1>12, IdleFlight, SettledTypes DEF Leaves, Minds, Busy, Grows
<1> QED
    BY <1>1, <1>5, <1>8, <1>9, <1>13, Settles

LEMMA TriageCallsSettle ==
    ASSUME Orderly, XInv, NEW r \in Requests, TriageCalls(r)
    PROVE  XInv'
BY TriageCheckSettles, IngestNaltSettles, IngestCaseSettles DEF TriageCalls, CaseTypes
-----------------------------------------------------------------------------
(***************************************************************************)
(* Records of requests.                                                    *)
(***************************************************************************)
LEMMA AtPut ==
    ASSUME NEW q \in Request, NEW x \in Steps, NEW p, p = [q EXCEPT !.at = x]
    PROVE  /\ p \in Request /\ p.at = x
           /\ p.role = q.role /\ p.alert = q.alert /\ p.case = q.case /\ p.kin = q.kin /\ p.task = q.task
           /\ p.home = q.home /\ p.type = q.type /\ p.arg = q.arg /\ p.todo = q.todo
           /\ Busy(p) = Busy(q)
<1>1. p \in Request
    BY Puts, Zenon
<1>2. /\ p.at = x
      /\ p.role = q.role /\ p.alert = q.alert /\ p.case = q.case /\ p.kin = q.kin /\ p.task = q.task
      /\ p.home = q.home /\ p.type = q.type /\ p.arg = q.arg /\ p.todo = q.todo
    BY DEF Request
<1> QED
    BY <1>1, <1>2 DEF Busy

\* The request goes on to insert a task.
LEMMA InsertNext ==
    ASSUME XInv, NEW r \in Requests, NEW n \in TaskNames, ThenInsert(r, n)
    PROVE  \E p \in Request :
               /\ req' = [req EXCEPT ![r] = p] /\ p.at = "insert" /\ p.arg = n
               /\ p.case = req[r].case /\ p.kin = req[r].kin /\ p.home = req[r].home
<1> PICK q \in Request : q = req[r]
    BY SettledTypes
<1> PICK p : p = [q EXCEPT !.at = "insert", !.arg = n]
    OBVIOUS
<1>1. p \in Request
    <2>1. "insert" \in Steps /\ n \in Args
        BY DEF Steps, Args
    <2> QED
        BY <2>1, Puts, Zenon
<1>2. p.at = "insert" /\ p.arg = n /\ p.case = q.case /\ p.kin = q.kin /\ p.home = q.home
    BY DEF Request
<1>3. req' = [req EXCEPT ![r] = p]
    BY DEF ThenInsert, Goes
<1> QED
    BY <1>1, <1>2, <1>3

\* The cases of a request, when there is one, or one and its home.
LEMMA BusyOne ==
    ASSUME NEW q, q.kin = <<>> PROVE \A c : c \in Busy(q) <=> c = q.case \/ c = q.home
<1>1. Len(q.kin) = 0
    OBVIOUS
<1> QED
    BY <1>1 DEF Busy

LEMMA BusyOwn == ASSUME NEW q PROVE q.case \in Busy(q) /\ q.home \in Busy(q)
BY DEF Busy

LEMMA BusyTwo ==
    ASSUME NEW q, Len(q.kin) = 1
    PROVE  \A c : c \in Busy(q) <=> c = q.case \/ c = q.home \/ c = q.kin[1]
BY DEF Busy
-----------------------------------------------------------------------------
(***************************************************************************)
(* Manual creation.                                                        *)
(***************************************************************************)
LEMMA GroupUpsertSettles ==
    ASSUME Orderly, XInv, NEW r \in Requests, GroupUpsert(r)
    PROVE  XInv'
<1> PICK q : q = req[r]
    OBVIOUS
<1> PICK p : p = [q EXCEPT !.at = "primary"]
    OBVIOUS
<1> PICK a : a = q.alert
    OBVIOUS
<1>1. /\ q.at = "group" /\ groups' = groups \union {a} /\ req' = [req EXCEPT ![r] = p]
      /\ UNCHANGED <<triageType, alerts, cases, tasks>>
    BY DEF GroupUpsert, Continues, Goes
<1>2. q \in Request /\ Flight(q) /\ IntakeTypeOK
    BY SettledTypes
<1>3. /\ q.case = 0 /\ q.kin = <<>> /\ q.home = 0 /\ Fresh(a) /\ q.type = "FRAUD_AND_AML"
    BY <1>1, <1>2, FlightKinds DEF FlightCreation, CreationAt
<1>4. /\ p \in Request /\ p.at = "primary" /\ p.alert = a /\ p.type = q.type
      /\ p.case = 0 /\ p.kin = <<>> /\ p.home = 0
    BY <1>2, <1>3, AtPut DEF Steps
<1>5. CaseIds' = CaseIds /\ a \in Alerts /\ \A c \in CaseIds : ~About(a, c) /\ ~About(a, c)'
    BY <1>1, <1>3, SettledTypes DEF Fresh, About, CaseIds
<1>6. IntakeTypeOK'
    BY <1>1, <1>2, <1>4, <1>5 DEF IntakeTypeOK, TasksOK
<1>7. Writes(a, {})
    BY <1>1, <1>2, <1>5, <1>6 DEF Writes, IntakeTypeOK
<1>8. Solo(a)' /\ NoGhost(a)'
    BY <1>1, <1>3, <1>5 DEF Solo, NoGhost, Fresh, About
<1>9. Concerns(a, {})
    BY <1>1, <1>8 DEF Concerns
<1>10. FlightCreation(p)'
    BY <1>1, <1>3, <1>4, <1>5 DEF FlightCreation, Fresh, CaseTypes
<1>11. Flight(p)'
    BY <1>4, <1>10, FlightNext DEF CreationAt
<1>12. Leaves(q, p, a, {})
    BY <1>1, <1>3, <1>4, <1>8, <1>11, BusyOne, ZenonT(60) DEF Leaves, Minds, Torn, Splitting
<1> QED
    BY <1>1, <1>4, <1>7, <1>9, <1>12, Settles

LEMMA CreatePrimarySettles ==
    ASSUME Orderly, XInv, NEW r \in Requests, CreatePrimary(r)
    PROVE  XInv'
<1> PICK q : q = req[r]
    OBVIOUS
<1> PICK n : n = Len(cases) + 1
    OBVIOUS
<1> PICK split \in BOOLEAN : split = Splits(q.role, q.type)
    BY DEF Splits
<1> PICK at : at = IF split THEN "sibling" ELSE "link"
    OBVIOUS
<1> PICK new : new = NewCase(ManualStatus(q.role), IF split THEN "FRAUD" ELSE q.type, GroupOf(q))
    OBVIOUS
<1> PICK p : p = [q EXCEPT !.at = at, !.case = n]
    OBVIOUS
<1> PICK a : a = q.alert
    OBVIOUS
<1>1. /\ q.at = "primary" /\ AddCase(new, <<>>) /\ req' = [req EXCEPT ![r] = p]
      /\ UNCHANGED <<triageType, alerts, groups>>
    BY DEF CreatePrimary, Goes
<1>2. q \in Request /\ Flight(q) /\ IntakeTypeOK /\ <<>> \in Seq(Task)
    BY SettledTypes
<1>3. /\ q.case = 0 /\ q.kin = <<>> /\ q.home = 0 /\ Fresh(a) /\ q.type \in CaseTypes
      /\ q.type = "FRAUD_AND_AML" => a \in groups
    BY <1>1, <1>2, FlightKinds DEF FlightCreation, CreationAt
<1>4. new \in Case /\ new.group = GroupOf(q) /\ GroupOf(q) \in {NoAlert, a}
    BY <1>3 DEF NewCase, Case, ManualStatus, Origins, CaseTypes, GroupOf, Fresh
<1>5. Grows(n, new, <<>>)
    BY <1>1, <1>2, <1>4, CaseAdded
<1>6. p \in Request
    BY <1>2, <1>5, Puts, Zenon DEF Steps, Grows
<1>7. /\ p.at = at /\ p.alert = a /\ p.type = q.type /\ p.role = q.role
      /\ p.case = n /\ p.kin = <<>> /\ p.home = 0
    BY <1>2, <1>3 DEF Request
<1>8. IntakeTypeOK'
    BY <1>1, <1>2, <1>5, <1>6 DEF IntakeTypeOK, TasksOK, Grows
<1>9. Writes(a, {n})
    BY <1>1, <1>4, <1>5, <1>8 DEF Writes, Grows
<1>10. NoGhost(a)'
    BY <1>1, <1>3, <1>4, <1>5, SettledTypes DEF NoGhost, Fresh, Grows, GroupOf
<1>11. Concerns(a, {n})
    BY <1>1, <1>10 DEF Concerns
<1>12. Just(a, {n})' /\ \A b \in Alerts : About(b, n)' => b = a
    BY <1>1, <1>3, <1>4, <1>5, SettledTypes DEF Just, About, Fresh, Grows, CaseIds
<1>13. Made(n, ManualStatus(q.role), IF split THEN "FRAUD" ELSE q.type, GroupOf(q))' /\ tasks'[n] = <<>>
    BY <1>5 DEF Made, Grows
<1>14. FlightCreation(p)'
    <2>1. CASE split
        <3>1. q.role = "SUPERVISOR" /\ q.type = "FRAUD_AND_AML" /\ at = "sibling"
            BY <2>1 DEF Splits
        <3>2. FraudCase(p, n)'
            BY <1>7, <1>13, <2>1, <3>1 DEF FraudCase, Made, ManualStatus, GroupOf
        <3>3. Siblingless(p)'
            BY <1>1, <1>3, <1>7, <1>12, <1>13, <3>1, <3>2 DEF Siblingless, Fresh
        <3> QED
            BY <1>7, <3>1, <3>3 DEF FlightCreation
    <2>2. CASE ~split
        <3>1. GroupOf(p) = GroupOf(q) /\ at = "link"
            BY <1>7, <2>2 DEF GroupOf
        <3>2. LinksOne(p)'
            BY <1>3, <1>7, <1>12, <1>13, <2>2, <3>1 DEF LinksOne
        <3>3. Linking(p)'
            BY <1>1, <1>3, <1>5, <1>7, <1>13, <3>2 DEF Linking, Fresh, Grows
        <3> QED
            BY <1>7, <3>1, <3>3 DEF FlightCreation
    <2> QED
        BY <2>1, <2>2
<1>15. Flight(p)'
    BY <1>7, <1>14, FlightNext DEF CreationAt
<1>16. Torn(q) = NoAlert /\ Torn(p) = a
    BY <1>1, <1>7 DEF Torn, Splitting
<1>17. n \in Busy(p) /\ \A c \in CaseIds : c \notin Busy(q)
    BY <1>3, <1>7, BusyOne, SettledTypes, ZenonT(60)
<1>18. Leaves(q, p, a, {n})
    BY <1>5, <1>15, <1>16, <1>17, SettledTypes DEF Leaves, Minds, Grows
<1> QED
    BY <1>1, <1>6, <1>9, <1>11, <1>18, Settles

LEMMA CreateSiblingSettles ==
    ASSUME Orderly, XInv, NEW r \in Requests, CreateSibling(r)
    PROVE  XInv'
<1> PICK q : q = req[r]
    OBVIOUS
<1> PICK n : n = Len(cases) + 1
    OBVIOUS
<1> PICK a : a = q.alert
    OBVIOUS
<1> PICK f : f = q.case
    OBVIOUS
<1> PICK new : new = NewCase(ManualStatus(q.role), "AML", GroupOf(q))
    OBVIOUS
<1> PICK p : p = [q EXCEPT !.at = "link", !.kin = <<n>>]
    OBVIOUS
<1>1. /\ q.at = "sibling" /\ AddCase(new, <<>>) /\ req' = [req EXCEPT ![r] = p]
      /\ UNCHANGED <<triageType, alerts, groups>>
    BY DEF CreateSibling, Goes
<1>2. q \in Request /\ Flight(q) /\ IntakeTypeOK /\ <<>> \in Seq(Task)
    BY SettledTypes
<1>3. /\ q.kin = <<>> /\ q.home = 0 /\ q.role = "SUPERVISOR" /\ q.type = "FRAUD_AND_AML"
      /\ a \in groups /\ alerts[a].kind = "NALT" /\ alerts[a].case = 0
      /\ FraudCase(q, f) /\ tasks[f] = <<>> /\ Just(a, {f})
    BY <1>1, <1>2, FlightKinds DEF FlightCreation, Siblingless, CreationAt
<1>4. a \in Alerts /\ new = NewCase("READY", "AML", a) /\ new \in Case /\ new.group = a
    BY <1>2, <1>3 DEF IntakeTypeOK, NewCase, Case, ManualStatus, Origins, CaseTypes, GroupOf
<1>5. Grows(n, new, <<>>)
    BY <1>1, <1>2, <1>4, CaseAdded
<1>6. p \in Request
    <2>1. <<n>> \in Seq(Nat) /\ "link" \in Steps
        BY <1>5 DEF Steps, Grows
    <2> QED
        BY <1>2, <2>1, Puts, Zenon
<1>7. /\ p.at = "link" /\ p.alert = a /\ p.type = q.type /\ p.role = q.role
      /\ p.case = f /\ p.kin = <<n>> /\ p.home = 0
    BY <1>2, <1>3 DEF Request
<1>8. IntakeTypeOK'
    BY <1>1, <1>2, <1>5, <1>6 DEF IntakeTypeOK, TasksOK, Grows
<1>9. Writes(a, {n})
    BY <1>1, <1>4, <1>5, <1>8 DEF Writes, Grows
<1>10. Concerns(a, {n})
    BY <1>1, <1>3 DEF Concerns, NoGhost
<1>11. Just(a, {f, n})'
    BY <1>1, <1>3, <1>5 DEF Just, About, Grows
<1>12. f \in CaseIds /\ n # f /\ cases'[f] = cases[f] /\ tasks'[f] = <<>>
    BY <1>3, <1>5 DEF FraudCase, Made, Grows
<1>13. FraudCase(p, f)' /\ AmlCase(p, n)' /\ tasks'[n] = <<>>
    BY <1>3, <1>4, <1>5, <1>7, <1>12 DEF FraudCase, AmlCase, Made, Grows
<1>14. n \in CaseIds' /\ f \in CaseIds'
    BY <1>5, <1>12 DEF Grows
<1>15. FlightCreation(p)'
    <2>1. LinksTwo(p)'
        BY <1>3, <1>7, <1>11, <1>12, <1>13, <1>14 DEF LinksTwo
    <2> QED
        <3>1. Linking(p)'
            BY <1>1, <1>3, <1>4, <1>7, <1>12, <1>14, <2>1 DEF Linking
        <3> QED
            BY <1>7, <3>1 DEF FlightCreation
<1>16. Flight(p)'
    BY <1>7, <1>15, FlightNext DEF CreationAt
<1>17. Torn(q) = a /\ Torn(p) = a
    BY <1>1, <1>7 DEF Torn, Splitting
<1>18. n \in Busy(p) /\ \A c \in CaseIds : c \in Busy(q) => c \in Busy(p)
    <2>1. \A c \in CaseIds : c \in Busy(q) => c = f
        BY <1>3, BusyOne, SettledTypes
    <2>2. Len(p.kin) = 1 /\ p.kin[1] = n
        BY <1>7
    <2> QED
        BY <1>7, <2>1, <2>2, BusyTwo
<1>19. Leaves(q, p, a, {n})
    BY <1>5, <1>16, <1>17, <1>18, SettledTypes DEF Leaves, Minds, Grows
<1> QED
    BY <1>1, <1>6, <1>9, <1>10, <1>19, Settles

\* A case that only an alert that nobody need look at leads to.
LEMMA HeldBy ==
    ASSUME NEW a \in Alerts, NEW c, About(a, c)', \A b \in Alerts : About(b, c)' => b = a,
           alerts'[a].kind # "ALRT" \/ triageType' # "DISABLED"
    PROVE  Held(c)' /\ Alive(c)' /\ ~Untriaged(c)'
BY DEF Held, Alive, Untriaged

LEMMA FirstTask ==
    ASSUME NEW n \in TaskNames, NEW s, s = Append(<<>>, Kept(n))
    PROVE  s \in Seq(Task) /\ Only(s, n) /\ (n # "Complete" => Decided(s))
<1>1. <<>> \in Seq(Task) /\ Opens(<<>>) = {}
    BY NothingOpen
<1>2. s \in Seq(Task) /\ Only(s, n)
    BY <1>1, OpensAppended
<1> QED
    BY <1>2, DecidedLists

LEMMA LinkAlertSettles ==
    ASSUME Orderly, XInv, NEW r \in Requests, LinkAlert(r)
    PROVE  XInv'
<1> PICK q : q = req[r]
    OBVIOUS
<1> PICK a : a = q.alert
    OBVIOUS
<1> PICK M : M = {q.case} \union {q.kin[i] : i \in 1..Len(q.kin)}
    OBVIOUS
<1> PICK name : name = IF q.role = "SUPERVISOR" THEN "Investigate" ELSE "Approve"
    OBVIOUS
<1> PICK list : list = Append(<<>>, Kept(name))
    OBVIOUS
<1>1. /\ q.at = "link"
      /\ alerts' = IF q.type = "FRAUD_AND_AML" THEN alerts ELSE [alerts EXCEPT ![a].case = q.case]
      /\ tasks' = [c \in CaseIds |-> IF c \in M THEN Append(tasks[c], Kept(name)) ELSE tasks[c]]
      /\ req' = [req EXCEPT ![r] = Idle]
      /\ UNCHANGED <<triageType, groups, cases>>
    BY DEF LinkAlert, Done, Goes
<1>2. q \in Request /\ Flight(q) /\ IntakeTypeOK
    BY SettledTypes
<1>3. Linking(q)
    BY <1>1, <1>2, FlightKinds DEF FlightCreation, CreationAt
<1>4. /\ a \in Alerts /\ alerts[a].kind = "NALT" /\ alerts[a].case = 0
      /\ q.case \in CaseIds /\ tasks[q.case] = <<>> /\ q.home = 0
      /\ q.type = "FRAUD_AND_AML" => a \in groups
    BY <1>3 DEF Linking
<1>5. list \in Seq(Task) /\ Only(list, name) /\ Decided(list) /\ name \in TaskNames
    <2>1. name \in TaskNames /\ name # "Complete"
        BY DEF TaskNames
    <2> QED
        BY <2>1, FirstTask
<1>6. CaseIds' = CaseIds
    BY <1>1 DEF CaseIds
<1>7. \A c \in CaseIds : c \in Busy(q) <=> c \in M
    BY <1>4, SettledTypes DEF Busy
<1>8. /\ alerts'[a].kind = "NALT" /\ alerts'[a].case = IF q.type = "FRAUD_AND_AML" THEN 0 ELSE q.case
      /\ \A b \in Alerts : b # a => alerts'[b] = alerts[b]
      /\ alerts' \in [Alerts -> Alert]
    <2>1. alerts \in [Alerts -> Alert] /\ alerts[a] \in Alert /\ q.case \in Nat
        BY <1>2, <1>4, SettledTypes DEF IntakeTypeOK
    <2>2. [alerts[a] EXCEPT !.case = q.case] \in Alert
        BY <2>1 DEF Alert
    <2> QED
        BY <1>1, <1>4, <2>1, <2>2 DEF Alert
<1>9. TasksOK'
    <2> PICK len \in Nat : len = Len(cases) /\ tasks \in [1..len -> Seq(Task)]
        BY <1>2 DEF IntakeTypeOK, TasksOK
    <2>1. Kept(name) \in Task
        BY <1>5, TaskRows
    <2>2. tasks' \in [1..len -> Seq(Task)]
        BY <1>1, <2>1 DEF CaseIds
    <2>3. tasks' \in Seq(Seq(Task)) /\ Len(tasks') = len
        BY <2>2
    <2> QED
        BY <1>1, <2>3 DEF TasksOK
<1>10. IntakeTypeOK'
    <2>1. \A b \in Alerts : alerts'[b].case \in 0..Len(cases)
        <3>1. q.case \in 0..Len(cases) /\ 0 \in 0..Len(cases)
            BY <1>2, <1>4, RowTypes DEF CaseIds
        <3> QED
            BY <1>2, <1>8, <3>1 DEF IntakeTypeOK
    <2> QED
        BY <1>1, <1>2, <1>8, <1>9, <2>1, IdleRequest DEF IntakeTypeOK
\* The cases made so far have no task, and are about the alert.
<1>11. \A c \in M : /\ c \in CaseIds /\ tasks[c] = <<>> /\ cases[c].group \in {NoAlert, a}
                    /\ \A b \in Alerts : About(b, c) => b = a
    <2>1. CASE LinksTwo(q)
        <3>1. PICK k \in CaseIds : q.kin = <<k>> /\ tasks[k] = <<>> /\ FraudCase(q, q.case) /\ AmlCase(q, k)
            BY <2>1 DEF LinksTwo
        <3>2. M = {q.case, k}
            BY <3>1
        <3>3. cases[q.case].group = a /\ cases[k].group = a
            BY <3>1 DEF FraudCase, AmlCase, Made, NewCase
        <3> QED
            BY <1>4, <3>1, <3>2, <3>3 DEF XInv, OneSubject, About
    <2>2. CASE LinksOne(q)
        <3>1. M = {q.case}
            BY <2>2 DEF LinksOne
        <3> QED
            BY <1>4, <2>2, <3>1 DEF LinksOne, Made, NewCase, GroupOf
    <2> QED
        BY <1>3, <2>1, <2>2 DEF Linking
<1>12. \A c \in CaseIds : tasks'[c] = IF c \in M THEN list ELSE tasks[c]
    BY <1>1, <1>11
<1>13. Writes(a, M)
    BY <1>1, <1>6, <1>8, <1>10, <1>11, <1>12, SettledTypes, SMTT(30) DEF Writes
<1>14. NoGhost(a)'
    BY <1>1, <1>6, <1>8, <1>4 DEF NoGhost, XInv
<1>15. Concerns(a, M)
    BY <1>4, <1>8, <1>14 DEF Concerns
<1>16. ASSUME NEW c \in M, About(a, c)' PROVE Held(c)' /\ Alive(c)' /\ ~Untriaged(c)'
    <2>1. \A b \in Alerts : About(b, c)' => b = a
        BY <1>11, <1>13, <1>15, <1>6, <1>16, AboutStays
    <2> QED
        BY <1>4, <1>8, <1>16, <2>1, HeldBy
<1>17. (\A c \in M : Rest(c)') /\ (Solo(a)' \/ Pair(a)')
    <2>1. CASE LinksTwo(q)
        <3>1. PICK k \in CaseIds : /\ q.kin = <<k>> /\ k # q.case /\ FraudCase(q, q.case) /\ AmlCase(q, k)
                                   /\ Just(a, {q.case, k})
            BY <2>1 DEF LinksTwo
        <3>2. M = {q.case, k} /\ name = "Investigate" /\ alerts'[a].case = 0
            BY <1>8, <2>1, <3>1 DEF LinksTwo
        <3>3. /\ cases'[q.case] = NewCase("READY", "FRAUD", a) /\ cases'[k] = NewCase("READY", "AML", a)
              /\ q.case \in Nat /\ q.case # 0 /\ k \in Nat /\ k # 0
            BY <1>1, <1>4, <3>1, SettledTypes DEF FraudCase, AmlCase, Made
        <3>4. /\ \A c \in M : cases'[c].status = "READY" /\ cases'[c].type # "FRAUD_AND_AML"
                              /\ cases'[c].group = a
              /\ cases'[q.case].type = "FRAUD" /\ cases'[k].type = "AML"
            <4>1. /\ cases'[q.case].status = "READY" /\ cases'[q.case].type = "FRAUD"
                  /\ cases'[q.case].group = a
                BY <3>3 DEF NewCase
            <4>2. /\ cases'[k].status = "READY" /\ cases'[k].type = "AML" /\ cases'[k].group = a
                BY <3>3 DEF NewCase
            <4>3. \A c \in M : c = q.case \/ c = k
                BY <3>2
            <4> QED
                BY <4>1, <4>2, <4>3
        <3>5. \A c \in M : Handed(c)'
            BY <1>5, <1>11, <1>12, <1>16, <3>2, <3>4 DEF Handed, SplitParent, About
        <3>6. \A c \in CaseIds : About(a, c)' => c \in {q.case, k}
            BY <1>1, <3>1, <3>2, <1>4, SettledTypes DEF Just, About
        <3>7. IsPair(a, q.case, k)'
            BY <1>6, <3>1, <3>2, <3>3, <3>4, <3>6 DEF IsPair
        <3> QED
            BY <1>4, <1>6, <3>5, <3>7 DEF Rest, Pair
    <2>2. CASE LinksOne(q)
        <3> PICK c \in CaseIds : c = q.case
            BY <1>4
        <3>1. M = {c} /\ Just(a, {c}) /\ cases[c] = NewCase(ManualStatus(q.role), q.type, GroupOf(q))
              /\ ~Splits(q.role, q.type) /\ q.type \in CaseTypes
            BY <2>2 DEF LinksOne, Made
        <3>2. /\ cases'[c].status = ManualStatus(q.role) /\ cases'[c].type = q.type
              /\ cases'[c].group = GroupOf(q)
            BY <1>1, <3>1 DEF NewCase
        <3>3. About(a, c)'
            BY <1>8, <3>1, <3>2 DEF About, GroupOf, CaseTypes
        <3>4. \A d \in CaseIds : About(a, d)' => d = c
            BY <1>1, <1>4, <1>8, <3>1, SettledTypes DEF Just, About
        <3>5. Held(c)' /\ tasks'[c] = list
            BY <1>12, <1>16, <3>1, <3>3
        <3>6. Rest(c)'
            <4>1. CASE q.role = "SUPERVISOR"
                <5>1. q.type # "FRAUD_AND_AML" /\ name = "Investigate" /\ cases'[c].status = "READY"
                    BY <3>1, <3>2, <4>1 DEF Splits, ManualStatus
                <5>2. Handed(c)'
                    BY <1>5, <3>2, <3>5, <5>1 DEF Handed, SplitParent
                <5> QED
                    BY <5>2 DEF Rest
            <4>2. CASE q.role # "SUPERVISOR"
                <5>1. name = "Approve" /\ cases'[c].status = "PENDING"
                    BY <3>2, <4>2 DEF ManualStatus
                <5>2. Pending(c)'
                    BY <1>5, <3>1, <3>2, <3>5, <5>1 DEF Pending
                <5> QED
                    BY <5>2 DEF Rest
            <4> QED
                BY <4>1, <4>2
        <3>7. cases'[c].group = a => q.type = "FRAUD_AND_AML" /\ cases'[c].status = "PENDING"
            BY <1>4, <3>1, <3>2, SettledTypes DEF GroupOf, Splits, ManualStatus
        <3>8. Solo(a)'
            BY <1>6, <3>2, <3>4, <3>7 DEF Solo, About
        <3> QED
            BY <3>1, <3>6, <3>8
    <2> QED
        BY <1>3, <2>1, <2>2 DEF Linking
<1>18. Torn(q) = a /\ Flight(Idle)'
    BY <1>1, FlightNext DEF Torn, Splitting
<1>19. Minds(q, M)
    BY <1>1, <1>7 DEF Minds
<1>20. Leaves(q, Idle, a, M)
    BY <1>7, <1>17, <1>18, <1>19 DEF Leaves
<1> QED
    BY <1>1, <1>13, <1>15, <1>20, IdleRequest, Settles

LEMMA CreateDraftSettles ==
    ASSUME Orderly, XInv, NEW r \in Requests, CreateDraft(r)
    PROVE  XInv'
<1> PICK q : q = req[r]
    OBVIOUS
<1> PICK a : a = q.alert
    OBVIOUS
<1> PICK n : n = Len(cases) + 1
    OBVIOUS
<1> PICK new : new = NewCase("DRAFT", q.type, NoAlert)
    OBVIOUS
<1> PICK p : p = [q EXCEPT !.at = "insert", !.case = n, !.arg = "Complete"]
    OBVIOUS
<1>1. /\ q.at = "draft" /\ AddCase(new, <<>>) /\ alerts' = [alerts EXCEPT ![a].case = n]
      /\ req' = [req EXCEPT ![r] = p] /\ UNCHANGED <<triageType, groups>>
    BY DEF CreateDraft, Goes
<1>2. q \in Request /\ Flight(q) /\ IntakeTypeOK /\ <<>> \in Seq(Task)
    BY SettledTypes
<1>3. q.case = 0 /\ q.kin = <<>> /\ q.home = 0 /\ Fresh(a) /\ q.type \in CaseTypes
    BY <1>1, <1>2, FlightKinds DEF FlightCreation, CreationAt
<1>4. new \in Case /\ new.group = NoAlert /\ new.status = "DRAFT" /\ a \in Alerts
    BY <1>3 DEF NewCase, Case, Origins, CaseTypes, Fresh
<1>5. Grows(n, new, <<>>)
    BY <1>1, <1>2, <1>4, CaseAdded
<1>6. p \in Request
    <2>1. n \in Nat /\ "insert" \in Steps /\ "Complete" \in Args
        BY <1>5 DEF Steps, Args, TaskNames, Grows
    <2> QED
        BY <1>2, <2>1, Puts, Zenon
<1>7. p.at = "insert" /\ p.case = n /\ p.kin = <<>> /\ p.home = 0 /\ p.arg = "Complete"
    BY <1>2, <1>3 DEF Request
<1>8. /\ alerts'[a].kind = "NALT" /\ alerts'[a].case = n /\ alerts[a].case = 0 /\ alerts[a].kind = "NALT"
      /\ \A b \in Alerts : b # a => alerts'[b] = alerts[b]
      /\ alerts' \in [Alerts -> Alert]
    <2>1. alerts \in [Alerts -> Alert] /\ alerts[a] \in Alert /\ n \in Nat
        BY <1>2, <1>4, <1>5, SettledTypes DEF IntakeTypeOK, Grows
    <2>2. [alerts[a] EXCEPT !.case = n] \in Alert
        BY <2>1 DEF Alert
    <2> QED
        BY <1>1, <1>3, <1>4, <2>1, <2>2 DEF Alert, Fresh
<1>9. \A b \in Alerts : alerts[b].case \in 0..Len(cases) /\ alerts[b].case # n
    BY <1>5, SettledTypes DEF Grows
<1>10. IntakeTypeOK'
    <2>1. \A b \in Alerts : alerts'[b].case \in 0..Len(cases')
        BY <1>5, <1>8, <1>9, SMTT(30) DEF Grows
    <2> QED
        BY <1>1, <1>2, <1>5, <1>6, <1>8, <2>1 DEF IntakeTypeOK, TasksOK, Grows
<1>11. Writes(a, {n})
    BY <1>1, <1>4, <1>5, <1>8, <1>10 DEF Writes, Grows
<1>12. NoGhost(a)'
    BY <1>1, <1>3, <1>4, <1>5, <1>8, SettledTypes DEF NoGhost, Fresh, Grows
<1>13. Concerns(a, {n})
    BY <1>8, <1>12 DEF Concerns
<1>14. \A c \in CaseIds' : About(a, c)' <=> c = n
    BY <1>3, <1>4, <1>5, <1>8, SettledTypes DEF About, Fresh, Grows
<1>15. n \in CaseIds' /\ \A b \in Alerts : About(b, n)' => b = a
    BY <1>5, <1>11, <1>13, AboutStays DEF Grows
<1>16. Held(n)'
    BY <1>4, <1>8, <1>14, <1>15, HeldBy
<1>17. Solo(a)'
    BY <1>4, <1>5, <1>14, SettledTypes DEF Solo, About, Grows
<1>18. FlightDecision(p)'
    <2>1. Opens(tasks'[n]) = {} /\ cases'[n].status = "DRAFT"
        BY <1>4, <1>5, NothingOpen DEF Grows
    <2> QED
        BY <1>7, <1>15, <1>16, <2>1 DEF FlightDecision, Works
<1>19. Flight(p)'
    BY <1>7, <1>18, FlightNext DEF DecisionAt
<1>20. Torn(q) = NoAlert /\ n \in Busy(p) /\ \A c \in CaseIds : c \notin Busy(q)
    BY <1>1, <1>3, <1>7, BusyOne, SettledTypes DEF Torn, Splitting
<1>21. Leaves(q, p, a, {n})
    BY <1>5, <1>17, <1>19, <1>20 DEF Leaves, Minds, Grows
<1> QED
    BY <1>1, <1>6, <1>11, <1>13, <1>21, Settles
-----------------------------------------------------------------------------
(***************************************************************************)
(* A case, its row and its tasks.                                          *)
(***************************************************************************)
LEMMA Rewritten ==
    ASSUME IntakeTypeOK, NEW c \in CaseIds, NEW row \in Case, NEW list \in Seq(Task),
           Rewrites(c, row, list), row.group = cases[c].group
    PROVE  /\ CaseIds' = CaseIds /\ cases'[c] = row /\ tasks'[c] = list
           /\ (Held(c)' <=> Held(c)) /\ (Alive(c)' <=> Alive(c)) /\ (Untriaged(c)' <=> Untriaged(c))
           /\ \A a \in Alerts : \A d \in CaseIds : About(a, d)' <=> About(a, d)
<1>1. /\ CaseIds' = CaseIds /\ cases'[c] = row /\ \A d \in CaseIds : d # c => cases'[d] = cases[d]
    BY RowWritten DEF Rewrites
<1>2. tasks'[c] = list
    BY ListWritten DEF Rewrites
<1>3. \A d \in CaseIds : cases'[d].group = cases[d].group
    BY <1>1
<1>4. UNCHANGED <<triageType, alerts>>
    BY DEF Rewrites
<1> QED
    BY <1>1, <1>2, <1>3, <1>4, SameHeld

\* Only the tasks, and only the row.
LEMMA TasksRewritten ==
    ASSUME IntakeTypeOK, NEW c \in CaseIds, NEW list \in Seq(Task),
           tasks' = [tasks EXCEPT ![c] = list], UNCHANGED <<triageType, alerts, groups, cases>>
    PROVE  Rewrites(c, cases[c], list)
<1>1. cases' = [cases EXCEPT ![c] = cases[c]]
    BY DEF IntakeTypeOK, CaseIds
<1> QED
    BY <1>1 DEF Rewrites

LEMMA RowRewritten ==
    ASSUME IntakeTypeOK, NEW c \in CaseIds, NEW row \in Case,
           cases' = [cases EXCEPT ![c] = row], UNCHANGED <<triageType, alerts, groups, tasks>>
    PROVE  Rewrites(c, row, tasks[c])
<1>1. tasks' = [tasks EXCEPT ![c] = tasks[c]]
    BY DEF IntakeTypeOK, TasksOK, CaseIds
<1> QED
    BY <1>1 DEF Rewrites

\* A status is set.
LEMMA StatusSet ==
    ASSUME IntakeTypeOK, NEW c \in CaseIds, NEW s \in Origins,
           NEW row, row = [cases[c] EXCEPT !.status = s]
    PROVE  /\ row \in Case /\ row.status = s /\ row.group = cases[c].group /\ row.type = cases[c].type
           /\ \A r \in Requests : SetStatus(r, c, s) => cases' = [cases EXCEPT ![c] = row]
<1>1. cases[c] \in Case
    BY ListOf
<1>2. row \in Case /\ row.status = s /\ row.group = cases[c].group /\ row.type = cases[c].type
    BY <1>1 DEF Case
<1>3. ASSUME NEW r \in Requests, SetStatus(r, c, s) PROVE cases' = [cases EXCEPT ![c] = row]
    BY <1>3, Zenon DEF SetStatus
<1> QED
    BY <1>2, <1>3

\* getAlertByCaseId finds the alert that a case is about.
LEMMA AlertsOfAbout ==
    ASSUME XInv, NEW c \in CaseIds
    PROVE  \A a \in Alerts : a \in AlertsOf(c) <=> About(a, c)
<1>1. cases[c].group \in Alerts \union {NoAlert}
    BY SettledTypes DEF Case
<1>2. \A a, b \in Alerts : About(a, c) /\ About(b, c) => a = b
    BY DEF XInv, OneSubject
<1> QED
    BY <1>1, <1>2, IntakeAssumption DEF AlertsOf, About

LEMMA LinkedCase ==
    ASSUME XInv, NEW a \in Alerts
    PROVE  alerts[a].case = 0 \/ (alerts[a].case \in CaseIds /\ About(a, alerts[a].case))
<1>1. alerts[a].case \in 0..Len(cases) /\ Len(cases) \in Nat
    BY SettledTypes
<1> QED
    BY <1>1 DEF CaseIds, About

LEMMA GhostsAreNone ==
    ASSUME XInv, NEW a \in Alerts, NEW c \in CaseIds, About(a, c) PROVE alerts[a].kind # "none"
BY SettledTypes DEF XInv, NoGhost, About
-----------------------------------------------------------------------------
(***************************************************************************)
(* A FRAUD_AND_AML case is split.                                          *)
(***************************************************************************)
LEMMA CasesPut ==
    ASSUME NEW n \in Nat, NEW s \in [1..n -> Case], NEW c \in 1..n, NEW x \in Case
    PROVE  [s EXCEPT ![c] = x] \in Seq(Case) /\ Len([s EXCEPT ![c] = x]) = n
<1>1. [s EXCEPT ![c] = x] \in [1..n -> Case]
    OBVIOUS
<1> QED
    BY <1>1

LEMMA CaseSplit ==
    ASSUME Orderly, XInv, NEW r \in Requests, NEW q \in Request, req' = [req EXCEPT ![r] = q],
           triageType' = triageType,
           NEW c \in CaseIds, NEW a \in Alerts, About(a, c), Held(c), cases[c].status # "READY",
           NEW all \in Seq(Seq(Task)), Len(all) = Len(cases),
           \A d \in CaseIds : d # c => all[d] = tasks[d],
           NEW kin \in Seq(Task), Only(kin, "Investigate"),
           Split(r, c, a, all, kin),
           Torn(req[r]) = NoAlert, c \in Busy(req[r]), \A d \in CaseIds : d \in Busy(req[r]) => d = c,
           \/ q = Idle /\ Only(all[c], "Investigate")
           \/ /\ q.at = "insert" /\ q.arg = "Investigate" /\ Opens(all[c]) = {}
              /\ q.case = c /\ q.kin = <<>> /\ q.home \in {0, c}
    PROVE  XInv'
<1> PICK n : n = Len(cases) + 1
    OBVIOUS
<1>0. PICK M : \A d : d \in M <=> d = c \/ d = n
    <2>1. \A d : d \in {c, n} <=> d = c \/ d = n
        OBVIOUS
    <2> QED
        BY <2>1
<1> PICK mine : mine = NewCase("READY", "FRAUD", a)
    OBVIOUS
<1> PICK new : new = NewCase("READY", "AML", a)
    OBVIOUS
<1>1. /\ cases' = Append([cases EXCEPT ![c] = mine], new) /\ tasks' = Append(all, kin)
      /\ groups' = groups \union {a} /\ alerts' = [alerts EXCEPT ![a].case = 0]
    BY Zenon DEF Split
<1>2. /\ mine \in Case /\ mine.status = "READY" /\ mine.type = "FRAUD" /\ mine.group = a
      /\ new \in Case /\ new.status = "READY" /\ new.type = "AML" /\ new.group = a
    BY DEF NewCase, Case, Origins, CaseTypes
<1>3. IntakeTypeOK /\ a # NoAlert /\ c \in Nat /\ c # 0 /\ Len(cases) \in Nat
    BY SettledTypes
<1>4. /\ cases' \in Seq(Case) /\ Len(cases') = n /\ cases'[n] = new /\ cases'[c] = mine
      /\ \A d \in CaseIds : d # c => cases'[d] = cases[d]
      /\ n \in Nat /\ n # 0 /\ n # c /\ n \notin CaseIds /\ CaseIds' = CaseIds \union {n}
    <2> PICK mid : mid = [cases EXCEPT ![c] = mine]
        OBVIOUS
    <2> PICK len \in Nat : len = Len(cases) /\ cases \in [1..len -> Case] /\ c \in 1..len
        BY <1>3 DEF IntakeTypeOK, CaseIds
    <2>1. [cases EXCEPT ![c] = mine] \in Seq(Case) /\ Len([cases EXCEPT ![c] = mine]) = len
        BY <1>2, CasesPut, ZenonT(60)
    <2>2. mid \in Seq(Case) /\ Len(mid) = len
        BY <2>1, Zenon
    <2>3. cases' = Append(mid, new)
        BY <1>1
    <2>4. cases' \in Seq(Case) /\ Len(cases') = len + 1 /\ cases'[len + 1] = new
          /\ \A d \in 1..len : cases'[d] = mid[d]
        BY <1>2, <2>2, <2>3
    <2> QED
        BY <2>4 DEF CaseIds
<1>5. /\ tasks' \in Seq(Seq(Task)) /\ Len(tasks') = n /\ tasks'[n] = kin
      /\ \A d \in CaseIds : tasks'[d] = all[d]
    BY <1>1, <1>3, SMTT(30) DEF CaseIds
<1>6. /\ alerts'[a].case = 0 /\ alerts'[a].kind = alerts[a].kind
      /\ \A b \in Alerts : b # a => alerts'[b] = alerts[b]
      /\ alerts' \in [Alerts -> Alert]
    <2>1. alerts \in [Alerts -> Alert] /\ alerts[a] \in Alert
        BY <1>3, SettledTypes DEF IntakeTypeOK
    <2>2. [alerts[a] EXCEPT !.case = 0] \in Alert
        BY <2>1 DEF Alert
    <2> QED
        BY <1>1, <2>1, <2>2 DEF Alert
<1>7. IntakeTypeOK'
    <2>1. \A b \in Alerts : alerts'[b].case \in 0..n
        <3>1. \A b \in Alerts : alerts[b].case \in 0..Len(cases)
            BY <1>3 DEF IntakeTypeOK
        <3>2. ASSUME NEW b \in Alerts PROVE alerts'[b].case \in 0..Len(cases)
            BY <1>3, <1>6, <3>1
        <3> QED
            BY <1>3, <3>2
    <2> QED
        BY <1>1, <1>3, <1>4, <1>5, <1>6, <2>1 DEF IntakeTypeOK, TasksOK
\* The alert leads to this case alone.
<1>8. /\ \A d \in CaseIds : About(a, d) => d = c
      /\ \A b \in Alerts : About(b, c) => b = a
    BY <1>3, SoloOf DEF XInv, OneSubject
<1>9. Writes(a, M)
    <2>1. \A b \in Alerts : b # a => alerts'[b] = alerts[b] /\ (b \in groups' <=> b \in groups)
        BY <1>1, <1>6
    <2>2. \A d \in CaseIds' : d \in M => cases'[d].group \in {NoAlert, a}
        BY <1>0, <1>2, <1>4
    <2>3. \A d \in CaseIds : d \in M => \A b \in Alerts : About(b, d) => b = a
        BY <1>0, <1>4, <1>8
    <2>4. \A d \in CaseIds : d \notin M => cases'[d] = cases[d] /\ tasks'[d] = tasks[d]
        BY <1>0, <1>4, <1>5
    <2>5. \A d \in CaseIds' : d \notin CaseIds => d \in M
        BY <1>0, <1>4
    <2>6. Len(cases) <= Len(cases')
        BY <1>3, <1>4
    <2> QED
        BY <1>7, <2>1, <2>2, <2>3, <2>4, <2>5, <2>6 DEF Writes
<1>10. Concerns(a, M)
    <2>1. alerts[a].case \in {0, c}
        BY <1>8, LinkedCase
    <2>2. NoGhost(a)'
        BY <1>1, <1>6, GhostsAreNone DEF NoGhost
    <2> QED
        BY <1>0, <1>6, <2>1, <2>2 DEF Concerns
<1>11. \A d \in M : d \in CaseIds' /\ About(a, d)' /\ \A b \in Alerts : About(b, d)' => b = a
    <2>1. \A d \in M : d \in CaseIds' /\ About(a, d)'
        BY <1>0, <1>2, <1>4 DEF About
    <2> QED
        BY <1>9, <1>10, <2>1, AboutStays
<1>12. alerts'[a].kind # "ALRT" \/ triageType' # "DISABLED"
    BY <1>6 DEF Held, Untriaged
<1>13. \A d \in M : Held(d)'
    BY <1>11, <1>12, HeldBy
<1>14. Handed(n)'
    <2>1. Decided(kin)
        BY DecidedLists
    <2> QED
        BY <1>0, <1>2, <1>4, <1>5, <1>13, <2>1 DEF Handed, SplitParent
<1>15. q = Idle => Handed(c)'
    <2>1. Only(all[c], "Investigate") => Decided(all[c])
        <3>1. all[c] \in Seq(Task)
            BY <1>3 DEF CaseIds
        <3> QED
            BY <3>1, DecidedLists
    <2> QED
        BY <1>0, <1>2, <1>4, <1>5, <1>13, <2>1, IdleRequest DEF Handed, SplitParent
<1>16. Pair(a)'
    <2>1. \A d \in CaseIds' : About(a, d)' => d = c \/ d = n
        <3>1. ASSUME NEW d \in CaseIds, d # c PROVE ~About(a, d)'
            BY <1>3, <1>4, <1>6, <1>8, <3>1, SettledTypes DEF About
        <3> QED
            BY <1>4, <3>1
    <2>2. IsPair(a, c, n)'
        BY <1>2, <1>3, <1>4, <1>6, <2>1 DEF IsPair
    <2> QED
        BY <1>4, <2>2 DEF Pair
<1>17. Flight(q)' /\ Torn(q) = NoAlert /\ (q = Idle \/ c \in Busy(q))
    <2>1. CASE q = Idle
        BY <2>1, FlightNext, IdleRequest DEF Torn, Splitting
    <2>2. CASE q # Idle
        <3>1. FlightDecision(q)'
            <4>1. Works(q, c)'
                BY <1>0, <1>11, <2>2 DEF Works
            <4>2. Held(c)' /\ Opens(tasks'[c]) = {} /\ cases'[c].status = "READY" /\ cases'[c].type = "FRAUD"
                BY <1>0, <1>2, <1>4, <1>5, <1>13, <2>2
            <4> QED
                BY <2>2, <4>1, <4>2 DEF FlightDecision, OneKind
        <3>2. Flight(q)'
            BY <2>2, <3>1, FlightNext DEF DecisionAt
        <3> QED
            BY <2>2, <3>2, BusyOne DEF Torn, Splitting
    <2> QED
        BY <2>1, <2>2
<1>18. Leaves(req[r], q, a, M)
    <2>1. \A d \in CaseIds' : d \in M => d \in Busy(q) \/ Rest(d)'
        BY <1>0, <1>14, <1>15, <1>17 DEF Rest
    <2>2. \A d \in CaseIds : d \in Busy(req[r]) <=> d \in M
        BY <1>0, <1>4
    <2>3. req[r].at \notin {"undo", "dropGroup"}
        BY SettledTypes DEF Torn, Splitting, Flight, FlightSplit, Parent
    <2>4. Minds(req[r], M)
        BY <2>2, <2>3 DEF Minds
    <2> QED
        BY <1>3, <1>16, <1>17, <2>1, <2>2, <2>4 DEF Leaves
<1> QED
    BY <1>9, <1>10, <1>18, Settles
-----------------------------------------------------------------------------
(***************************************************************************)
(* Decisions on a case: steps that write its tasks or its row.             *)
(***************************************************************************)
LEMMA TaskFacts ==
    ASSUME XInv, NEW c \in CaseIds, NEW list \in Seq(Task),
           tasks' = [tasks EXCEPT ![c] = list], UNCHANGED <<triageType, alerts, groups, cases>>
    PROVE  /\ CaseIds' = CaseIds /\ cases'[c] = cases[c] /\ tasks'[c] = list
           /\ (Held(c)' <=> Held(c)) /\ (Alive(c)' <=> Alive(c)) /\ (Untriaged(c)' <=> Untriaged(c))
           /\ \A a \in Alerts : \A d \in CaseIds : About(a, d)' <=> About(a, d)
BY SettledTypes, TasksRewritten, Rewritten

LEMMA TaskStep ==
    ASSUME Orderly, XInv, NEW r \in Requests, NEW q \in Request, req' = [req EXCEPT ![r] = q],
           NEW c \in CaseIds, NEW list \in Seq(Task),
           tasks' = [tasks EXCEPT ![c] = list], UNCHANGED <<triageType, alerts, groups, cases>>,
           \A d \in CaseIds : d \in Busy(req[r]) => d = c \/ d \in Busy(q), c \in Busy(req[r]),
           Torn(req[r]) = NoAlert, Torn(q) = NoAlert,
           c \in Busy(q) \/ Rest(c)', Flight(q)'
    PROVE  XInv'
BY SettledTypes, TasksRewritten, RewriteStep

\* A request that works on one case.
LEMMA WorksAlone ==
    ASSUME NEW q, NEW c, Works(q, c)
    PROVE  c \in CaseIds /\ q.case = c /\ q.kin = <<>> /\ c \in Busy(q)
           /\ (XInv => \A d \in CaseIds : d \in Busy(q) => d = c)
BY BusyOne, SettledTypes DEF Works

LEMMA NotTorn == ASSUME NEW q, q.at \notin Splitting PROVE Torn(q) = NoAlert
BY DEF Torn

LEMMA InsertSettles ==
    ASSUME Orderly, XInv, NEW r \in Requests, Insert(r)
    PROVE  XInv'
<1> PICK q : q = req[r]
    OBVIOUS
<1> PICK c : c = q.case
    OBVIOUS
<1>1. /\ q.at = "insert" /\ AddTask(c, Kept(q.arg)) /\ req' = [req EXCEPT ![r] = Idle]
      /\ UNCHANGED <<triageType, alerts, groups, cases>>
    BY DEF Insert, Done, Goes
<1>2. q \in Request /\ Flight(q) /\ IntakeTypeOK
    BY SettledTypes
<1>3. /\ Works(q, c) /\ Held(c) /\ Opens(tasks[c]) = {}
      /\ \/ q.arg = "Complete" /\ cases[c].status = "DRAFT"
         \/ q.arg = "Approve" /\ cases[c].status = "PENDING" /\ cases[c].type \in CaseTypes
         \/ q.arg = "Investigate" /\ cases[c].status = "READY" /\ cases[c].type \in OneKind
    BY <1>1, <1>2, FlightKinds DEF FlightDecision, DecisionAt
<1>4. c \in CaseIds /\ c \in Busy(q) /\ \A d \in CaseIds : d \in Busy(q) => d = c
    BY <1>3, WorksAlone
<1>5. q.arg \in TaskNames /\ tasks[c] \in Seq(Task)
    BY <1>2, <1>3, <1>4, ListOf DEF TaskNames
<1> PICK list : list = Append(tasks[c], Kept(q.arg))
    OBVIOUS
<1>6. list \in Seq(Task) /\ Only(list, q.arg) /\ (q.arg # "Complete" => Decided(list))
    BY <1>3, <1>5, OpensAppended, DecidedLists
<1>7. tasks' = [tasks EXCEPT ![c] = list]
    BY <1>1 DEF AddTask
<1>8. cases'[c] = cases[c] /\ tasks'[c] = list /\ Held(c)'
    BY <1>1, <1>3, <1>4, <1>6, <1>7, TaskFacts
<1>9. Rest(c)'
    BY <1>3, <1>6, <1>8 DEF Rest, Draft, Pending, Handed, SplitParent, OneKind
<1>10. Torn(q) = NoAlert /\ Torn(Idle) = NoAlert /\ Flight(Idle)'
    BY <1>1, NotTorn, IdleRequest, FlightNext DEF Splitting
<1> QED
    BY <1>1, <1>4, <1>6, <1>7, <1>9, <1>10, IdleRequest, TaskStep

LEMMA CompleteLockSettles ==
    ASSUME Orderly, XInv, NEW r \in Requests, CompleteLock(r)
    PROVE  XInv'
<1> PICK q : q = req[r]
    OBVIOUS
<1> PICK c : c = q.case
    OBVIOUS
<1> PICK t : t = Newest(c, "Complete")
    OBVIOUS
<1>1. q.at = "completeLock" /\ UNCHANGED rows
    BY DEF CompleteLock
<1>2. q \in Request /\ Flight(q) /\ IntakeTypeOK
    BY SettledTypes
<1>3. Works(q, c) /\ Draft(c) /\ q.type \in CaseTypes /\ q.arg = "none"
    BY <1>1, <1>2, FlightKinds DEF FlightDecision, DecisionAt
<1>4. c \in CaseIds /\ Only(tasks[c], "Complete") /\ Alive(c)
    BY <1>3 DEF Works, Draft, Held
<1>5. NewestIsOpen(c, "Complete") /\ t = Len(tasks[c])
    BY <1>2, <1>4, OnlyOpen
<1>6. AlertsOf(c) # {} /\ \A b \in AlertsOf(c) : b \in Alerts /\ About(b, c)
    <2>1. AlertsOf(c) \subseteq Alerts
        BY <1>4, SettledTypes DEF AlertsOf, Case
    <2> QED
        BY <1>4, <2>1, AlertsOfAbout DEF Alive
<1>7. PICK a \in Alerts \union {NoAlert} :
          /\ a = NoAlert \/ About(a, c)
          /\ req' = [req EXCEPT ![r] = [q EXCEPT !.at = "completeTask", !.task = t, !.alert = a]]
          /\ UNCHANGED triageType
    <2> PICK groupsFor : groupsFor = IF Splits(q.role, q.type) THEN AlertsOf(c) ELSE {NoAlert}
        OBVIOUS
    <2>1. groupsFor # {} /\ \A b \in groupsFor : b \in Alerts \union {NoAlert} /\ (b = NoAlert \/ About(b, c))
        BY <1>6
    <2>2. \E b \in groupsFor : Goes(r, [q EXCEPT !.at = "completeTask", !.task = t, !.alert = b])
        BY <1>5, <2>1 DEF CompleteLock
    <2> QED
        BY <2>1, <2>2 DEF Goes
<1> PICK p : p = [q EXCEPT !.at = "completeTask", !.task = t, !.alert = a]
    OBVIOUS
<1>8. p \in Request
    <2>1. t \in Nat /\ "completeTask" \in Steps
        BY <1>2, <1>4, <1>5, ListOf DEF Steps
    <2>2. [q EXCEPT !.at = "completeTask", !.task = t] \in Request
        BY <1>2, <2>1, Puts, Zenon
    <2>3. \A g \in Request : [g EXCEPT !.alert = a] \in Request
        BY <1>7 DEF Request
    <2> QED
        BY <2>2, <2>3, Zenon
<1>9. /\ p.at = "completeTask" /\ p.task = t /\ p.case = c /\ p.type = q.type /\ p.alert = a
      /\ p.arg = q.arg /\ p.kin = q.kin /\ p.home = q.home
    BY <1>2 DEF Request
<1>10. Works(p, c) /\ Chosen(p)
    BY <1>3, <1>7, <1>9 DEF Works, Chosen
<1>11. FlightDecision(p)
    BY <1>3, <1>5, <1>9, <1>10 DEF FlightDecision
<1>12. Flight(p)
    BY <1>9, <1>11, FlightKinds DEF DecisionAt
<1>13. Torn(q) = NoAlert
    BY <1>1, NotTorn DEF Splitting
<1>14. \A d \in CaseIds : d \in Busy(q) => d \in Busy(p)
    BY <1>3, <1>10, WorksAlone
<1> QED
    BY <1>1, <1>7, <1>8, <1>12, <1>13, <1>14, PaperStep

\* completeCaseCreation and abandonCase close the creator's task, and
\* rejectCaseCreation the approver's.
LEMMA TaskClosed ==
    ASSUME Orderly, XInv, NEW r \in Requests, NEW c \in CaseIds, NEW n, Only(tasks[c], n),
           NEW t, t = Len(tasks[c]), FinishTask(r, c, t), UNCHANGED <<triageType, alerts, groups, cases>>
    PROVE  \E list \in Seq(Task) :
               /\ Opens(list) = {} /\ Decided(list) /\ tasks' = [tasks EXCEPT ![c] = list]
               /\ CaseIds' = CaseIds /\ cases'[c] = cases[c] /\ tasks'[c] = list
               /\ (Held(c)' <=> Held(c))
<1> PICK list : list = [tasks[c] EXCEPT ![t].open = FALSE]
    OBVIOUS
<1>1. tasks[c] \in Seq(Task)
    BY SettledTypes
<1>2. list \in Seq(Task) /\ Opens(list) = {}
    BY <1>1, OnlyClosed
<1>3. Decided(list)
    BY <1>2, DecidedLists
<1>4. tasks' = [tasks EXCEPT ![c] = list]
    BY Zenon DEF FinishTask
<1>5. /\ CaseIds' = CaseIds /\ cases'[c] = cases[c] /\ tasks'[c] = list /\ (Held(c)' <=> Held(c))
    BY <1>2, <1>4, TaskFacts
<1> QED
    BY <1>2, <1>3, <1>4, <1>5

LEMMA CompleteTaskSettles ==
    ASSUME Orderly, XInv, NEW r \in Requests, CompleteTask(r)
    PROVE  XInv'
<1> PICK q : q = req[r]
    OBVIOUS
<1> PICK c : c = q.case
    OBVIOUS
<1> PICK p : p = [q EXCEPT !.at = "completeCommit"]
    OBVIOUS
<1>1. /\ q.at = "completeTask" /\ FinishTask(r, c, q.task) /\ UNCHANGED <<triageType, alerts, groups, cases>>
      /\ q.arg # "expired" => req' = [req EXCEPT ![r] = p]
    BY DEF CompleteTask, Done, Continues, Goes
<1>2. q \in Request /\ Flight(q) /\ IntakeTypeOK
    BY SettledTypes
<1>3. /\ Works(q, c) /\ Draft(c) /\ q.type \in CaseTypes /\ q.arg = "none" /\ q.task = Len(tasks[c])
      /\ Chosen(q)
    BY <1>1, <1>2, FlightKinds DEF FlightDecision, DecisionAt
<1>4. /\ p \in Request /\ p.at = "completeCommit" /\ p.case = c /\ p.type = q.type
      /\ p.kin = q.kin /\ p.home = q.home /\ p.alert = q.alert
    BY <1>2, AtPut DEF Steps
<1>5. PICK list \in Seq(Task) :
          /\ Opens(list) = {} /\ tasks' = [tasks EXCEPT ![c] = list]
          /\ CaseIds' = CaseIds /\ cases'[c] = cases[c] /\ tasks'[c] = list /\ (Held(c)' <=> Held(c))
    BY <1>1, <1>3, TaskClosed DEF Works, Draft
<1>6. Works(p, c) /\ Works(p, c)'
    BY <1>3, <1>4, <1>5 DEF Works
<1>7. FlightDecision(p)'
    <2>1. Chosen(p)'
        BY <1>1, <1>3, <1>4, <1>5 DEF Chosen, About
    <2> QED
        BY <1>3, <1>4, <1>5, <1>6, <2>1 DEF FlightDecision, Draft, Drafting
<1>8. Flight(p)'
    BY <1>4, <1>7, FlightNext DEF DecisionAt
<1>9. Torn(q) = NoAlert /\ Torn(p) = NoAlert
    BY <1>1, <1>4, NotTorn DEF Splitting
<1>10. c \in CaseIds /\ c \in Busy(p) /\ c \in Busy(q) /\ \A d \in CaseIds : d \in Busy(q) => d = c
    BY <1>3, <1>6, WorksAlone
<1> QED
    BY <1>1, <1>3, <1>4, <1>5, <1>8, <1>9, <1>10, TaskStep

LEMMA AbandonTaskSettles ==
    ASSUME Orderly, XInv, NEW r \in Requests, AbandonTask(r)
    PROVE  XInv'
<1> PICK q : q = req[r]
    OBVIOUS
<1> PICK c : c = q.case
    OBVIOUS
<1>1. /\ q.at = "abandonTask" /\ FinishTask(r, c, q.task) /\ UNCHANGED <<triageType, alerts, groups, cases>>
      /\ req' = [req EXCEPT ![r] = Idle]
    BY DEF AbandonTask, Done, Goes
<1>2. /\ Works(q, c) /\ cases[c].status = "ABANDONED" /\ Only(tasks[c], "Complete")
      /\ q.task = Len(tasks[c])
    BY <1>1, SettledTypes, FlightKinds DEF FlightDecision, DecisionAt, Drafting
<1>3. c \in CaseIds /\ c \in Busy(q) /\ \A d \in CaseIds : d \in Busy(q) => d = c
    BY <1>2, WorksAlone
<1>4. PICK list \in Seq(Task) :
          /\ Decided(list) /\ tasks' = [tasks EXCEPT ![c] = list]
          /\ cases'[c] = cases[c] /\ tasks'[c] = list
    BY <1>1, <1>2, <1>3, TaskClosed
<1>5. Rest(c)'
    BY <1>2, <1>4 DEF Rest, Over
<1>6. Torn(q) = NoAlert /\ Torn(Idle) = NoAlert /\ Flight(Idle)'
    BY <1>1, NotTorn, IdleRequest, FlightNext DEF Splitting
<1> QED
    BY <1>1, <1>3, <1>4, <1>5, <1>6, IdleRequest, TaskStep

LEMMA RejectTaskSettles ==
    ASSUME Orderly, XInv, NEW r \in Requests, RejectTask(r)
    PROVE  XInv'
<1> PICK q : q = req[r]
    OBVIOUS
<1> PICK c : c = q.case
    OBVIOUS
<1>1. /\ q.at = "rejectTask" /\ FinishTask(r, c, q.task) /\ UNCHANGED <<triageType, alerts, groups, cases>>
      /\ ThenInsert(r, "Complete")
    BY DEF RejectTask, ThenInsert, Goes
<1>2. q \in Request /\ Flight(q)
    BY SettledTypes
<1>3. /\ Works(q, c) /\ Drafting(c, "DRAFT") /\ Only(tasks[c], "Approve") /\ q.task = Len(tasks[c])
    BY <1>1, <1>2, FlightKinds DEF FlightDecision, DecisionAt
<1>4. PICK p \in Request :
          /\ req' = [req EXCEPT ![r] = p] /\ p.at = "insert" /\ p.arg = "Complete" /\ p.case = c
          /\ p.kin = q.kin /\ p.home = q.home
    BY <1>1, InsertNext DEF TaskNames
<1>5. PICK list \in Seq(Task) :
          /\ Opens(list) = {} /\ tasks' = [tasks EXCEPT ![c] = list]
          /\ CaseIds' = CaseIds /\ cases'[c] = cases[c] /\ tasks'[c] = list /\ (Held(c)' <=> Held(c))
    BY <1>1, <1>3, TaskClosed DEF Works
<1>6. Works(p, c) /\ Works(p, c)'
    BY <1>3, <1>4, <1>5 DEF Works
<1>7. FlightDecision(p)'
    BY <1>3, <1>4, <1>5, <1>6 DEF FlightDecision, Drafting
<1>8. Flight(p)'
    BY <1>4, <1>7, FlightNext DEF DecisionAt
<1>9. Torn(q) = NoAlert /\ Torn(p) = NoAlert
    BY <1>1, <1>4, NotTorn DEF Splitting
<1>10. c \in CaseIds /\ c \in Busy(p) /\ c \in Busy(q) /\ \A d \in CaseIds : d \in Busy(q) => d = c
    BY <1>3, <1>6, WorksAlone
<1> QED
    BY <1>1, <1>4, <1>5, <1>8, <1>9, <1>10, TaskStep

LEMMA RowFacts ==
    ASSUME XInv, NEW c \in CaseIds, NEW row \in Case, row.group = cases[c].group,
           cases' = [cases EXCEPT ![c] = row], UNCHANGED <<triageType, alerts, groups, tasks>>
    PROVE  /\ CaseIds' = CaseIds /\ cases'[c] = row /\ tasks'[c] = tasks[c]
           /\ (Held(c)' <=> Held(c)) /\ (Alive(c)' <=> Alive(c)) /\ (Untriaged(c)' <=> Untriaged(c))
           /\ \A a \in Alerts : \A d \in CaseIds : About(a, d)' <=> About(a, d)
BY SettledTypes, RowRewritten, Rewritten

LEMMA RowStepSettles ==
    ASSUME Orderly, XInv, NEW r \in Requests, NEW q \in Request, req' = [req EXCEPT ![r] = q],
           NEW c \in CaseIds, NEW row \in Case, row.group = cases[c].group,
           cases' = [cases EXCEPT ![c] = row], UNCHANGED <<triageType, alerts, groups, tasks>>,
           cases[c].status # "READY",
           \/ row.group = NoAlert
           \/ /\ row.status = "READY" => row.type # "FRAUD_AND_AML"
              /\ row.type = cases[c].type \/ alerts[row.group].case = c,
           \A d \in CaseIds : d \in Busy(req[r]) => d = c \/ d \in Busy(q), c \in Busy(req[r]),
           Torn(req[r]) = NoAlert, Torn(q) = NoAlert,
           c \in Busy(q) \/ Rest(c)', Flight(q)'
    PROVE  XInv'
BY SettledTypes, RowRewritten, RewriteStep

\* abandonCase and rejectCaseCreation write the status first.
LEMMA FirstStatusSettles ==
    ASSUME Orderly, XInv, NEW r \in Requests, AbandonCase(r) \/ RejectCase(r)
    PROVE  XInv'
<1> PICK q : q = req[r]
    OBVIOUS
<1> PICK c : c = q.case
    OBVIOUS
<1>1. PICK x \in {"abandon", "reject"} : /\ q.at = x
                                         /\ x = "abandon" => AbandonCase(r)
                                         /\ x = "reject" => RejectCase(r)
    BY DEF AbandonCase, RejectCase
<1>a. PICK s \in Origins : s = IF x = "abandon" THEN "ABANDONED" ELSE "DRAFT"
    BY DEF Origins
<1>b. PICK next \in Steps : next = IF x = "abandon" THEN "abandonTask" ELSE "rejectTask"
    BY DEF Steps
<1>c. PICK p : p = [q EXCEPT !.at = next]
    OBVIOUS
<1>d. PICK row : row = [cases[c] EXCEPT !.status = s]
    OBVIOUS
<1>2. q.at = x /\ SetStatus(r, c, s) /\ req' = [req EXCEPT ![r] = p] /\ UNCHANGED <<triageType, alerts, groups, tasks>>
    <2>1. CASE x = "abandon"
        <3>1. AbandonCase(r) /\ s = "ABANDONED" /\ next = "abandonTask"
            BY <1>1, <1>a, <1>b, <2>1
        <3> QED
            BY <1>1, <1>c, <3>1 DEF AbandonCase, Continues, Goes
    <2>2. CASE x = "reject"
        <3>1. RejectCase(r) /\ s = "DRAFT" /\ next = "rejectTask"
            BY <1>1, <1>a, <1>b, <2>2
        <3> QED
            BY <1>1, <1>c, <3>1 DEF RejectCase, Continues, Goes
    <2> QED
        BY <2>1, <2>2
<1>3. q \in Request /\ Flight(q) /\ IntakeTypeOK
    BY SettledTypes
<1>4. /\ Works(q, c) /\ q.task = Len(tasks[c])
      /\ x = "abandon" => Draft(c)
      /\ x = "reject" => Pending(c)
    BY <1>2, <1>3, FlightKinds DEF FlightDecision, DecisionAt
<1>5. /\ p \in Request /\ p.at = next /\ p.case = c /\ p.kin = q.kin /\ p.home = q.home /\ p.task = q.task
    BY <1>3, <1>c, AtPut
<1>6. c \in CaseIds /\ Works(p, c)
    BY <1>4, <1>5 DEF Works
<1>7. /\ row \in Case /\ row.status = s /\ row.group = cases[c].group /\ row.type = cases[c].type
      /\ cases' = [cases EXCEPT ![c] = row]
    BY <1>2, <1>3, <1>6, <1>d, StatusSet
<1>8. CaseIds' = CaseIds /\ cases'[c] = row /\ tasks'[c] = tasks[c] /\ (Held(c)' <=> Held(c))
    BY <1>2, <1>6, <1>7, RowFacts
<1>9. Works(p, c)'
    BY <1>6, <1>8 DEF Works
<1>10. FlightDecision(p)'
    <2>1. CASE x = "abandon"
        <3>1. p.at = "abandonTask" /\ cases'[c].status = "ABANDONED"
            BY <1>5, <1>7, <1>8, <1>a, <1>b, <2>1
        <3> QED
            BY <1>4, <1>5, <1>8, <1>9, <2>1, <3>1 DEF FlightDecision, Draft, Drafting
    <2>2. CASE x = "reject"
        <3>1. p.at = "rejectTask" /\ cases'[c].status = "DRAFT"
            BY <1>1, <1>5, <1>7, <1>8, <1>a, <1>b, <2>2
        <3> QED
            BY <1>4, <1>5, <1>8, <1>9, <2>2, <3>1 DEF FlightDecision, Pending, Drafting
    <2> QED
        BY <2>1, <2>2
<1>11. Flight(p)'
    BY <1>5, <1>10, <1>b, FlightNext DEF DecisionAt
<1>12. Torn(q) = NoAlert /\ Torn(p) = NoAlert
    BY <1>2, <1>5, <1>b, NotTorn DEF Splitting
<1>13. c \in Busy(p) /\ c \in Busy(q) /\ \A d \in CaseIds : d \in Busy(q) => d = c
    BY <1>4, <1>6, WorksAlone
<1>14. cases[c].status # "READY" /\ row.status # "READY"
    BY <1>4, <1>7, <1>a DEF Draft, Pending
<1> QED
    BY <1>2, <1>5, <1>6, <1>7, <1>11, <1>12, <1>13, <1>14, RowStepSettles

\* The tasks of the AML case of a split.
LEMMA KinLists ==
    \A s \in {<<Finished("Complete"), Kept("Investigate")>>,
              <<Finished("Complete"), Finished("Approve"), Kept("Investigate")>>} :
        s \in Seq(Task) /\ Only(s, "Investigate")
<1> PICK c \in Task, a \in Task, i \in Task :
        c = Finished("Complete") /\ a = Finished("Approve") /\ i = Kept("Investigate")
    BY TaskRows DEF TaskNames
<1>1. ~c.open /\ ~a.open /\ i.open
    BY DEF Finished, Kept
<1>2. <<c, i>> \in Seq(Task) /\ Only(<<c, i>>, "Investigate")
    <2>1. Len(<<c, i>>) = 2 /\ <<c, i>>[1] = c /\ <<c, i>>[2] = i
        OBVIOUS
    <2> QED
        BY <1>1, <2>1 DEF Only, Opens
<1>3. <<c, a, i>> \in Seq(Task) /\ Only(<<c, a, i>>, "Investigate")
    <2>1. Len(<<c, a, i>>) = 3 /\ <<c, a, i>>[1] = c /\ <<c, a, i>>[2] = a /\ <<c, a, i>>[3] = i
        OBVIOUS
    <2> QED
        BY <1>1, <2>1 DEF Only, Opens
<1> QED
    BY <1>2, <1>3

LEMMA ApproveSettles ==
    ASSUME Orderly, XInv, NEW r \in Requests, Approve(r)
    PROVE  XInv'
<1> PICK q : q = req[r]
    OBVIOUS
<1> PICK c : c = q.case
    OBVIOUS
<1> PICK t : t = q.task
    OBVIOUS
<1>a. PICK list : list = [tasks[c] EXCEPT ![t].open = FALSE]
    OBVIOUS
<1>1. q \in Request /\ Flight(q) /\ IntakeTypeOK /\ q.at = "approve"
    BY SettledTypes DEF Approve
<1>2. Works(q, c) /\ Pending(c) /\ t = Len(tasks[c])
    BY <1>1, FlightKinds DEF FlightDecision, DecisionAt
<1>3. c \in CaseIds /\ c \in Busy(q) /\ \A d \in CaseIds : d \in Busy(q) => d = c
    BY <1>2, WorksAlone
<1>4. /\ cases[c].status = "PENDING" /\ Held(c) /\ cases[c].type \in CaseTypes
      /\ list \in Seq(Task) /\ Opens(list) = {}
    <2>1. tasks[c] \in Seq(Task) /\ Only(tasks[c], "Approve")
        BY <1>2, <1>3, SettledTypes DEF Pending
    <2> QED
        BY <1>2, <1>a, <2>1, OnlyClosed DEF Pending
<1>5. Torn(q) = NoAlert
    BY <1>1, NotTorn DEF Splitting
<1>6. CASE cases[c].type # "FRAUD_AND_AML"
    <2>a. PICK row : row = [cases[c] EXCEPT !.status = "READY"]
        OBVIOUS
    <2>1. /\ SetStatus(r, c, "READY") /\ FinishTask(r, c, t) /\ ThenInsert(r, "Investigate")
          /\ UNCHANGED <<alerts, groups>>
        BY <1>6 DEF Approve
    <2>2. /\ row \in Case /\ row.status = "READY" /\ row.group = cases[c].group /\ row.type = cases[c].type
          /\ cases' = [cases EXCEPT ![c] = row]
        <3>1. "READY" \in Origins
            BY DEF Origins
        <3> QED
            BY <1>1, <1>3, <2>1, <2>a, <3>1, StatusSet
    <2>3. tasks' = [tasks EXCEPT ![c] = list]
        BY <2>1, <1>a, Zenon DEF FinishTask
    <2>4. triageType' = triageType
        BY <2>1 DEF ThenInsert, Goes
    <2>5. Rewrites(c, row, list)
        BY <2>1, <2>2, <2>3, <2>4 DEF Rewrites
    <2>6. CaseIds' = CaseIds /\ cases'[c] = row /\ tasks'[c] = list /\ Held(c)'
        BY <1>1, <1>3, <1>4, <2>2, <2>5, Rewritten
    <2>7. PICK p \in Request :
              /\ req' = [req EXCEPT ![r] = p] /\ p.at = "insert" /\ p.arg = "Investigate" /\ p.case = c
              /\ p.kin = q.kin /\ p.home = q.home
        BY <2>1, InsertNext DEF TaskNames
    <2>8. Works(p, c) /\ Works(p, c)'
        BY <1>2, <2>6, <2>7 DEF Works
    <2>9. FlightDecision(p)'
        BY <1>4, <1>6, <2>2, <2>6, <2>7, <2>8 DEF FlightDecision, OneKind, CaseTypes
    <2>10. Flight(p)' /\ Torn(p) = NoAlert /\ c \in Busy(p)
        BY <2>7, <2>8, <2>9, FlightNext, NotTorn, WorksAlone DEF DecisionAt, Splitting
    <2> QED
        BY <1>3, <1>4, <1>5, <1>6, <2>2, <2>5, <2>7, <2>10, RewriteStep
<1>7. CASE cases[c].type = "FRAUD_AND_AML"
    <2>a. PICK mine : mine = Append(list, Kept("Investigate"))
        OBVIOUS
    <2>b. PICK all : all = [tasks EXCEPT ![c] = mine]
        OBVIOUS
    <2>c. PICK kin : kin = <<Finished("Complete"), Finished("Approve"), Kept("Investigate")>>
        OBVIOUS
    <2>1. PICK b \in Alerts : About(b, c)
        BY <1>4 DEF Held, Alive
    <2>2. b \in AlertsOf(c)
        BY <1>3, <2>1, AlertsOfAbout
    <2>3. PICK a \in AlertsOf(c) :
              /\ Split(r, c, a,
                       [tasks EXCEPT ![c] = Append([@ EXCEPT ![t].open = FALSE], Kept("Investigate"))], kin)
              /\ Done(r)
        BY <1>7, <2>2, <2>c, Zenon DEF Approve
    <2>4. Split(r, c, a, all, kin)
        BY <1>a, <2>3, <2>a, <2>b, Zenon
    <2>5. a \in Alerts /\ About(a, c)
        <3>1. AlertsOf(c) \subseteq Alerts
            BY <1>3, SettledTypes DEF AlertsOf, Case
        <3> QED
            BY <1>3, <3>1, AlertsOfAbout
    <2>6. mine \in Seq(Task) /\ Only(mine, "Investigate")
        BY <1>4, <2>a, OpensAppended DEF TaskNames
    <2>7. all \in Seq(Seq(Task)) /\ Len(all) = Len(cases) /\ all[c] = mine
          /\ \A d \in CaseIds : d # c => all[d] = tasks[d]
        <3>1. tasks \in Seq(Seq(Task)) /\ Len(tasks) = Len(cases)
            BY <1>1 DEF IntakeTypeOK, TasksOK
        <3>2. all \in Seq(Seq(Task)) /\ Len(all) = Len(tasks)
            BY <2>6, <2>b, <3>1, ListPut, ZenonT(60)
        <3>3. DOMAIN tasks = 1..Len(tasks) /\ c \in DOMAIN tasks
            BY <1>3, <3>1 DEF CaseIds
        <3>4. all[c] = mine /\ \A d \in DOMAIN tasks : d # c => all[d] = tasks[d]
            BY <2>b, <3>3
        <3> QED
            BY <3>1, <3>2, <3>3, <3>4 DEF CaseIds
    <2>8. kin \in Seq(Task) /\ Only(kin, "Investigate")
        BY <2>c, KinLists
    <2>9. req' = [req EXCEPT ![r] = Idle] /\ triageType' = triageType
        BY <2>3 DEF Done, Goes
    <2>10. cases[c].status # "READY"
        BY <1>4
    <2> QED
        BY <1>3, <1>4, <1>5, <2>4, <2>5, <2>6, <2>7, <2>8, <2>9, <2>10, IdleRequest, CaseSplit
<1> QED
    BY <1>6, <1>7

\* A status and a type are set.
Stamped(row, c, s, y) ==
    /\ row \in Case /\ row.status = s /\ row.type = y /\ row.group = cases[c].group
    /\ [cases EXCEPT ![c].status = s, ![c].type = y] = [cases EXCEPT ![c] = row]

LEMMA TypeSet ==
    ASSUME IntakeTypeOK, NEW c \in CaseIds, NEW s \in Origins, NEW y \in Types
    PROVE  \E row : Stamped(row, c, s, y)
<1>a. PICK row : row = [cases[c] EXCEPT !.status = s, !.type = y]
    OBVIOUS
<1>1. cases[c] \in Case
    BY ListOf
<1>2. row \in Case /\ row.status = s /\ row.type = y /\ row.group = cases[c].group
    BY <1>1, <1>a DEF Case, Types
<1>3. [cases EXCEPT ![c].status = s, ![c].type = y] = [cases EXCEPT ![c] = row]
    <2> PICK n \in Nat : n = Len(cases) /\ cases \in [1..n -> Case]
        BY DEF IntakeTypeOK
    <2>1. c \in 1..n
        BY DEF CaseIds
    <2>2. PICK mid : mid = [cases EXCEPT ![c] = [cases[c] EXCEPT !.status = s]]
        OBVIOUS
    <2>3. mid[c] = [cases[c] EXCEPT !.status = s] /\ DOMAIN mid = 1..n /\ DOMAIN cases = 1..n
        BY <2>1, <2>2
    <2>4. [mid EXCEPT ![c] = [mid[c] EXCEPT !.type = y]] = [cases EXCEPT ![c] = row]
        BY <1>a, <2>1, <2>2, <2>3
    <2> QED
        BY <2>2, <2>4, Zenon
<1> QED
    BY <1>2, <1>3, Zenon DEF Stamped

\* completeCaseCreation links the case to the alert.
LinksCase(row, c, a) ==
    /\ cases' = [cases EXCEPT ![c] = row] /\ alerts' = [alerts EXCEPT ![a].case = c]
    /\ UNCHANGED <<triageType, groups, tasks>>

LEMMA CompleteLinks ==
    ASSUME Orderly, XInv, NEW r \in Requests, NEW q \in Request, q = req[r], NEW c \in CaseIds, NEW a \in Alerts,
           q.at = "completeCommit", Works(q, c), Drafting(c, "DRAFT"), q.type \in CaseTypes,
           Opens(tasks[c]) = {}, About(a, c), ~Splits(q.role, q.type),
           NEW row \in Case, row.status = ManualStatus(q.role), row.type = q.type,
           row.group = cases[c].group, LinksCase(row, c, a),
           ThenInsert(r, IF q.role = "SUPERVISOR" THEN "Investigate" ELSE "Approve")
    PROVE  XInv'
<1> PICK name \in TaskNames : name = IF q.role = "SUPERVISOR" THEN "Investigate" ELSE "Approve"
    BY DEF TaskNames
<1>1. PICK p \in Request :
          /\ req' = [req EXCEPT ![r] = p] /\ p.at = "insert" /\ p.arg = name /\ p.case = c
          /\ p.kin = q.kin /\ p.home = q.home
    BY InsertNext DEF Works
<1>2. UNCHANGED <<triageType, groups, tasks>>
    BY DEF LinksCase
<1>3. /\ cases' \in Seq(Case) /\ Len(cases') = Len(cases) /\ CaseIds' = CaseIds
      /\ cases'[c] = row /\ \A d \in CaseIds : d # c => cases'[d] = cases[d]
    BY RowWritten DEF XInv, LinksCase
<1>4. /\ alerts'[a].case = c /\ alerts'[a].kind = alerts[a].kind
      /\ \A b \in Alerts : b # a => alerts'[b] = alerts[b]
      /\ alerts' \in [Alerts -> Alert]
    <2>1. alerts \in [Alerts -> Alert] /\ alerts[a] \in Alert /\ c \in Nat
        BY SettledTypes DEF XInv, IntakeTypeOK
    <2>2. [alerts[a] EXCEPT !.case = c] \in Alert
        BY <2>1 DEF Alert
    <2> QED
        BY <2>1, <2>2 DEF Alert, LinksCase
<1>5. IntakeTypeOK'
    <2>1. \A b \in Alerts : alerts'[b].case \in 0..Len(cases)
        BY <1>4, SettledTypes DEF CaseIds
    <2>2. TasksOK'
        BY <1>2, <1>3 DEF XInv, IntakeTypeOK, TasksOK
    <2> QED
        BY <1>1, <1>2, <1>3, <1>4, <2>1, <2>2 DEF XInv, IntakeTypeOK
<1>6. Torn(q) = NoAlert /\ Torn(p) = NoAlert
    BY <1>1, NotTorn DEF Splitting
<1>7. /\ \A d \in CaseIds : About(a, d) => d = c
      /\ \A b \in Alerts : About(b, c) => b = a
    BY <1>6, SoloOf, SettledTypes DEF XInv, OneSubject, Drafting
<1>8. cases[c].group \in {NoAlert, a}
    BY <1>7, SettledTypes DEF About, Case
<1>9. Writes(a, {c})
    BY <1>2, <1>3, <1>4, <1>5, <1>7, <1>8, SettledTypes DEF Writes
<1>10. alerts[a].case \in {0, c}
    BY <1>7, LinkedCase
<1>11. NoGhost(a)'
    <2>1. alerts'[a].kind # "none"
        BY <1>4, GhostsAreNone
    <2>2. a \notin groups => \A d \in CaseIds' : cases'[d].group # a
        BY <1>3 DEF XInv, NoGhost
    <2> QED
        BY <1>2, <2>1, <2>2 DEF NoGhost
<1>12. Concerns(a, {c})
    BY <1>4, <1>7, <1>10, <1>11 DEF Concerns
<1>13. About(a, c)' /\ \A b \in Alerts : About(b, c)' => b = a
    BY <1>3, <1>4, <1>9, <1>12, AboutStays DEF About
<1>14. \A d \in CaseIds : About(a, d)' => d = c
    BY <1>3, <1>4, <1>7 DEF About
<1>15. Held(c)'
    <2>1. alerts[a].kind # "ALRT" \/ triageType # "DISABLED"
        BY DEF Drafting, Held, Untriaged
    <2> QED
        BY <1>2, <1>4, <1>13, <2>1, HeldBy
<1>16. row.status = "READY" => row.type \in OneKind /\ name = "Investigate"
    BY <1>2 DEF ManualStatus, Splits, CaseTypes, OneKind
<1>17. Solo(a)'
    <2>1. \A d \in CaseIds : cases'[d].group = a => d = c
        BY <1>14 DEF About
    <2> QED
        BY <1>3, <1>4, <1>14, <1>16, <2>1 DEF Solo, OneKind
<1>18. Works(p, c)'
    BY <1>1, <1>3 DEF Works
<1>19. FlightDecision(p)'
    <2>1. row.status = "PENDING" => name = "Approve"
        BY <1>2 DEF ManualStatus
    <2>2. row.status \in {"READY", "PENDING"}
        BY <1>2 DEF ManualStatus
    <2> QED
        BY <1>1, <1>2, <1>3, <1>15, <1>16, <1>18, <2>1, <2>2 DEF FlightDecision
<1>20. Flight(p)'
    BY <1>1, <1>19, FlightNext DEF DecisionAt
<1>21. c \in Busy(p) /\ c \in Busy(q) /\ \A d \in CaseIds : d \in Busy(q) => d = c
    <2>1. Works(p, c)
        BY <1>1 DEF Works
    <2> QED
        BY <2>1, WorksAlone
<1>22. Minds(q, {c})
    BY <1>21 DEF Minds
<1>23. Leaves(q, p, a, {c})
    BY <1>3, <1>6, <1>17, <1>20, <1>21, <1>22 DEF Leaves
<1> QED
    BY <1>1, <1>9, <1>12, <1>23, Settles

LEMMA CompleteCommitSettles ==
    ASSUME Orderly, XInv, NEW r \in Requests, CompleteCommit(r)
    PROVE  XInv'
<1> PICK q : q = req[r]
    OBVIOUS
<1> PICK c : c = q.case
    OBVIOUS
<1> PICK name \in TaskNames : name = IF q.role = "SUPERVISOR" THEN "Investigate" ELSE "Approve"
    BY DEF TaskNames
<1>1. q \in Request /\ Flight(q) /\ q.at = "completeCommit" /\ IntakeTypeOK
    BY SettledTypes DEF CompleteCommit
<1>2. /\ Works(q, c) /\ Drafting(c, "DRAFT") /\ q.type \in CaseTypes /\ Opens(tasks[c]) = {}
      /\ Chosen(q)
    BY <1>1, FlightKinds DEF FlightDecision, DecisionAt
<1>3. c \in CaseIds /\ c \in Busy(q) /\ \A d \in CaseIds : d \in Busy(q) => d = c
    BY <1>2, WorksAlone
<1>4. cases[c].status = "DRAFT" /\ Held(c)
    BY <1>2 DEF Drafting
<1>a. PICK s \in Origins, y \in Types : s = ManualStatus(q.role) /\ y = q.type
    BY <1>2 DEF ManualStatus, Origins, Types, CaseTypes
<1>b. PICK row : Stamped(row, c, s, y)
    BY <1>1, <1>3, TypeSet
<1>5. PICK b \in Alerts : About(b, c)
    BY <1>4 DEF Held, Alive
<1>6. AlertsOf(c) # {} /\ AlertsOf(c) \subseteq Alerts
    BY <1>3, <1>5, AlertsOfAbout, SettledTypes DEF AlertsOf, Case
<1> PICK toLink : toLink = IF q.alert = NoAlert THEN AlertsOf(c) ELSE {q.alert}
    OBVIOUS
<1>c. toLink # {} /\ \A a \in toLink : a \in Alerts /\ About(a, c)
    <2>1. \A a \in AlertsOf(c) : a \in Alerts /\ About(a, c)
        BY <1>3, <1>6, AlertsOfAbout
    <2> QED
        BY <1>2, <1>6, <2>1 DEF Chosen
<1>7. PICK a \in toLink :
          /\ IF Splits(q.role, q.type)
             THEN Split(r, c, a, tasks, <<Finished("Complete"), Kept("Investigate")>>)
             ELSE LinksCase(row, c, a)
          /\ ThenInsert(r, name)
    <2>1. triageType' = triageType
        BY <1>c DEF CompleteCommit, ThenInsert, Goes
    <2> QED
        BY <1>a, <1>b, <1>c, <2>1, Zenon DEF Stamped, CompleteCommit, LinksCase
<1>8. a \in Alerts /\ About(a, c) /\ triageType' = triageType
    BY <1>c, <1>7 DEF ThenInsert, Goes
<1>9. CASE Splits(q.role, q.type)
    <2>a. PICK kin : kin = <<Finished("Complete"), Kept("Investigate")>>
        OBVIOUS
    <2>1. Split(r, c, a, tasks, kin) /\ name = "Investigate"
        BY <1>7, <1>9, <2>a DEF Splits
    <2>2. kin \in Seq(Task) /\ Only(kin, "Investigate")
        BY <2>a, KinLists
    <2>3. PICK p \in Request :
              /\ req' = [req EXCEPT ![r] = p] /\ p.at = "insert" /\ p.arg = "Investigate" /\ p.case = c
              /\ p.kin = q.kin /\ p.home = q.home
        BY <1>7, <2>1, InsertNext
    <2>4. tasks \in Seq(Seq(Task)) /\ Len(tasks) = Len(cases)
        BY DEF XInv, IntakeTypeOK, TasksOK
    <2>5. Torn(q) = NoAlert /\ cases[c].status # "READY"
        BY <1>1, <1>4, NotTorn DEF Splitting
    <2>6. p.kin = <<>> /\ p.home \in {0, c}
        BY <1>2, <2>3 DEF Works
    <2> QED
        BY <1>2, <1>3, <1>4, <1>8, <2>1, <2>2, <2>3, <2>4, <2>5, <2>6, CaseSplit
<1>10. CASE ~Splits(q.role, q.type)
    BY <1>1, <1>2, <1>3, <1>7, <1>8, <1>10, <1>a, <1>b, CompleteLinks DEF Stamped
<1> QED
    BY <1>9, <1>10
-----------------------------------------------------------------------------
(***************************************************************************)
(* Intake, and the AI's triage of one case.                                *)
(***************************************************************************)
LEMMA IngestedFacts ==
    ASSUME XInv, NEW q, NEW c, c = q.case, Ingested(q)
    PROVE  /\ c \in CaseIds /\ tasks[c] \in Seq(Task) /\ \A d \in CaseIds : d \in Busy(q) <=> d = c
           /\ About(q.alert, c) /\ Alive(c) /\ (Untriaged(c) <=> triageType = "DISABLED")
           /\ (Held(c) <=> triageType # "DISABLED")
           /\ cases[c].status = "DRAFT" /\ cases[c].group = NoAlert
<1>1. c \in CaseIds /\ q.kin = <<>> /\ q.home = 0 /\ q.alert \in Alerts /\ alerts[q.alert].case = c
      /\ alerts[q.alert].kind = "ALRT" /\ cases[c].status = "DRAFT" /\ cases[c].group = NoAlert
    BY DEF Ingested
<1>2. \A d \in CaseIds : d \in Busy(q) <=> d = c
    BY <1>1, BusyOne, SettledTypes
<1>3. About(q.alert, c) /\ Alive(c)
    BY <1>1 DEF About, Alive
<1>4. (Untriaged(c) <=> triageType = "DISABLED") /\ (Held(c) <=> triageType # "DISABLED")
    BY <1>1, <1>3 DEF Untriaged, Held
<1> QED
    BY <1>1, <1>2, <1>3, <1>4, SettledTypes

SameWork(p, q) == p.case = q.case /\ p.kin = q.kin /\ p.home = q.home /\ p.alert = q.alert

LEMMA IngestedStays ==
    ASSUME NEW q, NEW p, Ingested(q), SameWork(p, q), UNCHANGED <<alerts, cases>>
    PROVE  Ingested(p) /\ Ingested(p)' /\ Busy(p) = Busy(q)
<1>1. Busy(p) = Busy(q)
    BY DEF SameWork, Busy
<1>2. Ingested(p)
    BY DEF SameWork, Ingested, Just
<1> QED
    BY <1>1, <1>2 DEF SameWork, Ingested, Just, About, CaseIds

\* A step of intake that writes the tasks of the case.
LEMMA IngestedTasks ==
    ASSUME Orderly, XInv, NEW r \in Requests, NEW p \in Request, req' = [req EXCEPT ![r] = p],
           NEW c, c = req[r].case, Ingested(req[r]), SameWork(p, req[r]), NEW list \in Seq(Task),
           tasks' = [tasks EXCEPT ![c] = list], UNCHANGED <<triageType, alerts, groups, cases>>,
           req[r].at \notin Splitting, p.at \notin Splitting, Flight(p)'
    PROVE  XInv'
<1>1. c \in CaseIds /\ \A d \in CaseIds : d \in Busy(req[r]) <=> d = c
    BY IngestedFacts
<1>2. Busy(p) = Busy(req[r])
    BY DEF SameWork, Busy
<1>3. Torn(req[r]) = NoAlert /\ Torn(p) = NoAlert
    BY NotTorn
<1>4. c \in Busy(p) /\ \A d \in CaseIds : d \in Busy(req[r]) => d = c
    BY <1>1, <1>2
<1> QED
    BY <1>1, <1>3, <1>4, TaskStep

LEMMA IngestAlertSettles ==
    ASSUME Orderly, XInv, NEW r \in Requests, IngestAlert(r)
    PROVE  XInv'
<1> PICK q : q = req[r]
    OBVIOUS
<1> PICK a : a = q.alert
    OBVIOUS
<1> PICK c : c = q.case
    OBVIOUS
<1>a. PICK at \in Steps, arg \in Args :
          /\ AfterIngest[triageType] = [at |-> at, arg |-> arg]
          /\ triageType = "MANUAL" => at = "insert" /\ arg = "Complete"
          /\ triageType = "DISABLED" => at = "insertFirst"
          /\ triageType = "AI" => at = "triageTask"
    <2>1. AfterIngest["MANUAL"] = [at |-> "insert", arg |-> "Complete"]
        BY DEF AfterIngest
    <2>2. AfterIngest["DISABLED"] = [at |-> "insertFirst", arg |-> "Investigate"]
        BY DEF AfterIngest
    <2>3. AfterIngest["AI"] = [at |-> "triageTask", arg |-> "none"]
        BY DEF AfterIngest
    <2>4. triageType \in {"AI", "MANUAL", "DISABLED"}
        BY IntakeAssumption DEF XInv
    <2>5. /\ {"insert", "insertFirst", "triageTask"} \subseteq Steps
          /\ {"Complete", "Investigate", "none"} \subseteq Args
        BY DEF Steps, Args, TaskNames
    <2> QED
        BY <2>1, <2>2, <2>3, <2>4, <2>5
<1>b. PICK p : p = [q EXCEPT !.at = at, !.arg = arg]
    OBVIOUS
<1>1. q.at = "ingest" /\ UNCHANGED <<triageType, groups, cases, tasks>>
    BY DEF IngestAlert, Goes
<1>2. alerts' = [alerts EXCEPT ![a] = Row("ALRT", c)] /\ req' = [req EXCEPT ![r] = p]
    BY <1>a, <1>b DEF IngestAlert, Goes
<1>3. q \in Request /\ Flight(q) /\ IntakeTypeOK
    BY SettledTypes
<1>4. /\ q.kin = <<>> /\ q.home = 0 /\ a \in Alerts /\ alerts[a].kind = "none"
      /\ Made(c, "DRAFT", NoType, NoAlert) /\ tasks[c] = <<>> /\ ~Alive(c) /\ q.type = NoType
    BY <1>1, <1>3, FlightKinds DEF FlightIntake, IntakeAt
<1>5. /\ c \in CaseIds /\ c \in 0..Len(cases) /\ c \in Nat
      /\ cases[c].status = "DRAFT" /\ cases[c].type = NoType /\ cases[c].group = NoAlert
    BY <1>3, <1>4, SettledTypes DEF Made, NewCase, CaseIds
<1>6. p \in Request
    BY <1>3, <1>b, Puts, Zenon
<1>7. p.at = at /\ p.arg = arg /\ SameWork(p, q) /\ p.type = q.type
    BY <1>3, <1>b DEF Request, SameWork
<1>8. /\ alerts' \in [Alerts -> Alert] /\ alerts'[a] = Row("ALRT", c)
      /\ \A b \in Alerts : b # a => alerts'[b] = alerts[b]
    <2>1. Row("ALRT", c) \in Alert
        BY <1>5 DEF Row, Alert
    <2> QED
        BY <1>2, <1>3, <1>4, <2>1 DEF IntakeTypeOK
<1>9. alerts'[a].kind = "ALRT" /\ alerts'[a].case = c
    BY <1>8 DEF Row
<1>10. IntakeTypeOK'
    <2>1. \A b \in Alerts : alerts'[b].case \in 0..Len(cases)
        BY <1>5, <1>8, <1>9, SettledTypes
    <2> QED
        BY <1>1, <1>2, <1>3, <1>6, <1>8, <2>1 DEF IntakeTypeOK, TasksOK
<1>11. alerts[a].case = 0 /\ \A d \in CaseIds : ~About(a, d)
    BY <1>4, SettledTypes DEF XInv, NoGhost, About
<1>12. \A b \in Alerts : ~About(b, c)
    BY <1>4 DEF Alive
<1>13. CaseIds' = CaseIds
    BY <1>1 DEF CaseIds
<1>14. Writes(a, {c})
    BY <1>1, <1>5, <1>8, <1>10, <1>12, <1>13, SettledTypes DEF Writes
<1>15. NoGhost(a)'
    BY <1>1, <1>9, <1>11, <1>13 DEF NoGhost, About
<1>16. Concerns(a, {c})
    BY <1>9, <1>11, <1>15 DEF Concerns
<1>17. \A d \in CaseIds : About(a, d)' <=> d = c
    BY <1>1, <1>9, <1>11 DEF About
<1>18. \A b \in Alerts : About(b, c)' => b = a
    BY <1>5, <1>13, <1>14, <1>16, AboutStays
<1>19. Solo(a)'
    BY <1>1, <1>11, <1>13, <1>17 DEF Solo, About
<1>20. Ingested(p)'
    BY <1>1, <1>4, <1>5, <1>7, <1>9, <1>13, <1>17 DEF Ingested, SameWork, Just
<1>21. Flight(p)'
    <2>1. CASE triageType = "MANUAL"
        <3>1. Held(c)'
            BY <1>1, <1>4, <1>5, <1>17, <1>18, <2>1, HeldBy
        <3>2. FlightDecision(p)'
            <4>1. p.at = "insert" /\ p.arg = "Complete" /\ p.case = c /\ p.kin = <<>> /\ p.home = 0
                BY <1>4, <1>7, <1>a, <2>1 DEF SameWork
            <4>2. Opens(tasks'[c]) = {} /\ cases'[c].status = "DRAFT"
                BY <1>1, <1>4, <1>5, NothingOpen
            <4> QED
                BY <1>5, <1>13, <3>1, <4>1, <4>2 DEF FlightDecision, Works
        <3> QED
            BY <1>7, <1>a, <2>1, <3>2, FlightNext DEF DecisionAt
    <2>2. CASE triageType = "DISABLED"
        <3>1. FlightIntake(p)'
            BY <1>1, <1>4, <1>5, <1>7, <1>20, <1>a, <2>2 DEF FlightIntake, SameWork
        <3> QED
            BY <1>7, <1>a, <2>2, <3>1, FlightNext DEF IntakeAt
    <2>3. CASE triageType = "AI"
        <3>1. FlightIntake(p)'
            BY <1>1, <1>4, <1>7, <1>20, <1>a, <2>3 DEF FlightIntake, SameWork
        <3> QED
            BY <1>7, <1>a, <2>3, <3>1, FlightNext DEF IntakeAt
    <2> QED
        BY <2>1, <2>2, <2>3, IntakeAssumption DEF XInv
<1>22. Torn(q) = NoAlert
    BY <1>1, NotTorn DEF Splitting
<1>23. c \in Busy(p) /\ \A d \in CaseIds : d \in Busy(q) => d = c
    BY <1>4, <1>7, BusyOne, SettledTypes DEF SameWork
<1>24. Minds(q, {c})
    BY <1>1, BusyOwn DEF Minds
<1>25. Leaves(q, p, a, {c})
    BY <1>13, <1>19, <1>21, <1>22, <1>23, <1>24 DEF Leaves
<1> QED
    BY <1>2, <1>6, <1>14, <1>16, <1>25, Settles

LEMMA InsertFirstSettles ==
    ASSUME Orderly, XInv, NEW r \in Requests, InsertFirst(r)
    PROVE  XInv'
<1> PICK q : q = req[r]
    OBVIOUS
<1> PICK c : c = q.case
    OBVIOUS
<1>a. PICK p : p = [q EXCEPT !.at = "investigate", !.arg = "none"]
    OBVIOUS
<1>b. PICK list : list = Append(<<>>, Kept("Investigate"))
    OBVIOUS
<1>1. q.at = "insertFirst" /\ AddTask(c, Kept("Investigate")) /\ UNCHANGED <<triageType, alerts, groups, cases>>
    BY DEF InsertFirst, Goes
<1>2. req' = [req EXCEPT ![r] = p]
    BY <1>a DEF InsertFirst, Goes
<1>3. q \in Request /\ Flight(q)
    BY SettledTypes
<1>4. /\ Ingested(q) /\ triageType = "DISABLED" /\ tasks[c] = <<>>
      /\ cases[c].type = NoType /\ q.type = NoType
    BY <1>1, <1>3, FlightKinds DEF FlightIntake, IntakeAt
<1>5. p \in Request
    <2>1. "investigate" \in Steps /\ "none" \in Args
        BY DEF Steps, Args
    <2> QED
        BY <1>3, <1>a, <2>1, Puts, Zenon
<1>6. p.at = "investigate" /\ p.arg = "none" /\ SameWork(p, q) /\ p.type = NoType
    BY <1>3, <1>4, <1>a DEF Request, SameWork
<1>7. c \in CaseIds
    BY <1>4, IngestedFacts
<1>8. list \in Seq(Task) /\ list = <<Kept("Investigate")>>
    <2>1. "Investigate" \in TaskNames
        BY DEF TaskNames
    <2>2. list \in Seq(Task)
        BY <1>b, <2>1, FirstTask
    <2> QED
        BY <1>b, <2>2
<1>9. tasks' = [tasks EXCEPT ![c] = list]
    BY <1>1, <1>4, <1>b DEF AddTask
<1>10. tasks'[c] = <<Kept("Investigate")>>
    BY <1>1, <1>7, <1>8, <1>9, TaskFacts
<1>11. Ingested(p)'
    BY <1>1, <1>4, <1>6, IngestedStays
<1>12. FlightIntake(p)' /\ FlightTriage(p)'
    BY <1>1, <1>4, <1>6, <1>10, <1>11 DEF FlightIntake, FlightTriage, SameWork
<1>13. Flight(p)'
    BY <1>6, <1>12, FlightNext
<1> QED
    BY <1>1, <1>2, <1>4, <1>5, <1>6, <1>8, <1>9, <1>13, IngestedTasks DEF Splitting

LEMMA TriageTaskSettles ==
    ASSUME Orderly, XInv, NEW r \in Requests, TriageTask(r)
    PROVE  XInv'
<1> PICK q : q = req[r]
    OBVIOUS
<1> PICK c : c = q.case
    OBVIOUS
<1>b. PICK list : list = Append(<<>>, Kept("Complete"))
    OBVIOUS
<1>1. q.at = "triageTask" /\ AddTask(c, Kept("Complete")) /\ UNCHANGED <<triageType, alerts, groups, cases>>
    BY DEF TriageTask, Goes
<1>2. q \in Request /\ Flight(q)
    BY SettledTypes
<1>3. Ingested(q) /\ triageType = "AI" /\ tasks[c] = <<>>
    BY <1>1, <1>2, FlightKinds DEF FlightIntake, IntakeAt
<1>a. PICK p : p = [q EXCEPT !.at = "predict", !.task = Len(tasks[c]) + 1]
    OBVIOUS
<1>4. req' = [req EXCEPT ![r] = p]
    BY <1>a DEF TriageTask, Goes
<1>5. Len(tasks[c]) + 1 = 1
    BY <1>3
<1>6. p \in Request
    <2>1. "predict" \in Steps /\ Len(tasks[c]) + 1 \in Nat
        BY <1>5 DEF Steps
    <2> QED
        BY <1>2, <1>a, <2>1, Puts, Zenon
<1>7. p.at = "predict" /\ p.task = 1 /\ SameWork(p, q)
    BY <1>2, <1>5, <1>a DEF Request, SameWork
<1>8. c \in CaseIds
    BY <1>3, IngestedFacts
<1>9. list \in Seq(Task) /\ list = <<Kept("Complete")>>
    BY <1>b, FirstTask DEF TaskNames
<1>10. tasks' = [tasks EXCEPT ![c] = list]
    BY <1>1, <1>3, <1>b DEF AddTask
<1>11. tasks'[c] = <<Kept("Complete")>>
    BY <1>1, <1>8, <1>9, <1>10, TaskFacts
<1>12. Ingested(p)'
    BY <1>1, <1>3, <1>7, IngestedStays
<1>13. FlightIntake(p)'
    BY <1>1, <1>3, <1>7, <1>11, <1>12 DEF FlightIntake, SameWork
<1>14. Flight(p)'
    BY <1>7, <1>13, FlightNext DEF IntakeAt
<1> QED
    BY <1>1, <1>3, <1>4, <1>6, <1>7, <1>9, <1>10, <1>14, IngestedTasks DEF Splitting

LEMMA PredictSettles ==
    ASSUME Orderly, XInv, NEW r \in Requests, Predict(r)
    PROVE  XInv'
<1> PICK q : q = req[r]
    OBVIOUS
<1> PICK c : c = q.case
    OBVIOUS
<1>1. PICK x \in Answers, type \in Types :
          /\ req' = [req EXCEPT ![r] = [q EXCEPT !.at = "aiTask", !.arg = x, !.type = type]]
          /\ x = "investigate" => type \in CaseTypes
    <2>1. PICK x \in Answers : \E type \in IF x = "investigate" THEN CaseTypes ELSE {NoType} :
              Goes(r, [q EXCEPT !.at = "aiTask", !.arg = x, !.type = type])
        BY Zenon DEF Predict
    <2>2. PICK type \in IF x = "investigate" THEN CaseTypes ELSE {NoType} :
              Goes(r, [q EXCEPT !.at = "aiTask", !.arg = x, !.type = type])
        BY <2>1
    <2>3. type \in Types /\ (x = "investigate" => type \in CaseTypes)
        BY DEF Types
    <2> QED
        BY <2>2, <2>3 DEF Goes
<1>a. PICK p : p = [q EXCEPT !.at = "aiTask", !.arg = x, !.type = type]
    OBVIOUS
<1>2. q.at = "predict" /\ UNCHANGED <<triageType, rows>> /\ req' = [req EXCEPT ![r] = p]
    BY <1>1, <1>a DEF Predict, Goes
<1>3. q \in Request /\ Flight(q)
    BY SettledTypes
<1>4. Ingested(q) /\ triageType = "AI" /\ tasks[c] = <<Kept("Complete")>> /\ q.task = 1
    BY <1>2, <1>3, FlightKinds DEF FlightIntake, IntakeAt
<1>5. p \in Request
    <2>1. "aiTask" \in Steps /\ x \in Args
        BY <1>1, IntakeAssumption DEF Steps, Args
    <2> QED
        BY <1>3, <1>a, <2>1, Puts, Zenon
<1>6. p.at = "aiTask" /\ p.arg = x /\ SameWork(p, q) /\ p.task = q.task /\ p.type = type
    BY <1>3, <1>a DEF Request, SameWork
<1>7. Ingested(p) /\ Busy(p) = Busy(q)
    BY <1>4, <1>6 DEF SameWork, Ingested, Just, Busy
<1>8. FlightIntake(p)
    BY <1>1, <1>4, <1>6, <1>7 DEF FlightIntake, SameWork
<1>9. Flight(p)
    BY <1>6, <1>8, FlightKinds DEF IntakeAt
<1>10. Torn(q) = NoAlert
    BY <1>2, NotTorn DEF Splitting
<1> QED
    BY <1>2, <1>5, <1>7, <1>9, <1>10, PaperStep

LEMMA AiTaskSettles ==
    ASSUME Orderly, XInv, NEW r \in Requests, AiTask(r)
    PROVE  XInv'
<1> PICK q : q = req[r]
    OBVIOUS
<1> PICK c : c = q.case
    OBVIOUS
<1>1. q.at = "aiTask" /\ FinishTask(r, c, q.task) /\ UNCHANGED <<triageType, alerts, groups, cases>>
    BY DEF AiTask, Goes
<1>2. q \in Request /\ Flight(q)
    BY SettledTypes
<1>3. /\ Ingested(q) /\ triageType = "AI" /\ tasks[c] = <<Kept("Complete")>> /\ q.task = 1
      /\ q.arg \in Answers /\ (q.arg = "investigate" => q.type \in CaseTypes)
    BY <1>1, <1>2, FlightKinds DEF FlightIntake, IntakeAt
<1>a. PICK at \in Steps :
          /\ at = AfterAnswer(q.arg)
          /\ at \in {"investigate", "aiClose", "aiGroup"}
          /\ at = "investigate" => q.arg = "investigate"
    BY <1>3, IntakeAssumption DEF AfterAnswer, Steps
<1>b. PICK p : p = [q EXCEPT !.at = at, !.arg = "none"]
    OBVIOUS
<1>4. req' = [req EXCEPT ![r] = p]
    BY <1>a, <1>b, Zenon DEF AiTask, Goes
<1>5. p \in Request
    <2>1. "none" \in Args
        BY DEF Args
    <2> QED
        BY <1>2, <1>b, <2>1, Puts, Zenon
<1>6. p.at = at /\ p.arg = "none" /\ p.type = q.type /\ SameWork(p, q)
    BY <1>2, <1>b DEF Request, SameWork
<1>7. c \in CaseIds /\ Only(tasks[c], "Complete") /\ Len(tasks[c]) = 1
    <2>1. tasks[c] = Append(<<>>, Kept("Complete")) /\ Len(tasks[c]) = 1
        BY <1>3
    <2> QED
        BY <1>3, <2>1, IngestedFacts, FirstTask DEF TaskNames
<1>8. PICK list \in Seq(Task) :
          /\ Opens(list) = {} /\ tasks' = [tasks EXCEPT ![c] = list] /\ tasks'[c] = list
    BY <1>1, <1>3, <1>7, TaskClosed
<1>9. Ingested(p)'
    BY <1>1, <1>3, <1>6, IngestedStays
<1>10. FlightIntake(p)' /\ FlightTriage(p)'
    BY <1>1, <1>3, <1>6, <1>8, <1>9, <1>a DEF FlightIntake, FlightTriage, SameWork
<1>11. Flight(p)'
    BY <1>6, <1>10, <1>a, FlightNext DEF IntakeAt
<1>12. p.at \notin Splitting
    BY <1>6, <1>a DEF Splitting
<1>13. q.at \notin Splitting
    BY <1>1 DEF Splitting
<1> QED
    BY <1>1, <1>3, <1>4, <1>5, <1>6, <1>8, <1>11, <1>12, <1>13, IngestedTasks

LEMMA AiCloseSettles ==
    ASSUME Orderly, XInv, NEW r \in Requests, AiClose(r)
    PROVE  XInv'
<1> PICK q : q = req[r]
    OBVIOUS
<1> PICK c : c = q.case
    OBVIOUS
<1>a. PICK row : row = [cases[c] EXCEPT !.status = "CLOSED"]
    OBVIOUS
<1>1. /\ q.at = "aiClose" /\ SetStatus(r, c, "CLOSED") /\ UNCHANGED <<triageType, alerts, groups, tasks>>
      /\ req' = [req EXCEPT ![r] = Idle]
    BY DEF AiClose, Done, Goes
<1>2. q \in Request /\ Flight(q) /\ IntakeTypeOK
    BY SettledTypes
<1>3. Ingested(q) /\ Opens(tasks[c]) = {}
    BY <1>1, <1>2, FlightKinds DEF FlightIntake, IntakeAt
<1>4. /\ c \in CaseIds /\ \A d \in CaseIds : d \in Busy(q) <=> d = c
      /\ cases[c].status = "DRAFT" /\ cases[c].group = NoAlert
    BY <1>3, IngestedFacts
<1>5. row \in Case /\ row.status = "CLOSED" /\ row.group = cases[c].group /\ cases' = [cases EXCEPT ![c] = row]
    <2>1. "CLOSED" \in Origins
        BY DEF Origins
    <2> QED
        BY <1>1, <1>2, <1>4, <1>a, <2>1, StatusSet
<1>6. cases'[c] = row /\ tasks'[c] = tasks[c]
    BY <1>1, <1>4, <1>5, RowFacts
<1>7. Rest(c)'
    BY <1>3, <1>5, <1>6 DEF Rest, Over
<1>8. Torn(q) = NoAlert /\ Torn(Idle) = NoAlert /\ Flight(Idle)'
    BY <1>1, NotTorn, IdleRequest, FlightNext DEF Splitting
<1>9. cases[c].status # "READY" /\ row.group = NoAlert
    BY <1>4, <1>5
<1> QED
    BY <1>1, <1>4, <1>5, <1>7, <1>8, <1>9, IdleRequest, RowStepSettles

LEMMA AiGroupSettles ==
    ASSUME Orderly, XInv, NEW r \in Requests, AiGroup(r)
    PROVE  XInv'
<1> PICK q : q = req[r]
    OBVIOUS
<1> PICK c : c = q.case
    OBVIOUS
<1> PICK a : a = q.alert
    OBVIOUS
<1>a. PICK p : p = [q EXCEPT !.at = "aiParent"]
    OBVIOUS
<1>1. /\ q.at = "aiGroup" /\ groups' = groups \union {a}
      /\ UNCHANGED <<triageType, alerts, cases, tasks>>
    BY DEF AiGroup, Continues, Goes
<1>2. req' = [req EXCEPT ![r] = p]
    BY <1>a DEF AiGroup, Continues, Goes
<1>3. q \in Request /\ Flight(q) /\ IntakeTypeOK
    BY SettledTypes
<1>4. Ingested(q) /\ triageType = "AI" /\ Opens(tasks[c]) = {}
    BY <1>1, <1>3, FlightKinds DEF FlightIntake, IntakeAt
<1>5. p \in Request /\ p.at = "aiParent" /\ SameWork(p, q) /\ Busy(p) = Busy(q)
    BY <1>3, <1>a, AtPut DEF Steps, SameWork
<1>6. a \in Alerts /\ alerts[a].kind = "ALRT" /\ Just(a, {c}) /\ CaseIds' = CaseIds
      /\ cases[c].status = "DRAFT" /\ cases[c].group = NoAlert /\ alerts[a].case = c /\ c \in CaseIds
    BY <1>1, <1>4 DEF Ingested, CaseIds
<1>7. IntakeTypeOK'
    BY <1>1, <1>2, <1>3, <1>5, <1>6 DEF IntakeTypeOK, TasksOK
<1>8. Writes(a, {})
    BY <1>1, <1>3, <1>6, <1>7 DEF Writes, IntakeTypeOK
<1>9. NoGhost(a)'
    BY <1>1, <1>6 DEF NoGhost
<1>10. Concerns(a, {})
    BY <1>1, <1>9 DEF Concerns
<1>11. Solo(a)'
    BY <1>1, <1>6, SettledTypes DEF Solo, Just, About
<1>12. Ingested(p)'
    BY <1>1, <1>4, <1>5, IngestedStays
<1>13. FlightIntake(p)'
    BY <1>1, <1>4, <1>5, <1>12 DEF FlightIntake, SameWork
<1>14. Flight(p)'
    BY <1>5, <1>13, FlightNext DEF IntakeAt
<1>15. Torn(q) = NoAlert
    BY <1>1, NotTorn DEF Splitting
<1>16. Leaves(q, p, a, {})
    BY <1>5, <1>11, <1>14, <1>15 DEF Leaves, Minds
<1> QED
    BY <1>2, <1>5, <1>8, <1>10, <1>16, Settles

\* The AI's split begins: the alert's case becomes the parent of two others.
LEMMA AiParentSettles ==
    ASSUME Orderly, XInv, NEW r \in Requests, AiParent(r)
    PROVE  XInv'
<1> PICK q : q = req[r]
    OBVIOUS
<1> PICK c : c = q.case
    OBVIOUS
<1> PICK a : a = q.alert
    OBVIOUS
<1>a. PICK p : p = [q EXCEPT !.at = "kinCase"]
    OBVIOUS
<1>b. PICK row : row = NewCase("READY", "FRAUD_AND_AML", a)
    OBVIOUS
<1>1. q.at = "aiParent" /\ UNCHANGED <<triageType, alerts, groups, tasks>>
    BY DEF AiParent, Continues, Goes
<1>2. req' = [req EXCEPT ![r] = p] /\ cases' = [cases EXCEPT ![c] = row]
    BY <1>a, <1>b DEF AiParent, Continues, Goes
<1>3. q \in Request /\ Flight(q) /\ IntakeTypeOK
    BY SettledTypes
<1>4. Ingested(q) /\ triageType = "AI" /\ Opens(tasks[c]) = {} /\ a \in groups
    BY <1>1, <1>3, FlightKinds DEF FlightIntake, IntakeAt
<1>5. p \in Request /\ p.at = "kinCase" /\ SameWork(p, q) /\ p.kin = q.kin
    BY <1>3, <1>a, AtPut DEF Steps, SameWork
<1>6. /\ c \in CaseIds /\ a \in Alerts /\ alerts[a].kind = "ALRT" /\ alerts[a].case = c
      /\ Just(a, {c}) /\ q.kin = <<>> /\ q.home = 0
    BY <1>4 DEF Ingested
<1>7. row \in Case /\ row.group = a
    BY <1>6, <1>b DEF NewCase, Case, Origins, CaseTypes
<1>8. /\ cases' \in Seq(Case) /\ Len(cases') = Len(cases) /\ CaseIds' = CaseIds
      /\ cases'[c] = row /\ \A d \in CaseIds : d # c => cases'[d] = cases[d]
    BY <1>2, <1>3, <1>6, <1>7, RowWritten
<1>9. IntakeTypeOK'
    BY <1>1, <1>2, <1>3, <1>5, <1>8 DEF IntakeTypeOK, TasksOK
<1>10. \A b \in Alerts : About(b, c) => b = a
    BY <1>6 DEF XInv, OneSubject, About
<1>11. Writes(a, {c})
    BY <1>1, <1>7, <1>8, <1>9, <1>10, SettledTypes DEF Writes
<1>12. NoGhost(a)'
    BY <1>1, <1>4, <1>6 DEF NoGhost
<1>13. Concerns(a, {c})
    BY <1>1, <1>12 DEF Concerns
<1>14. \A d \in CaseIds : About(a, d)' => d = c
    BY <1>1, <1>6, <1>8, SettledTypes DEF Just, About
<1>15. c \in Busy(p) /\ \A d \in CaseIds : d \in Busy(q) <=> d = c
    BY <1>5, <1>6, BusyOne, SettledTypes DEF SameWork
<1>16. FlightSplit(p)'
    <2>1. Parent(p)'
        <3>1. Busy(p) = Busy(q)
            BY <1>5 DEF Busy, SameWork
        <3>2. \A b \in Alerts : About(b, c)' => b = a
            BY <1>6, <1>8, <1>11, <1>13, AboutStays
        <3>3. Own(p)'
            BY <1>5, <1>7, <1>8, <1>15, <3>1, <3>2 DEF Own, SameWork
        <3> QED
            BY <1>1, <1>4, <1>5, <1>6, <1>8, <1>14, <1>15, <3>3 DEF Parent, SameWork, Just
    <2>2. Made(c, "READY", "FRAUD_AND_AML", a)'
        BY <1>6, <1>8, <1>b DEF Made
    <2>3. Len(p.kin) = 0
        BY <1>5, <1>6
    <2> QED
        BY <1>5, <2>1, <2>2, <2>3 DEF FlightSplit, SameWork
<1>17. Flight(p)'
    BY <1>5, <1>16, FlightNext DEF SplitAt
<1>18. Torn(q) = NoAlert /\ Torn(p) = a
    BY <1>1, <1>5, NotTorn DEF Splitting, Torn, SameWork
<1>19. Minds(q, {c})
    BY <1>1, <1>15 DEF Minds
<1>20. Leaves(q, p, a, {c})
    BY <1>8, <1>15, <1>17, <1>18, <1>19 DEF Leaves
<1> QED
    BY <1>2, <1>5, <1>11, <1>13, <1>20, Settles
-----------------------------------------------------------------------------
(***************************************************************************)
(* Triage by a person.                                                     *)
(***************************************************************************)
LEMMA TriagingFacts ==
    ASSUME XInv, NEW q, NEW c, c = q.home, Triaging(q)
    PROVE  /\ c \in CaseIds /\ tasks[c] \in Seq(Task) /\ c \in Busy(q)
           /\ (q.case \in {0, c} => \A d \in CaseIds : d \in Busy(q) <=> d = c)
           /\ q.alert \in Alerts /\ About(q.alert, c) /\ alerts[q.alert].case = c
           /\ cases[c].group \in {NoAlert, q.alert}
<1>1. c \in CaseIds /\ q.kin = <<>> /\ q.alert \in Alerts /\ alerts[q.alert].case = c
    BY DEF Triaging
<1>2. About(q.alert, c)
    BY <1>1 DEF About
<1>3. cases[c].group \in {NoAlert, q.alert}
    BY <1>1, <1>2, SettledTypes DEF Case, XInv, OneSubject, About
<1>4. \A d : d \in Busy(q) <=> d = q.case \/ d = c
    BY <1>1, BusyOne
<1> QED
    BY <1>1, <1>2, <1>3, <1>4, SettledTypes

LEMMA TriagingStays ==
    ASSUME NEW q, NEW p, Triaging(q), p.home = q.home, p.kin = q.kin, p.alert = q.alert, p.type = q.type,
           UNCHANGED <<triageType, alerts>>, CaseIds' = CaseIds
    PROVE  Triaging(p) /\ Triaging(p)'
BY DEF Triaging

LEMMA InvestigateInTriage ==
    ASSUME Orderly, XInv, NEW r \in Requests, NEW q \in Request, q = req[r], NEW p \in Request,
           req' = [req EXCEPT ![r] = p], q.at = "investigate", q.arg = "inTriage", SameWork(p, q),
           p.at = "ready", p.arg = q.arg, p.type = q.type, p.task = q.task,
           AddTask(q.case, Kept("Investigate")), UNCHANGED <<triageType, alerts, groups, cases>>
    PROVE  XInv'
<1> PICK c : c = q.case
    OBVIOUS
<1>a. PICK list : list = Append(tasks[c], Kept("Investigate"))
    OBVIOUS
<1>1. Flight(q)
    BY SettledTypes
<1>2. /\ Triaging(q) /\ c = q.home /\ q.type \in OneKind /\ Drafting(c, "DRAFT")
      /\ Only(tasks[c], "Complete") /\ q.task = Len(tasks[c])
    BY <1>1, FlightKinds DEF FlightTriage
<1>3. c \in CaseIds /\ tasks[c] \in Seq(Task) /\ \A d \in CaseIds : d \in Busy(q) <=> d = c
    BY <1>2, TriagingFacts
<1>4. list \in Seq(Task) /\ OneMore(list, q.task)
    BY <1>2, <1>3, <1>a, OneMoreAppended
<1>5. tasks' = [tasks EXCEPT ![c] = list]
    BY <1>a DEF AddTask
<1>6. CaseIds' = CaseIds /\ cases'[c] = cases[c] /\ tasks'[c] = list /\ (Held(c)' <=> Held(c))
    BY <1>3, <1>4, <1>5, TaskFacts
<1>7. Triaging(p) /\ Triaging(p)'
    BY <1>2, <1>6, TriagingStays DEF SameWork
<1>8. FlightTriage(p)' /\ FlightIntake(p)'
    BY <1>2, <1>4, <1>6, <1>7 DEF FlightTriage, FlightIntake, Drafting, SameWork
<1>9. Flight(p)'
    BY <1>8, FlightNext
<1>10. Torn(q) = NoAlert /\ Torn(p) = NoAlert
    BY NotTorn DEF Splitting
<1>11. c \in Busy(p)
    BY <1>2, <1>7, TriagingFacts DEF SameWork
<1> QED
    BY <1>3, <1>4, <1>5, <1>9, <1>10, <1>11, TaskStep

LEMMA InvestigateIngested ==
    ASSUME Orderly, XInv, NEW r \in Requests, NEW q \in Request, q = req[r], NEW p \in Request,
           req' = [req EXCEPT ![r] = p], q.at = "investigate", q.arg # "inTriage", SameWork(p, q),
           p.at = "ready", p.arg = q.arg, p.type = q.type,
           AddTask(q.case, Kept("Investigate")), UNCHANGED <<triageType, alerts, groups, cases>>
    PROVE  XInv'
<1> PICK c : c = q.case
    OBVIOUS
<1>a. PICK list : list = Append(tasks[c], Kept("Investigate"))
    OBVIOUS
<1>1. Flight(q)
    BY SettledTypes
<1>2. /\ Ingested(q) /\ q.arg = "none"
      /\ \/ /\ triageType = "DISABLED" /\ cases[c].type = NoType /\ q.type = NoType
            /\ tasks[c] = <<Kept("Investigate")>>
         \/ triageType = "AI" /\ q.type \in CaseTypes /\ Opens(tasks[c]) = {}
    BY <1>1, FlightKinds DEF FlightIntake
<1>3. c \in CaseIds /\ tasks[c] \in Seq(Task)
    BY <1>2, IngestedFacts
<1>4. list \in Seq(Task) /\ (Opens(tasks[c]) = {} => Only(list, "Investigate"))
    <2>1. "Investigate" \in TaskNames
        BY DEF TaskNames
    <2> QED
        BY <1>3, <1>a, <2>1, OpensAppended
<1>5. tasks[c] = <<Kept("Investigate")>> => list = <<Kept("Investigate"), Kept("Investigate")>>
    <2> PICK x \in Task : x = Kept("Investigate")
        BY TaskRows DEF TaskNames
    <2>1. Append(<<x>>, x) = <<x, x>>
        <3>1. <<x>> \in Seq(Task) /\ Len(<<x>>) = 1
            OBVIOUS
        <3>2. Append(<<x>>, x)
              = [i \in 1..Len(<<x>>) + 1 |-> IF i = Len(<<x>>) + 1 THEN x ELSE <<x>>[i]]
            BY <3>1
        <3>3. Append(<<x>>, x) = [i \in 1..2 |-> x]
            BY <3>1, <3>2
        <3>4. <<x, x>> = [i \in 1..2 |-> x]
            OBVIOUS
        <3> QED
            BY <3>3, <3>4
    <2> QED
        BY <1>a, <2>1, Zenon
<1>6. tasks' = [tasks EXCEPT ![c] = list]
    BY <1>a DEF AddTask
<1>7. cases'[c] = cases[c] /\ tasks'[c] = list
    BY <1>3, <1>4, <1>6, TaskFacts
<1>8. Ingested(p)'
    BY <1>2, IngestedStays
<1>9. FlightTriage(p)' /\ FlightIntake(p)'
    BY <1>2, <1>4, <1>5, <1>7, <1>8 DEF FlightTriage, FlightIntake, SameWork
<1>10. Flight(p)'
    BY <1>9, FlightNext
<1>11. q.at \notin Splitting /\ p.at \notin Splitting
    BY DEF Splitting
<1> QED
    BY <1>2, <1>4, <1>6, <1>10, <1>11, IngestedTasks

LEMMA InvestigateSettles ==
    ASSUME Orderly, XInv, NEW r \in Requests, Investigate(r)
    PROVE  XInv'
<1> PICK q : q = req[r]
    OBVIOUS
<1>a. PICK p : p = [q EXCEPT !.at = "ready"]
    OBVIOUS
<1>1. /\ q.at = "investigate" /\ AddTask(q.case, Kept("Investigate"))
      /\ UNCHANGED <<triageType, alerts, groups, cases>>
    BY DEF Investigate, Continues, Goes
<1>2. req' = [req EXCEPT ![r] = p]
    BY <1>a DEF Investigate, Continues, Goes
<1>3. q \in Request
    BY SettledTypes
<1>4. /\ p \in Request /\ p.at = "ready" /\ SameWork(p, q) /\ p.arg = q.arg /\ p.type = q.type
      /\ p.task = q.task
    BY <1>3, <1>a, AtPut DEF Steps, SameWork
<1> QED
    BY <1>1, <1>2, <1>3, <1>4, InvestigateInTriage, InvestigateIngested

\* The row that updateCaseStatus leaves.
Readied(row, c, y) ==
    /\ row = WithType([cases[c] EXCEPT !.status = "READY"], y)
    /\ cases' = [cases EXCEPT ![c] = row]

LEMMA ReadyRow ==
    ASSUME IntakeTypeOK, NEW c \in CaseIds, NEW y \in Types, NEW row, Readied(row, c, y)
    PROVE  /\ cases' = [cases EXCEPT ![c] = row]
           /\ row \in Case /\ row.status = "READY" /\ row.group = cases[c].group
           /\ row.type = IF y = NoType THEN cases[c].type ELSE y
<1>1. cases[c] \in Case
    BY ListOf
<1> QED
    BY <1>1 DEF Readied, WithType, Case, Types, Origins

LEMMA ReadyInTriage ==
    ASSUME Orderly, XInv, NEW r \in Requests, NEW q \in Request, q = req[r], NEW c, c = q.case,
           NEW p \in Request, p.at = "triageCommit", SameWork(p, q), p.type = q.type, p.task = q.task,
           req' = [req EXCEPT ![r] = p], q.at = "ready", q.arg = "inTriage",
           NEW row, Readied(row, c, q.type), UNCHANGED <<triageType, alerts, groups, tasks>>
    PROVE  XInv'
<1>1. Flight(q) /\ IntakeTypeOK
    BY SettledTypes
<1>2. /\ Triaging(q) /\ c = q.home /\ q.type \in OneKind /\ Drafting(c, "DRAFT")
      /\ OneMore(tasks[c], q.task)
    BY <1>1, FlightKinds DEF FlightTriage
<1>3. /\ c \in CaseIds /\ \A d \in CaseIds : d \in Busy(q) <=> d = c
      /\ cases[c].group \in {NoAlert, q.alert} /\ alerts[q.alert].case = c
    BY <1>2, TriagingFacts
<1>4. /\ row \in Case /\ row.status = "READY" /\ row.group = cases[c].group /\ row.type \in OneKind
      /\ cases' = [cases EXCEPT ![c] = row]
    <2>1. q.type \in Types /\ q.type # NoType
        BY <1>2 DEF OneKind, Types, CaseTypes, NoType
    <2> QED
        BY <1>1, <1>2, <1>3, <2>1, ReadyRow
<1>5. p.case = c /\ p.home = q.home /\ p.kin = q.kin /\ p.alert = q.alert
    BY DEF SameWork
<1>6. CaseIds' = CaseIds /\ cases'[c] = row /\ tasks'[c] = tasks[c] /\ (Held(c)' <=> Held(c))
    BY <1>3, <1>4, RowFacts
<1>7. Triaging(p) /\ Triaging(p)'
    BY <1>2, <1>5, <1>6, TriagingStays
<1>8. FlightTriage(p)'
    BY <1>2, <1>4, <1>5, <1>6, <1>7 DEF FlightTriage, Drafting
<1>9. Flight(p)'
    BY <1>5, <1>8, FlightNext DEF TriageAt
<1>10. Torn(q) = NoAlert /\ Torn(p) = NoAlert
    BY <1>5, NotTorn DEF Splitting
<1>11. c \in Busy(p)
    BY <1>2, <1>5, <1>7, TriagingFacts
<1>12. cases[c].status # "READY"
    BY <1>2 DEF Drafting
<1>13. /\ row.group = NoAlert \/ alerts[row.group].case = c
       /\ row.type # "FRAUD_AND_AML"
    BY <1>3, <1>4 DEF OneKind
<1> QED
    BY <1>3, <1>4, <1>5, <1>9, <1>10, <1>11, <1>12, <1>13, RowStepSettles

LEMMA ReadyIngested ==
    ASSUME Orderly, XInv, NEW r \in Requests, NEW q \in Request, q = req[r], NEW c, c = q.case,
           req' = [req EXCEPT ![r] = Idle], q.at = "ready", q.arg # "inTriage",
           NEW row, Readied(row, c, q.type), UNCHANGED <<triageType, alerts, groups, tasks>>
    PROVE  XInv'
<1>1. Flight(q) /\ IntakeTypeOK
    BY SettledTypes
<1>2. /\ Ingested(q)
      /\ \/ /\ triageType = "DISABLED" /\ cases[c].type = NoType /\ q.type = NoType
            /\ tasks[c] = <<Kept("Investigate"), Kept("Investigate")>>
         \/ triageType = "AI" /\ q.type \in CaseTypes /\ Only(tasks[c], "Investigate")
    BY <1>1, FlightKinds DEF FlightIntake
<1>3. /\ c \in CaseIds /\ tasks[c] \in Seq(Task) /\ \A d \in CaseIds : d \in Busy(q) <=> d = c
      /\ cases[c].group = NoAlert /\ cases[c].status = "DRAFT"
      /\ (Untriaged(c) <=> triageType = "DISABLED") /\ (Held(c) <=> triageType # "DISABLED")
    BY <1>2, IngestedFacts
<1>4. /\ row \in Case /\ row.status = "READY" /\ row.group = cases[c].group /\ row.type = q.type
      /\ cases' = [cases EXCEPT ![c] = row]
    <2>1. q.type \in Types
        BY DEF Request, Types
    <2>2. q.type = NoType => cases[c].type = NoType
        BY <1>2 DEF NoType, CaseTypes
    <2> QED
        BY <1>1, <1>3, <2>1, <2>2, ReadyRow
<1>5. /\ cases'[c] = row /\ tasks'[c] = tasks[c] /\ (Held(c)' <=> Held(c))
      /\ (Untriaged(c)' <=> Untriaged(c))
    BY <1>3, <1>4, RowFacts
<1>6. Decided(tasks[c])
    <2>1. CASE tasks[c] = <<Kept("Investigate"), Kept("Investigate")>>
        BY <2>1 DEF Decided, Kept
    <2>2. CASE Only(tasks[c], "Investigate")
        BY <1>3, <2>2, DecidedLists
    <2> QED
        BY <1>2, <2>1, <2>2
<1>7. Handed(c)'
    <2>1. ~SplitParent(c)'
        BY <1>3, <1>4, <1>5 DEF SplitParent
    <2>2. \/ Untriaged(c)' /\ tasks[c] = <<Kept("Investigate"), Kept("Investigate")>>
          \/ Held(c)' /\ Only(tasks[c], "Investigate")
        <3>1. CASE triageType = "DISABLED"
            BY <1>2, <1>3, <1>5, <3>1
        <3>2. CASE triageType = "AI"
            BY <1>2, <1>3, <1>5, <3>2
        <3> QED
            BY <1>2, <3>1, <3>2
    <2> QED
        BY <1>4, <1>5, <1>6, <2>1, <2>2, Zenon DEF Handed
<1>8. Torn(q) = NoAlert /\ Torn(Idle) = NoAlert /\ Flight(Idle)'
    BY NotTorn, IdleRequest, FlightNext DEF Splitting
<1>9. cases[c].status # "READY" /\ row.group = NoAlert
    BY <1>3, <1>4
<1> QED
    BY <1>3, <1>4, <1>7, <1>8, <1>9, IdleRequest, RowStepSettles DEF Rest

LEMMA ReadySettles ==
    ASSUME Orderly, XInv, NEW r \in Requests, Ready(r)
    PROVE  XInv'
<1> PICK q : q = req[r]
    OBVIOUS
<1> PICK c : c = q.case
    OBVIOUS
<1>a. PICK p : p = [q EXCEPT !.at = "triageCommit"]
    OBVIOUS
<1>b. PICK row : row = WithType([cases[c] EXCEPT !.status = "READY"], q.type)
    OBVIOUS
<1>1. q.at = "ready" /\ UNCHANGED <<triageType, alerts, groups, tasks>>
    BY DEF Ready, Continues, Done, Goes
<1>2. Readied(row, c, q.type)
    BY <1>b, Zenon DEF Ready, Readied
<1>3. IF q.arg = "inTriage" THEN req' = [req EXCEPT ![r] = p] ELSE req' = [req EXCEPT ![r] = Idle]
    BY <1>a, Zenon DEF Ready, Continues, Done, Goes
<1>4. q \in Request
    BY SettledTypes
<1>5. /\ p \in Request /\ p.at = "triageCommit" /\ SameWork(p, q) /\ p.type = q.type
      /\ p.task = q.task
    BY <1>4, <1>a, AtPut DEF Steps, SameWork
<1>6. CASE q.arg = "inTriage"
    BY <1>1, <1>2, <1>3, <1>4, <1>5, <1>6, ReadyInTriage
<1>7. CASE q.arg # "inTriage"
    BY <1>1, <1>2, <1>3, <1>4, <1>7, ReadyIngested
<1> QED
    BY <1>6, <1>7

\* The alert's case is the one the triage began with: nobody else has been at it.
LEMMA TriageLockSettles ==
    ASSUME Orderly, XInv, NEW r \in Requests, TriageLock(r)
    PROVE  XInv'
<1> PICK q : q = req[r]
    OBVIOUS
<1> PICK c : c = q.home
    OBVIOUS
<1>1. q.at = "triage" /\ UNCHANGED <<triageType, rows>>
    BY DEF TriageLock, Done, Goes
<1>2. q \in Request /\ Flight(q)
    BY SettledTypes
<1>3. /\ Triaging(q) /\ Draft(c) /\ q.task = Len(tasks[c]) /\ q.case = 0 /\ q.arg \in {"close", "ready"}
    BY <1>1, <1>2, FlightKinds DEF FlightTriage, TriageAt
<1>4. /\ c \in CaseIds /\ \A d \in CaseIds : d \in Busy(q) <=> d = c
      /\ alerts[q.alert].case = c /\ c # 0 /\ c \in Nat
    BY <1>3, TriagingFacts, SettledTypes
<1>5. PICK p : /\ req' = [req EXCEPT ![r] = p]
               /\ \/ q.arg = "close" /\ p = [q EXCEPT !.at = "triageClose", !.case = c]
                  \/ /\ q.arg = "ready" /\ q.type = "FRAUD_AND_AML"
                     /\ p = [q EXCEPT !.at = "triageSplit", !.case = c]
                  \/ /\ q.arg = "ready" /\ q.type # "FRAUD_AND_AML"
                     /\ p = [q EXCEPT !.at = "investigate", !.case = c, !.arg = "inTriage"]
    <2>1. CASE q.arg = "close"
        BY <1>4, <2>1, SMTT(30) DEF TriageLock, Goes
    <2>2. CASE q.arg = "ready" /\ q.type = "FRAUD_AND_AML"
        BY <1>4, <2>2, SMTT(30) DEF TriageLock, Goes
    <2>3. CASE q.arg = "ready" /\ q.type # "FRAUD_AND_AML"
        BY <1>4, <2>3, SMTT(30) DEF TriageLock, Goes
    <2> QED
        BY <1>3, <2>1, <2>2, <2>3
<1>6. /\ p.case = c /\ p.home = c /\ p.kin = q.kin /\ p.alert = q.alert /\ p.type = q.type
      /\ p.task = q.task
      /\ \/ q.arg = "close" /\ p.at = "triageClose" /\ p.arg = q.arg
         \/ q.arg = "ready" /\ q.type = "FRAUD_AND_AML" /\ p.at = "triageSplit" /\ p.arg = q.arg
         \/ q.arg = "ready" /\ q.type # "FRAUD_AND_AML" /\ p.at = "investigate" /\ p.arg = "inTriage"
    BY <1>2, <1>5 DEF Request
<1>7. p \in Request
    <2>1. /\ "triageClose" \in Steps /\ "triageSplit" \in Steps
          /\ "investigate" \in Steps /\ "inTriage" \in Args
        BY DEF Steps, Args
    <2>2. \A x \in Steps : [q EXCEPT !.at = x, !.case = c] \in Request
        BY <1>2, <1>4, Puts, Zenon
    <2>3. [q EXCEPT !.at = "investigate", !.case = c, !.arg = "inTriage"] \in Request
        BY <1>2, <1>4, <2>1, Puts, Zenon
    <2> QED
        <3>1. CASE p = [q EXCEPT !.at = "triageClose", !.case = c]
            BY <2>1, <2>2, <3>1, Zenon
        <3>2. CASE p = [q EXCEPT !.at = "triageSplit", !.case = c]
            BY <2>1, <2>2, <3>2, Zenon
        <3>3. CASE p = [q EXCEPT !.at = "investigate", !.case = c, !.arg = "inTriage"]
            BY <2>3, <3>3, Zenon
        <3> QED
            BY <1>5, <3>1, <3>2, <3>3, Zenon
<1>8. Triaging(p)
    BY <1>3, <1>6 DEF Triaging
<1>9. Flight(p)
    <2>1. CASE p.at \in {"triageClose", "triageSplit"}
        <3>1. FlightTriage(p)
            BY <1>3, <1>6, <1>8, <2>1 DEF FlightTriage
        <3> QED
            BY <2>1, <3>1, FlightKinds DEF TriageAt
    <2>2. CASE p.at = "investigate"
        <3>1. p.type \in OneKind /\ p.arg = "inTriage"
            BY <1>3, <1>6, <2>2 DEF Triaging, CaseTypes, OneKind
        <3>2. FlightTriage(p) /\ FlightIntake(p)
            BY <1>3, <1>6, <1>8, <2>2, <3>1 DEF FlightTriage, FlightIntake, Draft, Drafting
        <3> QED
            BY <2>2, <3>2, FlightKinds
    <2> QED
        BY <1>6, <2>1, <2>2
<1>10. Torn(q) = NoAlert
    BY <1>1, NotTorn DEF Splitting
<1>11. c \in Busy(p)
    BY <1>6, <1>8, TriagingFacts
<1> QED
    BY <1>1, <1>4, <1>5, <1>7, <1>9, <1>10, <1>11, PaperStep

LEMMA TriageCloseSettles ==
    ASSUME Orderly, XInv, NEW r \in Requests, TriageClose(r)
    PROVE  XInv'
<1> PICK q : q = req[r]
    OBVIOUS
<1> PICK c : c = q.case
    OBVIOUS
<1>a. PICK p : p = [q EXCEPT !.at = "triageCommit", !.arg = "inTriage"]
    OBVIOUS
<1>1. q.at = "triageClose" /\ UNCHANGED <<triageType, alerts, groups, tasks>>
    BY DEF TriageClose, Done, Goes
<1>2. q \in Request /\ Flight(q) /\ IntakeTypeOK
    BY SettledTypes
<1>3. /\ Triaging(q) /\ c = q.home /\ Draft(c) /\ q.task = Len(tasks[c]) /\ q.arg \in {"close", "ready"}
    BY <1>1, <1>2, FlightKinds DEF FlightTriage, TriageAt
<1>4. /\ c \in CaseIds /\ \A d \in CaseIds : d \in Busy(q) <=> d = c
      /\ cases[c].group \in {NoAlert, q.alert} /\ alerts[q.alert].case = c
    BY <1>3, TriagingFacts
<1>5. req' = [req EXCEPT ![r] = p]
    <2>1. q.arg # "expired"
        BY <1>3
    <2> QED
        BY <1>a, <2>1, Zenon DEF TriageClose, Goes
<1>b. PICK s \in Origins, y \in Types : s = "CLOSED" /\ y = q.type
    BY <1>2 DEF Origins, Request, Types
<1>6. PICK row : Stamped(row, c, s, y)
    BY <1>2, <1>4, TypeSet
<1>7. /\ row \in Case /\ row.status = "CLOSED" /\ row.group = cases[c].group
      /\ cases' = [cases EXCEPT ![c] = row]
    <2>1. cases' = [cases EXCEPT ![c].status = s, ![c].type = y]
        BY <1>b, Zenon DEF TriageClose
    <2> QED
        BY <1>6, <1>b, <2>1, Zenon DEF Stamped
<1>8. p \in Request
    <2>1. "triageCommit" \in Steps /\ "inTriage" \in Args
        BY DEF Steps, Args
    <2> QED
        BY <1>2, <1>a, <2>1, Puts, Zenon
<1>9. /\ p.at = "triageCommit" /\ p.case = c /\ p.home = c /\ p.kin = q.kin /\ p.alert = q.alert
      /\ p.type = q.type /\ p.task = q.task
    BY <1>2, <1>3, <1>a DEF Request
<1>10. CaseIds' = CaseIds /\ cases'[c] = row /\ tasks'[c] = tasks[c] /\ (Held(c)' <=> Held(c))
    BY <1>1, <1>4, <1>7, RowFacts
<1>11. Triaging(p) /\ Triaging(p)'
    BY <1>1, <1>3, <1>9, <1>10, TriagingStays
<1>12. q.task \in 1..Len(tasks[c]) /\ Opens(tasks[c]) = {q.task}
    BY <1>3, <1>4, SettledTypes DEF Draft, Only
<1>13. FlightTriage(p)'
    BY <1>3, <1>7, <1>9, <1>10, <1>11, <1>12 DEF FlightTriage, Draft
<1>14. Flight(p)'
    BY <1>9, <1>13, FlightNext DEF TriageAt
<1>15. Torn(q) = NoAlert /\ Torn(p) = NoAlert
    BY <1>1, <1>9, NotTorn DEF Splitting
<1>16. c \in Busy(p)
    BY <1>9, <1>11, TriagingFacts
<1>17. /\ cases[c].status # "READY" /\ row.status # "READY"
       /\ row.group = NoAlert \/ alerts[row.group].case = c
    BY <1>3, <1>4, <1>7 DEF Draft
<1> QED
    BY <1>1, <1>4, <1>5, <1>7, <1>8, <1>14, <1>15, <1>16, <1>17, RowStepSettles

LEMMA TriageSplitSettles ==
    ASSUME Orderly, XInv, NEW r \in Requests, TriageSplit(r)
    PROVE  XInv'
<1> PICK q : q = req[r]
    OBVIOUS
<1> PICK c : c = q.case
    OBVIOUS
<1> PICK t : t = q.task
    OBVIOUS
<1>a. PICK list : list = [tasks[c] EXCEPT ![t].open = FALSE]
    OBVIOUS
<1>b. PICK mine : mine = Append(list, Kept("Investigate"))
    OBVIOUS
<1>c. PICK all : all = [tasks EXCEPT ![c] = mine]
    OBVIOUS
<1>d. PICK kin : kin = <<Finished("Complete"), Kept("Investigate")>>
    OBVIOUS
<1>1. /\ q.at = "triageSplit" /\ triageType' = triageType /\ req' = [req EXCEPT ![r] = Idle]
    BY DEF TriageSplit, Done, Goes
<1>2. q \in Request /\ Flight(q) /\ IntakeTypeOK
    BY SettledTypes
<1>3. Triaging(q) /\ c = q.home /\ Draft(c) /\ t = Len(tasks[c])
    BY <1>1, <1>2, FlightKinds DEF FlightTriage, TriageAt
<1>4. /\ c \in CaseIds /\ \A d \in CaseIds : d \in Busy(q) <=> d = c
      /\ q.alert \in Alerts /\ About(q.alert, c)
    BY <1>3, TriagingFacts
<1>5. tasks[c] \in Seq(Task) /\ Only(tasks[c], "Complete") /\ Held(c) /\ cases[c].status # "READY"
    BY <1>3, <1>4, SettledTypes DEF Draft
<1>6. list \in Seq(Task) /\ Opens(list) = {}
    BY <1>3, <1>5, <1>a, OnlyClosed
<1>7. mine \in Seq(Task) /\ Only(mine, "Investigate")
    <2>1. "Investigate" \in TaskNames
        BY DEF TaskNames
    <2> QED
        BY <1>6, <1>b, <2>1, OpensAppended
<1>8. tasks \in Seq(Seq(Task)) /\ Len(tasks) = Len(cases)
    BY <1>2 DEF IntakeTypeOK, TasksOK
<1>9. DOMAIN tasks = 1..Len(tasks) /\ c \in DOMAIN tasks
    BY <1>4, <1>8 DEF CaseIds
<1>10. all \in Seq(Seq(Task)) /\ Len(all) = Len(tasks)
    BY <1>7, <1>8, <1>c, ListPut, ZenonT(60)
<1>11. all[c] = mine /\ \A d \in CaseIds : d # c => all[d] = tasks[d]
    <2>1. all[c] = mine /\ \A d \in DOMAIN tasks : d # c => all[d] = tasks[d]
        BY <1>9, <1>c
    <2> QED
        BY <1>8, <1>9, <2>1 DEF CaseIds
<1>12. Split(r, c, q.alert, all, kin)
    <2>a. PICK mid : mid = [tasks EXCEPT ![c][t].open = FALSE]
        OBVIOUS
    <2>1. Split(r, c, q.alert, [mid EXCEPT ![c] = Append(@, Kept("Investigate"))], kin)
        BY <1>3, <1>d, <2>a, Zenon DEF TriageSplit
    <2>2. mid = [tasks EXCEPT ![c] = list]
        BY <1>a, <2>a, Zenon
    <2>3. mid[c] = list /\ DOMAIN mid = DOMAIN tasks
        BY <1>9, <2>2
    <2>4. [mid EXCEPT ![c] = Append(@, Kept("Investigate"))] = [mid EXCEPT ![c] = mine]
        BY <1>b, <2>3, Zenon
    <2>5. [mid EXCEPT ![c] = mine] = all
        BY <1>9, <1>c, <2>2
    <2> QED
        BY <2>1, <2>4, <2>5, Zenon
<1>13. kin \in Seq(Task) /\ Only(kin, "Investigate")
    BY <1>d, KinLists
<1>14. Torn(q) = NoAlert
    BY <1>1, NotTorn DEF Splitting
<1>15. c \in Busy(q) /\ \A d \in CaseIds : d \in Busy(q) => d = c
    BY <1>4
<1>16. Len(all) = Len(cases)
    BY <1>8, <1>10
<1> QED
    BY <1>1, <1>4, <1>5, <1>7, <1>10, <1>11, <1>12, <1>13, <1>14, <1>15, <1>16, IdleRequest,
       CaseSplit, ZenonT(60)

LEMMA TriageCommitSettles ==
    ASSUME Orderly, XInv, NEW r \in Requests, TriageCommit(r)
    PROVE  XInv'
<1> PICK q : q = req[r]
    OBVIOUS
<1> PICK c : c = q.home
    OBVIOUS
<1> PICK t : t = q.task
    OBVIOUS
<1>a. PICK list : list = [tasks[c] EXCEPT ![t].open = FALSE]
    OBVIOUS
<1>1. /\ q.at = "triageCommit" /\ req' = [req EXCEPT ![r] = Idle]
      /\ UNCHANGED <<triageType, alerts, groups, cases>>
    BY DEF TriageCommit, Done, Goes
<1>2. tasks' = [tasks EXCEPT ![c] = list]
    BY <1>a, Zenon DEF TriageCommit
<1>3. q \in Request /\ Flight(q)
    BY SettledTypes
<1>4. /\ Triaging(q) /\ q.case = c /\ Held(c)
      /\ \/ cases[c].status = "READY" /\ cases[c].type \in OneKind /\ OneMore(tasks[c], t)
         \/ cases[c].status = "CLOSED" /\ t \in 1..Len(tasks[c]) /\ Opens(tasks[c]) = {t}
    BY <1>1, <1>3, FlightKinds DEF FlightTriage, TriageAt
<1>5. /\ c \in CaseIds /\ tasks[c] \in Seq(Task) /\ \A d \in CaseIds : d \in Busy(q) <=> d = c
    BY <1>4, TriagingFacts
<1>6. /\ list \in Seq(Task)
      /\ OneMore(tasks[c], t) => Only(list, "Investigate") /\ Decided(list)
      /\ ~OneMore(tasks[c], t) => Opens(list) = {}
    <2>1. CASE OneMore(tasks[c], t)
        <3>1. list \in Seq(Task) /\ Only(list, "Investigate")
            BY <1>5, <1>a, <2>1, OneMoreClosed
        <3> QED
            BY <2>1, <3>1, DecidedLists
    <2>2. CASE ~OneMore(tasks[c], t)
        <3>1. t \in 1..Len(tasks[c]) /\ Opens(tasks[c]) = {t}
            BY <1>4, <2>2
        <3>2. list \in Seq(Task) /\ Opens(list) = Opens(tasks[c]) \ {t}
            BY <1>5, <1>a, <3>1, ListClosed, SMTT(30)
        <3> QED
            BY <2>2, <3>1, <3>2
    <2> QED
        BY <2>1, <2>2
<1>7. cases'[c] = cases[c] /\ tasks'[c] = list /\ (Held(c)' <=> Held(c))
    BY <1>1, <1>2, <1>5, <1>6, TaskFacts, ZenonT(60)
<1>8. Rest(c)'
    <2>1. CASE OneMore(tasks[c], t)
        <3>1. cases[c].status = "READY" /\ cases[c].type \in OneKind
            <4>1. cases[c].status = "CLOSED" => FALSE
                BY <1>4, <2>1, SMTT(30) DEF OneMore
            <4> QED
                BY <1>4, <4>1
        <3>2. Handed(c)'
            BY <1>4, <1>6, <1>7, <2>1, <3>1 DEF Handed, SplitParent, OneKind
        <3> QED
            BY <3>2 DEF Rest
    <2>2. CASE ~OneMore(tasks[c], t)
        BY <1>4, <1>6, <1>7, <2>2 DEF Rest, Over
    <2> QED
        BY <2>1, <2>2
<1>9. Torn(q) = NoAlert /\ Torn(Idle) = NoAlert /\ Flight(Idle)'
    BY <1>1, NotTorn, IdleRequest, FlightNext DEF Splitting
<1> QED
    BY <1>1, <1>2, <1>5, <1>6, <1>8, <1>9, IdleRequest, TaskStep
-----------------------------------------------------------------------------
(***************************************************************************)
(* The AI's split, several transactions of one request.                    *)
(***************************************************************************)
\* The cases a request works on, when they are up to three.
LEMMA KinCases ==
    ASSUME NEW q, Parent(q)
    PROVE  /\ q.kin = <<>> => Len(q.kin) = 0 /\ \A c : c \in Busy(q) <=> c = q.case \/ c = 0
           /\ \A k : q.kin = <<k>> =>
                 Len(q.kin) = 1 /\ q.kin[1] = k /\ \A c : c \in Busy(q) <=> c = q.case \/ c = 0 \/ c = k
           /\ \A k, m : q.kin = <<k, m>> =>
                 /\ Len(q.kin) = 2 /\ q.kin[1] = k /\ q.kin[2] = m
                 /\ \A c : c \in Busy(q) <=> c = q.case \/ c = 0 \/ c = k \/ c = m
<1>1. q.home = 0
    BY DEF Parent
<1>2. q.kin = <<>> => Len(q.kin) = 0 /\ \A c : c \in Busy(q) <=> c = q.case \/ c = 0
    BY <1>1, BusyOne
<1>3. ASSUME NEW k, q.kin = <<k>>
      PROVE  Len(q.kin) = 1 /\ q.kin[1] = k /\ \A c : c \in Busy(q) <=> c = q.case \/ c = 0 \/ c = k
    <2>1. Len(q.kin) = 1 /\ q.kin[1] = k
        BY <1>3
    <2> QED
        BY <1>1, <2>1, BusyTwo
<1>4. ASSUME NEW k, NEW m, q.kin = <<k, m>>
      PROVE  /\ Len(q.kin) = 2 /\ q.kin[1] = k /\ q.kin[2] = m
             /\ \A c : c \in Busy(q) <=> c = q.case \/ c = 0 \/ c = k \/ c = m
    <2>1. Len(q.kin) = 2 /\ q.kin[1] = k /\ q.kin[2] = m
        BY <1>4
    <2>2. \A i : i \in 1..Len(q.kin) <=> i = 1 \/ i = 2
        BY <2>1
    <2> QED
        BY <1>1, <2>1, <2>2 DEF Busy
<1> QED
    BY <1>2, <1>3, <1>4

\* Which they are.
LEMMA ParentFacts ==
    ASSUME XInv, NEW q, NEW c, c = q.case, NEW a, a = q.alert, Parent(q)
    PROVE  /\ c \in CaseIds /\ c \in Busy(q) /\ a \in Alerts /\ a # NoAlert
           /\ alerts[a].case = c /\ alerts[a].kind = "ALRT" /\ a \in groups /\ triageType = "AI"
           /\ Opens(tasks[c]) = {} /\ Just(a, Busy(q)) /\ Own(q) /\ q.home = 0
           /\ \A i \in 1..Len(q.kin) : q.kin[i] \in CaseIds /\ q.kin[i] # c /\ q.kin[i] \in Busy(q)
           /\ Len(q.kin) \in {0, 1, 2}
           /\ Len(q.kin) = 2 => q.kin[1] # q.kin[2]
<1>1. /\ c \in CaseIds /\ a \in Alerts /\ alerts[a].case = c /\ alerts[a].kind = "ALRT" /\ a \in groups
      /\ triageType = "AI" /\ Opens(tasks[c]) = {} /\ Just(a, Busy(q)) /\ Own(q) /\ q.home = 0
    BY DEF Parent
<1>2. c \in Busy(q) /\ \A i \in 1..Len(q.kin) : q.kin[i] \in Busy(q)
    BY DEF Busy
<1>3. /\ \A i \in 1..Len(q.kin) : q.kin[i] \in CaseIds /\ q.kin[i] # c
      /\ Len(q.kin) \in {0, 1, 2}
      /\ Len(q.kin) = 2 => q.kin[1] # q.kin[2]
    <2>1. CASE q.kin = <<>>
        <3>1. Len(q.kin) = 0
            BY <2>1
        <3> QED
            BY <3>1
    <2>2. ASSUME NEW k \in CaseIds \ {q.case}, q.kin = <<k>>
          PROVE  <1>3!1 /\ <1>3!2 /\ <1>3!3
        <3>1. Len(q.kin) = 1 /\ q.kin[1] = k
            BY <2>2
        <3> QED
            BY <3>1
    <2>3. ASSUME NEW k \in CaseIds \ {q.case}, NEW m \in CaseIds \ {q.case, k}, q.kin = <<k, m>>
          PROVE  <1>3!1 /\ <1>3!2 /\ <1>3!3
        <3>1. Len(q.kin) = 2 /\ q.kin[1] = k /\ q.kin[2] = m
            BY <2>3
        <3>2. \A i \in 1..Len(q.kin) : i = 1 \/ i = 2
            BY <3>1
        <3> QED
            BY <3>1, <3>2
    <2> QED
        BY <2>1, <2>2, <2>3 DEF Parent
<1> QED
    BY <1>1, <1>2, <1>3, SettledTypes

\* The AML case was made just after the FRAUD one.
LEMMA KinTwo ==
    ASSUME NEW q, Parent(q), Len(q.kin) = 2
    PROVE  \E k \in CaseIds : \E m \in CaseIds : q.kin = <<k, m>> /\ m = k + 1
<1>1. Len(<<>>) = 0 /\ \A k : Len(<<k>>) = 1
    OBVIOUS
<1>2. q.kin # <<>> /\ \A k : q.kin # <<k>>
    BY <1>1
<1> QED
    BY <1>2 DEF Parent

\* One of its cases is written, its row or its tasks.
KinWrite(q, c, row, list) ==
    /\ c \in CaseIds /\ c \in Busy(q) /\ row \in Case /\ row.group \in {NoAlert, q.alert}
    /\ list \in Seq(Task) /\ Rewrites(c, row, list)

LEMMA KinWritten ==
    ASSUME XInv, NEW q, Parent(q), NEW c, NEW row, NEW list, KinWrite(q, c, row, list)
    PROVE  /\ UNCHANGED <<triageType, alerts, groups>> /\ CaseIds' = CaseIds
           /\ cases'[c] = row /\ tasks'[c] = list
           /\ \A d \in CaseIds : d # c => cases'[d] = cases[d] /\ tasks'[d] = tasks[d]
           /\ cases' \in Seq(Case) /\ Len(cases') = Len(cases) /\ TasksOK'
<1>1. /\ cases' \in Seq(Case) /\ Len(cases') = Len(cases) /\ CaseIds' = CaseIds
      /\ cases'[c] = row /\ \A d \in CaseIds : d # c => cases'[d] = cases[d]
    BY RowWritten DEF KinWrite, Rewrites, XInv
<1>2. /\ tasks' \in Seq(Seq(Task)) /\ Len(tasks') = Len(cases)
      /\ tasks'[c] = list /\ \A d \in CaseIds : d # c => tasks'[d] = tasks[d]
    BY ListWritten DEF KinWrite, Rewrites, XInv
<1>3. UNCHANGED <<triageType, alerts, groups>>
    BY DEF KinWrite, Rewrites
<1> QED
    BY <1>1, <1>2, <1>3 DEF TasksOK

LEMMA KinStep ==
    ASSUME Orderly, XInv, NEW r \in Requests, NEW q, q = req[r], Parent(q), Torn(q) = q.alert,
           NEW p \in Request, req' = [req EXCEPT ![r] = p],
           NEW c, NEW row, NEW list, KinWrite(q, c, row, list),
           \A d \in CaseIds : d \in Busy(q) => d \in Busy(p) \/ Rest(d)',
           q.at \in {"undo", "dropGroup"} => \A d \in CaseIds : d \in Busy(q) /\ Left(d) => Left(d)',
           q.alert = Torn(p) \/ Solo(q.alert)' \/ Pair(q.alert)', Flight(p)'
    PROVE  XInv'
<1> PICK a \in Alerts : a = q.alert
    BY ParentFacts
<1>0. PICK M : \A d : d \in M <=> d \in CaseIds /\ d \in Busy(q)
    <2>1. \A d : d \in CaseIds \cap Busy(q) <=> d \in CaseIds /\ d \in Busy(q)
        OBVIOUS
    <2> QED
        BY <2>1
<1>1. /\ UNCHANGED <<triageType, alerts, groups>> /\ CaseIds' = CaseIds
      /\ cases'[c] = row /\ tasks'[c] = list
      /\ \A d \in CaseIds : d # c => cases'[d] = cases[d] /\ tasks'[d] = tasks[d]
      /\ cases' \in Seq(Case) /\ Len(cases') = Len(cases) /\ TasksOK'
    BY KinWritten
<1>2. c \in M /\ row.group \in {NoAlert, a}
    BY <1>0 DEF KinWrite
<1>3. Own(q) /\ a \in groups /\ alerts[a].kind = "ALRT" /\ a # NoAlert
    BY ParentFacts
<1>4. IntakeTypeOK'
    BY <1>1 DEF XInv, IntakeTypeOK
<1>5. Writes(a, M)
    <2>1. \A d \in CaseIds' : d \in M => cases'[d].group \in {NoAlert, a}
        BY <1>0, <1>1, <1>2, <1>3 DEF Own
    <2>2. \A d \in CaseIds : d \in M => \A b \in Alerts : About(b, d) => b = a
        BY <1>0, <1>3 DEF Own
    <2>3. \A d \in CaseIds : d \notin M => cases'[d] = cases[d] /\ tasks'[d] = tasks[d]
        BY <1>1, <1>2
    <2> QED
        BY <1>1, <1>4, <2>1, <2>2, <2>3, SettledTypes DEF Writes
<1>6. NoGhost(a)'
    BY <1>1, <1>3 DEF NoGhost
<1>7. Concerns(a, M)
    BY <1>1, <1>6 DEF Concerns
<1>8. Leaves(q, p, a, M)
    BY <1>0, <1>1 DEF Leaves, Minds
<1> QED
    BY <1>5, <1>7, <1>8, Settles

LEMMA ParentKept ==
    ASSUME XInv, NEW q, Parent(q), NEW p, SameWork(p, q),
           NEW c, NEW row, NEW list, KinWrite(q, c, row, list), c = q.case => Opens(list) = {}
    PROVE  Parent(p)' /\ Busy(p) = Busy(q)
<1>1. /\ UNCHANGED <<triageType, alerts, groups>> /\ CaseIds' = CaseIds /\ Len(cases') = Len(cases)
      /\ cases'[c] = row /\ tasks'[c] = list
      /\ \A d \in CaseIds : d # c => cases'[d] = cases[d] /\ tasks'[d] = tasks[d]
    BY KinWritten
<1>2. Busy(p) = Busy(q)
    BY DEF SameWork, Busy
<1>3. c \in CaseIds /\ c \in Busy(q) /\ row.group \in {NoAlert, q.alert}
    BY DEF KinWrite
<1>4. q.alert \in Alerts /\ q.case \in CaseIds /\ Just(q.alert, Busy(q)) /\ Own(q)
      /\ Opens(tasks[q.case]) = {}
    BY ParentFacts
<1>5. ASSUME NEW b \in Alerts, NEW d \in CaseIds, About(b, d)'
      PROVE  About(b, d) \/ (d = c /\ b = q.alert)
    BY <1>1, <1>3, <1>5, SettledTypes DEF About
<1>6. Just(p.alert, Busy(p))'
    BY <1>1, <1>2, <1>3, <1>4, <1>5 DEF Just, SameWork
<1>7. Own(p)'
    <2>1. ASSUME NEW d \in CaseIds, d \in Busy(q)
          PROVE  cases'[d].group \in {NoAlert, q.alert} /\ \A b \in Alerts : About(b, d)' => b = q.alert
        BY <1>1, <1>3, <1>4, <1>5, <2>1 DEF Own
    <2> QED
        BY <1>1, <1>2, <2>1 DEF Own, SameWork
<1>8. Opens(tasks'[q.case]) = {}
    BY <1>1, <1>4
<1>9. /\ p.home = 0 /\ p.alert \in Alerts /\ triageType' = "AI" /\ alerts'[p.alert].kind = "ALRT"
      /\ p.case \in CaseIds' /\ alerts'[p.alert].case = p.case /\ Opens(tasks'[p.case]) = {}
      /\ p.alert \in groups'
    BY <1>1, <1>8 DEF Parent, SameWork
<1>10. \/ p.kin = <<>>
       \/ \E k \in CaseIds' \ {p.case} : p.kin = <<k>> /\ k = Len(cases')
       \/ \E k \in CaseIds' \ {p.case} : \E m \in CaseIds' \ {p.case, k} : p.kin = <<k, m>> /\ m = k + 1
    BY <1>1 DEF Parent, SameWork
<1> QED
    BY <1>2, <1>6, <1>7, <1>9, <1>10 DEF Parent

\* A row and a list that a step leaves.
LEMMA KinRow ==
    ASSUME XInv, NEW q, Parent(q), NEW c \in CaseIds, c \in Busy(q)
    PROVE  /\ \A list \in Seq(Task) :
                 tasks' = [tasks EXCEPT ![c] = list] /\ UNCHANGED <<triageType, alerts, groups, cases>>
                 => KinWrite(q, c, cases[c], list)
           /\ \A row \in Case :
                 /\ row.group \in {NoAlert, q.alert}
                 /\ cases' = [cases EXCEPT ![c] = row] /\ UNCHANGED <<triageType, alerts, groups, tasks>>
                 => KinWrite(q, c, row, tasks[c])
<1>1. cases[c] \in Case /\ tasks[c] \in Seq(Task)
    BY SettledTypes
<1>2. cases[c].group \in {NoAlert, q.alert}
    BY ParentFacts DEF Own
<1>3. IntakeTypeOK
    BY DEF XInv
<1>4. ASSUME NEW list \in Seq(Task), tasks' = [tasks EXCEPT ![c] = list],
             UNCHANGED <<triageType, alerts, groups, cases>>
      PROVE  KinWrite(q, c, cases[c], list)
    BY <1>1, <1>2, <1>3, <1>4, TasksRewritten DEF KinWrite
<1>5. ASSUME NEW row \in Case, row.group \in {NoAlert, q.alert},
             cases' = [cases EXCEPT ![c] = row], UNCHANGED <<triageType, alerts, groups, tasks>>
      PROVE  KinWrite(q, c, row, tasks[c])
    BY <1>1, <1>3, <1>5, RowRewritten DEF KinWrite
<1> QED
    BY <1>4, <1>5

LEMMA KinFinishedSettles ==
    ASSUME Orderly, XInv, NEW r \in Requests, KinFinished(r)
    PROVE  XInv'
<1> PICK q : q = req[r]
    OBVIOUS
<1> PICK n : n = Len(q.kin)
    OBVIOUS
<1> PICK k : k = q.kin[n]
    OBVIOUS
<1>a. PICK p : p = [q EXCEPT !.at = "kinTask"]
    OBVIOUS
<1>b. PICK list : list = <<Finished("Complete")>>
    OBVIOUS
<1>1. /\ q.at = "kinFinished" /\ AddTask(k, Finished("Complete"))
      /\ UNCHANGED <<triageType, alerts, groups, cases>>
    BY DEF KinFinished, Continues, Goes
<1>2. req' = [req EXCEPT ![r] = p]
    BY <1>a DEF KinFinished, Continues, Goes
<1>3. q \in Request /\ Flight(q)
    BY SettledTypes
<1>4. /\ Parent(q) /\ Made(q.case, "READY", "FRAUD_AND_AML", q.alert) /\ n # 0
      /\ n = 1 => FraudCase(q, q.kin[1]) /\ tasks[q.kin[1]] = <<>>
      /\ n = 2 => FraudDone(q) /\ AmlCase(q, q.kin[2]) /\ tasks[q.kin[2]] = <<>>
    BY <1>1, <1>3, FlightKinds DEF FlightSplit, SplitAt
<1>5. /\ n \in {1, 2} /\ k \in CaseIds /\ k # q.case /\ k \in Busy(q)
      /\ n = 2 => q.kin[1] # k
    BY <1>4, ParentFacts
<1>6. /\ p \in Request /\ p.at = "kinTask" /\ SameWork(p, q) /\ p.kin = q.kin /\ p.case = q.case
      /\ p.alert = q.alert
    BY <1>3, <1>a, AtPut DEF Steps, SameWork
<1>7. tasks[k] = <<>> /\ list = Append(<<>>, Finished("Complete")) /\ list \in Seq(Task)
    <2>1. tasks[k] = <<>>
        BY <1>4, <1>5
    <2>2. Finished("Complete") \in Task
        BY TaskRows DEF TaskNames
    <2>3. list = Append(<<>>, Finished("Complete")) /\ list \in Seq(Task)
        BY <1>b, <2>2
    <2> QED
        BY <2>1, <2>3
<1>8. tasks' = [tasks EXCEPT ![k] = list]
    BY <1>1, <1>7 DEF AddTask
<1>9. KinWrite(q, k, cases[k], list)
    BY <1>1, <1>4, <1>5, <1>7, <1>8, KinRow
<1>10. /\ CaseIds' = CaseIds /\ tasks'[k] = list
       /\ \A d \in CaseIds : d # k => tasks'[d] = tasks[d]
    BY <1>4, <1>9, KinWritten
<1>11. Parent(p)' /\ Busy(p) = Busy(q)
    BY <1>4, <1>5, <1>6, <1>9, ParentKept
<1>12. FlightSplit(p)'
    <2>1. Made(q.case, "READY", "FRAUD_AND_AML", q.alert)'
        BY <1>1, <1>4, <1>10 DEF Made
    <2>2. n = 1 => FraudCase(p, q.kin[1])' /\ tasks'[q.kin[1]] = list
        BY <1>1, <1>4, <1>5, <1>6, <1>10 DEF FraudCase, Made
    <2>3. n = 2 => FraudDone(p)' /\ AmlCase(p, q.kin[2])' /\ tasks'[q.kin[2]] = list
        BY <1>1, <1>4, <1>5, <1>6, <1>10 DEF FraudDone, FraudCase, AmlCase, Made
    <2> QED
        BY <1>4, <1>6, <1>11, <1>b, <2>1, <2>2, <2>3 DEF FlightSplit
<1>13. Flight(p)'
    BY <1>6, <1>12, FlightNext DEF SplitAt
<1>14. Torn(q) = q.alert /\ Torn(p) = q.alert
    BY <1>1, <1>6 DEF Torn, Splitting
<1>15. q.at \notin {"undo", "dropGroup"}
    BY <1>1
<1> QED
    BY <1>2, <1>4, <1>6, <1>9, <1>11, <1>13, <1>14, <1>15, KinStep

\* Its investigation follows: the FRAUD case is there, or both are.
LEMMA KinTaskSettles ==
    ASSUME Orderly, XInv, NEW r \in Requests, KinTask(r)
    PROVE  XInv'
<1> PICK q : q = req[r]
    OBVIOUS
<1> PICK n : n = Len(q.kin)
    OBVIOUS
<1> PICK k : k = q.kin[n]
    OBVIOUS
<1> PICK a : a = q.alert
    OBVIOUS
<1>a. PICK p : p = [q EXCEPT !.at = "kinCase"]
    OBVIOUS
<1>b. PICK list : list = Append(<<Finished("Complete")>>, Kept("Investigate"))
    OBVIOUS
<1>1. /\ q.at = "kinTask" /\ AddTask(k, Kept("Investigate"))
      /\ UNCHANGED <<triageType, alerts, groups, cases>>
    BY DEF KinTask, Continues, Done, Goes
<1>2. IF n = 1 THEN req' = [req EXCEPT ![r] = p] ELSE req' = [req EXCEPT ![r] = Idle]
    BY <1>a DEF KinTask, Continues, Done, Goes
<1>3. q \in Request /\ Flight(q)
    BY SettledTypes
<1>4. /\ Parent(q) /\ Made(q.case, "READY", "FRAUD_AND_AML", a) /\ n # 0
      /\ n = 1 => FraudCase(q, q.kin[1]) /\ tasks[q.kin[1]] = <<Finished("Complete")>>
      /\ n = 2 => FraudDone(q) /\ AmlCase(q, q.kin[2]) /\ tasks[q.kin[2]] = <<Finished("Complete")>>
    BY <1>1, <1>3, FlightKinds DEF FlightSplit, SplitAt
<1>5. /\ n \in {1, 2} /\ k \in CaseIds /\ k # q.case /\ k \in Busy(q)
      /\ n = 2 => q.kin[1] # k /\ q.kin[1] \in CaseIds /\ q.kin[1] # q.case
    BY <1>4, ParentFacts
<1>6. /\ p \in Request /\ p.at = "kinCase" /\ SameWork(p, q) /\ p.kin = q.kin /\ p.case = q.case
      /\ p.alert = a
    BY <1>3, <1>a, AtPut DEF Steps, SameWork
<1>7. list \in Seq(Task) /\ Only(list, "Investigate") /\ Decided(list)
    <2>1. <<Finished("Complete")>> \in Seq(Task) /\ Opens(<<Finished("Complete")>>) = {}
        <3>1. Finished("Complete") \in Task
            BY TaskRows DEF TaskNames
        <3> QED
            BY <3>1, NothingOpen
    <2>2. "Investigate" \in TaskNames
        BY DEF TaskNames
    <2>3. list \in Seq(Task) /\ Only(list, "Investigate")
        BY <1>b, <2>1, <2>2, OpensAppended
    <2> QED
        BY <2>3, DecidedLists
<1>8. tasks' = [tasks EXCEPT ![k] = list]
    <2>1. tasks[k] = <<Finished("Complete")>>
        BY <1>4, <1>5
    <2> QED
        BY <1>1, <1>b, <2>1 DEF AddTask
<1>9. KinWrite(q, k, cases[k], list)
    BY <1>1, <1>4, <1>5, <1>7, <1>8, KinRow
<1>10. /\ CaseIds' = CaseIds /\ tasks'[k] = list
       /\ \A d \in CaseIds : d # k => tasks'[d] = tasks[d]
    BY <1>4, <1>9, KinWritten
<1>11. Parent(p)' /\ Busy(p) = Busy(q)
    BY <1>4, <1>5, <1>6, <1>9, ParentKept
<1>12. Torn(q) = a /\ q.at \notin {"undo", "dropGroup"}
    BY <1>1 DEF Torn, Splitting
<1>13. CASE n = 1
    <2>1. FlightSplit(p)'
        <3>1. Made(q.case, "READY", "FRAUD_AND_AML", a)'
            BY <1>1, <1>4, <1>10 DEF Made
        <3>2. FraudDone(p)'
            BY <1>1, <1>4, <1>6, <1>7, <1>10, <1>13 DEF FraudDone, FraudCase, Made
        <3> QED
            BY <1>6, <1>11, <1>13, <3>1, <3>2 DEF FlightSplit
    <2>2. Flight(p)'
        BY <1>6, <2>1, FlightNext DEF SplitAt
    <2>3. Torn(p) = a
        BY <1>6 DEF Torn, Splitting
    <2> QED
        BY <1>2, <1>4, <1>6, <1>9, <1>11, <1>12, <1>13, <2>2, <2>3, KinStep
<1>14. CASE n = 2
    <2> PICK f : f = q.kin[1]
        OBVIOUS
    <2> PICK c : c = q.case
        OBVIOUS
    <2>1. /\ FraudCase(q, f) /\ Only(tasks[f], "Investigate") /\ AmlCase(q, k)
          /\ f \in CaseIds /\ f # k /\ f # c /\ k # c
        BY <1>4, <1>5, <1>14 DEF FraudDone
    <2>2. /\ cases'[c].status = "READY" /\ cases'[c].type = "FRAUD_AND_AML" /\ cases'[c].group = a
          /\ cases'[f].status = "READY" /\ cases'[f].type = "FRAUD" /\ cases'[f].group = a
          /\ cases'[k].status = "READY" /\ cases'[k].type = "AML" /\ cases'[k].group = a
        BY <1>1, <1>4, <2>1 DEF FraudCase, AmlCase, Made, NewCase
    <2>3. /\ c \in CaseIds /\ a \in Alerts /\ alerts[a].case = c /\ triageType = "AI"
          /\ Opens(tasks[c]) = {} /\ Just(a, Busy(q)) /\ q.home = 0
        BY <1>4, ParentFacts, SMTT(30)
    <2>4. \A d \in CaseIds : d # 0
        BY SettledTypes
    <2>5. \A d \in CaseIds : d \in Busy(q) => d = c \/ d = f \/ d = k
        <3>1. \A i \in 1..n : q.kin[i] = f \/ q.kin[i] = k
            BY <1>14
        <3>2. \A d : d \in Busy(q) => d = c \/ d = q.home \/ \E i \in 1..n : d = q.kin[i]
            BY DEF Busy
        <3> QED
            BY <2>3, <2>4, <3>1, <3>2
    <2>6. \A d \in {c, f, k} : Alive(d)' /\ ~Untriaged(d)' /\ Held(d)'
        BY <1>1, <2>2, <2>3, SMTT(30) DEF Alive, Untriaged, Held, About
    <2>7. tasks'[f] = tasks[f] /\ tasks'[c] = tasks[c] /\ tasks'[k] = list
        BY <1>10, <2>1, <2>3
    <2>8. Decided(tasks[c]) /\ Decided(tasks[f])
        BY <2>1, <2>3, SettledTypes, DecidedLists, SMTT(30)
    <2>9. Handed(c)' /\ Handed(f)' /\ Handed(k)'
        <3>1. SplitParent(c)' /\ ~SplitParent(f)' /\ ~SplitParent(k)'
            BY <1>4, <2>2, ParentFacts DEF SplitParent
        <3> QED
            BY <1>7, <2>1, <2>2, <2>6, <2>7, <2>8, <3>1, Zenon DEF Handed
    <2>10. Pair(a)'
        <3>1. \A d \in CaseIds : About(a, d)' => d = c \/ d = f \/ d = k
            BY <1>1, <2>3, <2>5, <2>4 DEF Just, About
        <3>2. alerts'[a].case = c
            BY <1>1, <2>3
        <3>3. IsPair(a, f, k)'
            BY <1>10, <2>1, <2>2, <3>1, <3>2 DEF IsPair
        <3> QED
            BY <1>5, <1>10, <2>1, <3>3 DEF Pair
    <2>11. Flight(Idle)'
        BY FlightNext
    <2>12. req' = [req EXCEPT ![r] = Idle]
        BY <1>2, <1>14
    <2> QED
        BY <1>4, <1>9, <1>12, <2>5, <2>9, <2>10, <2>11, <2>12, IdleRequest, KinStep DEF Rest
<1> QED
    BY <1>5, <1>13, <1>14

LEMMA AmlThrowsSettles ==
    ASSUME Orderly, XInv, NEW r \in Requests, AmlThrows(r)
    PROVE  XInv'
<1> PICK q : q = req[r]
    OBVIOUS
<1> PICK f : f = q.kin[1]
    OBVIOUS
<1>a. PICK p : p = [q EXCEPT !.at = "undo", !.todo = {q.case, f}]
    OBVIOUS
<1>1. /\ q.at \in {"kinCase", "kinFinished", "kinTask"} /\ q.kin # <<>>
      /\ q.at # "kinCase" => Len(q.kin) = 2
      /\ UNCHANGED <<triageType, rows>>
    BY DEF AmlThrows, Goes
<1>2. req' = [req EXCEPT ![r] = p]
    BY <1>a DEF AmlThrows, Goes
<1>3. q \in Request /\ Flight(q)
    BY SettledTypes
<1>4. /\ Parent(q) /\ Made(q.case, "READY", "FRAUD_AND_AML", q.alert)
      /\ q.at = "kinCase" => Len(q.kin) # 2 /\ (Len(q.kin) = 1 => FraudDone(q))
      /\ q.at # "kinCase" => /\ FraudDone(q) /\ AmlCase(q, q.kin[2])
                             /\ tasks[q.kin[2]] \in {<<>>, <<Finished("Complete")>>}
    BY <1>1, <1>3, FlightKinds DEF FlightSplit, SplitAt
<1>5. Len(q.kin) # 0
    <2>1. q.kin \in Seq(Nat)
        BY <1>3 DEF Request
    <2> QED
        BY <1>1, <2>1
<1>6. q.case \in CaseIds /\ f \in CaseIds /\ Len(q.kin) \in {1, 2} /\ f \in Nat /\ q.case \in Nat
    BY <1>4, <1>5, ParentFacts, SettledTypes
<1>7. FraudDone(q)
    BY <1>1, <1>4, <1>6
<1>8. Decided(tasks[f])
    BY <1>6, <1>7, SettledTypes, DecidedLists DEF FraudDone
<1>9. HalfDone(q)
    BY <1>1, <1>4, <1>7, NothingOpen DEF HalfDone, FraudDone
<1>10. p \in Request
    <2>1. {q.case, f} \in SUBSET Nat /\ "undo" \in Steps
        BY <1>6 DEF Steps
    <2> QED
        BY <1>3, <1>a, <2>1, ZenonT(60) DEF Request
<1>11. p.at = "undo" /\ SameWork(p, q) /\ p.todo = {q.case, f}
    BY <1>3, <1>a DEF Request, SameWork
<1>12. Parent(p) /\ Busy(p) = Busy(q)
    <2>1. Busy(p) = Busy(q)
        BY <1>11 DEF Busy, SameWork
    <2> QED
        BY <1>4, <1>11, <2>1 DEF Parent, SameWork, Own
<1>13. FlightSplit(p)
    BY <1>4, <1>5, <1>8, <1>9, <1>11, <1>12 DEF FlightSplit, HalfDone, AmlCase, SameWork
<1>14. Flight(p)
    BY <1>11, <1>13, FlightKinds DEF SplitAt
<1>15. Torn(q) = Torn(p)
    BY <1>1, <1>11 DEF Torn, Splitting, SameWork
<1> QED
    BY <1>1, <1>2, <1>10, <1>12, <1>14, <1>15, PaperStep

\* The FRAUD case of the split, and then the AML one.
LEMMA KinCaseSettles ==
    ASSUME Orderly, XInv, NEW r \in Requests, KinCase(r)
    PROVE  XInv'
<1> PICK q : q = req[r]
    OBVIOUS
<1> PICK a : a = q.alert
    OBVIOUS
<1> PICK n : n = Len(cases) + 1
    OBVIOUS
<1>a. PICK new : new = NewCase("READY", IF q.kin = <<>> THEN "FRAUD" ELSE "AML", a)
    OBVIOUS
<1>b. PICK p : p = [q EXCEPT !.at = "kinFinished", !.kin = Append(@, n)]
    OBVIOUS
<1>1. q.at = "kinCase" /\ UNCHANGED <<triageType, alerts, groups>>
    BY DEF KinCase, Goes
<1>2. AddCase(new, <<>>) /\ req' = [req EXCEPT ![r] = p]
    BY <1>a, <1>b, Zenon DEF KinCase, Goes
<1>3. q \in Request /\ Flight(q) /\ IntakeTypeOK /\ <<>> \in Seq(Task)
    BY SettledTypes
<1>4. /\ Parent(q) /\ Made(q.case, "READY", "FRAUD_AND_AML", a)
      /\ Len(q.kin) # 2 /\ (Len(q.kin) = 1 => FraudDone(q))
    BY <1>1, <1>3, FlightKinds DEF FlightSplit, SplitAt
<1>5. /\ q.case \in CaseIds /\ a \in Alerts /\ a # NoAlert /\ alerts[a].case = q.case
      /\ alerts[a].kind = "ALRT" /\ a \in groups /\ triageType = "AI"
      /\ Opens(tasks[q.case]) = {} /\ Just(a, Busy(q)) /\ Own(q) /\ q.home = 0
    BY <1>4, ParentFacts, ZenonT(60)
<1>6. new \in Case /\ new.group = a
    BY <1>5, <1>a DEF NewCase, Case, Origins, CaseTypes
<1>7. Grows(n, new, <<>>)
    BY <1>2, <1>3, <1>6, CaseAdded
<1>8. p \in Request
    <2>1. q.kin \in Seq(Nat) /\ n \in Nat /\ "kinFinished" \in Steps
        BY <1>3, <1>7 DEF Request, Steps, Grows
    <2>2. Append(q.kin, n) \in Seq(Nat)
        BY <2>1
    <2> QED
        BY <1>3, <1>b, <2>1, <2>2, Puts, Zenon
<1>9. p.at = "kinFinished" /\ p.kin = Append(q.kin, n) /\ p.case = q.case /\ p.home = 0 /\ p.alert = a
    BY <1>3, <1>5, <1>b DEF Request
<1>10. IntakeTypeOK'
    BY <1>1, <1>2, <1>3, <1>7, <1>8 DEF IntakeTypeOK, TasksOK, Grows
<1>11. Writes(a, {n})
    BY <1>1, <1>6, <1>7, <1>10 DEF Writes, Grows
<1>12. NoGhost(a)'
    BY <1>1, <1>5 DEF NoGhost
<1>13. Concerns(a, {n})
    BY <1>1, <1>12 DEF Concerns
<1>14. n \in CaseIds' /\ (\A b \in Alerts : About(b, n)' => b = a) /\ n = Len(cases')
    BY <1>7, <1>11, <1>13, AboutStays DEF Grows
<1>15. \A d \in CaseIds : d # n => \A b \in Alerts : About(b, d)' <=> About(b, d)
    BY <1>11, <1>13, AboutStays
<1>16. /\ n \notin CaseIds /\ n # 0 /\ CaseIds' = CaseIds \union {n}
       /\ cases'[n] = new /\ tasks'[n] = <<>>
       /\ \A d \in CaseIds : cases'[d] = cases[d] /\ tasks'[d] = tasks[d]
    BY <1>7, SettledTypes DEF Grows, CaseIds
\* The first case, and the second.
<1>17. \/ q.kin = <<>> /\ p.kin = <<n>>
       \/ \E k \in CaseIds \ {q.case} : q.kin = <<k>> /\ p.kin = <<k, n>> /\ n = k + 1
    <2>1. ASSUME NEW k, NEW m, q.kin = <<k, m>> PROVE FALSE
        <3>1. Len(q.kin) = 2
            BY <2>1
        <3> QED
            BY <1>4, <3>1
    <2>2. q.kin = <<>> => p.kin = <<n>>
        BY <1>9
    <2>3. ASSUME NEW k \in CaseIds, q.kin = <<k>> PROVE p.kin = <<k, n>>
        <3>1. k \in Nat /\ n \in Nat
            BY <1>7, SettledTypes DEF Grows
        <3>2. p.kin = Append(<<k>>, n)
            BY <1>9, <2>3
        <3>3. Append(<<k>>, n) = <<k, n>>
            <4>1. <<k>> \in Seq(Nat) /\ Len(<<k>>) = 1
                BY <3>1
            <4>2. Append(<<k>>, n) = [i \in 1..Len(<<k>>) + 1 |-> IF i = Len(<<k>>) + 1 THEN n ELSE <<k>>[i]]
                BY <3>1, <4>1
            <4>3. Append(<<k>>, n) = [i \in 1..2 |-> IF i = 2 THEN n ELSE k]
                BY <4>1, <4>2
            <4>4. <<k, n>> = [i \in 1..2 |-> IF i = 2 THEN n ELSE k]
                OBVIOUS
            <4> QED
                BY <4>3, <4>4
        <3> QED
            BY <3>2, <3>3
    <2> QED
        BY <1>4, <2>1, <2>2, <2>3 DEF Parent
<1>18. \A c : c \in Busy(p) <=> c \in Busy(q) \/ c = n
    <2>1. CASE q.kin = <<>> /\ p.kin = <<n>>
        <3>1. Len(p.kin) = 1 /\ p.kin[1] = n
            BY <2>1
        <3>2. \A c : c \in Busy(p) <=> c = p.case \/ c = p.home \/ c = n
            BY <3>1, BusyTwo
        <3>3. \A c : c \in Busy(q) <=> c = q.case \/ c = q.home
            BY <2>1, BusyOne
        <3> QED
            BY <1>5, <1>9, <3>2, <3>3
    <2>2. ASSUME NEW k \in CaseIds \ {q.case}, q.kin = <<k>>, p.kin = <<k, n>>
          PROVE  \A c : c \in Busy(p) <=> c \in Busy(q) \/ c = n
        <3>1. Len(q.kin) = 1 /\ q.kin[1] = k
            BY <2>2
        <3>2. Len(p.kin) = 2 /\ p.kin[1] = k /\ p.kin[2] = n
            BY <2>2
        <3>3. \A i : i \in 1..Len(p.kin) <=> i = 1 \/ i = 2
            BY <3>2
        <3>4. \A c : c \in Busy(q) <=> c = q.case \/ c = q.home \/ c = k
            BY <3>1, BusyTwo
        <3>5. \A c : c \in Busy(p) <=> c = q.case \/ c = 0 \/ c = k \/ c = n
            BY <1>9, <3>2, <3>3 DEF Busy
        <3> QED
            BY <1>5, <3>4, <3>5
    <2> QED
        BY <1>17, <2>1, <2>2
<1>19. Parent(p)'
    <2>1. Just(p.alert, Busy(p))'
        BY <1>5, <1>9, <1>15, <1>16, <1>18 DEF Just
    <2>2. Own(p)'
        <3>1. \A d \in CaseIds : d \in Busy(q) => cases'[d].group \in {NoAlert, a} /\ \A b \in Alerts : About(b, d)' => b = a
            BY <1>5, <1>15, <1>16 DEF Own
        <3>2. cases'[n].group = a /\ \A b \in Alerts : About(b, n)' => b = a
            BY <1>6, <1>14, <1>16
        <3> QED
            BY <1>9, <1>16, <1>18, <3>1, <3>2 DEF Own
    <2>3. Opens(tasks'[q.case]) = {} /\ q.case \in CaseIds' /\ alerts'[a].case = q.case
        BY <1>1, <1>5, <1>16
    <2>4. \/ p.kin = <<n>>
          \/ \E k \in CaseIds \ {q.case} : p.kin = <<k, n>> /\ n = k + 1
        BY <1>17
    <2>5. \/ \E k \in CaseIds' \ {q.case} : p.kin = <<k>> /\ k = Len(cases')
          \/ \E k \in CaseIds' \ {q.case} : \E m \in CaseIds' \ {q.case, k} : p.kin = <<k, m>> /\ m = k + 1
        <3>1. CASE p.kin = <<n>>
            BY <1>5, <1>14, <1>16, <3>1
        <3>2. ASSUME NEW k \in CaseIds \ {q.case}, p.kin = <<k, n>>, n = k + 1 PROVE <2>5
            <4>1. k \in CaseIds' \ {q.case} /\ n \in CaseIds' \ {q.case, k}
                BY <1>5, <1>16
            <4> QED
                BY <3>2, <4>1
        <3> QED
            BY <2>4, <3>1, <3>2
    <2> QED
        BY <1>1, <1>5, <1>9, <2>1, <2>2, <2>3, <2>5 DEF Parent
<1>20. FlightSplit(p)'
    <2>1. Made(q.case, "READY", "FRAUD_AND_AML", a)'
        BY <1>4, <1>5, <1>16 DEF Made
    <2>2. CASE q.kin = <<>> /\ p.kin = <<n>>
        <3>1. Len(p.kin) = 1 /\ p.kin[1] = n
            BY <2>2
        <3>2. FraudCase(p, n)'
            BY <1>9, <1>14, <1>16, <1>a, <2>2 DEF FraudCase, Made
        <3> QED
            BY <1>9, <1>16, <1>19, <2>1, <3>1, <3>2 DEF FlightSplit
    <2>3. ASSUME NEW k \in CaseIds \ {q.case}, q.kin = <<k>>, p.kin = <<k, n>>
          PROVE  FlightSplit(p)'
        <3>1. Len(q.kin) = 1 /\ q.kin[1] = k /\ q.kin # <<>>
            BY <2>3
        <3>2. Len(p.kin) = 2 /\ p.kin[1] = k /\ p.kin[2] = n
            BY <2>3
        <3>3. FraudCase(q, k) /\ Only(tasks[k], "Investigate")
            BY <1>4, <3>1 DEF FraudDone
        <3>4. FraudDone(p)'
            BY <1>9, <1>16, <3>2, <3>3 DEF FraudDone, FraudCase, Made
        <3>5. AmlCase(p, n)'
            BY <1>9, <1>14, <1>16, <1>a, <3>1 DEF AmlCase, Made
        <3> QED
            BY <1>9, <1>16, <1>19, <2>1, <3>2, <3>4, <3>5 DEF FlightSplit
    <2> QED
        BY <1>17, <2>2, <2>3
<1>21. Flight(p)'
    BY <1>9, <1>20, FlightNext DEF SplitAt
<1>22. Torn(q) = a /\ Torn(p) = a
    BY <1>1, <1>9 DEF Torn, Splitting
<1>23. Leaves(q, p, a, {n})
    BY <1>16, <1>18, <1>21, <1>22 DEF Leaves, Minds
<1> QED
    BY <1>2, <1>8, <1>11, <1>13, <1>23, Settles

\* A case is taken out of its group and abandoned.
Dropped(row, c) ==
    /\ row \in Case /\ row.status = "ABANDONED" /\ row.group = NoAlert /\ row.type = cases[c].type
    /\ [cases EXCEPT ![c].status = "ABANDONED", ![c].group = NoAlert] = [cases EXCEPT ![c] = row]

LEMMA CaseDropped ==
    ASSUME IntakeTypeOK, NEW c \in CaseIds
    PROVE  \E row : Dropped(row, c)
<1>a. PICK row : row = [cases[c] EXCEPT !.status = "ABANDONED", !.group = NoAlert]
    OBVIOUS
<1>1. cases[c] \in Case
    BY ListOf
<1>2. row \in Case /\ row.status = "ABANDONED" /\ row.group = NoAlert /\ row.type = cases[c].type
    BY <1>1, <1>a DEF Case, Origins
<1>3. [cases EXCEPT ![c].status = "ABANDONED", ![c].group = NoAlert] = [cases EXCEPT ![c] = row]
    <2> PICK n \in Nat : n = Len(cases) /\ cases \in [1..n -> Case]
        BY DEF IntakeTypeOK
    <2>1. c \in 1..n
        BY DEF CaseIds
    <2>2. PICK mid : mid = [cases EXCEPT ![c] = [cases[c] EXCEPT !.status = "ABANDONED"]]
        OBVIOUS
    <2>3. mid[c] = [cases[c] EXCEPT !.status = "ABANDONED"] /\ DOMAIN mid = 1..n /\ DOMAIN cases = 1..n
        BY <2>1, <2>2
    <2>4. [mid EXCEPT ![c] = [mid[c] EXCEPT !.group = NoAlert]] = [cases EXCEPT ![c] = row]
        BY <1>a, <2>1, <2>2, <2>3
    <2> QED
        BY <2>2, <2>4, Zenon
<1> QED
    BY <1>2, <1>3, Zenon DEF Dropped

\* The AML case was not made: the parent and the FRAUD case are abandoned, in either order.
LEMMA UndoSettles ==
    ASSUME Orderly, XInv, NEW r \in Requests, Undo(r)
    PROVE  XInv'
<1> PICK q : q = req[r]
    OBVIOUS
<1> PICK f : f = q.kin[1]
    OBVIOUS
<1> PICK a : a = q.alert
    OBVIOUS
<1>1. q.at = "undo" /\ UNCHANGED <<triageType, alerts, groups, tasks>>
    BY DEF Undo, Goes
<1>2. PICK c \in q.todo :
          /\ cases' = [cases EXCEPT ![c].status = "ABANDONED", ![c].group = NoAlert]
          /\ req' = [req EXCEPT ![r] = [q EXCEPT !.todo = @ \ {c},
                                                 !.at = IF q.todo = {c} THEN "dropGroup" ELSE "undo"]]
    BY Zenon DEF Undo, Goes
<1>a. PICK x \in Steps : x = IF q.todo = {c} THEN "dropGroup" ELSE "undo"
    BY DEF Steps
<1>b. PICK p : p = [q EXCEPT !.todo = @ \ {c}, !.at = x]
    OBVIOUS
<1>3. q \in Request /\ Flight(q) /\ IntakeTypeOK
    BY SettledTypes
<1>4. p \in Request /\ p.at = x /\ p.todo = q.todo \ {c} /\ SameWork(p, q)
    <2>1. q.todo \ {c} \in SUBSET Nat
        BY <1>3 DEF Request
    <2>2. p \in Request
        BY <1>3, <1>a, <1>b, <2>1, ZenonT(60) DEF Request
    <2>3. p.at = x /\ p.todo = q.todo \ {c} /\ SameWork(p, q)
        BY <1>3, <1>b DEF Request, SameWork
    <2> QED
        BY <2>2, <2>3
<1>c. req' = [req EXCEPT ![r] = p]
    <2>1. p = [q EXCEPT !.todo = @ \ {c}, !.at = IF q.todo = {c} THEN "dropGroup" ELSE "undo"]
        BY <1>a, <1>b
    <2> QED
        BY <1>2, <2>1
<1>5. /\ Parent(q) /\ Len(q.kin) # 0 /\ HalfDone(q) /\ Decided(tasks[f])
      /\ q.todo # {} /\ q.todo \subseteq {q.case, f}
      /\ IF q.case \in q.todo THEN Made(q.case, "READY", "FRAUD_AND_AML", a) ELSE Undone(q.case)
      /\ f \in q.todo \/ Undone(f)
    BY <1>1, <1>3, FlightKinds DEF FlightSplit, SplitAt
<1>6. /\ q.case \in CaseIds /\ q.case \in Busy(q) /\ f \in CaseIds /\ f \in Busy(q) /\ f # q.case
      /\ Len(q.kin) \in {1, 2} /\ Opens(tasks[q.case]) = {}
      /\ Len(q.kin) = 2 => q.kin[2] \in CaseIds /\ q.kin[2] # f /\ q.kin[2] # q.case
    <2>1. /\ q.case \in CaseIds /\ q.case \in Busy(q) /\ Opens(tasks[q.case]) = {}
          /\ \A i \in 1..Len(q.kin) : q.kin[i] \in CaseIds /\ q.kin[i] # q.case /\ q.kin[i] \in Busy(q)
          /\ Len(q.kin) \in {0, 1, 2}
          /\ Len(q.kin) = 2 => q.kin[1] # q.kin[2]
        BY <1>5, ParentFacts, ZenonT(60)
    <2> QED
        BY <1>5, <2>1
<1>7. c \in {q.case, f} /\ c \in CaseIds /\ c \in Busy(q)
    BY <1>2, <1>5, <1>6
<1>8. PICK row : Dropped(row, c)
    BY <1>3, <1>7, CaseDropped
<1>9. /\ cases' = [cases EXCEPT ![c] = row] /\ row \in Case /\ row.group = NoAlert
      /\ row.status = "ABANDONED"
    BY <1>2, <1>8, Zenon DEF Dropped
<1>10. KinWrite(q, c, row, tasks[c])
    BY <1>1, <1>5, <1>7, <1>9, KinRow
<1>11. /\ CaseIds' = CaseIds /\ cases'[c] = row
       /\ \A d \in CaseIds : d # c => cases'[d] = cases[d]
    BY <1>5, <1>10, KinWritten
<1>12. Parent(p)' /\ Busy(p) = Busy(q)
    BY <1>4, <1>5, <1>6, <1>10, ParentKept
<1>13. p.kin = q.kin /\ p.case = q.case /\ p.alert = a
    BY <1>4 DEF SameWork
<1>14. HalfDone(p)'
    BY <1>1, <1>5, <1>6, <1>7, <1>11, <1>13 DEF HalfDone, AmlCase, Made
<1>15. Undone(c)'
    BY <1>9, <1>11 DEF Undone
<1>16. FlightSplit(p)'
    <2>1. Decided(tasks'[f])
        BY <1>1, <1>5
    <2>2. f \notin p.todo => Undone(f)'
        BY <1>4, <1>5, <1>6, <1>11, <1>15 DEF Undone
    <2>3. IF q.case \in p.todo THEN Made(q.case, "READY", "FRAUD_AND_AML", a)' ELSE Undone(q.case)'
        BY <1>4, <1>5, <1>6, <1>11, <1>15 DEF Undone, Made
    <2>4. CASE x = "undo"
        <3>1. p.todo # {} /\ p.todo \subseteq {q.case, f}
            BY <1>2, <1>4, <1>5, <1>a, <2>4
        <3> QED
            BY <1>4, <1>5, <1>12, <1>13, <1>14, <2>1, <2>2, <2>3, <2>4, <3>1 DEF FlightSplit
    <2>5. CASE x = "dropGroup"
        <3>1. p.todo = {}
            BY <1>4, <1>a, <2>5
        <3> QED
            BY <1>4, <1>5, <1>12, <1>13, <1>14, <2>1, <2>2, <2>3, <2>5, <3>1 DEF FlightSplit
    <2> QED
        BY <1>a, <2>4, <2>5
<1>17. Flight(p)'
    BY <1>4, <1>16, <1>a, FlightNext DEF SplitAt
<1>18. Torn(q) = a /\ Torn(p) = a
    BY <1>1, <1>4, <1>13, <1>a DEF Torn, Splitting
<1>19. \A d \in CaseIds : d \in Busy(q) /\ Left(d) => Left(d)'
    <2>1. \A d \in CaseIds : cases[d].status = "ABANDONED" => cases'[d].status = "ABANDONED"
        BY <1>9, <1>11
    <2> QED
        BY <1>1, <1>11, <2>1 DEF Left, OpenNamed, Named
<1> QED
    BY <1>4, <1>5, <1>10, <1>12, <1>17, <1>18, <1>19, <1>c, KinStep

\* The group goes, and with it the link of an AML case half made.
LEMMA GroupDropped ==
    ASSUME IntakeTypeOK, NEW a,
           cases' = [c \in CaseIds |-> IF cases[c].group = a THEN [cases[c] EXCEPT !.group = NoAlert]
                                       ELSE cases[c]]
    PROVE  /\ cases' \in Seq(Case) /\ Len(cases') = Len(cases) /\ CaseIds' = CaseIds
           /\ \A c \in CaseIds :
                 /\ cases[c].group # a => cases'[c] = cases[c]
                 /\ cases[c].group = a => /\ cases'[c].group = NoAlert
                                          /\ cases'[c].status = cases[c].status
                                          /\ cases'[c].type = cases[c].type
<1> PICK n \in Nat : n = Len(cases) /\ cases \in [1..n -> Case]
    BY DEF IntakeTypeOK
<1>1. CaseIds = 1..n
    BY DEF CaseIds
<1>2. \A c \in 1..n : [cases[c] EXCEPT !.group = NoAlert] \in Case
    BY DEF Case
<1>3. cases' \in [1..n -> Case]
    BY <1>1, <1>2
<1>4. cases' \in Seq(Case) /\ Len(cases') = n
    BY <1>3
<1>5. \A c \in CaseIds : cases[c].group # a => cases'[c] = cases[c]
    BY <1>1
<1>6. ASSUME NEW c \in CaseIds, cases[c].group = a
      PROVE  /\ cases'[c].group = NoAlert
             /\ cases'[c].status = cases[c].status
             /\ cases'[c].type = cases[c].type
    <2>1. cases[c] \in Case
        BY ListOf
    <2>2. cases'[c] = [cases[c] EXCEPT !.group = NoAlert]
        BY <1>6
    <2> QED
        BY <2>1, <2>2 DEF Case
<1> QED
    BY <1>4, <1>5, <1>6 DEF CaseIds

LEMMA DropGroupSettles ==
    ASSUME Orderly, XInv, NEW r \in Requests, DropGroup(r)
    PROVE  XInv'
<1> PICK q : q = req[r]
    OBVIOUS
<1> PICK c : c = q.case
    OBVIOUS
<1> PICK f : f = q.kin[1]
    OBVIOUS
<1> PICK a : a = q.alert
    OBVIOUS
<1>1. q.at = "dropGroup" /\ groups' = groups \ {a} /\ UNCHANGED <<triageType, alerts, tasks>>
    BY DEF DropGroup, Done, Goes
<1>2. /\ req' = [req EXCEPT ![r] = Idle]
      /\ cases' = [d \in CaseIds |-> IF cases[d].group = a THEN [cases[d] EXCEPT !.group = NoAlert]
                                     ELSE cases[d]]
    BY DEF DropGroup, Done, Goes
<1>3. q \in Request /\ Flight(q) /\ IntakeTypeOK
    BY SettledTypes
<1>4. /\ Parent(q) /\ Len(q.kin) # 0 /\ HalfDone(q) /\ Decided(tasks[f])
      /\ Undone(c) /\ Undone(f)
    BY <1>1, <1>3, FlightKinds DEF FlightSplit, SplitAt
<1>5. /\ c \in CaseIds /\ a \in Alerts /\ a # NoAlert /\ alerts[a].case = c
      /\ alerts[a].kind = "ALRT" /\ Opens(tasks[c]) = {} /\ Just(a, Busy(q)) /\ Own(q)
      /\ \A i \in 1..Len(q.kin) : q.kin[i] \in CaseIds /\ q.kin[i] # c
      /\ Len(q.kin) \in {0, 1, 2} /\ q.home = 0
      /\ Len(q.kin) = 2 => q.kin[1] # q.kin[2]
    BY <1>4, ParentFacts, ZenonT(60)
<1>6. Idle \in Request /\ Flight(Idle)' /\ Torn(Idle) = NoAlert
    BY IdleRequest, FlightNext DEF Torn, Idle, Splitting
<1>7. /\ cases' \in Seq(Case) /\ Len(cases') = Len(cases) /\ CaseIds' = CaseIds
      /\ \A d \in CaseIds :
            /\ cases[d].group # a => cases'[d] = cases[d]
            /\ cases[d].group = a => /\ cases'[d].group = NoAlert
                                     /\ cases'[d].status = cases[d].status
                                     /\ cases'[d].type = cases[d].type
    BY <1>2, <1>3, GroupDropped, ZenonT(60)
\* The cases it leaves.
<1>8. \A d \in CaseIds : d \in Busy(q) <=> d = c \/ d = f \/ (Len(q.kin) = 2 /\ d = q.kin[2])
    <2>1. \A i : i \in 1..Len(q.kin) <=> i = 1 \/ (Len(q.kin) = 2 /\ i = 2)
        BY <1>4, <1>5
    <2>2. \A d \in CaseIds : d \in Busy(q) <=> d = c \/ \E i \in 1..Len(q.kin) : d = q.kin[i]
        BY <1>3, <1>5, SettledTypes DEF Busy
    <2> QED
        BY <2>1, <2>2
<1>9. PICK M : \A d : d \in M <=> d \in CaseIds /\ d \in Busy(q)
    <2>1. \A d : d \in CaseIds \cap Busy(q) <=> d \in CaseIds /\ d \in Busy(q)
        OBVIOUS
    <2> QED
        BY <2>1
<1>10. \A d \in CaseIds : d \notin M => cases[d].group # a
    BY <1>5, <1>9 DEF Just, About
<1>11. \A d \in CaseIds : cases'[d].group # a
    BY <1>5, <1>7
<1>12. IntakeTypeOK'
    BY <1>1, <1>2, <1>3, <1>6, <1>7 DEF IntakeTypeOK, TasksOK
<1>13. Writes(a, M)
    <2>1. \A d \in CaseIds' : d \in M => cases'[d].group \in {NoAlert, a}
        BY <1>5, <1>7, <1>9 DEF Own
    <2>2. \A d \in CaseIds : d \in M => \A b \in Alerts : About(b, d) => b = a
        BY <1>5, <1>9 DEF Own
    <2>3. \A d \in CaseIds : d \notin M => cases'[d] = cases[d] /\ tasks'[d] = tasks[d]
        BY <1>1, <1>7, <1>10
    <2> QED
        BY <1>1, <1>7, <1>12, <2>1, <2>2, <2>3, SettledTypes DEF Writes
<1>14. NoGhost(a)'
    BY <1>1, <1>5, <1>7, <1>11 DEF NoGhost
<1>15. Concerns(a, M)
    BY <1>1, <1>14 DEF Concerns
<1>16. Solo(a)'
    BY <1>1, <1>5, <1>7, <1>11 DEF Solo, About
<1>17. Over(c)' /\ Over(f)'
    <2>1. f \in CaseIds
        BY <1>4, <1>5
    <2>2. cases'[c].status = "ABANDONED" /\ cases'[f].status = "ABANDONED"
        BY <1>4, <1>5, <1>7, <2>1 DEF Undone
    <2>3. Decided(tasks'[c]) /\ Decided(tasks'[f])
        BY <1>1, <1>4, <1>5, SettledTypes, DecidedLists
    <2> QED
        BY <2>2, <2>3 DEF Over
<1>18. ASSUME Len(q.kin) = 2 PROVE Handed(q.kin[2])'
    <2>1. q.kin[2] \in CaseIds /\ AmlCase(q, q.kin[2]) /\ Decided(tasks[q.kin[2]])
        BY <1>4, <1>5, <1>18 DEF HalfDone
    <2>2. cases[q.kin[2]].status = "READY" /\ cases[q.kin[2]].type = "AML" /\ cases[q.kin[2]].group = a
        BY <2>1 DEF AmlCase, Made, NewCase
    <2>3. q.kin[2] > 1 /\ q.kin[2] - 1 = f /\ f \in CaseIds
        <3>1. PICK k \in CaseIds, m \in CaseIds : q.kin = <<k, m>> /\ m = k + 1
            BY <1>18, <1>4, KinTwo
        <3>2. q.kin[1] = k /\ q.kin[2] = m /\ k \in Nat /\ k # 0
            BY <3>1, SettledTypes
        <3> QED
            BY <3>1, <3>2
    <2>4. OpenNamed(f, "Investigate")' # {} /\ cases'[f].status = "ABANDONED"
        <3>1. Only(tasks[f], "Investigate") /\ cases[f].status = "ABANDONED"
            BY <1>4, <1>18 DEF HalfDone, Undone
        <3>2. OpenNamed(f, "Investigate") # {}
            BY <1>3, <2>3, <3>1, OnlyOpen
        <3> QED
            BY <1>1, <1>7, <2>3, <3>1, <3>2 DEF OpenNamed, Named
    <2>5. HalfMade(q.kin[2])'
        BY <1>7, <2>1, <2>2, <2>3, <2>4 DEF HalfMade
    <2> QED
        BY <1>1, <1>7, <2>1, <2>2, <2>5 DEF Handed
<1>19. \A d \in CaseIds : d \in M => Rest(d)'
    BY <1>8, <1>9, <1>17, <1>18 DEF Rest
<1>20. Torn(q) = a
    BY <1>1 DEF Torn, Splitting
<1>21. \A d \in CaseIds : Left(d) => Left(d)'
    <2>1. \A d \in CaseIds : cases'[d].status = cases[d].status
        BY <1>7
    <2> QED
        BY <1>1, <1>7, <2>1 DEF Left, OpenNamed, Named
<1>22. Leaves(q, Idle, a, M)
    BY <1>6, <1>7, <1>9, <1>16, <1>19, <1>20, <1>21 DEF Leaves, Minds
<1> QED
    BY <1>2, <1>6, <1>13, <1>15, <1>22, Settles
-----------------------------------------------------------------------------
(***************************************************************************)
(* Every step keeps it.                                                    *)
(***************************************************************************)
LEMMA CreationStepsSettle ==
    ASSUME Orderly, XInv, NEW r \in Requests, CreationSteps(r)
    PROVE  XInv'
<1>1. ~LegacyReady(r) /\ ~LegacyTask(r)
    BY SettledTypes DEF LegacyReady, LegacyTask, Flight
<1> QED
    BY <1>1, GroupUpsertSettles, CreatePrimarySettles, CreateSiblingSettles, LinkAlertSettles,
       CreateDraftSettles, CompleteLockSettles, CompleteTaskSettles, CompleteCommitSettles,
       FirstStatusSettles, AbandonTaskSettles, ApproveSettles, RejectTaskSettles
    DEF CreationSteps

LEMMA TriageStepsSettle ==
    ASSUME Orderly, XInv, NEW r \in Requests, TriageSteps(r)
    PROVE  XInv'
<1>1. (\/ IngestAlert(r) \/ InsertFirst(r) \/ Investigate(r) \/ Ready(r)
       \/ TriageLock(r) \/ TriageClose(r) \/ TriageSplit(r) \/ TriageCommit(r))
      => XInv'
    BY IngestAlertSettles, InsertFirstSettles, InvestigateSettles, ReadySettles,
       TriageLockSettles, TriageCloseSettles, TriageSplitSettles, TriageCommitSettles
<1>2. TriageTask(r) \/ Predict(r) \/ AiTask(r) \/ AiClose(r) \/ AiGroup(r) \/ AiParent(r) => XInv'
    BY TriageTaskSettles, PredictSettles, AiTaskSettles, AiCloseSettles, AiGroupSettles,
       AiParentSettles
<1>3. KinCase(r) \/ KinFinished(r) \/ KinTask(r) \/ Undo(r) \/ DropGroup(r) => XInv'
    BY KinCaseSettles, KinFinishedSettles, KinTaskSettles, UndoSettles, DropGroupSettles
<1> QED
    BY <1>1, <1>2, <1>3 DEF TriageSteps

LEMMA StutterSettles ==
    ASSUME Orderly, XInv, UNCHANGED vars
    PROVE  XInv'
<1>1. UNCHANGED <<triageType, rows>> /\ req' = req
    BY DEF vars, rows
<1>2. IntakeTypeOK'
    BY DEF vars, XInv, IntakeTypeOK, TasksOK
<1>3. /\ OneSubject' /\ (triageType \in TriageTypes)' /\ CaseIds' = CaseIds
      /\ \A a \in Alerts : NoGhost(a)' /\ (Solo(a) \/ Pair(a) => Solo(a)' \/ Pair(a)')
      /\ \A c \in CaseIds : Rest(c) => Rest(c)'
      /\ \A q : Flight(q) => Flight(q)'
    BY <1>1, RowsKept
<1>4. \A r \in Requests : Flight(req[r])'
    <2>1. \A r \in Requests : Flight(req[r])
        BY DEF XInv
    <2>2. ASSUME NEW r \in Requests PROVE Flight(req[r])'
        <3> PICK q : q = req[r]
            OBVIOUS
        <3>1. Flight(q)' /\ req'[r] = q
            BY <1>1, <1>3, <2>1
        <3> QED
            BY <3>1
    <2> QED
        BY <2>2
<1>5. \A c \in CaseIds' : (\A r \in Requests : c \notin Busy(req[r])') => Rest(c)'
    BY <1>1, <1>3 DEF XInv, Busy
<1>6. \A a \in Alerts : (\A r \in Requests : a # Torn(req[r])') => Solo(a)' \/ Pair(a)'
    BY <1>1, <1>3 DEF XInv, Torn
<1> QED
    BY <1>2, <1>3, <1>4, <1>5, <1>6 DEF XInv

LEMMA XInvNext ==
    ASSUME Orderly, XInv, [Next]_vars
    PROVE  XInv'
<1>1. CASE UNCHANGED vars
    BY <1>1, StutterSettles
<1>2. ASSUME NEW r \in Requests,
             CreationCalls(r) \/ TriageCalls(r) \/ Step(r) \/ AmlThrows(r) \/ Fail(r) \/ Expire(r)
      PROVE  XInv'
    <2>1. ~Fail(r) /\ ~Expire(r)
        BY DEF Orderly, Fail, Expire
    <2>2. CASE CreationCalls(r) \/ TriageCalls(r) \/ AmlThrows(r)
        BY <2>2, CreationCallsSettle, TriageCallsSettle, AmlThrowsSettles
    <2>3. CASE Step(r)
        BY <2>3, CreationStepsSettle, TriageStepsSettle, InsertSettles DEF Step
    <2> QED
        BY <1>2, <2>1, <2>2, <2>3
<1> QED
    BY <1>1, <1>2 DEF Next
-----------------------------------------------------------------------------
(***************************************************************************)
(* What the invariant says when no request is in flight.                   *)
(***************************************************************************)
LEMMA QuietRests ==
    ASSUME XInv, Quiet
    PROVE  /\ \A c \in CaseIds : Rest(c)
           /\ \A a \in Alerts : Solo(a) \/ Pair(a)
<1>1. \A r \in Requests : req[r] = Idle
    BY SettledTypes DEF Quiet, Flight
<1>2. \A c \in CaseIds : c \notin Busy(Idle)
    BY SettledTypes DEF Busy, Idle
<1>3. \A a \in Alerts : a # Torn(Idle)
    BY SettledTypes DEF Torn, Idle, Splitting
<1> QED
    BY <1>1, <1>2, <1>3 DEF XInv

LEMMA OneOpenTask ==
    ASSUME XInv, NEW c \in CaseIds, Only(tasks[c], "Investigate")
    PROVE  OpenTasks(c) = OpenNamed(c, "Investigate") /\ Cardinality(OpenTasks(c)) = 1
<1>1. OpenTasks(c) = {Len(tasks[c])}
    BY DEF Only, Opens, OpenTasks
<1>2. \A t \in OpenNamed(c, "Investigate") : t = Len(tasks[c])
    BY SettledTypes, OnlyOpen
<1>3. Len(tasks[c]) \in OpenNamed(c, "Investigate")
    BY SettledTypes, OnlyOpen
<1>4. OpenNamed(c, "Investigate") = {Len(tasks[c])}
    BY <1>2, <1>3
<1> QED
    BY <1>1, <1>4, FS_Singleton

LEMMA TwoOpenTasks ==
    ASSUME XInv, NEW c \in CaseIds, tasks[c] = <<Kept("Investigate"), Kept("Investigate")>>
    PROVE  OpenTasks(c) = OpenNamed(c, "Investigate") /\ Cardinality(OpenTasks(c)) = 2
<1>1. /\ Len(tasks[c]) = 2
      /\ \A t \in 1..2 : tasks[c][t].open /\ tasks[c][t].name = "Investigate"
    BY DEF Kept
<1>2. OpenTasks(c) = {1} \union {2} /\ OpenNamed(c, "Investigate") = {1} \union {2}
    BY <1>1 DEF OpenTasks, OpenNamed, Named
<1>3. IsFiniteSet({1}) /\ Cardinality({1}) = 1
    BY FS_Singleton
<1>4. Cardinality({1} \union {2}) = 2
    BY <1>3, FS_AddElement
<1> QED
    BY <1>2, <1>4

LEMMA NoDeadEndsHolds == XInv => NoDeadEnds
<1> SUFFICES ASSUME XInv, Quiet, NEW c \in CaseIds
             PROVE  /\ cases[c].status = "DRAFT" => NewestIsOpen(c, "Complete")
                    /\ cases[c].status = "PENDING" => OpenNamed(c, "Approve") # {} /\ cases[c].type # NoType
    BY DEF NoDeadEnds
<1>1. Rest(c) /\ IntakeTypeOK
    BY QuietRests, SettledTypes
<1>2. cases[c].status = "DRAFT" => Only(tasks[c], "Complete")
    BY <1>1 DEF Rest, Draft, Pending, Handed, Over
<1>3. cases[c].status = "PENDING" => Only(tasks[c], "Approve") /\ cases[c].type \in CaseTypes
    BY <1>1 DEF Rest, Draft, Pending, Handed, Over
<1> QED
    BY <1>1, <1>2, <1>3, OnlyOpen DEF CaseTypes, NoType

LEMMA LeadsToAlertHolds == XInv => LeadsToAlert
<1> SUFFICES ASSUME XInv, Quiet, NEW c \in CaseIds, Live(c), ~HalfMade(c)
             PROVE  AlertsOf(c) # {}
    BY DEF LeadsToAlert
<1>1. Rest(c)
    BY QuietRests
<1>2. Alive(c)
    BY <1>1 DEF Rest, Draft, Pending, Handed, Over, Live, Held, Untriaged, Alive
<1> QED
    BY <1>2, AlertsOfAbout DEF Alive

LEMMA HandsOverHolds == XInv => HandsOver
<1> DEFINE untriaged(c) ==
               triageType = "DISABLED" /\ \E a \in AlertsOf(c) : alerts[a].kind = "ALRT"
<1> SUFFICES ASSUME XInv, Quiet, NEW c \in CaseIds
             PROVE  /\ cases[c].status = "READY" /\ ~SplitParent(c) /\ ~HalfMade(c) =>
                         /\ OpenTasks(c) = OpenNamed(c, "Investigate")
                         /\ Cardinality(OpenTasks(c)) = IF untriaged(c) THEN 2 ELSE 1
                    /\ cases[c].status = "CLOSED" => OpenTasks(c) = {}
    BY DEF HandsOver
<1>1. Rest(c)
    BY QuietRests
<1>2. AlertsOf(c) \subseteq Alerts
    BY SettledTypes DEF AlertsOf, Case
<1>3. untriaged(c) <=> Untriaged(c)
    BY <1>2, AlertsOfAbout DEF Untriaged
<1>4. ASSUME cases[c].status = "READY", ~SplitParent(c), ~HalfMade(c)
      PROVE  /\ OpenTasks(c) = OpenNamed(c, "Investigate")
             /\ Cardinality(OpenTasks(c)) = IF untriaged(c) THEN 2 ELSE 1
    <2>1. \/ Held(c) /\ Only(tasks[c], "Investigate")
          \/ Untriaged(c) /\ tasks[c] = <<Kept("Investigate"), Kept("Investigate")>>
        BY <1>1, <1>4 DEF Rest, Draft, Pending, Handed, Over
    <2> QED
        BY <1>3, <2>1, OneOpenTask, TwoOpenTasks DEF Held
<1>5. cases[c].status = "CLOSED" => OpenTasks(c) = {}
    BY <1>1 DEF Rest, Draft, Pending, Handed, Over, Opens, OpenTasks
<1> QED
    BY <1>4, <1>5

LEMMA SplitIsWholeHolds == XInv => SplitIsWhole
<1> SUFFICES ASSUME XInv, Quiet, NEW a \in groups, NEW c \in InGroup(a),
                    cases[c].status = "READY", alerts[a].case = c => SplitParent(c)
             PROVE  Cardinality(Siblings(a, "FRAUD")) = 1 /\ Cardinality(Siblings(a, "AML")) = 1
    BY DEF SplitIsWhole
<1>1. a \in Alerts /\ c \in CaseIds /\ cases[c].group = a
    BY SettledTypes DEF IntakeTypeOK, InGroup
<1>2. Pair(a)
    BY <1>1, QuietRests DEF Solo, SplitParent
<1>3. PICK f \in CaseIds, m \in CaseIds : IsPair(a, f, m)
    BY <1>2 DEF Pair
<1>4. \A d \in InGroup(a) : d \in CaseIds /\ About(a, d)
    BY DEF InGroup, About
<1>5. \A d \in InGroup(a) : d \in {f, m} \/ cases[d].type = "FRAUD_AND_AML"
    BY <1>3, <1>4 DEF IsPair
<1>6. f \in InGroup(a) /\ m \in InGroup(a) /\ cases[f].type = "FRAUD" /\ cases[m].type = "AML"
    BY <1>3 DEF IsPair, InGroup
<1>7. Siblings(a, "FRAUD") = {f} /\ Siblings(a, "AML") = {m}
    BY <1>5, <1>6 DEF Siblings
<1> QED
    BY <1>7, FS_Singleton

LEMMA XInvInit == ASSUME Init PROVE XInv
<1>1. cases = <<>> /\ Len(cases) = 0 /\ CaseIds = {}
    BY DEF Init, CaseIds
<1>2. IntakeTypeOK /\ triageType \in TriageTypes
    BY InitNInv DEF NInv
<1>3. \A a \in Alerts : alerts[a] = Row("none", 0) /\ a \notin groups
    BY DEF Init
<1>4. \A r \in Requests : req[r] = Idle /\ Flight(Idle)
    BY DEF Init, Idle, Flight, FlightCreation, FlightDecision, FlightTriage, FlightIntake,
       FlightSplit
<1> QED
    BY <1>1, <1>2, <1>3, <1>4 DEF XInv, OneSubject, NoGhost, Solo, Row

LEMMA AlwaysXInv == Orderly => (Spec => []XInv)
<1> SUFFICES ASSUME Orderly PROVE Spec => []XInv
    OBVIOUS
<1>1. Init => XInv
    BY XInvInit
<1>2. XInv /\ [Next]_vars => XInv'
    BY XInvNext
<1> QED
    BY <1>1, <1>2, PTL DEF Spec
-----------------------------------------------------------------------------
\* A draft has the task that completing it needs, a pending case the task and the type
\* that deciding on it needs: nothing that the people of the web client did, or the AI
\* answered, leaves a case nobody can take further.
THEOREM NeverADeadEnd == Orderly => (Spec => []NoDeadEnds)
<1> QED
    BY AlwaysXInv, NoDeadEndsHolds, PTL

\* A case that is not over leads to an alert, by the alert's link or by the group, except
\* an AML case half made.
THEOREM AlwaysLeadsToAlert == Orderly => (Spec => []LeadsToAlert)
<1> QED
    BY AlwaysXInv, LeadsToAlertHolds, PTL

\* A ready case has one open task, to investigate (two when triage is off), and nothing
\* open is left of the triage; a closed one has none.
THEOREM AlwaysHandsOver == Orderly => (Spec => []HandsOver)
<1> QED
    BY AlwaysXInv, HandsOverHolds, PTL

\* A split is whole when its request is over: a group with a case in READY, other than the
\* FRAUD case its alert is linked to, has one FRAUD and one AML case, also where making the
\* AML case of an AI split failed half way.
THEOREM SplitsAreWhole == Orderly => (Spec => []SplitIsWhole)
<1> QED
    BY AlwaysXInv, SplitIsWholeHolds, PTL
=============================================================================

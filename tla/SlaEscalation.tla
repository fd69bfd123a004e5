---------------------------- MODULE SlaEscalation ----------------------------
(***************************************************************************)
(* The SLA clock of one case, and the hourly check that escalates it.      *)
(*                                                                         *)
(* The clock is a pair of columns of the case, sla_started_at and          *)
(* sla_due_at.  CaseRepository.updateCase restarts it when it makes a case *)
(* READY and anchors the deadline anew when it changes the priority: it    *)
(* reads the row, looks up the policy, and writes.  Other handlers write   *)
(* the case without it.  An update is a record of what was read and what   *)
(* will be written.                                                        *)
(*                                                                         *)
(* The check runs in every backend process, and a slow one does not keep   *)
(* the next from starting.  It reads the open cases, looks up whether the  *)
(* state it finds was notified before, notifies, and records it.           *)
(***************************************************************************)
EXTENDS Integers, FiniteSets

CONSTANTS
    Priorities,
    Target,         \* sla_policies: the hours a case of each priority may take
    DueSoonTenths,  \* sla_escalation_thresholds, in tenths of these hours
    AtRiskTenths,
    Updates,        \* slots: how many updates of the case can overlap
    Checks,         \* slots: how many hourly checks can overlap
    NoTime,         \* a null timestamp
    MaxTime,        \* bound on the hours that pass
    MaxFaults       \* bound on failed writes and crashes

ASSUME PolicyAssumption ==
    /\ Priorities # {} /\ Target \in [Priorities -> Nat]
    /\ DueSoonTenths \in 0..10 /\ AtRiskTenths \in 0..10
ASSUME TimeAssumption ==
    /\ NoTime \notin Nat
    /\ MaxTime \in Nat /\ MaxFaults \in Nat

VARIABLES
    status, claimed, priority,  \* the case: its status, whether it has an owner
    started, due,               \* its clock
    records,                    \* sla_escalation_records of the case
    mails,                      \* emails queued for each state
    upd, chk,                   \* updates and checks in progress
    now, faults

case == <<status, claimed, priority, started, due>>
ledger == <<records, mails>>
vars == <<status, claimed, priority, started, due, records, mails, upd, chk, now, faults>>

\* DRAFT: not yet READY for the first time.  OPEN: later, and not closed.
Statuses == {"DRAFT", "READY", "OPEN", "CLOSED"}
Times == Nat \union {NoTime}
Escalated == {"AT_RISK", "DUE_SOON", "BREACHED"}

Kinds == {"restart", "reprioritise", "complete", "claim", "release", "close"}
Update == [kind: Kinds \union {"none"}, to: Priorities, sets: BOOLEAN, anchor: Times]
NoUpdate == [kind |-> "none", to |-> CHOOSE p \in Priorities : TRUE,
             sets |-> FALSE, anchor |-> NoTime]

Check == [at: {"idle", "lookup", "notify", "record"}, state: Escalated]
NoCheck == [at |-> "idle", state |-> "BREACHED"]

\* A case waiting for its completion, or one that createCase makes READY at once.
Init ==
    /\ priority \in Priorities
    /\ claimed = FALSE
    /\ \/ status = "DRAFT" /\ started = NoTime /\ due = NoTime
       \/ status = "READY" /\ started = 0 /\ due = Target[priority]
    /\ records = {}
    /\ mails = [s \in Escalated |-> 0]
    /\ upd = [u \in Updates |-> NoUpdate]
    /\ chk = [c \in Checks |-> NoCheck]
    /\ now = 0
    /\ faults = 0
-----------------------------------------------------------------------------
(***************************************************************************)
(* Updates of the case.                                                    *)
(***************************************************************************)
\* The statuses in which an update may begin.
From(kind) ==
    CASE kind = "complete" -> {"DRAFT"}
      [] kind = "claim"    -> {"READY", "OPEN"}
      [] kind = "release"  -> {"READY", "OPEN"}
      [] kind = "close"    -> {"DRAFT", "OPEN"}
      [] OTHER             -> Statuses

\* Mutant: a new priority counts from the moment it is given.
AnchorNow(kind) == IF kind \in {"restart", "reprioritise"} THEN now ELSE NoTime

\* What the update has read or computed when it turns to the policy.
Anchor(kind) ==
    CASE kind = "restart"      -> now
      [] kind = "reprioritise" -> started
      [] OTHER                 -> NoTime

Begins(u, kind, p, sets) ==
    /\ upd[u].kind = "none"
    /\ status \in From(kind)
    /\ upd' = [upd EXCEPT ![u] =
                 [kind |-> kind, to |-> p, sets |-> sets, anchor |-> Anchor(kind)]]
    /\ UNCHANGED <<case, ledger, chk, now, faults>>

\* updateCase is given a priority, or reads the one the case has.
BeginRestart(u) ==
    \/ Begins(u, "restart", priority, FALSE)
    \/ \E p \in Priorities : Begins(u, "restart", p, TRUE)

BeginReprioritise(u) == \E p \in Priorities : Begins(u, "reprioritise", p, TRUE)

\* A supervisor completes a draft, with or without a priority.
BeginComplete(u) ==
    \E p \in Priorities, sets \in BOOLEAN : Begins(u, "complete", p, sets)

BeginPlain(u) ==
    \E kind \in {"claim", "release", "close"} : Begins(u, kind, priority, FALSE)

Ends(u) == upd' = [upd EXCEPT ![u] = NoUpdate]
SetsPriority(u) == priority' = IF upd[u].sets THEN upd[u].to ELSE priority
Deadline(u) == upd[u].anchor + Target[upd[u].to]

\* updateCase into READY_FOR_ASSIGNMENT; the request may name an owner.
Restart(u) ==
    /\ upd[u].kind = "restart"
    /\ status' = "READY"
    /\ claimed' \in {claimed, TRUE}
    /\ SetsPriority(u)
    /\ started' = upd[u].anchor
    /\ due' = Deadline(u)
    /\ Ends(u)
    /\ UNCHANGED <<ledger, chk, now, faults>>

\* updateCase with a priority only; a clock that had not started stays as it is.
Reprioritise(u) ==
    /\ upd[u].kind = "reprioritise"
    /\ SetsPriority(u)
    /\ due' = IF upd[u].anchor = NoTime THEN due ELSE Deadline(u)
    /\ Ends(u)
    /\ UNCHANGED <<status, claimed, started, ledger, chk, now, faults>>

\* completeCaseCreation by a supervisor writes the row itself.
Complete(u) ==
    /\ upd[u].kind = "complete"
    /\ status' = "READY"
    /\ claimed' \in {claimed, TRUE}
    /\ SetsPriority(u)
    /\ Ends(u)
    /\ UNCHANGED <<started, due, ledger, chk, now, faults>>

\* So do assignments, their withdrawal, and closures.
WritePlain(u) ==
    /\ \/ upd[u].kind = "claim" /\ status' = "OPEN" /\ claimed' = TRUE
       \/ upd[u].kind = "release" /\ status' = "READY" /\ claimed' = FALSE
       \/ upd[u].kind = "close" /\ status' = "CLOSED" /\ UNCHANGED claimed
    /\ Ends(u)
    /\ UNCHANGED <<priority, started, due, ledger, chk, now, faults>>
-----------------------------------------------------------------------------
(***************************************************************************)
(* The state of the clock, and the hourly check.                           *)
(***************************************************************************)
Breached == due <= now
Within(tenths) == (due - now) * 10 <= (due - started) * tenths
DueSoon == ~Breached /\ (due <= started \/ Within(DueSoonTenths))
AtRisk == ~Breached /\ ~DueSoon /\ Within(AtRiskTenths)

\* findOpenCasesForSlaCheck selects the case.
Watched == due # NoTime /\ started # NoTime /\ status # "CLOSED"

\* Mutant: every state is looked up, whoever owns the case.
EscalationOfAll ==
    {s \in Escalated \union {"ON_TRACK"} : \/ s = "BREACHED" /\ Breached
                                           \/ s = "AT_RISK" /\ AtRisk
                                           \/ s = "DUE_SOON" /\ DueSoon
                                           \/ s = "ON_TRACK" /\ ~Breached}

\* Mutant: a breach is escalated only while nobody owns the case.
EscalationOfUnclaimed ==
    {s \in Escalated : \/ s = "BREACHED" /\ Breached /\ ~claimed
                       \/ s = "AT_RISK" /\ AtRisk /\ ~claimed
                       \/ s = "DUE_SOON" /\ DueSoon /\ claimed}

\* What checkCase escalates: one state at most.
Escalation ==
    {s \in Escalated : \/ s = "BREACHED" /\ Breached
                       \/ s = "AT_RISK" /\ AtRisk /\ ~claimed
                       \/ s = "DUE_SOON" /\ DueSoon /\ claimed}

Goes(c, step) == chk' = [chk EXCEPT ![c].at = step]
Stops(c) == chk' = [chk EXCEPT ![c] = NoCheck]

StartCheck(c) ==
    /\ chk[c].at = "idle"
    /\ Watched
    /\ \E s \in Escalation : chk' = [chk EXCEPT ![c] = [at |-> "lookup", state |-> s]]
    /\ UNCHANGED <<case, ledger, upd, now, faults>>

\* Mutant: only the unique constraint of the ledger.
LookupAnyway(c) ==
    /\ chk[c].at = "lookup"
    /\ Goes(c, "notify")
    /\ UNCHANGED <<case, ledger, upd, now, faults>>

Lookup(c) ==
    /\ chk[c].at = "lookup"
    /\ IF chk[c].state \in records THEN Stops(c) ELSE Goes(c, "notify")
    /\ UNCHANGED <<case, ledger, upd, now, faults>>

\* DUE_SOON goes to the owner.  The other two go to a group: to the addresses in
\* metadata.groupEmails, which escalate does not fill in.
Recipients(s) == IF s = "DUE_SOON" THEN 1 ELSE 0

Notify(c) ==
    /\ chk[c].at = "notify"
    /\ mails' = [mails EXCEPT ![chk[c].state] = @ + Recipients(chk[c].state)]
    /\ Goes(c, "record")
    /\ UNCHANGED <<case, records, upd, now, faults>>

Fault == faults < MaxFaults /\ faults' = faults + 1

\* Mutant: the failure is logged and the record made all the same.
NotifyFailsOn(c) ==
    /\ chk[c].at = "notify" /\ Recipients(chk[c].state) > 0
    /\ Fault
    /\ \E taken \in {0, 1} : mails' = [mails EXCEPT ![chk[c].state] = @ + taken]
    /\ Goes(c, "record")
    /\ UNCHANGED <<case, records, upd, now>>

\* createEmailTask throws, with or without having inserted the row.
NotifyFails(c) ==
    /\ chk[c].at = "notify" /\ Recipients(chk[c].state) > 0
    /\ Fault
    /\ \E taken \in {0, 1} : mails' = [mails EXCEPT ![chk[c].state] = @ + taken]
    /\ Stops(c)
    /\ UNCHANGED <<case, records, upd, now>>

\* A record that exists violates the unique constraint, and that is ignored.
Record(c) ==
    /\ chk[c].at = "record"
    /\ records' = records \union {chk[c].state}
    /\ Stops(c)
    /\ UNCHANGED <<case, mails, upd, now, faults>>

\* Another error of the database, or the process stops.
Lost(c) ==
    /\ chk[c].at # "idle"
    /\ Fault
    /\ Stops(c)
    /\ UNCHANGED <<case, ledger, upd, now>>

Hour ==
    /\ now < MaxTime
    /\ now' = now + 1
    /\ UNCHANGED <<case, ledger, upd, chk, faults>>

UpdateNext(u) ==
    \/ BeginRestart(u) \/ BeginReprioritise(u) \/ BeginComplete(u) \/ BeginPlain(u)
    \/ Restart(u) \/ Reprioritise(u) \/ Complete(u) \/ WritePlain(u)
CheckNext(c) ==
    StartCheck(c) \/ Lookup(c) \/ Notify(c) \/ NotifyFails(c) \/ Record(c) \/ Lost(c)
Next == Hour \/ (\E u \in Updates : UpdateNext(u)) \/ (\E c \in Checks : CheckNext(c))

Spec == Init /\ [][Next]_vars

\* The cron starts a check every hour, and the calls of a check return.
FairSpec ==
    /\ Spec
    /\ \A c \in Checks : WF_vars(StartCheck(c) \/ Lookup(c) \/ Notify(c) \/ Record(c))
-----------------------------------------------------------------------------
TypeOK ==
    /\ status \in Statuses /\ claimed \in BOOLEAN /\ priority \in Priorities
    /\ started \in Times /\ due \in Times
    /\ records \subseteq Escalated
    /\ mails \in [Escalated -> Nat]
    /\ upd \in [Updates -> Update]
    /\ chk \in [Checks -> Check]
    /\ now \in Nat /\ faults \in 0..MaxFaults

\* Between updates the deadline is the start of the clock plus what the policy
\* grants the priority, or there is neither: whatever mix of restarts, priority
\* changes and plain writes came before (updateCase).
DueFollowsClock ==
    (\A u \in Updates : upd[u].kind = "none") =>
        \/ started = NoTime /\ due = NoTime
        \/ started # NoTime /\ due = started + Target[priority]

\* A DUE_SOON record is never made without the owner's email having been queued
\* (escalate returns before it records when notifying fails).
DueSoonWasMailed == "DUE_SOON" \in records => mails["DUE_SOON"] > 0

\* Overlapping checks may each chase the owner once and every fault may repeat
\* it, but the ledger stops it there, however often the clock restarts.
ChasesBounded == mails["DUE_SOON"] <= Cardinality(Checks) + faults

\* A case past its deadline is recorded as breached unless it is closed or given
\* more time first: neither a crash nor an owner stops the escalation.
BreachIsRecorded ==
    (Watched /\ Breached) ~> ("BREACHED" \in records \/ ~Watched \/ ~Breached)

=============================================================================

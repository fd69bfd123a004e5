------------------------- MODULE SlaEscalationProofs -------------------------
(***************************************************************************)
(* Theorems of SlaEscalation, for any policy, any number of updates and of *)
(* checks, any length of time and any number of faults.  Updates touch the *)
(* case and checks touch the ledger, so each invariant is disturbed by one *)
(* kind of step only.                                                      *)
(***************************************************************************)
EXTENDS SlaEscalation, FiniteSetTheorems, TLAPS

\* A restart has taken the time before it writes it.
AnchorsTaken == \A u \in Updates : upd[u].kind = "restart" => upd[u].anchor \in Nat

TInv == TypeOK /\ AnchorsTaken

LEMMA InitTInv == Init => TInv
<1> SUFFICES ASSUME Init PROVE TInv
    OBVIOUS
<1>1. NoUpdate \in Update /\ NoCheck \in Check
    BY PolicyAssumption DEF NoUpdate, Update, Times, NoCheck, Check, Escalated
<1>2. Target[priority] \in Nat
    BY PolicyAssumption DEF Init
<1>3. status \in Statuses /\ started \in Times /\ due \in Times
    BY <1>2 DEF Init, Statuses, Times
<1>4. faults \in 0..MaxFaults /\ now \in Nat /\ mails \in [Escalated -> Nat]
    BY TimeAssumption DEF Init
<1>5. upd \in [Updates -> Update] /\ chk \in [Checks -> Check]
    BY <1>1 DEF Init
<1>6. TypeOK
    BY <1>3, <1>4, <1>5 DEF Init, TypeOK
<1> QED
    BY <1>6 DEF Init, TInv, AnchorsTaken, NoUpdate

LEMMA NextTInv == TInv /\ [Next]_vars => TInv'
<1> SUFFICES ASSUME TInv, [Next]_vars PROVE TInv'
    OBVIOUS
<1> USE DEF TInv
<1>1. ASSUME NEW u \in Updates, NEW k \in Kinds, NEW p \in Priorities,
             NEW s \in BOOLEAN, Begins(u, k, p, s)
      PROVE  TInv'
    <2> DEFINE new == [kind |-> k, to |-> p, sets |-> s, anchor |-> Anchor(k)]
    <2>1. Anchor(k) \in Times /\ (k = "restart" => Anchor(k) \in Nat)
        BY DEF Anchor, TypeOK, Times
    <2>2. new \in Update
        BY <2>1 DEF Update
    <2>3. upd' = [upd EXCEPT ![u] = new]
        BY <1>1 DEF Begins
    <2>4. TypeOK'
        BY <1>1, <2>2, <2>3 DEF Begins, TypeOK, case, ledger
    <2>5. AnchorsTaken'
        BY <2>1, <2>3 DEF TypeOK, AnchorsTaken
    <2> QED
        BY <2>4, <2>5
<1>2. ASSUME NEW u \in Updates, Ends(u),
             status' \in Statuses, claimed' \in BOOLEAN, priority' \in Priorities,
             started' \in Times, due' \in Times, UNCHANGED <<ledger, chk, now, faults>>
      PROVE  TInv'
    <2>1. NoUpdate \in Update /\ NoUpdate.kind # "restart"
        BY PolicyAssumption DEF NoUpdate, Update, Times
    <2>2. TypeOK'
        BY <1>2, <2>1 DEF Ends, TypeOK, ledger
    <2>3. AnchorsTaken'
        BY <1>2, <2>1 DEF Ends, TypeOK, AnchorsTaken
    <2> QED
        BY <2>2, <2>3
<1>3. \A u \in Updates :
        /\ SetsPriority(u) => priority' \in Priorities
        /\ upd[u].anchor \in Nat => Deadline(u) \in Times
    BY PolicyAssumption DEF TypeOK, Update, SetsPriority, Deadline, Times
<1>4. ASSUME NEW u \in Updates, UpdateNext(u) PROVE TInv'
    <2>1. CASE BeginRestart(u)
        BY <2>1, <1>1 DEF BeginRestart, TypeOK, Kinds
    <2>2. CASE BeginReprioritise(u)
        BY <2>2, <1>1 DEF BeginReprioritise, Kinds
    <2>3. CASE BeginComplete(u)
        BY <2>3, <1>1 DEF BeginComplete, Kinds
    <2>4. CASE BeginPlain(u)
        BY <2>4, <1>1 DEF BeginPlain, TypeOK, Kinds
    <2>5. CASE Restart(u)
        <3>1. upd[u].anchor \in Nat /\ claimed \in BOOLEAN
            BY <2>5 DEF Restart, AnchorsTaken, TypeOK
        <3> QED
            BY <2>5, <3>1, <1>2, <1>3 DEF Restart, Statuses, Times
    <2>6. CASE Reprioritise(u)
        <3>1. upd[u].anchor \in Times
            BY DEF TypeOK, Update
        <3>2. due' \in Times
            BY <2>6, <3>1, <1>3 DEF Reprioritise, TypeOK, Times
        <3> QED
            BY <2>6, <3>2, <1>2, <1>3 DEF Reprioritise, TypeOK
    <2>7. CASE Complete(u)
        BY <2>7, <1>2, <1>3 DEF Complete, TypeOK, Statuses
    <2>8. CASE WritePlain(u)
        BY <2>8, <1>2 DEF WritePlain, TypeOK, Statuses
    <2> QED
        BY <1>4, <2>1, <2>2, <2>3, <2>4, <2>5, <2>6, <2>7, <2>8 DEF UpdateNext
<1>5. ASSUME NEW c \in Checks, CheckNext(c) PROVE TInv'
    <2>1. ASSUME NEW n \in Check, chk' = [chk EXCEPT ![c] = n],
                 records' \subseteq Escalated, mails' \in [Escalated -> Nat],
                 faults' \in 0..MaxFaults, UNCHANGED <<case, upd, now>>
          PROVE  TInv'
        BY <2>1 DEF TypeOK, AnchorsTaken, case
    <2>2. chk[c] \in Check /\ NoCheck \in Check
        BY DEF TypeOK, Check, NoCheck, Escalated
    <2>3. Fault => faults' \in 0..MaxFaults
        BY TimeAssumption DEF Fault, TypeOK
    <2>4. \A step \in {"lookup", "notify", "record"} :
            Goes(c, step) => chk' = [chk EXCEPT ![c] = [@ EXCEPT !.at = step]]
        BY DEF Goes
    <2>5. \A step \in {"lookup", "notify", "record"} :
            [chk[c] EXCEPT !.at = step] \in Check
        BY <2>2 DEF Check
    <2>6. CASE StartCheck(c)
        <3>1. PICK s \in Escalation : chk' = [chk EXCEPT ![c] = [at |-> "lookup", state |-> s]]
            BY <2>6 DEF StartCheck
        <3>2. [at |-> "lookup", state |-> s] \in Check
            BY DEF Escalation, Check
        <3> QED
            BY <2>6, <3>1, <3>2, <2>1 DEF StartCheck, TypeOK, ledger
    <2>7. CASE Lookup(c)
        BY <2>7, <2>1, <2>2, <2>4, <2>5 DEF Lookup, Stops, TypeOK, ledger
    <2>8. CASE Notify(c)
        <3>1. Recipients(chk[c].state) \in Nat
            BY DEF Recipients
        <3>2. mails' \in [Escalated -> Nat]
            BY <2>8, <3>1, <2>2 DEF Notify, TypeOK, Check
        <3> QED
            BY <2>8, <3>2, <2>1, <2>4, <2>5 DEF Notify, TypeOK
    <2>9. CASE NotifyFails(c)
        <3>1. mails' \in [Escalated -> Nat]
            BY <2>9, <2>2 DEF NotifyFails, TypeOK, Check
        <3> QED
            BY <2>9, <3>1, <2>1, <2>2, <2>3 DEF NotifyFails, Stops, TypeOK
    <2>10. CASE Record(c)
        BY <2>10, <2>1, <2>2 DEF Record, Stops, TypeOK, Check
    <2>11. CASE Lost(c)
        BY <2>11, <2>1, <2>2, <2>3 DEF Lost, Stops, TypeOK, ledger
    <2> QED
        BY <1>5, <2>6, <2>7, <2>8, <2>9, <2>10, <2>11 DEF CheckNext
<1>6. CASE Hour
    BY <1>6 DEF Hour, TypeOK, AnchorsTaken, case, ledger
<1>7. CASE UNCHANGED vars
    BY <1>7 DEF vars, TypeOK, AnchorsTaken
<1> QED
    BY <1>4, <1>5, <1>6, <1>7 DEF Next

\* The types hold in every run.
THEOREM ClockTypeCorrect == Spec => []TypeOK
<1>1. Spec => []TInv
    BY InitTInv, NextTInv, PTL DEF Spec
<1> QED
    BY <1>1, PTL DEF TInv
-----------------------------------------------------------------------------
(***************************************************************************)
(* The ledger.  Seen as a sum, the chases an owner has been sent are paid  *)
(* for by checks that have yet to record one, and by faults; once it is    *)
(* recorded, only the checks that had looked it up before can add to them. *)
(***************************************************************************)
Chase == "DUE_SOON"
At(step) == {c \in Checks : chk[c].at = step /\ chk[c].state = Chase}

LedgerInv ==
    /\ Chase \in records \/ At("record") # {} => mails[Chase] > 0
    /\ Chase \notin records => mails[Chase] <= Cardinality(At("record")) + faults
    /\ Chase \in records =>
         mails[Chase] + Cardinality(At("notify")) <= Cardinality(Checks) + faults

LEMMA InitLedger ==
    ASSUME Init, IsFiniteSet(Checks) PROVE LedgerInv
<1>1. At("record") = {} /\ At("notify") = {} /\ mails[Chase] = 0 /\ records = {} /\ faults = 0
    BY DEF Init, At, NoCheck, Chase, Escalated
<1>2. Cardinality({}) = 0
    BY FS_EmptySet
<1> QED
    BY <1>1, <1>2 DEF LedgerInv

LEMMA AtFinite ==
    ASSUME IsFiniteSet(Checks)
    PROVE  /\ IsFiniteSet(At("record")) /\ IsFiniteSet(At("notify"))
           /\ Cardinality(At("record")) \in Nat /\ Cardinality(At("notify")) \in Nat
           /\ Cardinality(Checks) \in Nat
           /\ Cardinality(At("record")) + Cardinality(At("notify")) <= Cardinality(Checks)
<1>1. At("record") \in SUBSET Checks /\ At("notify") \in SUBSET Checks
    BY DEF At
<1>2. /\ IsFiniteSet(At("record")) /\ IsFiniteSet(At("notify"))
      /\ Cardinality(At("record")) \in Nat /\ Cardinality(At("notify")) \in Nat
      /\ Cardinality(Checks) \in Nat
    BY <1>1, FS_Subset, FS_CardinalityType
<1>3. At("record") \cap At("notify") = {}
    BY DEF At
<1>4. Cardinality(At("record") \cup At("notify"))
        = Cardinality(At("record")) + Cardinality(At("notify"))
    BY <1>2, <1>3, FS_Union, FS_EmptySet
<1>5. At("record") \cup At("notify") \in SUBSET Checks
    BY <1>1
<1>6. Cardinality(At("record") \cup At("notify")) <= Cardinality(Checks)
    BY <1>5, FS_Subset
<1> QED
    BY <1>2, <1>4, <1>6

\* A check that stops is in neither set; the others are where they were.
LEMMA AtStops ==
    ASSUME TInv, NEW c \in Checks, Stops(c), NEW step \in {"notify", "record"}
    PROVE  At(step)' = At(step) \ {c}
BY DEF TInv, TypeOK, Stops, NoCheck, At

LEMMA AtGoes ==
    ASSUME TInv, NEW c \in Checks, NEW to \in {"notify", "record"}, Goes(c, to),
           NEW step \in {"notify", "record"}
    PROVE  At(step)' = IF step = to /\ chk[c].state = Chase
                       THEN At(step) \union {c} ELSE At(step) \ {c}
<1>1. chk' = [chk EXCEPT ![c].at = to] /\ chk \in [Checks -> Check]
    BY DEF Goes, TInv, TypeOK
<1>2. \A d \in Checks : chk'[d].at = (IF d = c THEN to ELSE chk[d].at)
                       /\ chk'[d].state = chk[d].state
    BY <1>1 DEF Check
<1> QED
    BY <1>2 DEF At

LEMMA NextLedger ==
    ASSUME TInv, LedgerInv, [Next]_vars, IsFiniteSet(Checks)
    PROVE  LedgerInv'
<1>1. TypeOK /\ TInv'
    BY NextTInv DEF TInv
<1>2. /\ mails[Chase] \in Nat /\ mails'[Chase] \in Nat /\ faults \in Nat /\ faults' \in Nat
    BY <1>1, TimeAssumption DEF TInv, TypeOK, Chase, Escalated
<1> DEFINE R == Cardinality(At("record"))
           N == Cardinality(At("notify"))
           C == Cardinality(Checks)
<1>3. /\ R \in Nat /\ N \in Nat /\ C \in Nat /\ R + N <= C
      /\ IsFiniteSet(At("record")) /\ IsFiniteSet(At("notify"))
    BY AtFinite
<1>4. ASSUME UNCHANGED <<records, mails, chk, faults>> PROVE LedgerInv'
    BY <1>4 DEF LedgerInv, At
<1>5. ASSUME NEW c \in Checks, CheckNext(c) PROVE LedgerInv'
    <2>1. \A step \in {"notify", "record"} :
            /\ Cardinality(At(step) \ {c}) =
                 IF c \in At(step) THEN Cardinality(At(step)) - 1 ELSE Cardinality(At(step))
            /\ Cardinality(At(step) \union {c}) =
                 IF c \in At(step) THEN Cardinality(At(step)) ELSE Cardinality(At(step)) + 1
        BY <1>3, FS_RemoveElement, FS_AddElement
    <2>2. c \in At("record") => R > 0
        BY <1>3, FS_EmptySet
    <2>3. CASE StartCheck(c)
        <3>1. At("record")' = At("record") /\ At("notify")' = At("notify")
            BY <2>3, <1>1 DEF StartCheck, At, TypeOK
        <3> QED
            BY <2>3, <3>1 DEF StartCheck, LedgerInv, ledger
    <2>4. CASE Lookup(c) /\ chk[c].state \in records
        <3>1. /\ At("record")' = At("record") \ {c} /\ At("notify")' = At("notify") \ {c}
              /\ c \notin At("record") /\ c \notin At("notify")
            BY <2>4, AtStops DEF Lookup, At
        <3>2. At("record")' = At("record") /\ At("notify")' = At("notify")
            BY <3>1
        <3> QED
            BY <2>4, <3>2 DEF Lookup, LedgerInv, ledger
    <2>5. CASE Lookup(c) /\ chk[c].state \notin records
        <3>1. At("record")' = At("record") \ {c} /\ c \notin At("record")
            BY <2>5, AtGoes DEF Lookup, At
        <3>2. Chase \in records => At("notify")' = At("notify") \ {c} /\ c \notin At("notify")
            BY <2>5, AtGoes DEF Lookup, At
        <3>3. At("record")' = At("record")
            BY <3>1
        <3>4. Chase \in records => At("notify")' = At("notify")
            BY <3>2
        <3> QED
            BY <2>5, <3>3, <3>4 DEF Lookup, LedgerInv, ledger
    <2>6. CASE Notify(c) /\ chk[c].state = Chase
        <3>1. /\ At("record")' = At("record") \union {c} /\ At("notify")' = At("notify") \ {c}
              /\ c \notin At("record") /\ c \in At("notify")
            BY <2>6, AtGoes DEF Notify, At
        <3>2. mails'[Chase] = mails[Chase] + 1
            BY <2>6, <1>1 DEF Notify, Recipients, TypeOK, Chase, Escalated
        <3>3. Cardinality(At("record")') = R + 1 /\ Cardinality(At("notify")') = N - 1
            BY <3>1, <2>1
        <3> QED
            BY <2>6, <3>2, <3>3, <1>2, <1>3 DEF Notify, LedgerInv
    <2>7. CASE Notify(c) /\ chk[c].state # Chase
        <3>1. /\ At("record")' = At("record") \ {c} /\ At("notify")' = At("notify") \ {c}
              /\ c \notin At("record") /\ c \notin At("notify")
            BY <2>7, AtGoes DEF Notify, At
        <3>2. At("record")' = At("record") /\ At("notify")' = At("notify")
            BY <3>1
        <3>3. mails'[Chase] = mails[Chase]
            BY <2>7, <1>1 DEF Notify, TypeOK, Chase, Escalated
        <3> QED
            BY <2>7, <3>2, <3>3 DEF Notify, LedgerInv
    <2>8. CASE NotifyFails(c)
        <3>1. /\ At("record")' = At("record") \ {c} /\ At("notify")' = At("notify") \ {c}
              /\ c \notin At("record")
            BY <2>8, AtStops DEF NotifyFails, At
        <3>2. chk[c].state = Chase /\ c \in At("notify")
            BY <2>8 DEF NotifyFails, Recipients, Chase, At
        <3>3. \E taken \in {0, 1} : mails'[Chase] = mails[Chase] + taken
            BY <2>8, <3>2, <1>1 DEF NotifyFails, TypeOK, Chase, Escalated
        <3>4. At("record")' = At("record") /\ Cardinality(At("notify")') = N - 1
            BY <3>1, <3>2, <2>1
        <3> QED
            BY <2>8, <3>3, <3>4, <1>2, <1>3 DEF NotifyFails, Fault, LedgerInv
    <2>9. CASE Record(c)
        <3>1. /\ At("record")' = At("record") \ {c} /\ At("notify")' = At("notify") \ {c}
              /\ c \notin At("notify")
            BY <2>9, AtStops DEF Record, At
        <3>2. At("notify")' = At("notify")
            BY <3>1
        <3>3. CASE chk[c].state = Chase
            <4>1. mails[Chase] > 0
                BY <2>9, <3>3 DEF Record, LedgerInv, At
            <4>2. mails[Chase] + N <= C + faults
                BY <1>2, <1>3 DEF LedgerInv
            <4> QED
                BY <2>9, <3>2, <3>3, <4>1, <4>2 DEF Record, LedgerInv
        <3>4. CASE chk[c].state # Chase
            <4>1. At("record")' = At("record")
                BY <3>1, <3>4 DEF At
            <4>2. Chase \in records' <=> Chase \in records
                BY <2>9, <3>4 DEF Record
            <4> QED
                BY <2>9, <3>2, <4>1, <4>2 DEF Record, LedgerInv
        <3> QED
            BY <3>3, <3>4
    <2>10. CASE Lost(c)
        <3>1. At("record")' = At("record") \ {c} /\ At("notify")' = At("notify") \ {c}
            BY <2>10, AtStops DEF Lost
        <3>2. /\ Cardinality(At("record")') \in {R, R - 1}
              /\ Cardinality(At("notify")') \in {N, N - 1}
              /\ At("record")' # {} => At("record") # {}
            BY <3>1, <2>1
        <3> QED
            BY <2>10, <3>2, <1>2, <1>3 DEF Lost, Fault, LedgerInv, ledger
    <2> QED
        BY <1>5, <2>3, <2>4, <2>5, <2>6, <2>7, <2>8, <2>9, <2>10 DEF CheckNext
<1>6. ASSUME NEW u \in Updates, UpdateNext(u) PROVE LedgerInv'
    BY <1>6, <1>4
       DEF UpdateNext, BeginRestart, BeginReprioritise, BeginComplete, BeginPlain, Begins,
           Restart, Reprioritise, Complete, WritePlain, ledger
<1>7. CASE Hour
    BY <1>7, <1>4 DEF Hour, ledger
<1>8. CASE UNCHANGED vars
    BY <1>8, <1>4 DEF vars
<1> QED
    BY <1>5, <1>6, <1>7, <1>8 DEF Next

\* Whoever owns a case recorded as due soon has been mailed.
THEOREM DueSoonAlwaysMailed == IsFiniteSet(Checks) => (Spec => []DueSoonWasMailed)
<1> SUFFICES ASSUME IsFiniteSet(Checks) PROVE Spec => []DueSoonWasMailed
    OBVIOUS
<1>1. Init => TInv /\ LedgerInv
    BY InitTInv, InitLedger
<1>2. TInv /\ LedgerInv /\ [Next]_vars => (TInv /\ LedgerInv)'
    BY NextTInv, NextLedger
<1>3. LedgerInv => DueSoonWasMailed
    BY DEF LedgerInv, DueSoonWasMailed, Chase
<1> QED
    BY <1>1, <1>2, <1>3, PTL DEF Spec

\* However often the clock restarts, the owner is chased at most once by each check
\* that can be in progress, and once more for each fault.
THEOREM ChasesAlwaysBounded == IsFiniteSet(Checks) => (Spec => []ChasesBounded)
<1> SUFFICES ASSUME IsFiniteSet(Checks) PROVE Spec => []ChasesBounded
    OBVIOUS
<1>1. Init => TInv /\ LedgerInv
    BY InitTInv, InitLedger
<1>2. TInv /\ LedgerInv /\ [Next]_vars => (TInv /\ LedgerInv)'
    BY NextTInv, NextLedger
<1>3. TInv /\ LedgerInv => ChasesBounded
    <2> SUFFICES ASSUME TInv, LedgerInv PROVE ChasesBounded
        OBVIOUS
    <2>1. mails[Chase] \in Nat /\ faults \in Nat
        BY TimeAssumption DEF TInv, TypeOK, Chase, Escalated
    <2> QED
        BY <2>1, AtFinite DEF LedgerInv, ChasesBounded, Chase
<1> QED
    BY <1>1, <1>2, <1>3, PTL DEF Spec
-----------------------------------------------------------------------------
(***************************************************************************)
(* The clock, when updates of the case do not overlap: what an update has  *)
(* read is then still so when it writes.                                   *)
(***************************************************************************)
OneAtATime == \A u, v \in Updates : u = v

ClockOK == \/ started = NoTime /\ due = NoTime
           \/ started \in Nat /\ due = started + Target[priority]

\* What an update has read of the case.
ReadOK(r) ==
    /\ r.kind = "restart" => r.sets \/ r.to = priority
    /\ r.kind = "reprioritise" => r.sets /\ r.anchor = started
    /\ r.kind = "complete" => started = NoTime
    /\ r.kind \in {"claim", "release", "close"} => ~r.sets

ClockInv ==
    /\ ClockOK
    /\ status = "DRAFT" => started = NoTime
    /\ \A u \in Updates : ReadOK(upd[u])

LEMMA InitClock == Init => ClockInv
<1> SUFFICES ASSUME Init PROVE ClockInv
    OBVIOUS
<1>1. ClockOK
    <2>1. Target[priority] \in Nat
        BY PolicyAssumption DEF Init
    <2> QED
        BY <2>1 DEF Init, ClockOK
<1>2. \A u \in Updates : ReadOK(upd[u])
    BY DEF Init, ReadOK, NoUpdate
<1> QED
    BY <1>1, <1>2 DEF Init, ClockInv

LEMMA NextClock ==
    ASSUME TInv, ClockInv, [Next]_vars, OneAtATime
    PROVE  ClockInv'
<1>1. TypeOK /\ NoTime \notin Nat
    BY TimeAssumption DEF TInv
<1>2. ASSUME UNCHANGED <<case, upd>> PROVE ClockInv'
    BY <1>2 DEF case, ClockInv, ClockOK, ReadOK
<1>3. ASSUME NEW u \in Updates, NEW k \in Kinds, NEW p \in Priorities,
             NEW s \in BOOLEAN, Begins(u, k, p, s),
             ReadOK([kind |-> k, to |-> p, sets |-> s, anchor |-> Anchor(k)])
      PROVE  ClockInv'
    <2>1. \A v \in Updates :
            upd'[v] = [kind |-> k, to |-> p, sets |-> s, anchor |-> Anchor(k)]
        BY <1>1, <1>3 DEF OneAtATime, Begins, TypeOK
    <2>2. UNCHANGED <<status, priority, started, due>>
        BY <1>3 DEF Begins, case
    <2>3. \A v \in Updates : ReadOK(upd'[v])
        BY <1>3, <2>1
    <2>4. (\A v \in Updates : ReadOK(upd[v]))'
        BY <2>2, <2>3 DEF ReadOK
    <2> QED
        BY <2>2, <2>4 DEF ClockInv, ClockOK
<1>4. ASSUME NEW u \in Updates, Ends(u), ClockOK', status' # "DRAFT" \/ started' = NoTime
      PROVE  ClockInv'
    <2>1. \A v \in Updates : upd'[v] = NoUpdate
        BY <1>1, <1>4 DEF OneAtATime, Ends, TypeOK
    <2>2. NoUpdate.kind = "none"
        BY DEF NoUpdate
    <2>3. (\A v \in Updates : ReadOK(upd[v]))'
        BY <2>1, <2>2 DEF ReadOK
    <2> QED
        BY <1>4, <2>3 DEF ClockInv
<1>5. ASSUME NEW u \in Updates, UpdateNext(u) PROVE ClockInv'
    <2>1. CASE BeginRestart(u)
        <3>1. CASE Begins(u, "restart", priority, FALSE)
            <4>1. ReadOK([kind |-> "restart", to |-> priority, sets |-> FALSE,
                          anchor |-> Anchor("restart")])
                BY DEF ReadOK
            <4> QED
                BY <3>1, <4>1, <1>1, <1>3 DEF Kinds, TypeOK
        <3>2. ASSUME NEW p \in Priorities, Begins(u, "restart", p, TRUE) PROVE ClockInv'
            <4>1. ReadOK([kind |-> "restart", to |-> p, sets |-> TRUE,
                          anchor |-> Anchor("restart")])
                BY DEF ReadOK
            <4> QED
                BY <3>2, <4>1, <1>3 DEF Kinds
        <3> QED
            BY <2>1, <3>1, <3>2 DEF BeginRestart
    <2>2. CASE BeginReprioritise(u)
        <3>1. PICK p \in Priorities : Begins(u, "reprioritise", p, TRUE)
            BY <2>2 DEF BeginReprioritise
        <3>2. ReadOK([kind |-> "reprioritise", to |-> p, sets |-> TRUE,
                      anchor |-> Anchor("reprioritise")])
            BY DEF ReadOK, Anchor
        <3> QED
            BY <3>1, <3>2, <1>3 DEF Kinds
    <2>3. CASE BeginComplete(u)
        <3>1. PICK p \in Priorities, s \in BOOLEAN : Begins(u, "complete", p, s)
            BY <2>3 DEF BeginComplete
        <3>2. started = NoTime
            BY <3>1 DEF Begins, From, ClockInv
        <3>3. ReadOK([kind |-> "complete", to |-> p, sets |-> s,
                      anchor |-> Anchor("complete")])
            BY <3>2 DEF ReadOK
        <3> QED
            BY <3>1, <3>3, <1>3 DEF Kinds
    <2>4. CASE BeginPlain(u)
        <3>1. PICK k \in {"claim", "release", "close"} : Begins(u, k, priority, FALSE)
            BY <2>4 DEF BeginPlain
        <3>2. ReadOK([kind |-> k, to |-> priority, sets |-> FALSE, anchor |-> Anchor(k)])
            BY DEF ReadOK
        <3> QED
            BY <3>1, <3>2, <1>1, <1>3 DEF Kinds, TypeOK
    <2>5. CASE Restart(u)
        <3>1. upd[u].anchor \in Nat /\ priority' = upd[u].to
            BY <2>5 DEF Restart, SetsPriority, ClockInv, ReadOK, TInv, AnchorsTaken
        <3> QED
            BY <2>5, <3>1, <1>4 DEF Restart, Deadline, ClockOK
    <2>6. CASE Reprioritise(u)
        <3>1. upd[u].anchor = started /\ priority' = upd[u].to
            BY <2>6 DEF Reprioritise, SetsPriority, ClockInv, ReadOK
        <3>2. ClockOK'
            BY <2>6, <3>1, <1>1 DEF Reprioritise, Deadline, ClockInv, ClockOK
        <3> QED
            BY <2>6, <3>2, <1>4 DEF Reprioritise, ClockInv
    <2>7. CASE Complete(u)
        <3>1. started = NoTime /\ due = NoTime
            BY <2>7, <1>1 DEF Complete, ClockInv, ClockOK, ReadOK
        <3> QED
            BY <2>7, <3>1, <1>4 DEF Complete, ClockOK
    <2>8. CASE WritePlain(u)
        BY <2>8, <1>4 DEF WritePlain, ClockInv, ClockOK
    <2> QED
        BY <1>5, <2>1, <2>2, <2>3, <2>4, <2>5, <2>6, <2>7, <2>8 DEF UpdateNext
<1>6. ASSUME NEW c \in Checks, CheckNext(c) PROVE ClockInv'
    BY <1>6, <1>2
       DEF CheckNext, StartCheck, Lookup, Notify, NotifyFails, Record, Lost
<1>7. CASE Hour
    BY <1>7, <1>2 DEF Hour
<1>8. CASE UNCHANGED vars
    BY <1>8, <1>2 DEF vars, case
<1> QED
    BY <1>5, <1>6, <1>7, <1>8 DEF Next

\* When updates of a case do not overlap, its deadline always is the start of its
\* clock plus what the policy grants its priority.
THEOREM DueAlwaysFollowsClock == OneAtATime => (Spec => []DueFollowsClock)
<1> SUFFICES ASSUME OneAtATime PROVE Spec => []DueFollowsClock
    OBVIOUS
<1>1. Init => TInv /\ ClockInv
    BY InitTInv, InitClock
<1>2. TInv /\ ClockInv /\ [Next]_vars => (TInv /\ ClockInv)'
    BY NextTInv, NextClock
<1>3. ClockInv => DueFollowsClock
    BY TimeAssumption DEF ClockInv, ClockOK, DueFollowsClock
<1> QED
    BY <1>1, <1>2, <1>3, PTL DEF Spec
=============================================================================

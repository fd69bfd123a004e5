------------------------- MODULE CaseReportsProofs --------------------------
(***************************************************************************)
(* The scopes of the lists and reports nest and their figures add up, for  *)
(* any staff, any windows and any number of rows, changes and days.        *)
(*                                                                         *)
(* A report that is read off a row cannot tell how the row came to be: that *)
(* nobody owns a case which the AI closed as refuted, or that a container  *)
(* is either unsplit or abandoned, is not in any query.  It is what the    *)
(* handlers leave behind, and the inductive invariant says it of each row  *)
(* (RowSound).  That of a dashboard (DInv) says how far what it has read   *)
(* is from what it would read now: no further than the rows written.       *)
(***************************************************************************)
EXTENDS CaseReports, TLAPS, SequenceTheorems, FunctionTheorems, FiniteSetTheorems

TypeOK ==
    /\ cases \in Seq(Row)
    /\ today \in 0..MaxDay
    /\ changes \in 0..MaxChanges

\* A container is split before it is worked on; what waits for an approval has a
\* type; and an alert's case is nobody's until somebody takes it on.
RowSound(x) ==
    /\ x.type = "FRAUD_AND_AML" => x.status \in {"DRAFT", "PENDING", "ABANDONED"}
    /\ x.status = "PENDING" => x.type # NoType
    /\ (x.status = "DRAFT" /\ x.type = NoType) \/ x.status = "AUTO_REFUTED"
           => x.owner = NoUser /\ x.workers = {}

Sound == {x \in Row : RowSound(x)}

RInv == /\ cases \in Seq(Sound)
        /\ today \in 0..MaxDay
        /\ changes \in 0..MaxChanges
-----------------------------------------------------------------------------
(***************************************************************************)
(* Changes.                                                                *)
(***************************************************************************)
\* A change that commits sound rows keeps the invariant: the stamp of the day says
\* nothing about who may see them.
LEMMA CommitKeeps ==
    ASSUME RInv, NEW new \in Seq(Sound), Changed(new)
    PROVE  RInv'
<1>1. DOMAIN new = 1..Len(new) /\ Len(new) \in Nat
    OBVIOUS
<1>2. ASSUME NEW x \in Sound
      PROVE  [x EXCEPT !.updated = today] \in Sound
    BY DEF RInv, Sound, Row, RowSound
<1>3. \A c \in 1..Len(new) : new[c] \in Sound
    BY <1>1
<1>4. cases' \in [1..Len(new) -> Sound]
    BY <1>2, <1>3 DEF Changed
<1>5. cases' \in Seq(Sound)
    BY <1>1, <1>4
<1>6. changes' \in 0..MaxChanges
    BY TableAssumption DEF RInv, Changed
<1> QED
    BY <1>5, <1>6 DEF RInv, Changed

\* A row that is inserted, and one that is rewritten.
LEMMA InsertSound ==
    ASSUME NEW S \in Seq(Sound), NEW x \in Sound
    PROVE  Append(S, x) \in Seq(Sound)
OBVIOUS

LEMMA NewRowSound ==
    ASSUME RInv, NEW s \in Statuses, NEW t \in CaseTypes \union {NoType},
           NEW o \in Users \union {NoUser}, NEW by \in Users \union {NoUser},
           NEW w \in SUBSET (Users \union {NoUser}), RowSound(NewRow(s, t, o, by, w))
    PROVE  NewRow(s, t, o, by, w) \in Sound
BY DEF RInv, Sound, Row, NewRow

LEMMA RewriteSound ==
    ASSUME RInv, NEW c \in CaseIds, NEW x \in Sound
    PROVE  [cases EXCEPT ![c] = x] \in Seq(Sound)
<1>1. cases \in [1..Len(cases) -> Sound] /\ Len(cases) \in Nat
    BY DEF RInv
<1>2. [cases EXCEPT ![c] = x] \in [1..Len(cases) -> Sound]
    BY <1>1
<1> QED
    BY <1>1, <1>2

\* A change of fields of a row is the row rewritten.
Like(x, s, t, o, w) == [x EXCEPT !.status = s, !.type = t, !.owner = o, !.workers = w]

LEMMA LikeSound ==
    ASSUME NEW x \in Sound, NEW s \in Statuses, NEW t \in CaseTypes \union {NoType},
           NEW o \in Users \union {NoUser}, NEW w \in SUBSET (Users \union {NoUser}), RowSound(Like(x, s, t, o, w))
    PROVE  Like(x, s, t, o, w) \in Sound
BY DEF Sound, Row, Like

LEMMA RowOfCase ==
    ASSUME RInv, NEW c \in CaseIds
    PROVE  cases[c] \in Sound /\ cases[c] \in Row /\ RowSound(cases[c])
BY DEF RInv, CaseIds, Sound

LEMMA RowFields ==
    ASSUME RInv, NEW c \in CaseIds
    PROVE  /\ cases[c].status \in Statuses
           /\ cases[c].type \in CaseTypes \union {NoType}
           /\ cases[c].owner \in Users \union {NoUser}
           /\ cases[c].workers \in SUBSET (Users \union {NoUser})
BY RowOfCase DEF Row

\* Rewriting the row of a case to a sound one keeps the invariant.
LEMMA UpdateKeeps ==
    ASSUME RInv, NEW c \in CaseIds, NEW s \in Statuses, NEW t \in CaseTypes \union {NoType},
           NEW o \in Users \union {NoUser}, NEW w \in SUBSET (Users \union {NoUser}),
           RowSound(Like(cases[c], s, t, o, w)),
           Changed([cases EXCEPT ![c] = Like(cases[c], s, t, o, w)])
    PROVE  RInv'
BY RowOfCase, LikeSound, RewriteSound, CommitKeeps

-----------------------------------------------------------------------------
LEMMA ArriveKeeps == ASSUME RInv, Arrive PROVE RInv'
<1>1. NewRow("DRAFT", NoType, NoUser, NoUser, {}) \in Sound
    BY NewRowSound DEF NewRow, RowSound, Statuses, NoType
<1> QED
    BY <1>1, InsertSound, CommitKeeps DEF Arrive, RInv

LEMMA SaveKeeps ==
    ASSUME RInv, NEW u \in Users, NEW t \in {"FRAUD", "FRAUD_AND_AML"}, Save(u, t)
    PROVE  RInv'
<1>1. NewRow("DRAFT", t, u, u, {u}) \in Sound
    BY NewRowSound DEF NewRow, RowSound, Statuses, CaseTypes, NoType
<1> QED
    BY <1>1, InsertSound, CommitKeeps DEF Save, RInv

LEMMA FileKeeps ==
    ASSUME RInv, NEW u \in Users, NEW t \in {"FRAUD", "FRAUD_AND_AML"}, File(u, t)
    PROVE  RInv'
<1>1. NewRow("PENDING", t, NoUser, u, {}) \in Sound
    BY NewRowSound DEF NewRow, RowSound, Statuses, CaseTypes, NoType
<1>2. \A k \in {"FRAUD", "AML"} : NewRow("READY", k, u, u, {}) \in Sound
    BY NewRowSound DEF NewRow, RowSound, Statuses, CaseTypes, NoType
<1>3. /\ <<NewRow("READY", "FRAUD", u, u, {}), NewRow("READY", "AML", u, u, {})>> \in Seq(Sound)
      /\ t = "FRAUD" => <<NewRow("READY", t, u, u, {})>> \in Seq(Sound)
    BY <1>2
<1>4. \A S \in Seq(Sound) : cases \o S \in Seq(Sound)
    BY DEF RInv
<1> QED
    BY <1>1, <1>3, <1>4, InsertSound, CommitKeeps DEF File, RInv

LEMMA SplitKeeps ==
    ASSUME RInv, NEW c \in CaseIds, Split(c),
           cases[c].status \in {"DRAFT", "PENDING"}
    PROVE  RInv'
<1> DEFINE x == [cases[c] EXCEPT !.status = "READY", !.type = "FRAUD"]
<1>1. PICK o \in {NoUser, cases[c].owner} :
          Changed(Append([cases EXCEPT ![c].status = "READY", ![c].type = "FRAUD"],
                         NewRow("READY", "AML", o, NoUser, {})))
    BY DEF Split
<1>2. NewRow("READY", "AML", o, NoUser, {}) \in Sound
    <2>1. o \in Users \union {NoUser}
        BY RowFields
    <2>2. RowSound(NewRow("READY", "AML", o, NoUser, {}))
        BY DEF NewRow, RowSound
    <2> QED
        BY <2>1, <2>2, NewRowSound DEF Statuses, CaseTypes
<1>3. x \in Sound
    BY ZenonT(60), RowOfCase DEF Sound, Row, RowSound, Statuses, CaseTypes
<1>4. [cases EXCEPT ![c].status = "READY", ![c].type = "FRAUD"] = [cases EXCEPT ![c] = x]
    BY RowOfCase DEF RInv, CaseIds, Row
<1> QED
    BY <1>1, <1>2, <1>3, <1>4, RewriteSound, InsertSound, CommitKeeps

LEMMA CompleteKeeps ==
    ASSUME RInv, NEW c \in CaseIds, NEW u \in Users, NEW t \in {"FRAUD", "FRAUD_AND_AML"},
           Complete(c, u, t)
    PROVE  RInv'
<1> DEFINE x(s) == Like(cases[c], s, t, cases[c].owner, cases[c].workers)
<1>1. \A s \in {"PENDING", "READY"} :
          [cases EXCEPT ![c].status = s, ![c].type = t] = [cases EXCEPT ![c] = x(s)]
    BY RowOfCase DEF RInv, CaseIds, Row, Like
<1>2. /\ RowSound(x("PENDING"))
      /\ t # "FRAUD_AND_AML" => RowSound(x("READY"))
    BY RowOfCase DEF RowSound, Like, Row, NoType
<1>3. CASE u \in Investigators
    <2>1. Changed([cases EXCEPT ![c] = x("PENDING")])
        BY <1>1, <1>3 DEF Complete
    <2>2. "PENDING" \in Statuses /\ t \in CaseTypes \union {NoType}
        BY DEF Statuses, CaseTypes
    <2> QED
        BY ZenonT(60), <1>2, <2>1, <2>2, RowFields, UpdateKeeps
<1>4. CASE u \notin Investigators /\ t = "FRAUD_AND_AML"
    BY <1>4, SplitKeeps DEF Complete
<1>5. CASE u \notin Investigators /\ t # "FRAUD_AND_AML"
    <2>1. Changed([cases EXCEPT ![c] = x("READY")])
        BY <1>1, <1>5 DEF Complete
    <2>2. "READY" \in Statuses /\ t \in CaseTypes \union {NoType}
        BY DEF Statuses, CaseTypes
    <2> QED
        BY ZenonT(60), <1>2, <1>5, <2>1, <2>2, RowFields, UpdateKeeps
<1> QED
    BY <1>3, <1>4, <1>5

LEMMA ApproveKeeps == ASSUME RInv, NEW c \in CaseIds, Approve(c) PROVE RInv'
<1> DEFINE x == Like(cases[c], "READY", cases[c].type, cases[c].owner, cases[c].workers)
<1>1. CASE cases[c].type = "FRAUD_AND_AML"
    BY <1>1, SplitKeeps DEF Approve
<1>2. CASE cases[c].type # "FRAUD_AND_AML"
    <2>1. [cases EXCEPT ![c].status = "READY"] = [cases EXCEPT ![c] = x]
        BY RowOfCase DEF RInv, CaseIds, Row, Like
    <2>2. RowSound(x)
        BY <1>2, RowOfCase DEF RowSound, Like, Row
    <2> QED
        BY <1>2, <2>1, <2>2, RowFields, UpdateKeeps DEF Approve, Statuses
<1> QED
    BY <1>1, <1>2

LEMMA RejectKeeps == ASSUME RInv, NEW c \in CaseIds, Reject(c) PROVE RInv'
<1> DEFINE w == cases[c].workers \union {cases[c].creator}
           x == Like(cases[c], "DRAFT", cases[c].type, cases[c].owner, w)
<1>1. [cases EXCEPT ![c].status = "DRAFT", ![c].workers = @ \union {cases[c].creator}]
          = [cases EXCEPT ![c] = x]
    BY RowOfCase DEF RInv, CaseIds, Row, Like
<1>2. RowSound(x)
    BY RowOfCase DEF Reject, RowSound, Like, Row
<1>3. w \in SUBSET (Users \union {NoUser})
    BY RowOfCase DEF Row
<1> QED
    BY <1>1, <1>2, <1>3, RowFields, UpdateKeeps DEF Reject, Statuses

LEMMA TriageKeeps == ASSUME RInv, NEW c \in CaseIds, Triage(c) PROVE RInv'
<1> DEFINE w == cases[c].workers
           x(s, t, o) == Like(cases[c], s, t, o, w)
<1>1. /\ cases[c].status = "DRAFT" /\ cases[c].type = NoType
      /\ cases[c].owner = NoUser /\ w = {}
    BY RowOfCase DEF Triage, RowSound
<1>2. CASE Split(c)
    BY <1>1, <1>2, SplitKeeps
<1>3. ASSUME NEW t \in {"FRAUD", "AML"},
             Changed([cases EXCEPT ![c].status = "READY", ![c].type = t])
      PROVE  RInv'
    <2>1. [cases EXCEPT ![c].status = "READY", ![c].type = t]
              = [cases EXCEPT ![c] = x("READY", t, cases[c].owner)]
        BY RowOfCase DEF RInv, CaseIds, Row, Like
    <2>2. RowSound(x("READY", t, cases[c].owner))
        BY RowOfCase DEF RowSound, Like, Row
    <2> QED
        BY <1>3, <2>1, <2>2, RowFields, UpdateKeeps DEF Statuses, CaseTypes
<1>4. ASSUME NEW t \in {"FRAUD", "AML"}, NEW u \in Users,
             NEW s \in Outcomes \union {"AUTO_CONFIRMED"},
             Changed([cases EXCEPT ![c].status = s, ![c].owner = u, ![c].type = t])
      PROVE  RInv'
    <2>1. [cases EXCEPT ![c].status = s, ![c].owner = u, ![c].type = t]
              = [cases EXCEPT ![c] = x(s, t, u)]
        BY RowOfCase DEF RInv, CaseIds, Row, Like
    <2>2. RowSound(x(s, t, u))
        BY RowOfCase DEF RowSound, Like, Row, Outcomes
    <2>3. s \in Statuses
        BY DEF Statuses, Closed, AutoClosed
    <2> QED
        BY <1>4, <2>1, <2>2, <2>3, RowFields, UpdateKeeps DEF CaseTypes
<1>5. ASSUME NEW s \in AutoClosed, Changed([cases EXCEPT ![c].status = s])
      PROVE  RInv'
    <2>1. [cases EXCEPT ![c].status = s] = [cases EXCEPT ![c] = x(s, NoType, NoUser)]
        BY <1>1, RowOfCase DEF RInv, CaseIds, Row, Like
    <2>2. RowSound(x(s, NoType, NoUser))
        BY <1>1, RowOfCase DEF RowSound, Like, Row, AutoClosed, NoType
    <2>3. s \in Statuses
        BY DEF Statuses, Closed
    <2> QED
        BY <1>1, <1>5, <2>1, <2>2, <2>3, RowFields, UpdateKeeps
<1> QED
    BY ZenonT(60), <1>2, <1>3, <1>4, <1>5 DEF Triage

LEMMA AssignKeeps ==
    ASSUME RInv, NEW c \in CaseIds, NEW u \in Users, Assign(c, u)
    PROVE  RInv'
<1>1. PICK gone \in SUBSET cases[c].workers :
          Changed([cases EXCEPT ![c].status = "ASSIGNED", ![c].owner = u,
                                ![c].workers = (@ \ gone) \union {u}])
    BY DEF Assign
<1> DEFINE w == (cases[c].workers \ gone) \union {u}
           x == Like(cases[c], "ASSIGNED", cases[c].type, u, w)
<1>2. [cases EXCEPT ![c].status = "ASSIGNED", ![c].owner = u,
                    ![c].workers = (@ \ gone) \union {u}] = [cases EXCEPT ![c] = x]
    BY RowOfCase DEF RInv, CaseIds, Row, Like
<1>3. RowSound(x)
    BY RowOfCase DEF Assign, RowSound, Like, Row
<1>4. w \in SUBSET (Users \union {NoUser})
    BY RowOfCase DEF Row
<1>5. Changed([cases EXCEPT ![c] = x])
    BY <1>1, <1>2
<1>6. "READY" \in Statuses /\ "ASSIGNED" \in Statuses
    BY DEF Statuses
<1> QED
    BY ZenonT(60), <1>3, <1>4, <1>5, <1>6, RowFields, UpdateKeeps

LEMMA ReleaseKeeps == ASSUME RInv, NEW c \in CaseIds, Release(c) PROVE RInv'
<1>1. PICK gone \in SUBSET cases[c].workers :
          Changed([cases EXCEPT ![c].status = "READY", ![c].owner = NoUser,
                                ![c].workers = @ \ gone])
    BY DEF Release
<1> DEFINE w == cases[c].workers \ gone
           x == Like(cases[c], "READY", cases[c].type, NoUser, w)
<1>2. [cases EXCEPT ![c].status = "READY", ![c].owner = NoUser, ![c].workers = @ \ gone]
          = [cases EXCEPT ![c] = x]
    BY RowOfCase DEF RInv, CaseIds, Row, Like
<1>3. RowSound(x)
    BY RowOfCase DEF Release, RowSound, Like, Row
<1>4. w \in SUBSET (Users \union {NoUser})
    BY RowOfCase DEF Row
<1>5. Changed([cases EXCEPT ![c] = x])
    BY <1>1, <1>2
<1>6. "READY" \in Statuses /\ "ASSIGNED" \in Statuses
    BY DEF Statuses
<1>7. NoUser \in Users \union {NoUser}
    OBVIOUS
<1> QED
    <2>1. cases[c] \in Sound /\ cases[c].type \in CaseTypes \union {NoType}
        BY RowOfCase, RowFields
    <2>2. x \in Sound
        BY <1>3, <1>4, <1>6, <1>7, <2>1, LikeSound
    <2> QED
        BY <1>5, <2>2, RewriteSound, CommitKeeps

\* Only a draft is abandoned, and nothing moves to where a draft or an approval is.
LEMMA MovesEnd ==
    ASSUME NEW a, NEW b, <<a, b>> \in Moves
    PROVE  /\ b \notin {"DRAFT", "PENDING", "AUTO_REFUTED"}
           /\ b = "ABANDONED" \/ a \notin {"DRAFT", "PENDING", "ABANDONED"}
BY DEF Moves, Outcomes, Closed, AutoClosed

LEMMA MoveKeeps ==
    ASSUME RInv, NEW c \in CaseIds, NEW s \in Statuses, Move(c, s)
    PROVE  RInv'
<1> DEFINE x == Like(cases[c], s, cases[c].type, cases[c].owner, cases[c].workers)
<1>1. [cases EXCEPT ![c].status = s] = [cases EXCEPT ![c] = x]
    BY RowOfCase DEF RInv, CaseIds, Row, Like
<1>2. RowSound(x)
    BY RowOfCase, MovesEnd DEF Move, RowSound, Like, Row
<1> QED
    BY <1>1, <1>2, RowFields, UpdateKeeps DEF Move
-----------------------------------------------------------------------------
LEMMA ChangeKeeps == ASSUME RInv, Change PROVE RInv'
BY ArriveKeeps, SaveKeeps, FileKeeps, CompleteKeeps, ApproveKeeps, RejectKeeps, TriageKeeps,
   ReleaseKeeps, AssignKeeps, MoveKeeps DEF Change

LEMMA RInvInit == Init => RInv
BY TableAssumption DEF Init, RInv

LEMMA RInvNext == RInv /\ [Next]_vars => RInv'
<1> SUFFICES ASSUME RInv, [Next]_vars PROVE RInv'
    OBVIOUS
<1>1. CASE Change
    BY <1>1, ChangeKeeps
<1>2. ASSUME NEW n \in Jumps, DaysPass(n) PROVE RInv'
    <2>1. n \in Nat /\ MaxDay \in Nat
        BY TableAssumption
    <2> QED
        BY <1>2, <2>1 DEF DaysPass, RInv
<1>3. CASE UNCHANGED <<cases, today, changes>>
    BY <1>3 DEF RInv
<1> QED
    BY <1>1, <1>2, <1>3 DEF Next, vars, ChangeBeside, StartReport, Read, Respond

LEMMA RInvInvariant == Spec => []RInv
BY RInvInit, RInvNext, PTL DEF Spec
-----------------------------------------------------------------------------
\* The table always has rows of its type, whatever the reports read beside.
THEOREM TableTypeCorrect == Spec => []TypeOK
<1>1. Seq(Sound) \subseteq Seq(Row)
    BY DEF Sound
<1>2. RInv => TypeOK
    BY <1>1 DEF RInv, TypeOK
<1> QED
    BY <1>2, RInvInvariant, PTL

\* Whatever the staff and however many rows and changes: the dashboard counts for an
\* investigator only what the Cases page lists, the page lists only what its alert can
\* open or somebody's draft, and the ageing report leaves out of the open cases only
\* those closed as confirmed by triage and the drafts of nobody.  That the AI's refuted
\* cases and split containers are no exceptions rests on what the handlers leave behind
\* (RowSound).
THEOREM ScopesAlwaysNest == Spec => []ScopesNest
<1>1. ASSUME RInv, NEW u \in Investigators, NEW c \in CaseIds
      PROVE  /\ Counted(c) /\ InScope(c, u) => Listed(c, u)
             /\ LinkOpens(c, u) => Listed(c, u)
             /\ Listed(c, u) /\ ~LinkOpens(c, u) => cases[c].status = "DRAFT"
    BY DEF InScope, Listed, LinkOpens
<1>2. ASSUME RInv, NEW u \in Investigators
      PROVE  Backlog(u) \subseteq Active(u)
    BY <1>2 DEF Backlog, Active, Counted, IsClosed, Closed
<1>3. ASSUME RInv, NEW u \in Investigators, NEW c \in Active(u) \ Backlog(u)
      PROVE  cases[c].status = "AUTO_CONFIRMED" \/ (cases[c].status = "DRAFT" /\ Unassigned(c))
    <2>1. c \in CaseIds /\ Own(c, u) /\ cases[c].status \notin Outcomes \union {"ABANDONED"}
        BY DEF Active
    <2>2. RowSound(cases[c])
        BY <1>3, <2>1, RowOfCase
    <2>3. cases[c].status # "AUTO_REFUTED"
        BY <2>1, <2>2, TableAssumption, ReportAssumption DEF RowSound, Own, Users
    <2>4. Counted(c)
        BY <2>1, <2>2 DEF Counted, RowSound
    <2> QED
        BY <2>1, <2>3, <2>4 DEF Backlog, IsClosed, Closed, AutoClosed
<1>4. RInv => ScopesNest
    BY <1>1, <1>2, <1>3 DEF ScopesNest
<1> QED
    BY <1>4, RInvInvariant, PTL
-----------------------------------------------------------------------------
(***************************************************************************)
(* Sums.                                                                   *)
(***************************************************************************)
LEMMA PartFinite ==
    ASSUME NEW A, IsFiniteSet(A), NEW B, B \subseteq A
    PROVE  IsFiniteSet(B) /\ Cardinality(B) \in Nat /\ Cardinality(B) <= Cardinality(A)
<1>1. B \in SUBSET A
    OBVIOUS
<1> QED
    BY <1>1, FS_Subset, FS_CardinalityType

LEMMA JoinCounts ==
    ASSUME NEW A, NEW B, IsFiniteSet(A), IsFiniteSet(B), A \cap B = {}
    PROVE  /\ IsFiniteSet(A \cup B)
           /\ Cardinality(A \cup B) = Cardinality(A) + Cardinality(B)
<1>1. /\ IsFiniteSet(A \cup B)
      /\ Cardinality(A \cup B) = Cardinality(A) + Cardinality(B) - Cardinality(A \cap B)
    BY FS_Union
<1>2. Cardinality(A \cap B) = 0
    BY FS_EmptySet
<1>3. Cardinality(A) \in Nat /\ Cardinality(B) \in Nat
    BY FS_CardinalityType
<1> QED
    BY <1>1, <1>2, <1>3

\* g numbers the elements of A from 1 to n.
Numbers(g, A, n) == /\ g \in [A -> 1..n]
                    /\ \A a, b \in A : g[a] = g[b] => a = b
                    /\ \A i \in 1..n : \E a \in A : g[a] = i

LEMMA Numbered ==
    ASSUME NEW A, IsFiniteSet(A)
    PROVE  \E g : Numbers(g, A, Cardinality(A))
<1>1. ExistsBijection(A, 1..Cardinality(A))
    BY FS_CardinalityType, Fun_ExistsBijSymmetric
<1>2. PICK g : g \in Injection(A, 1..Cardinality(A)) /\ g \in Surjection(A, 1..Cardinality(A))
    BY <1>1 DEF ExistsBijection, Bijection
<1>3. g \in [A -> 1..Cardinality(A)] /\ \A a, b \in A : g[a] = g[b] => a = b
    BY <1>2, Fun_InjectionProperties
<1>4. \A i \in 1..Cardinality(A) : \E a \in A : g[a] = i
    BY <1>2, Fun_SurjectionProperties
<1> QED
    BY <1>3, <1>4 DEF Numbers

\* The parts of a set, counted one by one, add up to the set.
LEMMA PartsAddUp ==
    ASSUME NEW A, IsFiniteSet(A), NEW S, NEW f \in [A -> S], NEW n,
           \A s \in S : n[s] = Cardinality({a \in A : f[a] = s})
    PROVE  SumOver(n, S) = Cardinality(A)
<1> DEFINE Part(s) == {a \in A : f[a] = s}
           G(s) == CHOOSE g : Numbers(g, Part(s), n[s])
           T == UNION {{s} \X (1..n[s]) : s \in S}
           H == [a \in A |-> <<f[a], G(f[a])[a]>>]
<1>1. \A s \in S : Numbers(G(s), Part(s), n[s])
    <2> SUFFICES ASSUME NEW s \in S PROVE Numbers(G(s), Part(s), n[s])
        OBVIOUS
    <2>1. IsFiniteSet(Part(s)) /\ n[s] = Cardinality(Part(s))
        BY PartFinite
    <2>2. \E g : Numbers(g, Part(s), n[s])
        <3> HIDE DEF Part
        <3> QED
            BY <2>1, Numbered
    <2> QED
        <3> HIDE DEF Part
        <3> QED
            BY <2>2
<1>2. ASSUME NEW s \in S
      PROVE  /\ G(s) \in [Part(s) -> 1..n[s]]
             /\ \A a, b \in Part(s) : G(s)[a] = G(s)[b] => a = b
             /\ \A i \in 1..n[s] : \E a \in Part(s) : G(s)[a] = i
    <2> HIDE DEF G, Part
    <2> QED
        BY <1>1 DEF Numbers
<1> HIDE DEF G
<1>3. H \in [A -> T]
    <2>1. ASSUME NEW a \in A PROVE <<f[a], G(f[a])[a]>> \in T
        <3>1. f[a] \in S /\ a \in Part(f[a])
            OBVIOUS
        <3>2. G(f[a])[a] \in 1..n[f[a]]
            <4> HIDE DEF Part
            <4> QED
                BY <1>2, <3>1
        <3>3. <<f[a], G(f[a])[a]>> \in {f[a]} \X (1..n[f[a]])
            BY <3>2
        <3> QED
            BY <3>1, <3>3
    <2> QED
        BY <2>1
<1>4. \A a, b \in A : H[a] = H[b] => a = b
    <2> SUFFICES ASSUME NEW a \in A, NEW b \in A, H[a] = H[b] PROVE a = b
        OBVIOUS
    <2>1. f[a] = f[b] /\ G(f[a])[a] = G(f[b])[b]
        OBVIOUS
    <2>2. f[a] \in S /\ a \in Part(f[a]) /\ b \in Part(f[a])
        BY <2>1
    <2> HIDE DEF Part, H
    <2> QED
        BY <1>2, <2>1, <2>2
<1>5. \A t \in T : \E a \in A : H[a] = t
    <2> SUFFICES ASSUME NEW t \in T PROVE \E a \in A : H[a] = t
        OBVIOUS
    <2>1. PICK s \in S : t \in {s} \X (1..n[s])
        OBVIOUS
    <2>2. PICK i \in 1..n[s] : t = <<s, i>>
        BY <2>1
    <2>3. PICK a \in Part(s) : G(s)[a] = i
        BY <1>2
    <2>4. H[a] = t /\ a \in A
        BY <2>2, <2>3
    <2> QED
        BY <2>4
<1>6. H \in Bijection(A, T)
    <2> HIDE DEF H, T
    <2> QED
        BY <1>3, <1>4, <1>5, Fun_IsBij
<1>7. Cardinality(T) = Cardinality(A)
    <2>1. ExistsBijection(A, T)
        BY <1>6 DEF ExistsBijection
    <2> HIDE DEF T
    <2> QED
        BY <2>1, FS_Bijection
<1> QED
    BY <1>7 DEF SumOver

\* A sum of four.
LEMMA SumOfBands ==
    ASSUME NEW n, \A b \in Bands : n[b] \in Nat
    PROVE  SumOver(n, Bands) = n[1] + n[2] + n[3] + n[4]
<1> DEFINE T(b) == {b} \X (1..n[b])
<1>1. ASSUME NEW b \in Bands
      PROVE  IsFiniteSet(T(b)) /\ Cardinality(T(b)) = n[b]
    <2>1. n[b] \in Nat
        OBVIOUS
    <2>2. IsFiniteSet({b}) /\ Cardinality({b}) = 1
        BY FS_Singleton
    <2>3. IsFiniteSet(1..n[b]) /\ Cardinality(1..n[b]) = n[b]
        BY SMTT(60), <2>1, FS_Interval
    <2> QED
        BY <2>1, <2>2, <2>3, FS_Product
<1>2. \A b, c \in Bands : b # c => T(b) \cap T(c) = {}
    OBVIOUS
<1>3. 1 \in Bands /\ 2 \in Bands /\ 3 \in Bands /\ 4 \in Bands
    BY DEF Bands
<1>4. UNION {T(b) : b \in Bands} = ((T(1) \cup T(2)) \cup T(3)) \cup T(4)
    <2>1. Bands = {1, 2, 3, 4}
        BY DEF Bands
    <2> HIDE DEF T, Bands
    <2> QED
        BY <2>1
<1>5. T(1) \cap T(2) = {} /\ (T(1) \cup T(2)) \cap T(3) = {} /\ ((T(1) \cup T(2)) \cup T(3)) \cap T(4) = {}
    <2> HIDE DEF T, Bands
    <2> QED
        BY <1>2, <1>3, SMT
<1>6. n[1] \in Nat /\ n[2] \in Nat /\ n[3] \in Nat /\ n[4] \in Nat
    BY <1>3
<1> HIDE DEF T
<1>a. /\ IsFiniteSet(T(1)) /\ IsFiniteSet(T(2)) /\ IsFiniteSet(T(3)) /\ IsFiniteSet(T(4))
      /\ Cardinality(T(1)) = n[1] /\ Cardinality(T(2)) = n[2]
      /\ Cardinality(T(3)) = n[3] /\ Cardinality(T(4)) = n[4]
    BY <1>1, <1>3
<1>7. IsFiniteSet(T(1) \cup T(2)) /\ Cardinality(T(1) \cup T(2)) = n[1] + n[2]
    <2> DEFINE X == T(1)  Y == T(2)
    <2>1. IsFiniteSet(X) /\ IsFiniteSet(Y) /\ X \cap Y = {} /\ Cardinality(X) = n[1] /\ Cardinality(Y) = n[2]
        BY <1>5, <1>a
    <2> HIDE DEF X, Y
    <2>2. IsFiniteSet(X \cup Y) /\ Cardinality(X \cup Y) = n[1] + n[2]
        BY <2>1, JoinCounts
    <2> QED
        BY <2>2 DEF X, Y
<1>8. IsFiniteSet((T(1) \cup T(2)) \cup T(3)) /\ Cardinality((T(1) \cup T(2)) \cup T(3)) = n[1] + n[2] + n[3]
    BY <1>5, <1>a, <1>7, JoinCounts
<1>9. Cardinality(((T(1) \cup T(2)) \cup T(3)) \cup T(4)) = n[1] + n[2] + n[3] + n[4]
    BY <1>5, <1>a, <1>8, JoinCounts
<1> QED
    BY <1>4, <1>9 DEF SumOver, T
-----------------------------------------------------------------------------
(***************************************************************************)
(* The charts of a dashboard count rows.                                   *)
(***************************************************************************)
Views == [case : Nat, status : Statuses, type : CaseTypes \union {NoType}]
Heard == {Unread} \union {A \in SUBSET Views : IsFiniteSet(A)}

\* Of the rows the two queries of a pair answer with, those that the first figure
\* counts, and those that the chart it is compared with counts.
Left(p, A) == IF p = <<"open", "openAssigned">> THEN {a \in A : a.status # "DRAFT"} ELSE A
Right(p, A) ==
    CASE p = <<"open", "byStatus">> -> {a \in A : a.status \in Statuses \ Closed}
      [] p = <<"available", "byStatus">> -> {a \in A : a.status = "READY"}
      [] p = <<"closed", "outcomes">> -> {a \in A : a.status \in Closed}
      [] OTHER -> A

LEMMA ByStatus ==
    ASSUME NEW A \in SUBSET Views, IsFiniteSet(A), NEW S \in SUBSET Statuses
    PROVE  SumOver(StatusDistribution(A), S) = Cardinality({a \in A : a.status \in S})
<1> DEFINE B == {a \in A : a.status \in S}
           f == [a \in B |-> a.status]
           n == StatusDistribution(A)
<1>1. IsFiniteSet(B) /\ f \in [B -> S]
    BY PartFinite
<1>2. \A s \in S : n[s] = Cardinality({a \in B : f[a] = s})
    <2> SUFFICES ASSUME NEW s \in S PROVE n[s] = Cardinality({a \in B : f[a] = s})
        OBVIOUS
    <2>1. {a \in A : a.status = s} = {a \in B : f[a] = s}
        OBVIOUS
    <2> QED
        BY <2>1 DEF StatusDistribution
<1> HIDE DEF B, f, n
<1>3. SumOver(n, S) = Cardinality(B)
    BY <1>1, <1>2, PartsAddUp
<1> QED
    BY <1>3 DEF B, n

LEMMA ByType ==
    ASSUME NEW A \in SUBSET Views, IsFiniteSet(A)
    PROVE  SumOver(TypeChart(A), CaseTypes) + Cardinality({a \in A : a.type = NoType}) = Cardinality(A)
<1> DEFINE B == {a \in A : a.type \in CaseTypes}
           C == {a \in A : a.type = NoType}
           f == [a \in B |-> a.type]
           n == TypeChart(A)
<1>1. IsFiniteSet(B) /\ IsFiniteSet(C) /\ f \in [B -> CaseTypes]
    BY PartFinite
<1>2. \A s \in CaseTypes : n[s] = Cardinality({a \in B : f[a] = s})
    <2> SUFFICES ASSUME NEW s \in CaseTypes PROVE n[s] = Cardinality({a \in B : f[a] = s})
        OBVIOUS
    <2>1. {a \in A : a.type = s} = {a \in B : f[a] = s}
        OBVIOUS
    <2> QED
        BY <2>1 DEF TypeChart
<1>3. B \cup C = A
    BY DEF Views
<1>4. B \cap C = {}
    BY DEF CaseTypes, NoType
<1> HIDE DEF B, C, f, n
<1>5. SumOver(n, CaseTypes) = Cardinality(B)
    BY <1>1, <1>2, PartsAddUp
<1>6. Cardinality(A) = Cardinality(B) + Cardinality(C)
    BY <1>1, <1>3, <1>4, JoinCounts
<1> QED
    BY <1>5, <1>6 DEF C, n

LEMMA ByOutcome ==
    ASSUME NEW A \in SUBSET Views, IsFiniteSet(A)
    PROVE  LET o == OutcomeChart(A)
           IN  o.confirmed + o.refuted + o.inconclusive = Cardinality({a \in A : a.status \in Closed})
<1> DEFINE K(s) == {a \in A : a.status = s}
           n == StatusDistribution(A)
           B1 == K("CONFIRMED") \cup K("AUTO_CONFIRMED")
           B2 == K("REFUTED") \cup K("AUTO_REFUTED")
           B3 == B1 \cup B2
           B == {a \in A : a.status \in Closed}
<1>1. \A s : IsFiniteSet(K(s)) /\ Cardinality(K(s)) \in Nat
    BY PartFinite
<1>2. \A s, t : s # t => K(s) \cap K(t) = {}
    OBVIOUS
<1>3. B1 \cap B2 = {} /\ B3 \cap K("INCONCLUSIVE") = {} /\ B3 \cup K("INCONCLUSIVE") = B
    BY DEF Closed, Outcomes, AutoClosed
<1>4. \A s \in Closed : n[s] = Cardinality(K(s))
    BY DEF StatusDistribution, Statuses
<1> HIDE DEF K, n
<1>5. IsFiniteSet(B1) /\ Cardinality(B1) = Cardinality(K("CONFIRMED")) + Cardinality(K("AUTO_CONFIRMED"))
    BY <1>1, <1>2, JoinCounts
<1>6. IsFiniteSet(B2) /\ Cardinality(B2) = Cardinality(K("REFUTED")) + Cardinality(K("AUTO_REFUTED"))
    BY <1>1, <1>2, JoinCounts
<1> HIDE DEF B1, B2
<1>7. IsFiniteSet(B3) /\ Cardinality(B3) = Cardinality(B1) + Cardinality(B2)
    BY <1>3, <1>5, <1>6, JoinCounts
<1> HIDE DEF B3, B
<1>8. Cardinality(B) = Cardinality(B3) + Cardinality(K("INCONCLUSIVE"))
    BY <1>1, <1>3, <1>7, JoinCounts
<1>9. /\ OutcomeChart(A).confirmed = n["CONFIRMED"] + n["AUTO_CONFIRMED"]
      /\ OutcomeChart(A).refuted = n["REFUTED"] + n["AUTO_REFUTED"]
      /\ OutcomeChart(A).inconclusive = n["INCONCLUSIVE"]
    BY DEF OutcomeChart, n
<1>10. \A s \in {"CONFIRMED", "AUTO_CONFIRMED", "REFUTED", "AUTO_REFUTED", "INCONCLUSIVE"} :
          n[s] = Cardinality(K(s))
    BY <1>4 DEF Closed, Outcomes, AutoClosed
<1> QED
    BY <1>1, <1>5, <1>6, <1>7, <1>8, <1>9, <1>10 DEF B

LEMMA Rights ==
    ASSUME NEW A
    PROVE  /\ Right(<<"total", "byStatus">>, A) = A
           /\ Right(<<"open", "byStatus">>, A) = {a \in A : a.status \in Statuses \ Closed}
           /\ Right(<<"available", "byStatus">>, A) = {a \in A : a.status = "READY"}
           /\ Right(<<"open", "byType">>, A) = A
           /\ Right(<<"open", "openAssigned">>, A) = A
           /\ Right(<<"closed", "outcomes">>, A) = {a \in A : a.status \in Closed}
           /\ Right(<<"resolved", "trend">>, A) = A
BY DEF Right

LEMMA Counterparts ==
    ASSUME NEW s
    PROVE  /\ Counterpart(<<"total", "byStatus">>, s) = SumOver(StatusDistribution(s[2]), Statuses)
           /\ Counterpart(<<"open", "byStatus">>, s) = SumOver(StatusDistribution(s[2]), Statuses \ Closed)
           /\ Counterpart(<<"available", "byStatus">>, s) = StatusDistribution(s[2])["READY"]
           /\ Counterpart(<<"open", "byType">>, s) = SumOver(TypeChart(s[2]), CaseTypes)
                  + Cardinality({a \in s[2] : a.type = NoType})
           /\ Counterpart(<<"open", "openAssigned">>, s) = Cardinality(s[2])
           /\ Counterpart(<<"closed", "outcomes">>, s) = OutcomeChart(s[2]).confirmed
                  + OutcomeChart(s[2]).refuted + OutcomeChart(s[2]).inconclusive
           /\ Counterpart(<<"resolved", "trend">>, s) = Cardinality(s[2])
BY DEF Counterpart

LEMMA FiguresCount ==
    ASSUME NEW p \in Pairs, NEW s, s[2] \in SUBSET Views, IsFiniteSet(s[2])
    PROVE  /\ Figure(p, s) = Cardinality(Left(p, s[1]))
           /\ Counterpart(p, s) = Cardinality(Right(p, s[2]))
<1> DEFINE A == s[2]
<1>1. Figure(p, s) = Cardinality(Left(p, s[1]))
    BY DEF Figure, Left
<1>2. CASE p = <<"total", "byStatus">>
    <2>1. {a \in A : a.status \in Statuses} = A
        BY DEF Views
    <2>2. SumOver(StatusDistribution(A), Statuses) = Cardinality(A)
        BY <2>1, ByStatus
    <2> QED
        BY <1>1, <1>2, <2>2, Rights, Counterparts
<1>3. CASE p = <<"open", "byStatus">>
    <2>1. SumOver(StatusDistribution(A), Statuses \ Closed)
              = Cardinality({a \in A : a.status \in Statuses \ Closed})
        BY ByStatus
    <2> QED
        BY <1>1, <1>3, <2>1, Rights, Counterparts
<1>4. CASE p = <<"available", "byStatus">>
    <2>1. StatusDistribution(A)["READY"] = Cardinality({a \in A : a.status = "READY"})
        BY DEF StatusDistribution, Statuses
    <2>2. Right(p, A) = {a \in A : a.status = "READY"}
        BY <1>4, Rights
    <2>3. Counterpart(p, s) = StatusDistribution(A)["READY"]
        BY <1>4, Counterparts
    <2> QED
        BY <1>1, <2>1, <2>2, <2>3
<1>5. CASE p = <<"open", "byType">>
    <2>1. SumOver(TypeChart(A), CaseTypes) + Cardinality({a \in A : a.type = NoType}) = Cardinality(A)
        BY ByType
    <2>2. Right(p, A) = A
        BY <1>5, Rights
    <2>3. Counterpart(p, s) = SumOver(TypeChart(A), CaseTypes) + Cardinality({a \in A : a.type = NoType})
        BY <1>5, Counterparts
    <2> QED
        BY <1>1, <2>1, <2>2, <2>3
<1>6. CASE p = <<"closed", "outcomes">>
    <2> DEFINE o == OutcomeChart(A)
    <2>1. o.confirmed + o.refuted + o.inconclusive = Cardinality({a \in A : a.status \in Closed})
        BY ByOutcome
    <2>2. Right(p, A) = {a \in A : a.status \in Closed}
        BY <1>6, Rights
    <2>3. Counterpart(p, s) = o.confirmed + o.refuted + o.inconclusive
        BY <1>6, Counterparts
    <2> QED
        BY <1>1, <2>1, <2>2, <2>3
<1>7. CASE p = <<"open", "openAssigned">>
    <2>1. Right(p, A) = A
        BY <1>7, Rights
    <2>2. Counterpart(p, s) = Cardinality(A)
        BY <1>7, Counterparts
    <2> QED
        BY <1>1, <2>1, <2>2
<1>8. CASE p = <<"resolved", "trend">>
    <2>1. Right(p, A) = A
        BY <1>8, Rights
    <2>2. Counterpart(p, s) = Cardinality(A)
        BY <1>8, Counterparts
    <2> QED
        BY <1>1, <2>1, <2>2
<1> QED
    BY <1>2, <1>3, <1>4, <1>5, <1>6, <1>7, <1>8 DEF Pairs
-----------------------------------------------------------------------------
(***************************************************************************)
(* The rows a dashboard has read stay within the rows written meanwhile of *)
(* those it would read now.                                                *)
(***************************************************************************)
View(c) == [case |-> c, status |-> cases[c].status, type |-> cases[c].type]
Seen(c, p) ==
    /\ Selects(p[1], c, report.viewer, report.window)
    /\ p = <<"open", "openAssigned">> => cases[c].status # "DRAFT"
Rows(E) == {View(c) : c \in E}
Now(p) == Rows({d \in CaseIds : Seen(d, p)})

Side(i, p, A) == IF i = 1 THEN Left(p, A) ELSE Right(p, A)

\* At most d elements of either set are not in the other one.
Close(A, B, d) == /\ IsFiniteSet(A) /\ IsFiniteSet(B)
                  /\ Cardinality(A \ B) <= d /\ Cardinality(B \ A) <= d

LEMMA CloseToItself ==
    ASSUME NEW A, IsFiniteSet(A), NEW d \in Nat
    PROVE  Close(A, A, d)
<1>1. A \ A = {}
    OBVIOUS
<1> QED
    BY <1>1, FS_EmptySet DEF Close

LEMMA CloseBack ==
    ASSUME NEW A, NEW B, NEW d, Close(A, B, d)
    PROVE  Close(B, A, d)
BY DEF Close

LEMMA CloseOn ==
    ASSUME NEW A, NEW B, NEW C, NEW d \in Nat, NEW e \in Nat, Close(A, B, d), Close(B, C, e)
    PROVE  Close(A, C, d + e)
<1>1. ASSUME NEW X, NEW Y, NEW Z, IsFiniteSet(X), IsFiniteSet(Y),
             NEW m \in Nat, NEW n \in Nat, Cardinality(X \ Y) <= m, Cardinality(Y \ Z) <= n
      PROVE  Cardinality(X \ Z) <= m + n
    <2> DEFINE P == X \ Y  Q == Y \ Z
    <2>1. IsFiniteSet(P) /\ IsFiniteSet(Q) /\ Cardinality(P) \in Nat /\ Cardinality(Q) \in Nat
        BY <1>1, PartFinite
    <2>2. X \ Z \subseteq P \cup Q
        OBVIOUS
    <2>3. P \cap Q = {}
        OBVIOUS
    <2> HIDE DEF P, Q
    <2>4. IsFiniteSet(P \cup Q) /\ Cardinality(P \cup Q) = Cardinality(P) + Cardinality(Q)
        BY <2>1, <2>3, JoinCounts
    <2>5. Cardinality(X \ Z) \in Nat /\ Cardinality(X \ Z) <= Cardinality(P \cup Q)
        BY <2>2, <2>4, PartFinite
    <2>6. Cardinality(P) <= m /\ Cardinality(Q) <= n
        BY <1>1 DEF P, Q
    <2> QED
        BY <2>1, <2>4, <2>5, <2>6
<1>2. Cardinality(A \ C) <= d + e
    BY <1>1 DEF Close
<1>3. Cardinality(C \ A) <= e + d
    BY <1>1 DEF Close
<1> QED
    BY <1>2, <1>3 DEF Close

LEMMA CloseEnough ==
    ASSUME NEW A, NEW B, NEW d \in Nat, NEW e \in Nat, d <= e, Close(A, B, d)
    PROVE  Close(A, B, e)
<1>1. Cardinality(A \ B) \in Nat /\ Cardinality(B \ A) \in Nat
    BY PartFinite DEF Close
<1> QED
    BY <1>1 DEF Close

\* Close sets have close counts.
LEMMA CloseCounts ==
    ASSUME NEW A, NEW B, NEW d \in Nat, Close(A, B, d)
    PROVE  Cardinality(A) - Cardinality(B) <= d /\ Cardinality(B) - Cardinality(A) <= d
<1>1. ASSUME NEW X, NEW Y, IsFiniteSet(X), IsFiniteSet(Y), Cardinality(X \ Y) <= d
      PROVE  Cardinality(X) - Cardinality(Y) <= d
    <2> DEFINE P == X \ Y
    <2>1. IsFiniteSet(P) /\ Cardinality(P) \in Nat /\ Cardinality(X) \in Nat /\ Cardinality(Y) \in Nat
        BY <1>1, PartFinite, FS_CardinalityType
    <2>2. X \subseteq P \cup Y /\ P \cap Y = {}
        OBVIOUS
    <2>3. Cardinality(P) <= d
        BY <1>1
    <2> HIDE DEF P
    <2>4. IsFiniteSet(P \cup Y) /\ Cardinality(P \cup Y) = Cardinality(P) + Cardinality(Y)
        BY <1>1, <2>1, <2>2, JoinCounts
    <2>5. Cardinality(X) <= Cardinality(P \cup Y)
        BY <2>2, <2>4, PartFinite
    <2> QED
        BY <2>1, <2>3, <2>4, <2>5
<1> QED
    BY <1>1 DEF Close
-----------------------------------------------------------------------------
\* What two queries of a pair would read now agrees.
LEMMA ViewsOfRows ==
    ASSUME RInv, NEW D, D \subseteq CaseIds
    PROVE  Rows(D) \in SUBSET Views /\ IsFiniteSet(Rows(D))
<1> DEFINE T == {View(c) : c \in D}
           F == [c \in D |-> View(c)]
<1>1. T \in SUBSET Views
    <2> SUFFICES ASSUME NEW c \in D PROVE View(c) \in Views
        OBVIOUS
    <2>1. c \in Nat /\ cases[c].status \in Statuses /\ cases[c].type \in CaseTypes \union {NoType}
        BY RowFields DEF CaseIds, RInv
    <2> QED
        BY <2>1 DEF View, Views
<1>2. IsFiniteSet(D)
    <2>1. IsFiniteSet(CaseIds)
        BY FS_Interval DEF CaseIds, RInv
    <2> QED
        BY <2>1, PartFinite
<1>3. F \in [D -> T] /\ \A t \in T : \E c \in D : F[c] = t
    OBVIOUS
<1>4. F \in Surjection(D, T)
    <2> HIDE DEF F, T
    <2> QED
        BY <1>3, Fun_IsSurj
<1> HIDE DEF F, T
<1>5. IsFiniteSet(T)
    BY <1>2, <1>4, FS_Surjection
<1> QED
    BY <1>1, <1>5 DEF T, Rows

LEMMA Selections ==
    ASSUME NEW c, NEW u, NEW w
    PROVE  LET scoped == Counted(c) /\ InScope(c, u)
               created == Within(cases[c].created, w)
               updated == Within(cases[c].updated, w)
           IN  /\ \A q \in {"byStatus", "total"} : Selects(q, c, u, w) <=> scoped /\ created
               /\ \A q \in {"open", "byType"} : Selects(q, c, u, w) <=> scoped /\ created /\ ~IsClosed(c)
               /\ Selects("openAssigned", c, u, w)
                      <=> scoped /\ created /\ ~IsClosed(c) /\ cases[c].status # "DRAFT"
               /\ Selects("available", c, u, w) <=> Counted(c) /\ created /\ cases[c].status = "READY"
               /\ \A q \in {"closed", "outcomes"} : Selects(q, c, u, w) <=> scoped /\ IsClosed(c) /\ updated
               /\ \A q \in {"resolved", "trend"} :
                      Selects(q, c, u, w) <=> scoped /\ IsClosed(c) /\ ThisMonth(cases[c].updated)
<1> HIDE DEF Counted, InScope, Within, IsClosed, ThisMonth
<1> QED
    BY DEF Selects

\* The rows that the first query would count, and those that count in the chart of
\* the second.
Charted(c, p) ==
    /\ Selects(p[2], c, report.viewer, report.window)
    /\ CASE p = <<"open", "byStatus">> -> cases[c].status \in Statuses \ Closed
         [] p = <<"available", "byStatus">> -> cases[c].status = "READY"
         [] p = <<"closed", "outcomes">> -> cases[c].status \in Closed
         [] OTHER -> TRUE
Chart(p) == {d \in CaseIds : Charted(d, p)}

LEMMA PairsAgree ==
    ASSUME RInv, NEW p \in Pairs, NEW c \in CaseIds
    PROVE  Seen(c, p) <=> Charted(c, p)
<1> DEFINE s == cases[c].status
           Sel(q) == Selects(q, c, report.viewer, report.window)
<1>1. s \in Statuses /\ (IsClosed(c) <=> s \in Closed)
    BY RowFields DEF IsClosed
<1>2. s = "READY" => InScope(c, report.viewer) /\ s \notin Closed
    BY DEF InScope, Closed, Outcomes, AutoClosed
<1>3. CASE p = <<"total", "byStatus">>
    <2>1. (Seen(c, p) <=> Sel("total")) /\ (Charted(c, p) <=> Sel("byStatus"))
        BY <1>3 DEF Seen, Charted
    <2> QED
        BY <2>1, Selections
<1>4. CASE p = <<"open", "byStatus">>
    <2>1. (Seen(c, p) <=> Sel("open")) /\ (Charted(c, p) <=> Sel("byStatus") /\ s \in Statuses \ Closed)
        BY <1>4 DEF Seen, Charted
    <2> QED
        BY <1>1, <2>1, Selections
<1>5. CASE p = <<"available", "byStatus">>
    <2>1. (Seen(c, p) <=> Sel("available")) /\ (Charted(c, p) <=> Sel("byStatus") /\ s = "READY")
        BY <1>5 DEF Seen, Charted
    <2> QED
        BY <1>2, <2>1, Selections
<1>6. CASE p = <<"open", "byType">>
    <2>1. (Seen(c, p) <=> Sel("open")) /\ (Charted(c, p) <=> Sel("byType"))
        BY <1>6 DEF Seen, Charted
    <2> QED
        BY <2>1, Selections
<1>7. CASE p = <<"open", "openAssigned">>
    <2>1. (Seen(c, p) <=> Sel("open") /\ s # "DRAFT") /\ (Charted(c, p) <=> Sel("openAssigned"))
        BY <1>7 DEF Seen, Charted
    <2> QED
        BY <2>1, Selections
<1>8. CASE p = <<"closed", "outcomes">>
    <2>1. (Seen(c, p) <=> Sel("closed")) /\ (Charted(c, p) <=> Sel("outcomes") /\ s \in Closed)
        BY <1>8 DEF Seen, Charted
    <2> QED
        BY <1>1, <2>1, Selections
<1>9. CASE p = <<"resolved", "trend">>
    <2>1. (Seen(c, p) <=> Sel("resolved")) /\ (Charted(c, p) <=> Sel("trend"))
        BY <1>9 DEF Seen, Charted
    <2> QED
        BY <2>1, Selections
<1> QED
    BY <1>3, <1>4, <1>5, <1>6, <1>7, <1>8, <1>9 DEF Pairs

LEMMA Narrowed ==
    ASSUME NEW E, NEW S
    PROVE  {a \in Rows(E) : a.status \in S} = Rows({d \in E : cases[d].status \in S})
<1>1. \A c : View(c).status = cases[c].status
    BY DEF View
<1> QED
    BY <1>1 DEF Rows

LEMMA SideNow ==
    ASSUME RInv, NEW p \in Pairs, report.pair = p, NEW i \in 1..2
    PROVE  /\ Answer(p[i]) \in SUBSET Views /\ IsFiniteSet(Answer(p[i]))
           /\ Side(i, p, Answer(p[i])) = Now(p)
           /\ IsFiniteSet(Now(p))
<1> DEFINE D(q) == {d \in CaseIds : Selects(q, d, report.viewer, report.window)}
<1>1. \A q : Answer(q) = Rows(D(q))
    BY DEF Answer, View, Rows
<1>2. Answer(p[i]) \in SUBSET Views /\ IsFiniteSet(Answer(p[i]))
    <2>1. D(p[i]) \subseteq CaseIds
        OBVIOUS
    <2> HIDE DEF D
    <2> QED
        BY <1>1, <2>1, ViewsOfRows
<1>3. IsFiniteSet(Now(p))
    BY ViewsOfRows DEF Now
<1>4. Left(p, Answer(p[1])) = Now(p)
    <2>1. \A c : View(c).status = cases[c].status
        BY DEF View
    <2>2. CASE p = <<"open", "openAssigned">>
        <3>1. Left(p, Answer(p[1])) = {a \in Rows(D(p[1])) : a.status # "DRAFT"}
            BY <1>1, <2>2 DEF Left
        <3>2. Now(p) = Rows({c \in D(p[1]) : cases[c].status # "DRAFT"})
            BY <2>2 DEF Now, Seen
        <3> QED
            BY <2>1, <3>1, <3>2 DEF Rows
    <2>3. CASE p # <<"open", "openAssigned">>
        BY <1>1, <2>3 DEF Left, Now, Seen
    <2> QED
        BY <2>2, <2>3
<1>5. Right(p, Answer(p[2])) = Rows(Chart(p))
    <2> DEFINE A == Answer(p[2])
               E == D(p[2])
    <2>1. A = Rows(E)
        BY <1>1
    <2>2. ASSUME NEW S, Right(p, A) = {a \in A : a.status \in S},
                 \A c : Charted(c, p) <=> /\ Selects(p[2], c, report.viewer, report.window)
                                          /\ cases[c].status \in S
          PROVE  Right(p, A) = Rows(Chart(p))
        <3>1. Chart(p) = {d \in E : cases[d].status \in S}
            BY <2>2 DEF Chart
        <3>2. {a \in Rows(E) : a.status \in S} = Rows({d \in E : cases[d].status \in S})
            BY Narrowed
        <3> HIDE DEF A, E, D
        <3> QED
            BY <2>1, <2>2, <3>1, <3>2
    <2>3. CASE p = <<"open", "byStatus">>
        <3>1. Right(p, A) = {a \in A : a.status \in Statuses \ Closed}
            BY <2>3, Rights
        <3>2. \A c : Charted(c, p) <=> /\ Selects(p[2], c, report.viewer, report.window)
                                       /\ cases[c].status \in Statuses \ Closed
            BY <2>3 DEF Charted
        <3> HIDE DEF A
        <3> QED
            BY <2>2, <3>1, <3>2 DEF A
    <2>4. CASE p = <<"available", "byStatus">>
        <3>1. Right(p, A) = {a \in A : a.status \in {"READY"}}
            BY <2>4, Rights
        <3>2. \A c : Charted(c, p) <=> /\ Selects(p[2], c, report.viewer, report.window)
                                       /\ cases[c].status \in {"READY"}
            BY <2>4 DEF Charted
        <3> HIDE DEF A
        <3> QED
            BY <2>2, <3>1, <3>2 DEF A
    <2>5. CASE p = <<"closed", "outcomes">>
        <3>1. Right(p, A) = {a \in A : a.status \in Closed}
            BY <2>5, Rights
        <3>2. \A c : Charted(c, p) <=> /\ Selects(p[2], c, report.viewer, report.window)
                                       /\ cases[c].status \in Closed
            BY <2>5 DEF Charted
        <3> HIDE DEF A
        <3> QED
            BY <2>2, <3>1, <3>2 DEF A
    <2>6. CASE p \notin {<<"open", "byStatus">>, <<"available", "byStatus">>, <<"closed", "outcomes">>}
        <3>1. Right(p, A) = A
            BY <2>6 DEF Right
        <3>2. Chart(p) = E
            BY <2>6 DEF Charted, Chart
        <3> HIDE DEF A, E, D
        <3> QED
            BY <2>1, <3>1, <3>2 DEF A
    <2> QED
        BY <2>3, <2>4, <2>5, <2>6 DEF A
<1>6. Right(p, Answer(p[2])) = Now(p)
    <2>1. Chart(p) = {d \in CaseIds : Seen(d, p)}
        BY PairsAgree DEF Chart
    <2> QED
        BY <1>5, <2>1 DEF Now
<1> QED
    BY <1>2, <1>3, <1>4, <1>6 DEF Side
-----------------------------------------------------------------------------
\* No change removes a row.
LEMMA LenOf ==
    ASSUME NEW f, NEW n \in Nat, f = [i \in 1..n |-> f[i]]
    PROVE  Len(f) = n
<1>1. f \in [1..n -> {f[i] : i \in 1..n}]
    OBVIOUS
<1> QED
    BY <1>1

LEMMA LenKept ==
    ASSUME RInv, NEW new, DOMAIN new = CaseIds, new = [i \in DOMAIN new |-> new[i]]
    PROVE  Len(new) = Len(cases)
<1>1. Len(cases) \in Nat
    BY DEF RInv
<1> QED
    BY <1>1, LenOf DEF CaseIds

LEMMA ChangedLen ==
    ASSUME RInv, NEW new, Changed(new), Len(new) \in Nat
    PROVE  Len(cases') = Len(new)
BY LenOf DEF Changed

Grows == Len(cases) <= Len(cases')

LEMMA RewriteGrows ==
    ASSUME RInv, NEW new, Changed(new), DOMAIN new = CaseIds, new = [i \in DOMAIN new |-> new[i]]
    PROVE  Grows
<1>1. Len(cases) \in Nat /\ Len(new) = Len(cases)
    BY LenKept DEF RInv
<1> QED
    BY <1>1, ChangedLen DEF Grows

LEMMA AppendGrows ==
    ASSUME RInv, NEW new, NEW x, Changed(Append(new, x)), DOMAIN new = CaseIds,
           new = [i \in DOMAIN new |-> new[i]]
    PROVE  Grows
<1>1. Len(cases) \in Nat /\ Len(new) = Len(cases)
    BY LenKept DEF RInv
<1>2. new \in Seq({new[i] : i \in CaseIds} \cup {x})
    BY <1>1 DEF CaseIds
<1>3. Len(Append(new, x)) = Len(new) + 1
    BY <1>2
<1> DEFINE more == Append(new, x)
<1>4. Changed(more) /\ Len(more) = Len(cases) + 1
    BY <1>1, <1>3
<1> HIDE DEF more
<1>5. Len(cases') = Len(more)
    BY <1>1, <1>4, ChangedLen
<1> QED
    BY <1>1, <1>4, <1>5 DEF Grows

LEMMA Rows0 ==
    ASSUME RInv
    PROVE  /\ DOMAIN cases = CaseIds /\ cases = [i \in DOMAIN cases |-> cases[i]]
           /\ Len(cases) \in Nat
BY DEF RInv, CaseIds

LEMMA SplitGrows ==
    ASSUME RInv, NEW c \in CaseIds, Split(c)
    PROVE  Grows
<1> DEFINE new == [cases EXCEPT ![c].status = "READY", ![c].type = "FRAUD"]
<1>1. PICK o : Changed(Append(new, NewRow("READY", "AML", o, NoUser, {})))
    BY DEF Split
<1>2. DOMAIN new = CaseIds /\ new = [i \in DOMAIN new |-> new[i]]
    BY Rows0
<1> HIDE DEF new
<1> QED
    BY <1>1, <1>2, AppendGrows

LEMMA ChangeGrows ==
    ASSUME RInv, Change
    PROVE  Grows
<1> DEFINE Rewritten(new) == DOMAIN new = CaseIds /\ new = [i \in DOMAIN new |-> new[i]]
<1>0. DOMAIN cases = CaseIds /\ cases = [i \in DOMAIN cases |-> cases[i]] /\ Len(cases) \in Nat
    BY Rows0
<1>1. ASSUME Arrive PROVE Grows
    BY <1>0, <1>1, AppendGrows DEF Arrive
<1>2. ASSUME NEW u \in Users, NEW t, Save(u, t) PROVE Grows
    BY <1>0, <1>2, AppendGrows DEF Save
<1>3. ASSUME NEW u \in Users, NEW t \in {"FRAUD", "FRAUD_AND_AML"}, File(u, t) PROVE Grows
    <2>1. CASE u \in Investigators
        BY <1>0, <1>3, <2>1, AppendGrows DEF File
    <2>2. CASE u \notin Investigators
        <3>1. PICK S : Changed(cases \o S) /\ (\E r, q : S = <<r, q>> \/ S = <<r>>)
            BY <1>3, <2>2 DEF File
        <3>2. PICK r, q : S = <<r, q>> \/ S = <<r>>
            BY <3>1
        <3> DEFINE R == {r, q} \cup {cases[i] : i \in CaseIds}
        <3>3. S \in Seq(R) /\ Len(S) \in Nat
            <4>1. r \in R /\ q \in R
                OBVIOUS
            <4> HIDE DEF R
            <4>2. <<r, q>> \in Seq(R) /\ Len(<<r, q>>) = 2 /\ <<r>> \in Seq(R) /\ Len(<<r>>) = 1
                BY <4>1
            <4> QED
                BY <3>2, <4>2
        <3>4. cases \in Seq(R)
            BY <1>0 DEF CaseIds
        <3>5. Len(cases \o S) = Len(cases) + Len(S)
            BY <3>3, <3>4
        <3> DEFINE more == cases \o S
        <3>6. Len(more) \in Nat /\ Len(more) >= Len(cases) /\ Changed(more)
            BY <1>0, <3>1, <3>3, <3>5
        <3> HIDE DEF more
        <3>7. Len(cases') = Len(more)
            BY <3>6, ChangedLen
        <3> QED
            BY <1>0, <3>6, <3>7 DEF Grows
    <2> QED
        BY <2>1, <2>2
<1>4. ASSUME NEW c \in CaseIds, NEW u \in Users, NEW t, Complete(c, u, t) PROVE Grows
    <2>1. \A s : Rewritten([cases EXCEPT ![c].status = s, ![c].type = t])
        BY <1>0
    <2>2. CASE Split(c)
        BY <2>2, SplitGrows
    <2>3. CASE \E s : Changed([cases EXCEPT ![c].status = s, ![c].type = t])
        BY <2>1, <2>3, RewriteGrows
    <2> QED
        BY <1>4, <2>2, <2>3 DEF Complete
<1>5. ASSUME NEW c \in CaseIds, NEW s, Changed([cases EXCEPT ![c].status = s]) PROVE Grows
    <2>1. Rewritten([cases EXCEPT ![c].status = s])
        BY <1>0
    <2> QED
        BY <1>5, <2>1, RewriteGrows
<1>6. ASSUME NEW c \in CaseIds, Approve(c) PROVE Grows
    BY <1>5, <1>6, SplitGrows DEF Approve
<1>7. ASSUME NEW c \in CaseIds, Reject(c) PROVE Grows
    <2> DEFINE new == [cases EXCEPT ![c].status = "DRAFT", ![c].workers = @ \union {cases[c].creator}]
    <2>1. Rewritten(new) /\ Changed(new)
        BY ZenonT(60), <1>0, <1>7 DEF Reject
    <2> HIDE DEF new
    <2> QED
        BY <2>1, RewriteGrows
<1>8. ASSUME NEW c \in CaseIds, Triage(c) PROVE Grows
    <2>1. ASSUME NEW s, NEW t, Changed([cases EXCEPT ![c].status = s, ![c].type = t])
          PROVE  Grows
        <3>1. Rewritten([cases EXCEPT ![c].status = s, ![c].type = t])
            BY <1>0
        <3> QED
            BY <2>1, <3>1, RewriteGrows
    <2>2. ASSUME NEW s, NEW u, NEW t,
                 Changed([cases EXCEPT ![c].status = s, ![c].owner = u, ![c].type = t])
          PROVE  Grows
        <3>1. Rewritten([cases EXCEPT ![c].status = s, ![c].owner = u, ![c].type = t])
            BY <1>0
        <3> QED
            BY <2>2, <3>1, RewriteGrows
    <2>3. CASE Split(c)
        BY <2>3, SplitGrows
    <2>4. CASE \E s, t : Changed([cases EXCEPT ![c].status = s, ![c].type = t])
        BY <2>1, <2>4
    <2>5. CASE \E s, u, t : Changed([cases EXCEPT ![c].status = s, ![c].owner = u, ![c].type = t])
        BY ZenonT(60), <2>2, <2>5
    <2>6. CASE \E s : Changed([cases EXCEPT ![c].status = s])
        BY <1>5, <2>6
    <2> QED
        BY ZenonT(60), <1>8, <2>3, <2>4, <2>5, <2>6 DEF Triage
<1>9. ASSUME NEW c \in CaseIds, NEW u, Assign(c, u) PROVE Grows
    <2>1. PICK gone : Changed([cases EXCEPT ![c].status = "ASSIGNED", ![c].owner = u,
                                            ![c].workers = (@ \ gone) \union {u}])
        BY <1>9 DEF Assign
    <2> DEFINE new == [cases EXCEPT ![c].status = "ASSIGNED", ![c].owner = u,
                                    ![c].workers = (@ \ gone) \union {u}]
    <2>2. Rewritten(new) /\ Changed(new)
        BY <1>0, <2>1
    <2> HIDE DEF new
    <2> QED
        BY <2>2, RewriteGrows
<1>10. ASSUME NEW c \in CaseIds, Release(c) PROVE Grows
    <2>1. PICK gone : Changed([cases EXCEPT ![c].status = "READY", ![c].owner = NoUser,
                                            ![c].workers = @ \ gone])
        BY <1>10 DEF Release
    <2> DEFINE new == [cases EXCEPT ![c].status = "READY", ![c].owner = NoUser,
                                    ![c].workers = @ \ gone]
    <2>2. Rewritten(new) /\ Changed(new)
        BY <1>0, <2>1
    <2> HIDE DEF new
    <2> QED
        BY <2>2, RewriteGrows
<1>11. ASSUME NEW c \in CaseIds, NEW s, Move(c, s) PROVE Grows
    BY <1>5, <1>11 DEF Move
<1> QED
    BY <1>1, <1>2, <1>3, <1>4, <1>6, <1>7, <1>8, <1>9, <1>10, <1>11 DEF Change
-----------------------------------------------------------------------------
Stale == {c \in 1..Len(cases') : c \notin CaseIds \/ cases'[c] # cases[c]}

\* Of the rows of A that are not in B, all were written.
LEMMA StaleCount ==
    ASSUME NEW A, NEW B, IsFiniteSet(A), IsFiniteSet(Stale),
           \A a \in A \ B : a.case \in Stale,
           \A a, b \in A : a.case = b.case => a = b
    PROVE  Cardinality(A \ B) <= Cardinality(Stale)
<1> DEFINE D == A \ B
           f == [a \in D |-> a.case]
<1>1. f \in [D -> Stale] /\ \A a, b \in D : f[a] = f[b] => a = b
    OBVIOUS
<1> HIDE DEF D, f
<1>2. f \in Injection(D, Stale)
    BY <1>1, Fun_IsInj
<1>3. Cardinality(D) <= Cardinality(Stale)
    BY <1>2, FS_Injection
<1> QED
    BY <1>3 DEF D

LEMMA Unwritten ==
    ASSUME NEW c, NEW p, cases'[c] = cases[c], today' = today,
           report'.viewer = report.viewer, report'.window = report.window
    PROVE  View(c)' = View(c) /\ (Seen(c, p)' <=> Seen(c, p))
<1>1. View(c)' = View(c)
    BY DEF View
<1>2. \A q : Selects(q, c, report.viewer, report.window)' <=> Selects(q, c, report.viewer, report.window)
    BY DEF Selects, Counted, InScope, Own, Unassigned, IsClosed, Within, ThisMonth, Month
<1>3. Seen(c, p)' <=> Seen(c, p)
    BY <1>2 DEF Seen
<1> QED
    BY <1>1, <1>3

AllFinite == \A p : IsFiniteSet(Now(p))

LEMMA NowFinite == RInv => AllFinite
BY ViewsOfRows DEF AllFinite, Now

\* A change moves what would be read by no more than the rows it writes.
LEMMA ChangeMoves ==
    ASSUME RInv, RInv', Grows, today' = today, NEW p,
           report'.viewer = report.viewer, report'.window = report.window
    PROVE  Written \in Nat /\ Close(Now(p), Now(p)', Written)
<1>1. Len(cases) \in Nat /\ Len(cases') \in Nat /\ Len(cases) <= Len(cases')
    BY DEF RInv, Grows
<1>2. IsFiniteSet(Stale) /\ Cardinality(Stale) \in Nat
    <2>1. IsFiniteSet(1..Len(cases'))
        BY <1>1, FS_Interval
    <2> QED
        BY <2>1, PartFinite DEF Stale
<1>3. Written = Cardinality(Stale)
    BY DEF Written, Stale
<1>4. IsFiniteSet(Now(p))
    BY ViewsOfRows DEF Now
<1>5. IsFiniteSet(Now(p)')
    <2>1. AllFinite'
        BY NowFinite, PTL
    <2> QED
        BY <2>1 DEF AllFinite
<1>6. \A c : View(c).case = c /\ View(c)'.case = c
    BY DEF View
<1>7. /\ \A a \in Now(p) : \E c \in CaseIds : Seen(c, p) /\ a = View(c)
      /\ \A c \in CaseIds : Seen(c, p) => View(c) \in Now(p)
    BY DEF Now, Rows
<1>8. /\ \A a \in Now(p)' : \E c \in CaseIds' : Seen(c, p)' /\ a = View(c)'
      /\ \A c \in CaseIds' : Seen(c, p)' => View(c)' \in Now(p)'
    BY DEF Now, Rows
<1>9. /\ \A a, b \in Now(p) : a.case = b.case => a = b
      /\ \A a, b \in Now(p)' : a.case = b.case => a = b
    <2>1. ASSUME NEW a \in Now(p), NEW b \in Now(p), a.case = b.case PROVE a = b
        <3>1. PICK c \in CaseIds : a = View(c)
            BY <1>7
        <3>2. PICK d \in CaseIds : b = View(d)
            BY <1>7
        <3> QED
            BY <1>6, <2>1, <3>1, <3>2
    <2>2. ASSUME NEW a \in Now(p)', NEW b \in Now(p)', a.case = b.case PROVE a = b
        <3>1. PICK c \in CaseIds' : a = View(c)'
            BY <1>8
        <3>2. PICK d \in CaseIds' : b = View(d)'
            BY <1>8
        <3> QED
            BY <1>6, <2>2, <3>1, <3>2
    <2> QED
        BY <2>1, <2>2
<1>a. \A a \in Now(p) \ Now(p)' : a.case \in Stale
    <2> SUFFICES ASSUME NEW a \in Now(p), a \notin Now(p)' PROVE a.case \in Stale
        OBVIOUS
    <2>1. PICK c \in CaseIds : Seen(c, p) /\ a = View(c)
        BY <1>7
    <2>2. c \in 1..Len(cases')
        BY <1>1 DEF CaseIds
    <2>3. cases'[c] # cases[c]
        <3> SUFFICES ASSUME cases'[c] = cases[c] PROVE FALSE
            OBVIOUS
        <3>1. View(c)' = View(c) /\ Seen(c, p)'
            BY <2>1, Unwritten
        <3>2. c \in CaseIds'
            BY <2>2 DEF CaseIds
        <3> QED
            BY <1>8, <2>1, <3>1, <3>2
    <2> QED
        BY <1>6, <2>1, <2>2, <2>3 DEF Stale
<1>b. \A a \in Now(p)' \ Now(p) : a.case \in Stale
    <2> SUFFICES ASSUME NEW a \in Now(p)', a \notin Now(p) PROVE a.case \in Stale
        OBVIOUS
    <2>1. PICK c \in CaseIds' : Seen(c, p)' /\ a = View(c)'
        BY <1>8
    <2>2. c \in 1..Len(cases')
        BY DEF CaseIds
    <2>3. c \notin CaseIds \/ cases'[c] # cases[c]
        <3> SUFFICES ASSUME c \in CaseIds, cases'[c] = cases[c] PROVE FALSE
            OBVIOUS
        <3>1. View(c)' = View(c) /\ Seen(c, p)
            BY <2>1, Unwritten
        <3> QED
            BY <1>7, <2>1, <3>1
    <2> QED
        BY <1>6, <2>1, <2>2, <2>3 DEF Stale
<1>10. Cardinality(Now(p) \ Now(p)') <= Written /\ Cardinality(Now(p)' \ Now(p)) <= Written
    <2>1. Cardinality(Now(p) \ Now(p)') <= Cardinality(Stale)
        BY <1>2, <1>4, <1>9, <1>a, StaleCount
    <2>2. Cardinality(Now(p)' \ Now(p)) <= Cardinality(Stale)
        BY <1>2, <1>5, <1>9, <1>b, StaleCount
    <2> QED
        BY <1>3, <2>1, <2>2
<1> QED
    BY <1>2, <1>3, <1>4, <1>5, <1>10 DEF Close
-----------------------------------------------------------------------------
(***************************************************************************)
(* The steps of a dashboard.                                               *)
(***************************************************************************)
Fresh(p, answers, d) ==
    \A i \in 1..2 : answers[i] # Unread => Close(Side(i, p, answers[i]), Now(p), d)
Agreed(p, answers, d) ==
    Unread \notin {answers[1], answers[2]} => Close(Left(p, answers[1]), Right(p, answers[2]), d)
Board(u, w, p, answers, d) ==
    [viewer |-> u, window |-> w, pair |-> p, answers |-> answers, drift |-> d]

\* What has been read is near what would be read now, and near each other.
DInv ==
    \/ report = Quiet
    \/ \E u \in Investigators \union {Everyone}, w \in Ranges, p \in Pairs,
          answers \in [1..2 -> Heard], d \in Nat :
          /\ report = Board(u, w, p, answers, d)
          /\ Fresh(p, answers, d)
          /\ Agreed(p, answers, d)

LEMMA NowKept ==
    ASSUME NEW p, cases' = cases, today' = today,
           report'.viewer = report.viewer, report'.window = report.window
    PROVE  Now(p)' = Now(p)
<1>1. CaseIds' = CaseIds /\ \A c : View(c)' = View(c) /\ (Seen(c, p)' <=> Seen(c, p))
    BY SMTT(60), Unwritten DEF CaseIds
<1> QED
    BY <1>1 DEF Now, Rows

LEMMA TodayKept == Change => today' = today
<1>1. \A new : Changed(new) => today' = today
    BY DEF Changed
<1>2. \A c : Split(c) => today' = today
    BY <1>1 DEF Split
<1> QED
    BY ZenonT(60), <1>1, <1>2 DEF Change, Arrive, Save, File, Complete, Approve, Reject, Triage, Assign, Release, Move

LEMMA StartAgrees ==
    ASSUME NEW u \in Investigators \union {Everyone}, NEW w \in Ranges, NEW p \in Pairs,
           StartReport(u, w, p)
    PROVE  DInv'
<1> DEFINE none == <<Unread, Unread>>
<1>1. report' = Board(u, w, p, none, 0)
    BY DEF StartReport, Board
<1>2. none \in [1..2 -> Heard] /\ none[1] = Unread /\ none[2] = Unread
    BY DEF Heard
<1> HIDE DEF none
<1>3. Fresh(p, none, 0)'
    BY <1>2 DEF Fresh
<1>4. Agreed(p, none, 0)'
    BY <1>2 DEF Agreed
<1>5. 0 \in Nat
    OBVIOUS
<1> QED
    BY <1>1, <1>2, <1>3, <1>4, <1>5 DEF DInv

\* An answer that comes in is what would be read now, and the other one is near it.
LEMMA ReadAgrees ==
    ASSUME RInv, DInv, NEW i \in {1, 2}, Read(i)
    PROVE  DInv'
<1>1. PICK u \in Investigators \union {Everyone}, w \in Ranges, p \in Pairs,
           answers \in [1..2 -> Heard], d \in Nat :
               report = Board(u, w, p, answers, d) /\ Fresh(p, answers, d) /\ Agreed(p, answers, d)
    BY DEF DInv, Read
<1>2. report.pair = p /\ report.answers = answers /\ report.viewer = u /\ report.window = w
    BY <1>1 DEF Board
<1> DEFINE A == Answer(p[i])
           S == Now(p)
           more == [answers EXCEPT ![i] = A]
<1>3. A \in SUBSET Views /\ IsFiniteSet(A) /\ Side(i, p, A) = S /\ IsFiniteSet(S)
    BY <1>2, SideNow
<1>4. report' = Board(u, w, p, more, d)
    BY <1>1, <1>2 DEF Read, Board
<1>5. S' = S
    <2>1. cases' = cases /\ today' = today /\ report'.viewer = report.viewer
              /\ report'.window = report.window
        BY <1>2, <1>4 DEF Board, Read
    <2> QED
        BY <2>1, NowKept
<1> HIDE DEF A, S
<1>6. more \in [1..2 -> Heard] /\ more[i] = A /\ \A j \in 1..2 : j # i => more[j] = answers[j]
    BY <1>3 DEF Heard
<1> HIDE DEF more
<1>7. \A j \in 1..2 : more[j] # Unread => Close(Side(j, p, more[j]), S, d)
    <2> SUFFICES ASSUME NEW j \in 1..2, more[j] # Unread PROVE Close(Side(j, p, more[j]), S, d)
        OBVIOUS
    <2>1. CASE j = i
        BY <1>3, <1>6, <2>1, CloseToItself
    <2>2. CASE j # i
        BY <1>1, <1>6, <2>2 DEF Fresh, S
    <2> QED
        BY <2>1, <2>2
<1>8. ASSUME Unread \notin {more[1], more[2]}
      PROVE  Close(Left(p, more[1]), Right(p, more[2]), d)
    <2>1. Close(Left(p, more[1]), S, d) /\ Close(Right(p, more[2]), S, d)
        BY <1>7, <1>8 DEF Side
    <2>2. CASE i = 1
        <3>1. Left(p, more[1]) = S
            BY <1>3, <1>6, <2>2 DEF Side
        <3> QED
            BY <2>1, <3>1, CloseBack
    <2>3. CASE i = 2
        <3>1. Right(p, more[2]) = S
            BY <1>3, <1>6, <2>3 DEF Side
        <3> QED
            BY <2>1, <3>1
    <2> QED
        BY <2>2, <2>3
<1>9. PICK new \in [1..2 -> Heard] : new = more
    BY <1>6
<1>10. Fresh(p, new, d)' /\ Agreed(p, new, d)'
    BY <1>5, <1>7, <1>8, <1>9 DEF Fresh, Agreed, S
<1>11. report' = Board(u, w, p, new, d)
    BY <1>4, <1>9
<1> QED
    BY <1>10, <1>11 DEF DInv

\* A change takes what has been read no further from what would be read now than the
\* rows it writes.
LEMMA ChangeBesideAgrees ==
    ASSUME RInv, RInv', DInv, ChangeBeside
    PROVE  DInv'
<1>1. CASE report = Quiet
    BY <1>1 DEF DInv, ChangeBeside
<1>2. CASE report # Quiet
    <2>1. PICK u \in Investigators \union {Everyone}, w \in Ranges, p \in Pairs,
               answers \in [1..2 -> Heard], d \in Nat :
                   report = Board(u, w, p, answers, d) /\ Fresh(p, answers, d) /\ Agreed(p, answers, d)
        BY <1>2 DEF DInv
    <2>2. report' = Board(u, w, p, answers, d + Written)
        BY <1>2, <2>1 DEF ChangeBeside, Board
    <2>3. report'.viewer = report.viewer /\ report'.window = report.window
        BY <2>1, <2>2 DEF Board
    <2>4. today' = today
        BY TodayKept DEF ChangeBeside
    <2>5. Written \in Nat /\ Close(Now(p), Now(p)', Written)
        BY <2>3, <2>4, ChangeGrows, ChangeMoves DEF ChangeBeside
    <2> DEFINE n == Written
               S == Now(p)
               T == Now(p)'
    <2>6. n \in Nat /\ Close(S, T, n) /\ d + n \in Nat /\ d <= d + n
        BY <2>5
    <2>7. \A i \in 1..2 : answers[i] # Unread => Close(Side(i, p, answers[i]), S, d)
        BY <2>1 DEF Fresh
    <2> HIDE DEF n, S, T
    <2>8. \A i \in 1..2 : answers[i] # Unread => Close(Side(i, p, answers[i]), T, d + n)
        BY <2>6, <2>7, CloseOn
    <2>9. Unread \notin {answers[1], answers[2]} => Close(Left(p, answers[1]), Right(p, answers[2]), d + n)
        BY <2>1, <2>6, CloseEnough DEF Agreed
    <2>10. PICK m \in Nat : m = d + n
        BY <2>6
    <2>11. Fresh(p, answers, m)' /\ Agreed(p, answers, m)'
        BY <2>8, <2>9, <2>10 DEF Fresh, Agreed, T
    <2>12. report' = Board(u, w, p, answers, m)
        BY <2>2, <2>10 DEF n
    <2> QED
        BY <2>11, <2>12 DEF DInv
<1> QED
    BY <1>1, <1>2

LEMMA DInvInit == Init => DInv
BY DEF Init, DInv

LEMMA DInvNext == RInv /\ RInv' /\ DInv /\ [Next]_vars => DInv'
<1> SUFFICES ASSUME RInv, RInv', DInv, [Next]_vars PROVE DInv'
    OBVIOUS
<1>1. CASE ChangeBeside
    BY <1>1, ChangeBesideAgrees
<1>2. CASE report' = Quiet
    BY <1>2 DEF DInv
<1>3. ASSUME NEW u \in Investigators \union {Everyone}, NEW w \in Ranges, NEW p \in Pairs,
             StartReport(u, w, p)
      PROVE  DInv'
    BY <1>3, StartAgrees
<1>4. ASSUME NEW i \in {1, 2}, Read(i) PROVE DInv'
    BY <1>4, ReadAgrees
<1>5. CASE UNCHANGED vars
    <2>1. cases' = cases /\ today' = today /\ report' = report
        BY <1>5 DEF vars
    <2>2. \A p : Now(p)' = Now(p)
        BY <2>1, NowKept
    <2> QED
        BY <2>1, <2>2 DEF DInv, Fresh, Agreed
<1> QED
    BY <1>1, <1>2, <1>3, <1>4, <1>5 DEF Next, Respond

LEMMA DInvInvariant == Spec => [](RInv /\ DInv)
<1>1. Init => RInv /\ DInv
    BY RInvInit, DInvInit
<1>2. RInv /\ DInv /\ [Next]_vars => (RInv /\ DInv)'
    BY RInvNext, DInvNext
<1> QED
    BY <1>1, <1>2, PTL DEF Spec

\* Whatever the staff, the windows and the number of rows and changes, and whatever is
\* committed between the two queries: the figures of a dashboard differ by no more than
\* the rows written while it was put together.  An answer is near what would be read
\* now by the rows written since it was read, and what the two queries of a pair would
\* read now is the same rows.
THEOREM DashboardsAddUp == Spec => []DashboardAddsUp
<1>1. ASSUME DInv, Answered PROVE DashboardAddsUp
    <2>1. PICK u \in Investigators \union {Everyone}, w \in Ranges, p \in Pairs,
               answers \in [1..2 -> Heard], d \in Nat :
                   report = Board(u, w, p, answers, d) /\ Agreed(p, answers, d)
        BY <1>1 DEF DInv, Answered
    <2>2. report.pair = p /\ report.answers = answers /\ report.drift = d
        BY <2>1 DEF Board
    <2>3. Unread \notin {answers[1], answers[2]}
        BY <1>1, <2>2 DEF Answered
    <2>4. Close(Left(p, answers[1]), Right(p, answers[2]), d)
        BY <2>1, <2>3 DEF Agreed
    <2>5. answers[2] \in SUBSET Views /\ IsFiniteSet(answers[2])
        BY <2>3 DEF Heard
    <2>6. /\ Figure(p, answers) = Cardinality(Left(p, answers[1]))
          /\ Counterpart(p, answers) = Cardinality(Right(p, answers[2]))
        BY <2>5, FiguresCount
    <2>7. /\ Figure(p, answers) - Counterpart(p, answers) <= d
          /\ Counterpart(p, answers) - Figure(p, answers) <= d
        BY <2>4, <2>6, CloseCounts
    <2> QED
        BY <2>2, <2>7 DEF DashboardAddsUp
<1>2. DInv => DashboardAddsUp
    BY <1>1 DEF DashboardAddsUp
<1> QED
    BY <1>2, DInvInvariant, PTL
-----------------------------------------------------------------------------
(***************************************************************************)
(* The age of the cases.                                                   *)
(***************************************************************************)
LEMMA OneBand ==
    ASSUME NEW age \in Int
    PROVE  \E b \in Bands : InBand(b, age) /\ \A a \in Bands : InBand(a, age) <=> a = b
<1>1. /\ InBand(1, age) <=> age <= 7
      /\ InBand(2, age) <=> age > 7 /\ age <= 15
      /\ InBand(3, age) <=> age > 15 /\ age < 30
      /\ InBand(4, age) <=> age >= 30
    BY DEF InBand
<1>2. Bands = {1, 2, 3, 4}
    BY DEF Bands
<1>3. \/ InBand(1, age) /\ ~InBand(2, age) /\ ~InBand(3, age) /\ ~InBand(4, age)
      \/ ~InBand(1, age) /\ InBand(2, age) /\ ~InBand(3, age) /\ ~InBand(4, age)
      \/ ~InBand(1, age) /\ ~InBand(2, age) /\ InBand(3, age) /\ ~InBand(4, age)
      \/ ~InBand(1, age) /\ ~InBand(2, age) /\ ~InBand(3, age) /\ InBand(4, age)
    BY <1>1
<1> QED
    BY <1>2, <1>3

LEMMA BandsAreApart == OneBandPerAge
<1> SUFFICES ASSUME NEW age \in 0..40
             PROVE  Cardinality({b \in Bands : InBand(b, age)}) = 1
    BY DEF OneBandPerAge
<1>1. PICK b \in Bands : \A a \in Bands : InBand(a, age) <=> a = b
    BY OneBand
<1>2. {a \in Bands : InBand(a, age)} = {b}
    BY <1>1
<1> QED
    BY <1>2, FS_Singleton

\* The bars of the ageing report add up to its bands, and these to the backlog.
LEMMA BacklogAddsUp ==
    ASSUME RInv, NEW u
    PROVE  LET n == AgeBuckets(Backlog(u))  bars == AgeingByStatus(u) IN
           /\ SumOver(n, Bands) = Cardinality(Backlog(u))
           /\ \A b \in Bands : n[b] = SumOver([s \in DOMAIN bars |-> bars[s][b]], DOMAIN bars)
<1> DEFINE B == Backlog(u)
           n == AgeBuckets(B)
           Open == Statuses \ (Closed \union {"ABANDONED"})
           bars == AgeingByStatus(u)
<1>1. B \subseteq CaseIds /\ IsFiniteSet(B)
    <2>1. B \subseteq CaseIds
        BY DEF Backlog
    <2>2. IsFiniteSet(CaseIds)
        BY FS_Interval DEF CaseIds, RInv
    <2> QED
        BY <2>1, <2>2, PartFinite
<1>2. \A c \in B : Age(c) \in Int /\ cases[c].status \in Open
    <2>1. \A c \in B : Age(c) \in Int
        BY <1>1, RowOfCase DEF Age, Row, RInv
    <2>2. \A c \in B : cases[c].status \in Statuses /\ Counted(c) /\ ~IsClosed(c)
        BY RowFields DEF Backlog
    <2> QED
        BY <2>1, <2>2 DEF Counted, IsClosed
<1>3. \A b \in Bands : n[b] = Cardinality({c \in B : InBand(b, Age(c))})
    BY DEF AgeBuckets
<1>4. DOMAIN bars = Open
    BY DEF AgeingByStatus
<1>5. \A s \in Open : \A b \in Bands :
          bars[s][b] = Cardinality({c \in B : cases[c].status = s /\ InBand(b, Age(c))})
    <2> SUFFICES ASSUME NEW s \in Open, NEW b \in Bands
                 PROVE  bars[s][b] = Cardinality({c \in B : cases[c].status = s /\ InBand(b, Age(c))})
        OBVIOUS
    <2>1. {c \in {d \in B : cases[d].status = s} : InBand(b, Age(c))}
              = {c \in B : cases[c].status = s /\ InBand(b, Age(c))}
        OBVIOUS
    <2> QED
        BY <2>1 DEF AgeingByStatus, AgeBuckets
<1> HIDE DEF B, n, bars, Open
<1>6. SumOver(n, Bands) = Cardinality(B)
    <2> DEFINE f == [c \in B |-> CHOOSE b \in Bands : InBand(b, Age(c))]
    <2>1. \A c \in B : f[c] \in Bands /\ \A b \in Bands : InBand(b, Age(c)) <=> f[c] = b
        <3> SUFFICES ASSUME NEW c \in B
                     PROVE  f[c] \in Bands /\ \A b \in Bands : InBand(b, Age(c)) <=> f[c] = b
            OBVIOUS
        <3>1. PICK b \in Bands : InBand(b, Age(c)) /\ \A a \in Bands : InBand(a, Age(c)) <=> a = b
            BY <1>2, OneBand
        <3>2. f[c] \in Bands /\ InBand(f[c], Age(c))
            BY <3>1
        <3> QED
            BY <3>1, <3>2
    <2>2. f \in [B -> Bands]
        BY <2>1
    <2>3. \A b \in Bands : n[b] = Cardinality({c \in B : f[c] = b})
        <3> SUFFICES ASSUME NEW b \in Bands PROVE n[b] = Cardinality({c \in B : f[c] = b})
            OBVIOUS
        <3>1. {c \in B : InBand(b, Age(c))} = {c \in B : f[c] = b}
            <4> HIDE DEF f
            <4> QED
                BY <2>1
        <3> HIDE DEF f
        <3> QED
            BY <1>3, <3>1
    <2> HIDE DEF f
    <2> QED
        BY <1>1, <2>2, <2>3, PartsAddUp
<1>7. ASSUME NEW b \in Bands
      PROVE  n[b] = SumOver([s \in Open |-> bars[s][b]], Open)
    <2> DEFINE A == {c \in B : InBand(b, Age(c))}
               f == [c \in A |-> cases[c].status]
               m == [s \in Open |-> bars[s][b]]
    <2>1. IsFiniteSet(A)
        BY <1>1, PartFinite
    <2>2. f \in [A -> Open]
        BY <1>2
    <2>3. \A s \in Open : m[s] = Cardinality({c \in A : f[c] = s})
        <3> SUFFICES ASSUME NEW s \in Open PROVE m[s] = Cardinality({c \in A : f[c] = s})
            OBVIOUS
        <3>1. {c \in B : cases[c].status = s /\ InBand(b, Age(c))} = {c \in A : f[c] = s}
            OBVIOUS
        <3> QED
            BY <1>5, <3>1
    <2> HIDE DEF A, f, m
    <2>4. SumOver(m, Open) = Cardinality(A)
        BY <2>1, <2>2, <2>3, PartsAddUp
    <2> QED
        BY <1>3, <2>4 DEF A, m
<1> QED
    BY <1>4, <1>6, <1>7 DEF B, n, bars
-----------------------------------------------------------------------------
(***************************************************************************)
(* Rounding.                                                               *)
(***************************************************************************)
LEMMA Division ==
    ASSUME NEW x \in Nat, NEW t \in Nat, t > 0
    PROVE  /\ x \div t \in Nat /\ x % t \in Nat /\ x % t < t
           /\ x = t * (x \div t) + (x % t)
<1>1. x % t \in Nat /\ x % t < t
    OBVIOUS
<1>2. x = t * (x \div t) + (x % t)
    BY SMTT(30)
<1>3. x \div t \in Nat
    OBVIOUS
<1> QED
    BY <1>1, <1>2, <1>3

\* What a total falls short of, when four remainders are less than the total.
LEMMA ShortOf ==
    ASSUME NEW t \in Nat, t > 0, NEW k \in Int, NEW r \in Nat, t * k = r, r < 4 * t
    PROVE  k \in 0..3
<1>1. k < 4
    <2> SUFFICES ASSUME k >= 4 PROVE FALSE
        OBVIOUS
    <2>1. t * k >= t * 4
        OBVIOUS
    <2> QED
        BY <2>1
<1>2. k >= 0
    <2> SUFFICES ASSUME k <= -1 PROVE FALSE
        OBVIOUS
    <2>1. t * k <= t * (-1)
        OBVIOUS
    <2> QED
        BY <2>1
<1> QED
    BY <1>1, <1>2

\* How many bands there are of which something holds.
LEMMA BandsPicked ==
    ASSUME NEW S \in SUBSET Bands
    PROVE  Cardinality(S) = (IF 1 \in S THEN 1 ELSE 0) + (IF 2 \in S THEN 1 ELSE 0)
                                + (IF 3 \in S THEN 1 ELSE 0) + (IF 4 \in S THEN 1 ELSE 0)
<1> DEFINE n == [b \in Bands |-> IF b \in S THEN 1 ELSE 0]
           f == [a \in S |-> a]
<1>1. IsFiniteSet(S) /\ f \in [S -> Bands]
    <2>1. IsFiniteSet(Bands)
        <3>1. \A m \in Nat : IsFiniteSet(1..m)
            BY FS_Interval
        <3> QED
            BY <3>1 DEF Bands
    <2>2. S \subseteq Bands
        OBVIOUS
    <2>3. f \in [S -> Bands]
        BY <2>2
    <2> HIDE DEF f
    <2> QED
        BY <2>1, <2>2, <2>3, PartFinite
<1>2. \A b \in Bands : n[b] = Cardinality({a \in S : f[a] = b})
    <2> SUFFICES ASSUME NEW b \in Bands PROVE n[b] = Cardinality({a \in S : f[a] = b})
        OBVIOUS
    <2>1. CASE b \in S
        <3>1. {a \in S : f[a] = b} = {b}
            BY <2>1
        <3>2. n[b] = 1
            BY <2>1
        <3> HIDE DEF n, f
        <3> QED
            BY <3>1, <3>2, FS_Singleton
    <2>2. CASE b \notin S
        <3>1. {a \in S : f[a] = b} = {}
            BY <2>2
        <3>2. n[b] = 0
            BY <2>2
        <3> HIDE DEF n, f
        <3> QED
            BY <3>1, <3>2, FS_EmptySet
    <2> QED
        BY <2>1, <2>2
<1>3. \A b \in Bands : n[b] \in Nat
    OBVIOUS
<1>4. n[1] = (IF 1 \in S THEN 1 ELSE 0) /\ n[2] = (IF 2 \in S THEN 1 ELSE 0)
          /\ n[3] = (IF 3 \in S THEN 1 ELSE 0) /\ n[4] = (IF 4 \in S THEN 1 ELSE 0)
    BY DEF Bands
<1> HIDE DEF n, f
<1>5. SumOver(n, Bands) = Cardinality(S)
    BY <1>1, <1>2, PartsAddUp
<1>6. SumOver(n, Bands) = n[1] + n[2] + n[3] + n[4]
    BY <1>3, SumOfBands
<1> QED
    BY <1>4, <1>5, <1>6

\* As many of four things come before k others as k says, whatever decides which of
\* them comes first.
LEMMA Ranked ==
    ASSUME NEW r \in [Bands -> Int], NEW k \in 0..4
    PROVE  LET before(b) == {a \in Bands : r[a] > r[b] \/ (r[a] = r[b] /\ a < b)}
               up == [b \in Bands |-> IF Cardinality(before(b)) < k THEN 1 ELSE 0]
           IN  up[1] + up[2] + up[3] + up[4] = k
<1> DEFINE before(b) == {a \in Bands : r[a] > r[b] \/ (r[a] = r[b] /\ a < b)}
           rank(b) == Cardinality(before(b))
           up == [b \in Bands |-> IF rank(b) < k THEN 1 ELSE 0]
<1>1. \A b \in Bands : rank(b) = (IF 1 \in before(b) THEN 1 ELSE 0) + (IF 2 \in before(b) THEN 1 ELSE 0)
                                + (IF 3 \in before(b) THEN 1 ELSE 0) + (IF 4 \in before(b) THEN 1 ELSE 0)
    <2>1. \A b \in Bands : before(b) \in SUBSET Bands
        OBVIOUS
    <2> HIDE DEF before
    <2> QED
        BY <2>1, BandsPicked
<1>2. \A a, b \in Bands : a \in before(b) <=> r[a] > r[b] \/ (r[a] = r[b] /\ a < b)
    OBVIOUS
<1>3. 1 \in Bands /\ 2 \in Bands /\ 3 \in Bands /\ 4 \in Bands
    BY DEF Bands
<1> DEFINE x1 == r[1]  x2 == r[2]  x3 == r[3]  x4 == r[4]
           less(x, y) == IF x < y THEN 1 ELSE 0
           most(x, y) == IF x <= y THEN 1 ELSE 0
<1>4. x1 \in Int /\ x2 \in Int /\ x3 \in Int /\ x4 \in Int
    BY <1>3
<1> HIDE DEF before, rank
<1>5. /\ rank(1) = less(x1, x2) + less(x1, x3) + less(x1, x4)
      /\ rank(2) = most(x2, x1) + less(x2, x3) + less(x2, x4)
      /\ rank(3) = most(x3, x1) + most(x3, x2) + less(x3, x4)
      /\ rank(4) = most(x4, x1) + most(x4, x2) + most(x4, x3)
    BY <1>1, <1>2, <1>3, <1>4
<1>6. /\ up[1] = (IF rank(1) < k THEN 1 ELSE 0) /\ up[2] = (IF rank(2) < k THEN 1 ELSE 0)
      /\ up[3] = (IF rank(3) < k THEN 1 ELSE 0) /\ up[4] = (IF rank(4) < k THEN 1 ELSE 0)
    BY <1>3
<1> HIDE DEF x1, x2, x3, x4, up
<1>7. up[1] + up[2] + up[3] + up[4] = k
    BY <1>4, <1>5, <1>6, SMTT(60)
<1> QED
    BY <1>7 DEF up, rank, before
-----------------------------------------------------------------------------
\* The percentages of any four counts: within a point of the shares, and 100 together.
LEMMA SharesOf ==
    ASSUME NEW n \in [Bands -> Nat]
    PROVE  LET total == SumOver(n, Bands)  p == Percentages(n)
           IN  /\ \A b \in Bands : /\ 100 * n[b] - total <= p[b] * total
                                   /\ p[b] * total <= 100 * n[b] + total
               /\ SumOver(p, Bands) = IF total = 0 THEN 0 ELSE 100
<1> DEFINE t == SumOver(n, Bands)
           p == Percentages(n)
           floor == [b \in Bands |-> (100 * n[b]) \div t]
           rest == [b \in Bands |-> (100 * n[b]) % t]
           before(b) == {a \in Bands : rest[a] > rest[b] \/ (rest[a] = rest[b] /\ a < b)}
           k == 100 - SumOver(floor, Bands)
           up == [b \in Bands |-> IF Cardinality(before(b)) < k THEN 1 ELSE 0]
<1>1. 1 \in Bands /\ 2 \in Bands /\ 3 \in Bands /\ 4 \in Bands
    BY DEF Bands
<1>2. \A b \in Bands : b = 1 \/ b = 2 \/ b = 3 \/ b = 4
    BY DEF Bands
<1>3. \A b \in Bands : n[b] \in Nat
    OBVIOUS
<1>4. t \in Nat /\ t = n[1] + n[2] + n[3] + n[4]
    BY <1>1, <1>3, SumOfBands
<1>5. CASE t = 0
    <2>1. p = [b \in Bands |-> 0]
        BY <1>5 DEF Percentages
    <2>2. n[1] = 0 /\ n[2] = 0 /\ n[3] = 0 /\ n[4] = 0
        BY <1>1, <1>3, <1>4, <1>5
    <2> HIDE DEF t, p
    <2>3. \A b \in Bands : p[b] = 0 /\ n[b] = 0
        BY <1>2, <2>1, <2>2
    <2>4. SumOver(p, Bands) = p[1] + p[2] + p[3] + p[4]
        BY <2>3, SumOfBands
    <2>5. SumOver(p, Bands) = 0
        BY <1>1, <2>3, <2>4
    <2> QED
        BY <1>5, <2>3, <2>5 DEF t, p
<1>6. CASE t # 0
    <2>1. t > 0
        BY <1>4, <1>6
    <2>2. p = [b \in Bands |-> floor[b] + up[b]]
        BY <1>6 DEF Percentages
    <2>3. \A b \in Bands : up[b] \in {0, 1}
        OBVIOUS
    <2> HIDE DEF t, p
    <2>4. ASSUME NEW b \in Bands
          PROVE  /\ floor[b] \in Nat /\ rest[b] \in Nat /\ rest[b] < t
                 /\ 100 * n[b] = t * floor[b] + rest[b]
        <3>1. PICK x \in Nat : x = 100 * n[b]
            BY <1>3
        <3>2. floor[b] = x \div t /\ rest[b] = x % t
            BY <3>1
        <3>3. /\ x \div t \in Nat /\ x % t \in Nat /\ x % t < t
              /\ x = t * (x \div t) + (x % t)
            BY <1>4, <2>1, Division
        <3> HIDE DEF floor, rest
        <3> QED
            BY <3>1, <3>2, <3>3
    <2>5. rest \in [Bands -> Int] /\ floor \in [Bands -> Nat]
        BY <2>4
    <2>6. SumOver(floor, Bands) = floor[1] + floor[2] + floor[3] + floor[4]
        <3>1. \A b \in Bands : floor[b] \in Nat
            BY <2>4
        <3> HIDE DEF floor
        <3> QED
            BY <3>1, SumOfBands
    <2>7. k \in 0..3
        <3> DEFINE f == floor[1] + floor[2] + floor[3] + floor[4]
                   r == rest[1] + rest[2] + rest[3] + rest[4]
        <3>1. /\ floor[1] \in Nat /\ floor[2] \in Nat /\ floor[3] \in Nat /\ floor[4] \in Nat
              /\ rest[1] \in Nat /\ rest[2] \in Nat /\ rest[3] \in Nat /\ rest[4] \in Nat
              /\ rest[1] < t /\ rest[2] < t /\ rest[3] < t /\ rest[4] < t
            BY <1>1, <2>4
        <3>2. /\ 100 * n[1] = t * floor[1] + rest[1] /\ 100 * n[2] = t * floor[2] + rest[2]
              /\ 100 * n[3] = t * floor[3] + rest[3] /\ 100 * n[4] = t * floor[4] + rest[4]
            BY <1>1, <2>4
        <3>3. n[1] \in Nat /\ n[2] \in Nat /\ n[3] \in Nat /\ n[4] \in Nat
            BY <1>1, <1>3
        <3> HIDE DEF floor, rest
        <3>4. t * floor[1] \in Nat /\ t * floor[2] \in Nat /\ t * floor[3] \in Nat /\ t * floor[4] \in Nat
            BY <1>4, <3>1
        <3>5. t * f = t * floor[1] + t * floor[2] + t * floor[3] + t * floor[4]
            BY <1>4, <3>1, SMTT(30)
        <3>6. 100 * t = t * f + r
            <4> DEFINE y1 == t * floor[1]  y2 == t * floor[2]  y3 == t * floor[3]  y4 == t * floor[4]
                       y == t * f
            <4>1. y1 \in Nat /\ y2 \in Nat /\ y3 \in Nat /\ y4 \in Nat /\ y = y1 + y2 + y3 + y4
                BY <3>4, <3>5
            <4>2. /\ 100 * n[1] = y1 + rest[1] /\ 100 * n[2] = y2 + rest[2]
                  /\ 100 * n[3] = y3 + rest[3] /\ 100 * n[4] = y4 + rest[4]
                BY <3>2
            <4> HIDE DEF y1, y2, y3, y4, y
            <4>3. 100 * t = y + r
                BY <1>4, <3>1, <3>3, <4>1, <4>2
            <4> QED
                BY <4>3 DEF y
        <3>7. f \in Nat /\ r \in Nat /\ r < 4 * t
            BY <1>4, <3>1
        <3> HIDE DEF f, r
        <3>8. t * (100 - f) = r
            BY <1>4, <3>6, <3>7, SMTT(30)
        <3>9. 100 - f \in 0..3
            BY <1>4, <2>1, <3>7, <3>8, ShortOf
        <3> QED
            BY <2>6, <3>9 DEF f
    <2>8. up[1] + up[2] + up[3] + up[4] = k
        <3>1. k \in 0..4
            BY <2>7
        <3> HIDE DEF rest, k
        <3> QED
            BY <2>5, <3>1, Ranked
    <2> HIDE DEF floor, rest, up
    <2>9. \A b \in Bands : p[b] = floor[b] + up[b] /\ p[b] \in Nat
        BY <2>2, <2>3, <2>5
    <2>10. SumOver(p, Bands) = 100
        <3>1. SumOver(p, Bands) = p[1] + p[2] + p[3] + p[4]
            BY <2>9, SumOfBands
        <3>2. /\ floor[1] \in Nat /\ floor[2] \in Nat /\ floor[3] \in Nat /\ floor[4] \in Nat
              /\ up[1] \in {0, 1} /\ up[2] \in {0, 1} /\ up[3] \in {0, 1} /\ up[4] \in {0, 1}
            BY <1>1, <2>3, <2>5
        <3>3. /\ p[1] = floor[1] + up[1] /\ p[2] = floor[2] + up[2]
              /\ p[3] = floor[3] + up[3] /\ p[4] = floor[4] + up[4]
            BY <1>1, <2>9
        <3> QED
            BY <2>6, <2>8, <3>1, <3>2, <3>3
    <2>11. \A b \in Bands : 100 * n[b] - t <= p[b] * t /\ p[b] * t <= 100 * n[b] + t
        <3> SUFFICES ASSUME NEW b \in Bands
                     PROVE  100 * n[b] - t <= p[b] * t /\ p[b] * t <= 100 * n[b] + t
            OBVIOUS
        <3>1. PICK f \in Nat, r \in Nat, x \in Nat : f = floor[b] /\ r = rest[b] /\ x = n[b]
            BY <1>3, <2>4
        <3>2. 100 * x = t * f + r /\ r < t
            BY <2>4, <3>1
        <3>3. t * f \in Nat
            BY <1>4
        <3>4. CASE up[b] = 0
            <4>1. p[b] * t = t * f
                BY <1>4, <2>9, <3>1, <3>4
            <4> QED
                BY <1>4, <3>1, <3>2, <3>3, <4>1
        <3>5. CASE up[b] = 1
            <4>1. p[b] * t = t * f + t
                BY <1>4, <2>9, <3>1, <3>5
            <4> QED
                BY <1>4, <3>1, <3>2, <3>3, <4>1
        <3> QED
            BY <2>3, <3>4, <3>5
    <2> QED
        BY <1>6, <2>10, <2>11 DEF t, p
<1> QED
    BY <1>5, <1>6

LEMMA SharesAreReconciled == SharesReconcile
<1>1. \A n \in [Bands -> 0..4] : n \in [Bands -> Nat]
    OBVIOUS
<1> QED
    BY <1>1, SharesOf DEF SharesReconcile

\* Every case of a backlog of any size is in one age band and in one bar, and the
\* percentages of any four counts are within a point of the shares and add up to 100.
THEOREM AgeingsAddUp == Spec => []AgeingAddsUp
<1>1. RInv => AgeingAddsUp
    BY BandsAreApart, SharesAreReconciled, BacklogAddsUp DEF AgeingAddsUp
<1> QED
    BY <1>1, RInvInvariant, PTL
-----------------------------------------------------------------------------
(***************************************************************************)
(* The months of a trend, and its quartiles.                               *)
(***************************************************************************)
\* Rounding keeps the order, and a value between two others stays between them.
LEMMA Rounded ==
    ASSUME NEW x \in Nat, NEW y \in Nat, x <= y
    PROVE  /\ (2 * x + 4) \div 8 \in Nat /\ (2 * y + 4) \div 8 \in Nat
           /\ (2 * x + 4) \div 8 <= (2 * y + 4) \div 8
OBVIOUS

LEMMA RoundedWhole ==
    ASSUME NEW x \in Nat
    PROVE  (2 * (4 * x) + 4) \div 8 = x
OBVIOUS

\* Four times the value p quarters of the way from low to high.
Mix(low, high, p) ==
    IF p = 0 THEN 4 * low ELSE IF p = 1 THEN 3 * low + high
    ELSE IF p = 2 THEN 2 * low + 2 * high ELSE low + 3 * high

LEMMA Mixed ==
    ASSUME NEW low \in Nat, NEW high \in Nat, NEW p \in 0..3
    PROVE  low * (4 - p) + high * p = Mix(low, high, p)
<1>1. CASE p = 0
    BY <1>1 DEF Mix
<1>2. CASE p = 1
    BY <1>2 DEF Mix
<1>3. CASE p = 2
    BY <1>3 DEF Mix
<1>4. CASE p = 3
    BY <1>4 DEF Mix
<1> QED
    BY <1>1, <1>2, <1>3, <1>4

LEMMA MixBetween ==
    ASSUME NEW low \in Nat, NEW high \in Nat, low <= high, NEW p \in 0..3
    PROVE  /\ Mix(low, high, p) \in Nat
           /\ 4 * low <= Mix(low, high, p) /\ Mix(low, high, p) <= 4 * high
           /\ \A q \in 0..3 : p <= q => Mix(low, high, p) <= Mix(low, high, q)
BY DEF Mix

\* What percentile rounds: the sample at a quarter `at`, four times.
High(days, at) == IF at % 4 = 0 THEN days[(at \div 4) + 1] ELSE days[(at \div 4) + 2]
Quarter(days, at) == Mix(days[(at \div 4) + 1], High(days, at), at % 4)

LEMMA Places ==
    ASSUME NEW n \in Nat, NEW at \in 0..4 * n
    PROVE  /\ (at \div 4) + 1 \in 1..n + 1 /\ at % 4 \in 0..3
           /\ at = 4 * (at \div 4) + (at % 4) /\ at \div 4 \in Nat
           /\ at % 4 # 0 => (at \div 4) + 2 \in 1..n + 1
OBVIOUS

LEMMA QuarterOf ==
    ASSUME NEW n \in Nat, NEW days \in [1..n + 1 -> Nat], NEW k \in 0..4
    PROVE  /\ k * n \in 0..4 * n
           /\ Percentile(days, k) = (2 * Quarter(days, k * n) + 4) \div 8
<1>1. Len(days) = n + 1
    OBVIOUS
<1>2. k = 0 \/ k = 1 \/ k = 2 \/ k = 3 \/ k = 4
    OBVIOUS
<1>3. k * n \in 0..4 * n
    BY <1>2
<1>4. PICK at \in 0..4 * n : at = k * n
    BY <1>3
<1>5. PICK p \in 0..3, low \in Nat, high \in Nat :
          p = at % 4 /\ low = days[(at \div 4) + 1] /\ high = High(days, at)
    <2>1. at % 4 \in 0..3 /\ days[(at \div 4) + 1] \in Nat /\ High(days, at) \in Nat
        BY Places DEF High
    <2> QED
        BY <2>1
<1>6. Percentile(days, k) = (2 * (low * (4 - p) + high * p) + 4) \div 8
    <2>1. k * (Len(days) - 1) = at
        BY <1>1, <1>4
    <2> QED
        BY <1>5, <2>1 DEF Percentile, High
<1>7. low * (4 - p) + high * p = Quarter(days, at)
    BY <1>5, Mixed DEF Quarter
<1> QED
    BY <1>3, <1>4, <1>6, <1>7

LEMMA QuartersInOrder ==
    ASSUME NEW n \in Nat, NEW days \in [1..n + 1 -> Nat],
           \A i, j \in 1..n + 1 : i <= j => days[i] <= days[j],
           NEW x \in 0..4 * n, NEW y \in 0..4 * n, x <= y
    PROVE  /\ Quarter(days, x) \in Nat /\ Quarter(days, y) \in Nat
           /\ Quarter(days, x) <= Quarter(days, y)
<1> DEFINE Placed(at, i, p, low, high) ==
               /\ at = 4 * (i - 1) + p /\ low = days[i] /\ low <= high
               /\ high = IF p = 0 THEN days[i] ELSE days[i + 1]
               /\ p # 0 => i + 1 \in 1..n + 1
               /\ Quarter(days, at) = Mix(low, high, p)
<1>1. ASSUME NEW at \in 0..4 * n
      PROVE  \E i \in 1..n + 1, p \in 0..3, low \in Nat, high \in Nat : Placed(at, i, p, low, high)
    <2>1. PICK i \in 1..n + 1, p \in 0..3 : i = (at \div 4) + 1 /\ p = at % 4
        BY Places
    <2>2. at = 4 * (i - 1) + p /\ (p # 0 => i + 1 \in 1..n + 1) /\ (at \div 4) + 2 = i + 1
        BY <2>1, Places
    <2>3. PICK low \in Nat, high \in Nat :
              low = days[i] /\ high = IF p = 0 THEN days[i] ELSE days[i + 1]
        BY <2>2
    <2>4. high = High(days, at)
        BY <2>1, <2>2, <2>3 DEF High
    <2>5. low <= high
        BY <2>2, <2>3
    <2>6. Quarter(days, at) = Mix(low, high, p)
        BY <2>1, <2>3, <2>4 DEF Quarter
    <2> QED
        BY <2>1, <2>2, <2>3, <2>4, <2>5, <2>6
<1> HIDE DEF Placed
<1>2. PICK i \in 1..n + 1, p \in 0..3, low \in Nat, high \in Nat : Placed(x, i, p, low, high)
    BY <1>1
<1>3. PICK j \in 1..n + 1, q \in 0..3, low2 \in Nat, high2 \in Nat : Placed(y, j, q, low2, high2)
    BY <1>1
<1> USE DEF Placed
<1>4. Mix(low, high, p) \in Nat /\ Mix(low2, high2, q) \in Nat
    BY <1>2, <1>3, MixBetween
<1>5. CASE i = j
    <2>1. p <= q /\ low = low2
        BY <1>2, <1>3, <1>5
    <2>2. CASE p = 0
        <3>1. Mix(low, high, p) = 4 * low
            BY <2>2 DEF Mix
        <3>2. 4 * low2 <= Mix(low2, high2, q)
            BY <1>3, MixBetween
        <3> QED
            BY <1>2, <1>3, <1>4, <2>1, <3>1, <3>2
    <2>3. CASE p # 0
        <3>1. high = high2
            BY <1>2, <1>3, <1>5, <2>1, <2>3
        <3>2. Mix(low, high, p) <= Mix(low, high, q)
            BY <1>2, <2>1, MixBetween
        <3> QED
            BY <1>2, <1>3, <1>4, <2>1, <3>1, <3>2
    <2> QED
        BY <2>2, <2>3
<1>6. CASE i # j
    <2>1. i + 1 <= j
        BY <1>2, <1>3, <1>6
    <2>2. high <= low2
        BY <1>2, <1>3, <2>1
    <2>3. Mix(low, high, p) <= 4 * high /\ 4 * low2 <= Mix(low2, high2, q)
        BY <1>2, <1>3, MixBetween
    <2>4. Mix(low, high, p) <= Mix(low2, high2, q)
        BY <1>4, <2>2, <2>3
    <2> QED
        BY <1>2, <1>3, <1>4, <2>4
<1> QED
    BY <1>5, <1>6

\* The quartiles of any sorted sample are ordered and within it.
LEMMA QuartilesOf ==
    ASSUME NEW n \in Nat, NEW days \in [1..n + 1 -> Nat],
           \A i, j \in 1..n + 1 : i <= j => days[i] <= days[j]
    PROVE  /\ days[1] <= Percentile(days, 1) /\ Percentile(days, 1) <= Percentile(days, 2)
           /\ Percentile(days, 2) <= Percentile(days, 3) /\ Percentile(days, 3) <= days[n + 1]
<1> DEFINE at(k) == k * n
           Q(k) == Quarter(days, at(k))
<1>1. \A k \in 0..4 : at(k) \in 0..4 * n /\ Percentile(days, k) = (2 * Q(k) + 4) \div 8
    BY QuarterOf
<1>2. at(0) <= at(1) /\ at(1) <= at(2) /\ at(2) <= at(3) /\ at(3) <= at(4)
    OBVIOUS
<1>3. Q(0) = 4 * days[1] /\ Q(4) = 4 * days[n + 1]
    <2>1. at(0) = 0 /\ at(4) = 4 * n
        OBVIOUS
    <2>2. 0 % 4 = 0 /\ (0 \div 4) + 1 = 1
        OBVIOUS
    <2>3. (4 * n) % 4 = 0 /\ ((4 * n) \div 4) + 1 = n + 1
        OBVIOUS
    <2>4. \A z : z % 4 = 0 => Quarter(days, z) = 4 * days[(z \div 4) + 1]
        BY DEF Quarter, Mix
    <2> QED
        BY <2>1, <2>2, <2>3, <2>4
<1> HIDE DEF at
<1>4. \A k \in 0..3 : Q(k) \in Nat /\ Q(k + 1) \in Nat /\ Q(k) <= Q(k + 1)
    <2>1. \A k \in 0..3 : at(k) <= at(k + 1) /\ k \in 0..4 /\ k + 1 \in 0..4
        BY <1>2
    <2> QED
        BY <1>1, <2>1, QuartersInOrder
<1> HIDE DEF Q
<1>5. \A k \in 0..3 : Percentile(days, k) <= Percentile(days, k + 1)
    <2> SUFFICES ASSUME NEW k \in 0..3 PROVE Percentile(days, k) <= Percentile(days, k + 1)
        OBVIOUS
    <2>1. PICK x \in Nat, y \in Nat : x = Q(k) /\ y = Q(k + 1) /\ x <= y
        BY <1>4
    <2>2. k \in 0..4 /\ k + 1 \in 0..4
        OBVIOUS
    <2>3. Percentile(days, k) = (2 * x + 4) \div 8 /\ Percentile(days, k + 1) = (2 * y + 4) \div 8
        BY <1>1, <2>1, <2>2
    <2>4. (2 * x + 4) \div 8 <= (2 * y + 4) \div 8
        BY <2>1, Rounded
    <2> QED
        BY <2>3, <2>4
<1>6. Percentile(days, 0) = days[1] /\ Percentile(days, 4) = days[n + 1]
    <2>1. PICK x \in Nat, y \in Nat : x = days[1] /\ y = days[n + 1]
        OBVIOUS
    <2>2. (2 * (4 * x) + 4) \div 8 = x /\ (2 * (4 * y) + 4) \div 8 = y
        BY RoundedWhole
    <2>3. Percentile(days, 0) = (2 * Q(0) + 4) \div 8 /\ Percentile(days, 4) = (2 * Q(4) + 4) \div 8
        BY <1>1
    <2>4. Q(0) = 4 * x /\ Q(4) = 4 * y
        BY <1>3, <2>1
    <2> QED
        BY <2>1, <2>2, <2>3, <2>4
<1> QED
    BY <1>5, <1>6

LEMMA QuartilesAreOrdered == QuartilesOrdered
<1> SUFFICES ASSUME NEW size \in 1..4, NEW days \in [1..size -> 0..5],
                    \A i \in 1..size - 1 : days[i] <= days[i + 1]
             PROVE  /\ days[1] <= Percentile(days, 1) /\ Percentile(days, 1) <= Percentile(days, 2)
                    /\ Percentile(days, 2) <= Percentile(days, 3) /\ Percentile(days, 3) <= days[size]
    BY DEF QuartilesOrdered
<1>1. PICK n \in Nat : size = n + 1
    OBVIOUS
<1>2. days \in [1..n + 1 -> Nat]
    BY <1>1
<1>3. ASSUME NEW i \in 1..n + 1, NEW j \in 1..n + 1, i <= j
      PROVE  days[i] <= days[j]
    <2>1. CASE j = i
        BY <1>2, <2>1
    <2>2. CASE j = i + 1
        BY <1>1, <2>2
    <2>3. CASE j = i + 2
        <3>1. days[i] <= days[i + 1] /\ days[i + 1] <= days[i + 2]
            BY <1>1, <2>3
        <3> QED
            BY <1>2, <2>3, <3>1
    <2>4. CASE j = i + 3
        <3>1. days[i] <= days[i + 1] /\ days[i + 1] <= days[i + 2] /\ days[i + 2] <= days[i + 3]
            BY <1>1, <2>4
        <3> QED
            BY SMTT(60), <1>2, <2>4, <3>1
    <2> QED
        BY <1>1, <1>3, <2>1, <2>2, <2>3, <2>4
<1> QED
    BY <1>1, <1>2, <1>3, QuartilesOf

\* A day is in the month that it is divided into.
LEMMA MonthOf ==
    ASSUME NEW day \in Nat
    PROVE  /\ Month(day) \in Nat
           /\ Month(day) * MonthDays <= day /\ day <= (Month(day) + 1) * MonthDays - 1
<1>1. MonthDays \in Nat /\ MonthDays > 0
    BY ReportAssumption
<1>2. PICK q \in Nat, r \in Nat : q = Month(day) /\ r < MonthDays /\ day = MonthDays * q + r
    BY <1>1, Division DEF Month
<1>3. MonthDays * q \in Nat /\ MonthDays * q = q * MonthDays
    BY <1>1
<1>4. (q + 1) * MonthDays = MonthDays * q + MonthDays
    BY <1>1
<1> QED
    BY <1>1, <1>2, <1>3, <1>4

LEMMA MonthsInOrder ==
    ASSUME NEW x \in Nat, NEW y \in Nat, x <= y
    PROVE  Month(x) <= Month(y)
<1>1. MonthDays \in Nat /\ MonthDays > 0
    BY ReportAssumption
<1>2. PICK p \in Nat, q \in Nat : p = Month(x) /\ q = Month(y)
    BY MonthOf
<1>3. p * MonthDays <= x /\ y <= (q + 1) * MonthDays - 1
    BY <1>2, MonthOf
<1>4. p <= q
    <2> SUFFICES ASSUME p >= q + 1 PROVE FALSE
        BY <1>2
    <2>1. p * MonthDays >= (q + 1) * MonthDays
        BY <1>1, SMTT(30)
    <2>2. p * MonthDays \in Nat /\ (q + 1) * MonthDays \in Nat
        BY <1>1
    <2> QED
        BY <1>1, <1>3, <2>1, <2>2
<1> QED
    BY <1>2, <1>4

LEMMA MonthsShown ==
    ASSUME RInv, NEW w \in Ranges
    PROVE  /\ FirstDay(w) \in Nat /\ LastDay(w) \in Nat /\ FirstDay(w) <= LastDay(w)
           /\ \E lo \in Nat : /\ TrendMonths(w) = lo..Month(LastDay(w)) /\ lo <= Month(LastDay(w))
                              /\ MonthsSpan(w) <= MaxBuckets => lo = Month(FirstDay(w))
<1>1. today \in Nat /\ w.length \in Nat /\ w.end \in Nat /\ MaxBuckets \in Nat /\ MaxBuckets >= 1
    <2>1. w.length \in Windows /\ w.end \in Ends
        BY DEF Ranges
    <2>2. today \in Nat
        BY TableAssumption DEF RInv
    <2>3. MaxBuckets \in Nat /\ MaxBuckets >= 1
        BY ReportAssumption
    <2>4. Windows \subseteq Nat /\ Ends \subseteq Nat
        BY ReportAssumption
    <2> QED
        BY <2>1, <2>2, <2>3, <2>4
<1>2. FirstDay(w) \in Nat /\ LastDay(w) \in Nat /\ FirstDay(w) <= LastDay(w)
    <2> DEFINE last == LastDay(w)
               length == w.length
    <2>1. last \in Nat /\ length \in Nat
        <3> DEFINE end == w.end
        <3>1. today \in Nat /\ end \in Nat /\ length \in Nat
            BY <1>1
        <3>2. last = IF today - end < 0 THEN 0 ELSE today - end
            BY Zenon DEF LastDay
        <3> HIDE DEF last, end, length
        <3> QED
            BY <3>1, <3>2
    <2>2. FirstDay(w) = IF last - length < 0 THEN 0 ELSE last - length
        BY Zenon DEF FirstDay
    <2> HIDE DEF last, length
    <2>3. FirstDay(w) \in Nat /\ FirstDay(w) <= last
        BY <2>1, <2>2
    <2> QED
        BY <2>1, <2>3 DEF last
<1>3. PICK p \in Nat, q \in Nat : p = Month(FirstDay(w)) /\ q = Month(LastDay(w)) /\ p <= q
    BY <1>1, <1>2, MonthOf, MonthsInOrder
<1> DEFINE count == IF MonthsSpan(w) < MaxBuckets THEN MonthsSpan(w) ELSE MaxBuckets
<1>4. MonthsSpan(w) = q - p + 1
    BY <1>3 DEF MonthsSpan
<1>5. count \in 1..q - p + 1 /\ (MonthsSpan(w) <= MaxBuckets => count = q - p + 1)
    BY <1>1, <1>3, <1>4
<1>6. TrendMonths(w) = q - count + 1..q
    BY <1>3 DEF TrendMonths
<1> HIDE DEF count
<1>7. PICK lo \in Nat : lo = q - count + 1 /\ lo <= q /\ (MonthsSpan(w) <= MaxBuckets => lo = p)
    BY <1>3, <1>5
<1> QED
    BY <1>1, <1>2, <1>3, <1>6, <1>7

LEMMA ClosedRows ==
    ASSUME RInv, NEW u, NEW w
    PROVE  /\ ClosedIn(u, w) \subseteq CaseIds /\ IsFiniteSet(ClosedIn(u, w))
           /\ \A c \in ClosedIn(u, w) : cases[c].updated \in Nat /\ Within(cases[c].updated, w)
<1>1. ClosedIn(u, w) \subseteq CaseIds
    BY DEF ClosedIn
<1>2. IsFiniteSet(CaseIds)
    BY FS_Interval DEF CaseIds, RInv
<1>3. \A c \in CaseIds : cases[c].updated \in Nat
    BY RowOfCase, TableAssumption DEF Row
<1>4. \A c \in ClosedIn(u, w) : Within(cases[c].updated, w)
    BY DEF ClosedIn
<1> QED
    BY <1>1, <1>2, <1>3, <1>4, PartFinite

\* The sample of a month shown is of every case closed in it.
LEMMA SampleCounts ==
    ASSUME RInv, NEW u, NEW w \in Ranges, NEW m \in TrendMonths(w)
    PROVE  Len(Sample(u, w, m))
               = Cardinality({c \in ClosedIn(u, w) : Month(cases[c].updated) = m})
<1> DEFINE inMonth == {c \in TrendCases(u, w) : Month(cases[c].updated) = m}
           all == {c \in ClosedIn(u, w) : Month(cases[c].updated) = m}
<1>1. PICK lo \in Nat : TrendMonths(w) = lo..Month(LastDay(w)) /\ lo <= Month(LastDay(w))
    BY MonthsShown
<1>2. MonthDays \in Nat /\ Month(LastDay(w)) \in Nat /\ m \in Nat /\ lo <= m
    <2>1. MonthDays \in Nat /\ Month(LastDay(w)) \in Nat
        BY MonthsShown, MonthOf, ReportAssumption
    <2>2. m \in lo..Month(LastDay(w))
        BY <1>1
    <2> QED
        BY <2>1, <2>2
<1>3. Min(TrendMonths(w)) = lo
    <2>1. lo \in TrendMonths(w) /\ \A y \in TrendMonths(w) : lo <= y
        BY <1>1, <1>2
    <2>2. \A x \in TrendMonths(w) : (\A y \in TrendMonths(w) : x <= y) => x = lo
        BY <1>1, <1>2
    <2> QED
        BY <2>1, <2>2 DEF Min
<1>4. ASSUME NEW c \in ClosedIn(u, w), Month(cases[c].updated) = m
      PROVE  cases[c].updated >= lo * MonthDays
    <2>1. cases[c].updated \in Nat
        BY ClosedRows
    <2>2. m * MonthDays <= cases[c].updated
        BY <1>4, <2>1, MonthOf
    <2>3. lo * MonthDays <= m * MonthDays /\ lo * MonthDays \in Nat /\ m * MonthDays \in Nat
        BY <1>2
    <2> QED
        BY <2>1, <2>2, <2>3
<1>5. inMonth = all
    BY <1>3, <1>4 DEF TrendCases
<1>6. IsFiniteSet(all) /\ Cardinality(all) \in Nat
    BY ClosedRows, PartFinite
<1>7. Cardinality(inMonth) \in Nat
    BY <1>5, <1>6
<1> HIDE DEF inMonth, all
<1> DEFINE S == Sample(u, w, m)
<1>8. S = [i \in 1..Cardinality(inMonth) |-> S[i]]
    <2> DEFINE upTo(d) == Cardinality({c \in inMonth : Days(c) <= d})
               G(i) == CHOOSE d \in {Days(c) : c \in inMonth} : upTo(d - 1) < i /\ i <= upTo(d)
               F == [i \in 1..Cardinality(inMonth) |-> G(i)]
    <2>1. S = F
        BY Zenon DEF Sample, inMonth
    <2> HIDE DEF G, S
    <2>2. F = [i \in 1..Cardinality(inMonth) |-> F[i]]
        OBVIOUS
    <2> QED
        BY <2>1, <2>2
<1> HIDE DEF S
<1>9. Len(S) = Cardinality(inMonth)
    BY <1>7, <1>8, LenOf
<1> QED
    BY <1>5, <1>9 DEF S, all

LEMMA MonthsAddUp ==
    ASSUME RInv, NEW u, NEW w \in Ranges
    PROVE  LET shown == {c \in ClosedIn(u, w) : Month(cases[c].updated) \in TrendMonths(w)}
           IN  /\ SumOver([m \in TrendMonths(w) |-> Len(Sample(u, w, m))], TrendMonths(w)) = Cardinality(shown)
               /\ MonthsSpan(w) <= MaxBuckets => shown = ClosedIn(u, w)
<1> DEFINE Ms == TrendMonths(w)
           shown == {c \in ClosedIn(u, w) : Month(cases[c].updated) \in Ms}
           n == [m \in Ms |-> Len(Sample(u, w, m))]
           f == [c \in shown |-> Month(cases[c].updated)]
<1>1. IsFiniteSet(shown)
    BY ClosedRows, PartFinite
<1>2. f \in [shown -> Ms]
    OBVIOUS
<1>3. \A m \in Ms : n[m] = Cardinality({c \in shown : f[c] = m})
    <2> SUFFICES ASSUME NEW m \in Ms PROVE n[m] = Cardinality({c \in shown : f[c] = m})
        OBVIOUS
    <2>1. {c \in ClosedIn(u, w) : Month(cases[c].updated) = m} = {c \in shown : f[c] = m}
        OBVIOUS
    <2>2. n[m] = Len(Sample(u, w, m))
        OBVIOUS
    <2> HIDE DEF n, shown, f
    <2> QED
        BY <2>1, <2>2, SampleCounts
<1>4. ASSUME MonthsSpan(w) <= MaxBuckets PROVE shown = ClosedIn(u, w)
    <2> SUFFICES ASSUME NEW c \in ClosedIn(u, w) PROVE Month(cases[c].updated) \in Ms
        OBVIOUS
    <2>1. /\ FirstDay(w) \in Nat /\ LastDay(w) \in Nat /\ today \in Nat
          /\ Ms = Month(FirstDay(w))..Month(LastDay(w))
        BY <1>4, MonthsShown, TableAssumption DEF RInv
    <2> DEFINE day == cases[c].updated
    <2>2. day \in Nat /\ FirstDay(w) <= day /\ day <= LastDay(w)
        <3>1. w.length \in Nat /\ w.end \in Nat
            BY ReportAssumption DEF Ranges
        <3>2. day \in Nat /\ Within(day, w)
            BY ClosedRows
        <3> QED
            BY <2>1, <3>1, <3>2 DEF Within, FirstDay, LastDay
    <2> HIDE DEF day, Ms
    <2>3. Month(FirstDay(w)) <= Month(day) /\ Month(day) <= Month(LastDay(w))
        BY <2>1, <2>2, MonthsInOrder
    <2>4. Month(FirstDay(w)) \in Nat /\ Month(day) \in Nat /\ Month(LastDay(w)) \in Nat
        BY <2>1, <2>2, MonthOf
    <2> QED
        BY <2>1, <2>3, <2>4 DEF day
<1> HIDE DEF n, f, shown, Ms
<1>5. SumOver(n, Ms) = Cardinality(shown)
    BY <1>1, <1>2, <1>3, PartsAddUp
<1> QED
    BY <1>4, <1>5 DEF n, shown, Ms

\* For any window, length of a month and number of months shown, the months of a trend
\* show every case closed in them once, and all of them when the window is not longer
\* than what is shown.
THEOREM TrendReportsAddUp == Spec => []TrendsAddUp
<1>1. RInv => TrendsAddUp
    BY QuartilesAreOrdered, MonthsAddUp DEF TrendsAddUp
<1> QED
    BY <1>1, RInvInvariant, PTL
=============================================================================

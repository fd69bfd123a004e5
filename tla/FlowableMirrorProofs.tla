---- MODULE FlowableMirrorProofs ----
(***************************************************************************)
(* Proofs about FlowableMirror: its four invariants, for any users, any    *)
(* number of instances, of calls on their way and of lost calls.           *)
(*                                                                         *)
(* The invariants speak of a case at rest; between two rests a script is   *)
(* half done and calls are on their way.  The inductive invariant FInv     *)
(* keeps a view of the case: its row, and where its instance will be once  *)
(* all that was sent has arrived.  Can says that the rest of the script    *)
(* takes the view to a rest, Matches that the instances and the calls on   *)
(* their way amount to the view, and Lone, while requests come in turn,    *)
(* that no call can be refused.                                            *)
(***************************************************************************)
EXTENDS FlowableMirror, TLAPS, FiniteSetTheorems, SequenceTheorems
-----------------------------------------------------------------------------
(***************************************************************************)
(* Sequences: what Append and RemoveAt keep, and how many elements of a    *)
(* kind they leave.                                                        *)
(***************************************************************************)
Persons == Users \cup {Nobody}
Nodes == TaskNames \cup {"AutoClose", "ended"}
Instance == [at : Nodes, holder : Persons]

Places == TaskNames \ {"ApproveClosure"}
Answers == {c \in {Finish("ApproveClosure", a, o) : a \in {"approve", "reject"},
                                                    o \in Verdicts \cup {"NONE"}} :
                Target(c) \in {"Investigate", "SAR", "ended"}}
LooseCalls == {SetStatus, Terminate} \cup {Start(n) : n \in Places} \cup Answers

\* The instances that wait for a closure to be approved, and the answers to one
\* that are on their way.
Approving(ps) == {p \in DOMAIN ps : ps[p].at = "ApproveClosure"}
Approved(ls) == {k \in DOMAIN ls : ls[k].op = "finish"}

LEMMA CountedP ==
    ASSUME NEW ps \in Seq(Instance)
    PROVE  IsFiniteSet(Approving(ps)) /\ Cardinality(Approving(ps)) \in Nat
<1>1. DOMAIN ps = 1..Len(ps) /\ Len(ps) \in Nat
  BY LenProperties
<1>2. IsFiniteSet(1..Len(ps))
  BY <1>1, FS_Interval
<1>3. Approving(ps) \in SUBSET (1..Len(ps))
  BY <1>1 DEF Approving
<1> QED
  BY <1>2, <1>3, FS_Subset, FS_CardinalityType

LEMMA CountedL ==
    ASSUME NEW ls \in Seq(LooseCalls)
    PROVE  IsFiniteSet(Approved(ls)) /\ Cardinality(Approved(ls)) \in Nat
<1>1. DOMAIN ls = 1..Len(ls) /\ Len(ls) \in Nat
  BY LenProperties
<1>2. IsFiniteSet(1..Len(ls))
  BY <1>1, FS_Interval
<1>3. Approved(ls) \in SUBSET (1..Len(ls))
  BY <1>1 DEF Approved
<1> QED
  BY <1>2, <1>3, FS_Subset, FS_CardinalityType

LEMMA AppendFacts ==
    ASSUME NEW S, NEW s \in Seq(S), NEW e \in S
    PROVE  /\ Append(s, e) \in Seq(S)
           /\ Len(s) \in Nat
           /\ DOMAIN s = 1..Len(s)
           /\ Len(Append(s, e)) = Len(s) + 1
           /\ DOMAIN Append(s, e) = 1..(Len(s) + 1)
           /\ DOMAIN Append(s, e) = DOMAIN s \cup {Len(s) + 1}
           /\ Len(s) + 1 \notin DOMAIN s
           /\ \A k \in DOMAIN s : Append(s, e)[k] = s[k]
           /\ Append(s, e)[Len(s) + 1] = e
<1>1. /\ Append(s, e) \in Seq(S) /\ Len(Append(s, e)) = Len(s) + 1
      /\ \A k \in 1..Len(s) : Append(s, e)[k] = s[k]
      /\ Append(s, e)[Len(s) + 1] = e
  BY AppendProperties
<1>2. Len(s) \in Nat /\ DOMAIN s = 1..Len(s)
  BY LenProperties
<1>3. DOMAIN Append(s, e) = 1..(Len(s) + 1)
  BY <1>1, LenProperties
<1> QED
  BY <1>1, <1>2, <1>3

LEMMA AppendCountL ==
    ASSUME NEW ls \in Seq(LooseCalls), NEW c \in LooseCalls
    PROVE  Cardinality(Approved(Append(ls, c)))
             = Cardinality(Approved(ls)) + (IF c.op = "finish" THEN 1 ELSE 0)
<1> DEFINE n == Len(ls) + 1
<1>1. /\ DOMAIN Append(ls, c) = DOMAIN ls \cup {n} /\ n \notin DOMAIN ls
      /\ \A k \in DOMAIN ls : Append(ls, c)[k] = ls[k]
      /\ Append(ls, c)[n] = c
  BY AppendFacts
<1>2. IsFiniteSet(Approved(ls)) /\ Cardinality(Approved(ls)) \in Nat
  BY CountedL
<1>3. CASE c.op = "finish"
  <2>1. Approved(Append(ls, c)) = Approved(ls) \cup {n} /\ n \notin Approved(ls)
    BY <1>1, <1>3 DEF Approved
  <2> QED
    BY <1>2, <1>3, <2>1, FS_AddElement
<1>4. CASE c.op # "finish"
  <2>1. Approved(Append(ls, c)) = Approved(ls)
    BY <1>1, <1>4 DEF Approved
  <2> QED
    BY <1>2, <1>4, <2>1
<1> QED
  BY <1>3, <1>4

LEMMA AppendCountP ==
    ASSUME NEW ps \in Seq(Instance), NEW r \in Instance
    PROVE  r.at # "ApproveClosure" => Approving(Append(ps, r)) = Approving(ps)
<1>1. /\ DOMAIN Append(ps, r) = DOMAIN ps \cup {Len(ps) + 1} /\ Len(ps) + 1 \notin DOMAIN ps
      /\ \A k \in DOMAIN ps : Append(ps, r)[k] = ps[k]
      /\ Append(ps, r)[Len(ps) + 1] = r
  BY AppendFacts
<1> QED
  BY <1>1 DEF Approving

LEMMA ReplaceFacts ==
    ASSUME NEW ps \in Seq(Instance), NEW p \in DOMAIN ps, NEW r \in Instance
    PROVE  /\ [ps EXCEPT ![p] = r] \in Seq(Instance)
           /\ Len([ps EXCEPT ![p] = r]) = Len(ps)
           /\ DOMAIN [ps EXCEPT ![p] = r] = DOMAIN ps
           /\ [ps EXCEPT ![p] = r][p] = r
           /\ \A q \in DOMAIN ps : q # p => [ps EXCEPT ![p] = r][q] = ps[q]
<1>1. DOMAIN ps = 1..Len(ps)
  BY LenProperties
<1>2. /\ [ps EXCEPT ![p] = r] \in Seq(Instance)
      /\ Len([ps EXCEPT ![p] = r]) = Len(ps)
  BY <1>1, ExceptSeq
<1> QED
  BY <1>2

LEMMA ReplaceCount ==
    ASSUME NEW ps \in Seq(Instance), NEW p \in DOMAIN ps, NEW r \in Instance
    PROVE  Cardinality(Approving([ps EXCEPT ![p] = r])) + (IF ps[p].at = "ApproveClosure" THEN 1 ELSE 0)
             = Cardinality(Approving(ps)) + (IF r.at = "ApproveClosure" THEN 1 ELSE 0)
<1> DEFINE qs == [ps EXCEPT ![p] = r]
<1>1. /\ DOMAIN qs = DOMAIN ps /\ qs[p] = r
      /\ \A q \in DOMAIN ps : q # p => qs[q] = ps[q]
  BY ReplaceFacts
<1> HIDE DEF qs
<1>2. IsFiniteSet(Approving(ps)) /\ Cardinality(Approving(ps)) \in Nat
  BY CountedP
<1>3. CASE r.at = "ApproveClosure"
  <2>1. Approving(qs) = Approving(ps) \cup {p}
    BY <1>1, <1>3 DEF Approving
  <2>2. Cardinality(Approving(qs)) = IF p \in Approving(ps) THEN Cardinality(Approving(ps))
                                                            ELSE Cardinality(Approving(ps)) + 1
    BY <1>2, <2>1, FS_AddElement
  <2>3. p \in Approving(ps) <=> ps[p].at = "ApproveClosure"
    BY DEF Approving
  <2> QED
    BY <1>2, <1>3, <2>2, <2>3 DEF qs
<1>4. CASE r.at # "ApproveClosure"
  <2>1. Approving(qs) = Approving(ps) \ {p}
    BY <1>1, <1>4 DEF Approving
  <2>2. Cardinality(Approving(qs)) = IF p \in Approving(ps) THEN Cardinality(Approving(ps)) - 1
                                                            ELSE Cardinality(Approving(ps))
    BY <1>2, <2>1, FS_RemoveElement
  <2>3. p \in Approving(ps) <=> ps[p].at = "ApproveClosure"
    BY DEF Approving
  <2> QED
    BY <1>2, <1>4, <2>2, <2>3 DEF qs
<1> QED
  BY <1>3, <1>4

\* The place in s of the j-th element that is left when the k-th is taken out.
Up(k, j) == IF j < k THEN j ELSE j + 1

LEMMA RemoveFacts ==
    ASSUME NEW S, NEW s \in Seq(S), NEW k \in DOMAIN s
    PROVE  /\ RemoveAt(s, k) \in Seq(S)
           /\ Len(RemoveAt(s, k)) = Len(s) - 1
           /\ \A j \in DOMAIN RemoveAt(s, k) : /\ Up(k, j) \in DOMAIN s \ {k}
                                               /\ RemoveAt(s, k)[j] = s[Up(k, j)]
           /\ \A i, j \in DOMAIN RemoveAt(s, k) : Up(k, i) = Up(k, j) => i = j
           /\ \A m \in DOMAIN s \ {k} : \E j \in DOMAIN RemoveAt(s, k) : Up(k, j) = m
<1> DEFINE f == SubSeq(s, 1, k - 1)
           g == SubSeq(s, k + 1, Len(s))
<1>1. Len(s) \in Nat /\ DOMAIN s = 1..Len(s) /\ k \in 1..Len(s) /\ \A i \in 1..Len(s) : s[i] \in S
  BY LenProperties, ElementOfSeq
<1>2. f \in Seq(S) /\ Len(f) = k - 1 /\ \A i \in 1..(k - 1) : f[i] = s[i]
  <2>1. k - 1 \in Int /\ 1 \in Int /\ \A i \in 1..(k - 1) : s[i] \in S
    BY <1>1
  <2>2. /\ f \in Seq(S) /\ Len(f) = (IF 1 <= k - 1 THEN k - 1 - 1 + 1 ELSE 0)
        /\ \A i \in 1..(k - 1 - 1 + 1) : f[i] = s[1 + i - 1]
    BY <2>1, SubSeqProperties
  <2> HIDE DEF f
  <2> QED
    BY <1>1, <2>2
<1>3. g \in Seq(S) /\ Len(g) = Len(s) - k /\ \A i \in 1..(Len(s) - k) : g[i] = s[k + i]
  <2>1. k + 1 \in Int /\ Len(s) \in Int /\ \A i \in (k + 1)..Len(s) : s[i] \in S
    BY <1>1
  <2>2. /\ g \in Seq(S) /\ Len(g) = (IF k + 1 <= Len(s) THEN Len(s) - (k + 1) + 1 ELSE 0)
        /\ \A i \in 1..(Len(s) - (k + 1) + 1) : g[i] = s[k + 1 + i - 1]
    BY <2>1, SubSeqProperties
  <2> HIDE DEF g
  <2>3. Len(g) = Len(s) - k
    BY <1>1, <2>2
  <2>4. ASSUME NEW i \in 1..(Len(s) - k)
        PROVE  g[i] = s[k + i]
    <3>1. i \in 1..(Len(s) - (k + 1) + 1) /\ k + 1 + i - 1 = k + i
      BY <1>1, <2>4
    <3> QED
      BY <2>2, <3>1
  <2> QED
    BY <2>2, <2>3, <2>4
<1>4. RemoveAt(s, k) = f \o g
  BY DEF RemoveAt
<1> HIDE DEF f, g
<1> DEFINE r == f \o g
<1>5. /\ r \in Seq(S) /\ Len(r) = Len(f) + Len(g)
      /\ \A i \in 1..(Len(f) + Len(g)) : r[i] = IF i <= Len(f) THEN f[i] ELSE g[i - Len(f)]
  BY <1>2, <1>3, ConcatProperties
<1> HIDE DEF r
<1>6. Len(r) = Len(s) - 1 /\ DOMAIN r = 1..(Len(s) - 1)
  BY <1>1, <1>2, <1>3, <1>5, LenProperties
<1>7. ASSUME NEW j \in DOMAIN r
      PROVE  Up(k, j) \in DOMAIN s \ {k} /\ r[j] = s[Up(k, j)]
  <2>1. j \in 1..(Len(s) - 1) /\ j \in Int
    BY <1>6, <1>7, <1>1
  <2>2. CASE j < k
    <3>1. j \in 1..(k - 1) /\ j <= Len(f) /\ j \in 1..(Len(f) + Len(g)) /\ Up(k, j) = j
      BY <1>1, <1>2, <1>3, <2>1, <2>2 DEF Up
    <3>2. r[j] = s[j]
      BY <1>2, <1>5, <3>1
    <3>3. j \in DOMAIN s \ {k}
      BY <1>1, <2>1, <2>2
    <3> QED
      BY <3>1, <3>2, <3>3
  <2>3. CASE ~(j < k)
    <3>1. r[j] = g[j - (k - 1)] /\ j - (k - 1) \in 1..(Len(s) - k)
      BY <1>1, <1>2, <1>3, <1>5, <2>1, <2>3
    <3>2. g[j - (k - 1)] = s[k + (j - (k - 1))] /\ k + (j - (k - 1)) = j + 1
      BY <1>1, <1>3, <2>1, <3>1
    <3> QED
      BY <1>1, <2>1, <2>3, <3>1, <3>2 DEF Up
  <2> QED
    BY <2>2, <2>3
<1>8. ASSUME NEW i \in DOMAIN r, NEW j \in DOMAIN r, Up(k, i) = Up(k, j)
      PROVE  i = j
  BY <1>1, <1>6, <1>8 DEF Up
<1>9. ASSUME NEW m \in DOMAIN s \ {k}
      PROVE  \E j \in DOMAIN r : Up(k, j) = m
  <2>1. CASE m < k
    <3>1. m \in DOMAIN r /\ Up(k, m) = m
      BY <1>1, <1>6, <1>9, <2>1, SMTT(30) DEF Up
    <3> QED
      BY <3>1
  <2>2. CASE ~(m < k)
    <3>1. m - 1 \in DOMAIN r /\ Up(k, m - 1) = m
      BY <1>1, <1>6, <1>9, <2>2, SMTT(30) DEF Up
    <3> QED
      BY <3>1
  <2> QED
    BY <2>1, <2>2
<1> QED
  BY <1>4, <1>5, <1>6, <1>7, <1>8, <1>9 DEF r

LEMMA RemoveCount ==
    ASSUME NEW ls \in Seq(LooseCalls), NEW k \in DOMAIN ls
    PROVE  Cardinality(Approved(RemoveAt(ls, k))) + (IF ls[k].op = "finish" THEN 1 ELSE 0)
             = Cardinality(Approved(ls))
<1> DEFINE ms == RemoveAt(ls, k)
           f == [j \in Approved(ms) |-> Up(k, j)]
<1>1. /\ ms \in Seq(LooseCalls)
      /\ \A j \in DOMAIN ms : Up(k, j) \in DOMAIN ls \ {k} /\ ms[j] = ls[Up(k, j)]
      /\ \A i, j \in DOMAIN ms : Up(k, i) = Up(k, j) => i = j
      /\ \A m \in DOMAIN ls \ {k} : \E j \in DOMAIN ms : Up(k, j) = m
  BY RemoveFacts
<1> HIDE DEF ms
<1>2. f \in Bijection(Approved(ms), Approved(ls) \ {k})
  <2>1. f \in [Approved(ms) -> Approved(ls) \ {k}]
    BY <1>1 DEF Approved
  <2>2. \A i, j \in Approved(ms) : f[i] = f[j] => i = j
    BY <1>1 DEF Approved
  <2>3. \A m \in Approved(ls) \ {k} : \E j \in Approved(ms) : f[j] = m
    BY <1>1 DEF Approved
  <2> QED
    BY <2>1, <2>2, <2>3 DEF Bijection, Injection, Surjection, IsInjective
<1>3. IsFiniteSet(Approved(ms)) /\ Cardinality(Approved(ls)) \in Nat /\ IsFiniteSet(Approved(ls))
  BY <1>1, CountedL
<1>4. Cardinality(Approved(ms)) = Cardinality(Approved(ls) \ {k})
  <2>1. ExistsBijection(Approved(ms), Approved(ls) \ {k})
    BY <1>2 DEF ExistsBijection
  <2> QED
    BY <1>3, <2>1, FS_Bijection
<1>5. Cardinality(Approved(ls) \ {k}) = IF k \in Approved(ls) THEN Cardinality(Approved(ls)) - 1
                                                             ELSE Cardinality(Approved(ls))
  BY <1>3, FS_RemoveElement
<1>6. k \in Approved(ls) <=> ls[k].op = "finish"
  BY DEF Approved
<1> QED
  BY <1>3, <1>4, <1>5, <1>6 DEF ms
-----------------------------------------------------------------------------
(***************************************************************************)
(* The view of a case: its row, where its instance will be once all that   *)
(* was sent has arrived ("none" before it has started) and who will hold   *)
(* its task.  While requests come in turn, `sent` bounds what may be on    *)
(* its way: nothing, SetStatus calls, or one other call besides them.      *)
(***************************************************************************)
View(s, o, d, a, h, z) ==
    [status |-> s, owner |-> o, desk |-> d, at |-> a, holder |-> h, sent |-> z]

Young == {"none", "DRAFT", "PENDING_CREATION", "ABANDONED"}
Awaits(s) == s.do \in {"await", "retry", "try"}

\* What a step of a script does to the view.
Reaches(x, s) ==
    CASE s.call.op = "start"  -> s.call.node
      [] s.call.op = "finish" -> Target(s.call)
      [] s.call.op = "end"    -> "ended"
      [] OTHER                -> x.at
Holds(x, s) ==
    CASE s.call.op = "claim" -> s.call.user
      [] s.call.op = "set"   -> x.holder
      [] OTHER               -> Nobody
Mark(x, s) == IF s.do # "send" THEN x.sent ELSE IF s.call.op = "set" THEN "set" ELSE "other"

Done(x, s) ==
    IF s.do = "write" THEN View(s.status, s.owner, s.desk, x.at, x.holder, x.sent)
    ELSE View(x.status, x.owner, x.desk, Reaches(x, s), Holds(x, s), Mark(x, s))

\* The steps a view is ready for.
FitsWrite(x, s) ==
    /\ s.do = "write" /\ (s.status \in Young => x.status \in Young)
    /\ x.status = "ABANDONED" => x.at # "ended"
FitsSet(x, s) == (s.do = "send" \/ Awaits(s)) /\ s.call = SetStatus /\ x.at \in TaskNames
FitsClaim(x, s) ==
    /\ Awaits(s) /\ s.call.op = "claim" /\ s.call.task = x.at /\ x.at \in Places
    /\ s.call.user \in Persons
    /\ s.call.user # Nobody => x.holder \in {Nobody, s.call.user}
FitsFinish(x, s) ==
    /\ s.call.op = "finish" /\ s.call.task = x.at
    /\ \/ s.do = "send" /\ s.call \in Answers /\ x.status \notin Young
       \/ Awaits(s) /\ x.at \in Places \cup {"AutoClose"} /\ Target(s.call) \in Nodes
FitsStart(x, s) ==
    /\ s.call.op = "start" /\ s.call = Start(s.call.node) /\ s.call.node \in Places
    /\ \/ Awaits(s) /\ x.at = "none"
       \/ s.do = "send" /\ x.at \in {"ended", "AutoClose"} /\ x.status \notin Young
FitsEnd(x, s) == s.do = "send" /\ s.call = Terminate /\ x.status = "ABANDONED" /\ x.at \in Places

Fits(x, s) == \/ FitsWrite(x, s) \/ FitsSet(x, s) \/ FitsClaim(x, s)
              \/ FitsFinish(x, s) \/ FitsStart(x, s) \/ FitsEnd(x, s)

\* A claim of a task the instance is not at, or that another user holds.
Stuck(x, s) ==
    /\ Awaits(s) /\ s.call.op = "claim" /\ s.call.task \in Places /\ x.at \in TaskNames
    /\ s.call.task # x.at \/ (s.call.user # Nobody /\ x.holder \notin {Nobody, s.call.user})

\* In turn, no step comes too early for what was sent before it.
Calmly(x, s) ==
    s.do = "write" \/
    (/\ x.sent # "other"
     /\ x.sent # "nothing" => Done(x, s).at \in TaskNames
     /\ s.call.op = "start" => x.sent = "nothing" /\ x.at \in {"none", "ended"}
     /\ s.call.op = "end" => x.sent = "nothing")

Goes(x, s, t) == Fits(x, s) /\ (t => Calmly(x, s))
-----------------------------------------------------------------------------
(***************************************************************************)
(* A case at rest: which task is open, for whom, where the instance is     *)
(* and who has claimed its task.                                           *)
(***************************************************************************)
Desk(n, u) == [m \in TaskNames |-> IF m = n THEN u ELSE "none"]
NoDesk == [m \in TaskNames |-> "none"]

RestNew(x) == /\ x.status = "none" /\ x.owner = Nobody /\ x.desk = NoDesk
              /\ x.at = "none" /\ x.holder = Nobody
RestDraft(x) == /\ x.status = "DRAFT" /\ x.at = "Complete"
                /\ \E u \in Persons : x.desk = Desk("Complete", u) /\ x.holder \in {Nobody, u}
RestCreating(x) == /\ x.status = "PENDING_CREATION" /\ x.desk = Desk("ApproveCreation", Nobody)
                   /\ x.at = "ApproveCreation" /\ x.holder = Nobody
RestReady(x) == /\ x.status = "READY" /\ x.desk = Desk("Investigate", Nobody)
                /\ x.at = "Investigate" /\ x.holder = Nobody
RestAssigned(x) == /\ x.status = "ASSIGNED" /\ x.owner \in Users
                   /\ x.desk = Desk("Investigate", x.owner)
                   /\ x.at = "Investigate" /\ x.holder \in {Nobody, x.owner}
RestWorking(x) == /\ x.status = "IN_PROGRESS" /\ x.owner \in Users
                  /\ x.desk \in {NoDesk, Desk("Investigate", x.owner)}
                  /\ x.at = "Investigate" /\ x.holder \in {Nobody, x.owner}
RestSuspended(x) == /\ x.status = "SUSPENDED" /\ x.owner \in Users
                    /\ \E u \in Users : x.desk = Desk("Investigate", u)
                    /\ x.at = "Investigate" /\ x.holder = x.owner
RestClosing(x) == /\ x.status = "PENDING_CLOSURE" /\ x.owner \in Users
                  /\ x.desk = Desk("ApproveClosure", Nobody)
                  /\ x.at = "ApproveClosure" /\ x.holder = Nobody
RestClosed(x) == x.status = "CLOSED" /\ x.at = "ended" /\ x.desk = NoDesk
RestFiling(x) == /\ x.status = "CLOSED" /\ x.at = "SAR"
                 /\ \E u \in Persons : x.desk = Desk("SAR", u) /\ x.holder \in {Nobody, u}
RestReopening(x) == /\ x.status = "PENDING_REOPENING" /\ x.desk = Desk("ApproveReopening", Nobody)
                    /\ x.at = "ApproveReopening" /\ x.holder = Nobody
RestAbandoned(x) == x.status = "ABANDONED" /\ x.desk = NoDesk /\ x.at = "ended"
RestRefuted(x) == x.status = "AUTO_REFUTED" /\ x.desk = NoDesk /\ x.at = "Complete"
RestConfirmed(x) == x.status = "AUTO_CONFIRMED" /\ x.desk = NoDesk /\ x.at = "AutoClose"

Rest(x) ==
    /\ x.owner \in Persons
    /\ \/ RestNew(x) \/ RestDraft(x) \/ RestCreating(x) \/ RestReady(x) \/ RestAssigned(x)
       \/ RestWorking(x) \/ RestSuspended(x) \/ RestClosing(x) \/ RestClosed(x) \/ RestFiling(x)
       \/ RestReopening(x) \/ RestAbandoned(x) \/ RestRefuted(x) \/ RestConfirmed(x)

\* In turn, the AI's triage and a suspension by someone else have not happened.
Calm(x) == /\ x.status \notin {"AUTO_REFUTED", "AUTO_CONFIRMED"}
           /\ x.status = "SUSPENDED" => x.desk["Investigate"] = x.owner

Stays(x, t) == Rest(x) /\ (t => Calm(x))
-----------------------------------------------------------------------------
(***************************************************************************)
(* The script s takes the view x to a rest, or to a claim that is refused; *)
(* R holds every view on the way with what is left of the script.          *)
(***************************************************************************)
Leads(R, t) ==
    \A y, r : <<y, r>> \in R =>
        \/ r = <<>> /\ Stays(y, t)
        \/ r # <<>> /\ Goes(y, Head(r), t) /\ <<Done(y, Head(r)), Tail(r)>> \in R
        \/ r # <<>> /\ ~t /\ Stuck(y, Head(r))
Can(x, s, t) == \E R : <<x, s>> \in R /\ Leads(R, t)

LEMMA CanEnd ==
    ASSUME NEW x, NEW t, Stays(x, t)
    PROVE  Can(x, <<>>, t)
<1> DEFINE R == {<<x, <<>>>>}
<1>1. <<x, <<>>>> \in R /\ \A y, r : <<y, r>> \in R => y = x /\ r = <<>>
  OBVIOUS
<1> HIDE DEF R
<1>2. Leads(R, t)
  BY <1>1 DEF Leads
<1> QED
  BY <1>1, <1>2 DEF Can

LEMMA CanStep ==
    ASSUME NEW x, NEW s, NEW t, s # <<>>, Goes(x, Head(s), t), Can(Done(x, Head(s)), Tail(s), t)
    PROVE  Can(x, s, t)
<1>1. PICK Q : <<Done(x, Head(s)), Tail(s)>> \in Q /\ Leads(Q, t)
  BY DEF Can
<1> DEFINE R == Q \cup {<<x, s>>}
<1>2. <<x, s>> \in R /\ <<Done(x, Head(s)), Tail(s)>> \in R /\ (\A e \in Q : e \in R)
      /\ \A y, r : <<y, r>> \in R => <<y, r>> \in Q \/ (y = x /\ r = s)
  BY <1>1
<1> HIDE DEF R
<1>3. Leads(R, t)
  <2> SUFFICES ASSUME NEW y, NEW r, <<y, r>> \in R
               PROVE  \/ r = <<>> /\ Stays(y, t)
                      \/ r # <<>> /\ Goes(y, Head(r), t) /\ <<Done(y, Head(r)), Tail(r)>> \in R
                      \/ r # <<>> /\ ~t /\ Stuck(y, Head(r))
    BY DEF Leads
  <2>1. CASE <<y, r>> \in Q
    BY <1>1, <1>2, <2>1 DEF Leads
  <2>2. CASE y = x /\ r = s
    BY <1>2, <2>2
  <2> QED
    BY <1>2, <2>1, <2>2
<1> QED
  BY <1>2, <1>3 DEF Can

LEMMA CanStuck ==
    ASSUME NEW x, NEW s, NEW t, s # <<>>, ~t, Stuck(x, Head(s))
    PROVE  Can(x, s, t)
<1> DEFINE R == {<<x, s>>}
<1>1. <<x, s>> \in R /\ \A y, r : <<y, r>> \in R => y = x /\ r = s
  OBVIOUS
<1> HIDE DEF R
<1>2. Leads(R, t)
  BY <1>1 DEF Leads
<1> QED
  BY <1>1, <1>2 DEF Can

\* What Can says of the script that is left, and that losing one's turn is harmless.
LEMMA CanTake ==
    ASSUME NEW x, NEW s, NEW t, Can(x, s, t)
    PROVE  /\ s = <<>> => Stays(x, t)
           /\ s # <<>> => \/ Goes(x, Head(s), t) /\ Can(Done(x, Head(s)), Tail(s), t)
                          \/ ~t /\ Stuck(x, Head(s))
<1>1. PICK R : <<x, s>> \in R /\ Leads(R, t)
  BY DEF Can
<1>2. \/ s = <<>> /\ Stays(x, t)
      \/ s # <<>> /\ Goes(x, Head(s), t) /\ <<Done(x, Head(s)), Tail(s)>> \in R
      \/ s # <<>> /\ ~t /\ Stuck(x, Head(s))
  BY <1>1 DEF Leads
<1> QED
  BY <1>1, <1>2 DEF Can

LEMMA CanLess ==
    ASSUME NEW x, NEW s, NEW t, NEW u, Can(x, s, t), u => t, u \in BOOLEAN, t \in BOOLEAN
    PROVE  Can(x, s, u)
<1>1. PICK R : <<x, s>> \in R /\ Leads(R, t)
  BY DEF Can
<1>2. Leads(R, u)
  BY <1>1 DEF Leads, Stays, Goes
<1> QED
  BY <1>1, <1>2 DEF Can
-----------------------------------------------------------------------------
(***************************************************************************)
(* Scripts of one to six steps.                                            *)
(***************************************************************************)
LEMMA Tails ==
    /\ \A a : <<a>> # <<>> /\ Head(<<a>>) = a /\ Tail(<<a>>) = <<>>
    /\ \A a, b : <<a, b>> # <<>> /\ Head(<<a, b>>) = a /\ Tail(<<a, b>>) = <<b>>
    /\ \A a, b, c : <<a, b, c>> # <<>> /\ Head(<<a, b, c>>) = a /\ Tail(<<a, b, c>>) = <<b, c>>
    /\ \A a, b, c, d : /\ <<a, b, c, d>> # <<>> /\ Head(<<a, b, c, d>>) = a
                       /\ Tail(<<a, b, c, d>>) = <<b, c, d>>
    /\ \A a, b, c, d, e : /\ <<a, b, c, d, e>> # <<>> /\ Head(<<a, b, c, d, e>>) = a
                          /\ Tail(<<a, b, c, d, e>>) = <<b, c, d, e>>
    /\ \A a, b, c, d, e, f : /\ <<a, b, c, d, e, f>> # <<>> /\ Head(<<a, b, c, d, e, f>>) = a
                             /\ Tail(<<a, b, c, d, e, f>>) = <<b, c, d, e, f>>
<1>1. \A a : <<a>> # <<>> /\ Head(<<a>>) = a /\ Tail(<<a>>) = <<>>
  OBVIOUS
<1>2. \A a, b : <<a, b>> # <<>> /\ Head(<<a, b>>) = a /\ Tail(<<a, b>>) = <<b>>
  OBVIOUS
<1>3. \A a, b, c : <<a, b, c>> # <<>> /\ Head(<<a, b, c>>) = a /\ Tail(<<a, b, c>>) = <<b, c>>
  OBVIOUS
<1>4. \A a, b, c, d : /\ <<a, b, c, d>> # <<>> /\ Head(<<a, b, c, d>>) = a
                      /\ Tail(<<a, b, c, d>>) = <<b, c, d>>
  OBVIOUS
<1>5. \A a, b, c, d, e : /\ <<a, b, c, d, e>> # <<>> /\ Head(<<a, b, c, d, e>>) = a
                         /\ Tail(<<a, b, c, d, e>>) = <<b, c, d, e>>
  OBVIOUS
<1>6. \A a, b, c, d, e, f : /\ <<a, b, c, d, e, f>> # <<>> /\ Head(<<a, b, c, d, e, f>>) = a
                            /\ Tail(<<a, b, c, d, e, f>>) = <<b, c, d, e, f>>
  OBVIOUS
<1> QED
  BY <1>1, <1>2, <1>3, <1>4, <1>5, <1>6
-----------------------------------------------------------------------------
(***************************************************************************)
(* The instances ps and the calls ls on their way amount to the view x.    *)
(* An instance is looked for by the task it is at, so one the server does  *)
(* not know of (closed by the AI, or waiting for an answer that is on its  *)
(* way) does no harm, as long as there is one it does know of.             *)
(***************************************************************************)
Here(ps, p) == p \in DOMAIN ps /\ ps[p].at \in Places
Place(c) == IF c.op = "start" THEN c.node ELSE Target(c)
Coming(ls, k) == /\ k \in DOMAIN ls /\ ls[k].op \in {"start", "finish"}
                 /\ Place(ls[k]) \in Places
Ending(ls) == \E k \in DOMAIN ls : ls[k].op = "end"

\* The instance at work is the one of the view, and there is but one, or it is
\* still to come.
Where(x, ps, ls) == \A p : ~Ending(ls) /\ Here(ps, p) => ps[p].at = x.at /\ ps[p].holder = x.holder
Single(ps) == \A p, q : Here(ps, p) /\ Here(ps, q) => p = q
ComesLast(x, ps, ls) ==
    \A k : Coming(ls, k) => /\ x.at = Place(ls[k]) /\ x.holder = Nobody
                            /\ \A p : ~Here(ps, p)
                            /\ \A l : Coming(ls, l) => l = k
Somewhere(x, ps, ls) == x.at \in Places => (\E p : Here(ps, p)) \/ (\E k : Coming(ls, k))
\* Every other one that waits for a closure to be approved will get an answer.
Answered(x, ps, ls) ==
    Cardinality(Approving(ps)) = Cardinality(Approved(ls)) + (IF x.at = "ApproveClosure" THEN 1 ELSE 0)
Unclaimed(ps) == \A p \in Approving(ps) : ps[p].holder = Nobody
\* Before the work on the case begins it has one instance.
Early(x, ps, ls) ==
    x.status \in Young => /\ Len(ps) <= 1
                          /\ \A k \in DOMAIN ls : ls[k].op \in {"set", "end"}
                          /\ x.at = "none" => Len(ps) = 0
Abandons(x, ls) == Ending(ls) => x.status = "ABANDONED" /\ x.at = "ended"

Matches(x, ps, ls) ==
    /\ Where(x, ps, ls) /\ Single(ps) /\ ComesLast(x, ps, ls) /\ Somewhere(x, ps, ls)
    /\ Answered(x, ps, ls) /\ Unclaimed(ps) /\ Early(x, ps, ls) /\ Abandons(x, ls)

LEMMA LooseKinds ==
    ASSUME NEW c \in LooseCalls
    PROVE  /\ c.op \in {"set", "end", "start", "finish"}
           /\ c.op = "set" <=> c = SetStatus
           /\ c.op = "end" <=> c = Terminate
           /\ c.op = "start" => c.node \in Places
           /\ c.op = "finish" => c \in Answers /\ c.task = "ApproveClosure"
                                 /\ Target(c) \in {"Investigate", "SAR", "ended"}
<1>1. CASE c \in {SetStatus, Terminate}
  BY <1>1 DEF SetStatus, Terminate
<1>2. CASE c \in {Start(n) : n \in Places}
  BY <1>2 DEF SetStatus, Terminate, Start
<1>3. CASE c \in Answers
  <2>1. c.op = "finish" /\ c.task = "ApproveClosure" /\ Target(c) \in {"Investigate", "SAR", "ended"}
    BY <1>3 DEF Answers, Finish
  <2> QED
    BY <1>3, <2>1 DEF SetStatus, Terminate
<1> QED
  BY <1>1, <1>2, <1>3 DEF LooseCalls

LEMMA MatchesRow ==
    ASSUME NEW x, NEW y, NEW ps, NEW ls, Matches(x, ps, ls), y.at = x.at, y.holder = x.holder,
           y.status \in Young => x.status \in Young,
           x.status = "ABANDONED" => x.at # "ended" \/ y.status = x.status
    PROVE  Matches(y, ps, ls)
<1>1. Where(y, ps, ls) /\ ComesLast(y, ps, ls) /\ Somewhere(y, ps, ls)
  BY DEF Matches, Where, ComesLast, Somewhere
<1>2. Answered(y, ps, ls) /\ Early(y, ps, ls) /\ Abandons(y, ls)
  BY DEF Matches, Answered, Early, Abandons
<1> QED
  BY <1>1, <1>2 DEF Matches
-----------------------------------------------------------------------------
(***************************************************************************)
(* A call is sent.                                                         *)
(***************************************************************************)
LEMMA SentCalls ==
    ASSUME NEW ls \in Seq(LooseCalls), NEW c \in LooseCalls
    PROVE  LET ms == Append(ls, c) n == Len(ls) + 1 IN
           /\ ms \in Seq(LooseCalls) /\ n \notin DOMAIN ls /\ n \in DOMAIN ms /\ ms[n] = c
           /\ \A k \in DOMAIN ls : k \in DOMAIN ms /\ ms[k] = ls[k]
           /\ \A k \in DOMAIN ms : k \in DOMAIN ls \/ k = n
           /\ \A k : Coming(ms, k) <=> Coming(ls, k) \/ (k = n /\ Coming(ms, n))
           /\ Coming(ms, n) <=> c.op \in {"start", "finish"} /\ Place(c) \in Places
           /\ Ending(ms) <=> Ending(ls) \/ c.op = "end"
<1> DEFINE ms == Append(ls, c)
           n == Len(ls) + 1
<1>1. /\ ms \in Seq(LooseCalls) /\ n \notin DOMAIN ls /\ n \in DOMAIN ms /\ ms[n] = c
      /\ \A k \in DOMAIN ls : k \in DOMAIN ms /\ ms[k] = ls[k]
      /\ \A k \in DOMAIN ms : k \in DOMAIN ls \/ k = n
  BY AppendFacts
<1> HIDE DEF ms, n
<1>2. \A k : Coming(ms, k) <=> Coming(ls, k) \/ (k = n /\ Coming(ms, n))
  BY <1>1 DEF Coming
<1>3. Coming(ms, n) <=> c.op \in {"start", "finish"} /\ Place(c) \in Places
  BY <1>1 DEF Coming
<1>4. Ending(ms) <=> Ending(ls) \/ c.op = "end"
  BY <1>1 DEF Ending
<1> QED
  BY <1>1, <1>2, <1>3, <1>4 DEF ms, n

LEMMA MatchesSendSet ==
    ASSUME NEW x, NEW y, NEW ps, NEW ls \in Seq(LooseCalls), Matches(x, ps, ls),
           y.at = x.at, y.holder = x.holder, y.status = x.status
    PROVE  Matches(y, ps, Append(ls, SetStatus))
<1> DEFINE ms == Append(ls, SetStatus)
           n == Len(ls) + 1
<1>1. SetStatus \in LooseCalls /\ SetStatus.op = "set"
  BY DEF LooseCalls, SetStatus
<1>2. /\ ms[n] = SetStatus
      /\ \A k \in DOMAIN ls : ms[k] = ls[k]
      /\ \A k \in DOMAIN ms : k \in DOMAIN ls \/ k = n
      /\ \A k : Coming(ms, k) <=> Coming(ls, k)
      /\ Ending(ms) <=> Ending(ls)
  <2>1. /\ ms[n] = SetStatus
        /\ \A k \in DOMAIN ls : ms[k] = ls[k]
        /\ \A k \in DOMAIN ms : k \in DOMAIN ls \/ k = n
        /\ \A k : Coming(ms, k) <=> Coming(ls, k) \/ (k = n /\ Coming(ms, n))
        /\ Coming(ms, n) <=> SetStatus.op \in {"start", "finish"} /\ Place(SetStatus) \in Places
        /\ Ending(ms) <=> Ending(ls) \/ SetStatus.op = "end"
    BY <1>1, SentCalls
  <2> QED
    BY <1>1, <2>1
<1>3. \A k : Coming(ls, k) => ms[k] = ls[k]
  BY <1>2 DEF Coming
<1>4. Cardinality(Approved(ms)) = Cardinality(Approved(ls))
  <2>1. Cardinality(Approved(ms)) = Cardinality(Approved(ls)) + 0
    BY <1>1, AppendCountL
  <2> QED
    BY <2>1, CountedL
<1> HIDE DEF ms, n
<1>5. Where(y, ps, ms) /\ Somewhere(y, ps, ms)
  BY <1>2 DEF Matches, Where, Somewhere
<1>6. ComesLast(y, ps, ms)
  BY <1>2, <1>3 DEF Matches, ComesLast
<1>7. Answered(y, ps, ms)
  BY <1>4 DEF Matches, Answered
<1>8. Early(y, ps, ms)
  BY <1>1, <1>2 DEF Matches, Early
<1>9. Abandons(y, ms)
  BY <1>2 DEF Matches, Abandons
<1> QED
  BY <1>5, <1>6, <1>7, <1>8, <1>9 DEF Matches, ms

\* A start, or the answer to a closure: the instance of the view is then the one
\* to come.
LEMMA MatchesSendNext ==
    ASSUME NEW x, NEW y, NEW ps, NEW ls \in Seq(LooseCalls), Matches(x, ps, ls),
           NEW c \in LooseCalls, x.status \notin Young, y.status = x.status,
           \/ c.op = "start" /\ x.at \notin TaskNames
           \/ c.op = "finish" /\ x.at = "ApproveClosure",
           y.at = Place(c), y.holder = Nobody
    PROVE  Matches(y, ps, Append(ls, c))
<1> DEFINE ms == Append(ls, c)
           n == Len(ls) + 1
<1>1. /\ n \notin DOMAIN ls /\ ms[n] = c
      /\ \A k \in DOMAIN ls : ms[k] = ls[k]
      /\ \A k : Coming(ms, k) <=> Coming(ls, k) \/ (k = n /\ Coming(ms, n))
      /\ Coming(ms, n) <=> c.op \in {"start", "finish"} /\ Place(c) \in Places
      /\ Ending(ms) <=> Ending(ls) \/ c.op = "end"
  BY SentCalls
<1>2. Cardinality(Approved(ms)) = Cardinality(Approved(ls)) + (IF c.op = "finish" THEN 1 ELSE 0)
  BY AppendCountL
<1> HIDE DEF ms, n
<1>3. y.at # "ApproveClosure" /\ c.op # "end"
  BY LooseKinds DEF Place, Places
<1>4. ~Ending(ls) /\ ~Ending(ms)
  BY <1>1, <1>3 DEF Matches, Abandons, Young
<1>5. \A p : ~Here(ps, p)
  BY <1>4 DEF Matches, Where, Here, Places
<1>6. \A k : ~Coming(ls, k)
  BY DEF Matches, ComesLast, Coming, Places
<1>7. Where(y, ps, ms)
  BY <1>5 DEF Where
<1>8. ComesLast(y, ps, ms)
  BY <1>1, <1>5, <1>6 DEF ComesLast
<1>9. Somewhere(y, ps, ms)
  BY <1>1 DEF Somewhere
<1>10. Answered(y, ps, ms)
  <2>1. Cardinality(Approved(ls)) \in Nat
    BY CountedL
  <2>2. Cardinality(Approving(ps)) = Cardinality(Approved(ls)) + (IF x.at = "ApproveClosure" THEN 1 ELSE 0)
    BY DEF Matches, Answered
  <2>3. (IF x.at = "ApproveClosure" THEN 1 ELSE 0) = (IF c.op = "finish" THEN 1 ELSE 0)
    BY DEF TaskNames
  <2> QED
    BY <1>2, <1>3, <2>1, <2>2, <2>3 DEF Answered
<1>11. Early(y, ps, ms) /\ Abandons(y, ms)
  BY <1>4 DEF Early, Abandons
<1> QED
  BY <1>7, <1>8, <1>9, <1>10, <1>11 DEF Matches, ms

LEMMA MatchesSendEnd ==
    ASSUME NEW x, NEW y, NEW ps, NEW ls \in Seq(LooseCalls), Matches(x, ps, ls),
           x.status = "ABANDONED", x.at \in Places, y.status = x.status, y.at = "ended"
    PROVE  Matches(y, ps, Append(ls, Terminate))
<1> DEFINE ms == Append(ls, Terminate)
           n == Len(ls) + 1
<1>1. Terminate \in LooseCalls /\ Terminate.op = "end"
  BY DEF LooseCalls, Terminate
<1>2. /\ ms[n] = Terminate
      /\ \A k \in DOMAIN ls : ms[k] = ls[k]
      /\ \A k \in DOMAIN ms : k \in DOMAIN ls \/ k = n
      /\ \A k : Coming(ms, k) <=> Coming(ls, k)
      /\ Ending(ms)
  <2>1. /\ ms[n] = Terminate
        /\ \A k \in DOMAIN ls : ms[k] = ls[k]
        /\ \A k \in DOMAIN ms : k \in DOMAIN ls \/ k = n
        /\ \A k : Coming(ms, k) <=> Coming(ls, k) \/ (k = n /\ Coming(ms, n))
        /\ Coming(ms, n) <=> Terminate.op \in {"start", "finish"} /\ Place(Terminate) \in Places
        /\ Ending(ms) <=> Ending(ls) \/ Terminate.op = "end"
    BY <1>1, SentCalls
  <2> QED
    BY <1>1, <2>1
<1>3. Cardinality(Approved(ms)) = Cardinality(Approved(ls))
  <2>1. Cardinality(Approved(ms)) = Cardinality(Approved(ls)) + 0
    BY <1>1, AppendCountL
  <2> QED
    BY <2>1, CountedL
<1> HIDE DEF ms, n
<1>4. \A k : ~Coming(ls, k)
  BY DEF Matches, Early, Young, Coming
<1>5. Where(y, ps, ms) /\ Somewhere(y, ps, ms)
  BY <1>2 DEF Where, Somewhere, Places, TaskNames
<1>6. ComesLast(y, ps, ms)
  BY <1>2, <1>4 DEF ComesLast
<1>7. Answered(y, ps, ms)
  BY <1>3 DEF Matches, Answered, Places
<1>8. Early(y, ps, ms)
  BY <1>1, <1>2 DEF Matches, Early
<1>9. Abandons(y, ms)
  BY DEF Abandons
<1> QED
  BY <1>5, <1>6, <1>7, <1>8, <1>9 DEF Matches, ms
-----------------------------------------------------------------------------
(***************************************************************************)
(* An awaited call is accepted.                                            *)
(***************************************************************************)
LEMMA MatchesClaim ==
    ASSUME NEW x, NEW y, NEW ps \in Seq(Instance), NEW ls \in Seq(LooseCalls), Matches(x, ps, ls),
           x.at \in Places, NEW p \in DOMAIN ps, ps[p].at = x.at, NEW u \in Persons,
           y.status = x.status, y.at = x.at, y.holder = u,
           NEW r \in Instance, r.at = x.at, r.holder = u
    PROVE  Matches(y, [ps EXCEPT ![p] = r], ls)
<1> DEFINE qs == [ps EXCEPT ![p] = r]
<1>1. /\ Len(qs) = Len(ps) /\ DOMAIN qs = DOMAIN ps /\ qs[p] = r
      /\ \A q \in DOMAIN ps : q # p => qs[q] = ps[q]
  BY ReplaceFacts
<1> HIDE DEF qs
<1>2. Here(ps, p) /\ \A q : Here(ps, q) => q = p
  BY DEF Here, Matches, Single
<1>3. \A q : Here(qs, q) <=> q = p
  BY <1>1, <1>2 DEF Here
<1>4. \A k : ~Coming(ls, k)
  BY <1>2 DEF Matches, ComesLast
<1>5. Approving(qs) = Approving(ps) /\ p \notin Approving(ps)
  BY <1>1 DEF Approving, Places
<1>6. Where(y, qs, ls) /\ Single(qs) /\ ComesLast(y, qs, ls) /\ Somewhere(y, qs, ls)
  BY <1>1, <1>3, <1>4 DEF Where, Single, ComesLast, Somewhere
<1>7. Answered(y, qs, ls)
  BY <1>5 DEF Matches, Answered
<1>8. Unclaimed(qs)
  BY <1>1, <1>5 DEF Matches, Unclaimed, Approving
<1>9. Early(y, qs, ls) /\ Abandons(y, ls)
  BY <1>1 DEF Matches, Early, Abandons
<1> QED
  BY <1>6, <1>7, <1>8, <1>9 DEF Matches, qs

LEMMA MatchesFinish ==
    ASSUME NEW x, NEW y, NEW ps \in Seq(Instance), NEW ls \in Seq(LooseCalls), Matches(x, ps, ls),
           x.at \in Places \cup {"AutoClose"}, NEW p \in DOMAIN ps, ps[p].at = x.at,
           y.status = x.status, y.at \in Nodes, y.holder = Nobody,
           NEW r \in Instance, r.at = y.at, r.holder = Nobody
    PROVE  Matches(y, [ps EXCEPT ![p] = r], ls)
<1> DEFINE qs == [ps EXCEPT ![p] = r]
<1>1. /\ Len(qs) = Len(ps) /\ DOMAIN qs = DOMAIN ps /\ qs[p] = r
      /\ \A q \in DOMAIN ps : q # p => qs[q] = ps[q]
  BY ReplaceFacts
<1>2. Cardinality(Approving(qs)) + (IF ps[p].at = "ApproveClosure" THEN 1 ELSE 0)
        = Cardinality(Approving(ps)) + (IF r.at = "ApproveClosure" THEN 1 ELSE 0)
  BY ReplaceCount
<1>3. qs \in Seq(Instance)
  BY ReplaceFacts
<1> HIDE DEF qs
<1>4. ~Ending(ls)
  BY DEF Matches, Abandons, Places, TaskNames
<1>5. \A q : Here(ps, q) => q = p
  <2>1. CASE x.at \in Places
    BY <2>1 DEF Here, Matches, Single
  <2>2. CASE x.at = "AutoClose"
    BY <1>4, <2>2 DEF Here, Matches, Where, Places, TaskNames
  <2> QED
    BY <2>1, <2>2
<1>6. \A k : ~Coming(ls, k)
  <2>1. CASE x.at \in Places
    BY <2>1 DEF Here, Matches, ComesLast
  <2>2. CASE x.at = "AutoClose"
    BY <2>2 DEF Coming, Matches, ComesLast, Places, TaskNames
  <2> QED
    BY <2>1, <2>2
<1>7. \A q : Here(qs, q) <=> q = p /\ y.at \in Places
  BY <1>1, <1>5 DEF Here
<1>8. Where(y, qs, ls) /\ Single(qs) /\ ComesLast(y, qs, ls) /\ Somewhere(y, qs, ls)
  BY <1>1, <1>6, <1>7 DEF Where, Single, ComesLast, Somewhere
<1>9. Answered(y, qs, ls)
  <2>1. /\ Cardinality(Approving(ps)) \in Nat /\ Cardinality(Approving(qs)) \in Nat
        /\ Cardinality(Approved(ls)) \in Nat
    BY <1>3, CountedP, CountedL
  <2>2. Cardinality(Approving(ps)) = Cardinality(Approved(ls)) /\ ps[p].at # "ApproveClosure"
    BY <2>1 DEF Matches, Answered, Places
  <2> QED
    BY <1>2, <2>1, <2>2 DEF Answered
<1>10. Unclaimed(qs)
  BY <1>1 DEF Matches, Unclaimed, Approving
<1>11. Early(y, qs, ls) /\ Abandons(y, ls)
  BY <1>1, <1>4 DEF Matches, Early, Abandons, Nodes, TaskNames
<1> QED
  BY <1>8, <1>9, <1>10, <1>11 DEF Matches, qs

LEMMA MatchesStart ==
    ASSUME NEW x, NEW y, NEW ps \in Seq(Instance), NEW ls \in Seq(LooseCalls), Matches(x, ps, ls),
           x.at = "none", y.status = x.status, y.at \in Places, y.holder = Nobody
    PROVE  Matches(y, Append(ps, [at |-> y.at, holder |-> Nobody]), ls)
<1> DEFINE r == [at |-> y.at, holder |-> Nobody]
           qs == Append(ps, r)
           n == Len(ps) + 1
<1>1. r \in Instance /\ r.at = y.at /\ r.holder = Nobody
  BY DEF Instance, Nodes, Places, Persons
<1>2. /\ Len(ps) \in Nat /\ Len(qs) = n /\ DOMAIN qs = DOMAIN ps \cup {n} /\ n \notin DOMAIN ps
      /\ qs[n] = r /\ \A q \in DOMAIN ps : qs[q] = ps[q]
  BY <1>1, AppendFacts
<1>3. Approving(qs) = Approving(ps)
  BY <1>1, AppendCountP DEF Places
<1> HIDE DEF qs, n, r
<1>4. ~Ending(ls)
  BY DEF Matches, Abandons
<1>5. \A q : ~Here(ps, q)
  BY <1>4 DEF Here, Matches, Where, Places, TaskNames
<1>6. \A k : ~Coming(ls, k)
  BY DEF Coming, Matches, ComesLast, Places, TaskNames
<1>7. \A q : Here(qs, q) <=> q = n
  BY <1>1, <1>2, <1>5 DEF Here
<1>8. Where(y, qs, ls) /\ Single(qs) /\ ComesLast(y, qs, ls) /\ Somewhere(y, qs, ls)
  BY <1>1, <1>2, <1>6, <1>7 DEF Where, Single, ComesLast, Somewhere
<1>9. Answered(y, qs, ls)
  BY <1>3 DEF Matches, Answered, Places
<1>10. Unclaimed(qs)
  BY <1>2, <1>3 DEF Matches, Unclaimed, Approving
<1>11. Early(y, qs, ls) /\ Abandons(y, ls)
  <2>1. Len(ps) = 0 => Len(qs) <= 1
    BY <1>2 DEF n
  <2> QED
    BY <1>4, <2>1 DEF Matches, Early, Abandons, Places, TaskNames
<1> QED
  BY <1>8, <1>9, <1>10, <1>11 DEF Matches, qs, r
-----------------------------------------------------------------------------
(***************************************************************************)
(* A call that was sent arrives.                                           *)
(***************************************************************************)
LEMMA ArrivedCalls ==
    ASSUME NEW ls \in Seq(LooseCalls), NEW k \in DOMAIN ls
    PROVE  LET ms == RemoveAt(ls, k) IN
           /\ ms \in Seq(LooseCalls) /\ Len(ms) = Len(ls) - 1
           /\ \A j \in DOMAIN ms : Up(k, j) \in DOMAIN ls \ {k} /\ ms[j] = ls[Up(k, j)]
           /\ \A j : Coming(ms, j) => Coming(ls, Up(k, j)) /\ Up(k, j) # k /\ ms[j] = ls[Up(k, j)]
           /\ \A i, j : Coming(ms, i) /\ Coming(ms, j) /\ Up(k, i) = Up(k, j) => i = j
           /\ \A m : Coming(ls, m) /\ m # k => \E j : Coming(ms, j)
           /\ Ending(ms) => Ending(ls)
<1> DEFINE ms == RemoveAt(ls, k)
<1>1. /\ ms \in Seq(LooseCalls) /\ Len(ms) = Len(ls) - 1
      /\ \A j \in DOMAIN ms : Up(k, j) \in DOMAIN ls \ {k} /\ ms[j] = ls[Up(k, j)]
      /\ \A i, j \in DOMAIN ms : Up(k, i) = Up(k, j) => i = j
      /\ \A m \in DOMAIN ls \ {k} : \E j \in DOMAIN ms : Up(k, j) = m
  BY RemoveFacts
<1> HIDE DEF ms
<1>2. \A j : Coming(ms, j) => Coming(ls, Up(k, j)) /\ Up(k, j) # k /\ ms[j] = ls[Up(k, j)]
  BY <1>1 DEF Coming
<1>3. \A i, j : Coming(ms, i) /\ Coming(ms, j) /\ Up(k, i) = Up(k, j) => i = j
  BY <1>1 DEF Coming
<1>4. ASSUME NEW m, Coming(ls, m), m # k
      PROVE  \E j : Coming(ms, j)
  <2>1. PICK j \in DOMAIN ms : Up(k, j) = m
    BY <1>1, <1>4 DEF Coming
  <2>2. Coming(ms, j)
    BY <1>1, <1>4, <2>1 DEF Coming
  <2> QED
    BY <2>2
<1>5. Ending(ms) => Ending(ls)
  BY <1>1 DEF Ending
<1> QED
  BY <1>1, <1>2, <1>3, <1>4, <1>5 DEF ms

LEMMA MatchesSetArrives ==
    ASSUME NEW x, NEW ps, NEW ls \in Seq(LooseCalls), Matches(x, ps, ls),
           NEW k \in DOMAIN ls, ls[k].op = "set"
    PROVE  Matches(x, ps, RemoveAt(ls, k))
<1> DEFINE ms == RemoveAt(ls, k)
<1>1. /\ \A j \in DOMAIN ms : Up(k, j) \in DOMAIN ls \ {k} /\ ms[j] = ls[Up(k, j)]
      /\ \A j : Coming(ms, j) => Coming(ls, Up(k, j)) /\ Up(k, j) # k /\ ms[j] = ls[Up(k, j)]
      /\ \A i, j : Coming(ms, i) /\ Coming(ms, j) /\ Up(k, i) = Up(k, j) => i = j
      /\ \A m : Coming(ls, m) /\ m # k => \E j : Coming(ms, j)
      /\ ms \in Seq(LooseCalls)
  BY ArrivedCalls
<1>2. Cardinality(Approved(ms)) + 0 = Cardinality(Approved(ls))
  BY RemoveCount
<1>3. Cardinality(Approved(ms)) \in Nat
  BY <1>1, CountedL
<1> HIDE DEF ms
<1>4. Ending(ms) <=> Ending(ls)
  <2>1. Ending(ms) => Ending(ls)
    BY <1>1 DEF Ending
  <2>2. ASSUME Ending(ls) PROVE Ending(ms)
    <3>1. PICK m \in DOMAIN ls : ls[m].op = "end"
      BY <2>2 DEF Ending
    <3>2. m # k
      BY <3>1
    <3>3. \A i \in DOMAIN ls \ {k} : \E j \in DOMAIN ms : Up(k, j) = i
      BY RemoveFacts DEF ms
    <3> QED
      BY <1>1, <3>1, <3>2, <3>3 DEF Ending
  <2> QED
    BY <2>1, <2>2
<1>5. ~Coming(ls, k)
  BY DEF Coming
<1>6. Where(x, ps, ms)
  BY <1>4 DEF Matches, Where
<1>7. ComesLast(x, ps, ms)
  BY <1>1 DEF Matches, ComesLast
<1>8. Somewhere(x, ps, ms)
  BY <1>1, <1>5 DEF Matches, Somewhere
<1>9. Answered(x, ps, ms)
  BY <1>2, <1>3 DEF Matches, Answered
<1>10. Early(x, ps, ms)
  BY <1>1 DEF Matches, Early
<1>11. Abandons(x, ms)
  BY <1>4 DEF Matches, Abandons
<1> QED
  BY <1>6, <1>7, <1>8, <1>9, <1>10, <1>11 DEF Matches, ms

LEMMA MatchesStartArrives ==
    ASSUME NEW x, NEW ps \in Seq(Instance), NEW ls \in Seq(LooseCalls), Matches(x, ps, ls),
           NEW k \in DOMAIN ls, ls[k].op = "start"
    PROVE  Matches(x, Append(ps, [at |-> ls[k].node, holder |-> Nobody]), RemoveAt(ls, k))
<1> DEFINE r == [at |-> ls[k].node, holder |-> Nobody]
           qs == Append(ps, r)
           n == Len(ps) + 1
           ms == RemoveAt(ls, k)
<1>1. ls[k] \in LooseCalls /\ ls[k].node \in Places
  <2>1. ls[k] \in LooseCalls
    BY ElementOfSeq, LenProperties
  <2> QED
    BY <2>1, LooseKinds
<1>2. r \in Instance /\ r.at = ls[k].node /\ r.holder = Nobody
  BY <1>1 DEF Instance, Nodes, Places, Persons
<1>3. /\ DOMAIN qs = DOMAIN ps \cup {n} /\ n \notin DOMAIN ps
      /\ qs[n] = r /\ \A q \in DOMAIN ps : qs[q] = ps[q]
  BY <1>2, AppendFacts
<1>4. Approving(qs) = Approving(ps)
  BY <1>1, <1>2, AppendCountP DEF Places
<1>5. /\ \A j : Coming(ms, j) => Coming(ls, Up(k, j)) /\ Up(k, j) # k
      /\ Ending(ms) => Ending(ls)
      /\ ms \in Seq(LooseCalls)
  BY ArrivedCalls
<1>6. Cardinality(Approved(ms)) + 0 = Cardinality(Approved(ls)) /\ Cardinality(Approved(ms)) \in Nat
  BY <1>5, RemoveCount, CountedL
<1> HIDE DEF qs, n, r, ms
<1>7. x.status \notin Young /\ ~Ending(ls)
  BY DEF Matches, Early, Abandons, Young
<1>8. Coming(ls, k) /\ x.at = ls[k].node /\ x.holder = Nobody
      /\ (\A p : ~Here(ps, p)) /\ \A j : ~Coming(ms, j)
  <2>1. Coming(ls, k) /\ Place(ls[k]) = ls[k].node
    BY <1>1 DEF Coming, Place
  <2> QED
    BY <1>5, <2>1 DEF Matches, ComesLast
<1>9. \A q : Here(qs, q) <=> q = n
  BY <1>1, <1>2, <1>3, <1>8 DEF Here
<1>10. Where(x, qs, ms) /\ Single(qs) /\ ComesLast(x, qs, ms) /\ Somewhere(x, qs, ms)
  BY <1>2, <1>3, <1>8, <1>9 DEF Where, Single, ComesLast, Somewhere
<1>11. Answered(x, qs, ms)
  BY <1>4, <1>6 DEF Matches, Answered
<1>12. Unclaimed(qs)
  BY <1>3, <1>4 DEF Matches, Unclaimed, Approving
<1>13. Early(x, qs, ms) /\ Abandons(x, ms)
  BY <1>5, <1>7 DEF Early, Abandons
<1> QED
  BY <1>10, <1>11, <1>12, <1>13 DEF Matches, qs, r, ms

LEMMA MatchesFinishArrives ==
    ASSUME NEW x, NEW ps \in Seq(Instance), NEW ls \in Seq(LooseCalls), Matches(x, ps, ls),
           NEW k \in DOMAIN ls, ls[k].op = "finish",
           NEW p \in DOMAIN ps, ps[p].at = "ApproveClosure",
           NEW r \in Instance, r.at = Target(ls[k]), r.holder = Nobody
    PROVE  Matches(x, [ps EXCEPT ![p] = r], RemoveAt(ls, k))
<1> DEFINE qs == [ps EXCEPT ![p] = r]
           ms == RemoveAt(ls, k)
<1>1. ls[k] \in LooseCalls /\ Target(ls[k]) \in {"Investigate", "SAR", "ended"}
  <2>1. ls[k] \in LooseCalls
    BY ElementOfSeq, LenProperties
  <2> QED
    BY <2>1, LooseKinds
<1>2. /\ Len(qs) = Len(ps) /\ DOMAIN qs = DOMAIN ps /\ qs[p] = r
      /\ \A q \in DOMAIN ps : q # p => qs[q] = ps[q]
  BY ReplaceFacts
<1>3. Cardinality(Approving(qs)) + (IF ps[p].at = "ApproveClosure" THEN 1 ELSE 0)
        = Cardinality(Approving(ps)) + (IF r.at = "ApproveClosure" THEN 1 ELSE 0)
  BY ReplaceCount
<1>4. qs \in Seq(Instance)
  BY ReplaceFacts
<1>5. /\ \A j : Coming(ms, j) => Coming(ls, Up(k, j)) /\ Up(k, j) # k /\ ms[j] = ls[Up(k, j)]
      /\ \A i, j : Coming(ms, i) /\ Coming(ms, j) /\ Up(k, i) = Up(k, j) => i = j
      /\ \A m : Coming(ls, m) /\ m # k => \E j : Coming(ms, j)
      /\ Ending(ms) => Ending(ls)
      /\ ms \in Seq(LooseCalls)
  BY ArrivedCalls
<1>6. Cardinality(Approved(ms)) + 1 = Cardinality(Approved(ls))
  BY RemoveCount
<1> HIDE DEF qs, ms
<1>7. x.status \notin Young /\ ~Ending(ls) /\ ~Ending(ms)
  BY <1>5 DEF Matches, Early, Abandons, Young
<1>8. ~Here(ps, p)
  BY DEF Here, Places
<1>9. \A q : Here(qs, q) => (q # p /\ Here(ps, q) /\ qs[q] = ps[q]) \/ (q = p /\ Target(ls[k]) \in Places)
  BY <1>2 DEF Here
<1>10. \A q : Here(ps, q) => Here(qs, q)
  BY <1>2, <1>8 DEF Here
<1>11. Here(qs, p) <=> Target(ls[k]) \in Places
  BY <1>2 DEF Here
<1>12. Coming(ls, k) <=> Target(ls[k]) \in Places
  BY DEF Coming, Place
<1>13. Where(x, qs, ms) /\ Single(qs) /\ ComesLast(x, qs, ms) /\ Somewhere(x, qs, ms)
  <2>1. CASE Target(ls[k]) \in Places
    <3>1. /\ x.at = Target(ls[k]) /\ x.holder = Nobody /\ (\A q : ~Here(ps, q))
          /\ \A l : Coming(ls, l) => l = k
      BY <1>12, <2>1 DEF Matches, ComesLast, Place
    <3>2. \A j : ~Coming(ms, j)
      BY <1>5, <3>1
    <3>3. \A q : Here(qs, q) <=> q = p
      BY <1>9, <1>11, <2>1, <3>1
    <3> QED
      BY <1>2, <3>1, <3>2, <3>3 DEF Where, Single, ComesLast, Somewhere
  <2>2. CASE Target(ls[k]) \notin Places
    <3>1. \A q : Here(qs, q) <=> Here(ps, q)
      BY <1>9, <1>10, <2>2
    <3>2. \A q : Here(qs, q) => qs[q] = ps[q]
      BY <1>9, <2>2
    <3>3. Where(x, qs, ms)
      BY <1>7, <3>1, <3>2 DEF Matches, Where
    <3>4. Single(qs)
      BY <3>1 DEF Matches, Single
    <3>5. ComesLast(x, qs, ms)
      BY <1>5, <3>1 DEF Matches, ComesLast
    <3>6. Somewhere(x, qs, ms)
      BY <1>5, <1>12, <2>2, <3>1 DEF Matches, Somewhere
    <3> QED
      BY <3>3, <3>4, <3>5, <3>6
  <2> QED
    BY <2>1, <2>2
<1>14. Answered(x, qs, ms)
  <2>1. /\ Cardinality(Approving(ps)) \in Nat /\ Cardinality(Approving(qs)) \in Nat
        /\ Cardinality(Approved(ls)) \in Nat /\ Cardinality(Approved(ms)) \in Nat
    BY <1>4, <1>5, CountedP, CountedL
  <2>2. Cardinality(Approving(qs)) + 1 = Cardinality(Approving(ps)) + 0
    BY <1>1, <1>3
  <2> QED
    BY <1>6, <2>1, <2>2 DEF Matches, Answered
<1>15. Unclaimed(qs)
  BY <1>2 DEF Matches, Unclaimed, Approving
<1>16. Early(x, qs, ms) /\ Abandons(x, ms)
  BY <1>7 DEF Early, Abandons
<1> QED
  BY <1>13, <1>14, <1>15, <1>16 DEF Matches, qs, ms

LEMMA MatchesEndArrives ==
    ASSUME NEW x, NEW ps \in Seq(Instance), NEW ls \in Seq(LooseCalls), Matches(x, ps, ls),
           NEW k \in DOMAIN ls, ls[k].op = "end",
           NEW p \in DOMAIN ps, NEW r \in Instance, r.at = "ended"
    PROVE  Matches(x, [ps EXCEPT ![p] = r], RemoveAt(ls, k))
<1> DEFINE qs == [ps EXCEPT ![p] = r]
           ms == RemoveAt(ls, k)
<1>1. /\ Len(qs) = Len(ps) /\ DOMAIN qs = DOMAIN ps /\ qs[p] = r
      /\ \A q \in DOMAIN ps : q # p => qs[q] = ps[q]
  BY ReplaceFacts
<1>2. Cardinality(Approving(qs)) + (IF ps[p].at = "ApproveClosure" THEN 1 ELSE 0)
        = Cardinality(Approving(ps)) + (IF r.at = "ApproveClosure" THEN 1 ELSE 0)
  BY ReplaceCount
<1>3. qs \in Seq(Instance) /\ Len(ps) \in Nat /\ DOMAIN ps = 1..Len(ps)
  BY ReplaceFacts, LenProperties
<1>4. /\ \A j \in DOMAIN ms : Up(k, j) \in DOMAIN ls \ {k} /\ ms[j] = ls[Up(k, j)]
      /\ \A j : Coming(ms, j) => Coming(ls, Up(k, j))
      /\ Ending(ms) => Ending(ls)
      /\ ms \in Seq(LooseCalls)
  BY ArrivedCalls
<1>5. Cardinality(Approved(ms)) + 0 = Cardinality(Approved(ls))
  BY RemoveCount
<1> HIDE DEF qs, ms
<1>6. x.status = "ABANDONED" /\ x.at = "ended"
  BY DEF Ending, Matches, Abandons
<1>7. Len(ps) <= 1 /\ \A j \in DOMAIN ls : ls[j].op \in {"set", "end"}
  BY <1>6 DEF Matches, Early, Young
<1>8. \A q \in DOMAIN qs : q = p
  BY <1>1, <1>3, <1>7
<1>9. \A q : ~Here(qs, q)
  BY <1>1, <1>8 DEF Here, Places, TaskNames
<1>10. \A j : ~Coming(ms, j)
  BY <1>4, <1>7 DEF Coming
<1>11. Where(x, qs, ms) /\ Single(qs) /\ ComesLast(x, qs, ms) /\ Somewhere(x, qs, ms)
  BY <1>6, <1>9, <1>10 DEF Where, Single, ComesLast, Somewhere, Places, TaskNames
<1>12. Approving(qs) = {}
  BY <1>1, <1>8 DEF Approving
<1>13. Answered(x, qs, ms)
  <2>1. Approved(ls) = {}
    BY <1>7 DEF Approved
  <2> QED
    BY <1>5, <1>6, <1>12, <2>1, <1>4, CountedL, FS_EmptySet DEF Answered
<1>14. Unclaimed(qs)
  BY <1>12 DEF Unclaimed
<1>15. Early(x, qs, ms)
  BY <1>1, <1>4, <1>6, <1>7 DEF Early
<1>16. Abandons(x, ms)
  BY <1>6 DEF Abandons
<1> QED
  BY <1>11, <1>13, <1>14, <1>15, <1>16 DEF Matches, qs, ms
-----------------------------------------------------------------------------
(***************************************************************************)
(* In turn, at most one call besides SetStatus is on its way, and the only *)
(* live instance is where all that was sent will find it.                  *)
(***************************************************************************)
NoLive(ps) == \A p \in DOMAIN ps : ps[p].at = "ended"
OnlyLive(ps, p) == /\ p \in DOMAIN ps /\ ps[p].at # "ended"
                   /\ \A q \in DOMAIN ps : ps[q].at # "ended" => q = p
Steady(x, ps) ==
    IF x.at \in {"none", "ended"} THEN NoLive(ps)
    ELSE \E p : OnlyLive(ps, p) /\ ps[p].at = x.at /\ ps[p].holder = x.holder
Sets(ls) == \A k \in DOMAIN ls : ls[k].op = "set"
OnlyOne(ls, op) == Len(ls) = 1 /\ ls[1].op = op

LoneStart(x, ps, ls) == OnlyOne(ls, "start") /\ NoLive(ps) /\ x.at = ls[1].node /\ x.holder = Nobody
LoneEnd(x, ps, ls) == OnlyOne(ls, "end") /\ x.at = "ended" /\ \E p : OnlyLive(ps, p)
LoneFinish(x, ps, ls) ==
    \E k, p : /\ k \in DOMAIN ls /\ ls[k].op = "finish"
              /\ \A l \in DOMAIN ls : l # k => ls[l].op = "set"
              /\ OnlyLive(ps, p) /\ ps[p].at = "ApproveClosure"
              /\ x.at = Target(ls[k]) /\ x.holder = Nobody
              /\ Len(ls) > 1 => x.at \in TaskNames
Lone(x, ps, ls) ==
    \/ Len(ls) = 0 /\ Steady(x, ps)
    \/ x.sent # "nothing" /\ Sets(ls) /\ x.at \in TaskNames /\ Steady(x, ps)
    \/ x.sent = "other" /\ (LoneStart(x, ps, ls) \/ LoneEnd(x, ps, ls) \/ LoneFinish(x, ps, ls))

\* Before anything but SetStatus was sent.
LEMMA LoneSteady ==
    ASSUME NEW x, NEW ps, NEW ls, Lone(x, ps, ls), x.sent # "other"
    PROVE  Steady(x, ps) /\ (Len(ls) = 0 \/ (x.sent # "nothing" /\ Sets(ls) /\ x.at \in TaskNames))
BY DEF Lone

LEMMA LoneRow ==
    ASSUME NEW x, NEW y, NEW ps, NEW ls, Lone(x, ps, ls), y.at = x.at, y.holder = x.holder, y.sent = x.sent
    PROVE  Lone(y, ps, ls)
<1>1. Steady(x, ps) => Steady(y, ps)
  BY DEF Steady
<1>2. /\ LoneStart(x, ps, ls) => LoneStart(y, ps, ls)
      /\ LoneEnd(x, ps, ls) => LoneEnd(y, ps, ls)
  BY DEF LoneStart, LoneEnd
<1>3. LoneFinish(x, ps, ls) => LoneFinish(y, ps, ls)
  BY DEF LoneFinish
<1> QED
  BY <1>1, <1>2, <1>3 DEF Lone

\* A new request, when nothing is on its way.
LEMMA LoneAnew ==
    ASSUME NEW x, NEW y, NEW ps, NEW ls \in Seq(LooseCalls), Lone(x, ps, ls), ls = <<>>,
           y.at = x.at, y.holder = x.holder
    PROVE  Lone(y, ps, ls)
<1>1. Len(ls) = 0 /\ DOMAIN ls = {}
  BY EmptySeq, LenProperties
<1>2. Steady(x, ps)
  BY <1>1 DEF Lone, LoneStart, LoneEnd, LoneFinish, OnlyOne
<1>3. Steady(y, ps)
  BY <1>2 DEF Steady
<1> QED
  BY <1>1, <1>3 DEF Lone

LEMMA LoneSendSet ==
    ASSUME NEW x, NEW y, NEW ps, NEW ls \in Seq(LooseCalls), Lone(x, ps, ls), x.sent # "other",
           x.at \in TaskNames, y.at = x.at, y.holder = x.holder, y.sent = "set"
    PROVE  Lone(y, ps, Append(ls, SetStatus))
<1>1. SetStatus \in LooseCalls /\ SetStatus.op = "set"
  BY DEF LooseCalls, SetStatus
<1>2. Sets(ls)
  <2>1. DOMAIN ls = 1..Len(ls)
    BY LenProperties
  <2> QED
    BY <2>1, LoneSteady DEF Sets
<1>3. Sets(Append(ls, SetStatus))
  <2>1. /\ DOMAIN Append(ls, SetStatus) = DOMAIN ls \cup {Len(ls) + 1}
        /\ \A k \in DOMAIN ls : Append(ls, SetStatus)[k] = ls[k]
        /\ Append(ls, SetStatus)[Len(ls) + 1] = SetStatus
    BY <1>1, AppendFacts
  <2> QED
    BY <1>1, <1>2, <2>1 DEF Sets
<1>4. Steady(y, ps)
  BY LoneSteady DEF Steady
<1> QED
  BY <1>3, <1>4 DEF Lone

LEMMA LoneSendFinish ==
    ASSUME NEW x, NEW y, NEW ps, NEW ls \in Seq(LooseCalls), Lone(x, ps, ls), x.sent # "other",
           x.at = "ApproveClosure", NEW c \in Answers, y.at = Target(c), y.holder = Nobody,
           y.sent = "other", x.sent # "nothing" => Target(c) \in TaskNames
    PROVE  Lone(y, ps, Append(ls, c))
<1> DEFINE ms == Append(ls, c)
           n == Len(ls) + 1
<1>1. c \in LooseCalls /\ c.op = "finish"
  BY DEF LooseCalls, Answers, Finish
<1>2. /\ DOMAIN ms = DOMAIN ls \cup {n} /\ Len(ms) = n /\ Len(ls) \in Nat /\ DOMAIN ls = 1..Len(ls)
      /\ \A k \in DOMAIN ls : ms[k] = ls[k]
      /\ ms[n] = c
  BY <1>1, AppendFacts
<1> HIDE DEF ms
<1>3. Sets(ls) /\ (Len(ls) # 0 => x.sent # "nothing")
  BY <1>2, LoneSteady DEF Sets
<1>4. PICK p : OnlyLive(ps, p) /\ ps[p].at = "ApproveClosure"
  BY LoneSteady DEF Steady
<1>5. n \in DOMAIN ms /\ ms[n].op = "finish" /\ \A l \in DOMAIN ms : l # n => ms[l].op = "set"
  BY <1>1, <1>2, <1>3 DEF Sets
<1>6. Len(ms) > 1 => y.at \in TaskNames
  BY <1>2, <1>3
<1>7. LoneFinish(y, ps, ms)
  BY <1>2, <1>4, <1>5, <1>6 DEF LoneFinish
<1> QED
  BY <1>7 DEF Lone, ms

LEMMA LoneSendOne ==
    ASSUME NEW x, NEW y, NEW ps, NEW ls \in Seq(LooseCalls), Lone(x, ps, ls), x.sent = "nothing",
           NEW c \in LooseCalls, y.sent = "other",
           \/ c.op = "start" /\ x.at = "ended" /\ y.at = c.node /\ y.holder = Nobody
           \/ c.op = "end" /\ x.at \in TaskNames /\ y.at = "ended"
    PROVE  Lone(y, ps, Append(ls, c))
<1>1. Len(ls) = 0 /\ Steady(x, ps)
  BY LoneSteady
<1>2. Len(Append(ls, c)) = 1 /\ Append(ls, c)[1] = c
  BY <1>1, AppendFacts
<1>3. CASE c.op = "start"
  <2>1. LoneStart(y, ps, Append(ls, c))
    BY <1>1, <1>2, <1>3 DEF LoneStart, OnlyOne, Steady
  <2> QED
    BY <2>1 DEF Lone
<1>4. CASE c.op = "end"
  <2>1. LoneEnd(y, ps, Append(ls, c))
    BY <1>1, <1>2, <1>4 DEF LoneEnd, OnlyOne, Steady, TaskNames
  <2> QED
    BY <2>1 DEF Lone
<1> QED
  BY <1>3, <1>4
-----------------------------------------------------------------------------
LEMMA LoneReplace ==
    ASSUME NEW x, NEW y, NEW ps \in Seq(Instance), NEW ls, Lone(x, ps, ls), x.sent # "other",
           NEW p \in DOMAIN ps, ps[p].at # "ended", NEW r \in Instance,
           r.at = y.at, y.at # "none", y.at # "ended" => r.holder = y.holder,
           y.sent = x.sent, x.sent # "nothing" => y.at \in TaskNames
    PROVE  Lone(y, [ps EXCEPT ![p] = r], ls)
<1> DEFINE qs == [ps EXCEPT ![p] = r]
<1>1. /\ DOMAIN qs = DOMAIN ps /\ qs[p] = r
      /\ \A q \in DOMAIN ps : q # p => qs[q] = ps[q]
  BY ReplaceFacts
<1> HIDE DEF qs
<1>2. OnlyLive(ps, p)
  BY LoneSteady DEF Steady, OnlyLive, NoLive
<1>3. Steady(y, qs)
  <2>1. CASE y.at = "ended"
    BY <1>1, <1>2, <2>1 DEF Steady, NoLive, OnlyLive
  <2>2. CASE y.at # "ended"
    <3>1. OnlyLive(qs, p)
      BY <1>1, <1>2, <2>2 DEF OnlyLive
    <3> QED
      BY <1>1, <2>2, <3>1 DEF Steady
  <2> QED
    BY <2>1, <2>2
<1> QED
  BY <1>3, LoneSteady DEF Lone, qs

LEMMA LiveAppended ==
    ASSUME NEW y, NEW ps \in Seq(Instance), NEW r \in Instance, NoLive(ps), r.at = y.at,
           r.holder = y.holder, y.at \notin {"none", "ended"}
    PROVE  Steady(y, Append(ps, r))
<1> DEFINE qs == Append(ps, r)
           n == Len(ps) + 1
<1>1. /\ DOMAIN qs = DOMAIN ps \cup {n} /\ qs[n] = r /\ \A q \in DOMAIN ps : qs[q] = ps[q]
  BY AppendFacts
<1> HIDE DEF qs, n
<1>2. OnlyLive(qs, n)
  BY <1>1 DEF OnlyLive, NoLive
<1> QED
  BY <1>1, <1>2 DEF Steady, qs

LEMMA LoneStarted ==
    ASSUME NEW x, NEW y, NEW ps \in Seq(Instance), NEW ls, Lone(x, ps, ls), x.sent = "nothing",
           x.at \in {"none", "ended"}, y.at \notin {"none", "ended"}, NEW r \in Instance, r.at = y.at,
           r.holder = y.holder
    PROVE  Lone(y, Append(ps, r), ls)
BY LoneSteady, LiveAppended DEF Lone, Steady
-----------------------------------------------------------------------------
LEMMA LoneSetArrives ==
    ASSUME NEW x, NEW ps, NEW ls \in Seq(LooseCalls), Lone(x, ps, ls),
           NEW k \in DOMAIN ls, ls[k].op = "set"
    PROVE  Lone(x, ps, RemoveAt(ls, k)) /\ \E p : OnlyLive(ps, p)
<1> DEFINE ms == RemoveAt(ls, k)
<1>1. /\ Len(ms) = Len(ls) - 1
      /\ \A j \in DOMAIN ms : Up(k, j) \in DOMAIN ls \ {k} /\ ms[j] = ls[Up(k, j)]
      /\ \A i, j \in DOMAIN ms : Up(k, i) = Up(k, j) => i = j
      /\ \A m \in DOMAIN ls \ {k} : \E j \in DOMAIN ms : Up(k, j) = m
  BY RemoveFacts
<1>2. Len(ls) \in Nat /\ DOMAIN ls = 1..Len(ls) /\ Len(ls) # 0
  BY LenProperties
<1> HIDE DEF ms
<1>3. CASE x.sent # "nothing" /\ Sets(ls) /\ x.at \in TaskNames /\ Steady(x, ps)
  <2>1. Sets(ms)
    BY <1>1, <1>3 DEF Sets
  <2>2. \E p : OnlyLive(ps, p)
    BY <1>3 DEF Steady, TaskNames
  <2> QED
    BY <1>3, <2>1, <2>2 DEF Lone, ms
<1>4. CASE x.sent = "other" /\ LoneFinish(x, ps, ls)
  <2>1. PICK m, p :
            /\ m \in DOMAIN ls /\ ls[m].op = "finish" /\ \A l \in DOMAIN ls : l # m => ls[l].op = "set"
            /\ OnlyLive(ps, p) /\ ps[p].at = "ApproveClosure"
            /\ x.at = Target(ls[m]) /\ x.holder = Nobody
            /\ Len(ls) > 1 => x.at \in TaskNames
    BY <1>4 DEF LoneFinish
  <2>2. PICK j \in DOMAIN ms : Up(k, j) = m
    BY <1>1, <2>1
  <2>3. ms[j] = ls[m] /\ \A l \in DOMAIN ms : l # j => ms[l].op = "set"
    BY <1>1, <2>1, <2>2
  <2>4. Len(ms) > 1 => x.at \in TaskNames
    BY <1>1, <1>2, <2>1
  <2>5. LoneFinish(x, ps, ms)
    BY <2>1, <2>2, <2>3, <2>4 DEF LoneFinish
  <2> QED
    BY <1>4, <2>1, <2>5 DEF Lone, ms
<1>5. ~LoneStart(x, ps, ls) /\ ~LoneEnd(x, ps, ls)
  BY <1>2 DEF LoneStart, LoneEnd, OnlyOne
<1> QED
  BY <1>2, <1>3, <1>4, <1>5 DEF Lone

LEMMA LoneStartArrives ==
    ASSUME NEW x, NEW ps \in Seq(Instance), NEW ls \in Seq(LooseCalls), Lone(x, ps, ls),
           NEW k \in DOMAIN ls, ls[k].op = "start", NEW r \in Instance, r.at = ls[k].node,
           r.holder = Nobody
    PROVE  Lone(x, Append(ps, r), RemoveAt(ls, k))
<1>1. Len(ls) \in Nat /\ DOMAIN ls = 1..Len(ls)
  BY LenProperties
<1>2. LoneStart(x, ps, ls) /\ k = 1 /\ Len(ls) = 1
  BY <1>1 DEF Lone, Sets, LoneStart, LoneEnd, LoneFinish, OnlyOne
<1>3. Len(RemoveAt(ls, k)) = 0
  <2>1. Len(RemoveAt(ls, k)) = Len(ls) - 1
    BY RemoveFacts
  <2> QED
    BY <1>2, <2>1
<1>4. ls[k].node \in Places
  <2>1. ls[k] \in LooseCalls
    BY <1>1, ElementOfSeq
  <2> QED
    BY <2>1, LooseKinds
<1>5. Steady(x, Append(ps, r))
  <2>1. NoLive(ps) /\ x.at = r.at /\ x.holder = r.holder
    BY <1>2 DEF LoneStart
  <2> QED
    BY <1>4, <2>1, LiveAppended DEF Places, TaskNames
<1> QED
  BY <1>3, <1>5 DEF Lone

LEMMA LoneEndArrives ==
    ASSUME NEW x, NEW ps \in Seq(Instance), NEW ls \in Seq(LooseCalls), Lone(x, ps, ls),
           NEW k \in DOMAIN ls, ls[k].op = "end", NEW p \in DOMAIN ps, ps[p].at # "ended",
           NEW r \in Instance, r.at = "ended"
    PROVE  Lone(x, [ps EXCEPT ![p] = r], RemoveAt(ls, k))
<1>1. Len(ls) \in Nat /\ DOMAIN ls = 1..Len(ls)
  BY LenProperties
<1>2. LoneEnd(x, ps, ls) /\ Len(ls) = 1
  <2>1. Len(ls) # 0 /\ ~Sets(ls) /\ ~LoneStart(x, ps, ls) /\ ~LoneFinish(x, ps, ls)
    BY <1>1 DEF Sets, LoneStart, LoneFinish, OnlyOne
  <2>2. LoneEnd(x, ps, ls)
    BY <2>1 DEF Lone
  <2> QED
    BY <2>2 DEF LoneEnd, OnlyOne
<1>3. Len(RemoveAt(ls, k)) = 0
  <2>1. Len(RemoveAt(ls, k)) = Len(ls) - 1
    BY RemoveFacts
  <2> QED
    BY <1>2, <2>1
<1>4. OnlyLive(ps, p)
  BY <1>2 DEF LoneEnd, OnlyLive
<1>5. NoLive([ps EXCEPT ![p] = r])
  BY <1>4, ReplaceFacts DEF NoLive, OnlyLive
<1> QED
  BY <1>2, <1>3, <1>5 DEF Lone, LoneEnd, Steady

LEMMA LoneFinishArrives ==
    ASSUME NEW x, NEW ps \in Seq(Instance), NEW ls \in Seq(LooseCalls), Lone(x, ps, ls),
           NEW k \in DOMAIN ls, ls[k].op = "finish", NEW p \in DOMAIN ps, ps[p].at # "ended",
           NEW r \in Instance, r.at = Target(ls[k]), r.holder = Nobody
    PROVE  Lone(x, [ps EXCEPT ![p] = r], RemoveAt(ls, k))
<1> DEFINE qs == [ps EXCEPT ![p] = r]
           ms == RemoveAt(ls, k)
<1>1. Len(ls) \in Nat /\ DOMAIN ls = 1..Len(ls)
  BY LenProperties
<1>2. x.sent = "other" /\ LoneFinish(x, ps, ls)
  BY <1>1 DEF Lone, Sets, LoneStart, LoneEnd, OnlyOne
<1>3. /\ OnlyLive(ps, p) /\ (\A l \in DOMAIN ls : l # k => ls[l].op = "set")
      /\ x.at = Target(ls[k]) /\ x.holder = Nobody /\ (Len(ls) > 1 => x.at \in TaskNames)
  BY <1>2 DEF LoneFinish, OnlyLive
<1>4. /\ DOMAIN qs = DOMAIN ps /\ qs[p] = r
      /\ \A q \in DOMAIN ps : q # p => qs[q] = ps[q]
  BY ReplaceFacts
<1>5. /\ Len(ms) = Len(ls) - 1
      /\ \A j \in DOMAIN ms : Up(k, j) \in DOMAIN ls \ {k} /\ ms[j] = ls[Up(k, j)]
  BY RemoveFacts
<1> HIDE DEF qs, ms
<1>6. Target(ls[k]) \in {"Investigate", "SAR", "ended"}
  <2>1. ls[k] \in LooseCalls
    BY <1>1, ElementOfSeq
  <2> QED
    BY <2>1, LooseKinds
<1>7. Steady(x, qs)
  <2>1. CASE Target(ls[k]) = "ended"
    BY <1>3, <1>4, <2>1 DEF Steady, NoLive, OnlyLive
  <2>2. CASE Target(ls[k]) # "ended"
    <3>1. OnlyLive(qs, p)
      BY <1>3, <1>4, <2>2 DEF OnlyLive
    <3> QED
      BY <1>3, <1>4, <1>6, <2>2, <3>1 DEF Steady
  <2> QED
    BY <2>1, <2>2
<1>8. Sets(ms)
  BY <1>3, <1>5 DEF Sets
<1>9. Len(ms) = 0 \/ x.at \in TaskNames
  BY <1>1, <1>3, <1>5
<1> QED
  BY <1>2, <1>7, <1>8, <1>9 DEF Lone, qs, ms

\* In turn, a call that arrives finds an instance that takes it.
LEMMA LoneAccepts ==
    ASSUME NEW x, NEW ps \in Seq(Instance), NEW ls \in Seq(LooseCalls), Lone(x, ps, ls),
           NEW k \in DOMAIN ls, ls[k].op # "start"
    PROVE  \E p : OnlyLive(ps, p) /\ (ls[k].op = "finish" => ps[p].at = "ApproveClosure")
<1>1. Len(ls) \in Nat /\ DOMAIN ls = 1..Len(ls)
  BY LenProperties
<1>2. CASE x.sent # "nothing" /\ Sets(ls) /\ x.at \in TaskNames /\ Steady(x, ps)
  BY <1>2 DEF Sets, Steady, TaskNames
<1>3. CASE LoneEnd(x, ps, ls)
  BY <1>1, <1>3 DEF LoneEnd, OnlyOne
<1>4. CASE LoneFinish(x, ps, ls)
  BY <1>4 DEF LoneFinish
<1>5. ~LoneStart(x, ps, ls) /\ Len(ls) # 0
  BY <1>1 DEF LoneStart, OnlyOne
<1> QED
  BY <1>2, <1>3, <1>4, <1>5 DEF Lone
-----------------------------------------------------------------------------
(***************************************************************************)
(* What each kind of step asks of a view, and where it takes it.           *)
(***************************************************************************)
Begun(w, s) == w # <<>> /\ Head(w) = s

\* A case of status s, its instance at a, may be given the status s2.
Writable(s2, s, a) == (s2 \in Young => s \in Young) /\ (s = "ABANDONED" => a # "ended")
\* The answer c ends a task of the server's and leads to b.
Flow(c, b) == b = Target(c) /\ b \in Nodes /\ c.task \in Places \cup {"AutoClose"}

LEMMA StepWrite ==
    ASSUME NEW s, NEW o, NEW d, NEW a, NEW h, NEW z, NEW t, NEW w, NEW s2, NEW o2, NEW d2,
           Begun(w, Write(s2, o2, d2)), Writable(s2, s, a),
           Can(View(s2, o2, d2, a, h, z), Tail(w), t)
    PROVE  Can(View(s, o, d, a, h, z), w, t)
<1> DEFINE x == View(s, o, d, a, h, z)
           e == Write(s2, o2, d2)
<1>1. Done(x, e) = View(s2, o2, d2, a, h, z)
  BY DEF Done, View, Write
<1>2. Goes(x, e, t)
  BY DEF Goes, Fits, FitsWrite, Calmly, View, Write, Writable
<1> QED
  BY <1>1, <1>2, CanStep DEF Begun

LEMMA StepSet ==
    ASSUME NEW s, NEW o, NEW d, NEW a, NEW h, NEW z, NEW t, NEW w,
           Begun(w, Await(SetStatus)) \/ Begun(w, Retry(SetStatus)), a \in TaskNames, t => z # "other",
           Can(View(s, o, d, a, h, z), Tail(w), t)
    PROVE  Can(View(s, o, d, a, h, z), w, t)
<1> DEFINE x == View(s, o, d, a, h, z)
<1>1. PICK e \in {Await(SetStatus), Retry(SetStatus)} : Begun(w, e)
  OBVIOUS
<1>2. e.do \in {"await", "retry"} /\ e.call = SetStatus /\ e.call.op = "set"
  BY DEF Await, Retry, SetStatus
<1>3. Done(x, e) = x
  BY <1>2 DEF Done, View, Reaches, Holds, Mark
<1>4. Goes(x, e, t)
  BY <1>2, <1>3 DEF Goes, Fits, FitsSet, Calmly, View, Awaits
<1> QED
  BY <1>1, <1>3, <1>4, CanStep DEF Begun

LEMMA StepSendSet ==
    ASSUME NEW s, NEW o, NEW d, NEW a, NEW h, NEW z, NEW t, NEW w,
           Begun(w, Send(SetStatus)), a \in TaskNames, t => z # "other",
           Can(View(s, o, d, a, h, "set"), Tail(w), t)
    PROVE  Can(View(s, o, d, a, h, z), w, t)
<1> DEFINE x == View(s, o, d, a, h, z)
           e == Send(SetStatus)
<1>1. e.do = "send" /\ e.call = SetStatus /\ e.call.op = "set"
  BY DEF Send, SetStatus
<1> HIDE DEF e
<1>2. Done(x, e) = View(s, o, d, a, h, "set")
  BY <1>1 DEF Done, View, Reaches, Holds, Mark
<1>3. Goes(x, e, t)
  BY <1>1, <1>2 DEF Goes, Fits, FitsSet, Calmly, View
<1> QED
  BY <1>2, <1>3, CanStep DEF Begun, e

LEMMA StepClaim ==
    ASSUME NEW s, NEW o, NEW d, NEW a, NEW h, NEW z, NEW t, NEW w, NEW u \in Persons,
           Begun(w, Await(Claim(a, u))) \/ Begun(w, Retry(Claim(a, u))), a \in Places,
           u # Nobody => h \in {Nobody, u}, t => z # "other",
           Can(View(s, o, d, a, u, z), Tail(w), t)
    PROVE  Can(View(s, o, d, a, h, z), w, t)
<1> DEFINE x == View(s, o, d, a, h, z)
<1>1. PICK e \in {Await(Claim(a, u)), Retry(Claim(a, u))} : Begun(w, e)
  OBVIOUS
<1>2. e.do \in {"await", "retry"} /\ e.call.op = "claim" /\ e.call.task = a /\ e.call.user = u
  BY DEF Await, Retry, Claim
<1>3. Done(x, e) = View(s, o, d, a, u, z)
  BY <1>2 DEF Done, View, Reaches, Holds, Mark
<1>4. Goes(x, e, t)
  BY <1>2, <1>3 DEF Goes, Fits, FitsClaim, Calmly, View, Awaits, Places
<1> QED
  BY <1>1, <1>3, <1>4, CanStep DEF Begun

LEMMA StepStuck ==
    ASSUME NEW s, NEW o, NEW d, NEW a \in TaskNames, NEW h, NEW z, NEW w, NEW n \in Places, NEW u,
           Begun(w, Retry(Claim(n, u))), n # a \/ (u # Nobody /\ h \notin {Nobody, u})
    PROVE  Can(View(s, o, d, a, h, z), w, FALSE)
<1> DEFINE e == Retry(Claim(n, u))
<1>1. e.do = "retry" /\ e.call.op = "claim" /\ e.call.task = n /\ e.call.user = u
  BY DEF Retry, Claim
<1> HIDE DEF e
<1>2. Stuck(View(s, o, d, a, h, z), e)
  BY <1>1 DEF Stuck, View, Awaits
<1> QED
  BY <1>2, CanStuck DEF Begun, e

LEMMA StepFinish ==
    ASSUME NEW s, NEW o, NEW d, NEW a, NEW h, NEW z, NEW t, NEW w, NEW answer, NEW v, NEW b,
           \/ Begun(w, Await(Finish(a, answer, v))) \/ Begun(w, Retry(Finish(a, answer, v)))
           \/ Begun(w, Try(Finish(a, answer, v))),
           Flow(Finish(a, answer, v), b),
           t => z # "other" /\ (z # "nothing" => b \in TaskNames),
           Can(View(s, o, d, b, Nobody, z), Tail(w), t)
    PROVE  Can(View(s, o, d, a, h, z), w, t)
<1> DEFINE x == View(s, o, d, a, h, z)
           c == Finish(a, answer, v)
<1>1. PICK e \in {Await(c), Retry(c), Try(c)} : Begun(w, e)
  OBVIOUS
<1>2. e.do \in {"await", "retry", "try"} /\ e.call = c
  BY DEF Await, Retry, Try
<1>3. c.op = "finish" /\ c.task = a
  BY DEF Finish
<1>4. Target(c) = b /\ b \in Nodes /\ a \in Places \cup {"AutoClose"}
  BY <1>3 DEF Flow
<1> HIDE DEF c
<1>5. Done(x, e) = View(s, o, d, b, Nobody, z)
  BY <1>2, <1>3, <1>4 DEF Done, View, Reaches, Holds, Mark
<1>6. Goes(x, e, t)
  BY <1>2, <1>3, <1>4, <1>5 DEF Goes, Fits, FitsFinish, Calmly, View, Awaits
<1> QED
  BY <1>1, <1>5, <1>6, CanStep DEF Begun

LEMMA StepSendFinish ==
    ASSUME NEW s, NEW o, NEW d, NEW h, NEW z, NEW t, NEW w, NEW c \in Answers,
           Begun(w, Send(c)), s \notin Young,
           t => z # "other" /\ (z # "nothing" => Target(c) \in TaskNames),
           Can(View(s, o, d, Target(c), Nobody, "other"), Tail(w), t)
    PROVE  Can(View(s, o, d, "ApproveClosure", h, z), w, t)
<1> DEFINE x == View(s, o, d, "ApproveClosure", h, z)
           e == Send(c)
<1>1. e.do = "send" /\ e.call = c
  BY DEF Send
<1>2. c.op = "finish" /\ c.task = "ApproveClosure"
  BY DEF Answers, Finish
<1> HIDE DEF e
<1>3. Done(x, e) = View(s, o, d, Target(c), Nobody, "other")
  BY <1>1, <1>2 DEF Done, View, Reaches, Holds, Mark
<1>4. Goes(x, e, t)
  BY <1>1, <1>2, <1>3 DEF Goes, Fits, FitsFinish, Calmly, View
<1> QED
  BY <1>3, <1>4, CanStep DEF Begun, e

LEMMA StepStart ==
    ASSUME NEW s, NEW o, NEW d, NEW h, NEW t, NEW w, NEW n \in Places,
           Begun(w, Await(Start(n))) \/ Begun(w, Retry(Start(n))),
           Can(View(s, o, d, n, Nobody, "nothing"), Tail(w), t)
    PROVE  Can(View(s, o, d, "none", h, "nothing"), w, t)
<1> DEFINE x == View(s, o, d, "none", h, "nothing")
<1>1. PICK e \in {Await(Start(n)), Retry(Start(n))} : Begun(w, e)
  OBVIOUS
<1>2. e.do \in {"await", "retry"} /\ e.call.op = "start" /\ e.call.node = n /\ e.call = Start(n)
  BY DEF Await, Retry, Start
<1>3. Done(x, e) = View(s, o, d, n, Nobody, "nothing")
  BY <1>2 DEF Done, View, Reaches, Holds, Mark
<1>4. Goes(x, e, t)
  BY <1>2, <1>3 DEF Goes, Fits, FitsStart, Calmly, View, Awaits
<1> QED
  BY <1>1, <1>3, <1>4, CanStep DEF Begun

LEMMA StepSendStart ==
    ASSUME NEW s, NEW o, NEW d, NEW a \in {"ended", "AutoClose"}, NEW h, NEW t, NEW w, NEW n \in Places,
           Begun(w, Send(Start(n))), s \notin Young, t => a = "ended",
           Can(View(s, o, d, n, Nobody, "other"), Tail(w), t)
    PROVE  Can(View(s, o, d, a, h, "nothing"), w, t)
<1> DEFINE x == View(s, o, d, a, h, "nothing")
           e == Send(Start(n))
<1>1. e.do = "send" /\ e.call.op = "start" /\ e.call.node = n /\ e.call = Start(n)
  BY DEF Send, Start
<1> HIDE DEF e
<1>2. Done(x, e) = View(s, o, d, n, Nobody, "other")
  BY <1>1 DEF Done, View, Reaches, Holds, Mark
<1>3. Goes(x, e, t)
  BY <1>1, <1>2 DEF Goes, Fits, FitsStart, Calmly, View
<1> QED
  BY <1>2, <1>3, CanStep DEF Begun, e

LEMMA StepSendEnd ==
    ASSUME NEW o, NEW d, NEW a \in Places, NEW h, NEW t, NEW w, Begun(w, Send(Terminate)),
           Can(View("ABANDONED", o, d, "ended", Nobody, "other"), Tail(w), t)
    PROVE  Can(View("ABANDONED", o, d, a, h, "nothing"), w, t)
<1> DEFINE x == View("ABANDONED", o, d, a, h, "nothing")
           e == Send(Terminate)
<1>1. e.do = "send" /\ e.call.op = "end" /\ e.call = Terminate
  BY DEF Send, Terminate
<1> HIDE DEF e
<1>2. Done(x, e) = View("ABANDONED", o, d, "ended", Nobody, "other")
  BY <1>1 DEF Done, View, Reaches, Holds, Mark
<1>3. Goes(x, e, t)
  BY <1>1, <1>2 DEF Goes, Fits, FitsEnd, Calmly, View
<1> QED
  BY <1>2, <1>3, CanStep DEF Begun, e

LEMMA StepEnd ==
    ASSUME NEW x, NEW t, NEW w, w = <<>>, Rest(x), t => Calm(x)
    PROVE  Can(x, w, t)
BY CanEnd DEF Stays
-----------------------------------------------------------------------------
(***************************************************************************)
(* A request finds a case at rest; the row tells which rest.               *)
(***************************************************************************)
Now(a, h) == View(status, owner, desk, a, h, "nothing")
Opens(a, h, t) == Stays(Now(a, h), t) /\ t \in BOOLEAN

LEMMA NowFields ==
    ASSUME NEW a, NEW h
    PROVE  LET x == Now(a, h) IN /\ x.status = status /\ x.owner = owner /\ x.desk = desk
                                 /\ x.at = a /\ x.holder = h /\ x.sent = "nothing"
BY DEF Now, View

LEMMA AtRest ==
    ASSUME NEW a, NEW h, NEW t, Opens(a, h, t)
    PROVE  /\ owner \in Persons
           /\ status = "none" => owner = Nobody /\ desk = NoDesk /\ a = "none" /\ h = Nobody
           /\ status = "DRAFT" =>
                  a = "Complete" /\ \E u \in Persons : desk = Desk("Complete", u) /\ h \in {Nobody, u}
           /\ status = "PENDING_CREATION" =>
                  a = "ApproveCreation" /\ h = Nobody /\ desk = Desk("ApproveCreation", Nobody)
           /\ status = "SUSPENDED" => /\ a = "Investigate" /\ owner \in Users /\ h = owner
                                      /\ \E u \in Users : desk = Desk("Investigate", u)
           /\ status = "PENDING_CLOSURE" => /\ a = "ApproveClosure" /\ owner \in Users /\ h = Nobody
                                            /\ desk = Desk("ApproveClosure", Nobody)
           /\ status = "CLOSED" =>
                  \/ a = "ended" /\ desk = NoDesk
                  \/ a = "SAR" /\ \E u \in Persons : desk = Desk("SAR", u) /\ h \in {Nobody, u}
           /\ status = "PENDING_REOPENING" =>
                  a = "ApproveReopening" /\ h = Nobody /\ desk = Desk("ApproveReopening", Nobody)
           /\ status = "AUTO_CONFIRMED" => a = "AutoClose" /\ desk = NoDesk
           /\ status = "IN_PROGRESS" => /\ a = "Investigate" /\ owner \in Users /\ h \in {Nobody, owner}
                                        /\ desk \in {NoDesk, Desk("Investigate", owner)}
           /\ status \in {"READY", "ASSIGNED"} =>
                  /\ a = "Investigate" /\ h \in {Nobody, owner}
                  /\ \/ status = "READY" /\ desk = Desk("Investigate", Nobody) /\ h = Nobody
                     \/ status = "ASSIGNED" /\ owner \in Users /\ desk = Desk("Investigate", owner)
           /\ status \in {"none", "DRAFT", "PENDING_CREATION", "SUSPENDED", "PENDING_CLOSURE", "CLOSED",
                          "PENDING_REOPENING", "AUTO_CONFIRMED", "IN_PROGRESS", "READY", "ASSIGNED"}
              \/ desk = NoDesk
<1> DEFINE x == Now(a, h)
<1>1. /\ x.status = status /\ x.owner = owner /\ x.desk = desk
      /\ x.at = a /\ x.holder = h
  BY NowFields
<1>2. Rest(x)
  BY DEF Opens, Stays
<1> HIDE DEF x
<1>3. CASE RestNew(x)
  BY <1>1, <1>2, <1>3 DEF Rest, RestNew
<1>4. CASE RestDraft(x)
  BY <1>1, <1>2, <1>4 DEF Rest, RestDraft
<1>5. CASE RestCreating(x)
  BY <1>1, <1>2, <1>5 DEF Rest, RestCreating
<1>6. CASE RestReady(x)
  BY <1>1, <1>2, <1>6 DEF Rest, RestReady
<1>7. CASE RestAssigned(x)
  BY <1>1, <1>2, <1>7 DEF Rest, RestAssigned
<1>8. CASE RestWorking(x)
  BY <1>1, <1>2, <1>8 DEF Rest, RestWorking
<1>9. CASE RestSuspended(x)
  BY <1>1, <1>2, <1>9 DEF Rest, RestSuspended
<1>10. CASE RestClosing(x)
  BY <1>1, <1>2, <1>10 DEF Rest, RestClosing
<1>11. CASE RestClosed(x)
  BY <1>1, <1>2, <1>11 DEF Rest, RestClosed
<1>12. CASE RestFiling(x)
  BY <1>1, <1>2, <1>12 DEF Rest, RestFiling
<1>13. CASE RestReopening(x)
  BY <1>1, <1>2, <1>13 DEF Rest, RestReopening
<1>14. CASE RestAbandoned(x) \/ RestRefuted(x) \/ RestConfirmed(x)
  BY <1>1, <1>2, <1>14 DEF Rest, RestAbandoned, RestRefuted, RestConfirmed
<1> QED
  BY <1>2, <1>3, <1>4, <1>5, <1>6, <1>7, <1>8, <1>9, <1>10, <1>11, <1>12, <1>13, <1>14, Zenon DEF Rest

\* The desk with one task open, or none.
LEMMA DeskMoves ==
    ASSUME NEW n \in TaskNames
    PROVE  /\ \A u : Desk(n, u)[n] = u /\ NoDesk[n] = "none"
           /\ \A u : \A m \in TaskNames : m # n => Desk(m, u)[n] = "none"
           /\ desk = NoDesk => /\ Shut(n) = NoDesk /\ \A u : Open(n, u) = Desk(n, u)
                               /\ \A m \in TaskNames : \A v : m # n => Moved(n, m, v) = Desk(m, v)
           /\ \A u : desk = Desk(n, u) => /\ Shut(n) = NoDesk
                                          /\ \A v : Open(n, v) = Desk(n, v)
                                          /\ \A m \in TaskNames : \A v : m # n => Moved(n, m, v) = Desk(m, v)
<1>1. \A u : Desk(n, u)[n] = u /\ NoDesk[n] = "none"
  BY DEF Desk, NoDesk
<1>2. \A u : \A m \in TaskNames : m # n => Desk(m, u)[n] = "none"
  BY DEF Desk
<1>3. desk = NoDesk => Shut(n) = NoDesk /\ \A u : Open(n, u) = Desk(n, u)
  BY DEF Desk, NoDesk, Open, Shut
<1>7. ASSUME desk = NoDesk, NEW m \in TaskNames, NEW v, m # n
      PROVE  Moved(n, m, v) = Desk(m, v)
  BY <1>7 DEF Desk, NoDesk, Moved
<1>4. ASSUME NEW u, desk = Desk(n, u)
      PROVE  Shut(n) = NoDesk
  BY <1>4 DEF Desk, NoDesk, Shut
<1>5. ASSUME NEW u, desk = Desk(n, u), NEW v
      PROVE  Open(n, v) = Desk(n, v)
  BY <1>5 DEF Desk, Open
<1>6. ASSUME NEW u, desk = Desk(n, u), NEW m \in TaskNames, NEW v, m # n
      PROVE  Moved(n, m, v) = Desk(m, v)
  BY <1>6 DEF Desk, Moved
<1> QED
  BY <1>1, <1>2, <1>3, <1>4, <1>5, <1>6, <1>7

LEMMA ScriptOf ==
    ASSUME NEW steps, NEW why, Begins(steps, why)
    PROVE  script' = steps
BY DEF Begins

\* The steps of a script of a given length.
LEMMA Steps1 ==
    ASSUME NEW a
    PROVE  Begun(<<a>>, a) /\ Tail(<<a>>) = <<>>
BY Tails DEF Begun

LEMMA Steps2 ==
    ASSUME NEW a, NEW b
    PROVE  Begun(<<a, b>>, a) /\ Tail(<<a, b>>) = <<b>>
BY Tails DEF Begun

LEMMA Steps3 ==
    ASSUME NEW a, NEW b, NEW c
    PROVE  Begun(<<a, b, c>>, a) /\ Tail(<<a, b, c>>) = <<b, c>>
BY Tails DEF Begun

LEMMA Steps4 ==
    ASSUME NEW a, NEW b, NEW c, NEW d
    PROVE  Begun(<<a, b, c, d>>, a) /\ Tail(<<a, b, c, d>>) = <<b, c, d>>
BY Tails DEF Begun

LEMMA Steps5 ==
    ASSUME NEW a, NEW b, NEW c, NEW d, NEW e
    PROVE  Begun(<<a, b, c, d, e>>, a) /\ Tail(<<a, b, c, d, e>>) = <<b, c, d, e>>
BY Tails DEF Begun

LEMMA Steps6 ==
    ASSUME NEW a, NEW b, NEW c, NEW d, NEW e, NEW f
    PROVE  Begun(<<a, b, c, d, e, f>>, a) /\ Tail(<<a, b, c, d, e, f>>) = <<b, c, d, e, f>>
BY Tails DEF Begun

\* Where the answers the requests give lead.
LEMMA Targets ==
    \A o : /\ Target(Finish("Complete", "ready", o)) = "Investigate"
           /\ Target(Finish("Complete", "approval", o)) = "ApproveCreation"
           /\ Target(Finish("Complete", "autoClose", o)) = "AutoClose"
           /\ Target(Finish("AutoClose", "done", o)) = "ended"
           /\ Target(Finish("ApproveCreation", "approve", o)) = "Investigate"
           /\ Target(Finish("ApproveCreation", "reject", o)) = "Complete"
           /\ Target(Finish("Investigate", "requestClosure", o)) = "ApproveClosure"
           /\ Target(Finish("Investigate", "complete", o)) = IF o = "CONFIRMED" THEN "SAR" ELSE "ended"
           /\ Target(Finish("ApproveClosure", "approve", o)) = IF o = "CONFIRMED" THEN "SAR" ELSE "ended"
           /\ Target(Finish("ApproveClosure", "reject", o)) = "Investigate"
           /\ (o # "CONFIRMED" => Target(Finish("SAR", "complete", o)) = "ended")
           /\ Target(Finish("ApproveReopening", "approve", o)) = "Investigate"
           /\ Target(Finish("ApproveReopening", "reject", o)) = "ended"
BY DEF Target, Finish, Flows

\* A task that can be worked on is the one the instance is at.
LEMMA AtWork ==
    ASSUME NEW a, NEW h, NEW t, Opens(a, h, t), NEW n, Ready(n)
    PROVE  /\ n \in TaskNames /\ n \in Places /\ a = n /\ desk[n] \in Persons
           /\ desk = Desk(n, desk[n]) /\ h \in {Nobody, desk[n]} /\ owner \in Persons
           /\ n = "SAR" => status = "CLOSED"
<1>1. n \in {"Investigate", "SAR"} /\ desk[n] # "none" /\ status # "SUSPENDED" /\ n \in TaskNames
      /\ n \in Places
  BY DEF Ready, Workable, TaskNames, Places
<1>2. /\ \A m, u : m \in TaskNames => Desk(m, u)[m] = u
      /\ \A m, u : m \in TaskNames /\ m # n => Desk(m, u)[n] = "none"
      /\ NoDesk[n] = "none"
  BY <1>1, DeskMoves
<1>3. owner \in Persons
  BY AtRest
<1>4. \/ \E u \in Persons : a = "Investigate" /\ desk = Desk("Investigate", u) /\ h \in {Nobody, u}
      \/ \E u \in Persons : a = "SAR" /\ desk = Desk("SAR", u) /\ h \in {Nobody, u} /\ status = "CLOSED"
      \/ desk = NoDesk
      \/ \E m \in TaskNames \ {"Investigate", "SAR"} : \E u : desk = Desk(m, u)
  BY <1>1, AtRest DEF Persons, TaskNames
<1>5. (\E u \in Persons : a = "Investigate" /\ desk = Desk("Investigate", u) /\ h \in {Nobody, u})
      \/ \E u \in Persons : a = "SAR" /\ desk = Desk("SAR", u) /\ h \in {Nobody, u} /\ status = "CLOSED"
  BY <1>1, <1>2, <1>4
<1>6. PICK m \in {"Investigate", "SAR"}, u \in Persons :
          /\ a = m /\ desk = Desk(m, u) /\ h \in {Nobody, u} /\ (m = "SAR" => status = "CLOSED")
  BY <1>5
<1>7. m = n /\ desk[n] = u
  BY <1>1, <1>2, <1>6 DEF TaskNames
<1> QED
  BY <1>1, <1>3, <1>6, <1>7
-----------------------------------------------------------------------------
(***************************************************************************)
(* Creation.                                                               *)
(***************************************************************************)

LEMMA PlanIngest ==
    ASSUME NEW a, NEW h, NEW t, Opens(a, h, t),
           Ingest
    PROVE  Can(Now(a, h), script', t)
<1>1. status = "none" /\ owner = Nobody /\ desk = NoDesk /\ a = "none" /\ h = Nobody
  BY AtRest DEF Ingest
<1> DEFINE s1 == Write("DRAFT", Nobody, NoDesk)
           s2 == Retry(Start("Complete"))
           s3 == Write("DRAFT", Nobody, Desk("Complete", Nobody))
           v0 == View("none", Nobody, NoDesk, "none", Nobody, "nothing")
           v1 == View("DRAFT", Nobody, NoDesk, "none", Nobody, "nothing")
           v2 == View("DRAFT", Nobody, NoDesk, "Complete", Nobody, "nothing")
           v3 == View("DRAFT", Nobody, Desk("Complete", Nobody), "Complete", Nobody, "nothing")
<1>2. Now(a, h) = v0
  BY <1>1, NowFields DEF Now
<1>3. script' = <<s1, s2, s3>>
  BY <1>1, ScriptOf, DeskMoves DEF Ingest, Runs, Entry, TaskNames
<1>4. Can(v3, <<>>, t)
  <2>1. Rest(v3)
    BY <1>1 DEF Rest, RestDraft, View, Persons
  <2>2. t => Calm(v3)
    BY <1>1 DEF Calm, View
  <2> QED
    BY <2>1, <2>2, StepEnd
<1>5. Can(v2, <<s3>>, t)
  <2>1. Begun(<<s3>>, s3) /\ Tail(<<s3>>) = <<>>
    BY Steps1
  <2>2. Can(v3, Tail(<<s3>>), t)
    BY <1>4, <2>1
  <2>3. Writable("DRAFT", "DRAFT", "Complete")
    BY <1>1 DEF Writable, Young
  <2> QED
    BY <2>1, <2>2, <2>3, StepWrite
<1>6. Can(v1, <<s2, s3>>, t)
  <2>1. Begun(<<s2, s3>>, s2) /\ Tail(<<s2, s3>>) = <<s3>>
    BY Steps2
  <2>2. Can(v2, Tail(<<s2, s3>>), t)
    BY <1>5, <2>1
  <2>3. "Complete" \in Places
    BY DEF Places, TaskNames
  <2> QED
    BY <2>1, <2>2, <2>3, StepStart
<1>7. Can(v0, <<s1, s2, s3>>, t)
  <2>1. Begun(<<s1, s2, s3>>, s1) /\ Tail(<<s1, s2, s3>>) = <<s2, s3>>
    BY Steps3
  <2>2. Can(v1, Tail(<<s1, s2, s3>>), t)
    BY <1>6, <2>1
  <2>3. Writable("DRAFT", "none", "none")
    BY <1>1 DEF Writable, Young
  <2> QED
    BY <2>1, <2>2, <2>3, StepWrite
<1> QED
  BY <1>2, <1>3, <1>7

LEMMA PlanSibling ==
    ASSUME NEW a, NEW h, NEW t, Opens(a, h, t),
           Sibling
    PROVE  Can(Now(a, h), script', t)
<1>1. status = "none" /\ owner = Nobody /\ desk = NoDesk /\ a = "none" /\ h = Nobody
  BY AtRest DEF Sibling
<1> DEFINE s1 == Write("READY", Nobody, Desk("Investigate", Nobody))
           s2 == Await(Start("Investigate"))
           s3 == Await(SetStatus)
           v0 == View("none", Nobody, NoDesk, "none", Nobody, "nothing")
           v1 == View("READY", Nobody, Desk("Investigate", Nobody), "none", Nobody, "nothing")
           v2 == View("READY", Nobody, Desk("Investigate", Nobody), "Investigate", Nobody, "nothing")
           v3 == View("READY", Nobody, Desk("Investigate", Nobody), "Investigate", Nobody, "nothing")
<1>2. Now(a, h) = v0
  BY <1>1, NowFields DEF Now
<1>3. script' = <<s1, s2, s3>>
  BY <1>1, ScriptOf, DeskMoves DEF Sibling, Runs, Entry, TaskNames
<1>4. Can(v3, <<>>, t)
  <2>1. Rest(v3)
    BY <1>1 DEF Rest, RestReady, View, Persons
  <2>2. t => Calm(v3)
    BY <1>1 DEF Calm, View
  <2> QED
    BY <2>1, <2>2, StepEnd
<1>5. Can(v2, <<s3>>, t)
  <2>1. Begun(<<s3>>, s3) /\ Tail(<<s3>>) = <<>>
    BY Steps1
  <2> QED
    BY <1>1, <1>4, <2>1, StepSet DEF TaskNames
<1>6. Can(v1, <<s2, s3>>, t)
  <2>1. Begun(<<s2, s3>>, s2) /\ Tail(<<s2, s3>>) = <<s3>>
    BY Steps2
  <2>2. Can(v2, Tail(<<s2, s3>>), t)
    BY <1>5, <2>1
  <2>3. "Investigate" \in Places
    BY DEF Places, TaskNames
  <2> QED
    BY <2>1, <2>2, <2>3, StepStart
<1>7. Can(v0, <<s1, s2, s3>>, t)
  <2>1. Begun(<<s1, s2, s3>>, s1) /\ Tail(<<s1, s2, s3>>) = <<s2, s3>>
    BY Steps3
  <2>2. Can(v1, Tail(<<s1, s2, s3>>), t)
    BY <1>6, <2>1
  <2>3. Writable("READY", "none", "none")
    BY <1>1 DEF Writable, Young
  <2> QED
    BY <2>1, <2>2, <2>3, StepWrite
<1> QED
  BY <1>2, <1>3, <1>7

LEMMA PlanCreateReady ==
    ASSUME NEW a, NEW h, NEW t, Opens(a, h, t), NEW u \in Users,
           ManualCreate(u), u \in Supervisors
    PROVE  Can(Now(a, h), script', t)
<1>1. status = "none" /\ owner = Nobody /\ desk = NoDesk /\ a = "none" /\ h = Nobody
  BY AtRest DEF ManualCreate
<1> DEFINE s1 == Write("READY", u, NoDesk)
           s2 == Retry(Start("Investigate"))
           s3 == Write("READY", u, Desk("Investigate", Nobody))
           v0 == View("none", Nobody, NoDesk, "none", Nobody, "nothing")
           v1 == View("READY", u, NoDesk, "none", Nobody, "nothing")
           v2 == View("READY", u, NoDesk, "Investigate", Nobody, "nothing")
           v3 == View("READY", u, Desk("Investigate", Nobody), "Investigate", Nobody, "nothing")
<1>2. Now(a, h) = v0
  BY <1>1, NowFields DEF Now
<1>3. script' = <<s1, s2, s3>>
  BY <1>1, ScriptOf, DeskMoves DEF ManualCreate, Runs, Entry, Role, TaskNames
<1>4. Can(v3, <<>>, t)
  <2>1. Rest(v3)
    BY <1>1 DEF Rest, RestReady, View, Persons
  <2>2. t => Calm(v3)
    BY <1>1 DEF Calm, View
  <2> QED
    BY <2>1, <2>2, StepEnd
<1>5. Can(v2, <<s3>>, t)
  <2>1. Begun(<<s3>>, s3) /\ Tail(<<s3>>) = <<>>
    BY Steps1
  <2>2. Can(v3, Tail(<<s3>>), t)
    BY <1>4, <2>1
  <2>3. Writable("READY", "READY", "Investigate")
    BY <1>1 DEF Writable, Young
  <2> QED
    BY <2>1, <2>2, <2>3, StepWrite
<1>6. Can(v1, <<s2, s3>>, t)
  <2>1. Begun(<<s2, s3>>, s2) /\ Tail(<<s2, s3>>) = <<s3>>
    BY Steps2
  <2>2. Can(v2, Tail(<<s2, s3>>), t)
    BY <1>5, <2>1
  <2>3. "Investigate" \in Places
    BY DEF Places, TaskNames
  <2> QED
    BY <2>1, <2>2, <2>3, StepStart
<1>7. Can(v0, <<s1, s2, s3>>, t)
  <2>1. Begun(<<s1, s2, s3>>, s1) /\ Tail(<<s1, s2, s3>>) = <<s2, s3>>
    BY Steps3
  <2>2. Can(v1, Tail(<<s1, s2, s3>>), t)
    BY <1>6, <2>1
  <2>3. Writable("READY", "none", "none")
    BY <1>1 DEF Writable, Young
  <2> QED
    BY <2>1, <2>2, <2>3, StepWrite
<1> QED
  BY <1>2, <1>3, <1>7

LEMMA PlanCreatePending ==
    ASSUME NEW a, NEW h, NEW t, Opens(a, h, t), NEW u \in Users,
           ManualCreate(u), u \notin Supervisors
    PROVE  Can(Now(a, h), script', t)
<1>1. status = "none" /\ owner = Nobody /\ desk = NoDesk /\ a = "none" /\ h = Nobody
  BY AtRest DEF ManualCreate
<1> DEFINE s1 == Write("PENDING_CREATION", Nobody, NoDesk)
           s2 == Retry(Start("ApproveCreation"))
           s3 == Write("PENDING_CREATION", Nobody, Desk("ApproveCreation", Nobody))
           v0 == View("none", Nobody, NoDesk, "none", Nobody, "nothing")
           v1 == View("PENDING_CREATION", Nobody, NoDesk, "none", Nobody, "nothing")
           v2 == View("PENDING_CREATION", Nobody, NoDesk, "ApproveCreation", Nobody, "nothing")
           v3 == View("PENDING_CREATION", Nobody, Desk("ApproveCreation", Nobody), "ApproveCreation", Nobody, "nothing")
<1>2. Now(a, h) = v0
  BY <1>1, NowFields DEF Now
<1>3. script' = <<s1, s2, s3>>
  BY <1>1, ScriptOf, DeskMoves DEF ManualCreate, Runs, Entry, Role, TaskNames
<1>4. Can(v3, <<>>, t)
  <2>1. Rest(v3)
    BY <1>1 DEF Rest, RestCreating, View, Persons
  <2>2. t => Calm(v3)
    BY <1>1 DEF Calm, View
  <2> QED
    BY <2>1, <2>2, StepEnd
<1>5. Can(v2, <<s3>>, t)
  <2>1. Begun(<<s3>>, s3) /\ Tail(<<s3>>) = <<>>
    BY Steps1
  <2>2. Can(v3, Tail(<<s3>>), t)
    BY <1>4, <2>1
  <2>3. Writable("PENDING_CREATION", "PENDING_CREATION", "ApproveCreation")
    BY <1>1 DEF Writable, Young
  <2> QED
    BY <2>1, <2>2, <2>3, StepWrite
<1>6. Can(v1, <<s2, s3>>, t)
  <2>1. Begun(<<s2, s3>>, s2) /\ Tail(<<s2, s3>>) = <<s3>>
    BY Steps2
  <2>2. Can(v2, Tail(<<s2, s3>>), t)
    BY <1>5, <2>1
  <2>3. "ApproveCreation" \in Places
    BY DEF Places, TaskNames
  <2> QED
    BY <2>1, <2>2, <2>3, StepStart
<1>7. Can(v0, <<s1, s2, s3>>, t)
  <2>1. Begun(<<s1, s2, s3>>, s1) /\ Tail(<<s1, s2, s3>>) = <<s2, s3>>
    BY Steps3
  <2>2. Can(v1, Tail(<<s1, s2, s3>>), t)
    BY <1>6, <2>1
  <2>3. Writable("PENDING_CREATION", "none", "none")
    BY <1>1 DEF Writable, Young
  <2> QED
    BY <2>1, <2>2, <2>3, StepWrite
<1> QED
  BY <1>2, <1>3, <1>7

LEMMA PlanSaveDraft ==
    ASSUME NEW a, NEW h, NEW t, Opens(a, h, t), NEW u \in Users,
           SaveDraft(u)
    PROVE  Can(Now(a, h), script', t)
<1>1. status = "none" /\ owner = Nobody /\ desk = NoDesk /\ a = "none" /\ h = Nobody
  BY AtRest DEF SaveDraft
<1> DEFINE s1 == Write("DRAFT", u, NoDesk)
           s2 == Await(Start("Complete"))
           s3 == Write("DRAFT", u, Desk("Complete", u))
           s4 == Await(Claim("Complete", u))
           v0 == View("none", Nobody, NoDesk, "none", Nobody, "nothing")
           v1 == View("DRAFT", u, NoDesk, "none", Nobody, "nothing")
           v2 == View("DRAFT", u, NoDesk, "Complete", Nobody, "nothing")
           v3 == View("DRAFT", u, Desk("Complete", u), "Complete", Nobody, "nothing")
           v4 == View("DRAFT", u, Desk("Complete", u), "Complete", u, "nothing")
<1>2. Now(a, h) = v0
  BY <1>1, NowFields DEF Now
<1>3. script' = <<s1, s2, s3, s4>>
  BY <1>1, ScriptOf, DeskMoves DEF SaveDraft, Runs, Entry, Role, TaskNames
<1>4. Can(v4, <<>>, t)
  <2>1. Rest(v4)
    BY <1>1 DEF Rest, RestDraft, View, Persons
  <2>2. t => Calm(v4)
    BY <1>1 DEF Calm, View
  <2> QED
    BY <2>1, <2>2, StepEnd
<1>5. Can(v3, <<s4>>, t)
  <2>1. Begun(<<s4>>, s4) /\ Tail(<<s4>>) = <<>>
    BY Steps1
  <2>2. Can(v4, Tail(<<s4>>), t)
    BY <1>4, <2>1
  <2>3. "Complete" \in Places /\ u \in Persons /\ (u # Nobody => Nobody \in {Nobody, u})
    BY <1>1 DEF Places, TaskNames, Persons
  <2> QED
    BY <2>1, <2>2, <2>3, StepClaim
<1>6. Can(v2, <<s3, s4>>, t)
  <2>1. Begun(<<s3, s4>>, s3) /\ Tail(<<s3, s4>>) = <<s4>>
    BY Steps2
  <2>2. Can(v3, Tail(<<s3, s4>>), t)
    BY <1>5, <2>1
  <2>3. Writable("DRAFT", "DRAFT", "Complete")
    BY <1>1 DEF Writable, Young
  <2> QED
    BY <2>1, <2>2, <2>3, StepWrite
<1>7. Can(v1, <<s2, s3, s4>>, t)
  <2>1. Begun(<<s2, s3, s4>>, s2) /\ Tail(<<s2, s3, s4>>) = <<s3, s4>>
    BY Steps3
  <2>2. Can(v2, Tail(<<s2, s3, s4>>), t)
    BY <1>6, <2>1
  <2>3. "Complete" \in Places
    BY DEF Places, TaskNames
  <2> QED
    BY <2>1, <2>2, <2>3, StepStart
<1>8. Can(v0, <<s1, s2, s3, s4>>, t)
  <2>1. Begun(<<s1, s2, s3, s4>>, s1) /\ Tail(<<s1, s2, s3, s4>>) = <<s2, s3, s4>>
    BY Steps4
  <2>2. Can(v1, Tail(<<s1, s2, s3, s4>>), t)
    BY <1>7, <2>1
  <2>3. Writable("DRAFT", "none", "none")
    BY <1>1 DEF Writable, Young
  <2> QED
    BY <2>1, <2>2, <2>3, StepWrite
<1> QED
  BY <1>2, <1>3, <1>8

LEMMA PlanCompleteReady ==
    ASSUME NEW a, NEW h, NEW t, Opens(a, h, t), NEW u \in Users,
           CompleteCreation(u), u \in Supervisors, t => odd' = {}
    PROVE  Can(Now(a, h), script', t)
<1>1. status = "DRAFT" /\ a = "Complete" /\ owner \in Persons
  BY AtRest DEF CompleteCreation
<1>2. PICK w \in Persons : desk = Desk("Complete", w) /\ h \in {Nobody, w}
  BY AtRest DEF CompleteCreation
<1>3. t => w \in {Nobody, u}
  <2>1. desk["Complete"] = w
    BY <1>2, DeskMoves DEF TaskNames
  <2> QED
    BY <2>1 DEF CompleteCreation, Begins
<1> DEFINE s0 == Retry(Claim("Complete", u))
           s1 == Write("READY", owner, NoDesk)
           s2 == Await(SetStatus)
           s3 == Await(Finish("Complete", "ready", "NONE"))
           s4 == Write("READY", owner, Desk("Investigate", Nobody))
           v0 == View("DRAFT", owner, Desk("Complete", w), "Complete", h, "nothing")
           v1 == View("DRAFT", owner, Desk("Complete", w), "Complete", u, "nothing")
           v2 == View("READY", owner, NoDesk, "Complete", u, "nothing")
           v3 == View("READY", owner, NoDesk, "Investigate", Nobody, "nothing")
           v4 == View("READY", owner, Desk("Investigate", Nobody),
                      "Investigate", Nobody, "nothing")
<1>4. Now(a, h) = v0
  BY <1>1, <1>2, NowFields DEF Now
<1>5. script' = <<s0, s1, s2, s3, s4>>
  BY <1>1, <1>2, ScriptOf, DeskMoves DEF CompleteCreation, CompletionOf, TaskNames
<1>6. Can(v4, <<>>, t)
  <2>1. Rest(v4)
    BY <1>1, <1>2 DEF Rest, RestReady, View, Persons
  <2>2. t => Calm(v4)
    BY <1>1, <1>2 DEF Calm, View
  <2> QED
    BY <2>1, <2>2, StepEnd
<1>7. Can(v3, <<s4>>, t)
  <2>1. Begun(<<s4>>, s4) /\ Tail(<<s4>>) = <<>>
    BY Steps1
  <2>2. Can(v4, Tail(<<s4>>), t)
    BY <1>6, <2>1
  <2>3. Writable("READY", "READY", "Investigate")
    BY <1>1, <1>2 DEF Writable, Young
  <2> QED
    BY <2>1, <2>2, <2>3, StepWrite
<1>8. Can(v2, <<s3, s4>>, t)
  <2>1. Begun(<<s3, s4>>, s3) /\ Tail(<<s3, s4>>) = <<s4>>
    BY Steps2
  <2>2. Can(v3, Tail(<<s3, s4>>), t)
    BY <1>7, <2>1
  <2>3. Flow(Finish("Complete", "ready", "NONE"), "Investigate")
    BY <1>1, <1>2, Targets DEF Flow, Finish, Places, Nodes, TaskNames
  <2> QED
    BY <2>1, <2>2, <2>3, StepFinish
<1>9. Can(v2, <<s2, s3, s4>>, t)
  <2>1. Begun(<<s2, s3, s4>>, s2) /\ Tail(<<s2, s3, s4>>) = <<s3, s4>>
    BY Steps3
  <2> QED
    BY <1>1, <1>2, <1>8, <2>1, StepSet DEF TaskNames
<1>10. Can(v1, <<s1, s2, s3, s4>>, t)
  <2>1. Begun(<<s1, s2, s3, s4>>, s1) /\ Tail(<<s1, s2, s3, s4>>) = <<s2, s3, s4>>
    BY Steps4
  <2>2. Can(v2, Tail(<<s1, s2, s3, s4>>), t)
    BY <1>9, <2>1
  <2>3. Writable("READY", "DRAFT", "Complete")
    BY <1>1, <1>2 DEF Writable, Young
  <2> QED
    BY <2>1, <2>2, <2>3, StepWrite
<1>11. Can(v0, <<s0, s1, s2, s3, s4>>, t)
  <2>1. Begun(<<s0, s1, s2, s3, s4>>, s0) /\ Tail(<<s0, s1, s2, s3, s4>>) = <<s1, s2, s3, s4>>
    BY Steps5
  <2>2. "Complete" \in Places /\ "Complete" \in TaskNames /\ u \in Persons /\ u # Nobody
    BY ProcessAssumption DEF Places, TaskNames, Persons
  <2>3. CASE h \in {Nobody, u}
    <3>1. Can(v1, Tail(<<s0, s1, s2, s3, s4>>), t)
      BY <1>10, <2>1
    <3>2. u # Nobody => h \in {Nobody, u}
      BY <2>3
    <3> QED
      BY <2>1, <2>2, <3>1, <3>2, StepClaim
  <2>4. CASE h \notin {Nobody, u}
    <3>1. t = FALSE
      BY <1>2, <1>3, <2>4 DEF Opens
    <3> QED
      BY <2>1, <2>2, <2>4, <3>1, StepStuck
  <2> QED
    BY <2>3, <2>4
<1> QED
  BY <1>4, <1>5, <1>11

LEMMA PlanCompletePending ==
    ASSUME NEW a, NEW h, NEW t, Opens(a, h, t), NEW u \in Users,
           CompleteCreation(u), u \notin Supervisors, t => odd' = {}
    PROVE  Can(Now(a, h), script', t)
<1>1. status = "DRAFT" /\ a = "Complete" /\ owner \in Persons
  BY AtRest DEF CompleteCreation
<1>2. PICK w \in Persons : desk = Desk("Complete", w) /\ h \in {Nobody, w}
  BY AtRest DEF CompleteCreation
<1>3. t => w \in {Nobody, u}
  <2>1. desk["Complete"] = w
    BY <1>2, DeskMoves DEF TaskNames
  <2> QED
    BY <2>1 DEF CompleteCreation, Begins
<1> DEFINE s0 == Retry(Claim("Complete", u))
           s1 == Write("PENDING_CREATION", owner, NoDesk)
           s2 == Await(SetStatus)
           s3 == Await(Finish("Complete", "approval", "NONE"))
           s4 == Write("PENDING_CREATION", owner, Desk("ApproveCreation", Nobody))
           v0 == View("DRAFT", owner, Desk("Complete", w), "Complete", h, "nothing")
           v1 == View("DRAFT", owner, Desk("Complete", w), "Complete", u, "nothing")
           v2 == View("PENDING_CREATION", owner, NoDesk, "Complete", u, "nothing")
           v3 == View("PENDING_CREATION", owner, NoDesk, "ApproveCreation", Nobody, "nothing")
           v4 == View("PENDING_CREATION", owner, Desk("ApproveCreation", Nobody),
                      "ApproveCreation", Nobody, "nothing")
<1>4. Now(a, h) = v0
  BY <1>1, <1>2, NowFields DEF Now
<1>5. script' = <<s0, s1, s2, s3, s4>>
  BY <1>1, <1>2, ScriptOf, DeskMoves DEF CompleteCreation, CompletionOf, TaskNames
<1>6. Can(v4, <<>>, t)
  <2>1. Rest(v4)
    BY <1>1, <1>2 DEF Rest, RestCreating, View, Persons
  <2>2. t => Calm(v4)
    BY <1>1, <1>2 DEF Calm, View
  <2> QED
    BY <2>1, <2>2, StepEnd
<1>7. Can(v3, <<s4>>, t)
  <2>1. Begun(<<s4>>, s4) /\ Tail(<<s4>>) = <<>>
    BY Steps1
  <2>2. Can(v4, Tail(<<s4>>), t)
    BY <1>6, <2>1
  <2>3. Writable("PENDING_CREATION", "PENDING_CREATION", "ApproveCreation")
    BY <1>1, <1>2 DEF Writable, Young
  <2> QED
    BY <2>1, <2>2, <2>3, StepWrite
<1>8. Can(v2, <<s3, s4>>, t)
  <2>1. Begun(<<s3, s4>>, s3) /\ Tail(<<s3, s4>>) = <<s4>>
    BY Steps2
  <2>2. Can(v3, Tail(<<s3, s4>>), t)
    BY <1>7, <2>1
  <2>3. Flow(Finish("Complete", "approval", "NONE"), "ApproveCreation")
    BY <1>1, <1>2, Targets DEF Flow, Finish, Places, Nodes, TaskNames
  <2> QED
    BY <2>1, <2>2, <2>3, StepFinish
<1>9. Can(v2, <<s2, s3, s4>>, t)
  <2>1. Begun(<<s2, s3, s4>>, s2) /\ Tail(<<s2, s3, s4>>) = <<s3, s4>>
    BY Steps3
  <2> QED
    BY <1>1, <1>2, <1>8, <2>1, StepSet DEF TaskNames
<1>10. Can(v1, <<s1, s2, s3, s4>>, t)
  <2>1. Begun(<<s1, s2, s3, s4>>, s1) /\ Tail(<<s1, s2, s3, s4>>) = <<s2, s3, s4>>
    BY Steps4
  <2>2. Can(v2, Tail(<<s1, s2, s3, s4>>), t)
    BY <1>9, <2>1
  <2>3. Writable("PENDING_CREATION", "DRAFT", "Complete")
    BY <1>1, <1>2 DEF Writable, Young
  <2> QED
    BY <2>1, <2>2, <2>3, StepWrite
<1>11. Can(v0, <<s0, s1, s2, s3, s4>>, t)
  <2>1. Begun(<<s0, s1, s2, s3, s4>>, s0) /\ Tail(<<s0, s1, s2, s3, s4>>) = <<s1, s2, s3, s4>>
    BY Steps5
  <2>2. "Complete" \in Places /\ "Complete" \in TaskNames /\ u \in Persons /\ u # Nobody
    BY ProcessAssumption DEF Places, TaskNames, Persons
  <2>3. CASE h \in {Nobody, u}
    <3>1. Can(v1, Tail(<<s0, s1, s2, s3, s4>>), t)
      BY <1>10, <2>1
    <3>2. u # Nobody => h \in {Nobody, u}
      BY <2>3
    <3> QED
      BY <2>1, <2>2, <3>1, <3>2, StepClaim
  <2>4. CASE h \notin {Nobody, u}
    <3>1. t = FALSE
      BY <1>2, <1>3, <2>4 DEF Opens
    <3> QED
      BY <2>1, <2>2, <2>4, <3>1, StepStuck
  <2> QED
    BY <2>3, <2>4
<1> QED
  BY <1>4, <1>5, <1>11

LEMMA PlanApproveCreation ==
    ASSUME NEW a, NEW h, NEW t, Opens(a, h, t),
           ApproveCreation
    PROVE  Can(Now(a, h), script', t)
<1>1. /\ status = "PENDING_CREATION" /\ owner \in Persons /\ a = "ApproveCreation" /\ h = Nobody
      /\ desk = Desk("ApproveCreation", Nobody)
  BY AtRest DEF ApproveCreation
<1> DEFINE s1 == Write("READY", owner, NoDesk)
           s2 == Await(SetStatus)
           s3 == Await(Finish("ApproveCreation", "approve", "NONE"))
           s4 == Write("READY", owner, Desk("Investigate", Nobody))
           v0 == View("PENDING_CREATION", owner, Desk("ApproveCreation", Nobody),
                      "ApproveCreation", Nobody, "nothing")
           v1 == View("READY", owner, NoDesk, "ApproveCreation", Nobody, "nothing")
           v2 == View("READY", owner, NoDesk, "ApproveCreation", Nobody, "nothing")
           v3 == View("READY", owner, NoDesk, "Investigate", Nobody, "nothing")
           v4 == View("READY", owner, Desk("Investigate", Nobody), "Investigate", Nobody, "nothing")
<1>2. Now(a, h) = v0
  BY <1>1, NowFields DEF Now
<1>3. script' = <<s1, s2, s3, s4>>
  BY <1>1, ScriptOf, DeskMoves DEF ApproveCreation, Runs, TaskNames
<1>4. Can(v4, <<>>, t)
  <2>1. Rest(v4)
    BY <1>1 DEF Rest, RestReady, View, Persons
  <2>2. t => Calm(v4)
    BY <1>1 DEF Calm, View
  <2> QED
    BY <2>1, <2>2, StepEnd
<1>5. Can(v3, <<s4>>, t)
  <2>1. Begun(<<s4>>, s4) /\ Tail(<<s4>>) = <<>>
    BY Steps1
  <2>2. Can(v4, Tail(<<s4>>), t)
    BY <1>4, <2>1
  <2>3. Writable("READY", "READY", "Investigate")
    BY <1>1 DEF Writable, Young
  <2> QED
    BY <2>1, <2>2, <2>3, StepWrite
<1>6. Can(v2, <<s3, s4>>, t)
  <2>1. Begun(<<s3, s4>>, s3) /\ Tail(<<s3, s4>>) = <<s4>>
    BY Steps2
  <2>2. Can(v3, Tail(<<s3, s4>>), t)
    BY <1>5, <2>1
  <2>3. Flow(Finish("ApproveCreation", "approve", "NONE"), "Investigate")
    BY <1>1, Targets DEF Flow, Finish, Places, Nodes, TaskNames
  <2> QED
    BY <2>1, <2>2, <2>3, StepFinish
<1>7. Can(v1, <<s2, s3, s4>>, t)
  <2>1. Begun(<<s2, s3, s4>>, s2) /\ Tail(<<s2, s3, s4>>) = <<s3, s4>>
    BY Steps3
  <2> QED
    BY <1>1, <1>6, <2>1, StepSet DEF TaskNames
<1>8. Can(v0, <<s1, s2, s3, s4>>, t)
  <2>1. Begun(<<s1, s2, s3, s4>>, s1) /\ Tail(<<s1, s2, s3, s4>>) = <<s2, s3, s4>>
    BY Steps4
  <2>2. Can(v1, Tail(<<s1, s2, s3, s4>>), t)
    BY <1>7, <2>1
  <2>3. Writable("READY", "PENDING_CREATION", "ApproveCreation")
    BY <1>1 DEF Writable, Young
  <2> QED
    BY <2>1, <2>2, <2>3, StepWrite
<1> QED
  BY <1>2, <1>3, <1>8

LEMMA PlanRejectCreation ==
    ASSUME NEW a, NEW h, NEW t, Opens(a, h, t), NEW u \in Users, NEW v \in Users,
           RejectCreation(u, v)
    PROVE  Can(Now(a, h), script', t)
<1>1. /\ status = "PENDING_CREATION" /\ owner \in Persons /\ a = "ApproveCreation" /\ h = Nobody
      /\ desk = Desk("ApproveCreation", Nobody)
  BY AtRest DEF RejectCreation
<1> DEFINE s1 == Write("DRAFT", owner, Desk("ApproveCreation", Nobody))
           s2 == Retry(Claim("ApproveCreation", u))
           s3 == Write("DRAFT", owner, Desk("Complete", v))
           s4 == Send(SetStatus)
           s5 == Await(Finish("ApproveCreation", "reject", "NONE"))
           v0 == View("PENDING_CREATION", owner, Desk("ApproveCreation", Nobody),
                      "ApproveCreation", Nobody, "nothing")
           v1 == View("DRAFT", owner, Desk("ApproveCreation", Nobody),
                      "ApproveCreation", Nobody, "nothing")
           v2 == View("DRAFT", owner, Desk("ApproveCreation", Nobody), "ApproveCreation", u, "nothing")
           v3 == View("DRAFT", owner, Desk("Complete", v), "ApproveCreation", u, "nothing")
           v4 == View("DRAFT", owner, Desk("Complete", v), "ApproveCreation", u, "set")
           v5 == View("DRAFT", owner, Desk("Complete", v), "Complete", Nobody, "set")
<1>2. Now(a, h) = v0
  BY <1>1, NowFields DEF Now
<1>3. script' = <<s1, s2, s3, s4, s5>>
  BY <1>1, ScriptOf, DeskMoves DEF RejectCreation, Runs, TaskNames
<1>4. Can(v5, <<>>, t)
  <2>1. Rest(v5)
    BY <1>1 DEF Rest, RestDraft, View, Persons
  <2>2. t => Calm(v5)
    BY <1>1 DEF Calm, View
  <2> QED
    BY <2>1, <2>2, StepEnd
<1>5. Can(v4, <<s5>>, t)
  <2>1. Begun(<<s5>>, s5) /\ Tail(<<s5>>) = <<>>
    BY Steps1
  <2>2. Can(v5, Tail(<<s5>>), t)
    BY <1>4, <2>1
  <2>3. Flow(Finish("ApproveCreation", "reject", "NONE"), "Complete") /\ "Complete" \in TaskNames
    BY <1>1, Targets DEF Flow, Finish, Places, Nodes, TaskNames
  <2> QED
    BY <2>1, <2>2, <2>3, StepFinish
<1>6. Can(v3, <<s4, s5>>, t)
  <2>1. Begun(<<s4, s5>>, s4) /\ Tail(<<s4, s5>>) = <<s5>>
    BY Steps2
  <2> QED
    BY <1>1, <1>5, <2>1, StepSendSet DEF TaskNames
<1>7. Can(v2, <<s3, s4, s5>>, t)
  <2>1. Begun(<<s3, s4, s5>>, s3) /\ Tail(<<s3, s4, s5>>) = <<s4, s5>>
    BY Steps3
  <2>2. Can(v3, Tail(<<s3, s4, s5>>), t)
    BY <1>6, <2>1
  <2>3. Writable("DRAFT", "DRAFT", "ApproveCreation")
    BY <1>1 DEF Writable, Young
  <2> QED
    BY <2>1, <2>2, <2>3, StepWrite
<1>8. Can(v1, <<s2, s3, s4, s5>>, t)
  <2>1. Begun(<<s2, s3, s4, s5>>, s2) /\ Tail(<<s2, s3, s4, s5>>) = <<s3, s4, s5>>
    BY Steps4
  <2>2. Can(v2, Tail(<<s2, s3, s4, s5>>), t)
    BY <1>7, <2>1
  <2>3. "ApproveCreation" \in Places /\ u \in Persons /\ (u # Nobody => Nobody \in {Nobody, u})
    BY <1>1 DEF Places, TaskNames, Persons
  <2> QED
    BY <2>1, <2>2, <2>3, StepClaim
<1>9. Can(v0, <<s1, s2, s3, s4, s5>>, t)
  <2>1. Begun(<<s1, s2, s3, s4, s5>>, s1) /\ Tail(<<s1, s2, s3, s4, s5>>) = <<s2, s3, s4, s5>>
    BY Steps5
  <2>2. Can(v1, Tail(<<s1, s2, s3, s4, s5>>), t)
    BY <1>8, <2>1
  <2>3. Writable("DRAFT", "PENDING_CREATION", "ApproveCreation")
    BY <1>1 DEF Writable, Young
  <2> QED
    BY <2>1, <2>2, <2>3, StepWrite
<1> QED
  BY <1>2, <1>3, <1>9

LEMMA PlanAbandon ==
    ASSUME NEW a, NEW h, NEW t, Opens(a, h, t), NEW u \in Users,
           Abandon(u)
    PROVE  Can(Now(a, h), script', t)
<1>1. status = "DRAFT" /\ a = "Complete" /\ owner \in Persons
  BY AtRest DEF Abandon
<1>2. desk = Desk("Complete", u) /\ h \in {Nobody, u}
  BY AtRest, DeskMoves DEF Abandon, TaskNames
<1> DEFINE s1 == Write("ABANDONED", owner, Desk("Complete", u))
           s2 == Retry(Claim("Complete", u))
           s3 == Write("ABANDONED", owner, NoDesk)
           s4 == Send(Terminate)
           v0 == View("DRAFT", owner, Desk("Complete", u), "Complete", h, "nothing")
           v1 == View("ABANDONED", owner, Desk("Complete", u), "Complete", h, "nothing")
           v2 == View("ABANDONED", owner, Desk("Complete", u), "Complete", u, "nothing")
           v3 == View("ABANDONED", owner, NoDesk, "Complete", u, "nothing")
           v4 == View("ABANDONED", owner, NoDesk, "ended", Nobody, "other")
<1>3. Now(a, h) = v0
  BY <1>1, <1>2, NowFields DEF Now
<1>4. script' = <<s1, s2, s3, s4>>
  BY <1>1, <1>2, ScriptOf, DeskMoves DEF Abandon, Runs, TaskNames
<1>5. Can(v4, <<>>, t)
  <2>1. Rest(v4)
    BY <1>1, <1>2 DEF Rest, RestAbandoned, View, Persons
  <2>2. t => Calm(v4)
    BY <1>1, <1>2 DEF Calm, View
  <2> QED
    BY <2>1, <2>2, StepEnd
<1>6. Can(v3, <<s4>>, t)
  <2>1. Begun(<<s4>>, s4) /\ Tail(<<s4>>) = <<>>
    BY Steps1
  <2> QED
    BY <1>1, <1>2, <1>5, <2>1, StepSendEnd DEF Places, TaskNames
<1>7. Can(v2, <<s3, s4>>, t)
  <2>1. Begun(<<s3, s4>>, s3) /\ Tail(<<s3, s4>>) = <<s4>>
    BY Steps2
  <2>2. Can(v3, Tail(<<s3, s4>>), t)
    BY <1>6, <2>1
  <2>3. Writable("ABANDONED", "ABANDONED", "Complete")
    BY <1>1, <1>2 DEF Writable, Young
  <2> QED
    BY <2>1, <2>2, <2>3, StepWrite
<1>8. Can(v1, <<s2, s3, s4>>, t)
  <2>1. Begun(<<s2, s3, s4>>, s2) /\ Tail(<<s2, s3, s4>>) = <<s3, s4>>
    BY Steps3
  <2>2. Can(v2, Tail(<<s2, s3, s4>>), t)
    BY <1>7, <2>1
  <2>3. "Complete" \in Places /\ u \in Persons /\ (u # Nobody => h \in {Nobody, u})
    BY <1>1, <1>2 DEF Places, TaskNames, Persons
  <2> QED
    BY <2>1, <2>2, <2>3, StepClaim
<1>9. Can(v0, <<s1, s2, s3, s4>>, t)
  <2>1. Begun(<<s1, s2, s3, s4>>, s1) /\ Tail(<<s1, s2, s3, s4>>) = <<s2, s3, s4>>
    BY Steps4
  <2>2. Can(v1, Tail(<<s1, s2, s3, s4>>), t)
    BY <1>8, <2>1
  <2>3. Writable("ABANDONED", "DRAFT", "Complete")
    BY <1>1, <1>2 DEF Writable, Young
  <2> QED
    BY <2>1, <2>2, <2>3, StepWrite
<1> QED
  BY <1>3, <1>4, <1>9

-----------------------------------------------------------------------------
(***************************************************************************)
(* Triage of an ingested case.                                             *)
(***************************************************************************)

LEMMA PlanTriageReady ==
    ASSUME NEW a, NEW h, NEW t, Opens(a, h, t),
           TriageReady
    PROVE  Can(Now(a, h), script', t)
<1>1. status = "DRAFT" /\ a = "Complete" /\ owner \in Persons
  BY AtRest DEF TriageReady
<1>2. desk = Desk("Complete", Nobody) /\ h = Nobody
  BY AtRest, DeskMoves DEF TriageReady, TaskNames
<1> DEFINE s1 == Write("READY", owner, Desk("Investigate", Nobody))
           s2 == Retry(Finish("Complete", "ready", "NONE"))
           v0 == View("DRAFT", owner, Desk("Complete", Nobody), "Complete", Nobody, "nothing")
           v1 == View("READY", owner, Desk("Investigate", Nobody), "Complete", Nobody, "nothing")
           v2 == View("READY", owner, Desk("Investigate", Nobody), "Investigate", Nobody, "nothing")
<1>3. Now(a, h) = v0
  BY <1>1, <1>2, NowFields DEF Now
<1>4. script' = <<s1, s2>>
  BY <1>1, <1>2, ScriptOf, DeskMoves DEF TriageReady, Runs, TaskNames
<1>5. Can(v2, <<>>, t)
  <2>1. Rest(v2)
    BY <1>1, <1>2 DEF Rest, RestReady, View, Persons
  <2>2. t => Calm(v2)
    BY <1>1, <1>2 DEF Calm, View
  <2> QED
    BY <2>1, <2>2, StepEnd
<1>6. Can(v1, <<s2>>, t)
  <2>1. Begun(<<s2>>, s2) /\ Tail(<<s2>>) = <<>>
    BY Steps1
  <2>2. Can(v2, Tail(<<s2>>), t)
    BY <1>5, <2>1
  <2>3. Flow(Finish("Complete", "ready", "NONE"), "Investigate")
    BY <1>1, <1>2, Targets DEF Flow, Finish, Places, Nodes, TaskNames
  <2> QED
    BY <2>1, <2>2, <2>3, StepFinish
<1>7. Can(v0, <<s1, s2>>, t)
  <2>1. Begun(<<s1, s2>>, s1) /\ Tail(<<s1, s2>>) = <<s2>>
    BY Steps2
  <2>2. Can(v1, Tail(<<s1, s2>>), t)
    BY <1>6, <2>1
  <2>3. Writable("READY", "DRAFT", "Complete")
    BY <1>1, <1>2 DEF Writable, Young
  <2> QED
    BY <2>1, <2>2, <2>3, StepWrite
<1> QED
  BY <1>3, <1>4, <1>7

LEMMA PlanTriageClose ==
    ASSUME NEW a, NEW h, NEW t, Opens(a, h, t),
           TriageClose
    PROVE  Can(Now(a, h), script', t)
<1>1. status = "DRAFT" /\ a = "Complete" /\ owner \in Persons
  BY AtRest DEF TriageClose
<1>2. desk = Desk("Complete", Nobody) /\ h = Nobody
  BY AtRest, DeskMoves DEF TriageClose, TaskNames
<1> DEFINE s1 == Write("CLOSED", owner, NoDesk)
           s2 == Retry(Finish("Complete", "autoClose", "NONE"))
           s3 == Retry(Finish("AutoClose", "done", "NONE"))
           v0 == View("DRAFT", owner, Desk("Complete", Nobody), "Complete", Nobody, "nothing")
           v1 == View("CLOSED", owner, NoDesk, "Complete", Nobody, "nothing")
           v2 == View("CLOSED", owner, NoDesk, "AutoClose", Nobody, "nothing")
           v3 == View("CLOSED", owner, NoDesk, "ended", Nobody, "nothing")
<1>3. Now(a, h) = v0
  BY <1>1, <1>2, NowFields DEF Now
<1>4. script' = <<s1, s2, s3>>
  BY <1>1, <1>2, ScriptOf, DeskMoves DEF TriageClose, Runs, TaskNames
<1>5. Can(v3, <<>>, t)
  <2>1. Rest(v3)
    BY <1>1, <1>2 DEF Rest, RestClosed, View, Persons
  <2>2. t => Calm(v3)
    BY <1>1, <1>2 DEF Calm, View
  <2> QED
    BY <2>1, <2>2, StepEnd
<1>6. Can(v2, <<s3>>, t)
  <2>1. Begun(<<s3>>, s3) /\ Tail(<<s3>>) = <<>>
    BY Steps1
  <2>2. Can(v3, Tail(<<s3>>), t)
    BY <1>5, <2>1
  <2>3. Flow(Finish("AutoClose", "done", "NONE"), "ended")
    BY <1>1, <1>2, Targets DEF Flow, Finish, Places, Nodes, TaskNames
  <2> QED
    BY <2>1, <2>2, <2>3, StepFinish
<1>7. Can(v1, <<s2, s3>>, t)
  <2>1. Begun(<<s2, s3>>, s2) /\ Tail(<<s2, s3>>) = <<s3>>
    BY Steps2
  <2>2. Can(v2, Tail(<<s2, s3>>), t)
    BY <1>6, <2>1
  <2>3. Flow(Finish("Complete", "autoClose", "NONE"), "AutoClose")
    BY <1>1, <1>2, Targets DEF Flow, Finish, Places, Nodes, TaskNames
  <2> QED
    BY <2>1, <2>2, <2>3, StepFinish
<1>8. Can(v0, <<s1, s2, s3>>, t)
  <2>1. Begun(<<s1, s2, s3>>, s1) /\ Tail(<<s1, s2, s3>>) = <<s2, s3>>
    BY Steps3
  <2>2. Can(v1, Tail(<<s1, s2, s3>>), t)
    BY <1>7, <2>1
  <2>3. Writable("CLOSED", "DRAFT", "Complete")
    BY <1>1, <1>2 DEF Writable, Young
  <2> QED
    BY <2>1, <2>2, <2>3, StepWrite
<1> QED
  BY <1>3, <1>4, <1>8

LEMMA Joined1 ==
    ASSUME NEW p, NEW q, NEW r
    PROVE  <<p, q>> \o <<r>> = <<p, q, r>>
<1> DEFINE S == {p, q, r}
           u == <<p, q>>
           v == <<r>>
           w == <<p, q, r>>
<1>1. /\ u \in Seq(S) /\ Len(u) = 2 /\ u[1] = p /\ u[2] = q
      /\ v \in Seq(S) /\ Len(v) = 1 /\ v[1] = r
      /\ w \in Seq(S) /\ Len(w) = 3 /\ w[1] = p /\ w[2] = q /\ w[3] = r
  OBVIOUS
<1> HIDE DEF S, u, v, w
<1>2. /\ u \o v \in Seq(S) /\ Len(u \o v) = Len(u) + Len(v)
      /\ \A i \in 1..(Len(u) + Len(v)) : (u \o v)[i] = IF i <= Len(u) THEN u[i] ELSE v[i - Len(u)]
  BY <1>1, ConcatProperties
<1>3. ASSUME NEW i \in 1..3
      PROVE  (u \o v)[i] = w[i]
  <2>1. i \in {1, 2, 3}
    BY <1>3
  <2>2. CASE i \in {1, 2}
    <3>1. (u \o v)[i] = u[i]
      BY <1>1, <1>2, <2>2
    <3> QED
      BY <1>1, <2>2, <3>1
  <2>3. CASE i \in {3}
    <3>1. (u \o v)[i] = v[i - 2]
      BY <1>1, <1>2, <2>3, SMTT(30)
    <3> QED
      BY <1>1, <2>3, <3>1
  <2> QED
    BY <2>1, <2>2, <2>3
<1>4. Len(u \o v) = 3 /\ Len(w) = 3
  BY <1>1, <1>2
<1>5. u \o v = w
  BY <1>1, <1>2, <1>3, <1>4, SeqEqual
<1> QED
  BY <1>5 DEF u, v, w

LEMMA Joined2 ==
    ASSUME NEW p, NEW q, NEW r, NEW s
    PROVE  <<p, q>> \o <<r, s>> = <<p, q, r, s>>
<1> DEFINE S == {p, q, r, s}
           u == <<p, q>>
           v == <<r, s>>
           w == <<p, q, r, s>>
<1>1. /\ u \in Seq(S) /\ Len(u) = 2 /\ u[1] = p /\ u[2] = q
      /\ v \in Seq(S) /\ Len(v) = 2 /\ v[1] = r /\ v[2] = s
      /\ w \in Seq(S) /\ Len(w) = 4 /\ w[1] = p /\ w[2] = q /\ w[3] = r /\ w[4] = s
  OBVIOUS
<1> HIDE DEF S, u, v, w
<1>2. /\ u \o v \in Seq(S) /\ Len(u \o v) = Len(u) + Len(v)
      /\ \A i \in 1..(Len(u) + Len(v)) : (u \o v)[i] = IF i <= Len(u) THEN u[i] ELSE v[i - Len(u)]
  BY <1>1, ConcatProperties
<1>3. ASSUME NEW i \in 1..4
      PROVE  (u \o v)[i] = w[i]
  <2>1. i \in {1, 2, 3, 4}
    BY <1>3
  <2>2. CASE i \in {1, 2}
    <3>1. (u \o v)[i] = u[i]
      BY <1>1, <1>2, <2>2
    <3> QED
      BY <1>1, <2>2, <3>1
  <2>3. CASE i \in {3, 4}
    <3>1. (u \o v)[i] = v[i - 2]
      BY <1>1, <1>2, <2>3, SMTT(30)
    <3> QED
      BY <1>1, <2>3, <3>1
  <2> QED
    BY <2>1, <2>2, <2>3
<1>4. Len(u \o v) = 4 /\ Len(w) = 4
  BY <1>1, <1>2
<1>5. u \o v = w
  BY <1>1, <1>2, <1>3, <1>4, SeqEqual
<1> QED
  BY <1>5 DEF u, v, w

LEMMA Joined4 ==
    ASSUME NEW p, NEW q, NEW r, NEW s, NEW e, NEW f
    PROVE  <<p, q>> \o <<r, s, e, f>> = <<p, q, r, s, e, f>>
<1> DEFINE S == {p, q, r, s, e, f}
           u == <<p, q>>
           v == <<r, s, e, f>>
           w == <<p, q, r, s, e, f>>
<1>1. /\ u \in Seq(S) /\ Len(u) = 2 /\ u[1] = p /\ u[2] = q
      /\ v \in Seq(S) /\ Len(v) = 4 /\ v[1] = r /\ v[2] = s /\ v[3] = e /\ v[4] = f
      /\ w \in Seq(S) /\ Len(w) = 6 /\ w[1] = p /\ w[2] = q /\ w[3] = r /\ w[4] = s /\ w[5] = e /\ w[6] = f
  OBVIOUS
<1> HIDE DEF S, u, v, w
<1>2. /\ u \o v \in Seq(S) /\ Len(u \o v) = Len(u) + Len(v)
      /\ \A i \in 1..(Len(u) + Len(v)) : (u \o v)[i] = IF i <= Len(u) THEN u[i] ELSE v[i - Len(u)]
  BY <1>1, ConcatProperties
<1>3. ASSUME NEW i \in 1..6
      PROVE  (u \o v)[i] = w[i]
  <2>1. i \in {1, 2, 3, 4, 5, 6}
    BY <1>3
  <2>2. CASE i \in {1, 2}
    <3>1. (u \o v)[i] = u[i]
      BY <1>1, <1>2, <2>2
    <3> QED
      BY <1>1, <2>2, <3>1
  <2>3. CASE i \in {3, 4, 5, 6}
    <3>1. (u \o v)[i] = v[i - 2]
      BY <1>1, <1>2, <2>3, SMTT(30)
    <3> QED
      BY <1>1, <2>3, <3>1
  <2> QED
    BY <2>1, <2>2, <2>3
<1>4. Len(u \o v) = 6 /\ Len(w) = 6
  BY <1>1, <1>2
<1>5. u \o v = w
  BY <1>1, <1>2, <1>3, <1>4, SeqEqual
<1> QED
  BY <1>5 DEF u, v, w

LEMMA PlanAiInvestigate ==
    ASSUME NEW a, NEW h, NEW t, Opens(a, h, t), NEW ai \in Users,
           AiInvestigate(ai), t => odd' = {}
    PROVE  Can(Now(a, h), script', t)
<1>1. status = "DRAFT" /\ a = "Complete" /\ owner \in Persons
  BY AtRest DEF AiInvestigate, Predicted
<1>2. desk = Desk("Complete", Nobody) /\ h = Nobody
  BY AtRest, DeskMoves DEF AiInvestigate, Predicted, TaskNames
<1>3. ~t
  BY DEF AiInvestigate, Predicted, Begins, Opens
<1> DEFINE s1 == Retry(Claim("Complete", Nobody))
           s2 == Write("DRAFT", owner, Desk("Complete", ai))
           s3 == Await(Finish("Complete", "ready", "NONE"))
           s4 == Retry(Claim("Complete", ai))
           s5 == Write("READY", owner, Desk("Investigate", Nobody))
           s6 == Send(SetStatus)
           v0 == View("DRAFT", owner, Desk("Complete", Nobody), "Complete", Nobody, "nothing")
           v1 == View("DRAFT", owner, Desk("Complete", Nobody), "Complete", Nobody, "nothing")
           v2 == View("DRAFT", owner, Desk("Complete", ai), "Complete", Nobody, "nothing")
           v3 == View("DRAFT", owner, Desk("Complete", ai), "Investigate", Nobody, "nothing")
<1>4. Now(a, h) = v0
  BY <1>1, <1>2, <1>3, NowFields DEF Now
<1>5. script' = <<s1, s2, s3, s4, s5, s6>>
  <2>1. script' =
          <<Retry(Unclaim("Complete")), Write("DRAFT", owner, Open("Complete", ai))>>
            \o <<Await(Finish("Complete", "ready", "NONE")), Retry(Claim("Complete", ai)),
                 Write("READY", owner, Moved("Complete", "Investigate", Nobody)), Send(SetStatus)>>
    BY DEF AiInvestigate, Predicted, Begins
  <2>2. Open("Complete", ai) = Desk("Complete", ai) /\ Unclaim("Complete") = Claim("Complete", Nobody)
        /\ Moved("Complete", "Investigate", Nobody) = Desk("Investigate", Nobody)
    BY <1>2, DeskMoves DEF Unclaim, TaskNames
  <2>3. script' = <<s1, s2>> \o <<s3, s4, s5, s6>>
    BY <2>1, <2>2
  <2> QED
    BY <2>3, Joined4
<1>6. Can(v3, <<s4, s5, s6>>, t)
  <2>1. Begun(<<s4, s5, s6>>, s4)
    BY Steps3
  <2>2. t = FALSE
    BY <1>1, <1>2, <1>3 DEF Opens
  <2> QED
    BY <1>1, <1>2, <1>3, <2>1, <2>2, StepStuck DEF Places, TaskNames, Persons
<1>7. Can(v2, <<s3, s4, s5, s6>>, t)
  <2>1. Begun(<<s3, s4, s5, s6>>, s3) /\ Tail(<<s3, s4, s5, s6>>) = <<s4, s5, s6>>
    BY Steps4
  <2>2. Can(v3, Tail(<<s3, s4, s5, s6>>), t)
    BY <1>6, <2>1
  <2>3. Flow(Finish("Complete", "ready", "NONE"), "Investigate")
    BY <1>1, <1>2, <1>3, Targets DEF Flow, Finish, Places, Nodes, TaskNames
  <2> QED
    BY <2>1, <2>2, <2>3, StepFinish
<1>8. Can(v1, <<s2, s3, s4, s5, s6>>, t)
  <2>1. Begun(<<s2, s3, s4, s5, s6>>, s2) /\ Tail(<<s2, s3, s4, s5, s6>>) = <<s3, s4, s5, s6>>
    BY Steps5
  <2>2. Can(v2, Tail(<<s2, s3, s4, s5, s6>>), t)
    BY <1>7, <2>1
  <2>3. Writable("DRAFT", "DRAFT", "Complete")
    BY <1>1, <1>2, <1>3 DEF Writable, Young
  <2> QED
    BY <2>1, <2>2, <2>3, StepWrite
<1>9. Can(v0, <<s1, s2, s3, s4, s5, s6>>, t)
  <2>1. /\ Begun(<<s1, s2, s3, s4, s5, s6>>, s1)
        /\ Tail(<<s1, s2, s3, s4, s5, s6>>) = <<s2, s3, s4, s5, s6>>
    BY Steps6
  <2>2. Can(v1, Tail(<<s1, s2, s3, s4, s5, s6>>), t)
    BY <1>8, <2>1
  <2>3. "Complete" \in Places /\ Nobody \in Persons /\ (Nobody # Nobody => Nobody \in {Nobody, Nobody})
    BY <1>1, <1>2, <1>3 DEF Places, TaskNames, Persons
  <2> QED
    BY <2>1, <2>2, <2>3, StepClaim
<1> QED
  BY <1>4, <1>5, <1>9

LEMMA PlanAiRefute ==
    ASSUME NEW a, NEW h, NEW t, Opens(a, h, t), NEW ai \in Users,
           AiRefute(ai), t => odd' = {}
    PROVE  Can(Now(a, h), script', t)
<1>1. status = "DRAFT" /\ a = "Complete" /\ owner \in Persons
  BY AtRest DEF AiRefute, Predicted
<1>2. desk = Desk("Complete", Nobody) /\ h = Nobody
  BY AtRest, DeskMoves DEF AiRefute, Predicted, TaskNames
<1>3. ~t
  BY DEF AiRefute, Predicted, Begins, Opens
<1> DEFINE s1 == Retry(Claim("Complete", Nobody))
           s2 == Write("DRAFT", owner, Desk("Complete", ai))
           s3 == Write("AUTO_REFUTED", owner, NoDesk)
           v0 == View("DRAFT", owner, Desk("Complete", Nobody), "Complete", Nobody, "nothing")
           v1 == View("DRAFT", owner, Desk("Complete", Nobody), "Complete", Nobody, "nothing")
           v2 == View("DRAFT", owner, Desk("Complete", ai), "Complete", Nobody, "nothing")
           v3 == View("AUTO_REFUTED", owner, NoDesk, "Complete", Nobody, "nothing")
<1>4. Now(a, h) = v0
  BY <1>1, <1>2, <1>3, NowFields DEF Now
<1>5. script' = <<s1, s2, s3>>
  <2>1. script' =
          <<Retry(Unclaim("Complete")), Write("DRAFT", owner, Open("Complete", ai))>>
            \o <<Write("AUTO_REFUTED", owner, Shut("Complete"))>>
    BY DEF AiRefute, Predicted, Begins
  <2>2. Open("Complete", ai) = Desk("Complete", ai) /\ Unclaim("Complete") = Claim("Complete", Nobody)
        /\ Shut("Complete") = NoDesk
    BY <1>2, DeskMoves DEF Unclaim, TaskNames
  <2>3. script' = <<s1, s2>> \o <<s3>>
    BY <2>1, <2>2
  <2> QED
    BY <2>3, Joined1
<1>6. Can(v3, <<>>, t)
  <2>1. Rest(v3)
    BY <1>1, <1>2, <1>3 DEF Rest, RestRefuted, View, Persons
  <2>2. t => Calm(v3)
    BY <1>1, <1>2, <1>3 DEF Calm, View
  <2> QED
    BY <2>1, <2>2, StepEnd
<1>7. Can(v2, <<s3>>, t)
  <2>1. Begun(<<s3>>, s3) /\ Tail(<<s3>>) = <<>>
    BY Steps1
  <2>2. Can(v3, Tail(<<s3>>), t)
    BY <1>6, <2>1
  <2>3. Writable("AUTO_REFUTED", "DRAFT", "Complete")
    BY <1>1, <1>2, <1>3 DEF Writable, Young
  <2> QED
    BY <2>1, <2>2, <2>3, StepWrite
<1>8. Can(v1, <<s2, s3>>, t)
  <2>1. Begun(<<s2, s3>>, s2) /\ Tail(<<s2, s3>>) = <<s3>>
    BY Steps2
  <2>2. Can(v2, Tail(<<s2, s3>>), t)
    BY <1>7, <2>1
  <2>3. Writable("DRAFT", "DRAFT", "Complete")
    BY <1>1, <1>2, <1>3 DEF Writable, Young
  <2> QED
    BY <2>1, <2>2, <2>3, StepWrite
<1>9. Can(v0, <<s1, s2, s3>>, t)
  <2>1. Begun(<<s1, s2, s3>>, s1) /\ Tail(<<s1, s2, s3>>) = <<s2, s3>>
    BY Steps3
  <2>2. Can(v1, Tail(<<s1, s2, s3>>), t)
    BY <1>8, <2>1
  <2>3. "Complete" \in Places /\ Nobody \in Persons /\ (Nobody # Nobody => Nobody \in {Nobody, Nobody})
    BY <1>1, <1>2, <1>3 DEF Places, TaskNames, Persons
  <2> QED
    BY <2>1, <2>2, <2>3, StepClaim
<1> QED
  BY <1>4, <1>5, <1>9

LEMMA PlanAiConfirm ==
    ASSUME NEW a, NEW h, NEW t, Opens(a, h, t), NEW ai \in Users,
           AiConfirm(ai), t => odd' = {}
    PROVE  Can(Now(a, h), script', t)
<1>1. status = "DRAFT" /\ a = "Complete" /\ owner \in Persons
  BY AtRest DEF AiConfirm, Predicted
<1>2. desk = Desk("Complete", Nobody) /\ h = Nobody
  BY AtRest, DeskMoves DEF AiConfirm, Predicted, TaskNames
<1>3. ~t
  BY DEF AiConfirm, Predicted, Begins, Opens
<1> DEFINE s1 == Retry(Claim("Complete", Nobody))
           s2 == Write("DRAFT", owner, Desk("Complete", ai))
           s3 == Await(Finish("Complete", "autoClose", "NONE"))
           s4 == Write("AUTO_CONFIRMED", owner, NoDesk)
           v0 == View("DRAFT", owner, Desk("Complete", Nobody), "Complete", Nobody, "nothing")
           v1 == View("DRAFT", owner, Desk("Complete", Nobody), "Complete", Nobody, "nothing")
           v2 == View("DRAFT", owner, Desk("Complete", ai), "Complete", Nobody, "nothing")
           v3 == View("DRAFT", owner, Desk("Complete", ai), "AutoClose", Nobody, "nothing")
           v4 == View("AUTO_CONFIRMED", owner, NoDesk, "AutoClose", Nobody, "nothing")
<1>4. Now(a, h) = v0
  BY <1>1, <1>2, <1>3, NowFields DEF Now
<1>5. script' = <<s1, s2, s3, s4>>
  <2>1. script' =
          <<Retry(Unclaim("Complete")), Write("DRAFT", owner, Open("Complete", ai))>>
            \o <<Await(Finish("Complete", "autoClose", "NONE")),
                 Write("AUTO_CONFIRMED", owner, Shut("Complete"))>>
    BY DEF AiConfirm, Predicted, Begins
  <2>2. Open("Complete", ai) = Desk("Complete", ai) /\ Unclaim("Complete") = Claim("Complete", Nobody)
        /\ Shut("Complete") = NoDesk
    BY <1>2, DeskMoves DEF Unclaim, TaskNames
  <2>3. script' = <<s1, s2>> \o <<s3, s4>>
    BY <2>1, <2>2
  <2> QED
    BY <2>3, Joined2
<1>6. Can(v4, <<>>, t)
  <2>1. Rest(v4)
    BY <1>1, <1>2, <1>3 DEF Rest, RestConfirmed, View, Persons
  <2>2. t => Calm(v4)
    BY <1>1, <1>2, <1>3 DEF Calm, View
  <2> QED
    BY <2>1, <2>2, StepEnd
<1>7. Can(v3, <<s4>>, t)
  <2>1. Begun(<<s4>>, s4) /\ Tail(<<s4>>) = <<>>
    BY Steps1
  <2>2. Can(v4, Tail(<<s4>>), t)
    BY <1>6, <2>1
  <2>3. Writable("AUTO_CONFIRMED", "DRAFT", "AutoClose")
    BY <1>1, <1>2, <1>3 DEF Writable, Young
  <2> QED
    BY <2>1, <2>2, <2>3, StepWrite
<1>8. Can(v2, <<s3, s4>>, t)
  <2>1. Begun(<<s3, s4>>, s3) /\ Tail(<<s3, s4>>) = <<s4>>
    BY Steps2
  <2>2. Can(v3, Tail(<<s3, s4>>), t)
    BY <1>7, <2>1
  <2>3. Flow(Finish("Complete", "autoClose", "NONE"), "AutoClose")
    BY <1>1, <1>2, <1>3, Targets DEF Flow, Finish, Places, Nodes, TaskNames
  <2> QED
    BY <2>1, <2>2, <2>3, StepFinish
<1>9. Can(v1, <<s2, s3, s4>>, t)
  <2>1. Begun(<<s2, s3, s4>>, s2) /\ Tail(<<s2, s3, s4>>) = <<s3, s4>>
    BY Steps3
  <2>2. Can(v2, Tail(<<s2, s3, s4>>), t)
    BY <1>8, <2>1
  <2>3. Writable("DRAFT", "DRAFT", "Complete")
    BY <1>1, <1>2, <1>3 DEF Writable, Young
  <2> QED
    BY <2>1, <2>2, <2>3, StepWrite
<1>10. Can(v0, <<s1, s2, s3, s4>>, t)
  <2>1. Begun(<<s1, s2, s3, s4>>, s1) /\ Tail(<<s1, s2, s3, s4>>) = <<s2, s3, s4>>
    BY Steps4
  <2>2. Can(v1, Tail(<<s1, s2, s3, s4>>), t)
    BY <1>9, <2>1
  <2>3. "Complete" \in Places /\ Nobody \in Persons /\ (Nobody # Nobody => Nobody \in {Nobody, Nobody})
    BY <1>1, <1>2, <1>3 DEF Places, TaskNames, Persons
  <2> QED
    BY <2>1, <2>2, <2>3, StepClaim
<1> QED
  BY <1>4, <1>5, <1>10
-----------------------------------------------------------------------------
(***************************************************************************)
(* Work on the tasks.                                                      *)
(***************************************************************************)

LEMMA PlanAssignInvestigate ==
    ASSUME NEW a, NEW h, NEW t, Opens(a, h, t), NEW u \in Users,
           Assign("Investigate", u)
    PROVE  Can(Now(a, h), script', t)
<1>1. a = "Investigate" /\ owner \in Persons /\ h = Nobody
  BY AtWork DEF Assign
<1>2. desk = Desk("Investigate", Nobody)
  BY AtWork DEF Assign
<1> DEFINE s1 == Await(SetStatus)
           s2 == Await(Claim("Investigate", u))
           s3 == Write("ASSIGNED", u, Desk("Investigate", u))
           v0 == View(status, owner, Desk("Investigate", Nobody), "Investigate", Nobody, "nothing")
           v1 == View(status, owner, Desk("Investigate", Nobody), "Investigate", Nobody, "nothing")
           v2 == View(status, owner, Desk("Investigate", Nobody), "Investigate", u, "nothing")
           v3 == View("ASSIGNED", u, Desk("Investigate", u), "Investigate", u, "nothing")
<1>3. Now(a, h) = v0
  BY <1>1, <1>2, NowFields DEF Now
<1>4. script' = <<s1, s2, s3>>
  BY <1>1, <1>2, ScriptOf, DeskMoves DEF Assign, Runs, TaskNames, Unclaim
<1>5. Can(v3, <<>>, t)
  <2>1. Rest(v3)
    BY <1>1, <1>2 DEF Rest, RestAssigned, View, Persons
  <2>2. t => Calm(v3)
    BY <1>1, <1>2 DEF Calm, View
  <2> QED
    BY <2>1, <2>2, StepEnd
<1>6. Can(v2, <<s3>>, t)
  <2>1. Begun(<<s3>>, s3) /\ Tail(<<s3>>) = <<>>
    BY Steps1
  <2>2. Can(v3, Tail(<<s3>>), t)
    BY <1>5, <2>1
  <2>3. Writable("ASSIGNED", status, "Investigate")
    BY <1>1, <1>2 DEF Writable, Young
  <2> QED
    BY <2>1, <2>2, <2>3, StepWrite
<1>7. Can(v1, <<s2, s3>>, t)
  <2>1. Begun(<<s2, s3>>, s2) /\ Tail(<<s2, s3>>) = <<s3>>
    BY Steps2
  <2>2. Can(v2, Tail(<<s2, s3>>), t)
    BY <1>6, <2>1
  <2>3. "Investigate" \in Places /\ u \in Persons /\ (u # Nobody => Nobody \in {Nobody, u})
    BY <1>1, <1>2 DEF Places, TaskNames, Persons
  <2> QED
    BY <2>1, <2>2, <2>3, StepClaim
<1>8. Can(v0, <<s1, s2, s3>>, t)
  <2>1. Begun(<<s1, s2, s3>>, s1) /\ Tail(<<s1, s2, s3>>) = <<s2, s3>>
    BY Steps3
  <2> QED
    BY <1>1, <1>2, <1>7, <2>1, StepSet DEF TaskNames
<1> QED
  BY <1>3, <1>4, <1>8

LEMMA PlanAssignSAR ==
    ASSUME NEW a, NEW h, NEW t, Opens(a, h, t), NEW u \in Users,
           Assign("SAR", u)
    PROVE  Can(Now(a, h), script', t)
<1>1. a = "SAR" /\ owner \in Persons /\ h = Nobody /\ status = "CLOSED"
  BY AtWork DEF Assign
<1>2. desk = Desk("SAR", Nobody)
  BY AtWork DEF Assign
<1> DEFINE s1 == Await(Claim("SAR", u))
           s2 == Write("CLOSED", owner, Desk("SAR", u))
           v0 == View("CLOSED", owner, Desk("SAR", Nobody), "SAR", Nobody, "nothing")
           v1 == View("CLOSED", owner, Desk("SAR", Nobody), "SAR", u, "nothing")
           v2 == View("CLOSED", owner, Desk("SAR", u), "SAR", u, "nothing")
<1>3. Now(a, h) = v0
  BY <1>1, <1>2, NowFields DEF Now
<1>4. script' = <<s1, s2>>
  BY <1>1, <1>2, ScriptOf, DeskMoves DEF Assign, Runs, TaskNames, Unclaim
<1>5. Can(v2, <<>>, t)
  <2>1. Rest(v2)
    BY <1>1, <1>2 DEF Rest, RestFiling, View, Persons
  <2>2. t => Calm(v2)
    BY <1>1, <1>2 DEF Calm, View
  <2> QED
    BY <2>1, <2>2, StepEnd
<1>6. Can(v1, <<s2>>, t)
  <2>1. Begun(<<s2>>, s2) /\ Tail(<<s2>>) = <<>>
    BY Steps1
  <2>2. Can(v2, Tail(<<s2>>), t)
    BY <1>5, <2>1
  <2>3. Writable("CLOSED", "CLOSED", "SAR")
    BY <1>1, <1>2 DEF Writable, Young
  <2> QED
    BY <2>1, <2>2, <2>3, StepWrite
<1>7. Can(v0, <<s1, s2>>, t)
  <2>1. Begun(<<s1, s2>>, s1) /\ Tail(<<s1, s2>>) = <<s2>>
    BY Steps2
  <2>2. Can(v1, Tail(<<s1, s2>>), t)
    BY <1>6, <2>1
  <2>3. "SAR" \in Places /\ u \in Persons /\ (u # Nobody => Nobody \in {Nobody, u})
    BY <1>1, <1>2 DEF Places, TaskNames, Persons
  <2> QED
    BY <2>1, <2>2, <2>3, StepClaim
<1> QED
  BY <1>3, <1>4, <1>7

LEMMA PlanReassignInvestigate ==
    ASSUME NEW a, NEW h, NEW t, Opens(a, h, t), NEW u \in Users,
           Reassign("Investigate", u)
    PROVE  Can(Now(a, h), script', t)
<1>1. a = "Investigate" /\ owner \in Persons
  BY AtWork DEF Reassign
<1>2. PICK w \in Persons : desk = Desk("Investigate", w) /\ h \in {Nobody, w}
  BY AtWork DEF Reassign
<1> DEFINE s1 == Await(SetStatus)
           s2 == Await(Claim("Investigate", Nobody))
           s3 == Await(Claim("Investigate", u))
           s4 == Write("ASSIGNED", u, Desk("Investigate", u))
           v0 == View(status, owner, Desk("Investigate", w), "Investigate", h, "nothing")
           v1 == View(status, owner, Desk("Investigate", w), "Investigate", h, "nothing")
           v2 == View(status, owner, Desk("Investigate", w), "Investigate", Nobody, "nothing")
           v3 == View(status, owner, Desk("Investigate", w), "Investigate", u, "nothing")
           v4 == View("ASSIGNED", u, Desk("Investigate", u), "Investigate", u, "nothing")
<1>3. Now(a, h) = v0
  BY <1>1, <1>2, NowFields DEF Now
<1>4. script' = <<s1, s2, s3, s4>>
  BY <1>1, <1>2, ScriptOf, DeskMoves DEF Reassign, Runs, TaskNames, Unclaim
<1>5. Can(v4, <<>>, t)
  <2>1. Rest(v4)
    BY <1>1, <1>2 DEF Rest, RestAssigned, View, Persons
  <2>2. t => Calm(v4)
    BY <1>1, <1>2 DEF Calm, View
  <2> QED
    BY <2>1, <2>2, StepEnd
<1>6. Can(v3, <<s4>>, t)
  <2>1. Begun(<<s4>>, s4) /\ Tail(<<s4>>) = <<>>
    BY Steps1
  <2>2. Can(v4, Tail(<<s4>>), t)
    BY <1>5, <2>1
  <2>3. Writable("ASSIGNED", status, "Investigate")
    BY <1>1, <1>2 DEF Writable, Young
  <2> QED
    BY <2>1, <2>2, <2>3, StepWrite
<1>7. Can(v2, <<s3, s4>>, t)
  <2>1. Begun(<<s3, s4>>, s3) /\ Tail(<<s3, s4>>) = <<s4>>
    BY Steps2
  <2>2. Can(v3, Tail(<<s3, s4>>), t)
    BY <1>6, <2>1
  <2>3. "Investigate" \in Places /\ u \in Persons /\ (u # Nobody => Nobody \in {Nobody, u})
    BY <1>1, <1>2 DEF Places, TaskNames, Persons
  <2> QED
    BY <2>1, <2>2, <2>3, StepClaim
<1>8. Can(v1, <<s2, s3, s4>>, t)
  <2>1. Begun(<<s2, s3, s4>>, s2) /\ Tail(<<s2, s3, s4>>) = <<s3, s4>>
    BY Steps3
  <2>2. Can(v2, Tail(<<s2, s3, s4>>), t)
    BY <1>7, <2>1
  <2>3. "Investigate" \in Places /\ Nobody \in Persons /\ (Nobody # Nobody => h \in {Nobody, Nobody})
    BY <1>1, <1>2 DEF Places, TaskNames, Persons
  <2> QED
    BY <2>1, <2>2, <2>3, StepClaim
<1>9. Can(v0, <<s1, s2, s3, s4>>, t)
  <2>1. Begun(<<s1, s2, s3, s4>>, s1) /\ Tail(<<s1, s2, s3, s4>>) = <<s2, s3, s4>>
    BY Steps4
  <2> QED
    BY <1>1, <1>2, <1>8, <2>1, StepSet DEF TaskNames
<1> QED
  BY <1>3, <1>4, <1>9

LEMMA PlanReassignSAR ==
    ASSUME NEW a, NEW h, NEW t, Opens(a, h, t), NEW u \in Users,
           Reassign("SAR", u)
    PROVE  Can(Now(a, h), script', t)
<1>1. a = "SAR" /\ owner \in Persons /\ status = "CLOSED"
  BY AtWork DEF Reassign
<1>2. PICK w \in Persons : desk = Desk("SAR", w) /\ h \in {Nobody, w}
  BY AtWork DEF Reassign
<1> DEFINE s1 == Await(Claim("SAR", Nobody))
           s2 == Await(Claim("SAR", u))
           s3 == Write("CLOSED", owner, Desk("SAR", u))
           v0 == View("CLOSED", owner, Desk("SAR", w), "SAR", h, "nothing")
           v1 == View("CLOSED", owner, Desk("SAR", w), "SAR", Nobody, "nothing")
           v2 == View("CLOSED", owner, Desk("SAR", w), "SAR", u, "nothing")
           v3 == View("CLOSED", owner, Desk("SAR", u), "SAR", u, "nothing")
<1>3. Now(a, h) = v0
  BY <1>1, <1>2, NowFields DEF Now
<1>4. script' = <<s1, s2, s3>>
  BY <1>1, <1>2, ScriptOf, DeskMoves DEF Reassign, Runs, TaskNames, Unclaim
<1>5. Can(v3, <<>>, t)
  <2>1. Rest(v3)
    BY <1>1, <1>2 DEF Rest, RestFiling, View, Persons
  <2>2. t => Calm(v3)
    BY <1>1, <1>2 DEF Calm, View
  <2> QED
    BY <2>1, <2>2, StepEnd
<1>6. Can(v2, <<s3>>, t)
  <2>1. Begun(<<s3>>, s3) /\ Tail(<<s3>>) = <<>>
    BY Steps1
  <2>2. Can(v3, Tail(<<s3>>), t)
    BY <1>5, <2>1
  <2>3. Writable("CLOSED", "CLOSED", "SAR")
    BY <1>1, <1>2 DEF Writable, Young
  <2> QED
    BY <2>1, <2>2, <2>3, StepWrite
<1>7. Can(v1, <<s2, s3>>, t)
  <2>1. Begun(<<s2, s3>>, s2) /\ Tail(<<s2, s3>>) = <<s3>>
    BY Steps2
  <2>2. Can(v2, Tail(<<s2, s3>>), t)
    BY <1>6, <2>1
  <2>3. "SAR" \in Places /\ u \in Persons /\ (u # Nobody => Nobody \in {Nobody, u})
    BY <1>1, <1>2 DEF Places, TaskNames, Persons
  <2> QED
    BY <2>1, <2>2, <2>3, StepClaim
<1>8. Can(v0, <<s1, s2, s3>>, t)
  <2>1. Begun(<<s1, s2, s3>>, s1) /\ Tail(<<s1, s2, s3>>) = <<s2, s3>>
    BY Steps3
  <2>2. Can(v1, Tail(<<s1, s2, s3>>), t)
    BY <1>7, <2>1
  <2>3. "SAR" \in Places /\ Nobody \in Persons /\ (Nobody # Nobody => h \in {Nobody, Nobody})
    BY <1>1, <1>2 DEF Places, TaskNames, Persons
  <2> QED
    BY <2>1, <2>2, <2>3, StepClaim
<1> QED
  BY <1>3, <1>4, <1>8

LEMMA PlanUnassignInvestigate ==
    ASSUME NEW a, NEW h, NEW t, Opens(a, h, t),
           Unassign("Investigate")
    PROVE  Can(Now(a, h), script', t)
<1>1. a = "Investigate" /\ owner \in Persons
  BY AtWork DEF Unassign
<1>2. PICK w \in Persons : desk = Desk("Investigate", w) /\ h \in {Nobody, w}
  BY AtWork DEF Unassign
<1> DEFINE s1 == Await(SetStatus)
           s2 == Await(Claim("Investigate", Nobody))
           s3 == Write("READY", Nobody, Desk("Investigate", Nobody))
           v0 == View(status, owner, Desk("Investigate", w), "Investigate", h, "nothing")
           v1 == View(status, owner, Desk("Investigate", w), "Investigate", h, "nothing")
           v2 == View(status, owner, Desk("Investigate", w), "Investigate", Nobody, "nothing")
           v3 == View("READY", Nobody, Desk("Investigate", Nobody), "Investigate", Nobody, "nothing")
<1>3. Now(a, h) = v0
  BY <1>1, <1>2, NowFields DEF Now
<1>4. script' = <<s1, s2, s3>>
  BY <1>1, <1>2, ScriptOf, DeskMoves DEF Unassign, Runs, TaskNames, Unclaim
<1>5. Can(v3, <<>>, t)
  <2>1. Rest(v3)
    BY <1>1, <1>2 DEF Rest, RestReady, View, Persons
  <2>2. t => Calm(v3)
    BY <1>1, <1>2 DEF Calm, View
  <2> QED
    BY <2>1, <2>2, StepEnd
<1>6. Can(v2, <<s3>>, t)
  <2>1. Begun(<<s3>>, s3) /\ Tail(<<s3>>) = <<>>
    BY Steps1
  <2>2. Can(v3, Tail(<<s3>>), t)
    BY <1>5, <2>1
  <2>3. Writable("READY", status, "Investigate")
    BY <1>1, <1>2 DEF Writable, Young
  <2> QED
    BY <2>1, <2>2, <2>3, StepWrite
<1>7. Can(v1, <<s2, s3>>, t)
  <2>1. Begun(<<s2, s3>>, s2) /\ Tail(<<s2, s3>>) = <<s3>>
    BY Steps2
  <2>2. Can(v2, Tail(<<s2, s3>>), t)
    BY <1>6, <2>1
  <2>3. "Investigate" \in Places /\ Nobody \in Persons /\ (Nobody # Nobody => h \in {Nobody, Nobody})
    BY <1>1, <1>2 DEF Places, TaskNames, Persons
  <2> QED
    BY <2>1, <2>2, <2>3, StepClaim
<1>8. Can(v0, <<s1, s2, s3>>, t)
  <2>1. Begun(<<s1, s2, s3>>, s1) /\ Tail(<<s1, s2, s3>>) = <<s2, s3>>
    BY Steps3
  <2> QED
    BY <1>1, <1>2, <1>7, <2>1, StepSet DEF TaskNames
<1> QED
  BY <1>3, <1>4, <1>8

LEMMA PlanUnassignSAR ==
    ASSUME NEW a, NEW h, NEW t, Opens(a, h, t),
           Unassign("SAR")
    PROVE  Can(Now(a, h), script', t)
<1>1. a = "SAR" /\ owner \in Persons /\ status = "CLOSED"
  BY AtWork DEF Unassign
<1>2. PICK w \in Persons : desk = Desk("SAR", w) /\ h \in {Nobody, w}
  BY AtWork DEF Unassign
<1> DEFINE s1 == Await(Claim("SAR", Nobody))
           s2 == Write("CLOSED", owner, Desk("SAR", Nobody))
           v0 == View("CLOSED", owner, Desk("SAR", w), "SAR", h, "nothing")
           v1 == View("CLOSED", owner, Desk("SAR", w), "SAR", Nobody, "nothing")
           v2 == View("CLOSED", owner, Desk("SAR", Nobody), "SAR", Nobody, "nothing")
<1>3. Now(a, h) = v0
  BY <1>1, <1>2, NowFields DEF Now
<1>4. script' = <<s1, s2>>
  BY <1>1, <1>2, ScriptOf, DeskMoves DEF Unassign, Runs, TaskNames, Unclaim
<1>5. Can(v2, <<>>, t)
  <2>1. Rest(v2)
    BY <1>1, <1>2 DEF Rest, RestFiling, View, Persons
  <2>2. t => Calm(v2)
    BY <1>1, <1>2 DEF Calm, View
  <2> QED
    BY <2>1, <2>2, StepEnd
<1>6. Can(v1, <<s2>>, t)
  <2>1. Begun(<<s2>>, s2) /\ Tail(<<s2>>) = <<>>
    BY Steps1
  <2>2. Can(v2, Tail(<<s2>>), t)
    BY <1>5, <2>1
  <2>3. Writable("CLOSED", "CLOSED", "SAR")
    BY <1>1, <1>2 DEF Writable, Young
  <2> QED
    BY <2>1, <2>2, <2>3, StepWrite
<1>7. Can(v0, <<s1, s2>>, t)
  <2>1. Begun(<<s1, s2>>, s1) /\ Tail(<<s1, s2>>) = <<s2>>
    BY Steps2
  <2>2. Can(v1, Tail(<<s1, s2>>), t)
    BY <1>6, <2>1
  <2>3. "SAR" \in Places /\ Nobody \in Persons /\ (Nobody # Nobody => h \in {Nobody, Nobody})
    BY <1>1, <1>2 DEF Places, TaskNames, Persons
  <2> QED
    BY <2>1, <2>2, <2>3, StepClaim
<1> QED
  BY <1>3, <1>4, <1>7

LEMMA PlanBeginInvestigate ==
    ASSUME NEW a, NEW h, NEW t, Opens(a, h, t), NEW u \in Users,
           Begin("Investigate", u)
    PROVE  Can(Now(a, h), script', t)
<1>1. a = "Investigate" /\ owner \in Persons /\ h \in {Nobody, u}
  BY AtWork DEF Begin
<1>2. desk = Desk("Investigate", u)
  BY AtWork DEF Begin
<1> DEFINE s1 == Retry(Claim("Investigate", u))
           s2 == Write("IN_PROGRESS", u, Desk("Investigate", u))
           v0 == View(status, owner, Desk("Investigate", u), "Investigate", h, "nothing")
           v1 == View(status, owner, Desk("Investigate", u), "Investigate", u, "nothing")
           v2 == View("IN_PROGRESS", u, Desk("Investigate", u), "Investigate", u, "nothing")
<1>3. Now(a, h) = v0
  BY <1>1, <1>2, NowFields DEF Now
<1>4. script' = <<s1, s2>>
  BY <1>1, <1>2, ScriptOf, DeskMoves DEF Begin, Runs, TaskNames, Unclaim
<1>5. Can(v2, <<>>, t)
  <2>1. Rest(v2)
    BY <1>1, <1>2 DEF Rest, RestWorking, View, Persons
  <2>2. t => Calm(v2)
    BY <1>1, <1>2 DEF Calm, View
  <2> QED
    BY <2>1, <2>2, StepEnd
<1>6. Can(v1, <<s2>>, t)
  <2>1. Begun(<<s2>>, s2) /\ Tail(<<s2>>) = <<>>
    BY Steps1
  <2>2. Can(v2, Tail(<<s2>>), t)
    BY <1>5, <2>1
  <2>3. Writable("IN_PROGRESS", status, "Investigate")
    BY <1>1, <1>2 DEF Writable, Young
  <2> QED
    BY <2>1, <2>2, <2>3, StepWrite
<1>7. Can(v0, <<s1, s2>>, t)
  <2>1. Begun(<<s1, s2>>, s1) /\ Tail(<<s1, s2>>) = <<s2>>
    BY Steps2
  <2>2. Can(v1, Tail(<<s1, s2>>), t)
    BY <1>6, <2>1
  <2>3. "Investigate" \in Places /\ u \in Persons /\ (u # Nobody => h \in {Nobody, u})
    BY <1>1, <1>2 DEF Places, TaskNames, Persons
  <2> QED
    BY <2>1, <2>2, <2>3, StepClaim
<1> QED
  BY <1>3, <1>4, <1>7

LEMMA PlanBeginSAR ==
    ASSUME NEW a, NEW h, NEW t, Opens(a, h, t), NEW u \in Users,
           Begin("SAR", u)
    PROVE  Can(Now(a, h), script', t)
<1>1. a = "SAR" /\ owner \in Persons /\ h \in {Nobody, u} /\ status = "CLOSED"
  BY AtWork DEF Begin
<1>2. desk = Desk("SAR", u)
  BY AtWork DEF Begin
<1> DEFINE s1 == Retry(Claim("SAR", u))
           s2 == Write("CLOSED", owner, Desk("SAR", u))
           v0 == View("CLOSED", owner, Desk("SAR", u), "SAR", h, "nothing")
           v1 == View("CLOSED", owner, Desk("SAR", u), "SAR", u, "nothing")
           v2 == View("CLOSED", owner, Desk("SAR", u), "SAR", u, "nothing")
<1>3. Now(a, h) = v0
  BY <1>1, <1>2, NowFields DEF Now
<1>4. script' = <<s1, s2>>
  BY <1>1, <1>2, ScriptOf, DeskMoves DEF Begin, Runs, TaskNames, Unclaim
<1>5. Can(v2, <<>>, t)
  <2>1. Rest(v2)
    BY <1>1, <1>2 DEF Rest, RestFiling, View, Persons
  <2>2. t => Calm(v2)
    BY <1>1, <1>2 DEF Calm, View
  <2> QED
    BY <2>1, <2>2, StepEnd
<1>6. Can(v1, <<s2>>, t)
  <2>1. Begun(<<s2>>, s2) /\ Tail(<<s2>>) = <<>>
    BY Steps1
  <2>2. Can(v2, Tail(<<s2>>), t)
    BY <1>5, <2>1
  <2>3. Writable("CLOSED", "CLOSED", "SAR")
    BY <1>1, <1>2 DEF Writable, Young
  <2> QED
    BY <2>1, <2>2, <2>3, StepWrite
<1>7. Can(v0, <<s1, s2>>, t)
  <2>1. Begun(<<s1, s2>>, s1) /\ Tail(<<s1, s2>>) = <<s2>>
    BY Steps2
  <2>2. Can(v1, Tail(<<s1, s2>>), t)
    BY <1>6, <2>1
  <2>3. "SAR" \in Places /\ u \in Persons /\ (u # Nobody => h \in {Nobody, u})
    BY <1>1, <1>2 DEF Places, TaskNames, Persons
  <2> QED
    BY <2>1, <2>2, <2>3, StepClaim
<1> QED
  BY <1>3, <1>4, <1>7

LEMMA PlanFinishInvestigation ==
    ASSUME NEW a, NEW h, NEW t, Opens(a, h, t), NEW u \in Users,
           FinishInvestigation(u)
    PROVE  Can(Now(a, h), script', t)
<1>1. status = "IN_PROGRESS" /\ a = "Investigate" /\ h \in {Nobody, owner}
  BY AtRest DEF FinishInvestigation
<1>2. owner = u /\ desk = Desk("Investigate", u)
  BY AtRest, DeskMoves, MirrorAssumption, ProcessAssumption DEF FinishInvestigation, TaskNames
<1> DEFINE s1 == Retry(Claim("Investigate", u))
           s2 == Write("IN_PROGRESS", u, NoDesk)
           v0 == View("IN_PROGRESS", u, Desk("Investigate", u), "Investigate", h, "nothing")
           v1 == View("IN_PROGRESS", u, Desk("Investigate", u), "Investigate", u, "nothing")
           v2 == View("IN_PROGRESS", u, NoDesk, "Investigate", u, "nothing")
<1>3. Now(a, h) = v0
  BY <1>1, <1>2, NowFields DEF Now
<1>4. script' = <<s1, s2>>
  BY <1>1, <1>2, ScriptOf, DeskMoves DEF FinishInvestigation, Runs, TaskNames
<1>5. Can(v2, <<>>, t)
  <2>1. Rest(v2)
    BY <1>1, <1>2 DEF Rest, RestWorking, View, Persons
  <2>2. t => Calm(v2)
    BY <1>1, <1>2 DEF Calm, View
  <2> QED
    BY <2>1, <2>2, StepEnd
<1>6. Can(v1, <<s2>>, t)
  <2>1. Begun(<<s2>>, s2) /\ Tail(<<s2>>) = <<>>
    BY Steps1
  <2>2. Can(v2, Tail(<<s2>>), t)
    BY <1>5, <2>1
  <2>3. Writable("IN_PROGRESS", "IN_PROGRESS", "Investigate")
    BY <1>1, <1>2 DEF Writable, Young
  <2> QED
    BY <2>1, <2>2, <2>3, StepWrite
<1>7. Can(v0, <<s1, s2>>, t)
  <2>1. Begun(<<s1, s2>>, s1) /\ Tail(<<s1, s2>>) = <<s2>>
    BY Steps2
  <2>2. Can(v1, Tail(<<s1, s2>>), t)
    BY <1>6, <2>1
  <2>3. "Investigate" \in Places /\ u \in Persons /\ (u # Nobody => h \in {Nobody, u})
    BY <1>1, <1>2 DEF Places, TaskNames, Persons
  <2> QED
    BY <2>1, <2>2, <2>3, StepClaim
<1> QED
  BY <1>3, <1>4, <1>7

LEMMA AtFiling ==
    ASSUME NEW a, NEW h, NEW t, Opens(a, h, t), desk["SAR"] \in Users
    PROVE  /\ status = "CLOSED" /\ a = "SAR" /\ owner \in Persons
           /\ \E w \in Persons : desk = Desk("SAR", w) /\ h \in {Nobody, w}
<1>1. desk["SAR"] # "none"
  BY MirrorAssumption
<1>2. /\ NoDesk["SAR"] = "none"
      /\ \A m, u : m \in TaskNames /\ m # "SAR" => Desk(m, u)["SAR"] = "none"
  BY DeskMoves DEF TaskNames
<1>3. \/ status = "CLOSED" /\ a = "SAR" /\ \E w \in Persons : desk = Desk("SAR", w) /\ h \in {Nobody, w}
      \/ desk = NoDesk
      \/ \E m \in TaskNames \ {"SAR"} : \E u : desk = Desk(m, u)
  BY AtRest DEF TaskNames
<1> QED
  BY <1>1, <1>2, <1>3, AtRest

LEMMA PlanFileSAR ==
    ASSUME NEW a, NEW h, NEW t, Opens(a, h, t),
           FileSAR
    PROVE  Can(Now(a, h), script', t)
<1>1. status = "CLOSED" /\ a = "SAR" /\ owner \in Persons
  BY AtFiling DEF FileSAR
<1>2. PICK w \in Persons : desk = Desk("SAR", w) /\ h \in {Nobody, w}
  BY AtFiling DEF FileSAR
<1> DEFINE s1 == Write("CLOSED", owner, NoDesk)
           s2 == Try(Finish("SAR", "complete", "NONE"))
           v0 == View("CLOSED", owner, Desk("SAR", w), "SAR", h, "nothing")
           v1 == View("CLOSED", owner, NoDesk, "SAR", h, "nothing")
           v2 == View("CLOSED", owner, NoDesk, "ended", Nobody, "nothing")
<1>3. Now(a, h) = v0
  BY <1>1, <1>2, NowFields DEF Now
<1>4. script' = <<s1, s2>>
  BY <1>1, <1>2, ScriptOf, DeskMoves DEF FileSAR, Runs, TaskNames
<1>5. Can(v2, <<>>, t)
  <2>1. Rest(v2)
    BY <1>1, <1>2 DEF Rest, RestClosed, View, Persons
  <2>2. t => Calm(v2)
    BY <1>1, <1>2 DEF Calm, View
  <2> QED
    BY <2>1, <2>2, StepEnd
<1>6. Can(v1, <<s2>>, t)
  <2>1. Begun(<<s2>>, s2) /\ Tail(<<s2>>) = <<>>
    BY Steps1
  <2>2. Can(v2, Tail(<<s2>>), t)
    BY <1>5, <2>1
  <2>3. Flow(Finish("SAR", "complete", "NONE"), "ended")
    BY <1>1, <1>2, Targets DEF Flow, Finish, Places, Nodes, TaskNames
  <2> QED
    BY <2>1, <2>2, <2>3, StepFinish
<1>7. Can(v0, <<s1, s2>>, t)
  <2>1. Begun(<<s1, s2>>, s1) /\ Tail(<<s1, s2>>) = <<s2>>
    BY Steps2
  <2>2. Can(v1, Tail(<<s1, s2>>), t)
    BY <1>6, <2>1
  <2>3. Writable("CLOSED", "CLOSED", "SAR")
    BY <1>1, <1>2 DEF Writable, Young
  <2> QED
    BY <2>1, <2>2, <2>3, StepWrite
<1> QED
  BY <1>3, <1>4, <1>7

LEMMA PlanSuspend ==
    ASSUME NEW a, NEW h, NEW t, Opens(a, h, t), NEW u \in Users,
           Suspend(u), t => odd' = {}
    PROVE  Can(Now(a, h), script', t)
<1>1. status = "IN_PROGRESS" /\ a = "Investigate" /\ owner \in Users /\ h \in {Nobody, owner}
  BY AtRest DEF Suspend
<1>2. desk = Desk("Investigate", owner) /\ desk["Investigate"] = owner
  BY AtRest, DeskMoves, MirrorAssumption, ProcessAssumption DEF Suspend, TaskNames
<1>3. t => u = owner
  BY <1>2 DEF Suspend, Begins
<1> DEFINE s1 == Write("SUSPENDED", owner, Desk("Investigate", owner))
           s2 == Retry(Claim("Investigate", owner))
           s3 == Write("SUSPENDED", owner, Desk("Investigate", u))
           s4 == Send(SetStatus)
           v0 == View("IN_PROGRESS", owner, Desk("Investigate", owner), "Investigate", h, "nothing")
           v1 == View("SUSPENDED", owner, Desk("Investigate", owner), "Investigate", h, "nothing")
           v2 == View("SUSPENDED", owner, Desk("Investigate", owner), "Investigate", owner, "nothing")
           v3 == View("SUSPENDED", owner, Desk("Investigate", u), "Investigate", owner, "nothing")
           v4 == View("SUSPENDED", owner, Desk("Investigate", u), "Investigate", owner, "set")
<1>4. Now(a, h) = v0
  BY <1>1, <1>2, <1>3, NowFields DEF Now
<1>5. script' = <<s1, s2, s3, s4>>
  BY <1>1, <1>2, <1>3, ScriptOf, DeskMoves DEF Suspend, Runs, TaskNames
<1>6. Can(v4, <<>>, t)
  <2>1. Rest(v4)
    BY <1>1, <1>2, <1>3 DEF Rest, RestSuspended, View, Persons
  <2>2. t => Calm(v4)
    BY <1>1, <1>2, <1>3, DeskMoves DEF Calm, View
  <2> QED
    BY <2>1, <2>2, StepEnd
<1>7. Can(v3, <<s4>>, t)
  <2>1. Begun(<<s4>>, s4) /\ Tail(<<s4>>) = <<>>
    BY Steps1
  <2> QED
    BY <1>1, <1>2, <1>3, <1>6, <2>1, StepSendSet DEF TaskNames
<1>8. Can(v2, <<s3, s4>>, t)
  <2>1. Begun(<<s3, s4>>, s3) /\ Tail(<<s3, s4>>) = <<s4>>
    BY Steps2
  <2>2. Can(v3, Tail(<<s3, s4>>), t)
    BY <1>7, <2>1
  <2>3. Writable("SUSPENDED", "SUSPENDED", "Investigate")
    BY <1>1, <1>2, <1>3 DEF Writable, Young
  <2> QED
    BY <2>1, <2>2, <2>3, StepWrite
<1>9. Can(v1, <<s2, s3, s4>>, t)
  <2>1. Begun(<<s2, s3, s4>>, s2) /\ Tail(<<s2, s3, s4>>) = <<s3, s4>>
    BY Steps3
  <2>2. Can(v2, Tail(<<s2, s3, s4>>), t)
    BY <1>8, <2>1
  <2>3. "Investigate" \in Places /\ owner \in Persons /\ (owner # Nobody => h \in {Nobody, owner})
    BY <1>1, <1>2, <1>3 DEF Places, TaskNames, Persons
  <2> QED
    BY <2>1, <2>2, <2>3, StepClaim
<1>10. Can(v0, <<s1, s2, s3, s4>>, t)
  <2>1. Begun(<<s1, s2, s3, s4>>, s1) /\ Tail(<<s1, s2, s3, s4>>) = <<s2, s3, s4>>
    BY Steps4
  <2>2. Can(v1, Tail(<<s1, s2, s3, s4>>), t)
    BY <1>9, <2>1
  <2>3. Writable("SUSPENDED", "IN_PROGRESS", "Investigate")
    BY <1>1, <1>2, <1>3 DEF Writable, Young
  <2> QED
    BY <2>1, <2>2, <2>3, StepWrite
<1> QED
  BY <1>4, <1>5, <1>10

LEMMA PlanResumeOwn ==
    ASSUME NEW a, NEW h, NEW t, Opens(a, h, t),
           Resume, desk["Investigate"] = owner
    PROVE  Can(Now(a, h), script', t)
<1>1. status = "SUSPENDED" /\ a = "Investigate" /\ owner \in Users /\ h = owner
  BY AtRest DEF Resume
<1>2. desk = Desk("Investigate", owner)
  BY AtRest, DeskMoves DEF Resume, TaskNames
<1> DEFINE s1 == Send(SetStatus)
           s2 == Write("IN_PROGRESS", owner, Desk("Investigate", owner))
           s3 == Retry(Claim("Investigate", owner))
           s4 == Write("IN_PROGRESS", owner, Desk("Investigate", owner))
           v0 == View("SUSPENDED", owner, Desk("Investigate", owner), "Investigate", owner, "nothing")
           v1 == View("SUSPENDED", owner, Desk("Investigate", owner), "Investigate", owner, "set")
           v2 == View("IN_PROGRESS", owner, Desk("Investigate", owner), "Investigate", owner, "set")
           v3 == View("IN_PROGRESS", owner, Desk("Investigate", owner), "Investigate", owner, "set")
           v4 == View("IN_PROGRESS", owner, Desk("Investigate", owner), "Investigate", owner, "set")
<1>3. Now(a, h) = v0
  BY <1>1, <1>2, NowFields DEF Now
<1>4. script' = <<s1, s2, s3, s4>>
  BY <1>1, <1>2, ScriptOf, DeskMoves DEF Resume, Runs, TaskNames
<1>5. Can(v4, <<>>, t)
  <2>1. Rest(v4)
    BY <1>1, <1>2 DEF Rest, RestWorking, View, Persons
  <2>2. t => Calm(v4)
    BY <1>1, <1>2 DEF Calm, View
  <2> QED
    BY <2>1, <2>2, StepEnd
<1>6. Can(v3, <<s4>>, t)
  <2>1. Begun(<<s4>>, s4) /\ Tail(<<s4>>) = <<>>
    BY Steps1
  <2>2. Can(v4, Tail(<<s4>>), t)
    BY <1>5, <2>1
  <2>3. Writable("IN_PROGRESS", "IN_PROGRESS", "Investigate")
    BY <1>1, <1>2 DEF Writable, Young
  <2> QED
    BY <2>1, <2>2, <2>3, StepWrite
<1>7. Can(v2, <<s3, s4>>, t)
  <2>1. Begun(<<s3, s4>>, s3) /\ Tail(<<s3, s4>>) = <<s4>>
    BY Steps2
  <2>2. Can(v3, Tail(<<s3, s4>>), t)
    BY <1>6, <2>1
  <2>3. "Investigate" \in Places /\ owner \in Persons /\ (owner # Nobody => owner \in {Nobody, owner})
    BY <1>1, <1>2 DEF Places, TaskNames, Persons
  <2> QED
    BY <2>1, <2>2, <2>3, StepClaim
<1>8. Can(v1, <<s2, s3, s4>>, t)
  <2>1. Begun(<<s2, s3, s4>>, s2) /\ Tail(<<s2, s3, s4>>) = <<s3, s4>>
    BY Steps3
  <2>2. Can(v2, Tail(<<s2, s3, s4>>), t)
    BY <1>7, <2>1
  <2>3. Writable("IN_PROGRESS", "SUSPENDED", "Investigate")
    BY <1>1, <1>2 DEF Writable, Young
  <2> QED
    BY <2>1, <2>2, <2>3, StepWrite
<1>9. Can(v0, <<s1, s2, s3, s4>>, t)
  <2>1. Begun(<<s1, s2, s3, s4>>, s1) /\ Tail(<<s1, s2, s3, s4>>) = <<s2, s3, s4>>
    BY Steps4
  <2> QED
    BY <1>1, <1>2, <1>8, <2>1, StepSendSet DEF TaskNames
<1> QED
  BY <1>3, <1>4, <1>9

LEMMA PlanResumeOther ==
    ASSUME NEW a, NEW h, NEW t, Opens(a, h, t),
           Resume, desk["Investigate"] # owner
    PROVE  Can(Now(a, h), script', t)
<1>1. status = "SUSPENDED" /\ a = "Investigate" /\ owner \in Users /\ h = owner
  BY AtRest DEF Resume
<1>2. PICK w \in Users : desk = Desk("Investigate", w)
  BY AtRest DEF Resume
<1>3. desk["Investigate"] = w
  BY <1>2, DeskMoves DEF TaskNames
<1>4. ~t /\ w # owner /\ owner # Nobody /\ w # Nobody
  BY <1>1, <1>3, MirrorAssumption, ProcessAssumption, NowFields DEF Opens, Stays, Calm
<1> DEFINE s1 == Send(SetStatus)
           s2 == Write("IN_PROGRESS", owner, Desk("Investigate", w))
           s3 == Retry(Claim("Investigate", w))
           s4 == Write("IN_PROGRESS", owner, Desk("Investigate", owner))
           v0 == View("SUSPENDED", owner, Desk("Investigate", w), "Investigate", owner, "nothing")
           v1 == View("SUSPENDED", owner, Desk("Investigate", w), "Investigate", owner, "set")
           v2 == View("IN_PROGRESS", owner, Desk("Investigate", w), "Investigate", owner, "set")
<1>5. Now(a, h) = v0
  BY <1>1, <1>2, <1>3, <1>4, NowFields DEF Now
<1>6. script' = <<s1, s2, s3, s4>>
  BY <1>1, <1>2, <1>3, <1>4, ScriptOf, DeskMoves DEF Resume, Runs, TaskNames
<1>7. Can(v2, <<s3, s4>>, t)
  <2>1. Begun(<<s3, s4>>, s3)
    BY Steps2
  <2>2. t = FALSE
    BY <1>1, <1>2, <1>3, <1>4 DEF Opens
  <2> QED
    BY <1>1, <1>2, <1>3, <1>4, <2>1, <2>2, StepStuck DEF Places, TaskNames, Persons
<1>8. Can(v1, <<s2, s3, s4>>, t)
  <2>1. Begun(<<s2, s3, s4>>, s2) /\ Tail(<<s2, s3, s4>>) = <<s3, s4>>
    BY Steps3
  <2>2. Can(v2, Tail(<<s2, s3, s4>>), t)
    BY <1>7, <2>1
  <2>3. Writable("IN_PROGRESS", "SUSPENDED", "Investigate")
    BY <1>1, <1>2, <1>3, <1>4 DEF Writable, Young
  <2> QED
    BY <2>1, <2>2, <2>3, StepWrite
<1>9. Can(v0, <<s1, s2, s3, s4>>, t)
  <2>1. Begun(<<s1, s2, s3, s4>>, s1) /\ Tail(<<s1, s2, s3, s4>>) = <<s2, s3, s4>>
    BY Steps4
  <2> QED
    BY <1>1, <1>2, <1>3, <1>4, <1>8, <2>1, StepSendSet DEF TaskNames
<1> QED
  BY <1>5, <1>6, <1>9

-----------------------------------------------------------------------------
(***************************************************************************)
(* Closing and reopening.                                                  *)
(***************************************************************************)

LEMMA PlanCloseConfirmed ==
    ASSUME NEW a, NEW h, NEW t, Opens(a, h, t), NEW o \in Verdicts,
           CloseDirectly(o), o = "CONFIRMED"
    PROVE  Can(Now(a, h), script', t)
<1>1. status = "IN_PROGRESS" /\ a = "Investigate" /\ owner \in Users /\ h \in {Nobody, owner}
  BY AtRest DEF CloseDirectly, Finished
<1>2. desk = NoDesk
  BY AtRest, DeskMoves, MirrorAssumption, ProcessAssumption DEF CloseDirectly, Finished, TaskNames
<1> DEFINE s1 == Write("CLOSED", owner, NoDesk)
           s2 == Await(Finish("Investigate", "complete", o))
           s3 == Write("CLOSED", owner, Desk("SAR", Nobody))
           v0 == View("IN_PROGRESS", owner, NoDesk, "Investigate", h, "nothing")
           v1 == View("CLOSED", owner, NoDesk, "Investigate", h, "nothing")
           v2 == View("CLOSED", owner, NoDesk, "SAR", Nobody, "nothing")
           v3 == View("CLOSED", owner, Desk("SAR", Nobody), "SAR", Nobody, "nothing")
<1>3. Now(a, h) = v0
  BY <1>1, <1>2, NowFields DEF Now
<1>4. script' = <<s1, s2, s3>>
  BY <1>1, <1>2, ScriptOf, DeskMoves DEF CloseDirectly, Runs, TaskNames, WithSAR
<1>5. Can(v3, <<>>, t)
  <2>1. Rest(v3)
    BY <1>1, <1>2 DEF Rest, RestFiling, View, Persons
  <2>2. t => Calm(v3)
    BY <1>1, <1>2 DEF Calm, View
  <2> QED
    BY <2>1, <2>2, StepEnd
<1>6. Can(v2, <<s3>>, t)
  <2>1. Begun(<<s3>>, s3) /\ Tail(<<s3>>) = <<>>
    BY Steps1
  <2>2. Can(v3, Tail(<<s3>>), t)
    BY <1>5, <2>1
  <2>3. Writable("CLOSED", "CLOSED", "SAR")
    BY <1>1, <1>2 DEF Writable, Young
  <2> QED
    BY <2>1, <2>2, <2>3, StepWrite
<1>7. Can(v1, <<s2, s3>>, t)
  <2>1. Begun(<<s2, s3>>, s2) /\ Tail(<<s2, s3>>) = <<s3>>
    BY Steps2
  <2>2. Can(v2, Tail(<<s2, s3>>), t)
    BY <1>6, <2>1
  <2>3. Flow(Finish("Investigate", "complete", o), "SAR")
    BY <1>1, <1>2, Targets DEF Flow, Finish, Places, Nodes, TaskNames
  <2> QED
    BY <2>1, <2>2, <2>3, StepFinish
<1>8. Can(v0, <<s1, s2, s3>>, t)
  <2>1. Begun(<<s1, s2, s3>>, s1) /\ Tail(<<s1, s2, s3>>) = <<s2, s3>>
    BY Steps3
  <2>2. Can(v1, Tail(<<s1, s2, s3>>), t)
    BY <1>7, <2>1
  <2>3. Writable("CLOSED", "IN_PROGRESS", "Investigate")
    BY <1>1, <1>2 DEF Writable, Young
  <2> QED
    BY <2>1, <2>2, <2>3, StepWrite
<1> QED
  BY <1>3, <1>4, <1>8

LEMMA PlanCloseRefuted ==
    ASSUME NEW a, NEW h, NEW t, Opens(a, h, t), NEW o \in Verdicts,
           CloseDirectly(o), o # "CONFIRMED"
    PROVE  Can(Now(a, h), script', t)
<1>1. status = "IN_PROGRESS" /\ a = "Investigate" /\ owner \in Users /\ h \in {Nobody, owner}
  BY AtRest DEF CloseDirectly, Finished
<1>2. desk = NoDesk
  BY AtRest, DeskMoves, MirrorAssumption, ProcessAssumption DEF CloseDirectly, Finished, TaskNames
<1> DEFINE s1 == Write("CLOSED", owner, NoDesk)
           s2 == Await(Finish("Investigate", "complete", o))
           s3 == Write("CLOSED", owner, NoDesk)
           v0 == View("IN_PROGRESS", owner, NoDesk, "Investigate", h, "nothing")
           v1 == View("CLOSED", owner, NoDesk, "Investigate", h, "nothing")
           v2 == View("CLOSED", owner, NoDesk, "ended", Nobody, "nothing")
           v3 == View("CLOSED", owner, NoDesk, "ended", Nobody, "nothing")
<1>3. Now(a, h) = v0
  BY <1>1, <1>2, NowFields DEF Now
<1>4. script' = <<s1, s2, s3>>
  BY <1>1, <1>2, ScriptOf, DeskMoves DEF CloseDirectly, Runs, TaskNames, WithSAR
<1>5. Can(v3, <<>>, t)
  <2>1. Rest(v3)
    BY <1>1, <1>2 DEF Rest, RestClosed, View, Persons
  <2>2. t => Calm(v3)
    BY <1>1, <1>2 DEF Calm, View
  <2> QED
    BY <2>1, <2>2, StepEnd
<1>6. Can(v2, <<s3>>, t)
  <2>1. Begun(<<s3>>, s3) /\ Tail(<<s3>>) = <<>>
    BY Steps1
  <2>2. Can(v3, Tail(<<s3>>), t)
    BY <1>5, <2>1
  <2>3. Writable("CLOSED", "CLOSED", "ended")
    BY <1>1, <1>2 DEF Writable, Young
  <2> QED
    BY <2>1, <2>2, <2>3, StepWrite
<1>7. Can(v1, <<s2, s3>>, t)
  <2>1. Begun(<<s2, s3>>, s2) /\ Tail(<<s2, s3>>) = <<s3>>
    BY Steps2
  <2>2. Can(v2, Tail(<<s2, s3>>), t)
    BY <1>6, <2>1
  <2>3. Flow(Finish("Investigate", "complete", o), "ended")
    BY <1>1, <1>2, Targets DEF Flow, Finish, Places, Nodes, TaskNames
  <2> QED
    BY <2>1, <2>2, <2>3, StepFinish
<1>8. Can(v0, <<s1, s2, s3>>, t)
  <2>1. Begun(<<s1, s2, s3>>, s1) /\ Tail(<<s1, s2, s3>>) = <<s2, s3>>
    BY Steps3
  <2>2. Can(v1, Tail(<<s1, s2, s3>>), t)
    BY <1>7, <2>1
  <2>3. Writable("CLOSED", "IN_PROGRESS", "Investigate")
    BY <1>1, <1>2 DEF Writable, Young
  <2> QED
    BY <2>1, <2>2, <2>3, StepWrite
<1> QED
  BY <1>3, <1>4, <1>8

LEMMA PlanSubmitClosure ==
    ASSUME NEW a, NEW h, NEW t, Opens(a, h, t), NEW o \in Verdicts,
           SubmitClosure(o)
    PROVE  Can(Now(a, h), script', t)
<1>1. status = "IN_PROGRESS" /\ a = "Investigate" /\ owner \in Users /\ h \in {Nobody, owner}
  BY AtRest DEF SubmitClosure, Finished
<1>2. desk = NoDesk
  BY AtRest, DeskMoves, MirrorAssumption, ProcessAssumption DEF SubmitClosure, Finished, TaskNames
<1> DEFINE s1 == Write("IN_PROGRESS", owner, Desk("ApproveClosure", Nobody))
           s2 == Write("PENDING_CLOSURE", owner, Desk("ApproveClosure", Nobody))
           s3 == Await(Finish("Investigate", "requestClosure", o))
           s4 == Await(SetStatus)
           v0 == View("IN_PROGRESS", owner, NoDesk, "Investigate", h, "nothing")
           v1 == View("IN_PROGRESS", owner, Desk("ApproveClosure", Nobody), "Investigate", h, "nothing")
           v2 == View("PENDING_CLOSURE", owner, Desk("ApproveClosure", Nobody),
                      "Investigate", h, "nothing")
           v3 == View("PENDING_CLOSURE", owner, Desk("ApproveClosure", Nobody),
                      "ApproveClosure", Nobody, "nothing")
           v4 == View("PENDING_CLOSURE", owner, Desk("ApproveClosure", Nobody),
                      "ApproveClosure", Nobody, "nothing")
<1>3. Now(a, h) = v0
  BY <1>1, <1>2, NowFields DEF Now
<1>4. script' = <<s1, s2, s3, s4>>
  BY <1>1, <1>2, ScriptOf, DeskMoves DEF SubmitClosure, Runs, TaskNames
<1>5. Can(v4, <<>>, t)
  <2>1. Rest(v4)
    BY <1>1, <1>2 DEF Rest, RestClosing, View, Persons
  <2>2. t => Calm(v4)
    BY <1>1, <1>2 DEF Calm, View
  <2> QED
    BY <2>1, <2>2, StepEnd
<1>6. Can(v3, <<s4>>, t)
  <2>1. Begun(<<s4>>, s4) /\ Tail(<<s4>>) = <<>>
    BY Steps1
  <2> QED
    BY <1>1, <1>2, <1>5, <2>1, StepSet DEF TaskNames
<1>7. Can(v2, <<s3, s4>>, t)
  <2>1. Begun(<<s3, s4>>, s3) /\ Tail(<<s3, s4>>) = <<s4>>
    BY Steps2
  <2>2. Can(v3, Tail(<<s3, s4>>), t)
    BY <1>6, <2>1
  <2>3. Flow(Finish("Investigate", "requestClosure", o), "ApproveClosure")
    BY <1>1, <1>2, Targets DEF Flow, Finish, Places, Nodes, TaskNames
  <2> QED
    BY <2>1, <2>2, <2>3, StepFinish
<1>8. Can(v1, <<s2, s3, s4>>, t)
  <2>1. Begun(<<s2, s3, s4>>, s2) /\ Tail(<<s2, s3, s4>>) = <<s3, s4>>
    BY Steps3
  <2>2. Can(v2, Tail(<<s2, s3, s4>>), t)
    BY <1>7, <2>1
  <2>3. Writable("PENDING_CLOSURE", "IN_PROGRESS", "Investigate")
    BY <1>1, <1>2 DEF Writable, Young
  <2> QED
    BY <2>1, <2>2, <2>3, StepWrite
<1>9. Can(v0, <<s1, s2, s3, s4>>, t)
  <2>1. Begun(<<s1, s2, s3, s4>>, s1) /\ Tail(<<s1, s2, s3, s4>>) = <<s2, s3, s4>>
    BY Steps4
  <2>2. Can(v1, Tail(<<s1, s2, s3, s4>>), t)
    BY <1>8, <2>1
  <2>3. Writable("IN_PROGRESS", "IN_PROGRESS", "Investigate")
    BY <1>1, <1>2 DEF Writable, Young
  <2> QED
    BY <2>1, <2>2, <2>3, StepWrite
<1> QED
  BY <1>3, <1>4, <1>9

LEMMA PlanApproveConfirmed ==
    ASSUME NEW a, NEW h, NEW t, Opens(a, h, t), NEW o \in Verdicts,
           ApproveClosure(o), o = "CONFIRMED"
    PROVE  Can(Now(a, h), script', t)
<1>1. /\ status = "PENDING_CLOSURE" /\ owner \in Persons /\ owner \in Users /\ a = "ApproveClosure"
      /\ h = Nobody /\ desk = Desk("ApproveClosure", Nobody)
  BY AtRest DEF ApproveClosure
<1> DEFINE s1 == Write("CLOSED", owner, NoDesk)
           s2 == Send(Finish("ApproveClosure", "approve", o))
           s3 == Write("CLOSED", owner, Desk("SAR", Nobody))
           v0 == View("PENDING_CLOSURE", owner, Desk("ApproveClosure", Nobody),
                      "ApproveClosure", Nobody, "nothing")
           v1 == View("CLOSED", owner, NoDesk, "ApproveClosure", Nobody, "nothing")
           v2 == View("CLOSED", owner, NoDesk, "SAR", Nobody, "other")
           v3 == View("CLOSED", owner, Desk("SAR", Nobody), "SAR", Nobody, "other")
<1>2. Now(a, h) = v0
  BY <1>1, NowFields DEF Now
<1>3. script' = <<s1, s2, s3>>
  BY <1>1, ScriptOf, DeskMoves DEF ApproveClosure, Runs, TaskNames, WithSAR
<1>4. Can(v3, <<>>, t)
  <2>1. Rest(v3)
    BY <1>1 DEF Rest, RestFiling, View, Persons
  <2>2. t => Calm(v3)
    BY <1>1 DEF Calm, View
  <2> QED
    BY <2>1, <2>2, StepEnd
<1>5. Can(v2, <<s3>>, t)
  <2>1. Begun(<<s3>>, s3) /\ Tail(<<s3>>) = <<>>
    BY Steps1
  <2>2. Can(v3, Tail(<<s3>>), t)
    BY <1>4, <2>1
  <2>3. Writable("CLOSED", "CLOSED", "SAR")
    BY <1>1 DEF Writable, Young
  <2> QED
    BY <2>1, <2>2, <2>3, StepWrite
<1>6. Can(v1, <<s2, s3>>, t)
  <2>1. Begun(<<s2, s3>>, s2) /\ Tail(<<s2, s3>>) = <<s3>>
    BY Steps2
  <2>2. Can(v2, Tail(<<s2, s3>>), t)
    BY <1>5, <2>1
  <2>3. /\ "SAR" = Target(Finish("ApproveClosure", "approve", o))
        /\ "SAR" \in {"Investigate", "SAR", "ended"}
    BY <1>1, Targets
  <2>4. Finish("ApproveClosure", "approve", o) \in Answers
    BY <2>3 DEF Answers
  <2> QED
    BY <2>1, <2>2, <2>3, <2>4, StepSendFinish DEF Young, TaskNames
<1>7. Can(v0, <<s1, s2, s3>>, t)
  <2>1. Begun(<<s1, s2, s3>>, s1) /\ Tail(<<s1, s2, s3>>) = <<s2, s3>>
    BY Steps3
  <2>2. Can(v1, Tail(<<s1, s2, s3>>), t)
    BY <1>6, <2>1
  <2>3. Writable("CLOSED", "PENDING_CLOSURE", "ApproveClosure")
    BY <1>1 DEF Writable, Young
  <2> QED
    BY <2>1, <2>2, <2>3, StepWrite
<1> QED
  BY <1>2, <1>3, <1>7

LEMMA PlanApproveRefuted ==
    ASSUME NEW a, NEW h, NEW t, Opens(a, h, t), NEW o \in Verdicts,
           ApproveClosure(o), o # "CONFIRMED"
    PROVE  Can(Now(a, h), script', t)
<1>1. /\ status = "PENDING_CLOSURE" /\ owner \in Persons /\ owner \in Users /\ a = "ApproveClosure"
      /\ h = Nobody /\ desk = Desk("ApproveClosure", Nobody)
  BY AtRest DEF ApproveClosure
<1> DEFINE s1 == Write("CLOSED", owner, NoDesk)
           s2 == Send(Finish("ApproveClosure", "approve", o))
           s3 == Write("CLOSED", owner, NoDesk)
           v0 == View("PENDING_CLOSURE", owner, Desk("ApproveClosure", Nobody),
                      "ApproveClosure", Nobody, "nothing")
           v1 == View("CLOSED", owner, NoDesk, "ApproveClosure", Nobody, "nothing")
           v2 == View("CLOSED", owner, NoDesk, "ended", Nobody, "other")
           v3 == View("CLOSED", owner, NoDesk, "ended", Nobody, "other")
<1>2. Now(a, h) = v0
  BY <1>1, NowFields DEF Now
<1>3. script' = <<s1, s2, s3>>
  BY <1>1, ScriptOf, DeskMoves DEF ApproveClosure, Runs, TaskNames, WithSAR
<1>4. Can(v3, <<>>, t)
  <2>1. Rest(v3)
    BY <1>1 DEF Rest, RestClosed, View, Persons
  <2>2. t => Calm(v3)
    BY <1>1 DEF Calm, View
  <2> QED
    BY <2>1, <2>2, StepEnd
<1>5. Can(v2, <<s3>>, t)
  <2>1. Begun(<<s3>>, s3) /\ Tail(<<s3>>) = <<>>
    BY Steps1
  <2>2. Can(v3, Tail(<<s3>>), t)
    BY <1>4, <2>1
  <2>3. Writable("CLOSED", "CLOSED", "ended")
    BY <1>1 DEF Writable, Young
  <2> QED
    BY <2>1, <2>2, <2>3, StepWrite
<1>6. Can(v1, <<s2, s3>>, t)
  <2>1. Begun(<<s2, s3>>, s2) /\ Tail(<<s2, s3>>) = <<s3>>
    BY Steps2
  <2>2. Can(v2, Tail(<<s2, s3>>), t)
    BY <1>5, <2>1
  <2>3. /\ "ended" = Target(Finish("ApproveClosure", "approve", o))
        /\ "ended" \in {"Investigate", "SAR", "ended"}
    BY <1>1, Targets
  <2>4. Finish("ApproveClosure", "approve", o) \in Answers
    BY <2>3 DEF Answers
  <2> QED
    BY <2>1, <2>2, <2>3, <2>4, StepSendFinish DEF Young, TaskNames
<1>7. Can(v0, <<s1, s2, s3>>, t)
  <2>1. Begun(<<s1, s2, s3>>, s1) /\ Tail(<<s1, s2, s3>>) = <<s2, s3>>
    BY Steps3
  <2>2. Can(v1, Tail(<<s1, s2, s3>>), t)
    BY <1>6, <2>1
  <2>3. Writable("CLOSED", "PENDING_CLOSURE", "ApproveClosure")
    BY <1>1 DEF Writable, Young
  <2> QED
    BY <2>1, <2>2, <2>3, StepWrite
<1> QED
  BY <1>2, <1>3, <1>7

LEMMA PlanRejectClosure ==
    ASSUME NEW a, NEW h, NEW t, Opens(a, h, t),
           RejectClosure
    PROVE  Can(Now(a, h), script', t)
<1>1. /\ status = "PENDING_CLOSURE" /\ owner \in Persons /\ owner \in Users /\ a = "ApproveClosure"
      /\ h = Nobody /\ desk = Desk("ApproveClosure", Nobody)
  BY AtRest DEF RejectClosure
<1> DEFINE s1 == Write("IN_PROGRESS", owner, Desk("Investigate", owner))
           s2 == Send(SetStatus)
           s3 == Send(Finish("ApproveClosure", "reject", "NONE"))
           v0 == View("PENDING_CLOSURE", owner, Desk("ApproveClosure", Nobody),
                      "ApproveClosure", Nobody, "nothing")
           v1 == View("IN_PROGRESS", owner, Desk("Investigate", owner),
                      "ApproveClosure", Nobody, "nothing")
           v2 == View("IN_PROGRESS", owner, Desk("Investigate", owner), "ApproveClosure", Nobody, "set")
           v3 == View("IN_PROGRESS", owner, Desk("Investigate", owner), "Investigate", Nobody, "other")
<1>2. Now(a, h) = v0
  BY <1>1, NowFields DEF Now
<1>3. script' = <<s1, s2, s3>>
  BY <1>1, ScriptOf, DeskMoves DEF RejectClosure, Runs, TaskNames
<1>4. Can(v3, <<>>, t)
  <2>1. Rest(v3)
    BY <1>1 DEF Rest, RestWorking, View, Persons
  <2>2. t => Calm(v3)
    BY <1>1 DEF Calm, View
  <2> QED
    BY <2>1, <2>2, StepEnd
<1>5. Can(v2, <<s3>>, t)
  <2>1. Begun(<<s3>>, s3) /\ Tail(<<s3>>) = <<>>
    BY Steps1
  <2>2. Can(v3, Tail(<<s3>>), t)
    BY <1>4, <2>1
  <2>3. /\ "Investigate" = Target(Finish("ApproveClosure", "reject", "NONE"))
        /\ "Investigate" \in {"Investigate", "SAR", "ended"}
    BY <1>1, Targets
  <2>4. Finish("ApproveClosure", "reject", "NONE") \in Answers
    BY <2>3 DEF Answers
  <2> QED
    BY <2>1, <2>2, <2>3, <2>4, StepSendFinish DEF Young, TaskNames
<1>6. Can(v1, <<s2, s3>>, t)
  <2>1. Begun(<<s2, s3>>, s2) /\ Tail(<<s2, s3>>) = <<s3>>
    BY Steps2
  <2> QED
    BY <1>1, <1>5, <2>1, StepSendSet DEF TaskNames
<1>7. Can(v0, <<s1, s2, s3>>, t)
  <2>1. Begun(<<s1, s2, s3>>, s1) /\ Tail(<<s1, s2, s3>>) = <<s2, s3>>
    BY Steps3
  <2>2. Can(v1, Tail(<<s1, s2, s3>>), t)
    BY <1>6, <2>1
  <2>3. Writable("IN_PROGRESS", "PENDING_CLOSURE", "ApproveClosure")
    BY <1>1 DEF Writable, Young
  <2> QED
    BY <2>1, <2>2, <2>3, StepWrite
<1> QED
  BY <1>2, <1>3, <1>7

LEMMA AtReopening ==
    ASSUME NEW a, NEW h, NEW t, Opens(a, h, t), Reopenable
    PROVE  /\ status \in {"CLOSED", "AUTO_CONFIRMED"} /\ owner \in Persons /\ desk = NoDesk
           /\ a \in {"ended", "AutoClose"} /\ (t => a = "ended")
<1>1. status \in {"CLOSED", "AUTO_CONFIRMED"} /\ desk["SAR"] = "none"
  BY DEF Reopenable
<1>2. \A u \in Persons : Desk("SAR", u)["SAR"] # "none"
  BY DeskMoves, MirrorAssumption DEF Persons, TaskNames
<1>3. desk = NoDesk /\ (a = "ended" \/ (status = "AUTO_CONFIRMED" /\ a = "AutoClose"))
  BY <1>1, <1>2, AtRest
<1>4. t => status # "AUTO_CONFIRMED"
  BY NowFields DEF Opens, Stays, Calm
<1> QED
  BY <1>1, <1>3, <1>4, AtRest

LEMMA PlanReopenReady ==
    ASSUME NEW a, NEW h, NEW t, Opens(a, h, t), NEW u \in Users,
           Reopen(u), u \in Supervisors
    PROVE  Can(Now(a, h), script', t)
<1>1. /\ status \in {"CLOSED", "AUTO_CONFIRMED"} /\ owner \in Persons /\ desk = NoDesk
      /\ a \in {"ended", "AutoClose"}
  BY AtReopening DEF Reopen
<1>2. t => a = "ended"
  BY AtReopening DEF Reopen
<1> DEFINE s1 == Write("READY", owner, Desk("Investigate", Nobody))
           s2 == Send(Start("Investigate"))
           v0 == View(status, owner, NoDesk, a, h, "nothing")
           v1 == View("READY", owner, Desk("Investigate", Nobody), a, h, "nothing")
           v2 == View("READY", owner, Desk("Investigate", Nobody), "Investigate", Nobody, "other")
<1>3. Now(a, h) = v0
  BY <1>1, <1>2, NowFields DEF Now
<1>4. script' = <<s1, s2>>
  BY <1>1, <1>2, ScriptOf, DeskMoves DEF Reopen, Runs, TaskNames, Entry, Role
<1>5. Can(v2, <<>>, t)
  <2>1. Rest(v2)
    BY <1>1, <1>2 DEF Rest, RestReady, View, Persons
  <2>2. t => Calm(v2)
    BY <1>1, <1>2 DEF Calm, View
  <2> QED
    BY <2>1, <2>2, StepEnd
<1>6. Can(v1, <<s2>>, t)
  <2>1. Begun(<<s2>>, s2) /\ Tail(<<s2>>) = <<>>
    BY Steps1
  <2> QED
    BY <1>1, <1>2, <1>5, <2>1, StepSendStart DEF Places, TaskNames, Young
<1>7. Can(v0, <<s1, s2>>, t)
  <2>1. Begun(<<s1, s2>>, s1) /\ Tail(<<s1, s2>>) = <<s2>>
    BY Steps2
  <2>2. Can(v1, Tail(<<s1, s2>>), t)
    BY <1>6, <2>1
  <2>3. Writable("READY", status, a)
    BY <1>1, <1>2 DEF Writable, Young
  <2> QED
    BY <2>1, <2>2, <2>3, StepWrite
<1> QED
  BY <1>3, <1>4, <1>7

LEMMA PlanReopenPending ==
    ASSUME NEW a, NEW h, NEW t, Opens(a, h, t), NEW u \in Users,
           Reopen(u), u \notin Supervisors
    PROVE  Can(Now(a, h), script', t)
<1>1. /\ status \in {"CLOSED", "AUTO_CONFIRMED"} /\ owner \in Persons /\ desk = NoDesk
      /\ a \in {"ended", "AutoClose"}
  BY AtReopening DEF Reopen
<1>2. t => a = "ended"
  BY AtReopening DEF Reopen
<1> DEFINE s1 == Write("PENDING_REOPENING", owner, Desk("ApproveReopening", Nobody))
           s2 == Send(Start("ApproveReopening"))
           v0 == View(status, owner, NoDesk, a, h, "nothing")
           v1 == View("PENDING_REOPENING", owner, Desk("ApproveReopening", Nobody), a, h, "nothing")
           v2 == View("PENDING_REOPENING", owner, Desk("ApproveReopening", Nobody),
                      "ApproveReopening", Nobody, "other")
<1>3. Now(a, h) = v0
  BY <1>1, <1>2, NowFields DEF Now
<1>4. script' = <<s1, s2>>
  BY <1>1, <1>2, ScriptOf, DeskMoves DEF Reopen, Runs, TaskNames, Entry, Role
<1>5. Can(v2, <<>>, t)
  <2>1. Rest(v2)
    BY <1>1, <1>2 DEF Rest, RestReopening, View, Persons
  <2>2. t => Calm(v2)
    BY <1>1, <1>2 DEF Calm, View
  <2> QED
    BY <2>1, <2>2, StepEnd
<1>6. Can(v1, <<s2>>, t)
  <2>1. Begun(<<s2>>, s2) /\ Tail(<<s2>>) = <<>>
    BY Steps1
  <2> QED
    BY <1>1, <1>2, <1>5, <2>1, StepSendStart DEF Places, TaskNames, Young
<1>7. Can(v0, <<s1, s2>>, t)
  <2>1. Begun(<<s1, s2>>, s1) /\ Tail(<<s1, s2>>) = <<s2>>
    BY Steps2
  <2>2. Can(v1, Tail(<<s1, s2>>), t)
    BY <1>6, <2>1
  <2>3. Writable("PENDING_REOPENING", status, a)
    BY <1>1, <1>2 DEF Writable, Young
  <2> QED
    BY <2>1, <2>2, <2>3, StepWrite
<1> QED
  BY <1>3, <1>4, <1>7

LEMMA PlanApproveReopening ==
    ASSUME NEW a, NEW h, NEW t, Opens(a, h, t),
           ApproveReopening
    PROVE  Can(Now(a, h), script', t)
<1>1. /\ status = "PENDING_REOPENING" /\ owner \in Persons /\ a = "ApproveReopening" /\ h = Nobody
      /\ desk = Desk("ApproveReopening", Nobody)
  BY AtRest DEF ApproveReopening
<1> DEFINE s1 == Write("READY", owner, Desk("Investigate", Nobody))
           s2 == Retry(Finish("ApproveReopening", "approve", "NONE"))
           s3 == Retry(SetStatus)
           v0 == View("PENDING_REOPENING", owner, Desk("ApproveReopening", Nobody),
                      "ApproveReopening", Nobody, "nothing")
           v1 == View("READY", owner, Desk("Investigate", Nobody), "ApproveReopening", Nobody, "nothing")
           v2 == View("READY", owner, Desk("Investigate", Nobody), "Investigate", Nobody, "nothing")
           v3 == View("READY", owner, Desk("Investigate", Nobody), "Investigate", Nobody, "nothing")
<1>2. Now(a, h) = v0
  BY <1>1, NowFields DEF Now
<1>3. script' = <<s1, s2, s3>>
  BY <1>1, ScriptOf, DeskMoves DEF ApproveReopening, Runs, TaskNames
<1>4. Can(v3, <<>>, t)
  <2>1. Rest(v3)
    BY <1>1 DEF Rest, RestReady, View, Persons
  <2>2. t => Calm(v3)
    BY <1>1 DEF Calm, View
  <2> QED
    BY <2>1, <2>2, StepEnd
<1>5. Can(v2, <<s3>>, t)
  <2>1. Begun(<<s3>>, s3) /\ Tail(<<s3>>) = <<>>
    BY Steps1
  <2> QED
    BY <1>1, <1>4, <2>1, StepSet DEF TaskNames
<1>6. Can(v1, <<s2, s3>>, t)
  <2>1. Begun(<<s2, s3>>, s2) /\ Tail(<<s2, s3>>) = <<s3>>
    BY Steps2
  <2>2. Can(v2, Tail(<<s2, s3>>), t)
    BY <1>5, <2>1
  <2>3. Flow(Finish("ApproveReopening", "approve", "NONE"), "Investigate")
    BY <1>1, Targets DEF Flow, Finish, Places, Nodes, TaskNames
  <2> QED
    BY <2>1, <2>2, <2>3, StepFinish
<1>7. Can(v0, <<s1, s2, s3>>, t)
  <2>1. Begun(<<s1, s2, s3>>, s1) /\ Tail(<<s1, s2, s3>>) = <<s2, s3>>
    BY Steps3
  <2>2. Can(v1, Tail(<<s1, s2, s3>>), t)
    BY <1>6, <2>1
  <2>3. Writable("READY", "PENDING_REOPENING", "ApproveReopening")
    BY <1>1 DEF Writable, Young
  <2> QED
    BY <2>1, <2>2, <2>3, StepWrite
<1> QED
  BY <1>2, <1>3, <1>7

LEMMA PlanRejectReopening ==
    ASSUME NEW a, NEW h, NEW t, Opens(a, h, t),
           RejectReopening
    PROVE  Can(Now(a, h), script', t)
<1>1. /\ status = "PENDING_REOPENING" /\ owner \in Persons /\ a = "ApproveReopening" /\ h = Nobody
      /\ desk = Desk("ApproveReopening", Nobody)
  BY AtRest DEF RejectReopening
<1> DEFINE s1 == Write("CLOSED", owner, NoDesk)
           s2 == Await(Finish("ApproveReopening", "reject", "NONE"))
           v0 == View("PENDING_REOPENING", owner, Desk("ApproveReopening", Nobody),
                      "ApproveReopening", Nobody, "nothing")
           v1 == View("CLOSED", owner, NoDesk, "ApproveReopening", Nobody, "nothing")
           v2 == View("CLOSED", owner, NoDesk, "ended", Nobody, "nothing")
<1>2. Now(a, h) = v0
  BY <1>1, NowFields DEF Now
<1>3. script' = <<s1, s2>>
  BY <1>1, ScriptOf, DeskMoves DEF RejectReopening, Runs, TaskNames
<1>4. Can(v2, <<>>, t)
  <2>1. Rest(v2)
    BY <1>1 DEF Rest, RestClosed, View, Persons
  <2>2. t => Calm(v2)
    BY <1>1 DEF Calm, View
  <2> QED
    BY <2>1, <2>2, StepEnd
<1>5. Can(v1, <<s2>>, t)
  <2>1. Begun(<<s2>>, s2) /\ Tail(<<s2>>) = <<>>
    BY Steps1
  <2>2. Can(v2, Tail(<<s2>>), t)
    BY <1>4, <2>1
  <2>3. Flow(Finish("ApproveReopening", "reject", "NONE"), "ended")
    BY <1>1, Targets DEF Flow, Finish, Places, Nodes, TaskNames
  <2> QED
    BY <2>1, <2>2, <2>3, StepFinish
<1>6. Can(v0, <<s1, s2>>, t)
  <2>1. Begun(<<s1, s2>>, s1) /\ Tail(<<s1, s2>>) = <<s2>>
    BY Steps2
  <2>2. Can(v1, Tail(<<s1, s2>>), t)
    BY <1>5, <2>1
  <2>3. Writable("CLOSED", "PENDING_REOPENING", "ApproveReopening")
    BY <1>1 DEF Writable, Young
  <2> QED
    BY <2>1, <2>2, <2>3, StepWrite
<1> QED
  BY <1>2, <1>3, <1>6
-----------------------------------------------------------------------------
(***************************************************************************)
(* What Flowable does with a call, of the instances before and after.      *)
(***************************************************************************)
Took(c, ps, qs) ==
    \/ c.op = "start" /\ qs = Append(ps, [at |-> c.node, holder |-> Nobody])
    \/ \E p \in DOMAIN ps : \E r :
          /\ ps[p].at # "ended" /\ qs = [ps EXCEPT ![p] = r]
          /\ \/ c.op = "set" /\ r = ps[p]
             \/ c.op = "end" /\ r = [at |-> "ended", holder |-> Nobody]
             \/ /\ c.op = "claim" /\ ps[p].at = c.task
                /\ c.user # Nobody => ps[p].holder \in {Nobody, c.user}
                /\ r = [ps[p] EXCEPT !.holder = c.user]
             \/ c.op = "finish" /\ ps[p].at = c.task /\ r = [at |-> Target(c), holder |-> Nobody]

LEMMA AcceptsTook ==
    ASSUME NEW c, Accepts(c)
    PROVE  Took(c, procs, procs')
<1>1. CASE c.op = "start" /\ procs' = Append(procs, [at |-> c.node, holder |-> Nobody])
  BY <1>1 DEF Took
<1>2. CASE c.op # "start" /\ \E p \in Live : Takes(c, p) /\ procs' = [procs EXCEPT ![p] = After(c, p)]
  <2>1. PICK p \in Live : Takes(c, p) /\ procs' = [procs EXCEPT ![p] = After(c, p)]
    BY <1>2
  <2>2. p \in DOMAIN procs /\ procs[p].at # "ended"
    BY DEF Live
  <2>3. CASE c.op = "set"
    BY <2>1, <2>2, <2>3 DEF Took, After
  <2>4. CASE c.op = "end"
    BY <2>1, <2>2, <2>4 DEF Took, After
  <2>5. CASE c.op = "claim"
    BY <2>1, <2>2, <2>5 DEF Took, Takes, After
  <2>6. CASE c.op = "finish"
    BY <2>1, <2>2, <2>6 DEF Took, Takes, After
  <2> QED
    BY <2>1, <2>3, <2>4, <2>5, <2>6 DEF Takes
<1> QED
  BY <1>1, <1>2 DEF Accepts

LEMMA Replaced ==
    ASSUME NEW ps \in Seq(Instance), NEW p \in DOMAIN ps
    PROVE  ps[p] \in Instance /\ [ps EXCEPT ![p] = ps[p]] = ps
<1>1. ps \in [1..Len(ps) -> Instance] /\ DOMAIN ps = 1..Len(ps)
  BY LenProperties
<1> QED
  BY <1>1

LEMMA Held ==
    ASSUME NEW i \in Instance, NEW u \in Persons
    PROVE  LET r == [i EXCEPT !.holder = u] IN r \in Instance /\ r.at = i.at /\ r.holder = u
BY DEF Instance
-----------------------------------------------------------------------------
(***************************************************************************)
(* The instances ps, the calls ls and the script w follow the view x.      *)
(***************************************************************************)
Follows(x, ps, ls, w, t) ==
    /\ ps \in Seq(Instance) /\ ls \in Seq(LooseCalls)
    /\ Can(x, w, t) /\ Matches(x, ps, ls) /\ (t => Lone(x, ps, ls))

\* The next step, and the view after it.
LEMMA Ready1 ==
    ASSUME NEW x, NEW ps, NEW ls, NEW w, NEW t, Follows(x, ps, ls, w, t), w # <<>>
    PROVE  \/ Goes(x, Head(w), t) /\ Can(Done(x, Head(w)), Tail(w), t)
           \/ ~t /\ Stuck(x, Head(w))
BY CanTake DEF Follows

LEMMA FollowsWrite ==
    ASSUME NEW x, NEW ps, NEW ls, NEW w, NEW t, Follows(x, ps, ls, w, t), w # <<>>,
           Head(w).do = "write"
    PROVE  Follows(Done(x, Head(w)), ps, ls, Tail(w), t)
<1> DEFINE s == Head(w)
           y == Done(x, s)
<1>1. Goes(x, s, t) /\ Can(y, Tail(w), t)
  BY Ready1 DEF Stuck, Awaits
<1>2. FitsWrite(x, s)
  BY <1>1 DEF Goes, Fits, FitsSet, FitsClaim, FitsFinish, FitsStart, FitsEnd, Awaits
<1>3. y.status = s.status /\ y.at = x.at /\ y.holder = x.holder /\ y.sent = x.sent
  BY DEF Done, View
<1> HIDE DEF y
<1>4. Matches(y, ps, ls)
  BY <1>2, <1>3, MatchesRow DEF Follows, FitsWrite
<1>5. t => Lone(y, ps, ls)
  BY <1>3, LoneRow DEF Follows
<1> QED
  BY <1>1, <1>4, <1>5 DEF Follows, y

\* The calls that are sent and not awaited.
LEMMA FollowsSend ==
    ASSUME NEW x, NEW ps, NEW ls, NEW w, NEW t \in BOOLEAN, Follows(x, ps, ls, w, t), w # <<>>,
           Head(w).do = "send"
    PROVE  Follows(Done(x, Head(w)), ps, Append(ls, Head(w).call), Tail(w), t)
<1> DEFINE s == Head(w)
           c == s.call
           y == Done(x, s)
<1>1. Goes(x, s, t) /\ Can(y, Tail(w), t)
  BY Ready1 DEF Stuck, Awaits
<1>2. /\ y.status = x.status /\ y.at = Reaches(x, s) /\ y.holder = Holds(x, s)
      /\ y.sent = IF c.op = "set" THEN "set" ELSE "other"
  BY DEF Done, View, Mark
<1>3. ps \in Seq(Instance) /\ ls \in Seq(LooseCalls) /\ Matches(x, ps, ls) /\ (t => Lone(x, ps, ls))
  BY DEF Follows
<1>4. t => /\ x.sent # "other"
           /\ x.sent # "nothing" => y.at \in TaskNames
           /\ c.op = "start" => x.sent = "nothing" /\ x.at \in {"none", "ended"}
           /\ c.op = "end" => x.sent = "nothing"
  BY <1>1 DEF Goes, Calmly
<1> SUFFICES c \in LooseCalls /\ Matches(y, ps, Append(ls, c)) /\ (t => Lone(y, ps, Append(ls, c)))
  BY <1>1, <1>3, AppendFacts DEF Follows
<1> HIDE DEF y, s
<1>5. CASE FitsSet(x, s)
  <2>1. c = SetStatus /\ c.op = "set" /\ x.at \in TaskNames
    BY <1>5 DEF FitsSet, SetStatus
  <2>2. y.at = x.at /\ y.holder = x.holder /\ y.sent = "set"
    BY <1>2, <2>1 DEF Reaches, Holds
  <2>3. Matches(y, ps, Append(ls, c))
    BY <1>2, <1>3, <2>1, <2>2, MatchesSendSet
  <2>4. t => Lone(y, ps, Append(ls, c))
    BY <1>3, <1>4, <2>1, <2>2, LoneSendSet
  <2> QED
    BY <2>1, <2>3, <2>4 DEF LooseCalls
<1>6. CASE FitsFinish(x, s)
  <2>1. c.op = "finish" /\ c.task = x.at /\ c \in Answers /\ x.status \notin Young
    BY <1>6 DEF FitsFinish, Awaits, s
  <2>2. c \in LooseCalls /\ c.task = "ApproveClosure"
    BY <2>1, LooseKinds DEF LooseCalls
  <2>3. y.at = Target(c) /\ y.at = Place(c) /\ y.holder = Nobody /\ y.sent = "other"
    BY <1>2, <2>1 DEF Reaches, Holds, Place
  <2>4. Matches(y, ps, Append(ls, c))
    BY <1>2, <1>3, <2>1, <2>2, <2>3, MatchesSendNext
  <2>5. t => Lone(y, ps, Append(ls, c))
    BY <1>3, <1>4, <2>1, <2>2, <2>3, LoneSendFinish
  <2> QED
    BY <2>2, <2>4, <2>5
<1>7. CASE FitsStart(x, s)
  <2>1. /\ c.op = "start" /\ c = Start(c.node) /\ c.node \in Places
        /\ x.at \in {"ended", "AutoClose"} /\ x.status \notin Young
    BY <1>7 DEF FitsStart, Awaits, s
  <2>2. c \in LooseCalls
    BY <2>1 DEF LooseCalls
  <2>3. y.at = c.node /\ y.at = Place(c) /\ y.holder = Nobody /\ y.sent = "other"
    BY <1>2, <2>1 DEF Reaches, Holds, Place
  <2>4. x.at \notin TaskNames
    BY <2>1 DEF TaskNames
  <2>5. Matches(y, ps, Append(ls, c))
    BY <1>2, <1>3, <2>1, <2>2, <2>3, <2>4, MatchesSendNext
  <2>6. t => x.sent = "nothing" /\ x.at = "ended"
    BY <1>4, <2>1
  <2>7. t => Lone(y, ps, Append(ls, c))
    BY <1>3, <2>1, <2>2, <2>3, <2>6, LoneSendOne
  <2> QED
    BY <2>2, <2>5, <2>7
<1>8. CASE FitsEnd(x, s)
  <2>1. c = Terminate /\ c.op = "end" /\ x.status = "ABANDONED" /\ x.at \in Places /\ x.at \in TaskNames
    BY <1>8 DEF FitsEnd, Terminate, Places
  <2>2. c \in LooseCalls
    BY <2>1 DEF LooseCalls
  <2>3. y.at = "ended" /\ y.sent = "other"
    BY <1>2, <2>1 DEF Reaches
  <2>4. Matches(y, ps, Append(ls, c))
    BY <1>2, <1>3, <2>1, <2>3, MatchesSendEnd
  <2>5. t => Lone(y, ps, Append(ls, c))
    BY <1>3, <1>4, <2>1, <2>2, <2>3, LoneSendOne
  <2> QED
    BY <2>2, <2>4, <2>5
<1> QED
  BY <1>1, <1>5, <1>6, <1>7, <1>8 DEF Goes, Fits, FitsWrite, FitsClaim, Awaits, s

\* The calls that are awaited, when Flowable takes them.
LEMMA FollowsCall ==
    ASSUME NEW x, NEW ps, NEW ls, NEW w, NEW t \in BOOLEAN, Follows(x, ps, ls, w, t), w # <<>>,
           Awaits(Head(w)), NEW qs, Took(Head(w).call, ps, qs)
    PROVE  Follows(Done(x, Head(w)), qs, ls, Tail(w), t)
<1> DEFINE s == Head(w)
           c == s.call
           y == Done(x, s)
<1>0. ps \in Seq(Instance)
  BY DEF Follows
<1>1. ps \in Seq(Instance) /\ ls \in Seq(LooseCalls) /\ Matches(x, ps, ls) /\ (t => Lone(x, ps, ls))
  BY DEF Follows
<1>2. ~Stuck(x, s)
  <2>1. SUFFICES ASSUME Stuck(x, s)
                 PROVE  FALSE
    OBVIOUS
  <2>2. /\ c.op = "claim" /\ c.task \in Places /\ x.at \in TaskNames
        /\ c.task # x.at \/ (c.user # Nobody /\ x.holder \notin {Nobody, c.user})
    BY <2>1 DEF Stuck
  <2>3. PICK p \in DOMAIN ps : ps[p].at = c.task /\ (c.user # Nobody => ps[p].holder \in {Nobody, c.user})
    BY <2>2 DEF Took
  <2>4. ~Ending(ls)
    BY <1>1, <2>2 DEF Matches, Abandons, TaskNames
  <2>5. ps[p].at = x.at /\ ps[p].holder = x.holder
    BY <1>1, <2>2, <2>3, <2>4 DEF Matches, Where, Here
  <2> QED
    BY <2>2, <2>3, <2>5
<1>3. Goes(x, s, t) /\ Can(y, Tail(w), t)
  BY <1>2, Ready1
<1>4. /\ y.status = x.status /\ y.at = Reaches(x, s) /\ y.holder = Holds(x, s) /\ y.sent = x.sent
      /\ s.do # "send" /\ s.do # "write"
  BY DEF Done, View, Mark, Awaits
<1>5. t => /\ x.sent # "other"
           /\ x.sent # "nothing" => y.at \in TaskNames
           /\ c.op = "start" => x.sent = "nothing" /\ x.at \in {"none", "ended"}
  BY <1>3, <1>4 DEF Goes, Calmly
<1> SUFFICES qs \in Seq(Instance) /\ Matches(y, qs, ls) /\ (t => Lone(y, qs, ls))
  BY <1>1, <1>3 DEF Follows
<1> HIDE DEF y, s
<1>6. CASE FitsSet(x, s)
  <2>1. c.op = "set"
    BY <1>6 DEF FitsSet, SetStatus
  <2>2. y.at = x.at /\ y.holder = x.holder
    BY <1>4, <2>1 DEF Reaches, Holds
  <2>3. PICK p \in DOMAIN ps : qs = [ps EXCEPT ![p] = ps[p]]
    BY <2>1 DEF Took, s
  <2>4. qs = ps
    BY <1>1, <2>3, Replaced
  <2>5. Matches(y, ps, ls)
    BY <1>1, <1>4, <2>2, MatchesRow
  <2>6. t => Lone(y, ps, ls)
    BY <1>1, <1>4, <2>2, LoneRow
  <2> QED
    BY <1>1, <2>4, <2>5, <2>6
<1>7. CASE FitsClaim(x, s)
  <2>1. c.op = "claim" /\ c.task = x.at /\ x.at \in Places /\ c.user \in Persons /\ x.at \notin {"none", "ended"}
    BY <1>7 DEF FitsClaim, Places, TaskNames
  <2>2. y.at = x.at /\ y.holder = c.user
    BY <1>4, <2>1 DEF Reaches, Holds
  <2>3. PICK p, r : /\ p \in DOMAIN ps /\ ps[p].at # "ended" /\ qs = [ps EXCEPT ![p] = r]
                    /\ ps[p].at = c.task /\ r = [ps[p] EXCEPT !.holder = c.user]
    BY <2>1 DEF Took, s
  <2>4. r \in Instance /\ r.at = x.at /\ r.holder = c.user
    BY <1>0, <2>1, <2>3, Replaced, Held
  <2>5. qs \in Seq(Instance)
    BY <1>0, <2>3, <2>4, ReplaceFacts, ZenonT(60)
  <2>6. Matches(y, qs, ls)
    BY <1>1, <1>4, <2>1, <2>2, <2>3, <2>4, MatchesClaim
  <2>7. t => Lone(y, qs, ls)
    BY <1>1, <1>4, <1>5, <2>1, <2>2, <2>3, <2>4, LoneReplace
  <2> QED
    BY <2>5, <2>6, <2>7
<1>8. CASE FitsFinish(x, s)
  <2>1. /\ c.op = "finish" /\ c.task = x.at /\ x.at \in Places \cup {"AutoClose"}
        /\ Target(c) \in Nodes
    BY <1>4, <1>8 DEF FitsFinish
  <2>2. y.at = Target(c) /\ y.holder = Nobody /\ y.at \in Nodes /\ y.at # "none"
    BY <1>4, <2>1 DEF Reaches, Holds, Nodes, TaskNames
  <2>3. PICK p, r : /\ p \in DOMAIN ps /\ ps[p].at # "ended" /\ qs = [ps EXCEPT ![p] = r]
                    /\ ps[p].at = c.task /\ r = [at |-> Target(c), holder |-> Nobody]
    BY <2>1 DEF Took, s
  <2>4. r \in Instance /\ r.at = y.at /\ r.holder = Nobody
    BY <2>1, <2>2, <2>3 DEF Instance, Persons
  <2>5. qs \in Seq(Instance)
    BY <1>0, <2>3, <2>4, ReplaceFacts, ZenonT(60)
  <2>6. Matches(y, qs, ls)
    BY <1>1, <1>4, <2>1, <2>2, <2>3, <2>4, MatchesFinish
  <2>7. t => Lone(y, qs, ls)
    BY <1>1, <1>4, <1>5, <2>1, <2>2, <2>3, <2>4, LoneReplace
  <2> QED
    BY <2>5, <2>6, <2>7
<1>9. CASE FitsStart(x, s)
  <2>1. c.op = "start" /\ c.node \in Places /\ x.at = "none" /\ c.node \notin {"none", "ended"}
    BY <1>4, <1>9 DEF FitsStart, Places, TaskNames
  <2>2. y.at = c.node /\ y.holder = Nobody
    BY <1>4, <2>1 DEF Reaches, Holds
  <2>3. qs = Append(ps, [at |-> y.at, holder |-> Nobody])
    BY <2>1, <2>2 DEF Took, s
  <2>4. [at |-> y.at, holder |-> Nobody] \in Instance
    BY <2>1, <2>2 DEF Instance, Persons, Nodes, Places
  <2>5. qs \in Seq(Instance)
    BY <1>0, <2>3, <2>4, AppendFacts
  <2>6. Matches(y, qs, ls)
    BY <1>1, <1>4, <2>1, <2>2, <2>3, MatchesStart
  <2>7. t => Lone(y, qs, ls)
    BY <1>1, <1>4, <1>5, <2>1, <2>2, <2>3, <2>4, LoneStarted
  <2> QED
    BY <2>5, <2>6, <2>7
<1> QED
  BY <1>3, <1>4, <1>6, <1>7, <1>8, <1>9 DEF Goes, Fits, FitsWrite, FitsEnd

\* The calls that were sent, when they arrive and Flowable takes them.
LEMMA FollowsArrival ==
    ASSUME NEW x, NEW ps, NEW ls, NEW w, NEW t \in BOOLEAN, Follows(x, ps, ls, w, t),
           NEW k \in DOMAIN ls, NEW qs, Took(ls[k], ps, qs)
    PROVE  Follows(x, qs, RemoveAt(ls, k), w, t)
<1> DEFINE c == ls[k]
           ms == RemoveAt(ls, k)
<1>0. ps \in Seq(Instance)
  BY DEF Follows
<1>1. ls \in Seq(LooseCalls) /\ Matches(x, ps, ls) /\ (t => Lone(x, ps, ls)) /\ Can(x, w, t)
  BY DEF Follows
<1>2. ms \in Seq(LooseCalls)
  BY <1>1, ArrivedCalls
<1>3. c \in LooseCalls
  BY <1>1, LenProperties, ElementOfSeq
<1>4. /\ c.op \in {"set", "end", "start", "finish"}
      /\ c.op = "start" => c.node \in Places
      /\ c.op = "finish" => c.task = "ApproveClosure" /\ Target(c) \in {"Investigate", "SAR", "ended"}
  BY <1>3, LooseKinds
<1> SUFFICES qs \in Seq(Instance) /\ Matches(x, qs, ms) /\ (t => Lone(x, qs, ms))
  BY <1>1, <1>2 DEF Follows
<1>5. CASE c.op = "set"
  <2>1. PICK p \in DOMAIN ps : qs = [ps EXCEPT ![p] = ps[p]]
    BY <1>5 DEF Took
  <2>2. qs = ps
    BY <1>0, <2>1, Replaced
  <2>3. Matches(x, ps, ms)
    BY <1>1, <1>5, MatchesSetArrives
  <2>4. t => Lone(x, ps, ms)
    BY <1>1, <1>5, LoneSetArrives
  <2> QED
    BY <1>0, <2>2, <2>3, <2>4
<1>6. CASE c.op = "start"
  <2> DEFINE r == [at |-> c.node, holder |-> Nobody]
  <2>1. qs = Append(ps, r)
    BY <1>6 DEF Took
  <2>2. r \in Instance /\ r.at = c.node /\ r.holder = Nobody
    BY <1>4, <1>6 DEF Instance, Persons, Nodes, Places
  <2>3. qs \in Seq(Instance)
    BY <1>0, <2>1, <2>2, AppendFacts
  <2>4. Matches(x, qs, ms)
    BY <1>0, <1>1, <1>6, <2>1, MatchesStartArrives
  <2> HIDE DEF r
  <2>5. t => Lone(x, qs, ms)
    BY <1>0, <1>1, <1>6, <2>1, <2>2, LoneStartArrives
  <2> QED
    BY <2>3, <2>4, <2>5
<1>7. CASE c.op = "finish"
  <2>1. PICK p, r : /\ p \in DOMAIN ps /\ ps[p].at # "ended" /\ qs = [ps EXCEPT ![p] = r]
                    /\ ps[p].at = c.task /\ r = [at |-> Target(c), holder |-> Nobody]
    BY <1>7 DEF Took
  <2>2. r \in Instance /\ r.at = Target(c) /\ r.holder = Nobody
    BY <1>4, <1>7, <2>1 DEF Instance, Persons, Nodes, TaskNames
  <2>3. qs \in Seq(Instance)
    BY <1>0, <2>1, <2>2, ReplaceFacts
  <2>4. Matches(x, qs, ms)
    BY <1>0, <1>1, <1>4, <1>7, <2>1, <2>2, MatchesFinishArrives
  <2>5. t => Lone(x, qs, ms)
    BY <1>0, <1>1, <1>7, <2>1, <2>2, LoneFinishArrives
  <2> QED
    BY <2>3, <2>4, <2>5
<1>8. CASE c.op = "end"
  <2>1. PICK p, r : /\ p \in DOMAIN ps /\ ps[p].at # "ended" /\ qs = [ps EXCEPT ![p] = r]
                    /\ r = [at |-> "ended", holder |-> Nobody]
    BY <1>8 DEF Took
  <2>2. r \in Instance /\ r.at = "ended"
    BY <2>1 DEF Instance, Persons, Nodes
  <2>3. qs \in Seq(Instance)
    BY <1>0, <2>1, <2>2, ReplaceFacts
  <2>4. Matches(x, qs, ms)
    BY <1>0, <1>1, <1>8, <2>1, <2>2, MatchesEndArrives
  <2>5. t => Lone(x, qs, ms)
    BY <1>0, <1>1, <1>8, <2>1, <2>2, LoneEndArrives
  <2> QED
    BY <2>3, <2>4, <2>5
<1> QED
  BY <1>4, <1>5, <1>6, <1>7, <1>8
-----------------------------------------------------------------------------
(***************************************************************************)
(* In turn Flowable takes every call: the one live instance is where the   *)
(* call looks for it.                                                      *)
(***************************************************************************)
Suits(c, i) ==
    \/ c.op \in {"set", "end"}
    \/ c.op = "claim" /\ i.at = c.task /\ (c.user # Nobody => i.holder \in {Nobody, c.user})
    \/ c.op = "finish" /\ i.at = c.task

LEMMA CallSuits ==
    ASSUME NEW x, NEW ps, NEW ls, NEW w, Follows(x, ps, ls, w, TRUE), w # <<>>,
           Awaits(Head(w)), Head(w).call.op # "start"
    PROVE  \E p : OnlyLive(ps, p) /\ Suits(Head(w).call, ps[p])
<1> DEFINE s == Head(w)
           c == s.call
<1>1. Fits(x, s) /\ Calmly(x, s) /\ Lone(x, ps, ls)
  BY Ready1 DEF Goes, Follows
<1>2. s.do # "write" /\ s.do # "send"
  BY DEF Awaits
<1> HIDE DEF s
<1>3. x.sent # "other"
  BY <1>1, <1>2 DEF Calmly
<1>4. Steady(x, ps)
  BY <1>1, <1>3, LoneSteady
<1>5. /\ x.at \notin {"none", "ended"}
      /\ \A i : i.at = x.at /\ i.holder = x.holder => Suits(c, i)
  <2>1. CASE FitsSet(x, s)
    BY <2>1 DEF FitsSet, SetStatus, TaskNames, Suits
  <2>2. CASE FitsClaim(x, s)
    BY <2>2 DEF FitsClaim, Places, TaskNames, Suits
  <2>3. CASE FitsFinish(x, s)
    BY <1>2, <2>3 DEF FitsFinish, Places, TaskNames, Suits
  <2> QED
    BY <1>1, <1>2, <2>1, <2>2, <2>3 DEF Fits, FitsWrite, FitsStart, FitsEnd, s
<1>6. PICK p : OnlyLive(ps, p) /\ ps[p].at = x.at /\ ps[p].holder = x.holder
  BY <1>4, <1>5 DEF Steady
<1> QED
  BY <1>5, <1>6 DEF s

LEMMA ArrivalSuits ==
    ASSUME NEW x, NEW ps, NEW ls, NEW w, Follows(x, ps, ls, w, TRUE),
           NEW k \in DOMAIN ls, ls[k].op # "start"
    PROVE  \E p : OnlyLive(ps, p) /\ Suits(ls[k], ps[p])
<1>1. ps \in Seq(Instance) /\ ls \in Seq(LooseCalls) /\ Lone(x, ps, ls)
  BY DEF Follows
<1>2. PICK p : OnlyLive(ps, p) /\ (ls[k].op = "finish" => ps[p].at = "ApproveClosure")
  BY <1>1, LoneAccepts
<1>3. ls[k] \in LooseCalls
  BY <1>1, LenProperties, ElementOfSeq
<1>4. Suits(ls[k], ps[p])
  BY <1>2, <1>3, LooseKinds DEF Suits
<1> QED
  BY <1>2, <1>4

LEMMA SuitedCall ==
    ASSUME NEW c, NEW p, OnlyLive(procs, p), Suits(c, procs[p])
    PROVE  ~Refuses(c)
<1>1. p \in Live /\ \A q \in Live : q = p
  BY DEF OnlyLive, Live
<1>2. Takes(c, p)
  BY DEF Suits, Takes
<1> QED
  BY <1>1, <1>2 DEF Refuses
-----------------------------------------------------------------------------
(***************************************************************************)
(* The inductive invariant.  Nothing is said of the mirror once a call has *)
(* failed; until then the case follows a view of it, calmly (t) for as     *)
(* long as requests come in turn.                                          *)
(***************************************************************************)
InTurn == odd = {} /\ faults = 0

Row(a, h, z) == View(status, owner, desk, a, h, z)

Mirrored ==
    \E a, h, z : \E t \in BOOLEAN : (InTurn => t) /\ Follows(Row(a, h, z), procs, loose, script, t)

FInv == /\ faults \in Nat
        /\ ~refused => Mirrored
        /\ AcceptedInTurn

LEMMA InitMirrors == Init => FInv
<1> SUFFICES ASSUME Init
             PROVE  FInv
  OBVIOUS
<1> DEFINE x == Row("none", Nobody, "nothing")
<1>1. /\ x.status = "none" /\ x.owner = Nobody /\ x.desk = NoDesk /\ x.at = "none" /\ x.holder = Nobody
      /\ x.sent = "nothing"
  BY DEF Row, View, Init, NoDesk
<1> HIDE DEF x
<1>2. /\ procs = <<>> /\ loose = <<>> /\ script = <<>> /\ DOMAIN procs = {} /\ DOMAIN loose = {}
      /\ Len(procs) = 0 /\ Len(loose) = 0
  BY EmptySeq DEF Init
<1>3. procs \in Seq(Instance) /\ loose \in Seq(LooseCalls)
  BY <1>2, EmptySeq
<1>4. Can(x, script, TRUE)
  <2>1. Rest(x) /\ Calm(x)
    BY <1>1 DEF Rest, RestNew, Calm, Persons
  <2> QED
    BY <1>2, <2>1, StepEnd
<1>5. Matches(x, procs, loose)
  <2>1. Cardinality(Approving(procs)) = 0 /\ Cardinality(Approved(loose)) = 0
    <3>1. Approving(procs) = {} /\ Approved(loose) = {}
      BY <1>2 DEF Approving, Approved
    <3> QED
      BY <3>1, FS_EmptySet
  <2>2. (\A p : ~Here(procs, p)) /\ (\A k : ~Coming(loose, k)) /\ ~Ending(loose)
    BY <1>2 DEF Here, Coming, Ending
  <2>3. Where(x, procs, loose) /\ Single(procs) /\ ComesLast(x, procs, loose) /\ Abandons(x, loose)
    BY <2>2 DEF Where, Single, ComesLast, Abandons
  <2>4. Somewhere(x, procs, loose) /\ Answered(x, procs, loose)
    BY <1>1, <2>1 DEF Somewhere, Answered, Places, TaskNames
  <2>5. Unclaimed(procs) /\ Early(x, procs, loose)
    BY <1>2 DEF Unclaimed, Approving, Early
  <2> QED
    BY <2>3, <2>4, <2>5 DEF Matches
<1>6. Lone(x, procs, loose)
  BY <1>1, <1>2 DEF Lone, Steady, NoLive
<1>7. Follows(x, procs, loose, script, TRUE)
  BY <1>3, <1>4, <1>5, <1>6 DEF Follows
<1>8. Mirrored
  BY <1>7 DEF Mirrored, x
<1> QED
  BY <1>8 DEF FInv, AcceptedInTurn, Init

\* A step that touches neither the failures nor what is odd.
LEMMA Keeps ==
    ASSUME FInv, refused' = refused, odd' = odd, faults' = faults, ~refused => Mirrored'
    PROVE  FInv'
BY DEF FInv, AcceptedInTurn

LEMMA WritesKeeps ==
    ASSUME FInv, Writes
    PROVE  FInv'
<1>1. ASSUME ~refused
      PROVE  Mirrored'
  <2>1. PICK a, h, z : \E t \in BOOLEAN : (InTurn => t) /\ Follows(Row(a, h, z), procs, loose, script, t)
    BY <1>1 DEF FInv, Mirrored
  <2>2. PICK t \in BOOLEAN : (InTurn => t) /\ Follows(Row(a, h, z), procs, loose, script, t)
    BY <2>1
  <2>3. Follows(Done(Row(a, h, z), Head(script)), procs, loose, Tail(script), t)
    BY <2>2, FollowsWrite DEF Writes
  <2>4. Done(Row(a, h, z), Head(script)) = Row(a, h, z)'
    BY DEF Done, Row, View, Writes
  <2>5. Follows(Row(a, h, z)', procs', loose', script', t) /\ (InTurn' => t)
    BY <2>2, <2>3, <2>4 DEF Writes, InTurn
  <2> QED
    BY <2>5 DEF Mirrored
<1> QED
  BY <1>1, Keeps DEF Writes

LEMMA SendsKeeps ==
    ASSUME FInv, Sends
    PROVE  FInv'
<1>1. ASSUME ~refused
      PROVE  Mirrored'
  <2>1. PICK a, h, z : \E t \in BOOLEAN : (InTurn => t) /\ Follows(Row(a, h, z), procs, loose, script, t)
    BY <1>1 DEF FInv, Mirrored
  <2>2. PICK t \in BOOLEAN : (InTurn => t) /\ Follows(Row(a, h, z), procs, loose, script, t)
    BY <2>1
  <2> DEFINE x == Row(a, h, z)
             s == Head(script)
  <2>3. Follows(Done(x, s), procs, Append(loose, s.call), Tail(script), t)
    BY <2>2, FollowsSend DEF Sends
  <2>4. PICK b, i, y : b = Reaches(x, s) /\ i = Holds(x, s) /\ y = Mark(x, s)
    OBVIOUS
  <2>5. Done(x, s) = Row(b, i, y)'
    BY <2>4 DEF Done, Row, View, Sends, case
  <2>6. Follows(Row(b, i, y)', procs', loose', script', t) /\ (InTurn' => t)
    BY <2>2, <2>3, <2>5 DEF Sends, InTurn
  <2> QED
    BY <2>6 DEF Mirrored
<1> QED
  BY <1>1, Keeps DEF Sends

LEMMA CallsKeeps ==
    ASSUME FInv, Calls
    PROVE  FInv'
<1>1. ASSUME ~refused
      PROVE  Mirrored'
  <2>1. PICK a, h, z : \E t \in BOOLEAN : (InTurn => t) /\ Follows(Row(a, h, z), procs, loose, script, t)
    BY <1>1 DEF FInv, Mirrored
  <2>2. PICK t \in BOOLEAN : (InTurn => t) /\ Follows(Row(a, h, z), procs, loose, script, t)
    BY <2>1
  <2> DEFINE x == Row(a, h, z)
             s == Head(script)
  <2>3. script # <<>> /\ Awaits(s) /\ Took(s.call, procs, procs')
    BY AcceptsTook DEF Calls, Awaited, Awaits
  <2>4. Follows(Done(x, s), procs', loose, Tail(script), t)
    BY <2>2, <2>3, FollowsCall
  <2>5. PICK b, i, y : b = Reaches(x, s) /\ i = Holds(x, s) /\ y = Mark(x, s)
    OBVIOUS
  <2>6. Done(x, s) = Row(b, i, y)'
    BY <2>3, <2>5 DEF Done, Row, View, Calls, case, Awaits
  <2>7. Follows(Row(b, i, y)', procs', loose', script', t) /\ (InTurn' => t)
    BY <2>2, <2>4, <2>6 DEF Calls, InTurn
  <2> QED
    BY <2>7 DEF Mirrored
<1> QED
  BY <1>1, Keeps DEF Calls

LEMMA ArrivesKeeps ==
    ASSUME FInv, NEW k \in DOMAIN loose, Arrives(k)
    PROVE  FInv'
<1>1. ASSUME ~refused
      PROVE  Mirrored'
  <2>1. PICK a, h, z : \E t \in BOOLEAN : (InTurn => t) /\ Follows(Row(a, h, z), procs, loose, script, t)
    BY <1>1 DEF FInv, Mirrored
  <2>2. PICK t \in BOOLEAN : (InTurn => t) /\ Follows(Row(a, h, z), procs, loose, script, t)
    BY <2>1
  <2>3. Follows(Row(a, h, z), procs', RemoveAt(loose, k), script, t)
    BY <2>2, AcceptsTook, FollowsArrival DEF Arrives
  <2>4. Row(a, h, z)' = Row(a, h, z)
    BY DEF Row, Arrives, case
  <2>5. Follows(Row(a, h, z)', procs', loose', script', t) /\ (InTurn' => t)
    BY <2>2, <2>3, <2>4 DEF Arrives, InTurn
  <2> QED
    BY <2>5 DEF Mirrored
<1> QED
  BY <1>1, Keeps DEF Arrives

\* In turn no call is refused.
LEMMA TurnFollows ==
    ASSUME FInv, InTurn
    PROVE  \E x : Follows(x, procs, loose, script, TRUE)
<1>1. ~refused
  BY DEF FInv, AcceptedInTurn, InTurn
<1> QED
  BY <1>1 DEF FInv, Mirrored

LEMMA RefusedKeeps ==
    ASSUME FInv, IsRefused
    PROVE  FInv'
<1>1. ~InTurn
  <2> SUFFICES ASSUME InTurn
               PROVE  FALSE
    OBVIOUS
  <2>1. PICK x : Follows(x, procs, loose, script, TRUE)
    BY TurnFollows
  <2>2. script # <<>> /\ Awaits(Head(script)) /\ Refuses(Head(script).call)
        /\ Head(script).call.op # "start"
    BY DEF IsRefused, Awaited, Awaits, Refuses
  <2>3. PICK p : OnlyLive(procs, p) /\ Suits(Head(script).call, procs[p])
    BY <2>1, <2>2, CallSuits
  <2> QED
    BY <2>2, <2>3, SuitedCall
<1>2. refused' /\ odd' = odd /\ faults' = faults
  BY DEF IsRefused, GivesUp
<1> QED
  BY <1>1, <1>2 DEF FInv, AcceptedInTurn, InTurn

LEMMA RejectedKeeps ==
    ASSUME FInv, NEW k \in DOMAIN loose, IsRejected(k)
    PROVE  FInv'
<1>1. ~InTurn
  <2> SUFFICES ASSUME InTurn
               PROVE  FALSE
    OBVIOUS
  <2>1. PICK x : Follows(x, procs, loose, script, TRUE)
    BY TurnFollows
  <2>2. Refuses(loose[k]) /\ loose[k].op # "start"
    BY DEF IsRejected, Refuses
  <2>3. PICK p : OnlyLive(procs, p) /\ Suits(loose[k], procs[p])
    BY <2>1, <2>2, ArrivalSuits
  <2> QED
    BY <2>2, <2>3, SuitedCall
<1>2. refused' /\ odd' = odd /\ faults' = faults
  BY DEF IsRejected, Dies
<1> QED
  BY <1>1, <1>2 DEF FInv, AcceptedInTurn, InTurn

LEMMA LostKeeps ==
    ASSUME FInv, Lost
    PROVE  FInv'
<1>1. refused' /\ faults' = faults + 1 /\ faults \in Nat
  BY DEF Lost, GivesUp, Dies, FInv
<1> QED
  BY <1>1 DEF FInv, AcceptedInTurn
-----------------------------------------------------------------------------
(***************************************************************************)
(* A request starts.  What is on its way then is not awaited: in turn      *)
(* there is nothing.                                                       *)
(***************************************************************************)
Request == Creates \/ Drafts \/ Triages \/ Works \/ Ends

Started ==
    /\ script = <<>> /\ odd \subseteq odd' /\ (odd' = {} => loose = <<>>)
    /\ UNCHANGED <<status, owner, desk, procs, loose, refused, faults>>

\* The case at rest as the request finds it.
Opening(a, h, t) ==
    /\ Opens(a, h, t) /\ (t => odd' = {}) /\ (InTurn' => t)
    /\ procs \in Seq(Instance) /\ loose \in Seq(LooseCalls)
    /\ Matches(Now(a, h), procs, loose) /\ (t => Lone(Now(a, h), procs, loose))

LEMMA BeginsStarts ==
    ASSUME NEW steps, NEW why, Begins(steps, why)
    PROVE  Started
BY DEF Begins, Started, case

LEMMA SameRest ==
    ASSUME NEW x, NEW y, Stays(x, TRUE) \/ Stays(x, FALSE), y.status = x.status, y.owner = x.owner,
           y.desk = x.desk, y.at = x.at, y.holder = x.holder
    PROVE  Stays(y, FALSE) /\ (Stays(x, TRUE) => Stays(y, TRUE))
<1>1. Rest(x)
  BY DEF Stays
<1>2. /\ RestNew(x) => RestNew(y)
      /\ RestDraft(x) => RestDraft(y)
      /\ RestCreating(x) => RestCreating(y)
      /\ RestReady(x) => RestReady(y)
      /\ RestAssigned(x) => RestAssigned(y)
      /\ RestWorking(x) => RestWorking(y)
      /\ RestSuspended(x) => RestSuspended(y)
  BY DEF RestNew, RestDraft, RestCreating, RestReady, RestAssigned, RestWorking, RestSuspended
<1>3. /\ RestClosing(x) => RestClosing(y)
      /\ RestClosed(x) => RestClosed(y)
      /\ RestFiling(x) => RestFiling(y)
      /\ RestReopening(x) => RestReopening(y)
      /\ RestAbandoned(x) => RestAbandoned(y)
      /\ RestRefuted(x) => RestRefuted(y)
      /\ RestConfirmed(x) => RestConfirmed(y)
  BY DEF RestClosing, RestClosed, RestFiling, RestReopening, RestAbandoned, RestRefuted, RestConfirmed
<1>4. Rest(y)
  BY <1>1, <1>2, <1>3, Zenon DEF Rest
<1>5. Calm(x) => Calm(y)
  BY DEF Calm
<1> QED
  BY <1>4, <1>5 DEF Stays

LEMMA FindsRest ==
    ASSUME FInv, ~refused, Started
    PROVE  \E a, h, t : Opening(a, h, t)
<1>1. PICK a, h, z : \E t \in BOOLEAN : (InTurn => t) /\ Follows(Row(a, h, z), procs, loose, script, t)
  BY DEF FInv, Mirrored
<1>2. PICK t \in BOOLEAN : (InTurn => t) /\ Follows(Row(a, h, z), procs, loose, script, t)
  BY <1>1
<1> DEFINE x == Row(a, h, z)
           y == Now(a, h)
<1>3. /\ y.status = x.status /\ y.owner = x.owner /\ y.desk = x.desk
      /\ y.at = x.at /\ y.holder = x.holder
  BY DEF Row, Now, View
<1>4. Stays(x, t)
  BY <1>2, CanTake DEF Follows, Started
<1>5. /\ procs \in Seq(Instance) /\ loose \in Seq(LooseCalls) /\ Matches(x, procs, loose)
      /\ t => Lone(x, procs, loose)
  BY <1>2 DEF Follows
<1> HIDE DEF x, y
<1>6. Matches(y, procs, loose)
  BY <1>3, <1>5, MatchesRow
<1>7. CASE InTurn'
  <2>1. odd' = {} /\ loose = <<>> /\ InTurn
    BY <1>7 DEF InTurn, Started
  <2>2. t = TRUE
    BY <1>2, <2>1
  <2>3. Lone(y, procs, loose)
    BY <1>3, <1>5, <2>1, <2>2, LoneAnew
  <2>4. Stays(y, TRUE)
    BY <1>3, <1>4, <2>2, SameRest
  <2>5. Opening(a, h, TRUE)
    BY <1>5, <1>6, <2>1, <2>3, <2>4 DEF Opening, Opens, y
  <2> QED
    BY <2>5
<1>8. CASE ~InTurn'
  <2>1. Stays(x, TRUE) \/ Stays(x, FALSE)
    BY <1>2, <1>4
  <2>2. Stays(y, FALSE)
    BY <1>3, <2>1, SameRest
  <2>3. Opening(a, h, FALSE)
    BY <1>5, <1>6, <1>8, <2>2 DEF Opening, Opens, y
  <2> QED
    BY <2>3
<1> QED
  BY <1>7, <1>8

\* The script of a request leads from the rest it finds to another one.
LEMMA CreatesPlan ==
    ASSUME Creates, NEW a, NEW h, NEW t, Opens(a, h, t)
    PROVE  Can(Now(a, h), script', t)
<1>1. CASE Ingest
  BY <1>1, PlanIngest
<1>2. CASE Sibling
  BY <1>2, PlanSibling
<1>3. ASSUME NEW u \in Users, ManualCreate(u)
      PROVE  Can(Now(a, h), script', t)
  BY <1>3, PlanCreateReady, PlanCreatePending
<1>4. ASSUME NEW u \in Users, SaveDraft(u)
      PROVE  Can(Now(a, h), script', t)
  BY <1>4, PlanSaveDraft
<1> QED
  BY <1>1, <1>2, <1>3, <1>4 DEF Creates

LEMMA DraftsPlan ==
    ASSUME Drafts, NEW a, NEW h, NEW t, Opens(a, h, t), t => odd' = {}
    PROVE  Can(Now(a, h), script', t)
<1>1. CASE ApproveCreation
  BY <1>1, PlanApproveCreation
<1>2. ASSUME NEW u \in Users, CompleteCreation(u)
      PROVE  Can(Now(a, h), script', t)
  BY <1>2, PlanCompleteReady, PlanCompletePending
<1>3. ASSUME NEW u \in Users, NEW v \in Users, RejectCreation(u, v)
      PROVE  Can(Now(a, h), script', t)
  BY <1>3, PlanRejectCreation
<1>4. ASSUME NEW u \in Users, Abandon(u)
      PROVE  Can(Now(a, h), script', t)
  BY <1>4, PlanAbandon
<1> QED
  BY <1>1, <1>2, <1>3, <1>4 DEF Drafts

LEMMA TriagesPlan ==
    ASSUME Triages, NEW a, NEW h, NEW t, Opens(a, h, t), t => odd' = {}
    PROVE  Can(Now(a, h), script', t)
<1>1. CASE TriageReady
  BY <1>1, PlanTriageReady
<1>2. CASE TriageClose
  BY <1>2, PlanTriageClose
<1>3. ASSUME NEW ai \in Investigators, AiInvestigate(ai) \/ AiRefute(ai) \/ AiConfirm(ai)
      PROVE  Can(Now(a, h), script', t)
  <2>1. ai \in Users
    BY MirrorAssumption
  <2> QED
    BY <1>3, <2>1, PlanAiInvestigate, PlanAiRefute, PlanAiConfirm
<1> QED
  BY <1>1, <1>2, <1>3 DEF Triages

LEMMA WorksPlan ==
    ASSUME Works, NEW a, NEW h, NEW t, Opens(a, h, t), t => odd' = {}
    PROVE  Can(Now(a, h), script', t)
<1>1. ASSUME NEW n \in Workable, NEW u \in Users, Assign(n, u)
      PROVE  Can(Now(a, h), script', t)
  BY <1>1, PlanAssignInvestigate, PlanAssignSAR DEF Workable
<1>2. ASSUME NEW n \in Workable, NEW u \in Users, Reassign(n, u)
      PROVE  Can(Now(a, h), script', t)
  BY <1>2, PlanReassignInvestigate, PlanReassignSAR DEF Workable
<1>3. ASSUME NEW n \in Workable, NEW u \in Users, Begin(n, u)
      PROVE  Can(Now(a, h), script', t)
  BY <1>3, PlanBeginInvestigate, PlanBeginSAR DEF Workable
<1>4. ASSUME NEW n \in Workable, Unassign(n)
      PROVE  Can(Now(a, h), script', t)
  BY <1>4, PlanUnassignInvestigate, PlanUnassignSAR DEF Workable
<1>5. ASSUME NEW u \in Users, FinishInvestigation(u)
      PROVE  Can(Now(a, h), script', t)
  BY <1>5, PlanFinishInvestigation
<1>6. ASSUME NEW u \in Users, Suspend(u)
      PROVE  Can(Now(a, h), script', t)
  BY <1>6, PlanSuspend
<1>7. CASE FileSAR
  BY <1>7, PlanFileSAR
<1>8. CASE Resume
  BY <1>8, PlanResumeOwn, PlanResumeOther
<1> QED
  BY <1>1, <1>2, <1>3, <1>4, <1>5, <1>6, <1>7, <1>8 DEF Works

LEMMA EndsPlan ==
    ASSUME Ends, NEW a, NEW h, NEW t, Opens(a, h, t)
    PROVE  Can(Now(a, h), script', t)
<1>1. ASSUME NEW o \in Verdicts, CloseDirectly(o)
      PROVE  Can(Now(a, h), script', t)
  BY <1>1, PlanCloseConfirmed, PlanCloseRefuted
<1>2. ASSUME NEW o \in Verdicts, SubmitClosure(o)
      PROVE  Can(Now(a, h), script', t)
  BY <1>2, PlanSubmitClosure
<1>3. ASSUME NEW o \in Verdicts, ApproveClosure(o)
      PROVE  Can(Now(a, h), script', t)
  BY <1>3, PlanApproveConfirmed, PlanApproveRefuted
<1>4. CASE RejectClosure
  BY <1>4, PlanRejectClosure
<1>5. ASSUME NEW u \in Users, Reopen(u)
      PROVE  Can(Now(a, h), script', t)
  BY <1>5, PlanReopenReady, PlanReopenPending
<1>6. CASE ApproveReopening
  BY <1>6, PlanApproveReopening
<1>7. CASE RejectReopening
  BY <1>7, PlanRejectReopening
<1> QED
  BY <1>1, <1>2, <1>3, <1>4, <1>5, <1>6, <1>7 DEF Ends

LEMMA RequestStarts ==
    ASSUME Request
    PROVE  Started
<1>1. CASE Creates
  BY <1>1, BeginsStarts DEF Creates, Runs, Ingest, Sibling, ManualCreate, SaveDraft
<1>2. CASE Drafts
  BY <1>2, BeginsStarts DEF Drafts, Runs, ApproveCreation, CompleteCreation, RejectCreation, Abandon
<1>3. CASE Triages
  BY <1>3, BeginsStarts DEF Triages, Runs, TriageReady, TriageClose, Predicted, AiInvestigate,
                            AiRefute, AiConfirm
<1>4. CASE Works
  BY <1>4, BeginsStarts DEF Works, Runs, Assign, Reassign, Begin, Unassign, FinishInvestigation,
                            Suspend, FileSAR, Resume
<1>5. CASE Ends
  BY <1>5, BeginsStarts DEF Ends, Runs, CloseDirectly, SubmitClosure, ApproveClosure, RejectClosure,
                            Reopen, ApproveReopening, RejectReopening
<1> QED
  BY <1>1, <1>2, <1>3, <1>4, <1>5 DEF Request

LEMMA RequestKeeps ==
    ASSUME FInv, Request
    PROVE  FInv'
<1>1. Started
  BY RequestStarts
<1>2. CASE refused
  BY <1>1, <1>2 DEF FInv, AcceptedInTurn, Started
<1>3. CASE ~refused
  <2>1. PICK a, h, t : Opening(a, h, t)
    BY <1>1, <1>3, FindsRest
  <2>2. Opens(a, h, t) /\ (t => odd' = {}) /\ t \in BOOLEAN
    BY <2>1 DEF Opening, Opens
  <2>3. Can(Now(a, h), script', t)
    BY <2>2, CreatesPlan, DraftsPlan, TriagesPlan, WorksPlan, EndsPlan DEF Request
  <2>4. Row(a, h, "nothing")' = Now(a, h)
    BY <1>1 DEF Row, Now, Started
  <2>5. Follows(Now(a, h), procs, loose, script', t)
    BY <2>1, <2>3 DEF Opening, Follows
  <2>6. Follows(Row(a, h, "nothing")', procs', loose', script', t) /\ (InTurn' => t)
    BY <1>1, <2>1, <2>4, <2>5 DEF Opening, Started
  <2>7. Mirrored'
    BY <2>2, <2>6 DEF Mirrored
  <2> QED
    BY <1>1, <1>3, <2>7 DEF FInv, AcceptedInTurn, Started
<1> QED
  BY <1>2, <1>3
-----------------------------------------------------------------------------
(***************************************************************************)
(* The theorems.                                                           *)
(***************************************************************************)
LEMMA NextKeeps ==
    ASSUME FInv, [Next]_vars
    PROVE  FInv'
<1>1. CASE Request
  BY <1>1, RequestKeeps
<1>2. CASE Writes
  BY <1>2, WritesKeeps
<1>3. CASE Sends
  BY <1>3, SendsKeeps
<1>4. CASE Calls
  BY <1>4, CallsKeeps
<1>5. CASE IsRefused
  BY <1>5, RefusedKeeps
<1>6. CASE Lost
  BY <1>6, LostKeeps
<1>7. ASSUME NEW k \in DOMAIN loose, Arrives(k)
      PROVE  FInv'
  BY <1>7, ArrivesKeeps
<1>8. ASSUME NEW k \in DOMAIN loose, IsRejected(k)
      PROVE  FInv'
  BY <1>8, RejectedKeeps
<1>9. CASE UNCHANGED vars
  BY <1>9 DEF vars, case, FInv, Mirrored, InTurn, Row, AcceptedInTurn
<1> QED
  BY <1>1, <1>2, <1>3, <1>4, <1>5, <1>6, <1>7, <1>8, <1>9 DEF Next, Request

\* Whatever the client, the listeners and Flowable have done, and until a call
\* has failed, the case follows a view of its instances; and no call fails in
\* turn.
THEOREM CaseFollowsView == Spec => []FInv
<1>1. Init => FInv
  BY InitMirrors
<1>2. FInv /\ [Next]_vars => FInv'
  BY NextKeeps
<1> QED
  BY <1>1, <1>2, PTL DEF Spec

\* A quiet case: the view is at rest, and nothing is on its way to it.
LEMMA QuietView ==
    ASSUME FInv, Quiet, ~refused
    PROVE  \E a, h, z : LET x == Row(a, h, z) IN
               /\ Rest(x) /\ Matches(x, procs, loose) /\ procs \in Seq(Instance)
               /\ \A k : ~Coming(loose, k)
               /\ ~Ending(loose)
               /\ Cardinality(Approved(loose)) = 0
<1>1. PICK a, h, z : \E t \in BOOLEAN : (InTurn => t) /\ Follows(Row(a, h, z), procs, loose, script, t)
  BY DEF FInv, Mirrored
<1>2. PICK t \in BOOLEAN : Follows(Row(a, h, z), procs, loose, script, t)
  BY <1>1
<1>3. DOMAIN loose = {}
  BY EmptySeq DEF Quiet
<1>4. Rest(Row(a, h, z))
  BY <1>2, CanTake DEF Follows, Stays, Quiet
<1>5. (\A k : ~Coming(loose, k)) /\ ~Ending(loose) /\ Approved(loose) = {}
  BY <1>3 DEF Coming, Ending, Approved
<1>6. Cardinality(Approved(loose)) = 0
  BY <1>5, FS_EmptySet
<1> QED
  BY <1>2, <1>4, <1>5, <1>6 DEF Follows

\* What every rest says of the row and of the view.
LEMMA RestWork ==
    ASSUME NEW a, NEW h, NEW z, Rest(Row(a, h, z))
    PROVE  /\ \A n \in TaskNames : desk[n] # "none" => a = n
           /\ a \in TaskNames /\ desk[a] # "none" /\ status # "SUSPENDED" => h \in {Nobody, desk[a]}
           /\ \A n \in TaskNames : a = n /\ status \in {"CLOSED", "ABANDONED"} => desk[n] # "none"
<1> DEFINE x == Row(a, h, z)
<1>1. x.status = status /\ x.owner = owner /\ x.desk = desk /\ x.at = a /\ x.holder = h
  BY DEF Row, View
<1>2. /\ \A n, m \in TaskNames : \A u : n # m => Desk(n, u)[m] = "none"
      /\ \A n \in TaskNames : \A u : Desk(n, u)[n] = u
      /\ \A n \in TaskNames : NoDesk[n] = "none"
  BY DEF Desk, NoDesk
<1>3. \A u \in Persons : u # "none"
  BY MirrorAssumption DEF Persons
<1>4. \/ desk = NoDesk /\ a \notin TaskNames
      \/ desk = NoDesk /\ status \notin {"CLOSED", "ABANDONED"}
      \/ \E n \in TaskNames, u \in Persons : /\ desk = Desk(n, u) /\ a = n
                                             /\ status # "SUSPENDED" => h \in {Nobody, u}
  <2>1. CASE RestNew(x) \/ RestClosed(x) \/ RestAbandoned(x)
    BY <1>1, <2>1 DEF RestNew, RestClosed, RestAbandoned, TaskNames
  <2>2. CASE RestRefuted(x) \/ RestConfirmed(x)
    BY <1>1, <2>2 DEF RestRefuted, RestConfirmed
  <2>3. CASE RestDraft(x)
    BY <1>1, <2>3 DEF RestDraft, TaskNames
  <2>4. CASE RestCreating(x) \/ RestReady(x) \/ RestClosing(x) \/ RestReopening(x)
    BY <1>1, <2>4 DEF RestCreating, RestReady, RestClosing, RestReopening, TaskNames, Persons
  <2>5. CASE RestAssigned(x) \/ RestWorking(x)
    BY <1>1, <2>5 DEF RestAssigned, RestWorking, TaskNames, Persons
  <2>6. CASE RestSuspended(x)
    BY <1>1, <2>6 DEF RestSuspended, TaskNames, Persons
  <2>7. CASE RestFiling(x)
    BY <1>1, <2>7 DEF RestFiling, TaskNames
  <2> HIDE DEF x
  <2> QED
    BY <2>1, <2>2, <2>3, <2>4, <2>5, <2>6, <2>7 DEF Rest, x
<1>5. CASE desk = NoDesk
  BY <1>2, <1>4, <1>5, <1>3
<1>6. CASE desk # NoDesk
  <2>1. PICK n \in TaskNames, u \in Persons : /\ desk = Desk(n, u) /\ a = n
                                              /\ status # "SUSPENDED" => h \in {Nobody, u}
    BY <1>4, <1>6
  <2>2. desk[n] = u /\ u # "none" /\ \A m \in TaskNames : m # n => desk[m] = "none"
    BY <1>2, <1>3, <2>1
  <2> QED
    BY <2>1, <2>2
<1> QED
  BY <1>5, <1>6

LEMMA MirrorsWork ==
    ASSUME FInv
    PROVE  WorkIsMirrored
<1> SUFFICES ASSUME Quiet, ~refused, NEW n \in TaskNames, desk[n] # "none"
             PROVE  \E p \in Live : procs[p].at = n
  BY DEF WorkIsMirrored
<1>1. PICK a, h, z : LET x == Row(a, h, z) IN
          /\ Rest(x) /\ Matches(x, procs, loose) /\ procs \in Seq(Instance)
          /\ \A k : ~Coming(loose, k)
          /\ ~Ending(loose)
          /\ Cardinality(Approved(loose)) = 0
  BY QuietView
<1> DEFINE x == Row(a, h, z)
<1>2. x.at = n
  BY <1>1, RestWork DEF Row, View
<1>3. CASE n \in Places
  <2>1. PICK p : Here(procs, p)
    BY <1>1, <1>2, <1>3 DEF Matches, Somewhere
  <2>2. procs[p].at = n /\ p \in DOMAIN procs
    BY <1>1, <1>2, <2>1 DEF Matches, Where, Here
  <2>3. n # "ended"
    BY DEF TaskNames
  <2> QED
    BY <2>2, <2>3 DEF Live
<1>4. CASE n = "ApproveClosure"
  <2>1. Cardinality(Approving(procs)) = 1
    BY <1>1, <1>2, <1>4 DEF Matches, Answered
  <2>2. Approving(procs) # {}
    BY <2>1, FS_EmptySet
  <2>3. PICK p \in DOMAIN procs : procs[p].at = "ApproveClosure"
    BY <2>2 DEF Approving
  <2> QED
    BY <1>4, <2>3 DEF Live
<1> QED
  BY <1>3, <1>4 DEF Places

LEMMA MirrorsClaims ==
    ASSUME FInv
    PROVE  NoForeignClaim
<1> SUFFICES ASSUME Quiet, ~refused, status # "SUSPENDED", NEW p \in Live, procs[p].at \in TaskNames,
                    desk[procs[p].at] # "none"
             PROVE  procs[p].holder \in {Nobody, desk[procs[p].at]}
  BY DEF NoForeignClaim
<1>1. PICK a, h, z : LET x == Row(a, h, z) IN
          /\ Rest(x) /\ Matches(x, procs, loose) /\ procs \in Seq(Instance)
          /\ \A k : ~Coming(loose, k)
          /\ ~Ending(loose)
          /\ Cardinality(Approved(loose)) = 0
  BY QuietView
<1> DEFINE x == Row(a, h, z)
<1>2. a = procs[p].at /\ x.at = a /\ x.holder = h
  BY <1>1, RestWork DEF Row, View
<1>3. h \in {Nobody, desk[a]}
  BY <1>1, <1>2, RestWork
<1>4. CASE procs[p].at \in Places
  <2>1. procs[p].holder = h
    BY <1>1, <1>2, <1>4 DEF Matches, Where, Here, Live
  <2> QED
    BY <1>2, <1>3, <2>1
<1>5. CASE procs[p].at = "ApproveClosure"
  BY <1>1, <1>5 DEF Matches, Unclaimed, Approving, Live
<1> QED
  BY <1>4, <1>5 DEF Places

LEMMA MirrorsEnd ==
    ASSUME FInv
    PROVE  FinishedIsEnded
<1> SUFFICES ASSUME Quiet, ~refused, status \in {"CLOSED", "ABANDONED"},
                    \A n \in TaskNames : desk[n] = "none", NEW p \in Live
             PROVE  procs[p].at = "AutoClose"
  BY DEF FinishedIsEnded
<1>1. PICK a, h, z : LET x == Row(a, h, z) IN
          /\ Rest(x) /\ Matches(x, procs, loose) /\ procs \in Seq(Instance)
          /\ \A k : ~Coming(loose, k)
          /\ ~Ending(loose)
          /\ Cardinality(Approved(loose)) = 0
  BY QuietView
<1> DEFINE x == Row(a, h, z)
<1>2. x.at = a /\ a \notin TaskNames
  BY <1>1, RestWork DEF Row, View
<1>3. p \in DOMAIN procs /\ procs[p].at \in Nodes /\ procs[p].at # "ended"
  <2>1. procs[p] \in Instance
    BY <1>1, LenProperties, ElementOfSeq DEF Live
  <2> QED
    BY <2>1 DEF Live, Instance
<1>4. procs[p].at \notin Places
  BY <1>1, <1>2, <1>3 DEF Matches, Where, Here, Places
<1>5. procs[p].at # "ApproveClosure"
  <2>1. Cardinality(Approving(procs)) = 0
    BY <1>1, <1>2 DEF Matches, Answered, TaskNames
  <2>2. IsFiniteSet(Approving(procs))
    BY <1>1, CountedP
  <2>3. Approving(procs) = {}
    BY <2>1, <2>2, FS_EmptySet
  <2> QED
    BY <1>3, <2>3 DEF Approving
<1> QED
  BY <1>3, <1>4, <1>5 DEF Nodes, Places

\* Until a call has failed, a quiet case has for each of its open tasks an
\* instance that waits there: the next request for the task finds it in Flowable
\* (task-event.listener.ts looks it up by name and throws without it).
THEOREM OpenTasksMirrored == Spec => []WorkIsMirrored
<1>1. FInv => WorkIsMirrored
  BY MirrorsWork
<1> QED
  BY <1>1, CaseFollowsView, PTL

\* Until a call has failed, no one but its assignee has claimed the task of a
\* quiet case that is not suspended, so that Flowable takes a claim for the
\* assignee: handleTaskAssigned and handleTaskReassigned keep the claims of
\* Flowable in step with the rows.
THEOREM ClaimsMirrored == Spec => []NoForeignClaim
<1>1. FInv => NoForeignClaim
  BY MirrorsClaims
<1> QED
  BY <1>1, CaseFollowsView, PTL

\* Until a call has failed, a quiet case that is closed or abandoned and has no
\* open task leaves no instance waiting, however often it was reopened, but for
\* the ones the AI's triage had closed without a word to Flowable.
THEOREM OverIsOver == Spec => []FinishedIsEnded
<1>1. FInv => FinishedIsEnded
  BY MirrorsEnd
<1> QED
  BY <1>1, CaseFollowsView, PTL

\* As long as each request waits for what the one before it sent, Flowable
\* answers, the AI takes no part and no one suspends the case of another, no
\* call is refused: no request fails half way, and no rejection nobody awaits
\* ends the server.
THEOREM NoneRefusedInTurn == Spec => []AcceptedInTurn
<1>1. FInv => AcceptedInTurn
  BY DEF FInv
<1> QED
  BY <1>1, CaseFollowsView, PTL
====

-------------------------- MODULE EmailQueueProofs --------------------------
(***************************************************************************)
(* Theorems of EmailQueue, for any number of emails, workers, attempts,    *)
(* faults and resets.  A step touches at most one row, one job and one     *)
(* count of copies, unless a worker takes up or loses a whole batch; the   *)
(* lemmas say what each may become, and that the rest is kept.             *)
(***************************************************************************)
EXTENDS EmailQueue, TLAPS

\* What the invariant asks of a row and of a job, given the copies sent: a row that
\* waits has an attempt left, and a worker that reports a delivery has made it.
RowOK(r, copies) ==
    /\ r \in [status : RowStatuses, retries : 0..MaxRetries, due : BOOLEAN]
    /\ r.status = "PENDING" => r.retries < MaxRetries
    /\ r.status = "FAILED" => r.retries = MaxRetries
    /\ r.status = "COMPLETED" => copies > 0
JobOK(j, copies) ==
    /\ j \in [step : Steps, seen : 0..(MaxRetries - 1)]
    /\ j.step = "complete" => copies > 0

QInv ==
    /\ TypeOK
    /\ \A e \in Emails : RowOK(row[e], sent[e])
    /\ \A w \in Workers, e \in Emails : JobOK(job[w][e], sent[e])

LEMMA InitQInv == Init => QInv
BY QueueAssumption
   DEF Init, QInv, TypeOK, RowOK, JobOK, Absent, Row, NoJob, Job, RowStatuses, Steps

LEMMA NoJobOK == ASSUME NEW copies PROVE JobOK(NoJob, copies)
BY QueueAssumption DEF NoJob, Job, JobOK, Steps

\* A step of one job on one row; copies are never taken back.
LEMMA JobStepKeeps ==
    ASSUME QInv, NEW w \in Workers, NEW e \in Emails, NEW r, NEW j, NEW c \in Nat,
           c >= sent[e], RowOK(r, c), JobOK(j, c),
           row' = [row EXCEPT ![e] = r],
           job' = [job EXCEPT ![w][e] = j],
           sent' = [sent EXCEPT ![e] = c],
           resets' = resets, faults' \in Nat
    PROVE  QInv'
<1>1. TypeOK
    BY DEF QInv
<1>2. /\ sent' \in [Emails -> Nat]
      /\ \A o \in Emails : sent'[o] = IF o = e THEN c ELSE sent[o]
    BY <1>1 DEF TypeOK
<1>3. \A o \in Emails : sent[o] \in Nat /\ sent'[o] \in Nat /\ sent'[o] >= sent[o]
    BY <1>1, <1>2 DEF TypeOK
<1>4. \A o \in Emails : row'[o] = IF o = e THEN r ELSE row[o]
    BY <1>1 DEF TypeOK
<1>5. \A o \in Emails : RowOK(row'[o], sent'[o])
    BY <1>2, <1>4 DEF QInv
<1>6. \A v \in Workers, o \in Emails :
        job'[v][o] = IF v = w /\ o = e THEN j ELSE job[v][o]
    BY <1>1 DEF TypeOK
<1>7. \A v \in Workers, o \in Emails : JobOK(job'[v][o], sent'[o])
    <2> TAKE v \in Workers, o \in Emails
    <2>1. CASE v = w /\ o = e
        BY <2>1, <1>2, <1>6
    <2>2. CASE ~(v = w /\ o = e)
        <3>1. job'[v][o] = job[v][o] /\ JobOK(job[v][o], sent[o])
            BY <2>2, <1>6 DEF QInv
        <3> QED
            BY <3>1, <1>3 DEF JobOK
    <2> QED
        BY <2>1, <2>2
<1>8. r \in [status : RowStatuses, retries : 0..MaxRetries, due : BOOLEAN]
    BY DEF RowOK
<1>9. j \in [step : Steps, seen : 0..(MaxRetries - 1)]
    BY DEF JobOK
<1>10. TypeOK'
    BY <1>1, <1>2, <1>8, <1>9 DEF TypeOK
<1> QED
    BY <1>5, <1>7, <1>10 DEF QInv

LEMMA UnsentStepKeeps ==
    ASSUME QInv, NEW w \in Workers, NEW e \in Emails, NEW r, NEW j,
           RowOK(r, sent[e]), JobOK(j, sent[e]),
           row' = [row EXCEPT ![e] = r],
           job' = [job EXCEPT ![w][e] = j],
           sent' = sent, resets' = resets, faults' \in Nat
    PROVE  QInv'
<1>1. sent[e] \in Nat /\ sent[e] >= sent[e] /\ sent' = [sent EXCEPT ![e] = sent[e]]
    BY DEF QInv, TypeOK
<1> QED
    BY <1>1, JobStepKeeps

\* A step of the queue's side on one row.
LEMMA RowStepKeeps ==
    ASSUME QInv, NEW e \in Emails, NEW r, RowOK(r, sent[e]),
           row' = [row EXCEPT ![e] = r],
           job' = job, sent' = sent, resets' \in [Emails -> Nat], faults' = faults
    PROVE  QInv'
<1>1. TypeOK
    BY DEF QInv
<1>2. \A o \in Emails : row'[o] = IF o = e THEN r ELSE row[o]
    BY <1>1 DEF TypeOK
<1>3. r \in [status : RowStatuses, retries : 0..MaxRetries, due : BOOLEAN]
    BY DEF RowOK
<1>4. TypeOK'
    BY <1>1, <1>3 DEF TypeOK
<1> QED
    BY <1>2, <1>4 DEF QInv

\* The queue's side: a row is created, comes due, or is put back.
LEMMA QueueKeepsQInv ==
    ASSUME QInv, NEW e \in Emails, Create(e) \/ ComesDue(e) \/ Reset(e)
    PROVE  QInv'
<1>1. RowOK(Row("PENDING", 0, TRUE), sent[e])
    BY QueueAssumption DEF RowOK, Row, RowStatuses
<1>2. resets \in [Emails -> Nat]
    BY DEF QInv, TypeOK
<1>3. CASE Create(e)
    BY <1>1, <1>2, <1>3, RowStepKeeps DEF Create
<1>4. CASE ComesDue(e)
    <2>1. RowOK(row[e], sent[e]) /\ row[e].status = "PENDING"
        BY <1>4 DEF QInv, ComesDue
    <2>2. RowOK(Row("PENDING", row[e].retries, TRUE), sent[e])
        BY <2>1 DEF RowOK, Row
    <2>3. row' = [row EXCEPT ![e] = Row("PENDING", row[e].retries, TRUE)]
        BY <1>4 DEF ComesDue
    <2> QED
        BY <1>2, <1>4, <2>2, <2>3, RowStepKeeps DEF ComesDue
<1>5. CASE Reset(e)
    <2>1. resets' \in [Emails -> Nat]
        BY <1>2, <1>5 DEF Reset
    <2> QED
        BY <1>1, <1>5, <2>1, RowStepKeeps DEF Reset
<1> QED
    BY <1>3, <1>4, <1>5

\* The worker's side: one step of an attempt.
LEMMA AttemptKeepsQInv ==
    ASSUME QInv, NEW w \in Workers, NEW e \in Emails, Attempt(w, e)
    PROVE  QInv'
<1> DEFINE r == row[e]  j == job[w][e]  c == sent[e]
<1>1. TypeOK /\ RowOK(r, c) /\ JobOK(j, c) /\ c \in Nat
    BY DEF QInv, TypeOK
<1>2. /\ row = [row EXCEPT ![e] = r]
      /\ sent = [sent EXCEPT ![e] = c]
    BY <1>1 DEF TypeOK
<1>3. \A step \in Steps \ {"complete"} : JobOK(Job(step, j.seen), c)
    BY <1>1 DEF JobOK, Job
<1>4. \A step \in Steps : GoesOn(w, e, step) =>
        job' = [job EXCEPT ![w][e] = Job(step, j.seen)]
    BY <1>1 DEF GoesOn, TypeOK
<1>5. Settles(w, e) => job' = [job EXCEPT ![w][e] = NoJob]
    BY DEF Settles
<1>6. JobOK(NoJob, c)
    BY NoJobOK
<1>7. Fault => faults' \in Nat
    BY <1>1 DEF Fault, TypeOK
<1>8. faults \in Nat
    BY <1>1 DEF TypeOK
<1> HIDE DEF r, j, c
<1>9. CASE Mark(w, e)
    <2>1. RowOK(Row("PROCESSING", r.retries, r.due), c)
        BY <1>1 DEF RowOK, Row, RowStatuses
    <2>2. row' = [row EXCEPT ![e] = Row("PROCESSING", r.retries, r.due)]
        BY <1>9 DEF Mark, r
    <2>3. /\ JobOK(Job("send", j.seen), c)
          /\ job' = [job EXCEPT ![w][e] = Job("send", j.seen)]
        BY <1>3, <1>4, <1>9 DEF Mark, Steps
    <2> QED
        BY <1>1, <1>2, <1>8, <1>9, <2>1, <2>2, <2>3, UnsentStepKeeps DEF Mark, c
<1>10. CASE Send(w, e)
    <2>1. RowOK(r, c + 1) /\ c + 1 \in Nat /\ c + 1 >= c /\ c + 1 > 0
        BY <1>1 DEF RowOK
    <2>2. JobOK(Job("complete", j.seen), c + 1)
        BY <1>1, <2>1 DEF JobOK, Steps, Job
    <2>3. job' = [job EXCEPT ![w][e] = Job("complete", j.seen)]
        BY <1>4, <1>10 DEF Send, Steps
    <2>4. sent' = [sent EXCEPT ![e] = c + 1]
        BY <1>10 DEF Send, c
    <2> QED
        BY <1>2, <1>8, <1>10, <2>1, <2>2, <2>3, <2>4, JobStepKeeps DEF Send, c
<1>11. CASE SendFails(w, e)
    <2>1. PICK taken \in {0, 1} : sent' = [sent EXCEPT ![e] = c + taken]
        BY <1>11 DEF SendFails, c
    <2>2. RowOK(r, c + taken) /\ c + taken \in Nat /\ c + taken >= c
        BY <1>1 DEF RowOK
    <2>3. JobOK(Job("fail", j.seen), c + taken)
        BY <1>1 DEF JobOK, Steps, Job
    <2>4. job' = [job EXCEPT ![w][e] = Job("fail", j.seen)]
        BY <1>4, <1>11 DEF SendFails, Steps
    <2> QED
        BY <1>2, <1>8, <1>11, <2>1, <2>2, <2>3, <2>4, JobStepKeeps DEF SendFails, c
<1>12. CASE Complete(w, e)
    <2>1. RowOK(Row("COMPLETED", r.retries, r.due), c)
        BY <1>1, <1>12 DEF RowOK, JobOK, Row, RowStatuses, Complete, j
    <2>2. row' = [row EXCEPT ![e] = Row("COMPLETED", r.retries, r.due)]
        BY <1>12 DEF Complete, r
    <2> QED
        BY <1>1, <1>2, <1>5, <1>6, <1>8, <1>12, <2>1, <2>2, UnsentStepKeeps DEF Complete, c
<1>13. CASE MarkFails(w, e)
    <2>1. /\ JobOK(Job("fail", j.seen), c)
          /\ job' = [job EXCEPT ![w][e] = Job("fail", j.seen)]
        BY <1>3, <1>4, <1>13 DEF MarkFails, Steps
    <2> QED
        BY <1>1, <1>2, <1>7, <1>13, <2>1, UnsentStepKeeps DEF MarkFails, c
<1>14. CASE Reschedule(w, e)
    <2>1. RowOK(Row("PENDING", j.seen + 1, FALSE), c)
        BY <1>1, <1>14, QueueAssumption DEF RowOK, JobOK, Row, RowStatuses, Reschedule, j
    <2>2. row' = [row EXCEPT ![e] = Row("PENDING", j.seen + 1, FALSE)]
        BY <1>14 DEF Reschedule, j
    <2> QED
        BY <1>1, <1>2, <1>5, <1>6, <1>8, <1>14, <2>1, <2>2, UnsentStepKeeps DEF Reschedule, c
<1>15. CASE GiveUp(w, e)
    <2> DEFINE failed == Row("FAILED", j.seen + 1, r.due)
    <2>1. RowOK(failed, c)
        BY <1>1, <1>15, QueueAssumption DEF RowOK, JobOK, Row, RowStatuses, GiveUp, j
    <2>2. row' = [row EXCEPT ![e] = failed]
        BY <1>1, <1>15 DEF GiveUp, r, j, TypeOK
    <2> QED
        BY <1>1, <1>2, <1>5, <1>6, <1>8, <1>15, <2>1, <2>2, UnsentStepKeeps DEF GiveUp, c
<1>16. CASE HandlingFails(w, e)
    BY <1>1, <1>2, <1>5, <1>6, <1>7, <1>16, UnsentStepKeeps DEF HandlingFails, c
<1> QED
    BY <1>9, <1>10, <1>11, <1>12, <1>13, <1>14, <1>15, <1>16 DEF Attempt

\* A worker takes up a batch, or loses the one it has.
LEMMA BatchKeepsQInv ==
    ASSUME QInv, NEW w \in Workers, Tick(w) \/ Crash(w)
    PROVE  QInv'
<1>1. TypeOK /\ row' = row /\ sent' = sent /\ resets' = resets /\ faults' \in Nat
    BY DEF QInv, TypeOK, Tick, Crash, Fault
<1>2. PICK batch : /\ job' = [job EXCEPT ![w] = [e \in Emails |-> batch[e]]]
                   /\ \A e \in Emails : JobOK(batch[e], sent[e])
    <2>1. CASE Tick(w)
        <3> DEFINE taken == [e \in Emails |->
                     IF e \in Picked THEN Job("mark", row[e].retries) ELSE NoJob]
        <3>1. \A e \in Picked : JobOK(Job("mark", row[e].retries), sent[e])
            <4> TAKE e \in Picked
            <4>1. e \in Emails /\ row[e].status = "PENDING"
                BY DEF Picked, Ready
            <4>2. row[e].retries \in 0..(MaxRetries - 1)
                BY <4>1, QueueAssumption DEF QInv, RowOK
            <4> QED
                BY <4>2 DEF JobOK, Job, Steps
        <3>2. \A e \in Emails : JobOK(taken[e], sent[e])
            BY <3>1, NoJobOK
        <3>3. job' = [job EXCEPT ![w] = [e \in Emails |-> taken[e]]]
            BY <2>1 DEF Tick
        <3> QED
            BY <3>2, <3>3
    <2>2. CASE Crash(w)
        <3> DEFINE none == [e \in Emails |-> NoJob]
        <3>1. \A e \in Emails : JobOK(none[e], sent[e])
            BY NoJobOK
        <3>2. job' = [job EXCEPT ![w] = [e \in Emails |-> none[e]]]
            BY <2>2 DEF Crash
        <3> QED
            BY <3>1, <3>2
    <2> QED
        BY <2>1, <2>2
<1>3. \A v \in Workers, e \in Emails :
        job'[v][e] = IF v = w THEN batch[e] ELSE job[v][e]
    BY <1>1, <1>2 DEF TypeOK
<1>4. \A v \in Workers, e \in Emails : JobOK(job'[v][e], sent'[e])
    BY <1>1, <1>2, <1>3 DEF QInv
<1>5. \A e \in Emails : batch[e] \in [step : Steps, seen : 0..(MaxRetries - 1)]
    BY <1>2 DEF JobOK
<1>6. TypeOK'
    BY <1>1, <1>2, <1>5 DEF TypeOK
<1> QED
    BY <1>1, <1>4, <1>6 DEF QInv

LEMMA NextKeepsQInv == QInv /\ [Next]_queue => QInv'
<1> SUFFICES ASSUME QInv, [Next]_queue PROVE QInv'
    OBVIOUS
<1>1. CASE UNCHANGED queue
    BY <1>1 DEF queue, QInv, TypeOK
<1>2. CASE \E e \in Emails : Create(e) \/ ComesDue(e) \/ Reset(e)
    BY <1>2, QueueKeepsQInv
<1>3. CASE \E w \in Workers : Tick(w) \/ Crash(w)
    BY <1>3, BatchKeepsQInv
<1>4. CASE \E w \in Workers, e \in Emails : Attempt(w, e)
    BY <1>4, AttemptKeepsQInv
<1> QED
    BY <1>1, <1>2, <1>3, <1>4 DEF Next

THEOREM QueueInvariant == Spec => []QInv
<1>1. Init => QInv
    BY InitQInv
<1>2. QInv /\ [Next]_queue => QInv'
    BY NextKeepsQInv
<1> QED
    BY <1>1, <1>2, PTL DEF Spec

\* A retry count stays within max_retries, and a job never starts from an exhausted
\* row, although the count a job writes back is the one it read a batch ago.
THEOREM QueueTypeCorrect == Spec => []TypeOK
<1>1. QInv => TypeOK
    BY DEF QInv
<1> QED
    BY <1>1, QueueInvariant, PTL

\* markAsCompleted reports no email that the mail server never took, with any number
\* of processes working on the same rows.
THEOREM CompletedAlwaysSent == Spec => []CompletedWasSent
<1>1. QInv => CompletedWasSent
    BY DEF QInv, RowOK, CompletedWasSent
<1> QED
    BY <1>1, QueueInvariant, PTL

\* markAsFailed gives up only after max_retries attempts, with any number of
\* processes working on the same rows.
THEOREM FailedAlwaysExhausted == Spec => []FailedIsExhausted
<1>1. QInv => FailedIsExhausted
    BY DEF QInv, RowOK, FailedIsExhausted
<1> QED
    BY <1>1, QueueInvariant, PTL
-----------------------------------------------------------------------------
(***************************************************************************)
(* One worker.  The copies of an email are charged to its resets, each of  *)
(* which pays for max_retries of them, and to the attempts its row or its  *)
(* job has counted since the last one.  A reset while the job is sending   *)
(* leaves a row that waits although a copy is still to come: what the      *)
(* reset pays for covers that copy.                                        *)
(***************************************************************************)
OneWorker == \E w : Workers = {w}

Paid(n) == MaxRetries * n

\* What is asked of an email with row r, job j, c copies, of which p are paid for.
Charged(r, j, c, p) ==
    /\ r.status = "ABSENT" => c = 0 /\ j.step = "none"
    /\ r.status = "PENDING" => c <= p + r.retries
    /\ r.status = "PENDING" /\ j.step = "send" => c + 1 <= p + r.retries
    /\ j.step \in {"mark", "send"} => c <= p + j.seen
    /\ j.step \in {"complete", "fail"} => c <= p + j.seen + 1
    /\ c <= p + MaxRetries

CInv == \A w \in Workers, e \in Emails : Charged(row[e], job[w][e], sent[e], Paid(resets[e]))

LEMMA PaidOK == \A n \in Nat : Paid(n) \in Nat /\ Paid(n + 1) = Paid(n) + MaxRetries
BY QueueAssumption DEF Paid

\* What the rows, jobs and counts range over.
LEMMA Known ==
    ASSUME QInv, NEW w \in Workers, NEW e \in Emails
    PROVE  /\ row[e].status \in RowStatuses /\ row[e].retries \in 0..MaxRetries
           /\ job[w][e].step \in Steps /\ job[w][e].seen \in 0..(MaxRetries - 1)
           /\ sent[e] \in Nat /\ resets[e] \in Nat /\ Paid(resets[e]) \in Nat
           /\ row[e].status = "PENDING" => row[e].retries < MaxRetries
BY PaidOK DEF QInv, TypeOK, RowOK

\* A step about one email, with no other worker to have a job for it.
LEMMA ChargedStep ==
    ASSUME QInv, CInv, OneWorker, NEW w \in Workers, NEW e \in Emails,
           NEW r, NEW j, NEW c, NEW n,
           row' = [row EXCEPT ![e] = r], job' = [job EXCEPT ![w][e] = j],
           sent' = [sent EXCEPT ![e] = c], resets' = [resets EXCEPT ![e] = n],
           Charged(r, j, c, Paid(n))
    PROVE  CInv'
<1>1. /\ row'[e] = r /\ job'[w][e] = j /\ sent'[e] = c /\ resets'[e] = n
      /\ \A o \in Emails \ {e} : /\ row'[o] = row[o] /\ job'[w][o] = job[w][o]
                                 /\ sent'[o] = sent[o] /\ resets'[o] = resets[o]
    BY DEF QInv, TypeOK
<1>2. \A v \in Workers : v = w
    BY DEF OneWorker
<1>3. \A o \in Emails : Charged(row'[o], job'[w][o], sent'[o], Paid(resets'[o]))
    BY <1>1 DEF CInv
<1> QED
    BY <1>2, <1>3 DEF CInv

\* What a step leaves alone.
LEMMA Unwritten ==
    ASSUME QInv, NEW w \in Workers, NEW e \in Emails
    PROVE  /\ row = [row EXCEPT ![e] = row[e]] /\ job = [job EXCEPT ![w][e] = job[w][e]]
           /\ sent = [sent EXCEPT ![e] = sent[e]] /\ resets = [resets EXCEPT ![e] = resets[e]]
BY DEF QInv, TypeOK

\* One step of an attempt.
LEMMA AttemptKeepsCInv ==
    ASSUME QInv, CInv, OneWorker, NEW w \in Workers, NEW e \in Emails, Attempt(w, e)
    PROVE  CInv'
<1> DEFINE r == row[e]  j == job[w][e]  c == sent[e]  p == Paid(resets[e])
<1>1. /\ Charged(r, j, c, p)
      /\ r.status \in RowStatuses /\ r.retries \in 0..MaxRetries
      /\ j.step \in Steps /\ j.seen \in 0..(MaxRetries - 1) /\ c \in Nat /\ p \in Nat
    BY Known DEF CInv
<1>2. /\ row = [row EXCEPT ![e] = r] /\ sent = [sent EXCEPT ![e] = c]
      /\ resets' = [resets EXCEPT ![e] = resets[e]]
    BY Unwritten DEF Attempt, Mark, Send, SendFails, Complete, MarkFails, Reschedule, GiveUp,
                     HandlingFails
<1>3. \A step : GoesOn(w, e, step) => job' = [job EXCEPT ![w][e] = Job(step, j.seen)]
    BY DEF GoesOn, QInv, TypeOK
<1>4. Settles(w, e) => job' = [job EXCEPT ![w][e] = NoJob]
    BY DEF Settles
<1>5. ASSUME NEW x, NEW y, NEW d, row' = [row EXCEPT ![e] = x], job' = [job EXCEPT ![w][e] = y],
             sent' = [sent EXCEPT ![e] = d], Charged(x, y, d, p)
      PROVE  CInv'
    BY <1>2, <1>5, ChargedStep
<1>6. /\ \A step : Job(step, j.seen).step = step /\ Job(step, j.seen).seen = j.seen
      /\ NoJob.step = "none"
      /\ \A s, n, due : Row(s, n, due).status = s /\ Row(s, n, due).retries = n
    BY DEF Job, NoJob, Row
<1>7. MaxRetries \in Nat
    BY QueueAssumption
<1> HIDE DEF r, j, c, p
<1>8. CASE Mark(w, e)
    <2>1. Charged(Row("PROCESSING", r.retries, r.due), Job("send", j.seen), c, p)
        BY <1>1, <1>6, <1>8 DEF Charged, Mark, j
    <2>2. row' = [row EXCEPT ![e] = Row("PROCESSING", r.retries, r.due)] /\ sent' = sent
        BY <1>8 DEF Mark, r
    <2> QED
        <3>1. job' = [job EXCEPT ![w][e] = Job("send", j.seen)] /\ sent' = [sent EXCEPT ![e] = c]
            BY <1>2, <1>3, <1>8, <2>2 DEF Mark
        <3> QED
            BY <1>5, <2>1, <2>2, <3>1
<1>9. CASE Send(w, e)
    <2>1. Charged(r, Job("complete", j.seen), c + 1, p)
        BY <1>1, <1>6, <1>7, <1>9 DEF Charged, Send, j
    <2>2. sent' = [sent EXCEPT ![e] = c + 1] /\ row' = row
        BY <1>9 DEF Send, c
    <2> QED
        BY <1>2, <1>3, <1>5, <1>9, <2>1, <2>2 DEF Send
<1>10. CASE SendFails(w, e)
    <2>1. PICK taken \in {0, 1} : sent' = [sent EXCEPT ![e] = c + taken]
        BY <1>10 DEF SendFails, c
    <2>2. Charged(r, Job("fail", j.seen), c + taken, p)
        BY <1>1, <1>6, <1>7, <1>10 DEF Charged, SendFails, j
    <2> QED
        BY <1>2, <1>3, <1>5, <1>10, <2>1, <2>2 DEF SendFails
<1>11. CASE Complete(w, e)
    <2>1. Charged(Row("COMPLETED", r.retries, r.due), NoJob, c, p)
        BY <1>1, <1>6 DEF Charged
    <2>2. row' = [row EXCEPT ![e] = Row("COMPLETED", r.retries, r.due)] /\ sent' = sent
        BY <1>11 DEF Complete, r
    <2> QED
        BY <1>2, <1>4, <1>5, <1>11, <2>1, <2>2 DEF Complete
<1>12. CASE MarkFails(w, e)
    <2>1. Charged(r, Job("fail", j.seen), c, p)
        BY <1>1, <1>6, <1>12 DEF Charged, MarkFails, j
    <2> QED
        BY <1>2, <1>3, <1>5, <1>12, <2>1 DEF MarkFails
<1>13. CASE Reschedule(w, e)
    <2>1. Charged(Row("PENDING", j.seen + 1, FALSE), NoJob, c, p)
        <3>1. ASSUME NEW x, NEW y, x = Row("PENDING", j.seen + 1, FALSE), y = NoJob
              PROVE  Charged(x, y, c, p)
            <4>1. x.status = "PENDING" /\ x.retries = j.seen + 1 /\ y.step = "none"
                BY <3>1 DEF Row, NoJob, Job
            <4>2. j.step = "fail"
                BY <1>13 DEF Reschedule, j
            <4> QED
                BY <1>1, <4>1, <4>2 DEF Charged
        <3> QED
            BY <3>1
    <2>2. row' = [row EXCEPT ![e] = Row("PENDING", j.seen + 1, FALSE)] /\ sent' = sent
        BY <1>13 DEF Reschedule, j
    <2> QED
        BY <1>2, <1>4, <1>5, <1>13, <2>1, <2>2 DEF Reschedule
<1>14. CASE GiveUp(w, e)
    <2>1. Charged(Row("FAILED", j.seen + 1, r.due), NoJob, c, p)
        BY <1>1, <1>6 DEF Charged
    <2>2. row' = [row EXCEPT ![e] = Row("FAILED", j.seen + 1, r.due)] /\ sent' = sent
        BY <1>14 DEF GiveUp, r, j, QInv, TypeOK
    <2> QED
        BY <1>2, <1>4, <1>5, <1>14, <2>1, <2>2 DEF GiveUp
<1>15. CASE HandlingFails(w, e)
    <2>1. Charged(r, NoJob, c, p)
        BY <1>1, <1>6 DEF Charged
    <2> QED
        BY <1>2, <1>4, <1>5, <1>15, <2>1 DEF HandlingFails
<1> QED
    BY <1>8, <1>9, <1>10, <1>11, <1>12, <1>13, <1>14, <1>15 DEF Attempt

\* A row is created, comes due, or is put back while its job may be under way.
LEMMA QueueKeepsCInv ==
    ASSUME QInv, CInv, OneWorker, NEW e \in Emails, Create(e) \/ ComesDue(e) \/ Reset(e)
    PROVE  CInv'
<1>1. SUFFICES ASSUME NEW w \in Workers, NEW o \in Emails
               PROVE  Charged(row'[o], job'[w][o], sent'[o], Paid(resets'[o]))
    BY DEF CInv
<1>2. Charged(row[o], job[w][o], sent[o], Paid(resets[o])) /\ UNCHANGED <<job, sent>>
    BY DEF CInv, Create, ComesDue, Reset
<1>3. CASE o # e
    BY <1>2, <1>3 DEF Create, ComesDue, Reset, QInv, TypeOK
<1>4. CASE o = e
    <2> DEFINE r == row[e]  j == job[w][e]  c == sent[e]  p == Paid(resets[e])
    <2>1. /\ Charged(r, j, c, p)
          /\ r.status \in RowStatuses /\ r.retries \in 0..MaxRetries
          /\ j.step \in Steps /\ j.seen \in 0..(MaxRetries - 1) /\ c \in Nat /\ p \in Nat
        BY <1>2, <1>4, Known
    <2>2. MaxRetries \in Nat /\ MaxRetries > 0 /\ Paid(resets[e] + 1) = p + MaxRetries
        BY QueueAssumption, PaidOK DEF QInv, TypeOK
    <2>3. /\ Create(e) => row'[e] = Row("PENDING", 0, TRUE) /\ resets'[e] = resets[e] /\ r.status = "ABSENT"
          /\ ComesDue(e) => /\ row'[e] = Row("PENDING", r.retries, TRUE) /\ r.status = "PENDING"
                            /\ resets'[e] = resets[e]
          /\ Reset(e) => row'[e] = Row("PENDING", 0, TRUE) /\ resets'[e] = resets[e] + 1
                         /\ r.status # "ABSENT"
        BY DEF Create, ComesDue, Reset, QInv, TypeOK
    <2>4. ASSUME NEW x, NEW n \in Nat, x = Row("PENDING", n, TRUE)
          PROVE  x.status = "PENDING" /\ x.retries = n
        BY <2>4 DEF Row
    <2> HIDE DEF r, j, c, p
    <2>5. Create(e) => Charged(Row("PENDING", 0, TRUE), j, c, p)
        <3>1. ASSUME Create(e), NEW x, x = Row("PENDING", 0, TRUE) PROVE Charged(x, j, c, p)
            <4>1. x.status = "PENDING" /\ x.retries = 0 /\ r.status = "ABSENT"
                BY <2>3, <2>4, <3>1
            <4> QED
                BY <2>1, <2>2, <4>1 DEF Charged
        <3> QED
            BY <3>1
    <2>6. ComesDue(e) => Charged(Row("PENDING", r.retries, TRUE), j, c, p)
        <3>1. ASSUME ComesDue(e), NEW x, x = Row("PENDING", r.retries, TRUE) PROVE Charged(x, j, c, p)
            <4>0. r.retries \in Nat
                BY <2>1, <2>2
            <4>1. x.status = "PENDING" /\ x.retries = r.retries /\ r.status = "PENDING"
                BY <2>3, <2>4, <3>1, <4>0
            <4> QED
                BY <2>1, <4>1 DEF Charged
        <3> QED
            BY <3>1
    <2>7. Reset(e) => Charged(Row("PENDING", 0, TRUE), j, c, p + MaxRetries)
        <3>1. ASSUME NEW x, x = Row("PENDING", 0, TRUE) PROVE Charged(x, j, c, p + MaxRetries)
            <4>1. x.status = "PENDING" /\ x.retries = 0
                BY <2>4, <3>1
            <4> QED
                BY <2>1, <2>2, <4>1 DEF Charged, Steps
        <3> QED
            BY <3>1
    <2> QED
        BY <1>2, <1>4, <2>2, <2>3, <2>5, <2>6, <2>7 DEF j, c, p
<1> QED
    BY <1>3, <1>4

\* The worker takes up a batch when it has no job left, or loses the one it has.
LEMMA BatchKeepsCInv ==
    ASSUME QInv, CInv, OneWorker, NEW w \in Workers, Tick(w) \/ Crash(w)
    PROVE  CInv'
<1>1. UNCHANGED <<row, sent, resets>>
    BY DEF Tick, Crash
<1>2. SUFFICES ASSUME NEW e \in Emails
               PROVE  Charged(row[e], job'[w][e], sent[e], Paid(resets[e]))
    BY <1>1 DEF CInv, OneWorker
<1>3. /\ Charged(row[e], job[w][e], sent[e], Paid(resets[e]))
      /\ row[e].retries \in 0..MaxRetries
    BY Known DEF CInv
<1>4. CASE job'[w][e] = NoJob
    BY <1>3, <1>4 DEF Charged, NoJob, Job
<1>5. CASE job'[w][e] # NoJob
    <2>1. e \in Picked /\ job'[w][e] = Job("mark", row[e].retries)
        BY <1>5 DEF Tick, Crash, QInv, TypeOK
    <2>2. row[e].status = "PENDING"
        BY <2>1 DEF Picked, Ready
    <2>3. Job("mark", row[e].retries).step = "mark" /\ Job("mark", row[e].retries).seen = row[e].retries
        BY DEF Job
    <2> QED
        BY <1>3, <2>1, <2>2, <2>3 DEF Charged
<1> QED
    BY <1>4, <1>5

LEMMA NextKeepsCInv == OneWorker /\ QInv /\ CInv /\ [Next]_queue => CInv'
<1> SUFFICES ASSUME OneWorker, QInv, CInv, [Next]_queue PROVE CInv'
    OBVIOUS
<1>1. CASE UNCHANGED queue
    BY <1>1 DEF queue, CInv
<1>2. CASE \E e \in Emails : Create(e) \/ ComesDue(e) \/ Reset(e)
    BY <1>2, QueueKeepsCInv
<1>3. CASE \E w \in Workers : Tick(w) \/ Crash(w)
    BY <1>3, BatchKeepsCInv
<1>4. CASE \E w \in Workers, e \in Emails : Attempt(w, e)
    BY <1>4, AttemptKeepsCInv
<1> QED
    BY <1>1, <1>2, <1>3, <1>4 DEF Next

LEMMA InitCInv == Init => CInv
<1> SUFFICES ASSUME Init, NEW w \in Workers, NEW e \in Emails
             PROVE  Charged(row[e], job[w][e], sent[e], Paid(resets[e]))
    BY DEF CInv
<1>1. row[e] = Absent /\ job[w][e] = NoJob /\ sent[e] = 0 /\ Paid(resets[e]) \in Nat
    BY PaidOK DEF Init
<1> QED
    BY <1>1, QueueAssumption DEF Charged, Absent, Row, NoJob, Job

\* markAsProcessing, sendMail and handleTaskFailure: while there is one backend
\* process, no email is mailed more than max_retries times for each time it was
\* queued, however its attempts, its resets and the crashes interleave.
THEOREM CopiesAlwaysBounded == OneWorker => (Spec => []CopiesBounded)
<1> SUFFICES ASSUME OneWorker PROVE Spec => []CopiesBounded
    OBVIOUS
<1>1. QInv /\ CInv => CopiesBounded
    <2> SUFFICES ASSUME QInv, CInv, NEW e \in Emails
                 PROVE  sent[e] <= MaxRetries * (1 + resets[e])
        BY DEF CopiesBounded
    <2>0. PICK w : w \in Workers
        BY DEF OneWorker
    <2>1. sent[e] <= Paid(resets[e]) + MaxRetries /\ resets[e] \in Nat
        BY <2>0, Known DEF CInv, Charged
    <2>2. Paid(resets[e] + 1) = Paid(resets[e]) + MaxRetries /\ 1 + resets[e] = resets[e] + 1
        BY <2>1, PaidOK
    <2> QED
        BY <2>1, <2>2 DEF Paid
<1>2. QInv /\ CInv /\ [Next]_queue => CInv'
    BY NextKeepsCInv
<1> QED
    BY <1>1, <1>2, InitCInv, QueueInvariant, PTL DEF Spec
=============================================================================

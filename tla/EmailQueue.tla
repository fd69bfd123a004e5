----------------------------- MODULE EmailQueue -----------------------------
(***************************************************************************)
(* The outgoing mail of the case-management backend: rows of table         *)
(* `async_tasks`, and the worker of each backend process that sends them.  *)
(* NotificationService queues a row; every five seconds the worker, unless *)
(* it is still busy, reads the rows that are due and works on all of them  *)
(* at once; a failed attempt is scheduled again, later each time, until    *)
(* max_retries attempts have been made.  An operator may put a row back    *)
(* into the queue.                                                         *)
(*                                                                         *)
(* A job is what is left of an attempt: it keeps the retry count its row   *)
(* had when it was read.  A status write can fail and a process can crash  *)
(* between any two steps; the mail server may have taken a message whose   *)
(* sending it reports, or leaves unanswered, as an error.                  *)
(***************************************************************************)
EXTENDS Integers, FiniteSets, Functions

CONSTANTS
    MaxEmails,    \* how many emails are ever queued
    Workers,      \* backend processes, each with one worker
    MaxRetries,   \* async_tasks.max_retries
    Limit,        \* how many rows a worker reads at once
    MaxResets,    \* bound on the times an operator resets rows
    MaxFaults     \* bound on failed status writes and crashes

ASSUME QueueAssumption ==
    /\ MaxEmails \in Nat /\ MaxRetries \in Nat \ {0} /\ Limit \in Nat \ {0}
    /\ MaxResets \in Nat /\ MaxFaults \in Nat

Emails == 1..MaxEmails   \* in the order of created_at

VARIABLES
    row,     \* the rows: status, retry_count, and whether next_retry_at is past
    job,     \* what each worker still has to do for an email
    sent,    \* how many copies of an email the mail server has taken
    resets,  \* how many times an operator has reset each row
    faults   \* how many status writes have failed and processes have crashed

queue == <<row, job, sent, resets, faults>>

RowStatuses == {"ABSENT", "PENDING", "PROCESSING", "COMPLETED", "FAILED"}
Row(s, n, d) == [status |-> s, retries |-> n, due |-> d]
Absent == Row("ABSENT", 0, FALSE)

Steps == {"mark", "send", "complete", "fail", "none"}
Job(step, n) == [step |-> step, seen |-> n]
NoJob == Job("none", 0)

Init ==
    /\ row = [e \in Emails |-> Absent]
    /\ job = [w \in Workers |-> [e \in Emails |-> NoJob]]
    /\ sent = [e \in Emails |-> 0]
    /\ resets = [e \in Emails |-> 0]
    /\ faults = 0
-----------------------------------------------------------------------------
\* createEmailTask, for every notification.
Create(e) ==
    /\ row[e].status = "ABSENT"
    /\ \A o \in Emails : o < e => row[o].status # "ABSENT"
    /\ row' = [row EXCEPT ![e] = Row("PENDING", 0, TRUE)]
    /\ UNCHANGED <<job, sent, resets, faults>>

\* next_retry_at comes.
ComesDue(e) ==
    /\ row[e].status = "PENDING" /\ ~row[e].due
    /\ row' = [row EXCEPT ![e] = Row("PENDING", @.retries, TRUE)]
    /\ UNCHANGED <<job, sent, resets, faults>>

AllResets == FoldFunction(+, 0, resets)

\* retryFailedTask, whatever the status of the row.
Reset(e) ==
    /\ row[e].status # "ABSENT"
    /\ AllResets < MaxResets
    /\ row' = [row EXCEPT ![e] = Row("PENDING", 0, TRUE)]
    /\ resets' = [resets EXCEPT ![e] = @ + 1]
    /\ UNCHANGED <<job, sent, faults>>
-----------------------------------------------------------------------------
Working(w, e) == job[w][e].step # "none"

\* Mutant: the flag is looked up in the table.
BusyRows(w) == \E e \in Emails : row[e].status = "PROCESSING"

\* isProcessing: until every job of the batch has settled.
Busy(w) == \E e \in Emails : Working(w, e)

Ready == {e \in Emails : row[e].status = "PENDING" /\ row[e].due}
\* ORDER BY created_at LIMIT; the locks the query takes end with the query.
Picked == {e \in Ready : Cardinality({o \in Ready : o < e}) < Limit}

\* processEmailQueue finds something to do.
Tick(w) ==
    /\ ~Busy(w)
    /\ Ready # {}
    /\ job' = [job EXCEPT ![w] = [e \in Emails |->
                 IF e \in Picked THEN Job("mark", row[e].retries) ELSE NoJob]]
    /\ UNCHANGED <<row, sent, resets, faults>>

GoesOn(w, e, step) == job' = [job EXCEPT ![w][e] = Job(step, @.seen)]
Settles(w, e) == job' = [job EXCEPT ![w][e] = NoJob]
Fault == faults < MaxFaults /\ faults' = faults + 1

Mark(w, e) ==
    /\ job[w][e].step = "mark"
    /\ row' = [row EXCEPT ![e] = Row("PROCESSING", @.retries, @.due)]
    /\ GoesOn(w, e, "send")
    /\ UNCHANGED <<sent, resets, faults>>

Send(w, e) ==
    /\ job[w][e].step = "send"
    /\ sent' = [sent EXCEPT ![e] = @ + 1]
    /\ GoesOn(w, e, "complete")
    /\ UNCHANGED <<row, resets, faults>>

\* Mutant: the error is swallowed.
SendFailsSilently(w, e) ==
    /\ job[w][e].step = "send"
    /\ GoesOn(w, e, "complete")
    /\ UNCHANGED <<row, sent, resets, faults>>

\* sendMail throws; the server may have taken the message all the same.
SendFails(w, e) ==
    /\ job[w][e].step = "send"
    /\ \E taken \in {0, 1} : sent' = [sent EXCEPT ![e] = @ + taken]
    /\ GoesOn(w, e, "fail")
    /\ UNCHANGED <<row, resets, faults>>

Complete(w, e) ==
    /\ job[w][e].step = "complete"
    /\ row' = [row EXCEPT ![e] = Row("COMPLETED", @.retries, @.due)]
    /\ Settles(w, e)
    /\ UNCHANGED <<sent, resets, faults>>

\* markAsProcessing or markAsCompleted throws: handled like a failed sending.
MarkFails(w, e) ==
    /\ job[w][e].step \in {"mark", "complete"}
    /\ Fault
    /\ GoesOn(w, e, "fail")
    /\ UNCHANGED <<row, sent, resets>>

\* Mutant: the attempt is not counted.
RescheduleForever(w, e) ==
    LET n == job[w][e].seen + 1 IN
    /\ job[w][e].step = "fail" /\ n < MaxRetries
    /\ row' = [row EXCEPT ![e] = Row("PENDING", n - 1, FALSE)]
    /\ Settles(w, e)
    /\ UNCHANGED <<sent, resets, faults>>

\* Mutant: one attempt more than max_retries.
RescheduleOnceMore(w, e) ==
    LET n == job[w][e].seen + 1 IN
    /\ job[w][e].step = "fail" /\ n <= MaxRetries
    /\ row' = [row EXCEPT ![e] = Row("PENDING", n, FALSE)]
    /\ Settles(w, e)
    /\ UNCHANGED <<sent, resets, faults>>

\* handleTaskFailure: again later ...
Reschedule(w, e) ==
    LET n == job[w][e].seen + 1 IN
    /\ job[w][e].step = "fail" /\ n < MaxRetries
    /\ row' = [row EXCEPT ![e] = Row("PENDING", n, FALSE)]
    /\ Settles(w, e)
    /\ UNCHANGED <<sent, resets, faults>>

\* Mutant: the count before this attempt is written.
GiveUpEarlier(w, e) ==
    LET n == job[w][e].seen + 1 IN
    /\ job[w][e].step = "fail" /\ n >= MaxRetries
    /\ row' = [row EXCEPT ![e] = Row("FAILED", n - 1, @.due)]
    /\ Settles(w, e)
    /\ UNCHANGED <<sent, resets, faults>>

\* ... or never.
GiveUp(w, e) ==
    LET n == job[w][e].seen + 1 IN
    /\ job[w][e].step = "fail" /\ n >= MaxRetries
    /\ row' = [row EXCEPT ![e] = Row("FAILED", n, @.due)]
    /\ Settles(w, e)
    /\ UNCHANGED <<sent, resets, faults>>

\* scheduleRetry or markAsFailed throws: allSettled logs it, the row stays.
HandlingFails(w, e) ==
    /\ job[w][e].step = "fail"
    /\ Fault
    /\ Settles(w, e)
    /\ UNCHANGED <<row, sent, resets>>

\* The process dies with its jobs and starts again.
Crash(w) ==
    /\ Busy(w)
    /\ Fault
    /\ job' = [job EXCEPT ![w] = [e \in Emails |-> NoJob]]
    /\ UNCHANGED <<row, sent, resets>>
-----------------------------------------------------------------------------
Attempt(w, e) ==
    \/ Mark(w, e) \/ Send(w, e) \/ SendFails(w, e) \/ Complete(w, e) \/ MarkFails(w, e)
    \/ Reschedule(w, e) \/ GiveUp(w, e) \/ HandlingFails(w, e)

Next ==
    \/ \E e \in Emails : Create(e) \/ ComesDue(e) \/ Reset(e)
    \/ \E w \in Workers : Tick(w) \/ Crash(w) \/ \E e \in Emails : Attempt(w, e)

\* The cron job of a process fires for ever, a status write answers or throws, so
\* does sendMail (the mail client has timeouts), and time passes.
Fairness ==
    /\ \A e \in Emails : WF_queue(ComesDue(e))
    /\ \A w \in Workers : WF_queue(Tick(w)) /\ \A e \in Emails : WF_queue(Attempt(w, e))

Spec == Init /\ [][Next]_queue
FairSpec == Spec /\ Fairness
-----------------------------------------------------------------------------
\* Columns and jobs keep to their types.
TypeOK ==
    /\ row \in [Emails -> [status : RowStatuses, retries : 0..MaxRetries, due : BOOLEAN]]
    /\ job \in [Workers -> [Emails -> [step : Steps, seen : 0..(MaxRetries - 1)]]]
    /\ sent \in [Emails -> Nat]
    /\ resets \in [Emails -> Nat]
    /\ faults \in Nat

\* Nothing is reported as delivered that the mail server has not taken.
CompletedWasSent ==
    \A e \in Emails : row[e].status = "COMPLETED" => sent[e] > 0

\* The queue gives up only after max_retries attempts.
FailedIsExhausted ==
    \A e \in Emails : row[e].status = "FAILED" => row[e].retries = MaxRetries

\* One worker mails nobody more than max_retries copies of an email for every time
\* it was put into the queue, whatever answers, writes or processes are lost.
CopiesBounded ==
    \A e \in Emails : sent[e] <= MaxRetries * (1 + resets[e])

\* A row nobody works on although it says PROCESSING: no query will find it again.
Stuck(e) == row[e].status = "PROCESSING" /\ \A w \in Workers : ~Working(w, e)

\* A queued email is delivered, given up, or left behind by a fault: emails that
\* are tried again and again do not keep the others waiting for ever.
EveryEmailSettles ==
    \A e \in Emails :
        row[e].status = "PENDING" ~> row[e].status \in {"COMPLETED", "FAILED"} \/ Stuck(e)
=============================================================================

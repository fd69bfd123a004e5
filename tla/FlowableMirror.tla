---- MODULE FlowableMirror ----
(***************************************************************************)
(* How the server keeps the Flowable process of a case in step with its    *)
(* rows.  Here a case is its status, its owner and its open tasks with     *)
(* their assignees; the rows are modelled in full by CaseIntake and        *)
(* CaseWorkflow, and a handler is the order in which it writes them and    *)
(* calls the listeners.                                                    *)
(*                                                                         *)
(* A handler becomes a script of writes and calls.  A call is awaited,     *)
(* awaited with retries, awaited with retries and its last error           *)
(* swallowed, or sent and forgotten.  A refused call ends the script; a    *)
(* write that stands behind it was to commit only then.  When a call       *)
(* nobody awaits is refused, its rejected promise ends the process.        *)
(*                                                                         *)
(* Requests are the ones the client offers, one at a time; what was sent   *)
(* and forgotten may still be on its way when the next one starts.         *)
(***************************************************************************)
EXTENDS FlowableProcess, SequencesExt

CONSTANTS Investigators, Supervisors, ComplianceOfficers,
          Verdicts,       \* final outcomes
          MaxLoose,       \* calls still on their way when a request starts
          MaxFaults       \* calls lost

ASSUME MirrorAssumption == /\ MaxLoose \in Nat /\ MaxFaults \in Nat
                           /\ Users = Investigators \cup Supervisors \cup ComplianceOfficers
                           /\ "none" \notin Users \cup {Nobody}

VARIABLES status, owner,
          desk,      \* the open task of each name: its assignee, Nobody, or "none"
          script,    \* what the request being handled has left to do
          loose,     \* calls sent and not awaited, in any order they may arrive
          refused,   \* a call has failed
          odd,       \* what the mirror is known not to survive, once it has happened
          faults

case == <<status, owner, desk>>
vars == <<status, owner, desk, procs, script, loose, refused, odd, faults>>

Write(s, o, d) == [do |-> "write", status |-> s, owner |-> o, desk |-> d]
Await(c) == [do |-> "await", call |-> c]
Retry(c) == [do |-> "retry", call |-> c]
Try(c) == [do |-> "try", call |-> c]
Send(c) == [do |-> "send", call |-> c]

Open(n, u) == [desk EXCEPT ![n] = u]
Shut(n) == [desk EXCEPT ![n] = "none"]
Moved(n, m, u) == [desk EXCEPT ![n] = "none", ![m] = u]
Role(u) == IF u \in Supervisors THEN "SUPERVISOR" ELSE "INVESTIGATOR"

\* A request starts; one that does not wait for what an earlier one sent
\* overtakes it.
Begins(steps, why) ==
    /\ script = <<>> /\ Len(loose) <= MaxLoose
    /\ script' = steps
    /\ odd' = odd \cup why \cup (IF loose # <<>> THEN {"overtaking"} ELSE {})
    /\ UNCHANGED <<case, procs, loose, refused, faults>>
Runs(steps) == Begins(steps, {})
-----------------------------------------------------------------------------
(***************************************************************************)
(* Creation.                                                               *)
(***************************************************************************)
\* createCase of an ingested alert, and createCaseWithInvestigationTask for the
\* sibling of a split: no task is written before the process has started.
Ingest ==
    /\ status = "none"
    /\ Runs(<<Write("DRAFT", Nobody, desk), Retry(Start(Entry(TRUE, FALSE, FALSE, "SUPERVISOR", TRUE))),
              Write("DRAFT", Nobody, Open("Complete", Nobody))>>)
Sibling ==
    /\ status = "none"
    /\ Runs(<<Write("READY", Nobody, Open("Investigate", Nobody)),
              Await(Start(Entry(TRUE, TRUE, FALSE, "SUPERVISOR", FALSE))), Await(SetStatus)>>)

ManualCreate(u) ==
    /\ status = "none" /\ u \notin ComplianceOfficers
    /\ IF u \in Supervisors
       THEN Runs(<<Write("READY", u, desk), Retry(Start(Entry(FALSE, FALSE, FALSE, Role(u), FALSE))),
                   Write("READY", u, Open("Investigate", Nobody))>>)
       ELSE Runs(<<Write("PENDING_CREATION", Nobody, desk),
                   Retry(Start(Entry(FALSE, FALSE, FALSE, Role(u), FALSE))),
                   Write("PENDING_CREATION", Nobody, Open("ApproveCreation", Nobody))>>)

SaveDraft(u) ==
    /\ status = "none" /\ u \notin ComplianceOfficers
    /\ Runs(<<Write("DRAFT", u, desk), Await(Start(Entry(FALSE, FALSE, FALSE, Role(u), TRUE))),
              Write("DRAFT", u, Open("Complete", u)), Await(Claim("Complete", u))>>)

\* updateTask has the completer claim the task before any row is written.
CompletionOf(s, answer, next, u) ==
    <<Retry(Claim("Complete", u)), Write(s, owner, Shut("Complete")), Await(SetStatus),
      Await(Finish("Complete", answer, "NONE")), Write(s, owner, Moved("Complete", next, Nobody))>>
CompleteCreation(u) ==
    /\ status = "DRAFT" /\ desk["Complete"] # "none" /\ u \notin ComplianceOfficers
    /\ Begins(IF u \in Supervisors THEN CompletionOf("READY", "ready", "Investigate", u)
              ELSE CompletionOf("PENDING_CREATION", "approval", "ApproveCreation", u),
              IF desk["Complete"] \in {Nobody, u} THEN {} ELSE {"completing"})

ApproveCreation ==
    /\ status = "PENDING_CREATION" /\ desk["ApproveCreation"] # "none"
    /\ Runs(<<Write("READY", owner, Shut("ApproveCreation")), Await(SetStatus),
              Await(Finish("ApproveCreation", "approve", "NONE")),
              Write("READY", owner, Moved("ApproveCreation", "Investigate", Nobody))>>)

\* updateTask tells Flowable of the supervisor before the case goes back to its
\* creator v: its owner, when it was saved as a draft, or somebody.
RejectCreation(u, v) ==
    /\ status = "PENDING_CREATION" /\ desk["ApproveCreation"] # "none" /\ u \in Supervisors
    /\ owner # Nobody => v = owner
    /\ Runs(<<Write("DRAFT", owner, desk), Retry(Claim("ApproveCreation", u)),
              Write("DRAFT", owner, Moved("ApproveCreation", "Complete", v)),
              Send(SetStatus), Await(Finish("ApproveCreation", "reject", "NONE"))>>)

\* Mutant: Flowable does not hear of it.
AbandonSilently(u) ==
    /\ status = "DRAFT" /\ desk["Complete"] = u
    /\ Runs(<<Write("ABANDONED", owner, desk), Retry(Claim("Complete", u)),
              Write("ABANDONED", owner, Shut("Complete"))>>)

Abandon(u) ==
    /\ status = "DRAFT" /\ desk["Complete"] = u
    /\ Runs(<<Write("ABANDONED", owner, desk), Retry(Claim("Complete", u)),
              Write("ABANDONED", owner, Shut("Complete")), Send(Terminate)>>)
-----------------------------------------------------------------------------
(***************************************************************************)
(* Triage of an ingested case.                                             *)
(***************************************************************************)
TriageReady ==
    /\ status = "DRAFT" /\ desk["Complete"] = Nobody
    /\ Runs(<<Write("READY", owner, Moved("Complete", "Investigate", Nobody)),
              Retry(Finish("Complete", "ready", "NONE"))>>)

TriageClose ==
    /\ status = "DRAFT" /\ desk["Complete"] = Nobody
    /\ Runs(<<Write("CLOSED", owner, Shut("Complete")),
              Retry(Finish("Complete", "autoClose", "NONE")), Retry(Finish("AutoClose", "done", "NONE"))>>)

\* The AI's triage first stores its prediction with updateTask, which makes the
\* AI's user the assignee of the task and tells Flowable of the old one.
Predicted(ai, steps) ==
    /\ status = "DRAFT" /\ desk["Complete"] = Nobody
    /\ Begins(<<Retry(Unclaim("Complete")), Write("DRAFT", owner, Open("Complete", ai))>> \o steps, {"AI"})

AiInvestigate(ai) ==
    Predicted(ai, <<Await(Finish("Complete", "ready", "NONE")), Retry(Claim("Complete", ai)),
                    Write("READY", owner, Moved("Complete", "Investigate", Nobody)), Send(SetStatus)>>)
AiRefute(ai) ==
    Predicted(ai, <<Write("AUTO_REFUTED", owner, Shut("Complete"))>>)
AiConfirm(ai) ==
    Predicted(ai, <<Await(Finish("Complete", "autoClose", "NONE")),
                    Write("AUTO_CONFIRMED", owner, Shut("Complete"))>>)
-----------------------------------------------------------------------------
(***************************************************************************)
(* Work on the tasks.                                                      *)
(***************************************************************************)
Workable == {"Investigate", "SAR"}
Ready(n) == script = <<>> /\ n \in Workable /\ desk[n] # "none" /\ status # "SUSPENDED"

\* The transaction of the rows stays open while Flowable is told: the write
\* comes last.
Assign(n, u) ==
    /\ Ready(n) /\ desk[n] = Nobody
    /\ IF n = "Investigate"
       THEN Runs(<<Await(SetStatus), Await(Claim(n, u)), Write("ASSIGNED", u, Open(n, u))>>)
       ELSE Runs(<<Await(Claim(n, u)), Write(status, owner, Open(n, u))>>)

\* Mutant: the task is handed over without taking it from the last one.
ReassignKeeps(n, u) ==
    /\ Ready(n) /\ desk[n] \in Users \ {u}
    /\ IF n = "Investigate"
       THEN Runs(<<Await(SetStatus), Await(Claim(n, u)), Write("ASSIGNED", u, Open(n, u))>>)
       ELSE Runs(<<Await(Claim(n, u)), Write(status, owner, Open(n, u))>>)

Reassign(n, u) ==
    /\ Ready(n) /\ desk[n] \in Users \ {u}
    /\ IF n = "Investigate"
       THEN Runs(<<Await(SetStatus), Await(Unclaim(n)), Await(Claim(n, u)), Write("ASSIGNED", u, Open(n, u))>>)
       ELSE Runs(<<Await(Unclaim(n)), Await(Claim(n, u)), Write(status, owner, Open(n, u))>>)

\* Mutant: the claim stays.
UnassignRows(n) ==
    /\ Ready(n) /\ desk[n] \in Users
    /\ IF n = "Investigate"
       THEN Runs(<<Await(SetStatus), Write("READY", Nobody, Open(n, Nobody))>>)
       ELSE Runs(<<Write(status, owner, Open(n, Nobody))>>)

Unassign(n) ==
    /\ Ready(n) /\ desk[n] \in Users
    /\ IF n = "Investigate"
       THEN Runs(<<Await(SetStatus), Await(Unclaim(n)), Write("READY", Nobody, Open(n, Nobody))>>)
       ELSE Runs(<<Await(Unclaim(n)), Write(status, owner, Open(n, Nobody))>>)

\* updateTask: Flowable is told of the assignee again, whatever has changed.
Begin(n, u) ==
    /\ Ready(n) /\ desk[n] = u
    /\ Runs(<<Retry(Claim(n, u)),
              IF n = "Investigate" THEN Write("IN_PROGRESS", u, desk) ELSE Write(status, owner, desk)>>)
FinishInvestigation(u) ==
    /\ desk["Investigate"] = u /\ status = "IN_PROGRESS"
    /\ Runs(<<Retry(Claim("Investigate", u)), Write(status, owner, Shut("Investigate"))>>)

FileSAR ==
    /\ desk["SAR"] \in Users
    /\ Runs(<<Write(status, owner, Shut("SAR")), Try(Finish("SAR", "complete", "NONE"))>>)

\* updateTask takes the assignee of the blocked task from the caller, and names
\* the old one to Flowable.
Suspend(u) ==
    /\ status = "IN_PROGRESS" /\ desk["Investigate"] \in Users
    /\ u = owner \/ u \in Supervisors
    /\ Begins(<<Write("SUSPENDED", owner, desk), Retry(Claim("Investigate", desk["Investigate"])),
                Write("SUSPENDED", owner, Open("Investigate", u)), Send(SetStatus)>>,
              IF u = desk["Investigate"] THEN {} ELSE {"suspending"})
Resume ==
    /\ status = "SUSPENDED" /\ desk["Investigate"] \in Users
    /\ Runs(<<Send(SetStatus), Write("IN_PROGRESS", owner, desk),
              Retry(Claim("Investigate", desk["Investigate"])),
              Write("IN_PROGRESS", owner, Open("Investigate", owner))>>)
-----------------------------------------------------------------------------
(***************************************************************************)
(* Closing and reopening.                                                  *)
(***************************************************************************)
Finished == status = "IN_PROGRESS" /\ desk["Investigate"] = "none"
WithSAR(o, n) == IF o = "CONFIRMED" THEN Moved(n, "SAR", Nobody) ELSE Shut(n)

CloseDirectly(o) ==
    /\ Finished /\ owner \in Supervisors
    /\ Runs(<<Write("CLOSED", owner, desk), Await(Finish("Investigate", "complete", o)),
              Write("CLOSED", owner, WithSAR(o, "Investigate"))>>)

SubmitClosure(o) ==
    /\ Finished /\ owner \in Investigators
    /\ Runs(<<Write(status, owner, Open("ApproveClosure", Nobody)),
              Write("PENDING_CLOSURE", owner, Open("ApproveClosure", Nobody)),
              Await(Finish("Investigate", "requestClosure", o)), Await(SetStatus)>>)

ApproveClosure(o) ==
    /\ status = "PENDING_CLOSURE"
    /\ Runs(<<Write("CLOSED", owner, Shut("ApproveClosure")), Send(Finish("ApproveClosure", "approve", o)),
              Write("CLOSED", owner, WithSAR(o, "ApproveClosure"))>>)

\* Mutant: only the status of the process is changed.
RejectClosureSilently ==
    /\ status = "PENDING_CLOSURE"
    /\ Runs(<<Write("IN_PROGRESS", owner, Moved("ApproveClosure", "Investigate", owner)),
              Send(SetStatus)>>)

RejectClosure ==
    /\ status = "PENDING_CLOSURE"
    /\ Runs(<<Write("IN_PROGRESS", owner, Moved("ApproveClosure", "Investigate", owner)),
              Send(SetStatus), Send(Finish("ApproveClosure", "reject", "NONE"))>>)

Reopenable == status \in {"CLOSED", "AUTO_CONFIRMED"} /\ desk["SAR"] = "none"
Reopen(u) ==
    /\ Reopenable /\ u \notin ComplianceOfficers
    /\ Len(procs) < MaxProcs
    /\ Runs(<<IF u \in Supervisors THEN Write("READY", owner, Open("Investigate", Nobody))
              ELSE Write("PENDING_REOPENING", owner, Open("ApproveReopening", Nobody)),
              Send(Start(Entry(FALSE, FALSE, TRUE, Role(u), FALSE)))>>)

ApproveReopening ==
    /\ status = "PENDING_REOPENING" /\ desk["ApproveReopening"] # "none"
    /\ Runs(<<Write("READY", owner, Moved("ApproveReopening", "Investigate", Nobody)),
              Retry(Finish("ApproveReopening", "approve", "NONE")), Retry(SetStatus)>>)
RejectReopening ==
    /\ status = "PENDING_REOPENING" /\ desk["ApproveReopening"] # "none"
    /\ Runs(<<Write("CLOSED", owner, Shut("ApproveReopening")),
              Await(Finish("ApproveReopening", "reject", "NONE"))>>)
-----------------------------------------------------------------------------
(***************************************************************************)
(* The steps of a script, and of what it sent.                             *)
(***************************************************************************)
Awaited == script # <<>> /\ Head(script).do \in {"await", "retry", "try"}

Writes ==
    /\ script # <<>> /\ Head(script).do = "write"
    /\ status' = Head(script).status /\ owner' = Head(script).owner /\ desk' = Head(script).desk
    /\ script' = Tail(script)
    /\ UNCHANGED <<procs, loose, refused, odd, faults>>

Sends ==
    /\ script # <<>> /\ Head(script).do = "send"
    /\ loose' = Append(loose, Head(script).call)
    /\ script' = Tail(script)
    /\ UNCHANGED <<case, procs, refused, odd, faults>>

Calls ==
    /\ Awaited /\ Accepts(Head(script).call)
    /\ script' = Tail(script)
    /\ UNCHANGED <<case, loose, refused, odd, faults>>

\* The error that ends the request, or that a `try` swallows.
GivesUp == /\ script' = IF Head(script).do = "try" THEN Tail(script) ELSE <<>>
           /\ refused' = TRUE
           /\ UNCHANGED <<case, loose, odd>>

IsRefused == Awaited /\ Refuses(Head(script).call) /\ GivesUp /\ UNCHANGED faults

Arrives(k) ==
    /\ Accepts(loose[k])
    /\ loose' = RemoveAt(loose, k)
    /\ UNCHANGED <<case, script, refused, odd, faults>>

\* Nobody handles the rejection: the process ends, and starts again.
Dies == /\ script' = <<>> /\ loose' = <<>> /\ refused' = TRUE
        /\ UNCHANGED <<case, odd>>

IsRejected(k) == Refuses(loose[k]) /\ Dies /\ UNCHANGED faults

\* Flowable cannot be reached for as long as the call is tried.
Lost ==
    /\ faults < MaxFaults /\ faults' = faults + 1
    /\ UNCHANGED procs
    /\ \/ Awaited /\ GivesUp
       \/ loose # <<>> /\ Dies
-----------------------------------------------------------------------------
Init == /\ status = "none" /\ owner = Nobody
        /\ desk = [n \in TaskNames |-> "none"]
        /\ procs = <<>> /\ script = <<>> /\ loose = <<>>
        /\ refused = FALSE /\ odd = {} /\ faults = 0

Creates == Ingest \/ Sibling \/ \E u \in Users : ManualCreate(u) \/ SaveDraft(u)
Drafts == \/ ApproveCreation
          \/ \E u \in Users : CompleteCreation(u) \/ Abandon(u)
          \/ \E u, v \in Users : RejectCreation(u, v)
Triages == \/ TriageReady \/ TriageClose
           \/ \E ai \in Investigators : AiInvestigate(ai) \/ AiRefute(ai) \/ AiConfirm(ai)
Works == \/ \E n \in Workable, u \in Users : Assign(n, u) \/ Reassign(n, u) \/ Begin(n, u)
         \/ \E n \in Workable : Unassign(n)
         \/ \E u \in Users : FinishInvestigation(u) \/ Suspend(u)
         \/ FileSAR \/ Resume
Ends == \/ \E o \in Verdicts : CloseDirectly(o) \/ SubmitClosure(o) \/ ApproveClosure(o)
        \/ RejectClosure \/ \E u \in Users : Reopen(u)
        \/ ApproveReopening \/ RejectReopening

Next == \/ Creates \/ Drafts \/ Triages \/ Works \/ Ends
        \/ Writes \/ Sends \/ Calls \/ IsRefused \/ Lost
        \/ \E k \in DOMAIN loose : Arrives(k) \/ IsRejected(k)

Spec == Init /\ [][Next]_vars
-----------------------------------------------------------------------------
Quiet == script = <<>> /\ loose = <<>>

(* As long as no call has failed, every open task of the case is one some   *)
(* process of it waits at: the next request for that task finds it in       *)
(* Flowable, whatever the client did before (task-event.listener.ts looks   *)
(* it up by name and throws when it is not there).                          *)
WorkIsMirrored ==
    Quiet /\ ~refused =>
        \A n \in TaskNames : desk[n] # "none" => \E p \in Live : procs[p].at = n

(* As long as no call has failed, nobody but the assignee of an open task   *)
(* has claimed it in Flowable, so that it can be claimed for the assignee.  *)
(* A suspended case is the exception: see ResumeGoesThrough.                *)
NoForeignClaim ==
    Quiet /\ ~refused /\ status # "SUSPENDED" =>
        \A p \in Live : procs[p].at \in TaskNames /\ desk[procs[p].at] # "none"
                        => procs[p].holder \in {Nobody, desk[procs[p].at]}

(* A case that is over and whose calls all went through has no process left *)
(* that waits, but for those the AI's triage closed without a word to       *)
(* Flowable (triage.service.ts:604, 758).                                   *)
FinishedIsEnded ==
    Quiet /\ ~refused /\ status \in {"CLOSED", "ABANDONED"} /\ (\A n \in TaskNames : desk[n] = "none")
        => \A p \in Live : procs[p].at = "AutoClose"

(* When requests come one after the other and Flowable answers, it refuses *)
(* none of their calls: not the awaited ones, which would fail the request, *)
(* nor those sent and forgotten, whose rejection would end the server.      *)
(* Four things are known to break this: a request that overtakes what an    *)
(* earlier one sent, the AI's triage, a suspension by someone else, and the *)
(* completion of a draft that was somebody else's to complete.              *)
AcceptedInTurn == refused => odd # {} \/ faults > 0

(* "Resumes a suspended case, ... resumes associated task" for the owner    *)
(* (case.controller.ts): no other user's claim stands in the way.           *)
ResumeGoesThrough ==
    Quiet /\ ~refused /\ status = "SUSPENDED" =>
        \A p \in Live : procs[p].holder \in {Nobody, desk["Investigate"]}
====

---- MODULE FlowableProcess ----
(***************************************************************************)
(* The Flowable process instances of one case: where each one waits, who   *)
(* has claimed its task, and what a call of the listeners does to it.      *)
(*                                                                         *)
(* The routes are those of cms.bpmn20.xml that the server's answers can    *)
(* take.  A call names the case and the task; the instance is looked up by *)
(* its business key and any live one may be found (the list of instances   *)
(* is not ordered).  The engine is external: it refuses to complete or to  *)
(* claim a task the instance does not wait at, and a claim by one user of  *)
(* a task that another one holds.                                          *)
(***************************************************************************)
EXTENDS Naturals, Sequences

CONSTANTS Users, Nobody,
          MaxProcs        \* instances ever started for the case

ASSUME ProcessAssumption == MaxProcs \in Nat /\ Nobody \notin Users

VARIABLE procs   \* the instances with the case's business key, oldest first

TaskNames == {"Complete", "ApproveCreation", "Investigate", "ApproveClosure", "SAR",
              "ApproveReopening"}

Live == {p \in DOMAIN procs : procs[p].at # "ended"}

\* Where a new instance goes, by the variables handleCaseCreated sets: the
\* gateways on the creation type, isFraudNAML, isReopened, the role and DRAFT.
Entry(automatic, both, reopened, role, draft) ==
    IF automatic THEN IF both THEN "Investigate" ELSE "Complete"
    ELSE IF reopened THEN IF role = "SUPERVISOR" THEN "Investigate" ELSE "ApproveReopening"
    ELSE IF draft THEN "Complete"
    ELSE IF role = "SUPERVISOR" THEN "Investigate" ELSE "ApproveCreation"

\* Where a task leads, by the answer it is completed with; "gate" is the gateway
\* that asks whether a SAR/STR must be filed.
Flows ==
    [Complete         |-> [approval |-> "ApproveCreation", autoClose |-> "AutoClose",
                           ready |-> "Investigate"],
     AutoClose        |-> [done |-> "ended"],
     ApproveCreation  |-> [approve |-> "Investigate", reject |-> "Complete"],
     Investigate      |-> [requestClosure |-> "ApproveClosure", complete |-> "gate"],
     ApproveClosure   |-> [approve |-> "gate", reject |-> "Investigate"],
     SAR              |-> [complete |-> "ended"],
     ApproveReopening |-> [approve |-> "Investigate", reject |-> "ended"]]

Target(c) ==
    LET next == Flows[c.task][c.answer] IN
    IF next # "gate" THEN next ELSE IF c.outcome = "CONFIRMED" THEN "SAR" ELSE "ended"
-----------------------------------------------------------------------------
Start(node) == [op |-> "start", node |-> node]
SetStatus == [op |-> "set"]
Terminate == [op |-> "end"]
Claim(task, u) == [op |-> "claim", task |-> task, user |-> u]
Unclaim(task) == Claim(task, Nobody)
Finish(task, answer, o) == [op |-> "finish", task |-> task, answer |-> answer, outcome |-> o]

\* What the engine does not refuse of instance p.
Takes(c, p) ==
    \/ c.op \in {"set", "end"}
    \/ c.op = "claim" /\ procs[p].at = c.task
                      /\ (c.user # Nobody => procs[p].holder \in {Nobody, c.user})
    \/ c.op = "finish" /\ procs[p].at = c.task

After(c, p) ==
    CASE c.op = "set"    -> procs[p]
      [] c.op = "end"    -> [at |-> "ended", holder |-> Nobody]
      [] c.op = "claim"  -> [procs[p] EXCEPT !.holder = c.user]
      [] c.op = "finish" -> [at |-> Target(c), holder |-> Nobody]

Accepts(c) ==
    \/ /\ c.op = "start" /\ Len(procs) < MaxProcs
       /\ procs' = Append(procs, [at |-> c.node, holder |-> Nobody])
    \/ /\ c.op # "start"
       /\ \E p \in Live : Takes(c, p) /\ procs' = [procs EXCEPT ![p] = After(c, p)]

Refuses(c) ==
    /\ c.op # "start"
    /\ \/ Live = {}
       \/ \E p \in Live : ~Takes(c, p)
    /\ UNCHANGED procs
====

--------------------------- MODULE CaseLifecycle ----------------------------
(***************************************************************************)
(* What the case workflow promises to the people who work a case, without  *)
(* tasks, requests or transactions: the stage the case is in, the person   *)
(* who answers for it, and the verdict on it.                              *)
(*                                                                         *)
(* Only the holder takes a case out of the investigation, a closing case   *)
(* goes back to the same holder or gets the verdict of the decision, and a *)
(* closed case is left through a reopening that keeps its verdict until    *)
(* the investigation has come to another.                                  *)
(***************************************************************************)
CONSTANTS People, Nobody, Verdict, NoVerdict

VARIABLES stage, holder, verdict
cycle == <<stage, holder, verdict>>

Stages == {"waiting", "held", "suspended", "closing", "closed", "reopening"}

Start ==
    /\ stage \in {"waiting", "closed"}
    /\ holder = Nobody
    /\ verdict = NoVerdict

\* Somebody takes the case, or takes it over.
Take(p) ==
    /\ stage \in {"waiting", "held"}
    /\ stage' = "held" /\ holder' = p
    /\ UNCHANGED verdict

Release ==
    /\ stage = "held"
    /\ stage' = "waiting" /\ holder' = Nobody
    /\ UNCHANGED verdict

Pause ==
    /\ stage = "held"
    /\ stage' = "suspended"
    /\ UNCHANGED <<holder, verdict>>

Continue ==
    /\ stage = "suspended"
    /\ stage' = "held"
    /\ UNCHANGED <<holder, verdict>>

\* The holder asks for a closure with verdict v.
Recommend(v) ==
    /\ stage = "held"
    /\ stage' = "closing" /\ verdict' = v
    /\ UNCHANGED holder

SendBack ==
    /\ stage = "closing"
    /\ stage' = "held"
    /\ UNCHANGED <<holder, verdict>>

\* A closure is decided, or a supervisor who holds the case closes it alone.
Close(v) ==
    /\ stage \in {"closing", "held"}
    /\ stage' = "closed" /\ verdict' = v /\ holder' = Nobody

AskReopening ==
    /\ stage = "closed"
    /\ stage' = "reopening"
    /\ UNCHANGED <<holder, verdict>>

RefuseReopening ==
    /\ stage = "reopening"
    /\ stage' = "closed"
    /\ UNCHANGED <<holder, verdict>>

Reopen ==
    /\ stage \in {"closed", "reopening"}
    /\ stage' = "waiting"
    /\ UNCHANGED <<holder, verdict>>

Move ==
    \/ \E p \in People : Take(p)
    \/ \E v \in Verdict : Recommend(v) \/ Close(v)
    \/ Release \/ Pause \/ Continue \/ SendBack
    \/ AskReopening \/ RefuseReopening \/ Reopen

LifecycleSpec == Start /\ [][Move]_cycle
=============================================================================

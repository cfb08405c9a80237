----------------------------- MODULE JobContract -----------------------------
(***************************************************************************)
(* What the durable job queue promises to the code that enqueues a job,    *)
(* without leases, generations, tasks or processes: a job is attempted at  *)
(* most its budget of times, only a running attempt settles it, it settles *)
(* once, and it never fails for good before its order was escalated to     *)
(* manual review.                                                          *)
(***************************************************************************)
EXTENDS Naturals

CONSTANTS Job, Budget

VARIABLES
    status,     \* where each job is in its life
    tries,      \* attempts begun
    budget,     \* attempts allowed
    escalated   \* jobs whose order was moved to manual review

vars == <<status, tries, budget, escalated>>

Failed == {"manual_review", "dead_letter"}

Init ==
    /\ status = [j \in Job |-> "absent"]
    /\ tries = [j \in Job |-> 0]
    /\ budget = [j \in Job |-> Budget]
    /\ escalated = {}

\* A job is submitted once.
Submit(j) ==
    /\ status[j] = "absent"
    /\ status' = [status EXCEPT ![j] = "waiting"]
    /\ UNCHANGED <<tries, budget, escalated>>

\* An attempt begins, also in place of one whose lease ran out.
Begin(j) ==
    /\ status[j] \in {"waiting", "running"}
    /\ tries[j] < budget[j]
    /\ status' = [status EXCEPT ![j] = "running"]
    /\ tries' = [tries EXCEPT ![j] = @ + 1]
    /\ UNCHANGED <<budget, escalated>>

\* Running jobs go back to waiting: a retry, or a recovery of several jobs.
GiveBack(S) ==
    /\ \A j \in S : status[j] = "running"
    /\ status' = [j \in Job |-> IF j \in S THEN "waiting" ELSE status[j]]
    /\ UNCHANGED <<tries, budget, escalated>>

\* The order of a job is escalated, possibly by an attempt that was overtaken.
Escalate(j) ==
    /\ status[j] # "absent"
    /\ escalated' = escalated \cup {j}
    /\ UNCHANGED <<status, tries, budget>>

\* A running attempt decides the job.
Settle(j, outcome) ==
    /\ status[j] = "running"
    /\ outcome \in Failed => j \in escalated
    /\ status' = [status EXCEPT ![j] = outcome]
    /\ UNCHANGED <<tries, budget, escalated>>

\* The operator grants a waiting job more attempts.
Extend(j) ==
    /\ status[j] = "waiting"
    /\ budget'[j] >= budget[j]
    /\ budget' = [budget EXCEPT ![j] = budget'[j]]
    /\ UNCHANGED <<status, tries, escalated>>

Next ==
    \/ \E j \in Job :
         \/ Submit(j)
         \/ Begin(j)
         \/ Escalate(j)
         \/ \E outcome \in Failed \cup {"complete"} : Settle(j, outcome)
         \/ Extend(j)
    \/ \E S \in SUBSET Job : GiveBack(S)

Spec == Init /\ [][Next]_vars

=============================================================================

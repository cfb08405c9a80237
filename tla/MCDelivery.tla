----------------------------- MODULE MCDelivery -----------------------------
(***************************************************************************)
(* What a durable job owes in the end: the queue settles it (scenario      *)
(* "queue"), and the delivery job gets a confirmed order its bundle, its   *)
(* notice and its monitor (scenario "delivery").  The queue's tables and   *)
(* the delivery's share no state in this run, so a behaviour has one of    *)
(* them at work, under the fairness of its own module.                     *)
(***************************************************************************)
EXTENDS MCBundle

CONSTANTS p1, p2, Job, QueueAttempts, ReplayGrant, OperatorBound, QueueFaults

VARIABLES
    state, generation, attempt_count, max_attempts, lease_owner, lease_live,
    due, attempt_log, intents, dispatched, review, created, queue,
    call_pc, claimed, result, task, todo, making, call_faults,
    scenario

queue_vars == <<state, generation, attempt_count, max_attempts, lease_owner,
                lease_live, due, attempt_log, intents, dispatched, review,
                created, queue, call_pc, claimed, result, task, todo, making,
                call_faults>>

\* Both calls run in one process and share its worker id.
Queue == INSTANCE JobQueue WITH
    Call <- {p1, p2}, WorkerOf <- [p \in {p1, p2} |-> "task-1"],
    MaxAttempts <- QueueAttempts, MaxFaults <- QueueFaults,
    pc <- call_pc, faults <- call_faults

MCInit ==
    /\ scenario \in {"queue", "delivery"}
    /\ Init
    /\ Queue!Init
    /\ scenario = "queue" => \A w, v \in Worker : release[w] = release[v]

MCNext ==
    /\ UNCHANGED scenario
    /\ \/ scenario = "queue" /\ Queue!Next /\ UNCHANGED vars
       \/ scenario = "delivery" /\ Next /\ UNCHANGED queue_vars

\* Nothing that fairness speaks of is possible in the part that is not at work.
MCFairSpec ==
    /\ MCInit
    /\ [][MCNext]_<<vars, queue_vars, scenario>>
    /\ Queue!Fairness
    /\ Fairness

\* Without any operator command every enqueued job is settled in the end and no
\* dispatch row stays pending, through create outages, crashes, takeovers and
\* repeated deliveries, but for three kinds of jobs that are named: the worker
\* died in its last attempt, Cloud Tasks has lost its task, or the request that
\* was to dispatch its row will not be repeated (claim_specific, finish,
\* reconcile).
QueueDrains == Queue!JobsSettle /\ Queue!IntentsAreDispatched
=============================================================================

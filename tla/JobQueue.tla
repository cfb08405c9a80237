------------------------------ MODULE JobQueue ------------------------------
(***************************************************************************)
(* The durable job queue of the timestamp service: the durable_jobs,       *)
(* job_attempts and task_dispatches tables, the Cloud Tasks queue that     *)
(* wakes the workers, the worker loop, and the operator's recovery         *)
(* commands.                                                               *)
(*                                                                         *)
(* One database transaction is one action.  Everything the code awaits     *)
(* between two transactions (the handler, the Cloud Tasks API) separates   *)
(* two actions, so any other call may run in between.  A Call is one       *)
(* activation of the code: a task request, a poll of the SQL worker, a     *)
(* webhook's reconcile or an operator command.  Several calls share one    *)
(* worker process and then one worker id (WorkerOf).                       *)
(*                                                                         *)
(* Clock readings are abstracted to the two comparisons the queries make:  *)
(* due[j] is available_at <= now, lease_live[j] is lease_until >= now.     *)
(***************************************************************************)
EXTENDS Naturals, Sequences, FiniteSets

CONSTANTS
    Job,            \* job keys
    Call,           \* activations that may be in progress at the same time
    WorkerOf,       \* Call -> worker id of the process the call runs in
    MaxAttempts,    \* JobSpec.max_attempts, 10 in the code
    ReplayGrant,    \* attempts an operator replay grants, 10 in the code
    OperatorBound,  \* bound: replays, and recoveries of a job whose task is
                    \* still queued, act on generations below it
    MaxFaults,      \* bound: crashes, failed creates and lost tasks together
    None

ASSUME ConstantsAssumption ==
    /\ MaxAttempts \in Nat \ {0}
    /\ ReplayGrant \in Nat \ {0}
    /\ OperatorBound \in Nat
    /\ MaxFaults \in Nat
    /\ None \notin {WorkerOf[p] : p \in Call}
    /\ None \notin Job \X Nat

VARIABLES
    \* one row of durable_jobs per job
    state, generation, attempt_count, max_attempts,
    lease_owner, lease_live, due,
    attempt_log,    \* job_attempts: the outcome of every attempt, by number
    intents,        \* task_dispatches: <<job, generation>> rows
    dispatched,     \* the rows of intents whose state is "dispatched"
    review,         \* jobs whose order a terminal failure moved to manual_review
    created,        \* Cloud Tasks: task names it has seen
    queue,          \* Cloud Tasks: tasks it still delivers
    \* the locals of each call
    pc, claimed, result, task, todo, making,
    faults

job_vars == <<state, generation, attempt_count, max_attempts,
              lease_owner, lease_live, due, attempt_log>>
cloud_vars == <<created, queue>>
call_vars == <<pc, claimed, result, task, todo, making>>
vars == <<state, generation, attempt_count, max_attempts, lease_owner,
          lease_live, due, attempt_log, intents, dispatched, review,
          created, queue, pc, claimed, result, task, todo, making, faults>>

Workers == {WorkerOf[p] : p \in Call}
Runnable == {"available", "retry", "leased"}
Settled == {"complete", "manual_review", "dead_letter"}
JobState == Runnable \cup Settled \cup {"absent"}
Outcomes == Settled \cup {"retry"}
AttemptOutcome == Outcomes \cup {"open"}
Results == {"complete", "manual_review", "retry"}
Intent == Job \X Nat
Claim == [job : Job, attempt : Nat, max : Nat]
Steps == {"idle", "handling", "handled", "fenced", "reviewed",
          "dispatch", "reconcile"}

\* Every table and local has its type; in particular only dispatch rows are ever
\* marked dispatched.
TypeOK ==
    /\ state \in [Job -> JobState]
    /\ generation \in [Job -> Nat]
    /\ attempt_count \in [Job -> Nat]
    /\ max_attempts \in [Job -> Nat]
    /\ lease_owner \in [Job -> Workers \cup {None}]
    /\ lease_live \in [Job -> BOOLEAN]
    /\ due \in [Job -> BOOLEAN]
    /\ attempt_log \in [Job -> Seq(AttemptOutcome)]
    /\ intents \subseteq Intent
    /\ dispatched \subseteq Intent
    /\ review \subseteq Job
    /\ created \subseteq Intent
    /\ queue \subseteq Intent
    /\ pc \in [Call -> Steps]
    /\ claimed \in [Call -> Claim \cup {None}]
    /\ result \in [Call -> Results \cup {None}]
    /\ task \in [Call -> Intent \cup {None}]
    /\ todo \in [Call -> SUBSET Intent]
    /\ making \in [Call -> Intent \cup {None}]
    /\ faults \in Nat

Init ==
    /\ state = [j \in Job |-> "absent"]
    /\ generation = [j \in Job |-> 0]
    /\ attempt_count = [j \in Job |-> 0]
    /\ max_attempts = [j \in Job |-> MaxAttempts]
    /\ lease_owner = [j \in Job |-> None]
    /\ lease_live = [j \in Job |-> FALSE]
    /\ due = [j \in Job |-> FALSE]
    /\ attempt_log = [j \in Job |-> <<>>]
    /\ intents = {}
    /\ dispatched = {}
    /\ review = {}
    /\ created = {}
    /\ queue = {}
    /\ pc = [p \in Call |-> "idle"]
    /\ claimed = [p \in Call |-> None]
    /\ result = [p \in Call |-> None]
    /\ task = [p \in Call |-> None]
    /\ todo = [p \in Call |-> {}]
    /\ making = [p \in Call |-> None]
    /\ faults = 0

-----------------------------------------------------------------------------
(* Control flow of a call.                                                 *)

Pending == intents \ dispatched

\* The call ends: the request is answered, or the process died.
Return(p) ==
    /\ pc' = [pc EXCEPT ![p] = "idle"]
    /\ claimed' = [claimed EXCEPT ![p] = None]
    /\ result' = [result EXCEPT ![p] = None]
    /\ task' = [task EXCEPT ![p] = None]
    /\ todo' = [todo EXCEPT ![p] = {}]
    /\ making' = [making EXCEPT ![p] = None]

\* Continue at step s with the rows of rows to dispatch; the job run is over.
Proceed(p, s, t, rows) ==
    /\ pc' = [pc EXCEPT ![p] = s]
    /\ claimed' = [claimed EXCEPT ![p] = None]
    /\ result' = [result EXCEPT ![p] = None]
    /\ task' = [task EXCEPT ![p] = t]
    /\ todo' = [todo EXCEPT ![p] = rows]
    /\ UNCHANGED making

\* Worker.run_specific returned: the task route goes on to reconcile the
\* pending rows.  A poll of the SQL worker simply ends.
EndRun(p) ==
    IF task[p] # None
      THEN Proceed(p, "reconcile", task[p], Pending)
      ELSE Return(p)

\* Mutant: the owner alone identifies the attempt.
Fenced_by_owner(p) == lease_owner[claimed[p].job] = WorkerOf[p]

\* The job row still belongs to the attempt that call p claimed.
Fenced(p) ==
    /\ lease_owner[claimed[p].job] = WorkerOf[p]
    /\ attempt_count[claimed[p].job] = claimed[p].attempt

-----------------------------------------------------------------------------
(* Enqueueing.                                                             *)

\* Mutant: the dispatch rows are not part of the transaction.
add_task_dispatch_outside(rows) == UNCHANGED intents

\* The dispatch rows commit with the generations they belong to.
add_task_dispatch(rows) == intents' = intents \cup rows

\* The row already exists (unique job_key): only its dispatch is retried.
\* Otherwise job and first dispatch intent are committed together.
enqueue_once(p, j) ==
    /\ pc[p] = "idle"
    /\ \/ /\ state[j] = "absent"
          /\ state' = [state EXCEPT ![j] = "available"]
          /\ generation' = [generation EXCEPT ![j] = 1]
          /\ due' \in {[due EXCEPT ![j] = b] : b \in BOOLEAN}
          /\ add_task_dispatch({<<j, 1>>})
          /\ Proceed(p, "dispatch", None, {<<j, 1>>})
       \/ /\ <<j, generation[j]>> \in Pending
          /\ Proceed(p, "dispatch", None, {<<j, generation[j]>>})
          /\ UNCHANGED <<state, generation, due, intents>>
    /\ UNCHANGED <<attempt_count, max_attempts, lease_owner, lease_live,
                   attempt_log, dispatched, review, cloud_vars, faults>>

-----------------------------------------------------------------------------
(* Claiming.                                                               *)

\* Mutant: off by one in the attempt budget.
Claimable_once_more(j) ==
    /\ state[j] \in Runnable
    /\ due[j]
    /\ ~lease_live[j]
    /\ attempt_count[j] <= max_attempts[j]

\* Mutant: a leased row is never claimed, though its lease has expired.
Claimable_unleased(j) ==
    /\ state[j] \in {"available", "retry"}
    /\ due[j]
    /\ ~lease_live[j]
    /\ attempt_count[j] < max_attempts[j]

\* The condition both claim queries put on the row they lock.
Claimable(j) ==
    /\ state[j] \in Runnable
    /\ due[j]
    /\ ~lease_live[j]
    /\ attempt_count[j] < max_attempts[j]

\* The attempt of an expired lease is left open in job_attempts.
lease(p, j, t) ==
    /\ attempt_count' = [attempt_count EXCEPT ![j] = @ + 1]
    /\ state' = [state EXCEPT ![j] = "leased"]
    /\ lease_owner' = [lease_owner EXCEPT ![j] = WorkerOf[p]]
    /\ lease_live' = [lease_live EXCEPT ![j] = TRUE]
    /\ attempt_log' = [attempt_log EXCEPT ![j] = Append(@, "open")]
    /\ pc' = [pc EXCEPT ![p] = "handling"]
    /\ claimed' = [claimed EXCEPT ![p] =
                     [job |-> j, attempt |-> attempt_count[j] + 1,
                      max |-> max_attempts[j]]]
    /\ task' = [task EXCEPT ![p] = t]
    /\ UNCHANGED <<generation, max_attempts, due, intents, dispatched, review,
                   cloud_vars, result, todo, making, faults>>

\* run_once: the SQL worker's poll.
claim(p, j) ==
    /\ pc[p] = "idle"
    /\ Claimable(j)
    /\ lease(p, j, None)

\* run_specific: a delivered task names its job and generation.  A job that
\* is not due or is leased answers 503 and Cloud Tasks delivers again.
claim_specific(p, t) ==
    /\ pc[p] = "idle"
    /\ t \in queue
    /\ t \in intents
    /\ generation[t[1]] = t[2]
    /\ Claimable(t[1])
    /\ lease(p, t[1], t)

\* The task finds a newer generation, a settled job or no attempts left:
\* nothing is claimed and the request goes on to reconcile.
nothing_to_claim(p, t) ==
    /\ pc[p] = "idle"
    /\ t \in queue
    /\ t \in intents
    /\ \/ generation[t[1]] # t[2]
       \/ state[t[1]] \notin Runnable
       \/ /\ due[t[1]]
          /\ ~lease_live[t[1]]
          /\ attempt_count[t[1]] >= max_attempts[t[1]]
    /\ Proceed(p, "reconcile", t, Pending)
    /\ UNCHANGED <<job_vars, intents, dispatched, review, cloud_vars, faults>>

-----------------------------------------------------------------------------
(* Running a claimed job.                                                  *)

\* The job's handler returns or raises; its own effects are the subject of
\* the fulfillment modules.
handler_ends(p) ==
    /\ pc[p] = "handling"
    /\ \E r \in Results : result' = [result EXCEPT ![p] = r]
    /\ pc' = [pc EXCEPT ![p] = "handled"]
    /\ UNCHANGED <<job_vars, intents, dispatched, review, cloud_vars,
                   claimed, task, todo, making, faults>>

\* No handler for the job's kind: straight to the terminal failure, without
\* the heartbeat that otherwise precedes it.
unknown_kind(p) ==
    /\ pc[p] = "handling"
    /\ result' = [result EXCEPT ![p] = "manual_review"]
    /\ pc' = [pc EXCEPT ![p] = "fenced"]
    /\ UNCHANGED <<job_vars, intents, dispatched, review, cloud_vars,
                   claimed, task, todo, making, faults>>

\* The row is extended, even when the lease has expired, as long as no other
\* attempt took it over.
OwnsLease(p) == Fenced(p) /\ state[claimed[p].job] = "leased"

\* The heartbeat task beside the handler.  When the lease is lost the handler
\* is cancelled and the run ends.
heartbeat(p) ==
    /\ pc[p] = "handling"
    /\ IF OwnsLease(p)
         THEN /\ lease_live' = [lease_live EXCEPT ![claimed[p].job] = TRUE]
              /\ UNCHANGED call_vars
         ELSE EndRun(p) /\ UNCHANGED lease_live
    /\ UNCHANGED <<state, generation, attempt_count, max_attempts, lease_owner,
                   due, attempt_log, intents, dispatched, review, cloud_vars,
                   faults>>

\* The last heartbeat, before the handler's result is acted on.
final_heartbeat(p) ==
    /\ pc[p] = "handled"
    /\ IF OwnsLease(p)
         THEN /\ lease_live' = [lease_live EXCEPT ![claimed[p].job] = TRUE]
              /\ pc' = [pc EXCEPT ![p] = "fenced"]
              /\ UNCHANGED <<claimed, result, task, todo, making>>
         ELSE EndRun(p) /\ UNCHANGED lease_live
    /\ UNCHANGED <<state, generation, attempt_count, max_attempts, lease_owner,
                   due, attempt_log, intents, dispatched, review, cloud_vars,
                   faults>>

Exhausted(p) == claimed[p].attempt >= claimed[p].max

\* TerminalFailureHandler: the order moves to manual_review in a transaction
\* of its own, before the job is finished.
terminal_failure(p) ==
    /\ pc[p] = "fenced"
    /\ \/ result[p] = "manual_review"
       \/ result[p] = "retry" /\ Exhausted(p)
    /\ review' = review \cup {claimed[p].job}
    /\ pc' = [pc EXCEPT ![p] = "reviewed"]
    /\ UNCHANGED <<job_vars, intents, dispatched, cloud_vars,
                   claimed, result, task, todo, making, faults>>

\* Mutant: the job is finished before its order is escalated.
Decides_early(p, outcome) ==
    /\ pc[p] = "fenced"
    /\ \/ outcome = result[p] /\ ~(outcome = "retry" /\ Exhausted(p))
       \/ outcome = "dead_letter" /\ result[p] = "retry" /\ Exhausted(p)

\* The worker passes this outcome to finish, at the step where it does.
Decides(p, outcome) ==
    \/ /\ pc[p] = "fenced"
       /\ \/ outcome = "complete" /\ result[p] = "complete"
          \/ outcome = "retry" /\ result[p] = "retry" /\ ~Exhausted(p)
    \/ /\ pc[p] = "reviewed"
       /\ \/ outcome = "manual_review" /\ result[p] = "manual_review"
          \/ outcome = "dead_letter" /\ result[p] = "retry"

FinalOutcome(j, outcome) ==
    IF outcome = "retry" /\ attempt_count[j] >= max_attempts[j]
      THEN "dead_letter"
      ELSE outcome

\* The outcome is stored in the row and in its attempt; a retry commits its
\* dispatch intent with the new generation.
Conclude(p, j, outcome) ==
    /\ state' = [state EXCEPT ![j] = outcome]
    /\ lease_owner' = [lease_owner EXCEPT ![j] = None]
    /\ lease_live' = [lease_live EXCEPT ![j] = FALSE]
    /\ attempt_log' = [attempt_log EXCEPT ![j] =
                          [@ EXCEPT ![attempt_count[j]] = outcome]]
    /\ \/ /\ outcome = "retry"
          /\ generation' = [generation EXCEPT ![j] = @ + 1]
          /\ due' = [due EXCEPT ![j] = FALSE]
          /\ add_task_dispatch({<<j, generation[j] + 1>>})
          /\ Proceed(p, "dispatch", task[p], {<<j, generation[j] + 1>>})
       \/ /\ outcome # "retry"
          /\ EndRun(p)
          /\ UNCHANGED <<generation, due, intents>>
    /\ UNCHANGED <<attempt_count, max_attempts, dispatched, review,
                   cloud_vars, faults>>

finish(p, outcome) ==
    /\ Decides(p, outcome)
    /\ Fenced(p)
    /\ Conclude(p, claimed[p].job, FinalOutcome(claimed[p].job, outcome))

\* finish raises: the lease went to another attempt after the last heartbeat.
\* The request fails and its task is delivered again.
finish_refused(p, outcome) ==
    /\ Decides(p, outcome)
    /\ ~Fenced(p)
    /\ Return(p)
    /\ UNCHANGED <<job_vars, intents, dispatched, review, cloud_vars, faults>>

-----------------------------------------------------------------------------
(* Dispatching intents to Cloud Tasks.                                     *)

InDispatch(p) == pc[p] \in {"dispatch", "reconcile"} /\ making[p] = None

\* dispatch finds the row dispatched by another call.
skip_dispatched(p, t) ==
    /\ InDispatch(p)
    /\ t \in todo[p] \cap dispatched
    /\ todo' = [todo EXCEPT ![p] = @ \ {t}]
    /\ UNCHANGED <<job_vars, intents, dispatched, review, cloud_vars,
                   pc, claimed, result, task, making, faults>>

\* The Cloud Tasks create call.  AlreadyExists counts as success; a name
\* that was delivered long ago may be accepted again.
create(p, t) ==
    /\ InDispatch(p)
    /\ t \in todo[p] \ dispatched
    /\ created' = created \cup {t}
    /\ \/ queue' = queue \cup {t}
       \/ t \in created /\ queue' = queue
    /\ making' = [making EXCEPT ![p] = t]
    /\ UNCHANGED <<job_vars, intents, dispatched, review,
                   pc, claimed, result, task, todo, faults>>

\* Mutant: every row of the batch is marked after the first create call.
mark_dispatched_batch(p) ==
    /\ making[p] # None
    /\ dispatched' = dispatched \cup todo[p]
    /\ todo' = [todo EXCEPT ![p] = {}]
    /\ making' = [making EXCEPT ![p] = None]
    /\ UNCHANGED <<job_vars, intents, review, cloud_vars,
                   pc, claimed, result, task, faults>>

\* Mutant: a row is marked although no create call was made.
mark_dispatched_unmade(p) ==
    /\ pc[p] \in {"dispatch", "reconcile"}
    /\ dispatched' = dispatched \cup {making[p]}
    /\ todo' = [todo EXCEPT ![p] = @ \ {making[p]}]
    /\ making' = [making EXCEPT ![p] = None]
    /\ UNCHANGED <<job_vars, intents, review, cloud_vars,
                   pc, claimed, result, task, faults>>

\* The row is marked after the create call returned.
mark_dispatched(p) ==
    /\ making[p] # None
    /\ dispatched' = dispatched \cup {making[p]}
    /\ todo' = [todo EXCEPT ![p] = @ \ {making[p]}]
    /\ making' = [making EXCEPT ![p] = None]
    /\ UNCHANGED <<job_vars, intents, review, cloud_vars,
                   pc, claimed, result, task, faults>>

\* The create call fails: the row stays pending, the request answers 503.
create_failed(p) ==
    /\ InDispatch(p)
    /\ todo[p] \ dispatched # {}
    /\ faults < MaxFaults
    /\ faults' = faults + 1
    /\ Return(p)
    /\ UNCHANGED <<job_vars, intents, dispatched, review, cloud_vars>>

\* After the retry's own dispatch the task route reconciles; after the
\* reconcile it answers 204 and Cloud Tasks deletes the task.
dispatch_ends(p) ==
    /\ InDispatch(p)
    /\ todo[p] = {}
    /\ IF pc[p] = "dispatch" /\ task[p] # None
         THEN Proceed(p, "reconcile", task[p], Pending) /\ UNCHANGED queue
         ELSE Return(p) /\ queue' = queue \ {task[p]}
    /\ UNCHANGED <<job_vars, intents, dispatched, review, created, faults>>

\* A webhook route or the operator reconciles the pending rows.
reconcile(p) ==
    /\ pc[p] = "idle"
    /\ Proceed(p, "reconcile", None, Pending)
    /\ UNCHANGED <<job_vars, intents, dispatched, review, cloud_vars, faults>>

-----------------------------------------------------------------------------
(* Operator commands.                                                      *)

\* Mutant: a job in manual review can be replayed as well.
Replayable_settled(j) ==
    /\ state[j] \in {"retry", "manual_review"}
    /\ generation[j] < OperatorBound

\* Only an ordinary retry can be replayed.
Replayable(j) ==
    /\ state[j] = "retry"
    /\ generation[j] < OperatorBound

\* The job is available again at once, with attempts left.
replay(p, j) ==
    /\ pc[p] = "idle"
    /\ Replayable(j)
    /\ state' = [state EXCEPT ![j] = "available"]
    /\ due' = [due EXCEPT ![j] = TRUE]
    /\ lease_owner' = [lease_owner EXCEPT ![j] = None]
    /\ lease_live' = [lease_live EXCEPT ![j] = FALSE]
    /\ max_attempts' = [max_attempts EXCEPT ![j] =
                          IF @ >= attempt_count[j] + ReplayGrant
                            THEN @ ELSE attempt_count[j] + ReplayGrant]
    /\ generation' = [generation EXCEPT ![j] = @ + 1]
    /\ add_task_dispatch({<<j, generation[j] + 1>>})
    /\ Proceed(p, "dispatch", None, {<<j, generation[j] + 1>>})
    /\ UNCHANGED <<attempt_count, attempt_log, dispatched, review,
                   cloud_vars, faults>>

\* A job whose current intent was dispatched longer ago than the grace.  The
\* bound limits the recoveries that come while the task is still queued.
Stale(j) ==
    /\ <<j, generation[j]>> \in intents \cap dispatched
    /\ Claimable(j)
    /\ <<j, generation[j]>> \in queue => generation[j] < OperatorBound

\* Recovers a batch of stale jobs in one transaction.
recover_stale_dispatched(p, S) ==
    /\ pc[p] = "idle"
    /\ S # {}
    /\ \A j \in S : Stale(j)
    /\ LET held == {j \in S : lease_owner[j] # None}
           rows == {<<j, generation[j] + 1>> : j \in S}
       IN  /\ attempt_log' = [j \in Job |->
                IF /\ j \in held
                   /\ attempt_log[j][attempt_count[j]] = "open"
                  THEN [attempt_log[j] EXCEPT ![attempt_count[j]] = "retry"]
                  ELSE attempt_log[j]]
           /\ state' = [j \in Job |-> IF j \in held THEN "available"
                                                    ELSE state[j]]
           /\ lease_owner' = [j \in Job |-> IF j \in held THEN None
                                                          ELSE lease_owner[j]]
           /\ generation' = [j \in Job |-> IF j \in S THEN generation[j] + 1
                                                      ELSE generation[j]]
           /\ add_task_dispatch(rows)
           /\ Proceed(p, "dispatch", None, rows)
    /\ UNCHANGED <<attempt_count, max_attempts, lease_live, due, dispatched,
                   review, cloud_vars, faults>>

-----------------------------------------------------------------------------
(* Time and faults.                                                        *)

becomes_due(j) ==
    /\ state[j] \in Runnable
    /\ ~due[j]
    /\ due' = [due EXCEPT ![j] = TRUE]
    /\ UNCHANGED <<state, generation, attempt_count, max_attempts, lease_owner,
                   lease_live, attempt_log, intents, dispatched, review,
                   cloud_vars, call_vars, faults>>

\* Two minutes without a heartbeat: the holder may be dead or only paused.
lease_expires(j) ==
    /\ lease_live[j]
    /\ lease_live' = [lease_live EXCEPT ![j] = FALSE]
    /\ UNCHANGED <<state, generation, attempt_count, max_attempts, lease_owner,
                   due, attempt_log, intents, dispatched, review,
                   cloud_vars, call_vars, faults>>

\* The process of call p dies at any point between two transactions.
crash(p) ==
    /\ pc[p] # "idle"
    /\ faults < MaxFaults
    /\ faults' = faults + 1
    /\ Return(p)
    /\ UNCHANGED <<job_vars, intents, dispatched, review, cloud_vars>>

\* Cloud Tasks gives up on a task (its retry window has passed).
lose_task(t) ==
    /\ t \in queue
    /\ faults < MaxFaults
    /\ faults' = faults + 1
    /\ queue' = queue \ {t}
    /\ UNCHANGED <<job_vars, intents, dispatched, review, created, call_vars>>

-----------------------------------------------------------------------------

\* The steps a call takes by itself once it has begun.
CallStep(p) ==
    \/ handler_ends(p)
    \/ final_heartbeat(p)
    \/ terminal_failure(p)
    \/ \E outcome \in Outcomes : finish(p, outcome) \/ finish_refused(p, outcome)
    \/ \E t \in todo[p] : skip_dispatched(p, t) \/ create(p, t)
    \/ mark_dispatched(p)
    \/ dispatch_ends(p)

DeliverTask(t) ==
    \E p \in Call : claim_specific(p, t) \/ nothing_to_claim(p, t)

Fault(p) == crash(p) \/ create_failed(p)

Operator(p) ==
    \/ \E j \in Job : replay(p, j)
    \/ \E S \in SUBSET Job : recover_stale_dispatched(p, S)

Next ==
    \/ \E p \in Call :
         \/ CallStep(p)
         \/ heartbeat(p)
         \/ unknown_kind(p)
         \/ reconcile(p)
         \/ Operator(p)
         \/ Fault(p)
         \/ \E j \in Job : enqueue_once(p, j) \/ claim(p, j)
    \/ \E t \in queue : DeliverTask(t) \/ lose_task(t)
    \/ \E j \in Job : becomes_due(j) \/ lease_expires(j)

Spec == Init /\ [][Next]_vars

\* Cloud Tasks keeps delivering a queued task until it is acknowledged.
DeliverCurrent(j) ==
    /\ <<j, generation[j]>> \in queue
    /\ DeliverTask(<<j, generation[j]>>)

\* A request that ended before its rows were dispatched was not answered, and
\* its sender repeats it: Cloud Tasks the task whose run made a later
\* generation, and Stripe, or the task whose handler enqueues, the first.
RedeliverTask(j) ==
    \E t \in queue : t[1] = j /\ t[2] < generation[j] /\ DeliverTask(t)
RepeatEnqueue(j) ==
    <<j, 1>> \in Pending /\ \E p \in Call : reconcile(p)

\* Processes make progress, senders repeat what was not answered, and leases run
\* out.  Nothing is assumed of the operator's commands, which no schedule runs.
Fairness ==
    /\ \A p \in Call : WF_vars(CallStep(p))
    /\ \A j \in Job :
         /\ WF_vars(becomes_due(j))
         /\ WF_vars(lease_expires(j))
         /\ SF_vars(DeliverCurrent(j))
         /\ SF_vars(RedeliverTask(j))
         /\ SF_vars(RepeatEnqueue(j))

FairSpec == Spec /\ Fairness

-----------------------------------------------------------------------------
(* The queue implements the contract its callers rely on.                  *)

\* A job row as the contract sees it.
Status(s) ==
    IF s = "leased" THEN "running"
    ELSE IF s \in {"available", "retry"} THEN "waiting"
    ELSE s

Contract == INSTANCE JobContract WITH
    Budget <- MaxAttempts,
    status <- [j \in Job |-> Status(state[j])],
    tries <- attempt_count,
    budget <- max_attempts,
    escalated <- review

\* The job tables, Cloud Tasks, the workers and the operator together behave
\* as JobContract: bounded attempts, one final outcome decided by a running
\* attempt, no failure before the order's escalation.
ImplementsContract == Contract!Spec

-----------------------------------------------------------------------------
(* Properties.                                                             *)

\* A job that can still run always has the dispatch intent of its current
\* generation, so a create outage or a crash after the commit never leaves it
\* without a row that reconcile or stale recovery can act on
\* (add_task_dispatch shares the transaction of every generation change).
RunnableHasIntent ==
    \A j \in Job : state[j] \in Runnable => <<j, generation[j]>> \in intents

\* Cloud Tasks never holds a task whose row is not committed, and never one of
\* a generation the job has not reached: claim_specific's "not committed"
\* answers are unreachable and an old task can only meet a newer generation.
TasksFollowIntents ==
    /\ queue \subseteq created
    /\ dispatched \subseteq created
    /\ created \subseteq intents
    /\ \A t \in intents : t[2] <= generation[t[1]]

Running(p) == pc[p] \in {"handling", "handled", "fenced", "reviewed"}

\* However many attempts of a job are still running (expired leases, duplicate
\* deliveries, calls that share a worker id), at most one of them passes the
\* owner and attempt check of heartbeat and finish.
OneFencedRun ==
    \A p, q \in Call :
        /\ Running(p) /\ Running(q)
        /\ claimed[p].job = claimed[q].job
        /\ Fenced(p) /\ Fenced(q)
        => p = q

\* job_attempts explains the job row: attempts are numbered without gaps and
\* within the budget, only the last one can be final, a leased job's last
\* attempt is open and a settled job's last attempt carries its outcome.
HistoryExplainsState ==
    \A j \in Job :
        /\ Len(attempt_log[j]) = attempt_count[j]
        /\ attempt_count[j] <= max_attempts[j]
        /\ \A n \in 1 .. attempt_count[j] - 1 :
              attempt_log[j][n] \in {"open", "retry"}
        /\ state[j] = "leased" =>
              attempt_count[j] > 0 /\ attempt_log[j][attempt_count[j]] = "open"
        /\ state[j] \in Settled =>
              /\ attempt_count[j] > 0
              /\ attempt_log[j][attempt_count[j]] = state[j]

\* No job ends in manual_review or dead_letter without its order having been
\* moved to manual_review first, whatever crashes between the two commits.
FailureIsEscalated ==
    \A j \in Job : state[j] \in {"manual_review", "dead_letter"} => j \in review

\* Some call runs the job and still holds it.
HasRun(j) == \E p \in Call : Running(p) /\ claimed[p].job = j /\ Fenced(p)

\* The last attempt's holder is gone, and every claim query and stale recovery
\* asks for attempt_count < max_attempts.
Stranded(j) ==
    /\ state[j] = "leased"
    /\ attempt_count[j] = max_attempts[j]
    /\ ~HasRun(j)

\* Cloud Tasks took the current task and has it no more: only the operator's
\* stale recovery brings the job back.
TaskGone(j) ==
    /\ Claimable(j)
    /\ <<j, generation[j]>> \in dispatched \ queue
    /\ ~HasRun(j)

\* No call is at its pending row, and the task whose run made it is gone: it
\* waits for the reconcile of some other request.
Unsent(j) ==
    /\ <<j, generation[j]>> \in Pending
    /\ generation[j] > 1
    /\ \A p \in Call : <<j, generation[j]>> \notin todo[p]
    /\ \A t \in queue : t[1] # j

\* Every job that was enqueued is eventually settled without an operator, through
\* create outages, crashes, lease takeovers and repeated deliveries; the ways it
\* can stay behind are these three.
JobsSettle ==
    \A j \in Job :
        state[j] # "absent" ~>
            \/ state[j] \in Settled
            \/ Stranded(j) \/ TaskGone(j) \/ Unsent(j)

\* A pending intent is eventually dispatched or superseded, unless it is unsent.
IntentsAreDispatched ==
    \A j \in Job :
        <<j, generation[j]>> \in Pending ~>
            <<j, generation[j]>> \notin Pending \/ Unsent(j)

\* docs/PAID_BITCOIN_TIMESTAMP_SERVICE_PLAN.md:179 says: "Worker crashes recover
\* without corrupting durable state".  A lease does not outlive its holder.
CrashedRunsRecover ==
    \A j \in Job : state[j] = "leased" ~> state[j] # "leased"

=============================================================================

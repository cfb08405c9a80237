--------------------------- MODULE JobQueue_proofs ---------------------------
(***************************************************************************)
(* Proofs about JobQueue for every set of jobs and calls and every bound.  *)
(***************************************************************************)
EXTENDS JobQueue, SequenceTheorems, TLAPS

USE DEF add_task_dispatch, Replayable

-----------------------------------------------------------------------------
(* The inductive invariant.                                                *)

\* A row has an owner exactly while it is leased, and a job that was never
\* enqueued has no generation.
OwnedWhenLeased ==
    \A j \in Job :
        /\ lease_owner[j] # None <=> state[j] = "leased"
        /\ state[j] = "absent" => generation[j] = 0

\* What a running call remembers of its claim stays behind the row: attempts
\* and budget only grow, and past the terminal failure the order is escalated.
ClaimsBehindRows ==
    \A p \in Call : Running(p) =>
        /\ claimed[p] \in Claim
        /\ state[claimed[p].job] # "absent"
        /\ claimed[p].attempt > 0
        /\ claimed[p].attempt <= attempt_count[claimed[p].job]
        /\ claimed[p].max <= max_attempts[claimed[p].job]
        /\ pc[p] = "reviewed" => claimed[p].job \in review

\* Two calls never run the same attempt of the same job.
AttemptsUnique ==
    \A p, q \in Call :
        /\ Running(p) /\ Running(q)
        /\ claimed[p].job = claimed[q].job
        /\ claimed[p].attempt = claimed[q].attempt
        => p = q

\* What a call is about to dispatch, or has just created, is a committed row.
DispatchesCommitted ==
    \A p \in Call :
        /\ todo[p] \subseteq intents
        /\ making[p] # None => making[p] \in created

\* As long as a job is not settled every attempt so far is open or ended in a
\* retry, so another attempt may follow.
UnsettledHistory ==
    \A j \in Job : state[j] \notin Settled =>
        \A n \in 1 .. attempt_count[j] : attempt_log[j][n] \in {"open", "retry"}

IInv ==
    /\ TypeOK
    /\ UnsettledHistory
    /\ OwnedWhenLeased
    /\ ClaimsBehindRows
    /\ AttemptsUnique
    /\ DispatchesCommitted
    /\ RunnableHasIntent
    /\ TasksFollowIntents
    /\ HistoryExplainsState
    /\ FailureIsEscalated

-----------------------------------------------------------------------------
(* Lemmas about the data the actions change.                               *)

\* Overwriting one element keeps a sequence a sequence of the same length.
LEMMA Overwrite ==
    ASSUME NEW S, NEW s \in Seq(S), NEW n \in 1 .. Len(s), NEW x \in S
    PROVE  /\ [s EXCEPT ![n] = x] \in Seq(S)
           /\ Len([s EXCEPT ![n] = x]) = Len(s)
           /\ [s EXCEPT ![n] = x][n] = x
           /\ \A m \in 1 .. Len(s) : m # n => [s EXCEPT ![n] = x][m] = s[m]
BY ExceptSeq

-----------------------------------------------------------------------------
(* The steps, by what they do to the job rows.                             *)

rows == <<state, generation, attempt_count, max_attempts, lease_owner,
          attempt_log, intents>>

\* The steps that change a job row other than its lease and due times, or add
\* a dispatch row.
RowStep ==
    \/ \E p \in Call, j \in Job : state[j] = "absent" /\ enqueue_once(p, j)
    \/ \E p \in Call, j \in Job, t \in Intent \cup {None} :
         pc[p] = "idle" /\ Claimable(j) /\ lease(p, j, t)
    \/ \E p \in Call, outcome \in Outcomes : finish(p, outcome)
    \/ \E p \in Call, j \in Job : replay(p, j)
    \/ \E p \in Call, S \in SUBSET Job : recover_stale_dispatched(p, S)

\* Every other step leaves the rows alone.
LEMMA RowSteps ==
    ASSUME TypeOK, [Next]_vars
    PROVE  RowStep \/ UNCHANGED rows
<1> USE DEF rows
<1>1. ASSUME NEW p \in Call, CallStep(p)
      PROVE  RowStep \/ UNCHANGED rows
  BY <1>1 DEF CallStep, handler_ends, final_heartbeat, terminal_failure,
     finish_refused, skip_dispatched, create, mark_dispatched, dispatch_ends,
     job_vars, RowStep
<1>2. ASSUME NEW p \in Call,
             heartbeat(p) \/ unknown_kind(p) \/ reconcile(p) \/ Fault(p)
      PROVE  UNCHANGED rows
  BY <1>2 DEF heartbeat, unknown_kind, reconcile, Fault, crash, create_failed,
     job_vars
<1>3. ASSUME NEW p \in Call, Operator(p)
      PROVE  RowStep
  BY <1>3 DEF Operator, RowStep
<1>4. ASSUME NEW p \in Call, NEW j \in Job, enqueue_once(p, j)
      PROVE  RowStep \/ UNCHANGED rows
  <2>1. CASE state[j] = "absent"
    BY <1>4, <2>1 DEF RowStep
  <2>2. CASE state[j] # "absent"
    BY <1>4, <2>2 DEF enqueue_once
  <2>3. QED BY <2>1, <2>2
<1>5. ASSUME NEW p \in Call, NEW j \in Job, claim(p, j)
      PROVE  RowStep
  BY <1>5 DEF claim, RowStep
<1>6. ASSUME NEW t \in queue, DeliverTask(t) \/ lose_task(t)
      PROVE  RowStep \/ UNCHANGED rows
  <2>1. t \in Intent /\ t[1] \in Job
    BY DEF TypeOK, Intent
  <2>2. CASE lose_task(t)
    BY <2>2 DEF lose_task, job_vars
  <2>3. ASSUME NEW p \in Call, claim_specific(p, t)
        PROVE  RowStep
    BY <2>1, <2>3 DEF claim_specific, RowStep
  <2>4. ASSUME NEW p \in Call, nothing_to_claim(p, t)
        PROVE  UNCHANGED rows
    BY <2>4 DEF nothing_to_claim, job_vars
  <2>5. QED BY <1>6, <2>2, <2>3, <2>4 DEF DeliverTask
<1>7. ASSUME NEW j \in Job, becomes_due(j) \/ lease_expires(j)
      PROVE  UNCHANGED rows
  BY <1>7 DEF becomes_due, lease_expires
<1>8. CASE UNCHANGED vars
  BY <1>8 DEF vars
<1>9. QED
  BY <1>1, <1>2, <1>3, <1>4, <1>5, <1>6, <1>7, <1>8 DEF Next

\* The part of the type invariant that is about the locals of the calls.
CallTypes ==
    /\ pc \in [Call -> Steps]
    /\ claimed \in [Call -> Claim \cup {None}]
    /\ result \in [Call -> Results \cup {None}]
    /\ task \in [Call -> Intent \cup {None}]
    /\ todo \in [Call -> SUBSET Intent]
    /\ making \in [Call -> Intent \cup {None}]

\* Proceed, Return and EndRun leave well-typed locals behind.
LEMMA CallTyping ==
    ASSUME TypeOK, NEW p \in Call,
           \/ Return(p)
           \/ EndRun(p)
           \/ \E s \in Steps, t \in Intent \cup {None}, R \in SUBSET Intent :
                Proceed(p, s, t, R)
    PROVE  CallTypes'
<1>1. CASE Return(p)
  BY <1>1 DEF Return, TypeOK, Steps, CallTypes
<1>2. ASSUME NEW s \in Steps, NEW t \in Intent \cup {None},
             NEW R \in SUBSET Intent, Proceed(p, s, t, R)
      PROVE  CallTypes'
  BY <1>2 DEF Proceed, TypeOK, CallTypes
<1>3. CASE EndRun(p)
  <2>1. Pending \in SUBSET Intent /\ "reconcile" \in Steps
    BY DEF Pending, TypeOK, Steps
  <2>2. task[p] \in Intent \cup {None}
    BY DEF TypeOK
  <2>3. QED BY <1>1, <1>2, <1>3, <2>1, <2>2 DEF EndRun
<1>4. QED BY <1>1, <1>2, <1>3

\* The rows a step dispatches belong to existing generations.
LEMMA NextIntent ==
    ASSUME TypeOK, NEW j \in Job
    PROVE  /\ <<j, generation[j] + 1>> \in Intent
           /\ <<j, generation[j]>> \in Intent
           /\ <<j, 1>> \in Intent
           /\ Pending \in SUBSET Intent
           /\ {"dispatch", "reconcile"} \subseteq Steps
BY DEF TypeOK, Intent, Pending, Steps

\* Every step keeps the types (typing needs to know that a claimed attempt
\* indexes the attempt log).
LEMMA TypeStep ==
    ASSUME IInv, [Next]_vars
    PROVE  TypeOK'
<1> USE DEF IInv
<1>1. ASSUME NEW p \in Call,
             \/ handler_ends(p) \/ terminal_failure(p) \/ unknown_kind(p)
             \/ \E t \in todo[p] : skip_dispatched(p, t) \/ create(p, t)
             \/ mark_dispatched(p)
      PROVE  TypeOK'
  <2> USE DEF TypeOK, job_vars, cloud_vars
  <2>1. CASE handler_ends(p) \/ unknown_kind(p)
    <3>1. \E r \in Results, s \in Steps :
             result' = [result EXCEPT ![p] = r] /\ pc' = [pc EXCEPT ![p] = s]
      BY <2>1 DEF handler_ends, unknown_kind, Steps, Results
    <3>2. /\ pc' \in [Call -> Steps]
          /\ result' \in [Call -> Results \cup {None}]
      BY <3>1 DEF TypeOK
    <3>3. UNCHANGED <<job_vars, intents, dispatched, review, cloud_vars, claimed,
                      task, todo, making, faults>>
      BY <2>1 DEF handler_ends, unknown_kind
    <3>4. QED BY <3>2, <3>3
  <2>2. CASE terminal_failure(p)
    <3>1. claimed[p].job \in Job
      BY <2>2 DEF terminal_failure, ClaimsBehindRows, Running, Claim
    <3>2. QED BY <2>2, <3>1 DEF terminal_failure, Steps
  <2>3. ASSUME NEW t \in todo[p], skip_dispatched(p, t) \/ create(p, t)
        PROVE  TypeOK'
    <3>1. t \in Intent
      OBVIOUS
    <3>2. QED BY <2>3, <3>1 DEF skip_dispatched, create
  <2>4. CASE mark_dispatched(p)
    BY <2>4 DEF mark_dispatched
  <2>5. QED BY <1>1, <2>1, <2>2, <2>3, <2>4
<1>2. ASSUME NEW p \in Call, heartbeat(p) \/ final_heartbeat(p)
      PROVE  TypeOK'
  <2>1. CASE ~OwnsLease(p)
    <3>1. CallTypes'
      BY <1>2, <2>1, CallTyping DEF heartbeat, final_heartbeat
    <3>2. QED
      BY <1>2, <2>1, <3>1 DEF heartbeat, final_heartbeat, TypeOK, CallTypes,
         cloud_vars
  <2>2. CASE OwnsLease(p)
    BY <1>2, <2>2 DEF heartbeat, final_heartbeat, TypeOK, cloud_vars, call_vars,
       Steps
  <2>3. QED BY <2>1, <2>2
<1>3. ASSUME NEW p \in Call,
             \/ \E outcome \in Outcomes : finish_refused(p, outcome)
             \/ dispatch_ends(p) \/ reconcile(p) \/ Fault(p)
      PROVE  TypeOK'
  <2>1. CASE Return(p)
    BY <1>3, <2>1, CallTyping DEF finish_refused, dispatch_ends, Fault, crash,
       create_failed, reconcile, TypeOK, CallTypes, job_vars, cloud_vars, Proceed
  <2>2. CASE ~Return(p)
    <3>1. task[p] \in Intent \cup {None} /\ None \in Intent \cup {None}
      BY DEF TypeOK
    <3>2. \E s \in Steps, t \in Intent \cup {None}, R \in SUBSET Intent :
             Proceed(p, s, t, R)
      BY <1>3, <2>2, <3>1, NextIntent DEF finish_refused, dispatch_ends, Fault,
         crash, create_failed, reconcile, Pending, Steps, TypeOK
    <3>3. QED
      BY <1>3, <2>2, <3>2, CallTyping DEF finish_refused, dispatch_ends, Fault,
         crash, create_failed, reconcile, TypeOK, CallTypes, job_vars,
         cloud_vars
  <2>3. QED BY <2>1, <2>2
<1>4. ASSUME NEW p \in Call, NEW j \in Job, enqueue_once(p, j)
      PROVE  TypeOK'
  <2>1. \E R \in SUBSET Intent : Proceed(p, "dispatch", None, R)
    BY <1>4, NextIntent DEF enqueue_once
  <2>2. CallTypes'
    BY <2>1, CallTyping DEF Steps
  <2>3. <<j, 1>> \in Intent
    BY NextIntent
  <2>4. intents' \subseteq Intent
    <3>1. intents' \subseteq intents \cup {<<j, 1>>}
      BY <1>4 DEF enqueue_once
    <3>2. QED BY <2>3, <3>1 DEF TypeOK
  <2>5. state' \in [Job -> JobState] /\ generation' \in [Job -> Nat]
    <3>1. \/ /\ state' = [state EXCEPT ![j] = "available"]
             /\ generation' = [generation EXCEPT ![j] = 1]
          \/ UNCHANGED <<state, generation>>
      BY <1>4 DEF enqueue_once
    <3>2. "available" \in JobState /\ 1 \in Nat
      BY DEF JobState, Runnable
    <3>3. QED BY <3>1, <3>2 DEF TypeOK
  <2>6. due' \in [Job -> BOOLEAN]
    BY <1>4 DEF enqueue_once, TypeOK
  <2>7. QED
    BY <1>4, <2>2, <2>4, <2>5, <2>6 DEF enqueue_once, TypeOK, CallTypes,
       cloud_vars
<1>5. ASSUME NEW p \in Call, NEW j \in Job, NEW t \in Intent \cup {None},
             lease(p, j, t)
      PROVE  TypeOK'
  <2>1. Append(attempt_log[j], "open") \in Seq(AttemptOutcome)
    BY AppendProperties DEF TypeOK, AttemptOutcome
  <2>2. WorkerOf[p] \in Workers
    BY DEF Workers
  <2>3. [job |-> j, attempt |-> attempt_count[j] + 1,
         max |-> max_attempts[j]] \in Claim
    BY DEF Claim, TypeOK
  <2>4. QED
    BY <1>5, <2>1, <2>2, <2>3 DEF lease, TypeOK, cloud_vars, JobState, Runnable,
       Steps
<1>6. ASSUME NEW p \in Call, NEW outcome \in Outcomes, finish(p, outcome)
      PROVE  TypeOK'
  <2> DEFINE j == claimed[p].job
             o == FinalOutcome(j, outcome)
  <2>1. Running(p)
    BY <1>6 DEF finish, Decides, Running
  <2>2. j \in Job /\ attempt_count[j] \in 1 .. Len(attempt_log[j])
    BY <1>6, <2>1 DEF ClaimsBehindRows, HistoryExplainsState, finish, Fenced,
       Claim, TypeOK
  <2>3. o \in AttemptOutcome /\ o \in JobState
    BY DEF FinalOutcome, Outcomes, AttemptOutcome, Settled, JobState, Runnable
  <2>4. [attempt_log[j] EXCEPT ![attempt_count[j]] = o] \in Seq(AttemptOutcome)
    BY <2>2, <2>3, Overwrite DEF TypeOK
  <2> HIDE DEF o
  <2>5. Conclude(p, j, o)
    BY <1>6 DEF finish, o
  <2> HIDE DEF j
  <2>6. CASE o = "retry"
    <3>1. Proceed(p, "dispatch", task[p], {<<j, generation[j] + 1>>})
      BY <2>5, <2>6 DEF Conclude
    <3>2. task[p] \in Intent \cup {None}
      BY DEF TypeOK
    <3>3. CallTypes'
      BY <2>2, <3>1, <3>2, NextIntent, CallTyping DEF Steps
    <3>4. /\ intents' = intents \cup {<<j, generation[j] + 1>>}
          /\ generation' = [generation EXCEPT ![j] = @ + 1]
          /\ due' = [due EXCEPT ![j] = FALSE]
      BY <2>5, <2>6 DEF Conclude
    <3>5. intents' \subseteq Intent
      BY <2>2, <3>4, NextIntent DEF TypeOK
    <3>6. generation' \in [Job -> Nat] /\ due' \in [Job -> BOOLEAN]
      BY <2>2, <3>4 DEF TypeOK
    <3>7. QED
      BY <2>2, <2>3, <2>4, <2>5, <2>6, <3>3, <3>4, <3>5, <3>6
         DEF Conclude, TypeOK, CallTypes, cloud_vars
  <2>7. CASE o # "retry"
    <3>1. CallTypes'
      BY <2>5, <2>7, CallTyping DEF Conclude
    <3>2. QED
      BY <2>2, <2>3, <2>4, <2>5, <2>7, <3>1 DEF Conclude, TypeOK, CallTypes,
         cloud_vars
  <2>8. QED BY <2>6, <2>7
<1>7. ASSUME NEW p \in Call, NEW j \in Job, replay(p, j)
      PROVE  TypeOK'
  <2>1. Proceed(p, "dispatch", None, {<<j, generation[j] + 1>>})
    BY <1>7 DEF replay
  <2>2. attempt_count[j] + ReplayGrant \in Nat
    BY ConstantsAssumption DEF TypeOK
  <2>3. CallTypes'
    BY <2>1, NextIntent, CallTyping DEF Steps
  <2>4. intents' \subseteq Intent
    BY <1>7, NextIntent DEF replay, TypeOK
  <2>5. QED
    BY <1>7, <2>2, <2>3, <2>4 DEF replay, TypeOK, CallTypes, cloud_vars,
       JobState, Runnable
<1>8. ASSUME NEW p \in Call, NEW S \in SUBSET Job,
             recover_stale_dispatched(p, S)
      PROVE  TypeOK'
  <2> DEFINE R == {<<j, generation[j] + 1>> : j \in S}
  <2>1. R \in SUBSET Intent
    BY NextIntent
  <2>2. Proceed(p, "dispatch", None, R) /\ "dispatch" \in Steps
    BY <1>8 DEF recover_stale_dispatched, Steps
  <2>3. ASSUME NEW j \in Job, j \in S, lease_owner[j] # None
        PROVE  [attempt_log[j] EXCEPT ![attempt_count[j]] = "retry"]
                 \in Seq(AttemptOutcome)
    <3>1. state[j] = "leased"
      BY <2>3 DEF OwnedWhenLeased
    <3>2. attempt_count[j] \in 1 .. Len(attempt_log[j])
      BY <3>1 DEF HistoryExplainsState, TypeOK
    <3>3. "retry" \in AttemptOutcome /\ attempt_log[j] \in Seq(AttemptOutcome)
      BY DEF AttemptOutcome, Outcomes, TypeOK
    <3>4. QED BY <3>2, <3>3, Overwrite
  <2>4. attempt_log' \in [Job -> Seq(AttemptOutcome)]
    BY <1>8, <2>3 DEF recover_stale_dispatched, TypeOK
  <2>5. /\ state' \in [Job -> JobState]
        /\ generation' \in [Job -> Nat]
        /\ lease_owner' \in [Job -> Workers \cup {None}]
    BY <1>8 DEF recover_stale_dispatched, TypeOK, JobState, Runnable
  <2>6. intents' \subseteq Intent
    BY <1>8, <2>1 DEF recover_stale_dispatched, TypeOK
  <2>7. CallTypes'
    BY <2>1, <2>2, CallTyping
  <2> HIDE DEF R
  <2>8. QED
    BY <1>8, <2>4, <2>5, <2>6, <2>7 DEF recover_stale_dispatched, TypeOK,
       CallTypes, cloud_vars
<1>9. ASSUME NEW t \in queue, DeliverTask(t) \/ lose_task(t)
      PROVE  TypeOK'
  <2>1. t \in Intent /\ t[1] \in Job
    BY DEF TypeOK, Intent
  <2>2. CASE lose_task(t)
    BY <2>2 DEF lose_task, TypeOK, job_vars, call_vars
  <2>3. ASSUME NEW p \in Call, claim_specific(p, t)
        PROVE  TypeOK'
    BY <2>1, <2>3, <1>5 DEF claim_specific
  <2>4. ASSUME NEW p \in Call, nothing_to_claim(p, t)
        PROVE  TypeOK'
    <3>1. Proceed(p, "reconcile", t, Pending)
      BY <2>4 DEF nothing_to_claim
    <3>2. Pending \in SUBSET Intent /\ "reconcile" \in Steps
      BY DEF Pending, TypeOK, Steps
    <3>3. CallTypes'
      BY <2>1, <3>1, <3>2, CallTyping
    <3>4. QED
      BY <2>4, <3>3 DEF nothing_to_claim, TypeOK, CallTypes, job_vars,
         cloud_vars
  <2>5. QED BY <1>9, <2>2, <2>3, <2>4 DEF DeliverTask
<1>10. ASSUME NEW j \in Job, becomes_due(j) \/ lease_expires(j)
       PROVE  TypeOK'
  BY <1>10 DEF becomes_due, lease_expires, TypeOK, cloud_vars, call_vars
<1>11. CASE UNCHANGED vars
  BY <1>11 DEF vars, TypeOK
<1>12. ASSUME NEW p \in Call, NEW j \in Job, claim(p, j)
       PROVE  TypeOK'
  BY <1>5, <1>12 DEF claim
<1>13. QED
  BY <1>1, <1>2, <1>3, <1>4, <1>6, <1>7, <1>8, <1>9, <1>10, <1>11, <1>12
     DEF Next, CallStep, Operator

-----------------------------------------------------------------------------
(* What only grows.                                                        *)

\* Rows of task_dispatches, task names and escalations are never taken back.
LEMMA SetsGrow ==
    ASSUME [Next]_vars
    PROVE  /\ intents \subseteq intents'
           /\ review \subseteq review'
           /\ created \subseteq created'
<1> DEFINE G == /\ intents \subseteq intents'
                /\ review \subseteq review'
                /\ created \subseteq created'
<1>1. ASSUME NEW p \in Call, CallStep(p)
      PROVE  G
  BY <1>1 DEF CallStep, handler_ends, final_heartbeat, terminal_failure, finish,
     Conclude, finish_refused, skip_dispatched, create, mark_dispatched,
     dispatch_ends, cloud_vars
<1>2. ASSUME NEW p \in Call,
             \/ heartbeat(p) \/ unknown_kind(p) \/ reconcile(p) \/ Fault(p)
             \/ Operator(p)
             \/ \E j \in Job : enqueue_once(p, j) \/ claim(p, j)
      PROVE  G
  BY <1>2 DEF heartbeat, unknown_kind, reconcile, Fault, crash, create_failed,
     Operator, replay, recover_stale_dispatched, enqueue_once, claim, lease,
     cloud_vars
<1>3. ASSUME NEW t \in queue, DeliverTask(t) \/ lose_task(t)
      PROVE  G
  BY <1>3 DEF DeliverTask, claim_specific, lease, nothing_to_claim, lose_task,
     cloud_vars
<1>4. ASSUME NEW j \in Job, becomes_due(j) \/ lease_expires(j)
      PROVE  G
  BY <1>4 DEF becomes_due, lease_expires, cloud_vars
<1>5. CASE UNCHANGED vars
  BY <1>5 DEF vars
<1>6. QED BY <1>1, <1>2, <1>3, <1>4, <1>5 DEF Next

\* A recovered job, seen from its row.
LEMMA Recovered ==
    ASSUME TypeOK, NEW p \in Call, NEW S \in SUBSET Job,
           recover_stale_dispatched(p, S), NEW j \in Job
    PROVE  /\ attempt_count' = attempt_count /\ max_attempts' = max_attempts
           /\ j \in S => generation'[j] = generation[j] + 1
           /\ j \in S => <<j, generation[j] + 1>> \in intents'
           /\ j \notin S => generation'[j] = generation[j]
           /\ \/ /\ j \in S /\ lease_owner[j] # None
                 /\ state'[j] = "available" /\ lease_owner'[j] = None
              \/ /\ ~(j \in S /\ lease_owner[j] # None)
                 /\ state'[j] = state[j] /\ lease_owner'[j] = lease_owner[j]
                 /\ attempt_log'[j] = attempt_log[j]
BY DEF recover_stale_dispatched, TypeOK

\* Attempts, budget and generation never go down and no job disappears.
LEMMA RowsGrow ==
    ASSUME IInv, [Next]_vars, NEW j \in Job
    PROVE  /\ attempt_count[j] <= attempt_count'[j]
           /\ max_attempts[j] <= max_attempts'[j]
           /\ generation[j] <= generation'[j]
           /\ state[j] # "absent" => state'[j] # "absent"
<1> USE DEF IInv
<1> DEFINE G == /\ attempt_count[j] <= attempt_count'[j]
                /\ max_attempts[j] <= max_attempts'[j]
                /\ generation[j] <= generation'[j]
                /\ state[j] # "absent" => state'[j] # "absent"
<1>0. /\ attempt_count[j] \in Nat /\ max_attempts[j] \in Nat
      /\ generation[j] \in Nat
  BY DEF TypeOK
<1>1. CASE UNCHANGED rows
  BY <1>0, <1>1 DEF rows
<1>2. ASSUME NEW p \in Call, NEW k \in Job, state[k] = "absent",
             enqueue_once(p, k)
      PROVE  G
  <2>1. k = j => generation[j] = 0
    BY <1>2 DEF OwnedWhenLeased
  <2>2. generation' = [generation EXCEPT ![k] = 1] \/ UNCHANGED generation
    BY <1>2 DEF enqueue_once
  <2>3. generation[j] <= generation'[j]
    BY <1>0, <2>1, <2>2 DEF TypeOK
  <2>4. QED BY <1>0, <1>2, <2>3 DEF enqueue_once, TypeOK
<1>3. ASSUME NEW p \in Call, NEW k \in Job, NEW t \in Intent \cup {None},
             lease(p, k, t)
      PROVE  G
  BY <1>0, <1>3 DEF lease, TypeOK
<1>4. ASSUME NEW p \in Call, NEW outcome \in Outcomes, finish(p, outcome)
      PROVE  G
  BY <1>0, <1>4, SMTT(30)
  DEF finish, Conclude, FinalOutcome, Outcomes, Settled, TypeOK
<1>5. ASSUME NEW p \in Call, NEW k \in Job, replay(p, k)
      PROVE  G
  BY <1>0, <1>5, ConstantsAssumption DEF replay, TypeOK
<1>6. ASSUME NEW p \in Call, NEW S \in SUBSET Job,
             recover_stale_dispatched(p, S)
      PROVE  G
  <2>1. /\ attempt_count' = attempt_count /\ max_attempts' = max_attempts
        /\ generation'[j] \in {generation[j], generation[j] + 1}
        /\ state'[j] \in {"available", state[j]}
    BY <1>6, Recovered
  <2>2. QED BY <1>0, <2>1
<1>7. QED
  BY <1>1, <1>2, <1>3, <1>4, <1>5, <1>6, RowSteps DEF RowStep

-----------------------------------------------------------------------------
(* Invariants of the job rows.                                             *)

\* The finishing call's claim is the row's current attempt, and it finds
\* attempts left whenever the worker asks for a retry.
LEMMA Finishing ==
    ASSUME IInv, NEW p \in Call, NEW outcome \in Outcomes, finish(p, outcome)
    PROVE  /\ claimed[p].job \in Job
           /\ Conclude(p, claimed[p].job, outcome)
           /\ state[claimed[p].job] = "leased"
           /\ attempt_count[claimed[p].job]
                \in 1 .. Len(attempt_log[claimed[p].job])
           /\ outcome \in {"manual_review", "dead_letter"} =>
                claimed[p].job \in review
<1> USE DEF IInv
<1> DEFINE j == claimed[p].job
<1>1. Running(p) /\ claimed[p] \in Claim /\ j \in Job
  BY DEF finish, Decides, Running, ClaimsBehindRows, Claim
<1>2. attempt_count[j] = claimed[p].attempt /\ lease_owner[j] = WorkerOf[p]
  BY DEF finish, Fenced
<1>3. state[j] = "leased"
  BY <1>1, <1>2, ConstantsAssumption DEF OwnedWhenLeased
<1>4. attempt_count[j] \in 1 .. Len(attempt_log[j])
  BY <1>1, <1>3 DEF HistoryExplainsState, TypeOK
<1>5. outcome = "retry" => attempt_count[j] < max_attempts[j]
  <2>1. /\ claimed[p].attempt \in Nat /\ claimed[p].max \in Nat
        /\ max_attempts[j] \in Nat /\ claimed[p].max <= max_attempts[j]
    BY <1>1 DEF Claim, TypeOK, ClaimsBehindRows
  <2>2. outcome = "retry" => ~(claimed[p].attempt >= claimed[p].max)
    BY DEF finish, Decides, Exhausted
  <2>3. QED BY <1>2, <2>1, <2>2
<1>6. FinalOutcome(j, outcome) = outcome
  <2>1. attempt_count[j] \in Nat /\ max_attempts[j] \in Nat
    BY <1>1 DEF TypeOK
  <2>2. QED BY <1>5, <2>1 DEF FinalOutcome
<1>7. outcome \in {"manual_review", "dead_letter"} => j \in review
  BY <1>1 DEF finish, Decides, ClaimsBehindRows
<1>8. Conclude(p, j, outcome)
  BY <1>6 DEF finish
<1>9. QED BY <1>1, <1>3, <1>4, <1>7, <1>8

\* Every step keeps owners and leased states together.
LEMMA OwnedStep ==
    ASSUME IInv, [Next]_vars
    PROVE  OwnedWhenLeased'
<1> USE DEF IInv
<1> SUFFICES ASSUME NEW j \in Job
             PROVE  /\ lease_owner'[j] # None <=> state'[j] = "leased"
                    /\ state'[j] = "absent" => generation'[j] = 0
  BY DEF OwnedWhenLeased
<1> DEFINE G == /\ lease_owner'[j] # None <=> state'[j] = "leased"
                /\ state'[j] = "absent" => generation'[j] = 0
<1>0. /\ lease_owner[j] # None <=> state[j] = "leased"
      /\ state[j] = "absent" => generation[j] = 0
  BY DEF OwnedWhenLeased
<1>1. CASE UNCHANGED rows
  BY <1>0, <1>1 DEF rows
<1>2. ASSUME NEW p \in Call, NEW k \in Job, state[k] = "absent",
             enqueue_once(p, k)
      PROVE  G
  <2>1. \/ /\ state' = [state EXCEPT ![k] = "available"]
           /\ generation' = [generation EXCEPT ![k] = 1]
        \/ UNCHANGED <<state, generation>>
    BY <1>2 DEF enqueue_once
  <2>2. lease_owner' = lease_owner
    BY <1>2 DEF enqueue_once
  <2>3. lease_owner[k] = None
    BY <1>2 DEF OwnedWhenLeased
  <2>4. QED BY <1>0, <2>1, <2>2, <2>3 DEF TypeOK
<1>3. ASSUME NEW p \in Call, NEW k \in Job, NEW t \in Intent \cup {None},
             lease(p, k, t)
      PROVE  G
  BY <1>0, <1>3, ConstantsAssumption DEF lease, TypeOK, Workers
<1>4. ASSUME NEW p \in Call, NEW outcome \in Outcomes, finish(p, outcome)
      PROVE  G
  <2> DEFINE k == claimed[p].job
  <2>1. /\ k \in Job /\ Conclude(p, k, outcome)
        /\ outcome # "leased" /\ outcome # "absent"
    BY <1>4, Finishing DEF Outcomes, Settled
  <2>2. /\ state' = [state EXCEPT ![k] = outcome]
        /\ lease_owner' = [lease_owner EXCEPT ![k] = None]
    BY <2>1 DEF Conclude
  <2>3. \/ generation' = [generation EXCEPT ![k] = @ + 1]
        \/ UNCHANGED generation
    BY <2>1 DEF Conclude
  <2> HIDE DEF k
  <2>4. QED BY <1>0, <2>1, <2>2, <2>3 DEF TypeOK
<1>5. ASSUME NEW p \in Call, NEW k \in Job, replay(p, k)
      PROVE  G
  BY <1>0, <1>5 DEF replay, TypeOK
<1>6. ASSUME NEW p \in Call, NEW S \in SUBSET Job,
             recover_stale_dispatched(p, S)
      PROVE  G
  <2>1. \/ state'[j] = "available" /\ lease_owner'[j] = None
        \/ /\ state'[j] = state[j] /\ lease_owner'[j] = lease_owner[j]
           /\ j \notin S => generation'[j] = generation[j]
    BY <1>6, Recovered
  <2>2. j \in S => state[j] # "absent"
    BY <1>6 DEF recover_stale_dispatched, Stale, Claimable, Runnable
  <2>3. QED BY <1>0, <2>1, <2>2
<1>7. QED
  BY <1>1, <1>2, <1>3, <1>4, <1>5, <1>6, RowSteps DEF RowStep

\* Every step that changes a generation commits the intent with it.
LEMMA IntentStep ==
    ASSUME IInv, [Next]_vars
    PROVE  RunnableHasIntent'
<1> USE DEF IInv
<1> SUFFICES ASSUME NEW j \in Job, state'[j] \in Runnable
             PROVE  <<j, generation'[j]>> \in intents'
  BY DEF RunnableHasIntent
<1> DEFINE G == <<j, generation'[j]>> \in intents'
<1>0. /\ intents \subseteq intents'
      /\ state[j] \in Runnable => <<j, generation[j]>> \in intents
  BY SetsGrow DEF RunnableHasIntent
<1>1. CASE UNCHANGED rows
  BY <1>0, <1>1 DEF rows
<1>2. ASSUME NEW p \in Call, NEW k \in Job, state[k] = "absent",
             enqueue_once(p, k)
      PROVE  G
  <2>1. \/ /\ generation' = [generation EXCEPT ![k] = 1]
           /\ state' = [state EXCEPT ![k] = "available"]
           /\ <<k, 1>> \in intents'
        \/ UNCHANGED <<state, generation>>
    BY <1>2 DEF enqueue_once
  <2>2. QED BY <1>0, <2>1 DEF TypeOK
<1>3. ASSUME NEW p \in Call, NEW k \in Job, NEW t \in Intent \cup {None},
             Claimable(k), lease(p, k, t)
      PROVE  G
  <2>1. generation' = generation /\ (j = k \/ state'[j] = state[j])
    BY <1>3 DEF lease, TypeOK
  <2>2. QED BY <1>0, <1>3, <2>1 DEF Claimable
<1>4. ASSUME NEW p \in Call, NEW outcome \in Outcomes, finish(p, outcome)
      PROVE  G
  <2> DEFINE k == claimed[p].job
  <2>1. k \in Job /\ Conclude(p, k, outcome) /\ state[k] = "leased"
    BY <1>4, Finishing
  <2>2. state' = [state EXCEPT ![k] = outcome]
    BY <2>1 DEF Conclude
  <2>3. \/ /\ generation' = [generation EXCEPT ![k] = @ + 1]
           /\ <<k, generation[k] + 1>> \in intents'
        \/ UNCHANGED generation
    BY <2>1 DEF Conclude
  <2> HIDE DEF k
  <2>4. QED BY <1>0, <2>1, <2>2, <2>3 DEF TypeOK, Runnable
<1>5. ASSUME NEW p \in Call, NEW k \in Job, replay(p, k)
      PROVE  G
  BY <1>0, <1>5 DEF replay, TypeOK
<1>6. ASSUME NEW p \in Call, NEW S \in SUBSET Job,
             recover_stale_dispatched(p, S)
      PROVE  G
  <2>1. CASE j \in S
    BY <1>6, <2>1, Recovered
  <2>2. CASE j \notin S
    BY <1>0, <1>6, <2>2, Recovered
  <2>3. QED BY <2>1, <2>2
<1>7. QED
  BY <1>1, <1>2, <1>3, <1>4, <1>5, <1>6, RowSteps DEF RowStep

\* A step that fails a job for good finds its order escalated.
LEMMA EscalationStep ==
    ASSUME IInv, [Next]_vars
    PROVE  FailureIsEscalated'
<1> USE DEF IInv
<1> DEFINE Failed == {"manual_review", "dead_letter"}
<1> SUFFICES ASSUME NEW j \in Job, state'[j] \in Failed
             PROVE  j \in review'
  BY DEF FailureIsEscalated
<1>0. review \subseteq review' /\ (state[j] \in Failed => j \in review)
  BY SetsGrow DEF FailureIsEscalated
<1>1. CASE UNCHANGED rows
  BY <1>0, <1>1 DEF rows
<1>2. ASSUME NEW p \in Call, NEW k \in Job, enqueue_once(p, k)
      PROVE  j \in review'
  BY <1>0, <1>2 DEF enqueue_once, TypeOK
<1>3. ASSUME NEW p \in Call, NEW k \in Job, NEW t \in Intent \cup {None},
             lease(p, k, t)
      PROVE  j \in review'
  BY <1>0, <1>3 DEF lease, TypeOK
<1>4. ASSUME NEW p \in Call, NEW outcome \in Outcomes, finish(p, outcome)
      PROVE  j \in review'
  <2> DEFINE k == claimed[p].job
  <2>1. /\ k \in Job /\ Conclude(p, k, outcome)
        /\ outcome \in Failed => k \in review
    BY <1>4, Finishing
  <2>2. state' = [state EXCEPT ![k] = outcome]
    BY <2>1 DEF Conclude
  <2> HIDE DEF k
  <2>3. QED BY <1>0, <2>1, <2>2 DEF TypeOK
<1>5. ASSUME NEW p \in Call, NEW k \in Job, replay(p, k)
      PROVE  j \in review'
  BY <1>0, <1>5 DEF replay, TypeOK
<1>6. ASSUME NEW p \in Call, NEW S \in SUBSET Job,
             recover_stale_dispatched(p, S)
      PROVE  j \in review'
  BY <1>0, <1>6, Recovered
<1>7. QED
  BY <1>1, <1>2, <1>3, <1>4, <1>5, <1>6, RowSteps DEF RowStep

\* HistoryExplainsState and UnsettledHistory for one job.
History(j) ==
    /\ state[j] \notin Settled =>
          \A n \in 1 .. attempt_count[j] : attempt_log[j][n] \in {"open", "retry"}
    /\ Len(attempt_log[j]) = attempt_count[j]
    /\ attempt_count[j] <= max_attempts[j]
    /\ \A n \in 1 .. attempt_count[j] - 1 :
          attempt_log[j][n] \in {"open", "retry"}
    /\ state[j] = "leased" =>
          attempt_count[j] > 0 /\ attempt_log[j][attempt_count[j]] = "open"
    /\ state[j] \in Settled =>
          /\ attempt_count[j] > 0
          /\ attempt_log[j][attempt_count[j]] = state[j]

\* Every step keeps job_attempts and the job row consistent.
LEMMA HistoryStep ==
    ASSUME IInv, [Next]_vars
    PROVE  HistoryExplainsState' /\ UnsettledHistory'
<1> USE DEF IInv
<1> SUFFICES ASSUME NEW j \in Job PROVE History(j)'
  BY DEF HistoryExplainsState, UnsettledHistory, History
<1>0. /\ History(j)
      /\ attempt_log[j] \in Seq(AttemptOutcome)
      /\ attempt_count[j] \in Nat /\ max_attempts[j] \in Nat
      /\ Len(attempt_log[j]) = attempt_count[j]
  BY DEF HistoryExplainsState, UnsettledHistory, History, TypeOK
\* Rows whose state stays unsettled and whose attempts do not change.
<1>1. ASSUME attempt_log'[j] = attempt_log[j],
             attempt_count'[j] = attempt_count[j],
             max_attempts[j] <= max_attempts'[j], max_attempts'[j] \in Nat,
             \/ state'[j] = state[j]
             \/ state[j] \notin Settled /\ state'[j] = "available"
      PROVE  History(j)'
  BY <1>0, <1>1 DEF History, Settled
<1>2. CASE UNCHANGED rows
  BY <1>0, <1>1, <1>2 DEF rows, TypeOK
<1>3. ASSUME NEW p \in Call, NEW k \in Job, state[k] = "absent",
             enqueue_once(p, k)
      PROVE  History(j)'
  <2>1. \/ state'[j] = state[j]
        \/ state[j] \notin Settled /\ state'[j] = "available"
    BY <1>3 DEF enqueue_once, TypeOK, Settled
  <2>2. UNCHANGED <<attempt_log, attempt_count, max_attempts>>
    BY <1>3 DEF enqueue_once
  <2>3. QED BY <1>0, <1>1, <2>1, <2>2 DEF TypeOK
<1>4. ASSUME NEW p \in Call, NEW k \in Job, NEW t \in Intent \cup {None},
             Claimable(k), lease(p, k, t)
      PROVE  History(j)'
  <2>1. CASE k # j
    BY <1>0, <1>1, <1>4, <2>1 DEF lease, TypeOK
  <2>2. CASE k = j
    <3>1. /\ attempt_log'[j] = Append(attempt_log[j], "open")
          /\ attempt_count'[j] = attempt_count[j] + 1
          /\ max_attempts'[j] = max_attempts[j]
          /\ state'[j] = "leased"
      BY <1>4, <2>2 DEF lease, TypeOK
    <3>2. state[j] \notin Settled /\ attempt_count[j] < max_attempts[j]
      BY <1>4, <2>2 DEF Claimable, Runnable, Settled
    <3>3. "open" \in AttemptOutcome
      BY DEF AttemptOutcome
    <3>4. /\ Len(attempt_log'[j]) = attempt_count[j] + 1
          /\ attempt_log'[j][attempt_count[j] + 1] = "open"
          /\ \A n \in 1 .. attempt_count[j] :
                attempt_log'[j][n] = attempt_log[j][n]
      BY <1>0, <3>1, <3>3, AppendProperties
    <3>5. \A n \in 1 .. attempt_count[j] :
            attempt_log'[j][n] \in {"open", "retry"}
      BY <1>0, <3>2, <3>4 DEF History
    <3>6. QED BY <1>0, <3>1, <3>2, <3>4, <3>5 DEF History, Settled
  <2>3. QED BY <2>1, <2>2
<1>5. ASSUME NEW p \in Call, NEW outcome \in Outcomes, finish(p, outcome)
      PROVE  History(j)'
  <2> DEFINE k == claimed[p].job
  <2>1. /\ k \in Job /\ Conclude(p, k, outcome) /\ state[k] = "leased"
        /\ attempt_count[k] \in 1 .. Len(attempt_log[k])
    BY <1>5, Finishing
  <2>2. /\ state' = [state EXCEPT ![k] = outcome]
        /\ attempt_log' = [attempt_log EXCEPT ![k] =
                              [@ EXCEPT ![attempt_count[k]] = outcome]]
        /\ UNCHANGED <<attempt_count, max_attempts>>
    BY <2>1 DEF Conclude
  <2> HIDE DEF k
  <2>3. CASE k # j
    BY <1>0, <1>1, <2>1, <2>2, <2>3 DEF TypeOK
  <2>4. CASE k = j
    <3>1. /\ attempt_log'[j] =
               [attempt_log[j] EXCEPT ![attempt_count[j]] = outcome]
          /\ attempt_count'[j] = attempt_count[j]
          /\ max_attempts'[j] = max_attempts[j]
          /\ state'[j] = outcome
      BY <2>1, <2>2, <2>4 DEF TypeOK
    <3>2. outcome \in AttemptOutcome /\ outcome \in {"retry"} \cup Settled
      BY DEF Outcomes, AttemptOutcome
    <3>3. /\ Len(attempt_log'[j]) = attempt_count[j]
          /\ attempt_log'[j][attempt_count[j]] = outcome
          /\ \A n \in 1 .. attempt_count[j] : n # attempt_count[j] =>
                attempt_log'[j][n] = attempt_log[j][n]
      BY <1>0, <2>1, <2>4, <3>1, <3>2, Overwrite
    <3>4. \A n \in 1 .. attempt_count[j] - 1 :
            attempt_log'[j][n] \in {"open", "retry"}
      BY <1>0, <3>3 DEF History
    <3>5. attempt_count[j] > 0
      BY <1>0, <2>1, <2>4
    <3>6. \A n \in 1 .. attempt_count[j] :
            outcome = "retry" => attempt_log'[j][n] \in {"open", "retry"}
      BY <1>0, <3>3, <3>4
    <3>7. QED
      BY <1>0, <3>1, <3>2, <3>3, <3>4, <3>5, <3>6 DEF History, Settled
  <2>5. QED BY <2>3, <2>4
<1>6. ASSUME NEW p \in Call, NEW k \in Job, replay(p, k)
      PROVE  History(j)'
  <2>1. \/ state'[j] = state[j]
        \/ state[j] \notin Settled /\ state'[j] = "available"
    BY <1>6 DEF replay, TypeOK, Settled
  <2>2. UNCHANGED <<attempt_log, attempt_count>>
    BY <1>6 DEF replay
  <2>3. max_attempts[j] <= max_attempts'[j] /\ max_attempts'[j] \in Nat
    BY RowsGrow, TypeStep DEF TypeOK
  <2>4. QED BY <1>1, <2>1, <2>2, <2>3
<1>7. ASSUME NEW p \in Call, NEW S \in SUBSET Job,
             recover_stale_dispatched(p, S)
      PROVE  History(j)'
  <2>1. attempt_count' = attempt_count /\ max_attempts' = max_attempts
    BY <1>7 DEF recover_stale_dispatched
  <2>2. CASE ~(j \in S /\ lease_owner[j] # None)
    <3>1. state'[j] = state[j] /\ attempt_log'[j] = attempt_log[j]
      BY <1>7, <2>2 DEF recover_stale_dispatched, TypeOK
    <3>2. QED BY <1>0, <1>1, <2>1, <3>1
  <2>3. CASE j \in S /\ lease_owner[j] # None
    <3>1. state'[j] = "available"
      BY <1>7, <2>3 DEF recover_stale_dispatched
    <3>2. state[j] = "leased"
      BY <2>3 DEF OwnedWhenLeased
    <3>3. /\ attempt_count[j] \in 1 .. Len(attempt_log[j])
          /\ attempt_log[j][attempt_count[j]] = "open"
      BY <1>0, <3>2 DEF History
    <3>4. attempt_log'[j] = [attempt_log[j] EXCEPT ![attempt_count[j]] = "retry"]
      BY <1>7, <2>3, <3>3 DEF recover_stale_dispatched
    <3>5. "retry" \in AttemptOutcome
      BY DEF AttemptOutcome, Outcomes
    <3>6. /\ Len(attempt_log'[j]) = attempt_count[j]
          /\ attempt_log'[j][attempt_count[j]] = "retry"
          /\ \A n \in 1 .. attempt_count[j] : n # attempt_count[j] =>
                attempt_log'[j][n] = attempt_log[j][n]
      BY <1>0, <3>3, <3>4, <3>5, Overwrite
    <3>7. \A n \in 1 .. attempt_count[j] :
            attempt_log'[j][n] \in {"open", "retry"}
      BY <1>0, <3>2, <3>6 DEF History, Settled
    <3>8. QED BY <1>0, <2>1, <3>1, <3>6, <3>7 DEF History, Settled
  <2>4. QED BY <2>2, <2>3
<1>8. QED
  BY <1>2, <1>3, <1>4, <1>5, <1>6, <1>7, RowSteps DEF RowStep

-----------------------------------------------------------------------------
(* Invariants of the calls.                                                *)

\* A call that returns, or goes on to dispatch, is no longer running a job.
LEMMA Leaving ==
    ASSUME TypeOK, NEW p \in Call, NEW q \in Call, Running(q)',
           \/ Return(p)
           \/ EndRun(p)
           \/ \E s \in {"dispatch", "reconcile"}, t \in Intent \cup {None},
                 R \in SUBSET Intent : Proceed(p, s, t, R)
    PROVE  Running(q) /\ claimed'[q] = claimed[q] /\ pc'[q] = pc[q]
<1>1. CASE Return(p)
  BY <1>1 DEF Return, Running, TypeOK
<1>2. ASSUME NEW s \in {"dispatch", "reconcile"}, NEW t, NEW R,
             Proceed(p, s, t, R)
      PROVE  Running(q) /\ claimed'[q] = claimed[q] /\ pc'[q] = pc[q]
  BY <1>2 DEF Proceed, Running, TypeOK
<1>3. CASE EndRun(p)
  BY <1>1, <1>2, <1>3 DEF EndRun
<1>4. QED BY <1>1, <1>2, <1>3

\* A call that runs a job after the step ran it before with the same claim, or
\* has just leased it; it passes the terminal failure only by escalating.
LEMMA RunSteps ==
    ASSUME IInv, [Next]_vars, NEW q \in Call, Running(q)'
    PROVE  \/ /\ Running(q) /\ claimed'[q] = claimed[q]
              /\ \/ pc'[q] # "reviewed"
                 \/ pc[q] = "reviewed"
                 \/ claimed[q].job \in review'
           \/ \E j \in Job, t \in Intent \cup {None} :
                pc[q] = "idle" /\ Claimable(j) /\ lease(q, j, t)
<1> USE DEF IInv
<1> DEFINE Kept == /\ Running(q) /\ claimed'[q] = claimed[q]
                   /\ \/ pc'[q] # "reviewed"
                      \/ pc[q] = "reviewed"
                      \/ claimed[q].job \in review'
           Leased == \E j \in Job, t \in Intent \cup {None} :
                        pc[q] = "idle" /\ Claimable(j) /\ lease(q, j, t)
<1>1. ASSUME NEW p \in Call,
             \/ Return(p)
             \/ EndRun(p)
             \/ \E s \in {"dispatch", "reconcile"}, t \in Intent \cup {None},
                   R \in SUBSET Intent : Proceed(p, s, t, R)
      PROVE  Kept
  BY <1>1, Leaving
<1>2. ASSUME UNCHANGED <<pc, claimed>>
      PROVE  Kept
  BY <1>2 DEF Running
<1>3. ASSUME NEW p \in Call, NEW j \in Job, NEW t \in Intent \cup {None},
             pc[p] = "idle" /\ Claimable(j) /\ lease(p, j, t)
      PROVE  Kept \/ Leased
  <2>1. CASE p = q
    BY <1>3, <2>1
  <2>2. CASE p # q
    BY <1>3, <2>2 DEF lease, Running, TypeOK
  <2>3. QED BY <2>1, <2>2
<1>4. ASSUME NEW p \in Call, handler_ends(p) \/ unknown_kind(p)
      PROVE  Kept
  BY <1>4 DEF handler_ends, unknown_kind, Running, TypeOK
<1>5. ASSUME NEW p \in Call, heartbeat(p) \/ final_heartbeat(p)
      PROVE  Kept
  <2>1. CASE OwnsLease(p)
    BY <1>5, <2>1 DEF heartbeat, final_heartbeat, Running, TypeOK, call_vars
  <2>2. CASE ~OwnsLease(p)
    BY <1>1, <1>5, <2>2 DEF heartbeat, final_heartbeat
  <2>3. QED BY <2>1, <2>2
<1>6. ASSUME NEW p \in Call, terminal_failure(p)
      PROVE  Kept
  BY <1>6 DEF terminal_failure, Running, TypeOK
<1>7. ASSUME NEW p \in Call, NEW outcome \in Outcomes,
             finish(p, outcome) \/ finish_refused(p, outcome)
      PROVE  Kept
  <2>1. CASE finish_refused(p, outcome)
    BY <1>1, <2>1 DEF finish_refused
  <2>2. CASE finish(p, outcome)
    <3> DEFINE k == claimed[p].job
    <3>1. k \in Job /\ Conclude(p, k, outcome)
      BY <2>2, Finishing
    <3>2. \/ EndRun(p)
          \/ Proceed(p, "dispatch", task[p], {<<k, generation[k] + 1>>})
      BY <3>1 DEF Conclude
    <3>3. /\ {<<k, generation[k] + 1>>} \in SUBSET Intent
          /\ task[p] \in Intent \cup {None}
      BY <3>1, NextIntent DEF TypeOK
    <3>4. QED BY <1>1, <3>2, <3>3
  <2>3. QED BY <1>7, <2>1, <2>2
<1>8. ASSUME NEW p \in Call,
             \/ \E t \in todo[p] : skip_dispatched(p, t) \/ create(p, t)
             \/ mark_dispatched(p)
      PROVE  Kept
  BY <1>2, <1>8 DEF skip_dispatched, create, mark_dispatched
<1>9. ASSUME NEW p \in Call, dispatch_ends(p) \/ reconcile(p) \/ Fault(p)
      PROVE  Kept
  <2>1. task[p] \in Intent \cup {None} /\ Pending \in SUBSET Intent
    BY DEF TypeOK, Pending
  <2>2. QED
    BY <1>1, <1>9, <2>1 DEF dispatch_ends, reconcile, Fault, crash,
       create_failed
<1>10. ASSUME NEW p \in Call, NEW j \in Job, enqueue_once(p, j) \/ replay(p, j)
       PROVE  Kept
  <2>1. \E R \in SUBSET Intent : Proceed(p, "dispatch", None, R)
    BY <1>10, NextIntent DEF enqueue_once, replay
  <2>2. QED BY <1>1, <2>1
<1>11. ASSUME NEW p \in Call, NEW S \in SUBSET Job,
              recover_stale_dispatched(p, S)
       PROVE  Kept
  <2>1. {<<j, generation[j] + 1>> : j \in S} \in SUBSET Intent
    BY NextIntent
  <2>2. Proceed(p, "dispatch", None, {<<j, generation[j] + 1>> : j \in S})
    BY <1>11 DEF recover_stale_dispatched
  <2>3. QED BY <1>1, <2>1, <2>2
<1>12. ASSUME NEW t \in queue, DeliverTask(t) \/ lose_task(t)
       PROVE  Kept \/ Leased
  <2>1. t \in Intent /\ t[1] \in Job
    BY DEF TypeOK, Intent
  <2>2. CASE lose_task(t)
    BY <1>2, <2>2 DEF lose_task, call_vars
  <2>3. ASSUME NEW p \in Call, claim_specific(p, t)
        PROVE  Kept \/ Leased
    <3>1. pc[p] = "idle" /\ Claimable(t[1]) /\ lease(p, t[1], t)
      BY <2>3 DEF claim_specific
    <3>2. QED BY <1>3, <2>1, <3>1
  <2>4. ASSUME NEW p \in Call, nothing_to_claim(p, t)
        PROVE  Kept
    <3>1. Pending \in SUBSET Intent
      BY DEF TypeOK, Pending
    <3>2. QED BY <1>1, <2>1, <2>4, <3>1 DEF nothing_to_claim
  <2>5. QED BY <1>12, <2>2, <2>3, <2>4 DEF DeliverTask
<1>13. ASSUME NEW j \in Job, becomes_due(j) \/ lease_expires(j)
       PROVE  Kept
  BY <1>2, <1>13 DEF becomes_due, lease_expires, call_vars
<1>14. CASE UNCHANGED vars
  BY <1>2, <1>14 DEF vars
<1>15. ASSUME NEW p \in Call, NEW j \in Job, claim(p, j)
       PROVE  Kept \/ Leased
  BY <1>3, <1>15 DEF claim
<1>16. QED
  BY <1>4, <1>5, <1>6, <1>7, <1>8, <1>9, <1>10, <1>11, <1>12, <1>13, <1>14,
     <1>15 DEF Next, CallStep, Operator

\* The claim a lease makes is the row's new attempt, which no call had.
LEMMA Leasing ==
    ASSUME TypeOK, NEW p \in Call, NEW j \in Job, NEW t, lease(p, j, t)
    PROVE  /\ claimed'[p].job = j
           /\ claimed'[p] \in Claim
           /\ claimed'[p].attempt = attempt_count[j] + 1
           /\ claimed'[p].max = max_attempts[j]
           /\ attempt_count'[j] = attempt_count[j] + 1
           /\ max_attempts'[j] = max_attempts[j]
           /\ state'[j] = "leased"
           /\ pc'[p] = "handling"
           /\ \A q \in Call \ {p} : claimed'[q] = claimed[q] /\ pc'[q] = pc[q]
BY DEF lease, TypeOK, Claim

\* Every step keeps what running calls remember behind the rows.
LEMMA ClaimStep ==
    ASSUME IInv, [Next]_vars
    PROVE  ClaimsBehindRows'
<1> USE DEF IInv
<1> SUFFICES ASSUME NEW q \in Call, Running(q)'
             PROVE  /\ claimed'[q] \in Claim
                    /\ state'[claimed'[q].job] # "absent"
                    /\ claimed'[q].attempt > 0
                    /\ claimed'[q].attempt <= attempt_count'[claimed'[q].job]
                    /\ claimed'[q].max <= max_attempts'[claimed'[q].job]
                    /\ pc'[q] = "reviewed" => claimed'[q].job \in review'
  BY DEF ClaimsBehindRows
<1>1. CASE /\ Running(q) /\ claimed'[q] = claimed[q]
           /\ \/ pc'[q] # "reviewed"
              \/ pc[q] = "reviewed"
              \/ claimed[q].job \in review'
  <2> DEFINE j == claimed[q].job
  <2>1. /\ claimed[q] \in Claim /\ j \in Job
        /\ claimed[q].attempt \in Nat /\ claimed[q].max \in Nat
        /\ state[j] # "absent" /\ claimed[q].attempt > 0
        /\ claimed[q].attempt <= attempt_count[j]
        /\ claimed[q].max <= max_attempts[j]
        /\ pc[q] = "reviewed" => j \in review
    BY <1>1 DEF ClaimsBehindRows, Claim
  <2>2. /\ attempt_count[j] <= attempt_count'[j]
        /\ max_attempts[j] <= max_attempts'[j]
        /\ state'[j] # "absent"
        /\ review \subseteq review'
    BY <2>1, RowsGrow, SetsGrow
  <2>3. /\ attempt_count[j] \in Nat /\ max_attempts[j] \in Nat
        /\ attempt_count'[j] \in Nat /\ max_attempts'[j] \in Nat
    BY <2>1, TypeStep DEF TypeOK
  <2>4. QED BY <1>1, <2>1, <2>2, <2>3
<1>2. ASSUME NEW j \in Job, NEW t \in Intent \cup {None}, lease(q, j, t)
      PROVE  /\ claimed'[q] \in Claim
             /\ state'[claimed'[q].job] # "absent"
             /\ claimed'[q].attempt > 0
             /\ claimed'[q].attempt <= attempt_count'[claimed'[q].job]
             /\ claimed'[q].max <= max_attempts'[claimed'[q].job]
             /\ pc'[q] = "reviewed" => claimed'[q].job \in review'
  <2>1. attempt_count[j] \in Nat /\ max_attempts[j] \in Nat
    BY DEF TypeOK
  <2>2. QED BY <1>2, <2>1, Leasing
<1>3. QED BY <1>1, <1>2, RunSteps

\* No step gives two calls the same attempt.
LEMMA UniqueStep ==
    ASSUME IInv, [Next]_vars
    PROVE  AttemptsUnique'
<1> USE DEF IInv
<1> SUFFICES ASSUME NEW p \in Call, NEW q \in Call, Running(p)', Running(q)',
                    claimed'[p].job = claimed'[q].job,
                    claimed'[p].attempt = claimed'[q].attempt,
                    p # q
             PROVE  FALSE
  BY DEF AttemptsUnique
\* A call that leases takes an attempt above every claim of another call.
<1>1. ASSUME NEW a \in Call, NEW b \in Call, a # b, Running(b)',
             claimed'[a].job = claimed'[b].job,
             claimed'[a].attempt = claimed'[b].attempt,
             NEW j \in Job, NEW t \in Intent \cup {None}, lease(a, j, t)
      PROVE  FALSE
  <2>1. Running(b) /\ claimed'[b] = claimed[b]
    BY <1>1, Leasing DEF Running
  <2>2. claimed[b].job = j /\ claimed[b].attempt = attempt_count[j] + 1
    BY <1>1, <2>1, Leasing
  <2>3. claimed[b].attempt <= attempt_count[j] /\ attempt_count[j] \in Nat
    BY <2>1, <2>2 DEF ClaimsBehindRows, TypeOK
  <2>4. QED BY <2>2, <2>3
<1>2. CASE /\ Running(p) /\ claimed'[p] = claimed[p]
           /\ Running(q) /\ claimed'[q] = claimed[q]
  BY <1>2 DEF AttemptsUnique
<1>3. QED BY <1>1, <1>2, RunSteps

-----------------------------------------------------------------------------
(* Invariants of the dispatch rows and of Cloud Tasks.                     *)

\* What the locals of a call hold once it returns or proceeds.
LEMMA LeavingDispatch ==
    ASSUME TypeOK, DispatchesCommitted, NEW p \in Call, NEW q \in Call,
           NEW R,
           \/ Return(p) \/ EndRun(p)
           \/ \E s, t : Proceed(p, s, t, R)
    PROVE  /\ todo'[q] \subseteq R \cup intents
           /\ making'[q] # None => making'[q] \in created
<1>1. CASE Return(p)
  BY <1>1 DEF Return, TypeOK, DispatchesCommitted
<1>2. ASSUME NEW s, NEW t, NEW Q, Proceed(p, s, t, Q)
      PROVE  /\ todo'[q] \subseteq Q \cup intents
             /\ making'[q] # None => making'[q] \in created
  BY <1>2 DEF Proceed, TypeOK, DispatchesCommitted
<1>3. CASE EndRun(p)
  BY <1>1, <1>2, <1>3 DEF EndRun, Pending
<1>4. QED BY <1>1, <1>2, <1>3

\* A call holds only committed rows, and marks only tasks it created.
LEMMA CommittedStep ==
    ASSUME IInv, [Next]_vars
    PROVE  DispatchesCommitted'
<1> USE DEF IInv
<1> SUFFICES ASSUME NEW q \in Call
             PROVE  /\ todo'[q] \subseteq intents'
                    /\ making'[q] # None => making'[q] \in created'
  BY DEF DispatchesCommitted
<1> DEFINE G == /\ todo'[q] \subseteq intents'
                /\ making'[q] # None => making'[q] \in created'
<1>0. intents \subseteq intents' /\ created \subseteq created'
  BY SetsGrow
<1>1. ASSUME NEW p \in Call, NEW R, R \subseteq intents',
             \/ Return(p) \/ EndRun(p)
             \/ \E s, t : Proceed(p, s, t, R)
      PROVE  G
  <2>1. /\ todo'[q] \subseteq R \cup intents
        /\ making'[q] # None => making'[q] \in created
    BY <1>1, LeavingDispatch
  <2>2. QED BY <1>0, <1>1, <2>1
<1>2. ASSUME UNCHANGED <<todo, making>>
      PROVE  G
  BY <1>0, <1>2 DEF DispatchesCommitted
<1>3. {} \subseteq intents' /\ Pending \subseteq intents'
  BY <1>0 DEF Pending
<1>4. ASSUME NEW p \in Call,
             handler_ends(p) \/ unknown_kind(p) \/ terminal_failure(p)
      PROVE  G
  BY <1>2, <1>4 DEF handler_ends, unknown_kind, terminal_failure
<1>5. ASSUME NEW p \in Call, heartbeat(p) \/ final_heartbeat(p)
      PROVE  G
  <2>1. EndRun(p) \/ UNCHANGED <<todo, making>>
    BY <1>5 DEF heartbeat, final_heartbeat, call_vars
  <2>2. QED BY <1>1, <1>2, <1>3, <2>1
<1>6. ASSUME NEW p \in Call, NEW outcome \in Outcomes,
             finish(p, outcome) \/ finish_refused(p, outcome)
      PROVE  G
  <2>1. CASE finish_refused(p, outcome)
    BY <1>1, <1>3, <2>1 DEF finish_refused
  <2>2. CASE finish(p, outcome)
    <3> DEFINE k == claimed[p].job
               R == {<<k, generation[k] + 1>>}
    <3>1. Conclude(p, k, outcome)
      BY <2>2, Finishing
    <3>2. \/ EndRun(p)
          \/ R \subseteq intents' /\ Proceed(p, "dispatch", task[p], R)
      BY <3>1 DEF Conclude
    <3> HIDE DEF R
    <3>3. QED BY <1>1, <1>3, <3>2
  <2>3. QED BY <1>6, <2>1, <2>2
<1>7. ASSUME NEW p \in Call, NEW t \in todo[p],
             skip_dispatched(p, t) \/ create(p, t)
      PROVE  G
  <2>1. CASE skip_dispatched(p, t)
    BY <1>0, <2>1 DEF skip_dispatched, cloud_vars, DispatchesCommitted, TypeOK
  <2>2. CASE create(p, t)
    BY <1>0, <2>2 DEF create, DispatchesCommitted, TypeOK
  <2>3. QED BY <1>7, <2>1, <2>2
<1>8. ASSUME NEW p \in Call, mark_dispatched(p)
      PROVE  G
  BY <1>0, <1>8 DEF mark_dispatched, DispatchesCommitted, TypeOK
<1>9. ASSUME NEW p \in Call, dispatch_ends(p) \/ reconcile(p) \/ Fault(p)
      PROVE  G
  <2>1. Return(p) \/ \E s, t : Proceed(p, s, t, Pending)
    BY <1>9 DEF dispatch_ends, reconcile, Fault, crash, create_failed
  <2>2. QED BY <1>1, <1>3, <2>1
<1>10. ASSUME NEW p \in Call, NEW j \in Job, enqueue_once(p, j)
       PROVE  G
  <2>1. PICK R : R \subseteq intents' /\ Proceed(p, "dispatch", None, R)
    BY <1>0, <1>10 DEF enqueue_once, Pending
  <2>2. QED BY <1>1, <2>1
<1>11. ASSUME NEW p \in Call, NEW j \in Job, replay(p, j)
       PROVE  G
  <2> DEFINE R == {<<j, generation[j] + 1>>}
  <2>1. R \subseteq intents' /\ Proceed(p, "dispatch", None, R)
    BY <1>11 DEF replay
  <2> HIDE DEF R
  <2>2. QED BY <1>1, <2>1
<1>12. ASSUME NEW p \in Call, NEW S \in SUBSET Job,
              recover_stale_dispatched(p, S)
       PROVE  G
  <2> DEFINE R == {<<j, generation[j] + 1>> : j \in S}
  <2>1. R \subseteq intents' /\ Proceed(p, "dispatch", None, R)
    BY <1>12 DEF recover_stale_dispatched
  <2> HIDE DEF R
  <2>2. QED BY <1>1, <2>1
<1>13. ASSUME NEW p \in Call, NEW j \in Job, NEW t, lease(p, j, t)
       PROVE  G
  BY <1>2, <1>13 DEF lease
<1>14. ASSUME NEW t \in queue, DeliverTask(t) \/ lose_task(t)
       PROVE  G
  <2>1. t[1] \in Job
    BY DEF TypeOK, Intent
  <2>2. CASE lose_task(t)
    BY <1>2, <2>2 DEF lose_task, call_vars
  <2>3. ASSUME NEW p \in Call, claim_specific(p, t)
        PROVE  G
    BY <1>13, <2>1, <2>3 DEF claim_specific
  <2>4. ASSUME NEW p \in Call, nothing_to_claim(p, t)
        PROVE  G
    BY <1>1, <1>3, <2>4 DEF nothing_to_claim
  <2>5. QED BY <1>14, <2>2, <2>3, <2>4 DEF DeliverTask
<1>15. ASSUME NEW j \in Job, becomes_due(j) \/ lease_expires(j)
       PROVE  G
  BY <1>2, <1>15 DEF becomes_due, lease_expires, call_vars
<1>16. CASE UNCHANGED vars
  BY <1>2, <1>16 DEF vars
<1>17. ASSUME NEW p \in Call, NEW j \in Job, claim(p, j)
       PROVE  G
  BY <1>13, <1>17 DEF claim
<1>18. QED
  BY <1>4, <1>5, <1>6, <1>7, <1>8, <1>9, <1>10, <1>11, <1>12, <1>14, <1>15,
     <1>16, <1>17 DEF Next, CallStep, Operator

\* Cloud Tasks holds only tasks that were created, only created tasks are
\* marked, and only committed rows are created.
LEMMA CloudStep ==
    ASSUME IInv, [Next]_vars
    PROVE  /\ queue' \subseteq created'
           /\ dispatched' \subseteq created'
           /\ created' \subseteq intents'
<1> USE DEF IInv
<1> DEFINE G == /\ queue' \subseteq created'
                /\ dispatched' \subseteq created'
                /\ created' \subseteq intents'
<1>0. /\ queue \subseteq created /\ dispatched \subseteq created
      /\ created \subseteq intents /\ intents \subseteq intents'
  BY SetsGrow DEF TasksFollowIntents
<1>1. ASSUME queue' \subseteq queue, dispatched' = dispatched, created' = created
      PROVE  G
  BY <1>0, <1>1
<1>2. ASSUME NEW p \in Call, CallStep(p)
      PROVE  G
  <2>1. ASSUME NEW t \in todo[p], create(p, t)
        PROVE  G
    <3>1. t \in intents
      BY DEF DispatchesCommitted
    <3>2. /\ created' = created \cup {t} /\ dispatched' = dispatched
          /\ queue' \subseteq queue \cup {t}
      BY <2>1 DEF create
    <3>3. QED BY <1>0, <3>1, <3>2
  <2>2. CASE mark_dispatched(p)
    <3>1. making[p] \in created
      BY <2>2 DEF mark_dispatched, DispatchesCommitted
    <3>2. QED BY <1>0, <2>2, <3>1 DEF mark_dispatched, cloud_vars
  <2>3. ASSUME \/ handler_ends(p) \/ final_heartbeat(p) \/ terminal_failure(p)
               \/ \E outcome \in Outcomes :
                    finish(p, outcome) \/ finish_refused(p, outcome)
               \/ \E t \in todo[p] : skip_dispatched(p, t)
               \/ dispatch_ends(p)
        PROVE  G
    <3>1. queue' \subseteq queue /\ dispatched' = dispatched /\ created' = created
      BY <2>3 DEF handler_ends, final_heartbeat, terminal_failure, finish,
         Conclude, finish_refused, skip_dispatched, dispatch_ends, cloud_vars
    <3>2. QED BY <1>1, <3>1
  <2>4. QED BY <1>2, <2>1, <2>2, <2>3 DEF CallStep
<1>3. ASSUME NEW p \in Call,
             \/ heartbeat(p) \/ unknown_kind(p) \/ reconcile(p) \/ Fault(p)
             \/ Operator(p)
             \/ \E j \in Job : enqueue_once(p, j) \/ claim(p, j)
      PROVE  G
  <2>1. UNCHANGED <<queue, dispatched, created>>
    BY <1>3 DEF heartbeat, unknown_kind, reconcile, Fault, crash, create_failed,
       Operator, replay, recover_stale_dispatched, enqueue_once, claim, lease,
       cloud_vars
  <2>2. QED BY <1>1, <2>1
<1>4. ASSUME NEW t \in queue, DeliverTask(t) \/ lose_task(t)
      PROVE  G
  <2>1. queue' \subseteq queue /\ dispatched' = dispatched /\ created' = created
    BY <1>4 DEF DeliverTask, claim_specific, lease, nothing_to_claim, lose_task,
       cloud_vars
  <2>2. QED BY <1>1, <2>1
<1>5. ASSUME NEW j \in Job, becomes_due(j) \/ lease_expires(j)
      PROVE  G
  BY <1>1, <1>5 DEF becomes_due, lease_expires, cloud_vars
<1>6. CASE UNCHANGED vars
  BY <1>1, <1>6 DEF vars
<1>7. QED BY <1>2, <1>3, <1>4, <1>5, <1>6 DEF Next

\* A step adds only intents of the generation it moves the job to.
LEMMA GenerationStep ==
    ASSUME IInv, [Next]_vars, NEW i \in intents'
    PROVE  i[2] <= generation'[i[1]]
<1> USE DEF IInv
<1> DEFINE G == i[2] <= generation'[i[1]]
<1>0. /\ i[1] \in Job /\ i[2] \in Nat
      /\ generation[i[1]] \in Nat /\ generation'[i[1]] \in Nat
  BY TypeStep DEF TypeOK, Intent
<1>1. CASE i \in intents
  <2>1. i[2] <= generation[i[1]] /\ generation[i[1]] <= generation'[i[1]]
    BY <1>0, <1>1, RowsGrow DEF TasksFollowIntents
  <2>2. QED BY <1>0, <2>1
<1>2. ASSUME i \notin intents, NEW k \in Job, NEW n,
             i = <<k, n>>, generation' = [generation EXCEPT ![k] = n]
      PROVE  G
  BY <1>0, <1>2 DEF TypeOK
<1>3. CASE i \notin intents
  <2>1. ASSUME NEW p \in Call, NEW k \in Job, enqueue_once(p, k)
        PROVE  G
    <3>1. i = <<k, 1>> /\ generation' = [generation EXCEPT ![k] = 1]
      BY <1>3, <2>1 DEF enqueue_once
    <3>2. QED BY <1>2, <1>3, <3>1
  <2>2. ASSUME NEW p \in Call, NEW k \in Job, NEW t \in Intent \cup {None},
               lease(p, k, t)
        PROVE  G
    BY <1>3, <2>2 DEF lease
  <2>3. ASSUME NEW p \in Call, NEW outcome \in Outcomes, finish(p, outcome)
        PROVE  G
    <3> DEFINE k == claimed[p].job
    <3>1. k \in Job /\ Conclude(p, k, outcome)
      BY <2>3, Finishing
    <3>2. /\ generation' = [generation EXCEPT ![k] = generation[k] + 1]
          /\ i = <<k, generation[k] + 1>>
      BY <1>3, <3>1 DEF Conclude
    <3>3. QED BY <1>2, <1>3, <3>1, <3>2
  <2>4. ASSUME NEW p \in Call, NEW k \in Job, replay(p, k)
        PROVE  G
    <3>1. /\ generation' = [generation EXCEPT ![k] = generation[k] + 1]
          /\ i = <<k, generation[k] + 1>>
      BY <1>3, <2>4 DEF replay
    <3>2. QED BY <1>2, <1>3, <3>1
  <2>5. ASSUME NEW p \in Call, NEW S \in SUBSET Job,
               recover_stale_dispatched(p, S)
        PROVE  G
    <3>1. PICK k \in S : i = <<k, generation[k] + 1>>
      BY <1>3, <2>5 DEF recover_stale_dispatched
    <3>2. generation'[k] = generation[k] + 1
      BY <2>5, Recovered
    <3>3. QED BY <1>0, <3>1, <3>2
  <2>6. CASE UNCHANGED rows
    BY <1>3, <2>6 DEF rows
  <2>7. QED BY <2>1, <2>2, <2>3, <2>4, <2>5, <2>6, RowSteps DEF RowStep
<1>4. QED BY <1>1, <1>3

-----------------------------------------------------------------------------
(* The theorems.                                                           *)

\* The empty tables satisfy the inductive invariant.
LEMMA InitIInv == Init => IInv
<1> SUFFICES ASSUME Init PROVE IInv
  OBVIOUS
<1> USE DEF Init
<1>1. TypeOK
  <2>1. \A j \in Job : attempt_log[j] = <<>> /\ <<>> \in Seq(AttemptOutcome)
    OBVIOUS
  <2>2. QED
    BY <2>1, ConstantsAssumption DEF TypeOK, JobState, Steps, Workers
<1>2. ClaimsBehindRows /\ AttemptsUnique
  BY DEF ClaimsBehindRows, AttemptsUnique, Running
<1>3. DispatchesCommitted /\ TasksFollowIntents
  BY DEF DispatchesCommitted, TasksFollowIntents
<1>4. OwnedWhenLeased /\ RunnableHasIntent /\ FailureIsEscalated
  BY DEF OwnedWhenLeased, RunnableHasIntent, FailureIsEscalated, Runnable
<1>5. HistoryExplainsState /\ UnsettledHistory
  BY ConstantsAssumption DEF HistoryExplainsState, UnsettledHistory, Settled
<1>6. QED BY <1>1, <1>2, <1>3, <1>4, <1>5 DEF IInv

\* Every step preserves the inductive invariant.
LEMMA StepIInv == IInv /\ [Next]_vars => IInv'
<1> SUFFICES ASSUME IInv, [Next]_vars PROVE IInv'
  OBVIOUS
<1>1. TasksFollowIntents'
  BY CloudStep, GenerationStep DEF TasksFollowIntents
<1>2. QED
  BY <1>1, TypeStep, OwnedStep, IntentStep, EscalationStep, HistoryStep,
     ClaimStep, UniqueStep, CommittedStep DEF IInv

\* IInv holds in every reachable state of the queue.
LEMMA Invariance == Spec => []IInv
BY InitIInv, StepIInv, PTL DEF Spec

\* Every variable of the model keeps its type: in particular finish and stale
\* recovery never write an attempt number that job_attempts does not have.
THEOREM TypeCorrect == Spec => []TypeOK
<1>1. IInv => TypeOK
  BY DEF IInv
<1>2. QED BY <1>1, Invariance, PTL

\* The outbox guarantee of add_task_dispatch: for any number of jobs, workers,
\* crashes and outages a job that can still run has its dispatch intent.
THEOREM IntentsSurvive == Spec => []RunnableHasIntent
<1>1. IInv => RunnableHasIntent
  BY DEF IInv
<1>2. QED BY <1>1, Invariance, PTL

\* Cloud Tasks never runs ahead of the database.
THEOREM TasksAreCommitted == Spec => []TasksFollowIntents
<1>1. IInv => TasksFollowIntents
  BY DEF IInv
<1>2. QED BY <1>1, Invariance, PTL

\* job_attempts always explains the job row, and the attempt budget holds.
THEOREM HistoryIsSound == Spec => []HistoryExplainsState
<1>1. IInv => HistoryExplainsState
  BY DEF IInv
<1>2. QED BY <1>1, Invariance, PTL

\* Terminal failures are visible on the order before they are final.
THEOREM FailuresAreEscalated == Spec => []FailureIsEscalated
<1>1. IInv => FailureIsEscalated
  BY DEF IInv
<1>2. QED BY <1>1, Invariance, PTL

\* The owner and attempt check of heartbeat and finish is a fencing token, even
\* when calls share a worker id: the attempt number alone tells them apart.
THEOREM AttemptsAreFenced == Spec => []OneFencedRun
<1>1. IInv => OneFencedRun
  BY DEF IInv, AttemptsUnique, OneFencedRun, Fenced
<1>2. QED BY <1>1, Invariance, PTL

-----------------------------------------------------------------------------
(* The queue implements JobContract.                                       *)

\* Only TerminalFailureHandler escalates an order, and it changes no job row.
LEMMA Escalations ==
    ASSUME [Next]_vars
    PROVE  \/ review' = review
           \/ \E p \in Call : terminal_failure(p)
<1>1. ASSUME NEW p \in Call, CallStep(p), ~terminal_failure(p)
      PROVE  review' = review
  BY <1>1 DEF CallStep, handler_ends, final_heartbeat, finish, Conclude,
     finish_refused, skip_dispatched, create, mark_dispatched, dispatch_ends
<1>2. ASSUME NEW p \in Call,
             \/ heartbeat(p) \/ unknown_kind(p) \/ reconcile(p) \/ Fault(p)
             \/ Operator(p)
             \/ \E j \in Job : enqueue_once(p, j) \/ claim(p, j)
      PROVE  review' = review
  BY <1>2 DEF heartbeat, unknown_kind, reconcile, Fault, crash, create_failed,
     Operator, replay, recover_stale_dispatched, enqueue_once, claim, lease
<1>3. ASSUME NEW t \in queue, DeliverTask(t) \/ lose_task(t)
      PROVE  review' = review
  BY <1>3 DEF DeliverTask, claim_specific, lease, nothing_to_claim, lose_task
<1>4. ASSUME NEW j \in Job, becomes_due(j) \/ lease_expires(j)
      PROVE  review' = review
  BY <1>4 DEF becomes_due, lease_expires
<1>5. CASE UNCHANGED vars
  BY <1>5 DEF vars
<1>6. QED BY <1>1, <1>2, <1>3, <1>4, <1>5 DEF Next

\* The contract's view of the job rows.
View == [j \in Job |-> Status(state[j])]

\* One row changes its state.
LEMMA ViewUpdate ==
    ASSUME TypeOK, NEW j \in Job, NEW s,
           state' = [state EXCEPT ![j] = s]
    PROVE  View' = [View EXCEPT ![j] = Status(s)]
<1>1. View' = [k \in Job |-> Status(state'[k])]
  BY DEF View
<1>2. \A k \in Job : state'[k] = IF k = j THEN s ELSE state[k]
  BY DEF TypeOK
<1>3. \A k \in Job :
        Status(state'[k]) = IF k = j THEN Status(s) ELSE Status(state[k])
  BY <1>2
<1>4. [View EXCEPT ![j] = Status(s)] =
        [k \in Job |-> IF k = j THEN Status(s) ELSE Status(state[k])]
  BY DEF View
<1> QED BY <1>1, <1>3, <1>4

\* Every step of the queue is a step of the contract or invisible to it.
LEMMA StepContract ==
    ASSUME IInv, [Next]_vars
    PROVE  [Contract!Next]_(Contract!vars)
<1> USE DEF IInv
<1> DEFINE C == [Contract!Next]_(Contract!vars)
<1>1. CASE UNCHANGED rows
  <2>0. View' = View /\ attempt_count' = attempt_count
        /\ max_attempts' = max_attempts
    BY <1>1 DEF rows, View
  <2>1. CASE review' = review
    BY <2>0, <2>1 DEF Contract!vars, View
  <2>2. ASSUME NEW p \in Call, terminal_failure(p)
        PROVE  C
    <3> DEFINE k == claimed[p].job
    <3>1. Running(p) /\ review' = review \cup {k}
      BY <2>2 DEF terminal_failure, Running
    <3>2. k \in Job /\ state[k] # "absent"
      BY <3>1 DEF ClaimsBehindRows, Claim
    <3>3. View[k] # "absent"
      BY <3>2 DEF View, Status
    <3>4. Contract!Escalate(k)
      BY <2>0, <3>1, <3>3 DEF Contract!Escalate, View
    <3>5. QED BY <3>2, <3>4 DEF Contract!Next
  <2>3. QED BY <2>1, <2>2, Escalations
<1>2. ASSUME NEW p \in Call, NEW k \in Job, state[k] = "absent",
             enqueue_once(p, k)
      PROVE  C
  <2>1. \/ state' = [state EXCEPT ![k] = "available"]
        \/ state' = state
    BY <1>2 DEF enqueue_once
  <2>2. UNCHANGED <<attempt_count, max_attempts, review>>
    BY <1>2 DEF enqueue_once
  <2>3. CASE state' = state
    <3>1. View' = View
      BY <2>3 DEF View
    <3>2. QED BY <2>2, <3>1 DEF Contract!vars, View
  <2>4. CASE state' = [state EXCEPT ![k] = "available"]
    <3>1. View' = [View EXCEPT ![k] = "waiting"] /\ View[k] = "absent"
      BY <1>2, <2>4, ViewUpdate DEF Status, View
    <3>2. Contract!Submit(k)
      BY <2>2, <3>1 DEF Contract!Submit, View
    <3>3. QED BY <3>2 DEF Contract!Next
  <2>5. QED BY <2>1, <2>3, <2>4
<1>3. ASSUME NEW p \in Call, NEW k \in Job, NEW t \in Intent \cup {None},
             Claimable(k), lease(p, k, t)
      PROVE  C
  <2>1. /\ state' = [state EXCEPT ![k] = "leased"]
        /\ attempt_count' = [attempt_count EXCEPT ![k] = @ + 1]
        /\ UNCHANGED <<max_attempts, review>>
    BY <1>3 DEF lease
  <2>2. View' = [View EXCEPT ![k] = "running"]
    BY <2>1, ViewUpdate DEF Status
  <2>3. View[k] \in {"waiting", "running"} /\ attempt_count[k] < max_attempts[k]
    BY <1>3 DEF Claimable, Runnable, Status, View
  <2>4. Contract!Begin(k)
    BY <2>1, <2>2, <2>3 DEF Contract!Begin, View
  <2>5. QED BY <2>4 DEF Contract!Next
<1>4. ASSUME NEW p \in Call, NEW outcome \in Outcomes, finish(p, outcome)
      PROVE  C
  <2> DEFINE k == claimed[p].job
  <2>1. /\ k \in Job /\ Conclude(p, k, outcome) /\ state[k] = "leased"
        /\ outcome \in {"manual_review", "dead_letter"} => k \in review
    BY <1>4, Finishing
  <2>2. /\ state' = [state EXCEPT ![k] = outcome]
        /\ UNCHANGED <<attempt_count, max_attempts, review>>
    BY <2>1 DEF Conclude
  <2> HIDE DEF k
  <2>3. View' = [View EXCEPT ![k] = Status(outcome)] /\ View[k] = "running"
    BY <2>1, <2>2, ViewUpdate DEF View, Status
  <2>4. CASE outcome = "retry"
    <3>1. Status(outcome) = "waiting"
      BY <2>4 DEF Status
    <3>2. View' = [j \in Job |-> IF j \in {k} THEN "waiting" ELSE View[j]]
      BY <2>1, <2>3, <3>1 DEF View
    <3>3. Contract!GiveBack({k})
      BY <2>2, <2>3, <3>2 DEF Contract!GiveBack, View
    <3>4. {k} \in SUBSET Job
      BY <2>1
    <3>5. QED BY <3>3, <3>4 DEF Contract!Next
  <2>5. CASE outcome # "retry"
    <3>1. outcome \in Contract!Failed \cup {"complete"} /\ Status(outcome) = outcome
      BY <2>5 DEF Outcomes, Settled, Contract!Failed, Status
    <3>2. Contract!Settle(k, outcome)
      BY <2>1, <2>2, <2>3, <3>1 DEF Contract!Settle, Contract!Failed, View
    <3>3. QED BY <2>1, <3>1, <3>2 DEF Contract!Next
  <2>6. QED BY <2>4, <2>5
<1>5. ASSUME NEW p \in Call, NEW k \in Job, replay(p, k)
      PROVE  C
  <2>1. /\ state[k] = "retry" /\ state' = [state EXCEPT ![k] = "available"]
        /\ UNCHANGED <<attempt_count, review>>
    BY <1>5 DEF replay
  <2>2. View' = [View EXCEPT ![k] = "waiting"] /\ View[k] = "waiting"
    BY <2>1, ViewUpdate DEF Status, View
  <2>3. View' = View
    BY <2>2 DEF View
  <2>4. /\ max_attempts[k] <= max_attempts'[k]
        /\ max_attempts' = [max_attempts EXCEPT ![k] = max_attempts'[k]]
        /\ max_attempts[k] \in Nat /\ max_attempts'[k] \in Nat
    BY <1>5, RowsGrow, TypeStep DEF replay, TypeOK
  <2>5. Contract!Extend(k)
    BY <2>1, <2>2, <2>3, <2>4 DEF Contract!Extend, View
  <2>6. QED BY <2>5 DEF Contract!Next
<1>6. ASSUME NEW p \in Call, NEW S \in SUBSET Job,
             recover_stale_dispatched(p, S)
      PROVE  C
  <2> DEFINE held == {j \in S : lease_owner[j] # None}
  <2>1. UNCHANGED <<attempt_count, max_attempts, review>>
    BY <1>6 DEF recover_stale_dispatched
  <2>2. \A j \in Job : state'[j] = IF j \in held THEN "available" ELSE state[j]
    BY <1>6, Recovered
  <2>3. \A j \in held : View[j] = "running"
    BY DEF OwnedWhenLeased, View, Status
  <2> HIDE DEF held
  <2>4. View' = [j \in Job |-> IF j \in held THEN "waiting" ELSE View[j]]
    BY <2>2 DEF View, Status
  <2>5. Contract!GiveBack(held)
    BY <2>1, <2>3, <2>4 DEF Contract!GiveBack, View
  <2>6. held \in SUBSET Job
    BY DEF held
  <2>7. QED BY <2>5, <2>6 DEF Contract!Next
<1>7. QED
  BY <1>1, <1>2, <1>3, <1>4, <1>5, <1>6, RowSteps DEF RowStep

\* The tables, the workers, Cloud Tasks and the operator together implement
\* JobContract: no interleaving or fault settles a job twice, begins an attempt
\* beyond the budget or fails a job whose order was not escalated.
THEOREM QueueImplementsContract == Spec => ImplementsContract
<1>1. Init => Contract!Init
  BY DEF Init, Contract!Init, Status
<1>2. IInv /\ [Next]_vars => [Contract!Next]_(Contract!vars)
  BY StepContract
<1>3. QED
  BY <1>1, <1>2, Invariance, PTL DEF Spec, ImplementsContract, Contract!Spec

=============================================================================

----------------------------- MODULE Notification -----------------------------
(***************************************************************************)
(* The notices of one order: the durable outbox, the notification workers  *)
(* that lease its rows and send them through Resend, and the webhook that  *)
(* hears from Resend what became of each mail.                             *)
(*                                                                         *)
(* A worker's claim, its request and what it records are three steps; all  *)
(* of them use the time the worker read before the claim, so the clock may *)
(* move in between and another worker may take over the row.  The webhook  *)
(* runs in another process: the transaction that finds no row for its      *)
(* event is two steps, because the database isolates at read committed and *)
(* no row is locked.  One that finds a row holds its lock and is one step. *)
(*                                                                         *)
(* What the fulfillment handlers write is here only as far as the notices  *)
(* use it: the order's state, its current proof version, the confirmations *)
(* last observed for that version (0: not yet verified) and whether its    *)
(* bundle is stored.  Block, method and policy of an observation are those *)
(* of the verification, which record_once has checked.                     *)
(***************************************************************************)
EXTENDS Naturals, Sequences, FiniteSets

CONSTANTS
    Worker,             \* notification workers
    Hook,               \* webhook requests handled at the same time
    FinalConfirmations, \* confirmations of the final notice, 6 in the code
    LeaseFor,           \* 30 seconds in the code
    Horizon,            \* idempotency_horizon, 24 hours in the code
    BaseDelay, MaxDelay,    \* 30 and 21600 seconds in the code
    MaxAttempts,        \* 12 in the code
    Reports,            \* what Resend may report of a mail
    MaxClock,           \* bound: the clock
    LastEnqueue,        \* bound: when the last notice is enqueued
    MaxVersion,         \* bound: proof versions
    MaxObservations,    \* bound: observations recorded
    None

VARIABLES
    fulfillment, version, count, bundled,   \* the order and its evidence
    rows,       \* outbox, by message
    attempts,   \* notification_attempts: the outcomes, None while it runs
    events,     \* resend_webhook_events
    workers,    \* the locals of dispatch_once
    hooks,      \* the event whose transaction has found no row
    mails,      \* Resend: the mails it took, their index is the provider id
    reported,   \* Resend: what it has to say of them
    clock, observed

order_vars == <<fulfillment, version, count, bundled, observed>>
outbox_vars == <<rows, attempts>>
resend_vars == <<mails, reported>>
vars == <<fulfillment, version, count, bundled, rows, attempts, events,
          workers, hooks, mails, reported, clock, observed>>

NotificationKind == {"initial", "final"}
Confirmed == {"bitcoin_verified", "delivered"}
Message == [kind : NotificationKind, version : 1..MaxVersion]
RowState == {"available", "retry", "leased", "accepted", "delivered",
             "failed", "dead_letter"}
Unsent == {"available", "retry", "leased"}
Row == [state : RowState, attempt : Nat, available_at : Nat,
        lease_until : Nat \cup {None}, owner : Worker \cup {None},
        expires : Nat, count : Nat, provider_id : Nat]
Outcome == {"accepted", "retry", "failed", "dead_letter", "lease_expired"}
EventType == {"delivered", "failure", "other"}
Event == [mail : Nat, type : EventType]
Answer == [kind : {"accepted", "retryable", "permanent"}, mail : Nat]
Locals == [msg : Message, attempt : Nat, now : Nat, answer : Answer \cup {None}]

ASSUME ConstantsAssumption ==
    /\ FinalConfirmations \in Nat \ {0}
    /\ LeaseFor \in Nat \ {0}
    /\ Horizon \in Nat \ {0}
    /\ BaseDelay \in Nat \ {0}
    /\ MaxDelay \in Nat \ {0}
    /\ MaxAttempts \in Nat \ {0}
    /\ Reports \subseteq EventType
    /\ MaxClock \in Nat
    /\ LastEnqueue \in Nat
    /\ MaxVersion \in Nat \ {0}
    /\ MaxObservations \in Nat
    /\ None \notin Nat \cup Row \cup Worker \cup Event \cup Answer \cup Locals
                  \cup Outcome

\* Every row and local has its type.
TypeOK ==
    /\ fulfillment \in Confirmed \cup {"manual_review"}
    /\ version \in 1..MaxVersion
    /\ count \in Nat
    /\ bundled \in BOOLEAN
    /\ rows \in [Message -> Row \cup {None}]
    /\ attempts \in [Message -> Seq(Outcome \cup {None})]
    /\ events \subseteq Event
    /\ workers \in [Worker -> Locals \cup {None}]
    /\ hooks \in [Hook -> Event \cup {None}]
    /\ mails \in Seq([msg : Message, at : Nat])
    /\ reported \subseteq Event
    /\ clock \in Nat
    /\ observed \in Nat

\* The order has just been verified (Fulfillment).
Init ==
    /\ fulfillment = "bitcoin_verified"
    /\ version = 1
    /\ count = 1
    /\ bundled = FALSE
    /\ rows = [m \in Message |-> None]
    /\ attempts = [m \in Message |-> <<>>]
    /\ events = {}
    /\ workers = [w \in Worker |-> None]
    /\ hooks = [h \in Hook |-> None]
    /\ mails = <<>>
    /\ reported = {}
    /\ clock = 0
    /\ observed = 0

-----------------------------------------------------------------------------
(* What the fulfillment handlers do to the order (see Fulfillment).        *)

\* Another upgrade stores a newer proof: nothing is verified for it yet.
append ==
    /\ version < MaxVersion
    /\ version' = version + 1
    /\ count' = 0
    /\ bundled' = FALSE
    /\ UNCHANGED <<fulfillment, outbox_vars, events, workers, hooks,
                   resend_vars, clock, observed>>

\* The observation read last; another source may report fewer confirmations.
record_once(n) ==
    /\ observed < MaxObservations
    /\ count' = n
    /\ observed' = observed + 1
    /\ UNCHANGED <<fulfillment, version, bundled, outbox_vars, events, workers,
                   hooks, resend_vars, clock>>

put_bundle ==
    /\ count > 0
    /\ ~bundled
    /\ bundled' = TRUE
    /\ UNCHANGED <<fulfillment, version, count, outbox_vars, events, workers,
                   hooks, resend_vars, clock, observed>>

manual_review ==
    /\ fulfillment \in Confirmed
    /\ fulfillment' = "manual_review"
    /\ UNCHANGED <<version, count, bundled, outbox_vars, events, workers,
                   hooks, resend_vars, clock, observed>>

-----------------------------------------------------------------------------
(* SqlNotificationOutbox.                                                  *)

Threshold(k) == IF k = "initial" THEN 1 ELSE FinalConfirmations

\* Mutant: the row has no horizon.
enqueue_no_horizon(k) ==
    LET m == [kind |-> k, version |-> version]
    IN  /\ clock <= LastEnqueue
        /\ count >= Threshold(k)
        /\ k = "initial" => bundled
        /\ rows[m] = None
        /\ rows' = [rows EXCEPT ![m] =
              [state |-> "available", attempt |-> 0, available_at |-> clock,
               lease_until |-> None, owner |-> None,
               expires |-> None, count |-> count,
               provider_id |-> 0]]
        /\ UNCHANGED <<order_vars, attempts, events, workers, hooks,
                       resend_vars, clock>>

\* The current version is verified and its observation gives the count.  The
\* delivery handler stores the bundle before it enqueues the initial notice.
\* A message key that is known is left as it is (_same_message).
enqueue(k) ==
    LET m == [kind |-> k, version |-> version]
    IN  /\ clock <= LastEnqueue
        /\ count >= Threshold(k)
        /\ k = "initial" => bundled
        /\ rows[m] = None
        /\ rows' = [rows EXCEPT ![m] =
              [state |-> "available", attempt |-> 0, available_at |-> clock,
               lease_until |-> None, owner |-> None,
               expires |-> clock + Horizon, count |-> count,
               provider_id |-> 0]]
        /\ UNCHANGED <<order_vars, attempts, events, workers, hooks,
                       resend_vars, clock>>

\* Mutant: a lease never ends.
Takable_never(r) == r.state \in {"available", "retry"}

\* Nobody holds the row at this time.
Takable(r) ==
    \/ r.state \in {"available", "retry"}
    \/ r.state = "leased" /\ r.lease_until < clock
Exhausted(r) == r.expires <= clock \/ r.attempt >= MaxAttempts

Expires(m) ==
    /\ rows[m] # None
    /\ Takable(rows[m])
    /\ Exhausted(rows[m])
    /\ rows[m].provider_id = 0
Claimable(m) ==
    /\ rows[m] # None
    /\ Takable(rows[m])
    /\ rows[m].available_at <= clock
    /\ rows[m].provider_id = 0
    /\ ~Exhausted(rows[m])

\* A row without its lease, in a state.
Released(r, state) ==
    [r EXCEPT !.state = state, !.owner = None, !.lease_until = None]

\* The outcome of the attempt that is open; attempts that ended keep theirs.
FinishOpen(s, outcome) ==
    [i \in 1..Len(s) |-> IF s[i] = None THEN outcome ELSE s[i]]

\* Mutant: the sweep forgets the attempt of a lease that ended.
SweptAttempts_open(m) == attempts[m]

\* _expire_unclaimable: what can no longer be sent is dead-lettered, with the
\* attempt it has open.
Swept(m) == IF Expires(m) THEN Released(rows[m], "dead_letter") ELSE rows[m]
SweptAttempts(m) == IF Expires(m) THEN FinishOpen(attempts[m], "dead_letter")
                    ELSE attempts[m]

lease(w, m) ==
    [rows[m] EXCEPT !.state = "leased", !.attempt = @ + 1, !.owner = w,
                    !.lease_until = clock + LeaseFor]

\* dispatch_once up to the request.  Rows are not locked for long, so the row
\* is any that can be claimed: ones being looked at are skipped.  The token of
\* the lease is the number of the attempt.
claim(w, m) ==
    /\ workers[w] = None
    /\ Claimable(m)
    /\ rows' = [n \in Message |->
                  IF n = m THEN lease(w, m) ELSE Swept(n)]
    /\ attempts' = [n \in Message |->
                  IF n = m
                  THEN Append(FinishOpen(attempts[m], "lease_expired"), None)
                  ELSE SweptAttempts(n)]
    /\ workers' = [workers EXCEPT ![w] =
                  [msg |-> m, attempt |-> lease(w, m).attempt, now |-> clock,
                   answer |-> None]]
    /\ UNCHANGED <<order_vars, events, hooks, resend_vars, clock>>

claim_nothing(w) ==
    /\ workers[w] = None
    /\ \A m \in Message : ~Claimable(m)
    /\ \E m \in Message : Expires(m)
    /\ rows' = [m \in Message |-> Swept(m)]
    /\ attempts' = [m \in Message |-> SweptAttempts(m)]
    /\ UNCHANGED <<order_vars, events, workers, hooks, resend_vars, clock>>

-----------------------------------------------------------------------------
(* ResendEmailSender.send, and Resend, which is asked with one idempotency *)
(* key for all attempts at a message and honours it for its own 24 hours.  *)

\* Mutant: the key is made from the attempt as well.
SameKey_attempt(m, i) ==
    /\ mails[i].msg = m
    /\ rows[m].attempt = 1

SameKey(m, i) == mails[i].msg = m
Known(m) == {i \in 1..Len(mails) : SameKey(m, i) /\ clock < mails[i].at + Horizon}
MailOf(m) == IF Known(m) = {} THEN Len(mails) + 1
             ELSE CHOOSE i \in Known(m) : TRUE
Taken(m) == IF Known(m) = {} THEN Append(mails, [msg |-> m, at |-> clock])
            ELSE mails

Sending(w) == workers[w] # None /\ workers[w].answer = None
Answered(w, kind) == workers[w] # None /\ workers[w].answer # None
                     /\ workers[w].answer.kind = kind
Hears(w, answer) == workers' = [workers EXCEPT ![w].answer = answer]

send_accepted(w) ==
    /\ Sending(w)
    /\ Hears(w, [kind |-> "accepted", mail |-> MailOf(workers[w].msg)])
    /\ mails' = Taken(workers[w].msg)
    /\ UNCHANGED <<order_vars, outbox_vars, events, hooks, reported, clock>>

\* A timeout, a status to try again or an answer that cannot be read: Resend
\* may have taken the mail or not.
send_ambiguous(w) ==
    /\ Sending(w)
    /\ Hears(w, [kind |-> "retryable", mail |-> 0])
    /\ mails' \in {mails, Taken(workers[w].msg)}
    /\ UNCHANGED <<order_vars, outbox_vars, events, hooks, reported, clock>>

send_refused(w) ==
    /\ Sending(w)
    /\ Hears(w, [kind |-> "permanent", mail |-> 0])
    /\ UNCHANGED <<order_vars, outbox_vars, events, hooks, resend_vars, clock>>

-----------------------------------------------------------------------------
(* What became of the order and of a row when a delivery is applied.       *)

\* Mutant: the proof of the notice need not be the current one.
delivery_evidence_matches_any_version(m, r) ==
    /\ r.state \in {"accepted", "failed"}
    /\ r.count >= Threshold(m.kind)
    /\ count >= Threshold(m.kind)
    /\ bundled

delivery_evidence_matches(m, r) ==
    /\ r.state \in {"accepted", "failed"}
    /\ m.version = version
    /\ r.count >= Threshold(m.kind)
    /\ count >= Threshold(m.kind)
    /\ bundled

Applies(m, r) ==
    /\ delivery_evidence_matches(m, r)
    /\ fulfillment \in Confirmed

\* r is the row as it is, or as this transaction has just made it.
apply_delivered_event(m, r) ==
    IF Applies(m, r)
    THEN /\ rows' = [rows EXCEPT ![m] = [r EXCEPT !.state = "delivered"]]
         /\ fulfillment' = IF m.kind = "initial" THEN "delivered"
                           ELSE fulfillment
    ELSE /\ rows' = [rows EXCEPT ![m] = r]
         /\ UNCHANGED fulfillment

-----------------------------------------------------------------------------
(* The end of dispatch_once.                                               *)

\* Mutant: only the state of the row is looked at.
active_lease_any(w) ==
    rows[workers[w].msg].state = "leased"

\* The lease is still the worker's.  Its end is compared with the time before
\* the claim, so it never matters here.
active_lease(w) ==
    LET r == rows[workers[w].msg]
    IN  /\ r.state = "leased"
        /\ r.owner = w
        /\ r.attempt = workers[w].attempt
        /\ r.provider_id = 0

Done(w) == workers' = [workers EXCEPT ![w] = None]
Finish(m, outcome) == attempts' = [attempts EXCEPT ![m] = FinishOpen(@, outcome)]

\* The mail is Resend's now.  Its delivery may have been reported before.
record_accepted(w) ==
    LET m == workers[w].msg
        id == workers[w].answer.mail
        r == [Released(rows[m], "accepted") EXCEPT !.provider_id = id]
    IN  /\ Answered(w, "accepted")
        /\ active_lease(w)
        /\ Finish(m, "accepted")
        /\ IF [mail |-> id, type |-> "delivered"] \in events
           THEN apply_delivered_event(m, r)
           ELSE /\ rows' = [rows EXCEPT ![m] = r]
                /\ UNCHANGED fulfillment
        /\ Done(w)
        /\ UNCHANGED <<version, count, bundled, observed, events, hooks,
                       resend_vars, clock>>

Delay(n) ==
    LET d == BaseDelay * 2^(n - 1)
    IN  IF d \in 1..MaxDelay THEN d ELSE MaxDelay

GivesUp(r, retry_at) == retry_at >= r.expires \/ r.attempt >= MaxAttempts

record_retry(w) ==
    LET m == workers[w].msg
        retry_at == workers[w].now + Delay(workers[w].attempt)
        state == IF GivesUp(rows[m], retry_at) THEN "dead_letter" ELSE "retry"
    IN  /\ Answered(w, "retryable")
        /\ active_lease(w)
        /\ rows' = [rows EXCEPT ![m] =
              [Released(rows[m], state) EXCEPT !.available_at = retry_at]]
        /\ Finish(m, state)
        /\ Done(w)
        /\ UNCHANGED <<order_vars, events, hooks, resend_vars, clock>>

record_terminal_failure(w) ==
    LET m == workers[w].msg
    IN  /\ Answered(w, "permanent")
        /\ active_lease(w)
        /\ rows' = [rows EXCEPT ![m] = Released(rows[m], "failed")]
        /\ Finish(m, "failed")
        /\ Done(w)
        /\ UNCHANGED <<order_vars, events, hooks, resend_vars, clock>>

\* notification_lease_stale ends the worker, which is started again.
lease_stale(w) ==
    /\ workers[w] # None
    /\ workers[w].answer # None
    /\ ~active_lease(w)
    /\ Done(w)
    /\ UNCHANGED <<order_vars, outbox_vars, events, hooks, resend_vars, clock>>

crash(w) ==
    /\ workers[w] # None
    /\ Done(w)
    /\ UNCHANGED <<order_vars, outbox_vars, events, hooks, resend_vars, clock>>

-----------------------------------------------------------------------------
(* SqlResendWebhookStore.process.  Resend signs its events, and an event   *)
(* may come late, twice or never.                                          *)

report(e) ==
    /\ e \notin reported
    /\ reported' = reported \cup {e}
    /\ UNCHANGED <<order_vars, outbox_vars, events, workers, hooks, mails,
                   clock>>

\* The row that has the provider id of the event.
Matches(m, e) == rows[m] # None /\ rows[m].provider_id = e.mail

\* Mutant: a report of any type is applied again as a delivery.
reconcile_replayed_event_any(e) ==
    IF \E m \in Message : Matches(m, e)
    THEN \E m \in Message : Matches(m, e) /\ apply_delivered_event(m, rows[m])
    ELSE UNCHANGED <<rows, fulfillment>>

\* An event that is stored already: a delivery is applied again, in case the
\* row was not there, or its evidence not current, the first time.
reconcile_replayed_event(e) ==
    IF e.type = "delivered" /\ \E m \in Message : Matches(m, e)
    THEN \E m \in Message : Matches(m, e) /\ apply_delivered_event(m, rows[m])
    ELSE UNCHANGED <<rows, fulfillment>>

\* Mutant: a failure that comes late takes back a delivery.
fail_notice_always(m) ==
    /\ rows' = [rows EXCEPT ![m].state = "failed"]
    /\ UNCHANGED fulfillment

fail_notice(m) ==
    /\ rows' = IF rows[m].state # "delivered"
               THEN [rows EXCEPT ![m].state = "failed"] ELSE rows
    /\ UNCHANGED fulfillment

process_replay(e) ==
    /\ e \in events
    /\ reconcile_replayed_event(e)
    /\ UNCHANGED <<version, count, bundled, observed, attempts, events,
                   workers, hooks, resend_vars, clock>>

\* The row is found and locked.
process_match(e) ==
    /\ e \notin events
    /\ events' = events \cup {e}
    /\ \E m \in Message :
          /\ Matches(m, e)
          /\ CASE e.type = "delivered" -> apply_delivered_event(m, rows[m])
               [] e.type = "failure" -> fail_notice(m)
               [] e.type = "other" -> UNCHANGED <<rows, fulfillment>>
    /\ UNCHANGED <<version, count, bundled, observed, attempts, workers, hooks,
                   resend_vars, clock>>

\* No row is found, nothing is locked.
process_miss(h, e) ==
    /\ hooks[h] = None
    /\ e \notin events
    /\ \A m \in Message : ~Matches(m, e)
    /\ hooks' = [hooks EXCEPT ![h] = e]
    /\ UNCHANGED <<order_vars, outbox_vars, events, workers, resend_vars,
                   clock>>

\* The event is stored, unless another request has stored it meanwhile.
process_store(h) ==
    /\ hooks[h] # None
    /\ IF hooks[h] \in events THEN reconcile_replayed_event(hooks[h])
       ELSE UNCHANGED <<rows, fulfillment>>
    /\ events' = events \cup {hooks[h]}
    /\ hooks' = [hooks EXCEPT ![h] = None]
    /\ UNCHANGED <<version, count, bundled, observed, attempts, workers,
                   resend_vars, clock>>

hook_crash(h) ==
    /\ hooks[h] # None
    /\ hooks' = [hooks EXCEPT ![h] = None]
    /\ UNCHANGED <<order_vars, outbox_vars, events, workers, resend_vars,
                   clock>>

tick ==
    /\ clock < MaxClock
    /\ clock' = clock + 1
    /\ UNCHANGED <<order_vars, outbox_vars, events, workers, hooks,
                   resend_vars>>

-----------------------------------------------------------------------------
Claim(w) == claim_nothing(w) \/ \E m \in Message : claim(w, m)
Send(w) == send_accepted(w) \/ send_ambiguous(w) \/ send_refused(w)
Record(w) ==
    \/ record_accepted(w)
    \/ record_retry(w)
    \/ record_terminal_failure(w)
    \/ lease_stale(w)
Report == \E i \in 1..Len(mails), t \in Reports :
              report([mail |-> i, type |-> t])
Order ==
    \/ append
    \/ \E n \in 1..FinalConfirmations : record_once(n)
    \/ put_bundle
    \/ manual_review
    \/ \E k \in NotificationKind : enqueue(k)

Next ==
    \/ Order
    \/ \E w \in Worker : Claim(w) \/ Send(w) \/ Record(w) \/ crash(w)
    \/ Report
    \/ \E e \in reported : process_replay(e) \/ process_match(e)
    \/ \E h \in Hook : \/ \E e \in reported : process_miss(h, e)
                       \/ process_store(h)
                       \/ hook_crash(h)
    \/ tick

Spec == Init /\ [][Next]_vars

\* The worker is run_forever; a request ends by its timeout; time passes.
Fairness ==
    /\ \A w \in Worker :
          /\ WF_vars(Claim(w))
          /\ WF_vars(Send(w))
          /\ WF_vars(Record(w))
    /\ \A h \in Hook : WF_vars(process_store(h))
    /\ WF_vars(tick)
FairSpec == Spec /\ Fairness

-----------------------------------------------------------------------------
(* Properties.                                                             *)

\* The attempts of a row are its history: one for each claim, all ended but
\* the last, and that one open exactly while the row is leased.  Claims over
\* expired leases, the sweep, late answers and crashes all write both tables
\* (claim, _expire_unclaimable, _active_lease, _finish_attempt).
AttemptsAreHistory ==
    \A m \in Message :
        LET n == Len(attempts[m])
        IN  /\ n = (IF rows[m] = None THEN 0 ELSE rows[m].attempt)
            /\ \A i \in 1..n :
                  attempts[m][i] = None <=> i = n /\ rows[m].state = "leased"

\* Two workers never work on one message under leases that have not ended,
\* whatever late answers are recorded in between (claim, _active_lease).
OneLiveClaim ==
    \A v, w \in Worker :
        /\ workers[v] # None
        /\ workers[w] # None
        /\ workers[v].msg = workers[w].msg
        /\ workers[v].now + LeaseFor >= clock
        /\ workers[w].now + LeaseFor >= clock
        => v = w

\* Before its horizon a notice is mailed once, however often it is sent:
\* every attempt uses the same key, and the horizon is counted from before
\* the first request (_claimed, idempotency_expires_at).
OneMailWithinHorizon ==
    \A i, j \in 1..Len(mails) :
        mails[i].msg = mails[j].msg /\ i < j
            => mails[j].at >= rows[mails[j].msg].expires

\* A row is accepted, or delivered, for a mail that Resend made from it, and
\* delivered only if the report of that mail's delivery is stored.
DeliveredByItsMail ==
    \A m \in Message : rows[m] # None =>
        /\ rows[m].provider_id # 0 =>
              /\ rows[m].provider_id \in 1..Len(mails)
              /\ mails[rows[m].provider_id].msg = m
        /\ rows[m].state \in {"accepted", "delivered"} =>
              rows[m].provider_id # 0
        /\ rows[m].state = "delivered" =>
              [mail |-> rows[m].provider_id, type |-> "delivered"] \in events

\* The outbox and its attempts tell the truth of what was sent, whoever claimed,
\* answered late or gave up (SqlNotificationStore).
OutboxIsSound ==
    /\ TypeOK
    /\ AttemptsAreHistory
    /\ OneLiveClaim
    /\ OneMailWithinHorizon
    /\ DeliveredByItsMail

\* What the trigger enforce_order_state_transition asks of an order that
\* becomes delivered, over the tables after the transaction.
delivery_guard ==
    LET m == [kind |-> "initial", version |-> version]
    IN  /\ count >= 1
        /\ bundled
        /\ rows[m] # None
        /\ rows[m].count >= 1
        /\ rows[m].state = "delivered"
        /\ \E e \in events :
              e = [mail |-> rows[m].provider_id, type |-> "delivered"]

\* An order becomes delivered only by what the trigger accepts: the initial
\* notice of the current proof, delivered, with current evidence.  The checks
\* of _apply_delivered_event, made before or after the row was accepted,
\* never let the trigger refuse the webhook's transaction.
TriggerAgrees ==
    fulfillment # "delivered" /\ fulfillment' = "delivered" => delivery_guard'

\* What a notice became is final: a delivery is never taken back, a notice
\* given up is never sent again, and a mail's id is never replaced, whatever
\* comes late (record_*, process).
Final(m) ==
    rows[m] # None =>
        /\ rows[m].provider_id # 0 =>
              rows'[m].provider_id = rows[m].provider_id
        /\ rows[m].state \in {"delivered", "dead_letter"} =>
              rows'[m].state = rows[m].state
        /\ rows[m].state = "failed" =>
              rows'[m].state \in {"failed", "delivered"}

\* Outcomes of notices are final, and the order follows them only as the
\* trigger allows, whatever is reported early, late or twice.
OutcomesAreFinal == [][TriggerAgrees /\ \A m \in Message : Final(m)]_vars

\* Every notice is settled in the end: accepted, refused or given up.
EveryNoticeSettles ==
    \A m \in Message :
        (rows[m] # None /\ rows[m].state \in Unsent)
            ~> (rows[m] # None /\ rows[m].state \notin Unsent)

\* What the code does not have (README.md, "Where code and documents part"):
\* a delivery that Resend reported, and that was answered with 200, is not
\* lost: the row it belongs to is not left accepted.
NoDeliveryLost ==
    (\A h \in Hook : hooks[h] = None) =>
        \A m \in Message, e \in events :
            e.type = "delivered" /\ Matches(m, e) => ~Applies(m, rows[m])
=============================================================================

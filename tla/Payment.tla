------------------------------- MODULE Payment -------------------------------
(***************************************************************************)
(* Paying for an order: Stripe's checkout session, the events it sends,    *)
(* and the webhook handlers that turn them into the order's payment state  *)
(* and its stamp job.                                                      *)
(*                                                                         *)
(* Stripe delivers every event at least once, in any order and to several  *)
(* handlers at a time.  WebhookService.process is not one transaction: it  *)
(* looks for a duplicate, looks up the order, asks Stripe for the session  *)
(* (an await) and only then locks and writes, so each of these is a step   *)
(* of its own.  The worker moves the same order row concurrently.          *)
(*                                                                         *)
(* A session keeps the Price it was created with, while every handler      *)
(* compares it with the Price its process is configured with, and an       *)
(* operator may configure another Price at any time.  Amounts, currencies  *)
(* and metadata are left out: they are immutable after checkout and        *)
(* Stripe's session is the one that was created for the order.             *)
(***************************************************************************)
EXTENDS OrderState, Naturals

CONSTANTS
    Order,      \* orders with a reserved checkout
    Handler,    \* webhook requests that may be in progress at the same time
    Price,      \* values of STRIPE_PRICE_ID
    Part,       \* refunds of part of a payment
    Worked,     \* bound: fulfillment states the worker moves an order to
    MaxFaults,  \* bound: failed provider calls, dead processes, task outages
    None

VARIABLES
    \* one row of orders per order
    bound,          \* orders whose checkout_session_id is stored
    payment_state, fulfillment_state,
    jobs,           \* orders with a stamp job (and a payment_confirmed mail)
    pending,        \* orders whose stamp job's dispatch row is still pending
    record,         \* stripe_events: how each event was processed
    price,          \* settings.stripe_price_id
    \* Stripe
    session, session_price, refunds, disputed,
    sent,           \* events Stripe has sent
    unacked,        \* events Stripe still has to deliver again
    \* the locals of each handler
    pc, event, canonical,
    faults

order_vars == <<bound, payment_state, fulfillment_state, jobs>>
stripe_vars == <<session, session_price, refunds, disputed, sent>>
handler_vars == <<pc, event, canonical>>
vars == <<bound, payment_state, fulfillment_state, jobs, pending, record,
          price, session, session_price, refunds, disputed, sent, unacked, pc,
          event, canonical, faults>>

\* A payment is refunded in parts first, or what is left of it at once; every
\* refund of its own may stay pending and may fail.
Refund == Part \cup {"rest"}
RefundStatus == {"none", "pending", "succeeded", "failed"}
Live == {"pending", "succeeded"}

\* A refund stands for the refund.created or refund.updated that reports its
\* success, charge_refunded for charge.refunded of a charge that is refunded in
\* full, refund_other for the refund events that do not report a success.
RefundSucceeded == Refund \cup {"charge_refunded"}
OtherEvents == {"completed", "async_succeeded", "async_failed", "expired",
                "refund_other", "dispute"}
EventType == OtherEvents \cup RefundSucceeded
Event == [order : Order, type : EventType]

\* status and payment_status of a session: open, complete and unpaid, complete
\* and paid, complete after a failed asynchronous payment, expired.
SessionState == {"none", "open", "unpaid", "paid", "failed", "expired"}
Complete == {"unpaid", "paid", "failed"}
Canonical == [session : SessionState, price : Price,
              refunded : {"none", "partial", "full"},
              refund_status : {"none", "pending", "succeeded"}]
Steps == {"idle", "lookup", "retrieve", "commit", "reconcile"}

ASSUME ConstantsAssumption ==
    /\ MaxFaults \in Nat
    /\ Part \cap (OtherEvents \cup {"rest", "charge_refunded"}) = {}
    /\ None \notin Canonical \cup Event \cup PaymentState

\* Every row, session and request is in one of its states, only jobs that were
\* enqueued wait for a task, and Stripe repeats only events that happened.
TypeOK ==
    /\ bound \subseteq Order
    /\ payment_state \in [Order -> PaymentState]
    /\ fulfillment_state \in [Order -> FulfillmentState]
    /\ jobs \subseteq Order
    /\ pending \subseteq jobs
    /\ record \in [Event -> {"none", "accepted", "rejected"}]
    /\ price \in Price
    /\ session \in [Order -> SessionState]
    /\ session_price \in [Order -> Price]
    /\ refunds \in [Order -> [Refund -> RefundStatus]]
    /\ disputed \subseteq Order
    /\ sent \subseteq Event
    /\ unacked \subseteq sent
    /\ pc \in [Handler -> Steps]
    /\ event \in [Handler -> Event \cup {None}]
    /\ canonical \in [Handler -> Canonical \cup {None}]
    /\ faults \in Nat

Init ==
    /\ bound = {}
    /\ payment_state = [o \in Order |-> "checkout_open"]
    /\ fulfillment_state = [o \in Order |-> "awaiting_payment"]
    /\ jobs = {}
    /\ pending = {}
    /\ record = [e \in Event |-> "none"]
    /\ price \in Price
    /\ session = [o \in Order |-> "none"]
    /\ session_price = [o \in Order |-> price]
    /\ refunds = [o \in Order |-> [r \in Refund |-> "none"]]
    /\ disputed = {}
    /\ sent = {}
    /\ unacked = {}
    /\ pc = [h \in Handler |-> "idle"]
    /\ event = [h \in Handler |-> None]
    /\ canonical = [h \in Handler |-> None]
    /\ faults = 0

-----------------------------------------------------------------------------
(* Checkout and Stripe.                                                    *)

\* The operator configures another Price.  A rollout in which processes with
\* either Price run side by side is a Price that changes back and forth.
rotate_price(p) ==
    /\ p # price
    /\ price' = p
    /\ UNCHANGED <<order_vars, pending, record, stripe_vars, unacked,
                   handler_vars, faults>>

\* Stripe creates the session for the order's idempotency key, at the Price
\* that is configured: a reservation made at another Price is refused.
create_checkout(o) ==
    /\ session[o] = "none"
    /\ session' = [session EXCEPT ![o] = "open"]
    /\ session_price' = [session_price EXCEPT ![o] = price]
    /\ UNCHANGED <<order_vars, pending, record, price, refunds, disputed, sent,
                   unacked, handler_vars, faults>>

\* The session id is committed, then the customer is given the checkout URL.
finalize(o) ==
    /\ session[o] # "none"
    /\ o \notin bound
    /\ bound' = bound \cup {o}
    /\ UNCHANGED <<payment_state, fulfillment_state, jobs, pending, record,
                   price, stripe_vars, unacked, handler_vars, faults>>

Send(o, types) ==
    /\ sent' = sent \cup [order : {o}, type : types]
    /\ unacked' = unacked \cup [order : {o}, type : types]

\* The customer completes the checkout, or lets it expire; an asynchronous
\* payment method settles later.
session_moves(o) ==
    /\ \/ /\ session[o] = "open" /\ o \in bound
          /\ \E s \in {"paid", "unpaid"} : session' = [session EXCEPT ![o] = s]
          /\ Send(o, {"completed"})
       \/ /\ session[o] = "unpaid"
          /\ session' = [session EXCEPT ![o] = "paid"]
          /\ Send(o, {"async_succeeded"})
       \/ /\ session[o] = "unpaid"
          /\ session' = [session EXCEPT ![o] = "failed"]
          /\ Send(o, {"async_failed"})
       \/ /\ session[o] = "open"
          /\ session' = [session EXCEPT ![o] = "expired"]
          /\ Send(o, {"expired"})
    /\ UNCHANGED <<order_vars, pending, record, price, session_price, refunds,
                   disputed, handler_vars, faults>>

\* A refund of part of the payment, or of what is left of it, is made: at once
\* or pending.  Stripe reports the refund and the charge.
refund_created(o, r, status) ==
    /\ session[o] = "paid"
    /\ refunds[o][r] = "none"
    /\ refunds[o]["rest"] = "none"
    /\ status \in Live
    /\ refunds' = [refunds EXCEPT ![o][r] = status]
    /\ Send(o, {IF status = "succeeded" THEN r ELSE "refund_other",
                IF r = "rest" THEN "charge_refunded" ELSE "refund_other"})
    /\ UNCHANGED <<order_vars, pending, record, price, session, session_price,
                   disputed, handler_vars, faults>>

\* A pending refund succeeds or fails.
refund_updated(o, r, status) ==
    /\ refunds[o][r] = "pending"
    /\ status \in {"succeeded", "failed"}
    /\ refunds' = [refunds EXCEPT ![o][r] = status]
    /\ Send(o, {IF status = "succeeded" THEN r ELSE "refund_other"})
    /\ UNCHANGED <<order_vars, pending, record, price, session, session_price,
                   disputed, handler_vars, faults>>

\* The cardholder disputes the payment.
dispute_created(o) ==
    /\ session[o] = "paid"
    /\ o \notin disputed
    /\ disputed' = disputed \cup {o}
    /\ Send(o, {"dispute"})
    /\ UNCHANGED <<order_vars, pending, record, price, session, session_price,
                   refunds, handler_vars, faults>>

\* charge.amount_refunded counts the refunds that did not fail.  (When a part
\* fails after the rest was refunded the sum is less than the amount, but
\* refund_status is then pending whatever the sum.)
refunded_amount_total(o) ==
    IF refunds[o]["rest"] \in Live THEN "full"
    ELSE IF \E r \in Part : refunds[o][r] \in Live THEN "partial" ELSE "none"

\* All refunds of the charge must have succeeded.
refund_status(o) ==
    IF refunded_amount_total(o) = "none" THEN "none"
    ELSE IF \A r \in Refund : refunds[o][r] \in {"none", "succeeded"}
         THEN "succeeded" ELSE "pending"

-----------------------------------------------------------------------------
(* WebhookService.process.                                                 *)

Return(h) ==
    /\ pc' = [pc EXCEPT ![h] = "idle"]
    /\ event' = [event EXCEPT ![h] = None]
    /\ canonical' = [canonical EXCEPT ![h] = None]

\* An accepted event goes on to reconcile the dispatch rows; any other answers
\* 400 and Stripe tries again.
Answer(h, e, outcome) ==
    \/ /\ outcome = "accepted"
       /\ pc' = [pc EXCEPT ![h] = "reconcile"]
       /\ event' = [event EXCEPT ![h] = e]
       /\ canonical' = [canonical EXCEPT ![h] = None]
    \/ /\ outcome = "rejected"
       /\ Return(h)

\* A verified event arrives; the first look for a duplicate.
receive(h, e) ==
    /\ pc[h] = "idle"
    /\ e \in sent
    /\ IF record[e] # "none"
         THEN Answer(h, e, record[e])
         ELSE /\ pc' = [pc EXCEPT ![h] = "lookup"]
              /\ event' = [event EXCEPT ![h] = e]
              /\ UNCHANGED canonical
    /\ UNCHANGED <<order_vars, pending, record, price, stripe_vars, unacked, faults>>

\* The order's session id is read without a lock.
lookup(h) ==
    /\ pc[h] = "lookup"
    /\ pc' = [pc EXCEPT ![h] = IF event[h].order \in bound THEN "retrieve"
                                                          ELSE "commit"]
    /\ UNCHANGED <<order_vars, pending, record, price, stripe_vars, unacked, event,
                   canonical, faults>>

canonical_checkout(o) ==
    [session |-> session[o], price |-> session_price[o],
     refunded |-> refunded_amount_total(o), refund_status |-> refund_status(o)]

\* Stripe answers with the session as it is now.
retrieve_checkout(h) ==
    /\ pc[h] = "retrieve"
    /\ canonical' = [canonical EXCEPT ![h] = canonical_checkout(event[h].order)]
    /\ pc' = [pc EXCEPT ![h] = "commit"]
    /\ UNCHANGED <<order_vars, pending, record, price, stripe_vars, unacked, event,
                   faults>>

\* The transaction finds that another handler recorded the event meanwhile.
duplicate(h) ==
    /\ pc[h] = "commit"
    /\ record[event[h]] # "none"
    /\ Answer(h, event[h], record[event[h]])
    /\ UNCHANGED <<order_vars, pending, record, price, stripe_vars, unacked, faults>>

\* Mutant: a completed checkout must be paid already.
valid_binding_paid(e, c) ==
    /\ c.price = price
    /\ e.type \in {"completed", "async_succeeded"} => c.session = "paid"
    /\ e.type = "async_failed" => c.session \in Complete
    /\ e.type = "expired" => c.session = "expired"

\* The session's Price must be the configured one, and its status must agree
\* with the event.
valid_binding(e, c) ==
    /\ c.price = price
    /\ e.type \in {"completed", "async_succeeded", "async_failed"} =>
          c.session \in Complete
    /\ e.type = "expired" => c.session = "expired"

\* No order, no session or no agreement: the event is recorded with an error
\* and every later delivery of it is refused as well.
reject(h) ==
    /\ pc[h] = "commit"
    /\ record[event[h]] = "none"
    /\ \/ event[h].order \notin bound
       \/ canonical[h] = None
       \/ canonical[h] # None /\ ~valid_binding(event[h], canonical[h])
    /\ record' = [record EXCEPT ![event[h]] = "rejected"]
    /\ Return(h)
    /\ UNCHANGED <<order_vars, pending, price, stripe_vars, unacked, faults>>

\* Mutant: only the event of the charge counts.
authoritative_full_refund_charge(e, c) ==
    /\ e.type = "charge_refunded"
    /\ c.refund_status = "succeeded"
    /\ c.refunded = "full"

\* The refund event reports success, and every refund of the charge succeeded
\* and together they are the whole amount.
authoritative_full_refund(e, c) ==
    /\ e.type \in RefundSucceeded
    /\ c.refund_status = "succeeded"
    /\ c.refunded = "full"

\* Mutant: a completed checkout counts as paid whatever Stripe's session says.
StandsFor_event_alone(e, c, s) ==
    \/ e.type \in {"completed", "async_succeeded"} /\ s = "paid"
    \/ e.type = "async_failed" /\ c.session # "paid" /\ s = "failed"
    \/ e.type = "expired" /\ s = "expired"
    \/ authoritative_full_refund(e, c) /\ s = "refunded"
    \/ e.type = "dispute" /\ s = "disputed"

\* Mutant: asynchronous payments are not handled.
StandsFor_synchronous(e, c, s) ==
    \/ e.type = "completed" /\ c.session = "paid" /\ s = "paid"
    \/ e.type = "completed" /\ c.session # "paid" /\ s = "processing"
    \/ e.type = "expired" /\ s = "expired"
    \/ authoritative_full_refund(e, c) /\ s = "refunded"
    \/ e.type = "dispute" /\ s = "disputed"

\* The event, given the session, stands for payment state s.
StandsFor(e, c, s) ==
    \/ e.type = "completed" /\ c.session = "paid" /\ s = "paid"
    \/ e.type = "completed" /\ c.session # "paid" /\ s = "processing"
    \/ e.type = "async_succeeded" /\ c.session = "paid" /\ s = "paid"
    \/ e.type = "async_failed" /\ c.session # "paid" /\ s = "failed"
    \/ e.type = "expired" /\ s = "expired"
    \/ authoritative_full_refund(e, c) /\ s = "refunded"
    \/ e.type = "dispute" /\ s = "disputed"

\* transition_payment: an illegal or repeated transition changes nothing.
Changes(h, s) ==
    /\ StandsFor(event[h], canonical[h], s)
    /\ <<payment_state[event[h].order], s>> \in PaymentTransitions

\* The transaction records the event as processed.
Accepting(h) ==
    /\ pc[h] = "commit"
    /\ record[event[h]] = "none"
    /\ event[h].order \in bound
    /\ canonical[h] # None
    /\ valid_binding(event[h], canonical[h])
    /\ record' = [record EXCEPT ![event[h]] = "accepted"]
    /\ Answer(h, event[h], "accepted")
    /\ UNCHANGED <<bound, price, stripe_vars, unacked, faults>>

\* Mutant: the dispatch row is written, the job is not.
accept_payment_jobless(h) ==
    LET o == event[h].order
    IN  /\ Accepting(h)
        /\ Changes(h, "paid")
        /\ payment_state' = [payment_state EXCEPT ![o] = "paid"]
        /\ fulfillment_state' = [fulfillment_state EXCEPT ![o] = "queued"]
        /\ pending' = pending \cup ({o} \ jobs)
        /\ UNCHANGED jobs

\* Mutant: the job is enqueued for an order that was not queued.
accept_payment_unqueued(h) ==
    LET o == event[h].order
    IN  /\ Accepting(h)
        /\ Changes(h, "paid")
        /\ payment_state' = [payment_state EXCEPT ![o] = "paid"]
        /\ jobs' = jobs \cup {o}
        /\ pending' = pending \cup ({o} \ jobs)
        /\ UNCHANGED fulfillment_state

\* A payment queues the order, whatever its fulfillment state, and enqueues
\* the stamp job with its dispatch row unless there is one.
accept_payment(h) ==
    LET o == event[h].order
    IN  /\ Accepting(h)
        /\ Changes(h, "paid")
        /\ payment_state' = [payment_state EXCEPT ![o] = "paid"]
        /\ fulfillment_state' = [fulfillment_state EXCEPT ![o] = "queued"]
        /\ jobs' = jobs \cup {o}
        /\ pending' = pending \cup ({o} \ jobs)

accept_change(h, s) ==
    /\ Accepting(h)
    /\ s # "paid"
    /\ Changes(h, s)
    /\ payment_state' = [payment_state EXCEPT ![event[h].order] = s]
    /\ UNCHANGED <<fulfillment_state, jobs, pending>>

\* Nothing to change: a partial refund, a state already reached or passed.
accept_unchanged(h) ==
    /\ Accepting(h)
    /\ \A s \in PaymentState : ~Changes(h, s)
    /\ UNCHANGED <<payment_state, fulfillment_state, jobs, pending>>

\* The route reconciles the dispatch rows and answers 200.
reconcile(h) ==
    /\ pc[h] = "reconcile"
    /\ pending' = {}
    /\ unacked' = unacked \ {event[h]}
    /\ Return(h)
    /\ UNCHANGED <<order_vars, record, price, stripe_vars, faults>>

\* Mutant: the failure is swallowed and the event acknowledged.
handler_fails_with_200(h) ==
    /\ pc[h] # "idle"
    /\ faults < MaxFaults
    /\ faults' = faults + 1
    /\ unacked' = unacked \ {event[h]}
    /\ Return(h)
    /\ UNCHANGED <<order_vars, pending, record, price, stripe_vars>>

\* A provider call or the task queue fails, or the process dies: the answer is
\* not 200 and Stripe delivers again.
handler_fails(h) ==
    /\ pc[h] # "idle"
    /\ faults < MaxFaults
    /\ faults' = faults + 1
    /\ Return(h)
    /\ UNCHANGED <<order_vars, pending, record, price, stripe_vars, unacked>>

-----------------------------------------------------------------------------
(* The worker.                                                             *)

\* A job of the order moves its fulfillment state.  Jobs exist only once the
\* stamp job does.
transition_fulfillment_once(o, target) ==
    /\ o \in jobs
    /\ target \in Worked
    /\ <<fulfillment_state[o], target>> \in FulfillmentTransitions
    /\ fulfillment_state[o] = "awaiting_payment" /\ target = "queued" =>
          payment_state[o] = "paid"
    /\ fulfillment_state' = [fulfillment_state EXCEPT ![o] = target]
    /\ UNCHANGED <<bound, payment_state, jobs, pending, record, price, stripe_vars,
                   unacked, handler_vars, faults>>

-----------------------------------------------------------------------------

HandlerStep(h) ==
    \/ lookup(h)
    \/ retrieve_checkout(h)
    \/ duplicate(h)
    \/ reject(h)
    \/ accept_payment(h)
    \/ \E s \in PaymentState : accept_change(h, s)
    \/ accept_unchanged(h)
    \/ reconcile(h)

Next ==
    \/ \E h \in Handler :
         \/ HandlerStep(h)
         \/ handler_fails(h)
         \/ \E e \in sent : receive(h, e)
    \/ \E o \in Order :
         \/ create_checkout(o)
         \/ finalize(o)
         \/ session_moves(o)
         \/ \E r \in Refund, status \in RefundStatus :
              refund_created(o, r, status) \/ refund_updated(o, r, status)
         \/ dispute_created(o)
         \/ \E target \in FulfillmentState : transition_fulfillment_once(o, target)
    \/ \E p \in Price : rotate_price(p)

Spec == Init /\ [][Next]_vars

\* Requests make progress and Stripe keeps delivering what was not answered
\* with 200; only the events that settle money are needed.
Fairness ==
    /\ \A h \in Handler : WF_vars(HandlerStep(h))
    /\ \A e \in [order : Order, type : {"completed", "async_succeeded"} \cup Refund] :
         SF_vars(\E h \in Handler : e \in unacked /\ receive(h, e))

FairSpec == Spec /\ Fairness

-----------------------------------------------------------------------------
(* Properties.                                                             *)

\* The whole payment has gone back and no refund is open.
FullyRefunded(o) ==
    /\ refunds[o]["rest"] = "succeeded"
    /\ \A r \in Part : refunds[o][r] \in {"none", "succeeded"}

\* The order never claims more than Stripe has done: paid, failed, expired,
\* refunded and disputed are all true at Stripe, although events arrive out of
\* order and the session is read long before the row is written.
LedgerIsTrue ==
    \A o \in Order :
        /\ payment_state[o] = "processing" => session[o] \in Complete
        /\ payment_state[o] = "paid" => session[o] = "paid"
        /\ payment_state[o] = "failed" => session[o] = "failed"
        /\ payment_state[o] = "expired" => session[o] = "expired"
        /\ payment_state[o] = "refunded" => FullyRefunded(o)
        /\ payment_state[o] = "disputed" => o \in disputed

\* Work exists only for money that was collected: an order leaves
\* awaiting_payment exactly when it gets its stamp job, Stripe has the payment,
\* and ck_orders_paid_before_work holds.
WorkFollowsMoney ==
    \A o \in Order :
        /\ fulfillment_state[o] # "awaiting_payment" <=> o \in jobs
        /\ o \in jobs =>
              /\ session[o] = "paid"
              /\ payment_state[o] \in {"paid", "refunded", "disputed"}

\* Whatever the order of delivery, an event that was accepted is reflected in
\* the order, or something later is.  A refund event is often accepted without
\* effect, because Stripe did not report all refunds as succeeded when it was
\* processed; but once they all succeeded and their events are accepted, the
\* order is refunded, whichever of them was processed last.
AcceptedEventsTakeEffect ==
    /\ \A e \in Event : record[e] = "accepted" =>
         LET s == payment_state[e.order]
         IN  /\ e.type = "completed" => s # "checkout_open"
             /\ e.type = "async_succeeded" => s \in {"paid", "refunded", "disputed"}
             /\ e.type = "async_failed" => s = "failed"
             /\ e.type = "expired" => s = "expired"
             /\ e.type = "dispute" => s \in {"disputed", "refunded"}
    /\ \A o \in Order :
         (/\ FullyRefunded(o)
          /\ \A r \in Refund : refunds[o][r] = "succeeded" =>
               record[[order |-> o, type |-> r]] = "accepted")
         => payment_state[o] = "refunded"

\* A rejection is final, so an event about money is rejected for one reason
\* only: the Price was changed after the customer was sent to the session.
\* (The expiry of a session that was never bound is rejected as well.)
OnlyRotationRejectsMoney ==
    [][\A e \in Event :
         record[e] # "rejected" /\ record'[e] = "rejected" =>
             e.type = "expired" \/ session_price[e.order] # price]_vars

\* The transitions the trigger enforce_order_state_transition lets through.
TriggerAllows(o) ==
    /\ payment_state'[o] # payment_state[o] =>
          \/ /\ payment_state[o] = "checkout_open"
             /\ payment_state'[o] \in {"processing", "paid", "failed",
                                       "expired", "refunded", "disputed"}
          \/ /\ payment_state[o] = "processing"
             /\ payment_state'[o] \in {"paid", "failed", "expired",
                                       "refunded", "disputed"}
          \/ /\ payment_state[o] = "paid"
             /\ payment_state'[o] \in {"refunded", "disputed"}
          \/ payment_state[o] = "disputed" /\ payment_state'[o] = "refunded"
    /\ fulfillment_state'[o] # fulfillment_state[o] =>
          \/ /\ fulfillment_state[o] = "awaiting_payment"
             /\ fulfillment_state'[o] = "queued" => payment_state'[o] = "paid"
             /\ fulfillment_state'[o] \in {"queued", "manual_review"}
          \/ /\ fulfillment_state[o] = "queued"
             /\ fulfillment_state'[o] \in {"stamping", "manual_review"}
          \/ /\ fulfillment_state[o] = "stamping"
             /\ fulfillment_state'[o] \in {"calendar_pending", "manual_review"}
          \/ /\ fulfillment_state[o] = "calendar_pending"
             /\ fulfillment_state'[o] \in {"bitcoin_verified", "manual_review"}
          \/ /\ fulfillment_state[o] = "bitcoin_verified"
             /\ fulfillment_state'[o] \in {"delivered", "manual_review"}
          \/ /\ fulfillment_state[o] = "delivered"
             /\ fulfillment_state'[o] = "manual_review"

\* The webhook queues an order without looking at its fulfillment state, yet
\* no handler and no worker ever asks for a transition that the database
\* trigger would refuse: a paid order is queued once, before any work on it.
TriggerNeverRefuses == [][\A o \in Order : TriggerAllows(o)]_vars

\* The event that reports the payment of order o's session.
PaymentEvent(o) ==
    LET async == [order |-> o, type |-> "async_succeeded"]
    IN  IF async \in sent THEN async ELSE [order |-> o, type |-> "completed"]

\* A customer who paid gets the stamp job, unless the money has gone back or
\* the event was rejected after a change of the Price, and the job's task is
\* created even when the request that enqueued it died or found the task queue
\* down: Stripe's retry reconciles it.
PaidOrdersAreStamped ==
    \A o \in Order : session[o] = "paid" ~>
        \/ record[PaymentEvent(o)] = "rejected"
        \/ /\ o \in jobs \/ payment_state[o] \in {"refunded", "disputed"}
           /\ o \notin pending

\* A refund of the whole payment reaches the order once all its refunds
\* succeeded, whatever else was lost or reordered, unless one of their events
\* was rejected after a change of the Price.
RefundsAreRecorded ==
    \A o \in Order : FullyRefunded(o) ~>
        \/ payment_state[o] = "refunded"
        \/ \E r \in Refund :
             record[[order |-> o, type |-> r]] = "rejected"

=============================================================================

--------------------------- MODULE Payment_proofs ---------------------------
(***************************************************************************)
(* Proofs about Payment for every set of orders and handlers.              *)
(***************************************************************************)
EXTENDS Payment, TLAPS

-----------------------------------------------------------------------------
(* The inductive invariant.                                                *)

\* Only a customer who was given the URL of a bound session completes it, and
\* only money that was paid moves back.
SessionsAreBound ==
    \A o \in Order :
        /\ o \in bound => session[o] # "none"
        /\ session[o] \in Complete => o \in bound
        /\ \A r \in Refund : refunds[o][r] # "none" => session[o] = "paid"
        /\ o \in disputed => session[o] = "paid"

\* The event that reports the success of refund r.
Success(o, r) == [order |-> o, type |-> r]

\* Stripe reports a refund as succeeded when it is.
SuccessIsSent ==
    \A o \in Order : \A r \in Refund :
        Success(o, r) \in sent <=> refunds[o][r] = "succeeded"

\* What an event says is true at Stripe.
True(e) ==
    /\ e.type = "completed" => session[e.order] \in Complete
    /\ e.type = "async_succeeded" => session[e.order] = "paid"
    /\ e.type = "async_failed" => session[e.order] = "failed"
    /\ e.type = "expired" => session[e.order] = "expired"
    /\ e.type \in RefundSucceeded \cup {"refund_other"} => session[e.order] = "paid"
    /\ e.type = "dispute" => e.order \in disputed

EventsAreTrue == \A e \in sent : True(e)

\* The session says that every refund succeeded and all is refunded.
Whole(c) == c.refunded = "full" /\ c.refund_status = "succeeded"

\* The session a handler read is still what it was where it can no longer
\* change, and it is at least as new as the event the handler is processing.
Read(e, c) ==
    /\ c \in Canonical
    /\ session[e.order] # "none" /\ c.price = session_price[e.order]
    /\ c.session \in {"paid", "failed", "expired"} => session[e.order] = c.session
    /\ c.session \in Complete => session[e.order] \in Complete
    /\ Whole(c) => FullyRefunded(e.order)
    /\ e.type = "completed" => c.session \in Complete
    /\ e.type = "async_succeeded" => c.session = "paid"
    /\ e.type = "async_failed" => c.session = "failed"
    /\ e.type = "expired" => c.session = "expired"

ReadsAreTrue ==
    \A h \in Handler :
        /\ pc[h] # "idle" => event[h] \in sent
        /\ pc[h] # "commit" => canonical[h] = None
        /\ pc[h] = "retrieve" => event[h].order \in bound
        /\ pc[h] = "commit" =>
              \/ canonical[h] = None /\ event[h].type = "expired"
              \/ canonical[h] # None /\ Read(event[h], canonical[h])

RecordsAreSent == \A e \in Event : record[e] # "none" => e \in sent

\* The refund that succeeded last: whoever processes its event has read, or
\* will read, that all is refunded, so that accepting it refunds the order.
Last(o, r) ==
    /\ refunds[o][r] = "succeeded"
    /\ record[Success(o, r)] = "accepted" => payment_state[o] = "refunded"
    /\ \A h \in Handler :
          pc[h] = "commit" /\ event[h] = Success(o, r) /\ canonical[h] # None =>
              Whole(canonical[h])

RefundsHaveALast == \A o \in Order : FullyRefunded(o) => \E r \in Refund : Last(o, r)

IInv ==
    /\ TypeOK
    /\ SessionsAreBound
    /\ SuccessIsSent
    /\ RefundsHaveALast
    /\ EventsAreTrue
    /\ ReadsAreTrue
    /\ RecordsAreSent
    /\ LedgerIsTrue
    /\ WorkFollowsMoney
    /\ AcceptedEventsTakeEffect

-----------------------------------------------------------------------------
(* Steps, by what they leave alone.                                        *)

RefundStep(o) ==
    \E r \in Refund, status \in RefundStatus :
        refund_created(o, r, status) \/ refund_updated(o, r, status)

\* The steps of Stripe, of the checkout and of the operator.
StripeStep ==
    \/ \E o \in Order : \/ create_checkout(o) \/ finalize(o)
                        \/ session_moves(o) \/ RefundStep(o)
                        \/ dispute_created(o)
    \/ \E p \in Price : rotate_price(p)

\* The steps in which a handler accepts an event.
AcceptStep(h) ==
    \/ accept_payment(h)
    \/ \E s \in PaymentState : accept_change(h, s)
    \/ accept_unchanged(h)

\* The remaining steps of the handlers, which leave the order row alone.
QuietStep(h) ==
    \/ lookup(h) \/ retrieve_checkout(h) \/ duplicate(h) \/ reject(h)
    \/ reconcile(h) \/ handler_fails(h)
    \/ \E e \in sent : receive(h, e)

WorkerStep ==
    \E o \in Order, target \in FulfillmentState :
        transition_fulfillment_once(o, target)

\* Every step is one of these.
LEMMA StepKinds ==
    ASSUME [Next]_vars
    PROVE  \/ StripeStep
           \/ \E h \in Handler : AcceptStep(h)
           \/ \E h \in Handler : QuietStep(h)
           \/ WorkerStep
           \/ UNCHANGED vars
BY DEF Next, HandlerStep, StripeStep, RefundStep, AcceptStep, QuietStep, WorkerStep

\* Only Stripe and the checkout change Stripe's state and the binding.
LEMMA StripeState ==
    ASSUME [Next]_vars, ~StripeStep
    PROVE  UNCHANGED <<bound, session, session_price, refunds, disputed, sent>>
<1>1. ASSUME NEW h \in Handler, AcceptStep(h)
      PROVE  UNCHANGED <<bound, session, session_price, refunds, disputed, sent>>
  BY <1>1 DEF AcceptStep, accept_payment, accept_change, accept_unchanged,
     Accepting, stripe_vars
<1>2. ASSUME NEW h \in Handler, QuietStep(h)
      PROVE  UNCHANGED <<bound, session, session_price, refunds, disputed, sent>>
  BY <1>2 DEF QuietStep, lookup, retrieve_checkout, duplicate, reject, reconcile,
     handler_fails, receive, order_vars, stripe_vars
<1>3. CASE WorkerStep
  BY <1>3 DEF WorkerStep, transition_fulfillment_once, stripe_vars
<1>4. CASE UNCHANGED vars
  BY <1>4 DEF vars
<1>5. QED BY <1>1, <1>2, <1>3, <1>4, StepKinds

\* Stripe, the checkout and the operator leave the handlers and all of the
\* order row but the session id alone.
LEMMA StripeQuiet ==
    ASSUME StripeStep
    PROVE  UNCHANGED <<payment_state, fulfillment_state, jobs, record, pc, event,
                       canonical>>
<1>1. ASSUME NEW o \in Order,
             create_checkout(o) \/ finalize(o) \/ session_moves(o) \/ dispute_created(o)
      PROVE  UNCHANGED <<payment_state, fulfillment_state, jobs, record, pc,
                         event, canonical>>
  BY <1>1 DEF create_checkout, finalize, session_moves, dispute_created,
     order_vars, handler_vars
<1>2. ASSUME NEW o \in Order, NEW r \in Refund, NEW status \in RefundStatus,
             refund_created(o, r, status) \/ refund_updated(o, r, status)
      PROVE  UNCHANGED <<payment_state, fulfillment_state, jobs, record, pc,
                         event, canonical>>
  BY <1>2 DEF refund_created, refund_updated, order_vars, handler_vars
<1>3. ASSUME NEW p \in Price, rotate_price(p)
      PROVE  UNCHANGED <<payment_state, fulfillment_state, jobs, record, pc,
                         event, canonical>>
  BY <1>3 DEF rotate_price, order_vars, handler_vars
<1>4. QED BY <1>1, <1>2, <1>3 DEF StripeStep, RefundStep

\* What has happened at Stripe stays true.
Stable(o) ==
    /\ o \in bound => o \in bound'
    /\ session[o] # "none" => session'[o] # "none" /\ session_price'[o] = session_price[o]
    /\ session[o] \in {"paid", "failed", "expired"} => session'[o] = session[o]
    /\ session[o] \in Complete => session'[o] \in Complete
    /\ FullyRefunded(o) => refunds'[o] = refunds[o]
    /\ o \in disputed => o \in disputed'

\* A refund step leaves everything else at Stripe alone, and no refund can be
\* made or change once all is refunded.
LEMMA RefundSteps ==
    ASSUME TypeOK, NEW k \in Order, NEW r \in Refund, NEW status \in RefundStatus,
           refund_created(k, r, status) \/ refund_updated(k, r, status)
    PROVE  /\ UNCHANGED <<bound, price, session, session_price, disputed, record,
                          pc, event, canonical, payment_state>>
           /\ refunds' = [refunds EXCEPT ![k] = [refunds[k] EXCEPT ![r] = status]]
           /\ refunds[k][r] # "succeeded" /\ refunds[k][r] # "failed"
           /\ status \in {"pending", "succeeded", "failed"}
           /\ refunds[k][r] = "none" => session[k] = "paid"
           /\ ~FullyRefunded(k)
           /\ \E types \in SUBSET {r, "refund_other", "charge_refunded"} :
                /\ Send(k, types)
                /\ r \in types \ {"refund_other", "charge_refunded"} =>
                      status = "succeeded"
                /\ status = "succeeded" => r \in types
<1>1. r = "rest" \/ r \in Part
  BY DEF Refund
<1>2. ~FullyRefunded(k)
  BY <1>1 DEF refund_created, refund_updated, FullyRefunded
<1>3. /\ refunds' = [refunds EXCEPT ![k] = [refunds[k] EXCEPT ![r] = status]]
      /\ refunds[k][r] # "succeeded" /\ refunds[k][r] # "failed"
      /\ status \in {"pending", "succeeded", "failed"}
      /\ refunds[k][r] = "none" => session[k] = "paid"
  BY DEF refund_created, refund_updated, Live, TypeOK
<1>4. \E types \in SUBSET {r, "refund_other", "charge_refunded"} :
        /\ Send(k, types)
        /\ r \in types \ {"refund_other", "charge_refunded"} => status = "succeeded"
        /\ status = "succeeded" => r \in types
  <2>1. CASE refund_created(k, r, status)
    <3> DEFINE types == {IF status = "succeeded" THEN r ELSE "refund_other",
                         IF r = "rest" THEN "charge_refunded" ELSE "refund_other"}
    <3>1. Send(k, types)
      BY <2>1 DEF refund_created
    <3>2. types \in SUBSET {r, "refund_other", "charge_refunded"}
      OBVIOUS
    <3>3. /\ r \in types \ {"refund_other", "charge_refunded"} => status = "succeeded"
          /\ status = "succeeded" => r \in types
      OBVIOUS
    <3> HIDE DEF types
    <3>4. QED BY <3>1, <3>2, <3>3
  <2>2. CASE refund_updated(k, r, status)
    <3> DEFINE types == {IF status = "succeeded" THEN r ELSE "refund_other"}
    <3>1. Send(k, types)
      BY <2>2 DEF refund_updated
    <3>2. types \in SUBSET {r, "refund_other", "charge_refunded"}
      OBVIOUS
    <3>3. /\ r \in types \ {"refund_other", "charge_refunded"} => status = "succeeded"
          /\ status = "succeeded" => r \in types
      OBVIOUS
    <3> HIDE DEF types
    <3>4. QED BY <3>1, <3>2, <3>3
  <2>3. QED BY <2>1, <2>2
<1>5. UNCHANGED <<bound, price, session, session_price, disputed, record, pc,
                  event, canonical, payment_state>>
  BY DEF refund_created, refund_updated, order_vars, handler_vars
<1>6. QED BY <1>2, <1>3, <1>4, <1>5

\* No step takes back what Stripe did or sent.
LEMMA Monotone ==
    ASSUME TypeOK, [Next]_vars
    PROVE  sent \subseteq sent' /\ \A o \in Order : Stable(o)
<1>1. CASE ~StripeStep
  BY <1>1, StripeState DEF Stable
<1>2. ASSUME NEW k \in Order, create_checkout(k)
      PROVE  sent \subseteq sent' /\ \A o \in Order : Stable(o)
  BY <1>2 DEF create_checkout, Stable, TypeOK, order_vars, Complete
<1>3. ASSUME NEW k \in Order, finalize(k)
      PROVE  sent \subseteq sent' /\ \A o \in Order : Stable(o)
  BY <1>3 DEF finalize, Stable, TypeOK, stripe_vars
<1>4. ASSUME NEW k \in Order, session_moves(k)
      PROVE  sent \subseteq sent' /\ \A o \in Order : Stable(o)
  BY <1>4 DEF session_moves, Send, Stable, TypeOK, order_vars, Complete
<1>5. ASSUME NEW k \in Order, RefundStep(k)
      PROVE  sent \subseteq sent' /\ \A o \in Order : Stable(o)
  <2>1. PICK r \in Refund, status \in RefundStatus :
           refund_created(k, r, status) \/ refund_updated(k, r, status)
    BY <1>5 DEF RefundStep
  <2>2. /\ UNCHANGED <<bound, session, session_price, disputed>>
        /\ refunds' = [refunds EXCEPT ![k] = [refunds[k] EXCEPT ![r] = status]]
        /\ ~FullyRefunded(k)
        /\ \E types : Send(k, types)
    BY <2>1, RefundSteps
  <2>3. sent \subseteq sent'
    BY <2>2 DEF Send
  <2>4. \A o \in Order : FullyRefunded(o) => refunds'[o] = refunds[o]
    BY <2>2 DEF TypeOK
  <2>5. QED BY <2>2, <2>3, <2>4 DEF Stable
<1>6. ASSUME NEW k \in Order, dispute_created(k)
      PROVE  sent \subseteq sent' /\ \A o \in Order : Stable(o)
  BY <1>6 DEF dispute_created, Send, Stable, TypeOK, order_vars
<1>7. ASSUME NEW p \in Price, rotate_price(p)
      PROVE  sent \subseteq sent' /\ \A o \in Order : Stable(o)
  BY <1>7 DEF rotate_price, Stable, order_vars, stripe_vars
<1>8. QED BY <1>1, <1>2, <1>3, <1>4, <1>5, <1>6, <1>7 DEF StripeStep

-----------------------------------------------------------------------------
(* Types.                                                                  *)

HandlerTypes ==
    /\ pc \in [Handler -> Steps]
    /\ event \in [Handler -> Event \cup {None}]
    /\ canonical \in [Handler -> Canonical \cup {None}]

\* A handler that returns or answers leaves well-typed locals.
LEMMA AnswerTypes ==
    ASSUME TypeOK, NEW h \in Handler, NEW e \in Event, NEW outcome,
           Return(h) \/ Answer(h, e, outcome)
    PROVE  HandlerTypes'
<1>1. CASE Return(h)
  BY <1>1 DEF Return, TypeOK, HandlerTypes, Steps
<1>2. CASE Answer(h, e, outcome)
  BY <1>1, <1>2 DEF Answer, TypeOK, HandlerTypes, Steps
<1>3. QED BY <1>1, <1>2

\* What Stripe answers.
LEMMA CanonicalType ==
    ASSUME TypeOK, NEW o \in Order
    PROVE  /\ canonical_checkout(o) \in Canonical
           /\ Whole(canonical_checkout(o)) <=> FullyRefunded(o)
<1>1. /\ refunded_amount_total(o) \in {"none", "partial", "full"}
      /\ refund_status(o) \in {"none", "pending", "succeeded"}
  BY DEF refunded_amount_total, refund_status
<1>2. canonical_checkout(o) \in Canonical
  BY <1>1 DEF canonical_checkout, Canonical, TypeOK
<1>3. Whole(canonical_checkout(o)) <=>
        refunded_amount_total(o) = "full" /\ refund_status(o) = "succeeded"
  BY DEF Whole, canonical_checkout
<1>4. refunded_amount_total(o) = "full" <=> refunds[o]["rest"] \in Live
  BY DEF refunded_amount_total
<1>5. refunds[o]["rest"] \in Live =>
        (refund_status(o) = "succeeded" <=>
            \A r \in Refund : refunds[o][r] \in {"none", "succeeded"})
  BY <1>4 DEF refund_status
<1>6. QED BY <1>2, <1>3, <1>4, <1>5 DEF FullyRefunded, Live, Refund

\* Every step keeps the types.
LEMMA TypeStep ==
    ASSUME IInv, [Next]_vars
    PROVE  TypeOK'
<1> USE DEF IInv
<1>1. CASE StripeStep
  <2>1. ASSUME NEW o \in Order, create_checkout(o) \/ finalize(o)
        PROVE  TypeOK'
    <3>1. CASE create_checkout(o)
      <4>1. session' \in [Order -> SessionState]
        BY <3>1 DEF create_checkout, TypeOK, SessionState
      <4>2. session_price' \in [Order -> Price]
        BY <3>1 DEF create_checkout, TypeOK
      <4>3. QED
        BY <3>1, <4>1, <4>2 DEF create_checkout, TypeOK, order_vars, stripe_vars,
           handler_vars
    <3>2. CASE finalize(o)
      BY <3>2 DEF finalize, TypeOK, order_vars, stripe_vars, handler_vars
    <3>3. QED BY <2>1, <3>1, <3>2
  <2>2. ASSUME NEW o \in Order, NEW types \in SUBSET EventType, Send(o, types)
        PROVE  sent' \subseteq Event /\ unacked' \subseteq sent'
    BY <2>2 DEF Send, TypeOK, Event
  <2>3. ASSUME NEW o \in Order, session_moves(o)
        PROVE  TypeOK'
    <3>1. sent' \subseteq Event /\ unacked' \subseteq sent'
      BY <2>2, <2>3 DEF session_moves, EventType, OtherEvents
    <3>2. session' \in [Order -> SessionState]
      BY <2>3 DEF session_moves, TypeOK, SessionState
    <3>3. QED
      BY <2>3, <3>1, <3>2 DEF session_moves, TypeOK, order_vars, handler_vars
  <2>4. ASSUME NEW o \in Order, RefundStep(o)
        PROVE  TypeOK'
    <3>1. PICK r \in Refund, status \in RefundStatus :
             refund_created(o, r, status) \/ refund_updated(o, r, status)
      BY <2>4 DEF RefundStep
    <3>2. PICK types \in SUBSET {r, "refund_other", "charge_refunded"} : Send(o, types)
      BY <3>1, RefundSteps
    <3>3. types \in SUBSET EventType
      BY <3>2 DEF EventType, OtherEvents, RefundSucceeded
    <3>4. sent' \subseteq Event /\ unacked' \subseteq sent'
      BY <2>2, <3>2, <3>3
    <3>5. refunds' \in [Order -> [Refund -> RefundStatus]]
      <4>1. refunds' = [refunds EXCEPT ![o] = [refunds[o] EXCEPT ![r] = status]]
        BY <3>1, RefundSteps
      <4>2. [refunds[o] EXCEPT ![r] = status] \in [Refund -> RefundStatus]
        BY DEF TypeOK
      <4>3. QED BY <4>1, <4>2 DEF TypeOK
    <3>6. QED
      BY <3>1, <3>4, <3>5 DEF refund_created, refund_updated, TypeOK, order_vars,
         handler_vars
  <2>5. ASSUME NEW o \in Order, dispute_created(o)
        PROVE  TypeOK'
    <3>1. sent' \subseteq Event /\ unacked' \subseteq sent'
      BY <2>2, <2>5 DEF dispute_created, EventType, OtherEvents
    <3>2. QED
      BY <2>5, <3>1 DEF dispute_created, TypeOK, order_vars, handler_vars
  <2>6. ASSUME NEW p \in Price, rotate_price(p)
        PROVE  TypeOK'
    BY <2>6 DEF rotate_price, TypeOK, order_vars, stripe_vars, handler_vars
  <2>7. QED BY <1>1, <2>1, <2>3, <2>4, <2>5, <2>6 DEF StripeStep
<1>2. ASSUME NEW h \in Handler, AcceptStep(h)
      PROVE  TypeOK'
  <2>1. Accepting(h)
    BY <1>2 DEF AcceptStep, accept_payment, accept_change, accept_unchanged
  <2>2. event[h] \in Event /\ event[h].order \in Order
    BY <2>1 DEF Accepting, ReadsAreTrue, TypeOK, Event
  <2>3. HandlerTypes'
    BY <2>1, <2>2, AnswerTypes DEF Accepting
  <2>4. /\ payment_state' \in [Order -> PaymentState]
        /\ fulfillment_state' \in [Order -> FulfillmentState]
        /\ jobs' \subseteq Order /\ pending' \subseteq jobs'
    BY <1>2, <2>2 DEF AcceptStep, accept_payment, accept_change,
       accept_unchanged, TypeOK, PaymentState, FulfillmentState
  <2>5. record' \in [Event -> {"none", "accepted", "rejected"}]
    BY <2>1, <2>2 DEF Accepting, TypeOK
  <2>6. QED
    BY <2>1, <2>3, <2>4, <2>5 DEF Accepting, TypeOK, HandlerTypes, stripe_vars
<1>3. ASSUME NEW h \in Handler, QuietStep(h)
      PROVE  TypeOK'
  <2>1. pc[h] # "idle" => event[h] \in Event /\ event[h].order \in Order
    BY DEF ReadsAreTrue, TypeOK, Event
  <2>2. CASE lookup(h)
    BY <2>2 DEF lookup, TypeOK, Steps, order_vars, stripe_vars
  <2>3. CASE retrieve_checkout(h)
    <3>1. canonical_checkout(event[h].order) \in Canonical
      BY <2>1, <2>3, CanonicalType DEF retrieve_checkout
    <3>2. QED
      BY <2>3, <3>1 DEF retrieve_checkout, TypeOK, Steps, order_vars, stripe_vars
  <2>4. CASE duplicate(h)
    <3>1. HandlerTypes'
      BY <2>1, <2>4, AnswerTypes DEF duplicate
    <3>2. QED
      BY <2>4, <3>1 DEF duplicate, TypeOK, HandlerTypes, order_vars, stripe_vars
  <2>5. CASE reject(h)
    <3>1. HandlerTypes'
      BY <2>1, <2>5, AnswerTypes DEF reject
    <3>2. QED
      BY <2>5, <3>1 DEF reject, TypeOK, HandlerTypes, order_vars, stripe_vars
  <2>6. CASE reconcile(h) \/ handler_fails(h)
    <3>1. HandlerTypes'
      BY <2>1, <2>6, AnswerTypes DEF reconcile, handler_fails
    <3>2. QED
      BY <2>6, <3>1 DEF reconcile, handler_fails, TypeOK, HandlerTypes,
         order_vars, stripe_vars
  <2>7. ASSUME NEW e \in sent, receive(h, e)
        PROVE  TypeOK'
    <3>1. e \in Event
      BY DEF TypeOK
    <3>2. HandlerTypes'
      <4>1. CASE record[e] # "none"
        BY <2>7, <3>1, <4>1, AnswerTypes DEF receive
      <4>2. CASE record[e] = "none"
        BY <2>7, <3>1, <4>2 DEF receive, TypeOK, HandlerTypes, Steps
      <4>3. QED BY <4>1, <4>2
    <3>3. QED
      BY <2>7, <3>2 DEF receive, TypeOK, HandlerTypes, order_vars, stripe_vars
  <2>8. QED BY <1>3, <2>2, <2>3, <2>4, <2>5, <2>6, <2>7 DEF QuietStep
<1>4. CASE WorkerStep
  BY <1>4 DEF WorkerStep, transition_fulfillment_once, TypeOK, stripe_vars,
     handler_vars
<1>5. CASE UNCHANGED vars
  BY <1>5 DEF vars, TypeOK
<1>6. QED BY <1>1, <1>2, <1>3, <1>4, <1>5, StepKinds

-----------------------------------------------------------------------------
(* Stripe's side.                                                          *)

\* Every step keeps Stripe's bookkeeping consistent.
LEMMA BoundStep ==
    ASSUME IInv, [Next]_vars
    PROVE  SessionsAreBound'
<1> USE DEF IInv
<1>1. CASE ~StripeStep
  BY <1>1, StripeState DEF SessionsAreBound
<1>2. ASSUME NEW o \in Order, create_checkout(o)
      PROVE  SessionsAreBound'
  BY <1>2 DEF create_checkout, SessionsAreBound, TypeOK, Complete, order_vars
<1>3. ASSUME NEW o \in Order, finalize(o)
      PROVE  SessionsAreBound'
  BY <1>3 DEF finalize, SessionsAreBound, TypeOK, stripe_vars
<1>4. ASSUME NEW o \in Order, session_moves(o)
      PROVE  SessionsAreBound'
  BY <1>4 DEF session_moves, SessionsAreBound, TypeOK, Complete, order_vars
<1>5. ASSUME NEW o \in Order, RefundStep(o)
      PROVE  SessionsAreBound'
  <2>1. PICK r \in Refund, status \in RefundStatus :
           refund_created(o, r, status) \/ refund_updated(o, r, status)
    BY <1>5 DEF RefundStep
  <2>2. /\ UNCHANGED <<bound, session, disputed>>
        /\ refunds' = [refunds EXCEPT ![o] = [refunds[o] EXCEPT ![r] = status]]
        /\ refunds[o][r] = "none" => session[o] = "paid"
    BY <2>1, RefundSteps
  <2>3. session[o] = "paid"
    BY <2>2 DEF SessionsAreBound
  <2>4. QED BY <2>2, <2>3 DEF SessionsAreBound, TypeOK
<1>6. ASSUME NEW o \in Order, dispute_created(o)
      PROVE  SessionsAreBound'
  BY <1>6 DEF dispute_created, SessionsAreBound, TypeOK, order_vars
<1>7. ASSUME NEW p \in Price, rotate_price(p)
      PROVE  SessionsAreBound'
  BY <1>7 DEF rotate_price, SessionsAreBound, order_vars, stripe_vars
<1>8. QED BY <1>1, <1>2, <1>3, <1>4, <1>5, <1>6, <1>7 DEF StripeStep

\* The success of a refund is reported in the step that brings it.
LEMMA SuccessStep ==
    ASSUME IInv, [Next]_vars
    PROVE  SuccessIsSent'
<1> USE DEF IInv
<1>1. CASE UNCHANGED <<refunds, sent>>
  BY <1>1 DEF SuccessIsSent
<1>2. ASSUME NEW k \in Order, RefundStep(k)
      PROVE  SuccessIsSent'
  <2>1. PICK r \in Refund, status \in RefundStatus :
           refund_created(k, r, status) \/ refund_updated(k, r, status)
    BY <1>2 DEF RefundStep
  <2>2. PICK types \in SUBSET {r, "refund_other", "charge_refunded"} :
           /\ Send(k, types)
           /\ r \in types \ {"refund_other", "charge_refunded"} => status = "succeeded"
           /\ status = "succeeded" => r \in types
    BY <2>1, RefundSteps
  <2>3. /\ refunds' = [refunds EXCEPT ![k] = [refunds[k] EXCEPT ![r] = status]]
        /\ refunds[k][r] # "succeeded"
    BY <2>1, RefundSteps
  <2>4. \A q \in Refund : q # "refund_other" /\ q # "charge_refunded"
    BY ConstantsAssumption DEF Refund, OtherEvents
  <2>5. ASSUME NEW o \in Order, NEW q \in Refund
        PROVE  Success(o, q) \in sent' <=> refunds'[o][q] = "succeeded"
    <3>1. Success(o, q) \in sent <=> refunds[o][q] = "succeeded"
      BY DEF SuccessIsSent
    <3>2. Success(o, q) \in [order : {k}, type : types] <=> o = k /\ q \in types
      BY DEF Success
    <3>3. sent' = sent \cup [order : {k}, type : types]
      BY <2>2 DEF Send
    <3>4. q \in types <=> q = r /\ status = "succeeded"
      BY <2>2, <2>4
    <3>5. refunds'[o][q] = IF o = k /\ q = r THEN status ELSE refunds[o][q]
      BY <2>3 DEF TypeOK
    <3>6. QED BY <2>3, <3>1, <3>2, <3>3, <3>4, <3>5
  <2>6. QED BY <2>5 DEF SuccessIsSent
<1>3. ASSUME NEW k \in Order, session_moves(k) \/ dispute_created(k)
      PROVE  SuccessIsSent'
  <2>1. PICK types \in SUBSET OtherEvents : Send(k, types)
    BY <1>3 DEF session_moves, dispute_created, OtherEvents
  <2>2. refunds' = refunds
    BY <1>3 DEF session_moves, dispute_created
  <2>3. ASSUME NEW o \in Order, NEW q \in Refund
        PROVE  Success(o, q) \in sent' <=> Success(o, q) \in sent
    <3>1. q \notin OtherEvents
      BY ConstantsAssumption DEF Refund, OtherEvents
    <3>2. Success(o, q) \notin [order : {k}, type : types]
      BY <2>1, <3>1 DEF Success
    <3>3. QED BY <2>1, <3>2 DEF Send
  <2>4. QED BY <2>2, <2>3 DEF SuccessIsSent
<1>4. CASE ~StripeStep
  BY <1>1, <1>4, StripeState
<1>5. ASSUME NEW k \in Order, create_checkout(k) \/ finalize(k)
      PROVE  UNCHANGED <<refunds, sent>>
  BY <1>5 DEF create_checkout, finalize, stripe_vars
<1>6. ASSUME NEW p \in Price, rotate_price(p)
      PROVE  UNCHANGED <<refunds, sent>>
  BY <1>6 DEF rotate_price, stripe_vars
<1>7. QED BY <1>1, <1>2, <1>3, <1>4, <1>5, <1>6 DEF StripeStep

\* Stripe sends only true events, and they stay true.
LEMMA EventStep ==
    ASSUME IInv, [Next]_vars
    PROVE  EventsAreTrue'
<1> USE DEF IInv
<1> SUFFICES ASSUME NEW e \in sent' PROVE True(e)'
  BY DEF EventsAreTrue
<1>1. CASE e \in sent
  <2>1. True(e) /\ e.order \in Order /\ Stable(e.order)
    BY <1>1, Monotone DEF EventsAreTrue, TypeOK, Event
  <2>2. QED BY <2>1 DEF True, Stable
<1>2. CASE e \notin sent
  <2>1. StripeStep
    BY <1>2, StripeState
  <2>2. ASSUME NEW o \in Order, session_moves(o)
        PROVE  True(e)'
    <3>1. RefundSucceeded \cap {"completed", "async_succeeded", "async_failed",
                               "expired"} = {}
      BY ConstantsAssumption DEF RefundSucceeded, Refund, OtherEvents
    <3>2. QED
      BY <1>2, <2>2, <3>1 DEF session_moves, Send, True, TypeOK, Complete
  <2>3. ASSUME NEW o \in Order, RefundStep(o)
        PROVE  True(e)'
    <3>1. PICK r \in Refund, status \in RefundStatus :
             refund_created(o, r, status) \/ refund_updated(o, r, status)
      BY <2>3 DEF RefundStep
    <3>2. PICK types \in SUBSET {r, "refund_other", "charge_refunded"} : Send(o, types)
      BY <3>1, RefundSteps
    <3>3. e.order = o /\ e.type \in types
      BY <1>2, <3>2 DEF Send
    <3>4. session'[o] = "paid"
      BY <3>1, RefundSteps DEF SessionsAreBound
    <3>5. e.type \notin OtherEvents \ {"refund_other"}
      BY <3>2, <3>3, ConstantsAssumption DEF Refund, OtherEvents
    <3>6. QED BY <3>3, <3>4, <3>5 DEF True, OtherEvents
  <2>4. ASSUME NEW o \in Order, dispute_created(o)
        PROVE  True(e)'
    <3>1. e.order = o /\ e.type = "dispute" /\ o \in disputed'
      BY <1>2, <2>4 DEF dispute_created, Send
    <3>2. "dispute" \notin RefundSucceeded \cup {"refund_other"}
      BY ConstantsAssumption DEF RefundSucceeded, Refund, OtherEvents
    <3>3. QED BY <3>1, <3>2 DEF True
  <2>5. ASSUME NEW p \in Price, rotate_price(p)
        PROVE  FALSE
    BY <1>2, <2>5 DEF rotate_price, stripe_vars
  <2>6. QED
    BY <1>2, <2>1, <2>2, <2>3, <2>4, <2>5 DEF StripeStep, create_checkout,
       finalize, stripe_vars
<1>3. QED BY <1>1, <1>2

-----------------------------------------------------------------------------
(* The handlers.                                                           *)

\* What handler h holds is true: ReadsAreTrue for one handler.
Holds(h) ==
    /\ pc[h] # "idle" => event[h] \in sent
    /\ pc[h] # "commit" => canonical[h] = None
    /\ pc[h] = "retrieve" => event[h].order \in bound
    /\ pc[h] = "commit" =>
          \/ canonical[h] = None /\ event[h].type = "expired"
          \/ canonical[h] # None /\ Read(event[h], canonical[h])

\* A handler that does not move keeps holding what is true.
LEMMA HoldsStable ==
    ASSUME IInv, [Next]_vars, NEW h \in Handler,
           pc'[h] = pc[h], event'[h] = event[h], canonical'[h] = canonical[h]
    PROVE  Holds(h)'
<1>1. Holds(h)
  BY DEF IInv, ReadsAreTrue, Holds
<1>2. /\ sent \subseteq sent'
      /\ pc[h] # "idle" => event[h].order \in Order /\ Stable(event[h].order)
  BY <1>1, Monotone DEF IInv, Holds, TypeOK, Event
<1>3. ASSUME pc[h] = "commit", canonical[h] # None
      PROVE  Read(event[h], canonical[h])'
  BY <1>1, <1>2, <1>3 DEF Holds, Read, Stable, FullyRefunded
<1>4. QED BY <1>1, <1>2, <1>3 DEF Holds, Stable

\* A handler that returns, or goes on to reconcile an event, holds nothing of
\* the session.
LEMMA HoldsAnswer ==
    ASSUME TypeOK, NEW h \in Handler, NEW e \in sent', NEW outcome,
           Return(h) \/ Answer(h, e, outcome)
    PROVE  Holds(h)'
BY DEF Return, Answer, Holds, TypeOK

\* Every step keeps what the handlers hold true.
LEMMA ReadStep ==
    ASSUME IInv, [Next]_vars
    PROVE  ReadsAreTrue'
<1> USE DEF IInv
<1> SUFFICES ASSUME NEW h \in Handler PROVE Holds(h)'
  BY DEF ReadsAreTrue, Holds
<1>0. /\ sent \subseteq sent'
      /\ Holds(h)
      /\ pc[h] # "idle" => event[h] \in sent' /\ event[h].order \in Order
  BY Monotone DEF ReadsAreTrue, Holds, TypeOK, Event
<1>1. CASE UNCHANGED <<pc, event, canonical>>
  BY <1>1, HoldsStable
\* A handler's step does not touch the locals of another one.
<1>2. ASSUME NEW k \in Handler, k # h, AcceptStep(k) \/ QuietStep(k)
      PROVE  Holds(h)'
  <2>1. pc'[h] = pc[h] /\ event'[h] = event[h] /\ canonical'[h] = canonical[h]
    BY <1>2 DEF AcceptStep, accept_payment, accept_change, accept_unchanged,
       Accepting, QuietStep, lookup, retrieve_checkout, duplicate, reject,
       reconcile, handler_fails, receive, Answer, Return, TypeOK
  <2>2. QED BY <2>1, HoldsStable
<1>3. CASE AcceptStep(h)
  <2>1. Accepting(h)
    BY <1>3 DEF AcceptStep, accept_payment, accept_change, accept_unchanged
  <2>2. QED BY <1>0, <2>1, HoldsAnswer DEF Accepting
<1>4. CASE QuietStep(h)
  <2>1. CASE lookup(h)
    <3>1. /\ pc' = [pc EXCEPT ![h] = IF event[h].order \in bound THEN "retrieve"
                                                               ELSE "commit"]
          /\ event'[h] = event[h] /\ canonical'[h] = None
          /\ bound' = bound /\ event[h] \in sent
      BY <1>0, <2>1 DEF lookup, Holds, order_vars
    <3>2. event[h].order \notin bound => event[h].type = "expired"
      <4>1. event[h] \in Event /\ event[h].order \in Order /\ True(event[h])
        BY <3>1 DEF EventsAreTrue, TypeOK, Event
      <4>2. event[h].type \in EventType
        BY <4>1 DEF Event
      <4>3. QED
        BY <4>1, <4>2 DEF True, SessionsAreBound, EventType, OtherEvents, Complete
    <3>3. pc'[h] = IF event[h].order \in bound THEN "retrieve" ELSE "commit"
      BY <3>1 DEF TypeOK
    <3>4. QED BY <1>0, <3>1, <3>2, <3>3 DEF Holds
  <2>2. CASE retrieve_checkout(h)
    <3> DEFINE o == event[h].order
               c == canonical_checkout(o)
    <3>1. /\ pc'[h] = "commit" /\ event'[h] = event[h] /\ canonical'[h] = c
          /\ UNCHANGED <<session, session_price, refunds>>
      BY <2>2 DEF retrieve_checkout, TypeOK, stripe_vars
    <3>2. /\ o \in Order /\ o \in bound /\ True(event[h])
          /\ session[o] # "none"
      BY <1>0, <2>2 DEF retrieve_checkout, Holds, EventsAreTrue, SessionsAreBound
    <3>3. c \in Canonical /\ (Whole(c) <=> FullyRefunded(o))
      BY <3>2, CanonicalType
    <3>4. c.session = session[o] /\ c.price = session_price[o]
      BY DEF canonical_checkout
    <3>5. c # None
      BY <3>3, ConstantsAssumption
    <3> HIDE DEF c
    <3>6. Read(event[h], c)
      BY <3>2, <3>3, <3>4 DEF Read, True
    <3>7. Read(event[h], canonical[h])'
      BY <3>1, <3>6 DEF Read, FullyRefunded
    <3>8. QED BY <1>0, <2>2, <3>1, <3>5, <3>7 DEF Holds, retrieve_checkout
  <2>3. CASE duplicate(h) \/ reject(h) \/ reconcile(h) \/ handler_fails(h)
    BY <1>0, <2>3, HoldsAnswer DEF duplicate, reject, reconcile, handler_fails
  <2>4. ASSUME NEW e \in sent, receive(h, e)
        PROVE  Holds(h)'
    <3>1. CASE record[e] # "none"
      BY <1>0, <2>4, <3>1, HoldsAnswer DEF receive
    <3>2. CASE record[e] = "none"
      BY <1>0, <2>4, <3>2 DEF receive, Holds, TypeOK
    <3>3. QED BY <3>1, <3>2
  <2>5. QED BY <1>4, <2>1, <2>2, <2>3, <2>4 DEF QuietStep
<1>5. CASE StripeStep
  BY <1>1, <1>5, StripeQuiet
<1>6. CASE WorkerStep
  BY <1>1, <1>6 DEF WorkerStep, transition_fulfillment_once, handler_vars
<1>7. CASE UNCHANGED vars
  BY <1>1, <1>7 DEF vars
<1>8. QED BY <1>2, <1>3, <1>4, <1>5, <1>6, <1>7, StepKinds

\* How stripe_events changes: a handler in its transaction records its event.
LEMMA Recording ==
    ASSUME IInv, [Next]_vars
    PROVE  \/ record' = record
           \/ \E h \in Handler :
                /\ event[h] \in sent
                /\ \/ /\ Accepting(h) /\ AcceptStep(h)
                   \/ /\ reject(h)
                      /\ record' = [record EXCEPT ![event[h]] = "rejected"]
<1>1. ASSUME NEW h \in Handler, AcceptStep(h)
      PROVE  Accepting(h) /\ event[h] \in sent
  BY <1>1 DEF AcceptStep, accept_payment, accept_change, accept_unchanged,
     Accepting, IInv, ReadsAreTrue
<1>2. ASSUME NEW h \in Handler, QuietStep(h)
      PROVE  \/ record' = record
             \/ /\ event[h] \in sent /\ reject(h)
                /\ record' = [record EXCEPT ![event[h]] = "rejected"]
  BY <1>2 DEF QuietStep, lookup, retrieve_checkout, duplicate, reject, reconcile,
     handler_fails, receive, IInv, ReadsAreTrue
<1>3. CASE StripeStep
  BY <1>3, StripeQuiet
<1>4. CASE WorkerStep
  BY <1>4 DEF WorkerStep, transition_fulfillment_once
<1>5. CASE UNCHANGED vars
  BY <1>5 DEF vars
<1>6. QED BY <1>1, <1>2, <1>3, <1>4, <1>5, StepKinds

\* Only events that were sent are recorded.
LEMMA RecordStep ==
    ASSUME IInv, [Next]_vars
    PROVE  RecordsAreSent'
<1> USE DEF IInv
<1>0. sent \subseteq sent'
  BY Monotone
<1>1. CASE record' = record
  BY <1>0, <1>1 DEF RecordsAreSent
<1>2. ASSUME NEW h \in Handler, event[h] \in sent, Accepting(h)
      PROVE  RecordsAreSent'
  BY <1>0, <1>2 DEF Accepting, RecordsAreSent, TypeOK
<1>3. ASSUME NEW h \in Handler, event[h] \in sent, reject(h),
             record' = [record EXCEPT ![event[h]] = "rejected"]
      PROVE  RecordsAreSent'
  BY <1>0, <1>3 DEF RecordsAreSent, TypeOK
<1>4. QED BY <1>1, <1>2, <1>3, Recording

\* A handler rejects the expiry of a session that was not bound, and what
\* concerns a session at another Price than the configured one.
LEMMA RejectionCause ==
    ASSUME IInv, [Next]_vars, NEW e \in Event,
           record[e] # "rejected", record'[e] = "rejected"
    PROVE  e.type = "expired" \/ session_price[e.order] # price
<1> USE DEF IInv
<1>1. PICK h \in Handler : reject(h) /\ e = event[h]
  <2>1. ASSUME NEW h \in Handler, Accepting(h)
        PROVE  FALSE
    BY <2>1 DEF Accepting, TypeOK
  <2>2. QED BY <2>1, Recording DEF TypeOK
<1>2. e \in sent /\ e.type \in EventType /\ e.order \in Order /\ True(e)
  BY <1>1 DEF reject, ReadsAreTrue, EventsAreTrue, Event
<1>3. CASE e.order \notin bound
  BY <1>2, <1>3 DEF True, SessionsAreBound, EventType, OtherEvents, Complete
<1>4. CASE canonical[h] = None
  BY <1>1, <1>4 DEF reject, ReadsAreTrue
<1>5. CASE canonical[h] # None /\ ~valid_binding(e, canonical[h])
  <2>1. Read(e, canonical[h])
    BY <1>1, <1>5 DEF reject, ReadsAreTrue
  <2>2. QED BY <1>5, <2>1 DEF Read, valid_binding, Complete
<1>6. QED BY <1>1, <1>3, <1>4, <1>5 DEF reject

-----------------------------------------------------------------------------
(* The order row.                                                          *)

\* The facts an accepting handler acts on.
LEMMA AcceptFacts ==
    ASSUME IInv, NEW h \in Handler, Accepting(h)
    PROVE  /\ event[h] \in Event /\ event[h].order \in Order
           /\ event[h].type \in EventType
           /\ True(event[h])
           /\ Read(event[h], canonical[h])
           /\ record' = [record EXCEPT ![event[h]] = "accepted"]
           /\ UNCHANGED <<bound, session, refunds, disputed>>
BY DEF IInv, Accepting, ReadsAreTrue, EventsAreTrue, TypeOK, Event, stripe_vars

\* Only an accepting handler changes a payment state, by a legal transition to
\* what its event stands for, and that is true at Stripe.
LEMMA PaymentMoves ==
    ASSUME IInv, [Next]_vars, NEW o \in Order,
           payment_state'[o] # payment_state[o]
    PROVE  /\ <<payment_state[o], payment_state'[o]>> \in PaymentTransitions
           /\ payment_state'[o] = "processing" => session'[o] \in Complete
           /\ payment_state'[o] = "paid" => session'[o] = "paid"
           /\ payment_state'[o] = "failed" => session'[o] = "failed"
           /\ payment_state'[o] = "expired" => session'[o] = "expired"
           /\ payment_state'[o] = "refunded" => FullyRefunded(o)'
           /\ payment_state'[o] = "disputed" => o \in disputed'
<1> USE DEF IInv
<1>1. PICK h \in Handler : AcceptStep(h)
  <2>1. ~StripeStep
    BY StripeQuiet
  <2>2. ASSUME NEW h \in Handler, QuietStep(h)
        PROVE  FALSE
    BY <2>2 DEF QuietStep, lookup, retrieve_checkout, duplicate, reject,
       reconcile, handler_fails, receive, order_vars
  <2>3. ~WorkerStep
    BY DEF WorkerStep, transition_fulfillment_once
  <2>4. ~UNCHANGED vars
    BY DEF vars
  <2>5. QED BY <2>1, <2>2, <2>3, <2>4, StepKinds
<1>2. Accepting(h)
  BY <1>1 DEF AcceptStep, accept_payment, accept_change, accept_unchanged
<1>3. /\ event[h].order \in Order /\ True(event[h])
      /\ Read(event[h], canonical[h])
      /\ UNCHANGED <<session, refunds, disputed>>
  BY <1>2, AcceptFacts
<1>4. o = event[h].order /\ Changes(h, payment_state'[o])
  <2>1. CASE accept_payment(h)
    BY <1>3, <2>1 DEF accept_payment, TypeOK
  <2>2. ASSUME NEW s \in PaymentState, accept_change(h, s)
        PROVE  o = event[h].order /\ Changes(h, payment_state'[o])
    BY <1>3, <2>2 DEF accept_change, TypeOK
  <2>3. CASE accept_unchanged(h)
    BY <2>3 DEF accept_unchanged
  <2>4. QED BY <1>1, <2>1, <2>2, <2>3 DEF AcceptStep
<1>5. StandsFor(event[h], canonical[h], payment_state'[o])
  BY <1>4 DEF Changes
<1>6. QED
  BY <1>3, <1>4, <1>5 DEF StandsFor, authoritative_full_refund, Changes, Read,
     True, Complete, Whole, FullyRefunded

\* Every step keeps the ledger true.
LEMMA LedgerStep ==
    ASSUME IInv, [Next]_vars
    PROVE  LedgerIsTrue'
<1> USE DEF IInv
<1> SUFFICES ASSUME NEW o \in Order
             PROVE  /\ payment_state'[o] = "processing" => session'[o] \in Complete
                    /\ payment_state'[o] = "paid" => session'[o] = "paid"
                    /\ payment_state'[o] = "failed" => session'[o] = "failed"
                    /\ payment_state'[o] = "expired" => session'[o] = "expired"
                    /\ payment_state'[o] = "refunded" => FullyRefunded(o)'
                    /\ payment_state'[o] = "disputed" => o \in disputed'
  BY DEF LedgerIsTrue
<1>1. CASE payment_state'[o] # payment_state[o]
  BY <1>1, PaymentMoves
<1>2. CASE payment_state'[o] = payment_state[o]
  BY <1>2, Monotone DEF Stable, LedgerIsTrue, FullyRefunded
<1>3. QED BY <1>1, <1>2

\* How a step moves fulfillment and work: the webhook queues an order that was
\* awaiting payment, the worker moves one that has a job.
LEMMA WorkMoves ==
    ASSUME IInv, [Next]_vars, NEW o \in Order
    PROVE  \/ /\ fulfillment_state'[o] = fulfillment_state[o]
              /\ o \in jobs' <=> o \in jobs
              /\ payment_state'[o] = "paid" => o \in jobs \/ payment_state[o] = "paid"
           \/ /\ o \notin jobs /\ fulfillment_state[o] = "awaiting_payment"
              /\ o \in jobs' /\ fulfillment_state'[o] = "queued"
              /\ payment_state'[o] = "paid"
           \/ /\ o \in jobs /\ o \in jobs'
              /\ payment_state'[o] = payment_state[o]
              /\ <<fulfillment_state[o], fulfillment_state'[o]>>
                    \in FulfillmentTransitions
              /\ fulfillment_state'[o] # "awaiting_payment"
<1> USE DEF IInv
<1> DEFINE Same == /\ fulfillment_state'[o] = fulfillment_state[o]
                   /\ o \in jobs' <=> o \in jobs
                   /\ payment_state'[o] = "paid" =>
                         o \in jobs \/ payment_state[o] = "paid"
<1>1. CASE UNCHANGED <<payment_state, fulfillment_state, jobs>>
  BY <1>1
<1>2. ASSUME NEW h \in Handler, accept_payment(h)
      PROVE  \/ Same
             \/ /\ o \notin jobs /\ fulfillment_state[o] = "awaiting_payment"
                /\ o \in jobs' /\ fulfillment_state'[o] = "queued"
                /\ payment_state'[o] = "paid"
  <2>1. event[h].order \in Order
    BY <1>2, AcceptFacts DEF accept_payment
  <2>2. CASE o # event[h].order
    BY <1>2, <2>1, <2>2 DEF accept_payment, TypeOK
  <2>3. CASE o = event[h].order
    <3>1. payment_state[o] \in {"checkout_open", "processing"}
      BY <1>2, <2>3 DEF accept_payment, Changes, PaymentTransitions
    <3>2. o \notin jobs /\ fulfillment_state[o] = "awaiting_payment"
      BY <3>1 DEF WorkFollowsMoney
    <3>3. QED BY <1>2, <2>1, <2>3, <3>2 DEF accept_payment, TypeOK
  <2>4. QED BY <2>2, <2>3
<1>3. ASSUME NEW h \in Handler, NEW s \in PaymentState, accept_change(h, s)
      PROVE  Same
  <2>1. event[h].order \in Order
    BY <1>3, AcceptFacts DEF accept_change
  <2>2. QED BY <1>3, <2>1 DEF accept_change, TypeOK
<1>4. ASSUME NEW h \in Handler, accept_unchanged(h) \/ QuietStep(h)
      PROVE  UNCHANGED <<payment_state, fulfillment_state, jobs>>
  BY <1>4 DEF accept_unchanged, QuietStep, lookup, retrieve_checkout, duplicate,
     reject, reconcile, handler_fails, receive, order_vars
<1>5. CASE StripeStep
  BY <1>1, <1>5, StripeQuiet
<1>6. ASSUME NEW k \in Order, NEW target \in FulfillmentState,
             transition_fulfillment_once(k, target)
      PROVE  \/ Same
             \/ /\ o \in jobs /\ o \in jobs'
                /\ payment_state'[o] = payment_state[o]
                /\ <<fulfillment_state[o], fulfillment_state'[o]>>
                      \in FulfillmentTransitions
                /\ fulfillment_state'[o] # "awaiting_payment"
  <2>1. target # "awaiting_payment"
    BY <1>6 DEF transition_fulfillment_once, FulfillmentTransitions
  <2>2. QED BY <1>6, <2>1 DEF transition_fulfillment_once, TypeOK
<1>7. CASE UNCHANGED vars
  BY <1>1, <1>7 DEF vars
<1>8. QED
  BY <1>1, <1>2, <1>3, <1>4, <1>5, <1>6, <1>7, StepKinds
     DEF AcceptStep, WorkerStep

\* Every step keeps work behind money.
LEMMA WorkStep ==
    ASSUME IInv, [Next]_vars
    PROVE  WorkFollowsMoney'
<1> USE DEF IInv
<1> SUFFICES ASSUME NEW o \in Order
             PROVE  /\ fulfillment_state'[o] # "awaiting_payment" <=> o \in jobs'
                    /\ o \in jobs' =>
                          /\ session'[o] = "paid"
                          /\ payment_state'[o] \in {"paid", "refunded", "disputed"}
  BY DEF WorkFollowsMoney
<1>1. fulfillment_state'[o] # "awaiting_payment" <=> o \in jobs'
  BY WorkMoves DEF WorkFollowsMoney
<1>2. ASSUME o \in jobs
      PROVE  /\ session'[o] = "paid"
             /\ payment_state'[o] \in {"paid", "refunded", "disputed"}
  <2>1. /\ session[o] = "paid"
        /\ payment_state[o] \in {"paid", "refunded", "disputed"}
    BY <1>2 DEF WorkFollowsMoney
  <2>2. session'[o] = "paid"
    BY <2>1, Monotone DEF Stable
  <2>3. payment_state'[o] \in {"paid", "refunded", "disputed"}
    BY <2>1, PaymentMoves DEF PaymentTransitions
  <2>4. QED BY <2>2, <2>3
<1>3. ASSUME o \in jobs', o \notin jobs
      PROVE  session'[o] = "paid" /\ payment_state'[o] = "paid"
  <2>1. payment_state'[o] = "paid"
    BY <1>3, WorkMoves
  <2>2. QED BY <2>1, LedgerStep DEF LedgerIsTrue
<1>4. QED BY <1>1, <1>2, <1>3

\* The order reflects event e.
Reflected(e) ==
    LET s == payment_state[e.order]
    IN  /\ e.type = "completed" => s # "checkout_open"
        /\ e.type = "async_succeeded" => s \in {"paid", "refunded", "disputed"}
        /\ e.type = "async_failed" => s = "failed"
        /\ e.type = "expired" => s = "expired"
        /\ e.type = "dispute" => s \in {"disputed", "refunded"}

\* The events that report a refund as succeeded are no others.
LEMMA EventKinds == RefundSucceeded \cap OtherEvents = {}
BY ConstantsAssumption DEF RefundSucceeded, Refund, OtherEvents

\* No legal transition takes back what an event established.
LEMMA ReflectedStable ==
    ASSUME IInv, [Next]_vars, NEW e \in Event, Reflected(e)
    PROVE  Reflected(e)'
<1>1. e.order \in Order
  BY DEF Event
<1>2. CASE payment_state'[e.order] = payment_state[e.order]
  BY <1>2 DEF Reflected
<1>3. CASE payment_state'[e.order] # payment_state[e.order]
  <2>1. <<payment_state[e.order], payment_state'[e.order]>> \in PaymentTransitions
    BY <1>1, <1>3, PaymentMoves
  <2>2. QED BY <2>1 DEF PaymentTransitions, Reflected
<1>4. QED BY <1>2, <1>3

\* A handler that accepts an event leaves it reflected, also when the
\* transition was not legal any more.
LEMMA AcceptReflects ==
    ASSUME IInv, [Next]_vars, NEW h \in Handler, AcceptStep(h),
           NEW e \in Event, e = event[h]
    PROVE  Reflected(e)'
<1> USE DEF IInv
<1> DEFINE c == canonical[h]
           p == payment_state[e.order]
<1>1. Accepting(h)
  BY DEF AcceptStep, accept_payment, accept_change, accept_unchanged
<1>2. /\ e \in Event /\ e.order \in Order /\ e.type \in EventType
      /\ True(e) /\ Read(e, c)
  BY <1>1, AcceptFacts
<1>3. p \in PaymentState
  BY <1>2 DEF TypeOK
\* The state the event stands for is the new state of the order.
<1>4. ASSUME NEW s \in PaymentState, StandsFor(e, c, s),
             payment_state'[e.order] = s
      PROVE  Reflected(e)'
  BY <1>2, <1>4, EventKinds DEF StandsFor, authoritative_full_refund, Reflected,
     OtherEvents, Read
<1>5. CASE accept_payment(h)
  <2>1. payment_state'[e.order] = "paid" /\ StandsFor(e, c, "paid")
    BY <1>2, <1>5 DEF accept_payment, Changes, TypeOK
  <2>2. QED BY <1>4, <2>1 DEF PaymentState
<1>6. ASSUME NEW s \in PaymentState, accept_change(h, s)
      PROVE  Reflected(e)'
  <2>1. payment_state'[e.order] = s /\ StandsFor(e, c, s)
    BY <1>2, <1>6 DEF accept_change, Changes, TypeOK
  <2>2. QED BY <1>4, <2>1
<1>7. CASE accept_unchanged(h)
  <2>1. /\ payment_state'[e.order] = p
        /\ \A s \in PaymentState :
              StandsFor(e, c, s) => <<p, s>> \notin PaymentTransitions
    BY <1>7 DEF accept_unchanged, Changes
  <2>2. /\ p = "processing" => session[e.order] \in Complete
        /\ p = "paid" => session[e.order] = "paid"
        /\ p = "failed" => session[e.order] = "failed"
        /\ p = "expired" => session[e.order] = "expired"
        /\ p = "refunded" => session[e.order] = "paid"
        /\ p = "disputed" => session[e.order] = "paid"
    BY <1>2 DEF LedgerIsTrue, SessionsAreBound, FullyRefunded, Refund
  <2> HIDE DEF p, c
  <2>3. CASE e.type = "completed"
    <3>1. StandsFor(e, c, "paid") \/ StandsFor(e, c, "processing")
      BY <2>3 DEF StandsFor
    <3>2. p # "checkout_open"
      BY <2>1, <3>1 DEF PaymentTransitions, PaymentState
    <3>3. QED BY <2>1, <2>3, <3>2 DEF Reflected
  <2>4. CASE e.type = "async_succeeded"
    <3>1. StandsFor(e, c, "paid") /\ session[e.order] = "paid"
      BY <1>2, <2>4 DEF StandsFor, Read, True
    <3>2. p \in {"paid", "refunded", "disputed"}
      BY <1>3, <2>1, <2>2, <3>1 DEF PaymentTransitions, PaymentState
    <3>3. QED BY <2>1, <2>4, <3>2 DEF Reflected
  <2>5. CASE e.type = "async_failed"
    <3>1. StandsFor(e, c, "failed") /\ session[e.order] = "failed"
      BY <1>2, <2>5 DEF StandsFor, Read, True
    <3>2. p = "failed"
      BY <1>3, <2>1, <2>2, <3>1 DEF PaymentTransitions, PaymentState
    <3>3. QED BY <2>1, <2>5, <3>2 DEF Reflected
  <2>6. CASE e.type = "expired"
    <3>1. StandsFor(e, c, "expired") /\ session[e.order] = "expired"
      BY <1>2, <2>6 DEF StandsFor, True
    <3>2. p = "expired"
      BY <1>3, <2>1, <2>2, <3>1 DEF PaymentTransitions, PaymentState, Complete
    <3>3. QED BY <2>1, <2>6, <3>2 DEF Reflected
  <2>8. CASE e.type = "dispute"
    <3>1. StandsFor(e, c, "disputed") /\ session[e.order] = "paid"
      BY <1>2, <2>8 DEF StandsFor, True, SessionsAreBound
    <3>2. p \in {"disputed", "refunded"}
      BY <1>3, <2>1, <2>2, <3>1 DEF PaymentTransitions, PaymentState
    <3>3. QED BY <2>1, <2>8, <3>2 DEF Reflected
  <2>9. CASE e.type \in RefundSucceeded \cup {"refund_other"}
    BY <2>9, EventKinds DEF Reflected, OtherEvents
  <2>10. QED
    BY <1>2, <2>3, <2>4, <2>5, <2>6, <2>8, <2>9 DEF EventType, OtherEvents
<1>8. QED BY <1>5, <1>6, <1>7 DEF AcceptStep

\* A handler that accepts the success of a refund when all is refunded leaves
\* the order refunded.
LEMMA AcceptRefunds ==
    ASSUME IInv, [Next]_vars, NEW h \in Handler, AcceptStep(h),
           event[h].type \in RefundSucceeded, Whole(canonical[h])
    PROVE  payment_state'[event[h].order] = "refunded"
<1> USE DEF IInv
<1> DEFINE o == event[h].order
<1>1. Accepting(h)
  BY DEF AcceptStep, accept_payment, accept_change, accept_unchanged
<1>2. o \in Order /\ True(event[h])
  BY <1>1, AcceptFacts
<1>3. \A s : StandsFor(event[h], canonical[h], s) <=> s = "refunded"
  BY EventKinds DEF StandsFor, authoritative_full_refund, OtherEvents, Whole
<1>4. ~accept_payment(h)
  BY <1>3 DEF accept_payment, Changes
<1>5. ASSUME NEW s \in PaymentState, accept_change(h, s)
      PROVE  payment_state'[o] = "refunded"
  <2>1. s = "refunded"
    BY <1>3, <1>5 DEF accept_change, Changes
  <2>2. QED BY <1>2, <1>5, <2>1 DEF accept_change, TypeOK
<1>6. CASE accept_unchanged(h)
  <2>1. <<payment_state[o], "refunded">> \notin PaymentTransitions
    BY <1>3, <1>6 DEF accept_unchanged, Changes, PaymentState
  <2>2. session[o] = "paid"
    BY <1>2 DEF True
  <2>3. payment_state[o] \notin {"failed", "expired"}
    BY <1>2, <2>2 DEF LedgerIsTrue
  <2>4. payment_state[o] \in PaymentState
    BY <1>2 DEF TypeOK
  <2>5. payment_state[o] = "refunded"
    BY <2>1, <2>3, <2>4 DEF PaymentTransitions, PaymentState
  <2>6. QED BY <1>6, <2>5 DEF accept_unchanged
<1>7. QED BY <1>4, <1>5, <1>6 DEF AcceptStep

\* How a handler comes to hold a session: it held it before, or it has just
\* read it.
LEMMA HeldOrRead ==
    ASSUME IInv, [Next]_vars, NEW h \in Handler,
           pc'[h] = "commit", canonical'[h] # None
    PROVE  /\ event'[h] = event[h]
           /\ \/ pc[h] = "commit" /\ canonical'[h] = canonical[h]
              \/ /\ canonical'[h] = canonical_checkout(event[h].order)
                 /\ pc[h] # "idle" /\ refunds' = refunds
<1> USE DEF IInv
<1>1. CASE UNCHANGED <<pc, event, canonical>>
  BY <1>1
<1>2. ASSUME NEW k \in Handler, k # h, AcceptStep(k) \/ QuietStep(k)
      PROVE  pc'[h] = pc[h] /\ event'[h] = event[h] /\ canonical'[h] = canonical[h]
  BY <1>2 DEF AcceptStep, accept_payment, accept_change, accept_unchanged,
     Accepting, QuietStep, lookup, retrieve_checkout, duplicate, reject,
     reconcile, handler_fails, receive, Answer, Return, TypeOK
<1>3. ASSUME NEW e, NEW outcome, Return(h) \/ Answer(h, e, outcome)
      PROVE  FALSE
  BY <1>3 DEF Return, Answer, TypeOK
<1>4. ~AcceptStep(h)
  BY <1>3 DEF AcceptStep, accept_payment, accept_change, accept_unchanged, Accepting
<1>5. CASE QuietStep(h)
  <2>1. CASE lookup(h)
    BY <2>1 DEF lookup, ReadsAreTrue
  <2>2. CASE retrieve_checkout(h)
    BY <2>2 DEF retrieve_checkout, TypeOK, stripe_vars
  <2>3. ~(duplicate(h) \/ reject(h) \/ reconcile(h) \/ handler_fails(h))
    BY <1>3 DEF duplicate, reject, reconcile, handler_fails
  <2>4. ASSUME NEW e \in sent, receive(h, e)
        PROVE  FALSE
    <3>1. record[e] = "none"
      BY <1>3, <2>4 DEF receive
    <3>2. QED BY <2>4, <3>1 DEF receive, TypeOK
  <2>5. QED BY <1>5, <2>1, <2>2, <2>3, <2>4 DEF QuietStep
<1>6. CASE StripeStep
  BY <1>1, <1>6, StripeQuiet
<1>7. CASE WorkerStep
  BY <1>1, <1>7 DEF WorkerStep, transition_fulfillment_once, handler_vars
<1>8. CASE UNCHANGED vars
  BY <1>1, <1>8 DEF vars
<1>9. QED BY <1>2, <1>4, <1>5, <1>6, <1>7, <1>8, StepKinds

\* Once all is refunded the last refund stays the last.
LEMMA LastStays ==
    ASSUME IInv, [Next]_vars, NEW o \in Order, FullyRefunded(o),
           NEW r \in Refund, Last(o, r)
    PROVE  Last(o, r)'
<1> USE DEF IInv
<1> DEFINE e == Success(o, r)
<1>1. e \in Event /\ e.order = o /\ e.type = r /\ e.type \in RefundSucceeded
  BY DEF Success, Event, EventType, RefundSucceeded
<1>2. refunds'[o] = refunds[o]
  BY Monotone DEF Stable
<1>3. ASSUME record'[e] = "accepted"
      PROVE  payment_state'[o] = "refunded"
  <2>1. CASE record[e] = "accepted"
    <3>1. payment_state[o] = "refunded"
      BY <2>1 DEF Last
    <3>2. QED BY <3>1, PaymentMoves DEF PaymentTransitions
  <2>2. CASE record[e] # "accepted"
    <3>1. PICK h \in Handler : AcceptStep(h) /\ Accepting(h)
      BY <1>1, <1>3, <2>2, Recording DEF TypeOK
    <3>2. e = event[h]
      BY <1>1, <1>3, <2>2, <3>1 DEF Accepting, TypeOK
    <3>3. Whole(canonical[h])
      BY <3>1, <3>2 DEF Last, Accepting
    <3>4. QED BY <1>1, <3>1, <3>2, <3>3, AcceptRefunds
  <2>3. QED BY <2>1, <2>2
<1>4. ASSUME NEW h \in Handler, pc'[h] = "commit", event'[h] = e,
             canonical'[h] # None
      PROVE  Whole(canonical'[h])
  <2>1. event[h] = e
    BY <1>4, HeldOrRead
  <2>2. CASE pc[h] = "commit" /\ canonical'[h] = canonical[h]
    BY <1>4, <2>1, <2>2 DEF Last
  <2>3. CASE canonical'[h] = canonical_checkout(event[h].order)
    BY <1>1, <2>1, <2>3, CanonicalType
  <2>4. QED BY <1>4, <2>2, <2>3, HeldOrRead
<1>5. QED BY <1>2, <1>3, <1>4 DEF Last, Whole, Success

\* Every step keeps a last refund: the one whose success completed the refund.
LEMMA LastStep ==
    ASSUME IInv, [Next]_vars
    PROVE  RefundsHaveALast'
<1> USE DEF IInv
<1> SUFFICES ASSUME NEW o \in Order, FullyRefunded(o)'
             PROVE  \E r \in Refund : Last(o, r)'
  BY DEF RefundsHaveALast, Last, Success, FullyRefunded, Whole
<1>1. CASE FullyRefunded(o)
  <2>1. PICK r \in Refund : Last(o, r)
    BY <1>1 DEF RefundsHaveALast
  <2>2. QED BY <1>1, <2>1, LastStays
<1>2. CASE ~FullyRefunded(o)
  <2>1. refunds'[o] # refunds[o]
    BY <1>2 DEF FullyRefunded
  <2>2. PICK k \in Order : RefundStep(k)
    <3>1. StripeStep
      BY <2>1, StripeState
    <3>2. QED
      BY <2>1, <3>1 DEF StripeStep, create_checkout, finalize, session_moves,
         dispute_created, rotate_price, stripe_vars
  <2>3. PICK r \in Refund, status \in RefundStatus :
           refund_created(k, r, status) \/ refund_updated(k, r, status)
    BY <2>2 DEF RefundStep
  <2>4. /\ UNCHANGED <<record, pc, event, canonical>>
        /\ refunds' = [refunds EXCEPT ![k] = [refunds[k] EXCEPT ![r] = status]]
        /\ refunds[k][r] # "succeeded"
        /\ status \in {"pending", "succeeded", "failed"}
    BY <2>3, RefundSteps
  <2>5. o = k /\ refunds'[o][r] = status
    BY <2>1, <2>4 DEF TypeOK
  <2>6. status = "succeeded"
    BY <2>4, <2>5 DEF FullyRefunded, Refund
  <2>7. Success(o, r) \notin sent /\ Success(o, r) \in Event
    BY <2>4, <2>5 DEF SuccessIsSent, Success, Event, EventType, RefundSucceeded
  <2>8. record[Success(o, r)] = "none"
    BY <2>7 DEF RecordsAreSent
  <2>9. \A h \in Handler : pc[h] = "commit" => event[h] # Success(o, r)
    BY <2>7 DEF ReadsAreTrue
  <2>10. Last(o, r)'
    BY <2>4, <2>5, <2>6, <2>8, <2>9 DEF Last, Success
  <2>11. QED BY <2>10
<1>3. QED BY <1>1, <1>2

\* Every step keeps accepted events reflected.
LEMMA EffectStep ==
    ASSUME IInv, [Next]_vars
    PROVE  AcceptedEventsTakeEffect'
<1>1. ASSUME NEW e \in Event, record'[e] = "accepted"
      PROVE  Reflected(e)'
  <2>1. CASE record[e] = "accepted"
    <3>1. Reflected(e)
      BY <2>1 DEF IInv, AcceptedEventsTakeEffect, Reflected
    <3>2. QED BY <3>1, ReflectedStable
  <2>2. CASE record[e] # "accepted"
    <3>1. PICK h \in Handler : AcceptStep(h) /\ Accepting(h)
      BY <1>1, <2>2, Recording DEF IInv, TypeOK
    <3>2. e = event[h]
      BY <1>1, <2>2, <3>1 DEF Accepting, IInv, TypeOK
    <3>3. QED BY <3>1, <3>2, AcceptReflects
  <2>3. QED BY <2>1, <2>2
<1>2. ASSUME NEW o \in Order, FullyRefunded(o)',
             \A r \in Refund : refunds'[o][r] = "succeeded" =>
                record'[Success(o, r)] = "accepted"
      PROVE  payment_state'[o] = "refunded"
  <2>1. PICK r \in Refund : Last(o, r)'
    BY <1>2, LastStep DEF RefundsHaveALast
  <2>2. QED BY <1>2, <2>1 DEF Last, Success
<1>3. QED BY <1>1, <1>2 DEF AcceptedEventsTakeEffect, Reflected, Success

-----------------------------------------------------------------------------
(* The theorems.                                                           *)

\* The initial state satisfies the inductive invariant.
LEMMA InitIInv == Init => IInv
<1> SUFFICES ASSUME Init PROVE IInv
  OBVIOUS
<1> USE DEF Init
<1>1. TypeOK
  BY DEF TypeOK, PaymentState, FulfillmentState, SessionState, RefundStatus, Steps
<1>2. SessionsAreBound /\ EventsAreTrue /\ ReadsAreTrue /\ RecordsAreSent
  BY DEF SessionsAreBound, EventsAreTrue, ReadsAreTrue, RecordsAreSent, Complete
<1>3. /\ \A o \in Order : ~FullyRefunded(o)
      /\ SuccessIsSent
  BY DEF FullyRefunded, SuccessIsSent, Refund
<1>4. LedgerIsTrue /\ WorkFollowsMoney
  BY DEF LedgerIsTrue, WorkFollowsMoney
<1>5. AcceptedEventsTakeEffect /\ RefundsHaveALast
  BY <1>3 DEF AcceptedEventsTakeEffect, RefundsHaveALast
<1>6. QED BY <1>1, <1>2, <1>3, <1>4, <1>5 DEF IInv

\* Every step preserves the inductive invariant.
LEMMA StepIInv == IInv /\ [Next]_vars => IInv'
<1> SUFFICES ASSUME IInv, [Next]_vars PROVE IInv'
  OBVIOUS
<1> QED
  BY TypeStep, BoundStep, SuccessStep, EventStep, ReadStep, RecordStep,
     LedgerStep, WorkStep, LastStep, EffectStep DEF IInv

\* IInv holds in every reachable state.
LEMMA Invariance == Spec => []IInv
BY InitIInv, StepIInv, PTL DEF Spec

\* Every variable keeps its type, and a dispatch row belongs to a job.
THEOREM TypeCorrect == Spec => []TypeOK
<1>1. IInv => TypeOK
  BY DEF IInv
<1>2. QED BY <1>1, Invariance, PTL

\* For any number of orders and concurrent webhook requests the payment state
\* is true at Stripe.
THEOREM LedgerIsSound == Spec => []LedgerIsTrue
<1>1. IInv => LedgerIsTrue
  BY DEF IInv
<1>2. QED BY <1>1, Invariance, PTL

\* No work without payment: ck_orders_paid_before_work is never violated.
THEOREM WorkIsPaid == Spec => []WorkFollowsMoney
<1>1. IInv => WorkFollowsMoney
  BY DEF IInv
<1>2. QED BY <1>1, Invariance, PTL

\* Duplicate, concurrent and reordered events end in the same payment state.
THEOREM EventsTakeEffect == Spec => []AcceptedEventsTakeEffect
<1>1. IInv => AcceptedEventsTakeEffect
  BY DEF IInv
<1>2. QED BY <1>1, Invariance, PTL

\* A payment, refund or dispute is rejected for good only when the Price of its
\* session is not the configured one.
THEOREM RejectionsExplained == Spec => OnlyRotationRejectsMoney
<1>1. IInv /\ [Next]_vars =>
        [\A e \in Event :
           record[e] # "rejected" /\ record'[e] = "rejected" =>
               e.type = "expired" \/ session_price[e.order] # price]_vars
  BY RejectionCause
<1>2. QED BY <1>1, Invariance, PTL DEF Spec, OnlyRotationRejectsMoney

\* The application never runs into the database's transition trigger.
THEOREM TriggerIsNeverHit == Spec => TriggerNeverRefuses
<1>1. ASSUME IInv, [Next]_vars, NEW o \in Order
      PROVE  TriggerAllows(o)
  <2>1. payment_state'[o] # payment_state[o] =>
          <<payment_state[o], payment_state'[o]>> \in PaymentTransitions
    BY <1>1, PaymentMoves
  <2>2. fulfillment_state'[o] # fulfillment_state[o] =>
          \/ /\ fulfillment_state[o] = "awaiting_payment"
             /\ fulfillment_state'[o] = "queued" /\ payment_state'[o] = "paid"
          \/ /\ fulfillment_state[o] # "awaiting_payment"
             /\ <<fulfillment_state[o], fulfillment_state'[o]>>
                   \in FulfillmentTransitions
    BY <1>1, WorkMoves DEF IInv, WorkFollowsMoney
  <2>3. QED
    BY <2>1, <2>2 DEF TriggerAllows, PaymentTransitions, FulfillmentTransitions
<1>2. IInv /\ [Next]_vars => [\A o \in Order : TriggerAllows(o)]_vars
  BY <1>1
<1>3. QED BY <1>2, Invariance, PTL DEF Spec, TriggerNeverRefuses

=============================================================================

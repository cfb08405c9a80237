------------------------------ MODULE MCPayment ------------------------------
(* Payment for TLC.                                                        *)
EXTENDS Payment, FiniteSets, TLC

CONSTANTS h1, h2, p1, p2

\* What Stripe still has to deliver again is read by the fairness conditions
\* only: any event that was sent may arrive.
SafetyView == <<bound, payment_state, fulfillment_state, jobs, pending, record,
                price, session, session_price, refunds, disputed, sent, pc,
                event, canonical, faults>>

\* Bound: at most one event is rejected and five are sent.
Bounded ==
    /\ Cardinality(sent) <= 5
    /\ Cardinality({e \in Event : record[e] = "rejected"}) <= 1

RequestSymmetry == Permutations(Handler) \cup Permutations(Price)

=============================================================================

----------------------------- MODULE OrderState -----------------------------
(***************************************************************************)
(* The states of an order and the transitions between them: the tables of  *)
(* app/domain/order.py, which the database trigger repeats.                *)
(***************************************************************************)

PaymentState == {"checkout_open", "processing", "paid", "failed", "expired",
                 "refunded", "disputed"}
FulfillmentState == {"awaiting_payment", "queued", "stamping",
                     "calendar_pending", "bitcoin_verified", "delivered",
                     "manual_review"}

\* Mutant: a disputed payment can no longer be refunded.
PaymentTransitions_dispute_final ==
    ({"checkout_open"} \X {"processing", "paid", "failed", "expired",
                           "refunded", "disputed"})
    \cup ({"processing"} \X {"paid", "failed", "expired", "refunded", "disputed"})
    \cup ({"paid"} \X {"refunded", "disputed"})

\* Mutant: a dispute that is won makes the order paid again.
PaymentTransitions_dispute_won ==
    ({"checkout_open"} \X {"processing", "paid", "failed", "expired",
                           "refunded", "disputed"})
    \cup ({"processing"} \X {"paid", "failed", "expired", "refunded", "disputed"})
    \cup ({"paid"} \X {"refunded", "disputed"})
    \cup ({"disputed"} \X {"refunded", "paid"})

PaymentTransitions ==
    ({"checkout_open"} \X {"processing", "paid", "failed", "expired",
                           "refunded", "disputed"})
    \cup ({"processing"} \X {"paid", "failed", "expired", "refunded", "disputed"})
    \cup ({"paid"} \X {"refunded", "disputed"})
    \cup ({"disputed"} \X {"refunded"})

FulfillmentTransitions ==
    ({"awaiting_payment"} \X {"queued", "manual_review"})
    \cup ({"queued"} \X {"stamping", "manual_review"})
    \cup ({"stamping"} \X {"calendar_pending", "manual_review"})
    \cup ({"calendar_pending"} \X {"bitcoin_verified", "manual_review"})
    \cup ({"bitcoin_verified"} \X {"delivered", "manual_review"})
    \cup ({"delivered"} \X {"manual_review"})

=============================================================================

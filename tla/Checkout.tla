------------------------------- MODULE Checkout -------------------------------
(***************************************************************************)
(* Opening a checkout for one idempotency key, and the status tokens of    *)
(* the order it makes.                                                     *)
(*                                                                         *)
(* A request reserves the key with a lease, asks Stripe in two calls and   *)
(* commits the answer; each is a step of its own, and requests with the    *)
(* same key and body interleave between them.  A lease ends at any time,   *)
(* also under a request that is still at work.  The price a process is     *)
(* configured with is fixed while it runs: a request keeps the one it      *)
(* began with.  A request with another body is refused and changes         *)
(* nothing, and so is one that meets a lease (425).                        *)
(*                                                                         *)
(* Rows are locked as the database does at read committed.  A replay locks *)
(* the key's row and the order's, and one that waits for a token another   *)
(* transaction holds goes on with the tokens it had found before it        *)
(* waited.  A new token refers to its order, so it is stored only when     *)
(* nobody else holds the order's row.  Of transactions that wait for each  *)
(* other the database ends one.                                            *)
(***************************************************************************)
EXTENDS Naturals, Sequences, FiniteSets

CONSTANTS
    Request,        \* checkout requests in progress at the same time
    Client,         \* token rotations in progress at the same time
    Price,          \* Stripe prices the service may be configured with
    MaxOrders,      \* bound: orders
    MaxLeases,      \* bound: leases given
    MaxTokens,      \* bound: tokens issued
    MaxSessions,    \* bound: sessions at Stripe
    None

VARIABLES
    reservation,    \* the idempotency_requests row of the key
    orders,         \* orders, in the order they were made
    tokens,         \* order_tokens, in the order they were issued
    leases,         \* leases given so far: the last one's id
    price,          \* the price new processes are configured with
    sessions,       \* Stripe: checkout sessions
    remembered,     \* Stripe: the session it made for the key, 0 when forgotten
    requests,       \* the locals of each request
    rotating,       \* by client, the token its transaction has locked
    answers,        \* what customers were told: order and session
    cleanups        \* rows that retention removed

db_vars == <<reservation, orders, tokens, leases>>
stripe_vars == <<sessions, remembered>>
vars == <<reservation, orders, tokens, leases, price, sessions, remembered,
          requests, rotating, answers, cleanups>>

Reservation == [order : Nat, state : {"processing", "completed"}, lease : Nat,
                expired : BOOLEAN, price : Price]
OrderRow == [price : Price, session : Nat, state : {"open", "paid", "refused"}]
Token == [order : Nat, live : BOOLEAN, replaces : Nat]
Session == [order : Nat, price : Price]
Locals == [step : {"price", "create", "finalize", "replay"}, order : Nat,
           price : Price, lease : Nat, config : Price, session : Nat,
           found : SUBSET Nat]

ASSUME ConstantsAssumption ==
    /\ MaxOrders \in Nat
    /\ MaxLeases \in Nat
    /\ MaxTokens \in Nat
    /\ MaxSessions \in Nat
    /\ None \notin Nat \cup Reservation \cup Locals

\* Every row, session and local has its type.
TypeOK ==
    /\ reservation \in Reservation \cup {None}
    /\ orders \in Seq(OrderRow)
    /\ tokens \in Seq(Token)
    /\ leases \in Nat
    /\ price \in Price
    /\ sessions \in Seq(Session)
    /\ remembered \in Nat
    /\ requests \in [Request -> Locals \cup {None}]
    /\ rotating \in [Client -> Nat]
    /\ answers \subseteq [order : Nat, session : Nat]
    /\ cleanups \in Nat

Init ==
    /\ reservation = None
    /\ orders = <<>>
    /\ tokens = <<>>
    /\ leases = 0
    /\ price \in Price
    /\ sessions = <<>>
    /\ remembered = 0
    /\ requests = [r \in Request |-> None]
    /\ rotating = [c \in Client |-> 0]
    /\ answers = {}
    /\ cleanups = 0

-----------------------------------------------------------------------------
(* Locks.                                                                  *)

\* A replay that waits holds the row of the key and of the order.
Waits(r) == requests[r] # None /\ requests[r].step = "replay"
KeyLocked == \E r \in Request : Waits(r)

\* Mutant: the replay reads the order without a lock.
OrderLocked_none(o) == FALSE

OrderLocked(o) == \E r \in Request : Waits(r) /\ requests[r].order = o
Locked(t) == \E c \in Client : rotating[c] = t
Live(o) == {t \in 1..Len(tokens) : tokens[t].order = o /\ tokens[t].live}

\* issue_token with revoke_existing: the rows that were found lose their
\* effect, and a new one follows the last.
IssueToken(o, found, replaces) ==
    tokens' = Append([t \in 1..Len(tokens) |->
                        [tokens[t] EXCEPT !.live = @ /\ t \notin found]],
                     [order |-> o, live |-> TRUE, replaces |-> replaces])

-----------------------------------------------------------------------------
(* CheckoutService._reserve.                                               *)

Begin(r, o, p) ==
    requests' = [requests EXCEPT ![r] =
        [step |-> "price", order |-> o, price |-> p, lease |-> leases + 1,
         config |-> price, session |-> 0, found |-> {}]]

\* Mutant: a key whose lease has ended counts as new.
KeyIsNew_expired == IF reservation = None THEN TRUE ELSE reservation.expired

\* find_idempotency, and the constraint on the key that makes one of two
\* requests begin again.
KeyIsNew == reservation = None

\* The key is new: an order and its reservation.
reserve(r) ==
    LET o == Len(orders) + 1
    IN  /\ requests[r] = None
        /\ KeyIsNew
        /\ o <= MaxOrders
        /\ leases < MaxLeases
        /\ orders' = Append(orders,
              [price |-> price, session |-> 0, state |-> "open"])
        /\ leases' = leases + 1
        /\ reservation' = [order |-> o, state |-> "processing",
              lease |-> leases + 1, expired |-> FALSE, price |-> price]
        /\ Begin(r, o, price)
        /\ UNCHANGED <<tokens, price, stripe_vars, rotating, answers, cleanups>>

Resumable(state) ==
    /\ reservation # None
    /\ reservation.state = state
    /\ reservation.expired
    /\ ~KeyLocked

\* Mutant: a new lease has no id.
Relet_unnamed == [reservation EXCEPT !.lease = None, !.expired = FALSE]

Relet == [reservation EXCEPT !.lease = leases + 1, !.expired = FALSE]

\* Mutant: the plan has the price configured now.
PlanPrice_configured == price

\* _plan: the price is the reserved one, whatever is configured now.
PlanPrice == reservation.price

\* An unfinished checkout is taken over from the reserved row.
resume(r) ==
    /\ requests[r] = None
    /\ Resumable("processing")
    /\ leases < MaxLeases
    /\ leases' = leases + 1
    /\ reservation' = Relet
    /\ Begin(r, reservation.order, PlanPrice)
    /\ UNCHANGED <<orders, tokens, price, stripe_vars, rotating, answers,
                   cleanups>>

Answer(o) == answers' = answers \cup
                 {[order |-> o, session |-> orders[o].session]}

\* A finished one is answered again with a new token.
replay(r) ==
    LET o == reservation.order
    IN  /\ requests[r] = None
        /\ Resumable("completed")
        /\ \A t \in Live(o) : ~Locked(t)
        /\ leases < MaxLeases
        /\ Len(tokens) < MaxTokens
        /\ leases' = leases + 1
        /\ reservation' = Relet
        /\ IssueToken(o, Live(o), 0)
        /\ Answer(o)
        /\ UNCHANGED <<orders, price, stripe_vars, requests, rotating, cleanups>>

\* One of the tokens it has found is locked by a rotation.
replay_waits(r) ==
    LET o == reservation.order
    IN  /\ requests[r] = None
        /\ Resumable("completed")
        /\ \E t \in Live(o) : Locked(t)
        /\ leases < MaxLeases
        /\ requests' = [requests EXCEPT ![r] =
              [step |-> "replay", order |-> o, price |-> reservation.price,
               lease |-> leases + 1, config |-> price,
               session |-> orders[o].session, found |-> Live(o)]]
        /\ UNCHANGED <<db_vars, price, stripe_vars, rotating, answers, cleanups>>

replay_goes_on(r) ==
    LET q == requests[r]
    IN  /\ Waits(r)
        /\ \A t \in q.found : ~Locked(t)
        /\ Len(tokens) < MaxTokens
        /\ leases' = leases + 1
        /\ reservation' = Relet
        /\ IssueToken(q.order, q.found, 0)
        /\ Answer(q.order)
        /\ requests' = [requests EXCEPT ![r] = None]
        /\ UNCHANGED <<orders, price, stripe_vars, rotating, cleanups>>

-----------------------------------------------------------------------------
(* CheckoutService._call_provider.                                         *)

At(r, step) == requests[r] # None /\ requests[r].step = step
Leave(r) == requests' = [requests EXCEPT ![r] = None]
Go(r, step) == requests' = [requests EXCEPT ![r].step = step]

\* Stripe's price is the configured one, and that must be the reserved one.
get_checkout_price(r) ==
    /\ At(r, "price")
    /\ IF requests[r].price = requests[r].config THEN Go(r, "create")
       ELSE Leave(r)
    /\ UNCHANGED <<db_vars, price, stripe_vars, rotating, answers, cleanups>>

\* Stripe repeats its answer to a key it remembers, if the parameters are the
\* same, and refuses it if they are not.
Asked(r) == [order |-> requests[r].order, price |-> requests[r].price]

MakesSession(r) ==
    LET new == remembered = 0
    IN  /\ At(r, "create")
        /\ IF new THEN Len(sessions) < MaxSessions
           ELSE sessions[remembered] = Asked(r)
        /\ sessions' = IF new THEN Append(sessions, Asked(r)) ELSE sessions
        /\ remembered' = IF new THEN Len(sessions) + 1 ELSE remembered
        /\ UNCHANGED <<db_vars, price, rotating, answers, cleanups>>

create_checkout(r) ==
    /\ MakesSession(r)
    /\ requests' = [requests EXCEPT ![r].step = "finalize",
                                    ![r].session = remembered']

\* The session is made and the answer is lost.
create_timeout(r) ==
    /\ MakesSession(r)
    /\ Leave(r)

\* A call fails, Stripe refuses the parameters, the process dies, or the
\* database ends a replay that waits.
fails(r) ==
    /\ requests[r] # None
    /\ Leave(r)
    /\ UNCHANGED <<db_vars, price, stripe_vars, rotating, answers, cleanups>>

-----------------------------------------------------------------------------
(* CheckoutService._finalize.                                              *)

HoldsLease(r) ==
    /\ reservation # None
    /\ reservation.order = requests[r].order
    /\ reservation.state = "processing"
    /\ reservation.lease = requests[r].lease
    /\ ~reservation.expired

\* Mutant: any unfinished reservation of the key will do.
MayFinalize_any(r) ==
    /\ reservation # None
    /\ reservation.state = "processing"

MayFinalize(r) ==
    /\ HoldsLease(r)
    /\ orders[requests[r].order].session \in {0, requests[r].session}

finalize(r) ==
    LET o == requests[r].order
    IN  /\ At(r, "finalize")
        /\ ~KeyLocked
        /\ MayFinalize(r)
        /\ Len(tokens) < MaxTokens
        /\ orders' = [orders EXCEPT ![o].session = requests[r].session]
        /\ IssueToken(o, {}, 0)
        /\ reservation' = [reservation EXCEPT !.state = "completed",
                                              !.expired = FALSE]
        /\ answers' = answers \cup
              {[order |-> o, session |-> requests[r].session]}
        /\ Leave(r)
        /\ UNCHANGED <<leases, price, stripe_vars, rotating, cleanups>>

finalize_refused(r) ==
    /\ At(r, "finalize")
    /\ ~KeyLocked
    /\ ~MayFinalize(r)
    /\ Leave(r)
    /\ UNCHANGED <<db_vars, price, stripe_vars, rotating, answers, cleanups>>

-----------------------------------------------------------------------------
(* rotate_token: authenticate locks the token, issue_token replaces it.    *)

\* Mutant: the token is read without a lock.
authenticate_unlocked(t) == tokens[t].live

authenticate(t) == tokens[t].live /\ ~Locked(t)

rotate_begin(c, t) ==
    /\ rotating[c] = 0
    /\ authenticate(t)
    /\ rotating' = [rotating EXCEPT ![c] = t]
    /\ UNCHANGED <<db_vars, price, stripe_vars, requests, answers, cleanups>>

rotate_end(c) ==
    LET t == rotating[c]
        o == tokens[t].order
    IN  /\ t # 0
        /\ ~OrderLocked(o)
        /\ \A u \in Live(o) \ {t} : ~Locked(u)
        /\ Len(tokens) < MaxTokens
        /\ IssueToken(o, Live(o), t)
        /\ rotating' = [rotating EXCEPT ![c] = 0]
        /\ UNCHANGED <<reservation, orders, leases, price, stripe_vars,
                       requests, answers, cleanups>>

rotate_fails(c) ==
    /\ rotating[c] # 0
    /\ rotating' = [rotating EXCEPT ![c] = 0]
    /\ UNCHANGED <<db_vars, price, stripe_vars, requests, answers, cleanups>>

-----------------------------------------------------------------------------
(* What happens around it.                                                 *)

lease_expires ==
    /\ reservation # None
    /\ ~reservation.expired
    /\ reservation' = [reservation EXCEPT !.expired = TRUE]
    /\ UNCHANGED <<orders, tokens, leases, price, stripe_vars, requests,
                   rotating, answers, cleanups>>

stripe_forgets ==
    /\ remembered # 0
    /\ remembered' = 0
    /\ UNCHANGED <<db_vars, price, sessions, requests, rotating, answers,
                   cleanups>>

\* cleanup_ephemeral_records with a cutoff after the reservation was made.
cleanup ==
    /\ reservation # None
    /\ ~KeyLocked
    /\ reservation' = None
    /\ cleanups' = cleanups + 1
    /\ UNCHANGED <<orders, tokens, leases, price, stripe_vars, requests,
                   rotating, answers>>

\* The service is deployed with another price.
deploy(p) ==
    /\ p # price
    /\ price' = p
    /\ UNCHANGED <<db_vars, stripe_vars, requests, rotating, answers, cleanups>>

\* _valid_binding's comparison with the price configured now.
PriceMatches(o) == sessions[orders[o].session].price = price

\* The customer pays the session he was sent to, and the webhook hears of it.
paid(o) ==
    /\ orders[o].session # 0
    /\ orders[o].state = "open"
    /\ orders' = [orders EXCEPT ![o].state =
                    IF PriceMatches(o) THEN "paid" ELSE "refused"]
    /\ UNCHANGED <<reservation, tokens, leases, price, stripe_vars, requests,
                   rotating, answers, cleanups>>

-----------------------------------------------------------------------------
Create(r) ==
    \/ reserve(r)
    \/ resume(r)
    \/ replay(r)
    \/ replay_waits(r)
    \/ replay_goes_on(r)
    \/ get_checkout_price(r)
    \/ create_checkout(r)
    \/ create_timeout(r)
    \/ fails(r)
    \/ finalize(r)
    \/ finalize_refused(r)

Rotate(c) ==
    \/ \E t \in 1..Len(tokens) : rotate_begin(c, t)
    \/ rotate_end(c)
    \/ rotate_fails(c)

Next ==
    \/ \E r \in Request : Create(r)
    \/ \E c \in Client : Rotate(c)
    \/ lease_expires
    \/ stripe_forgets
    \/ cleanup
    \/ \E p \in Price : deploy(p)
    \/ \E o \in 1..Len(orders) : paid(o)

Spec == Init /\ [][Next]_vars

-----------------------------------------------------------------------------
(* Properties.                                                             *)

\* A key makes one order for as long as its row is kept: requests that race
\* for it, take over its lease or come back later all find that order.
OneOrderPerKey ==
    /\ Len(orders) <= cleanups + 1
    /\ reservation # None => reservation.order = Len(orders)

\* Every answer for an order names one session, the one the order is bound to,
\* and Stripe made it for that order: leases that are taken over, answers that
\* are lost and keys Stripe has forgotten never send a customer to two.
OneSessionPerOrder ==
    /\ \A a \in answers : a.session # 0 /\ a.session = orders[a.order].session
    /\ \A o \in 1..Len(orders) :
          orders[o].session # 0 => sessions[orders[o].session].order = o

\* An order is bound to a session at the price it was reserved with, whatever
\* price was configured when a later request took over.
ReservedPriceKept ==
    \A o \in 1..Len(orders) :
        orders[o].session # 0 => sessions[orders[o].session].price = orders[o].price

\* One checkout for a key: one order, one session for it, at the price it was
\* reserved with, through races, takeovers, lost answers and price changes.
OneCheckoutPerKey ==
    /\ TypeOK
    /\ OneOrderPerKey
    /\ OneSessionPerOrder
    /\ ReservedPriceKept

\* Two rotations with one token never both succeed (authenticate for_update).
TokenReplacedOnce ==
    \A t, u \in 1..Len(tokens) :
        tokens[t].replaces = tokens[u].replaces /\ tokens[t].replaces # 0
            => t = u

\* At most one token of an order is valid: a rotation and a checkout that is
\* answered again never both leave theirs, though neither sees the other's
\* (issue_token, rotate_token, _replay).
OneLiveToken == \A o \in 1..Len(orders) : Cardinality(Live(o)) <= 1

\* A customer's tokens replace one another in a line, with one valid at its end.
TokensAreSingle == TokenReplacedOnce /\ OneLiveToken
=============================================================================

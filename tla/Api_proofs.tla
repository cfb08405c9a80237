------------------------------ MODULE Api_proofs ------------------------------
(***************************************************************************)
(* Proofs about the parts of the API process: checkouts and their tokens,  *)
(* the limits in front of every request, and the MetBull snapshot, each    *)
(* for all values of its constants, and about the composition of MCApi.    *)
(*                                                                         *)
(* A checkout acts on what it read several calls ago, so its invariant     *)
(* says what it may still rely on: the order and the price of its plan,    *)
(* the session Stripe has made for it and, while it waits for a rotation,  *)
(* that the tokens it found are still the live ones.                       *)
(***************************************************************************)
EXTENDS MCApi, FiniteSetTheorems, SequenceTheorems, TLAPS

-----------------------------------------------------------------------------
(* The inductive invariant.                                                *)

IsOrder(o) == o \in 1..Len(orders)

\* Stripe has made session s for order o at the order's own price.
MadeFor(s, o) ==
    /\ s \in 1..Len(sessions)
    /\ sessions[s] = [order |-> o, price |-> orders[o].price]

\* The row of the key belongs to the last order; before it is completed the
\* order has no token, and afterwards it has its session.
KeyRow ==
    reservation # None =>
        /\ IsOrder(reservation.order)
        /\ reservation.order = Len(orders)
        /\ reservation.price = orders[reservation.order].price
        /\ reservation.state = "completed" =>
              orders[reservation.order].session # 0
        /\ reservation.state = "processing" =>
              \A t \in 1..Len(tokens) : tokens[t].order # reservation.order

\* One order per row that was kept or removed.
OrdersCounted ==
    Len(orders) <= cleanups + (IF reservation = None THEN 0 ELSE 1)

SessionsBound ==
    \A o \in 1..Len(orders) :
        orders[o].session # 0 => MadeFor(orders[o].session, o)

AnswersBound ==
    \A a \in answers :
        /\ IsOrder(a.order)
        /\ a.session # 0
        /\ a.session = orders[a.order].session

\* What a request holds.
PlanHeld(r) ==
    requests[r] # None =>
        /\ IsOrder(requests[r].order)
        /\ requests[r].price = orders[requests[r].order].price
        /\ requests[r].step = "finalize" =>
              MadeFor(requests[r].session, requests[r].order)

\* What a replay that waits for a rotation holds: the key's row and the
\* order's are locked, so that nobody issues a token in between.
WaitHeld(r) ==
    Waits(r) =>
        /\ reservation # None
        /\ reservation.state = "completed"
        /\ reservation.order = requests[r].order
        /\ requests[r].found = Live(requests[r].order)

OneWaits == \A r, s \in Request : Waits(r) /\ Waits(s) => r = s

\* A rotation holds a live token of its own.
RotationHeld(c) ==
    rotating[c] # 0 =>
        /\ rotating[c] \in 1..Len(tokens)
        /\ tokens[rotating[c]].live
RotationsDiffer ==
    \A c, d \in Client :
        rotating[c] # 0 /\ rotating[c] = rotating[d] => c = d

\* Tokens belong to orders and replace an earlier token, which is dead.
TokenLine ==
    \A t \in 1..Len(tokens) :
        /\ IsOrder(tokens[t].order)
        /\ tokens[t].replaces # 0 =>
              /\ tokens[t].replaces \in 1..Len(tokens)
              /\ ~tokens[tokens[t].replaces].live

\* Two live tokens of one order are the same one.
LiveIsSingle ==
    \A t, u \in 1..Len(tokens) :
        (tokens[t].live /\ tokens[u].live /\ tokens[t].order = tokens[u].order)
            => t = u

CheckoutInv ==
    /\ TypeOK
    /\ remembered \in 0..Len(sessions)
    /\ KeyRow
    /\ OrdersCounted
    /\ SessionsBound
    /\ AnswersBound
    /\ \A r \in Request : PlanHeld(r)

TokenInv ==
    /\ \A r \in Request : WaitHeld(r)
    /\ OneWaits
    /\ \A c \in Client : RotationHeld(c)
    /\ RotationsDiffer
    /\ TokenLine
    /\ LiveIsSingle
    /\ TokenReplacedOnce

IInv == CheckoutInv /\ TokenInv

-----------------------------------------------------------------------------
(* Sequences of rows.                                                      *)

\* What a row appended to a table changes: it is the last, and no other.
LEMMA AppendRow ==
    ASSUME NEW S, NEW s \in Seq(S), NEW e \in S
    PROVE  /\ Append(s, e) \in Seq(S)
           /\ Len(Append(s, e)) = Len(s) + 1
           /\ Append(s, e)[Len(s) + 1] = e
           /\ \A i \in 1..Len(s) : Append(s, e)[i] = s[i]
BY AppendProperties

\* A new row of the key, and one whose lease or state is written, has its type;
\* a row is not the value that stands for none.
LEMMA RowMade ==
    ASSUME NEW o \in Nat, NEW l \in Nat, NEW p \in Price
    PROVE  [order |-> o, state |-> "processing", lease |-> l,
            expired |-> FALSE, price |-> p] \in Reservation
BY Zenon DEF Reservation

\* A lease, a state or an expiry is written in a row of the key.
LEMMA RowWritten ==
    ASSUME NEW v \in Reservation, NEW l \in Nat, NEW e \in BOOLEAN,
           NEW st \in {"processing", "completed"}
    PROVE  /\ [v EXCEPT !.lease = l, !.expired = e] \in Reservation
           /\ [v EXCEPT !.state = st, !.expired = e] \in Reservation
           /\ [v EXCEPT !.expired = e] \in Reservation
BY DEF Reservation

\* A new lease leaves the order, the state and the price of the row.
LEMMA RowRelet ==
    ASSUME TypeOK, reservation # None
    PROVE  /\ Relet \in Reservation /\ Relet # None
           /\ Relet.order = reservation.order
           /\ Relet.state = reservation.state
           /\ Relet.price = reservation.price
<1>1. reservation \in Reservation /\ leases + 1 \in Nat
  BY DEF TypeOK
<1>2. Relet \in Reservation
  BY <1>1, RowWritten, Zenon DEF Relet
<1>3. None \notin Reservation
  BY ConstantsAssumption, Zenon
<1>4. /\ Relet.order = reservation.order
      /\ Relet.state = reservation.state
      /\ Relet.price = reservation.price
  BY <1>1 DEF Relet, Reservation
<1> QED
  BY <1>2, <1>3, <1>4, Zenon

\* issue_token: the tokens that were found are dead, the others as before, and
\* one more is live.
LEMMA TokenIssued ==
    ASSUME TypeOK, NEW o \in Nat, NEW found, NEW p \in Nat,
           IssueToken(o, found, p)
    PROVE  /\ tokens' \in Seq(Token)
           /\ Len(tokens') = Len(tokens) + 1
           /\ \A t \in 1..Len(tokens) :
                 /\ tokens'[t].order = tokens[t].order
                 /\ tokens'[t].replaces = tokens[t].replaces
                 /\ tokens'[t].live <=> tokens[t].live /\ t \notin found
           /\ tokens'[Len(tokens) + 1] =
                 [order |-> o, live |-> TRUE, replaces |-> p]
<1> DEFINE old == [t \in 1..Len(tokens) |->
                     [tokens[t] EXCEPT !.live = @ /\ t \notin found]]
           new == [order |-> o, live |-> TRUE, replaces |-> p]
<1>1. tokens \in Seq(Token) /\ Len(tokens) \in Nat
  BY DEF TypeOK
<1>2. ASSUME NEW t \in 1..Len(tokens)
      PROVE  /\ old[t] \in Token
             /\ old[t].order = tokens[t].order
             /\ old[t].replaces = tokens[t].replaces
             /\ old[t].live <=> tokens[t].live /\ t \notin found
  <2>1. tokens[t] \in Token
    BY <1>1
  <2>2. old[t] = [tokens[t] EXCEPT !.live = @ /\ t \notin found]
    OBVIOUS
  <2>3. (tokens[t].live /\ t \notin found) \in BOOLEAN
    OBVIOUS
  <2> HIDE DEF old
  <2> QED
    BY <2>1, <2>2, <2>3 DEF Token
<1>3. old \in Seq(Token) /\ Len(old) = Len(tokens)
  <2>1. \A t \in 1..Len(tokens) : old[t] \in Token
    BY <1>2
  <2>2. old = [t \in 1..Len(tokens) |-> old[t]]
    OBVIOUS
  <2> HIDE DEF old
  <2> QED
    BY <2>1, <2>2, <1>1
<1>4. new \in Token
  BY DEF Token
<1>5. tokens' = Append(old, new)
  BY DEF IssueToken
<1> HIDE DEF old, new
<1>6. /\ tokens' \in Seq(Token)
      /\ Len(tokens') = Len(tokens) + 1
      /\ tokens'[Len(tokens) + 1] = new
      /\ \A t \in 1..Len(tokens) : tokens'[t] = old[t]
  BY <1>3, <1>4, <1>5, AppendRow
<1> QED
  BY <1>2, <1>6 DEF new

-----------------------------------------------------------------------------
(* What no step takes back: orders keep their price and, once they have    *)
(* it, their session; Stripe keeps every session.                          *)

OrdersGrow ==
    /\ Len(orders') >= Len(orders)
    /\ \A o \in 1..Len(orders) :
          /\ orders'[o].price = orders[o].price
          /\ orders[o].session # 0 => orders'[o].session = orders[o].session
SessionsGrow ==
    /\ Len(sessions') >= Len(sessions)
    /\ \A s \in 1..Len(sessions) : sessions'[s] = sessions[s]

\* Tables have a length.
LEMMA Lengths ==
    ASSUME TypeOK
    PROVE  /\ Len(orders) \in Nat
           /\ Len(tokens) \in Nat
           /\ Len(sessions) \in Nat
BY DEF TypeOK

\* The row of an order, and what it is bound to.
LEMMA SessionType ==
    ASSUME TypeOK, NEW o, IsOrder(o)
    PROVE  o \in Nat /\ orders[o] \in OrderRow /\ orders[o].session \in Nat
<1>1. o \in Nat /\ orders[o] \in OrderRow
  BY DEF TypeOK, IsOrder
<1> QED
  BY <1>1 DEF OrderRow

\* An order stays.
LEMMA OrderKept ==
    ASSUME TypeOK, TypeOK', OrdersGrow, NEW o, IsOrder(o)
    PROVE  IsOrder(o)'
<1>1. Len(orders) \in Nat /\ Len(orders') \in Nat
  BY DEF TypeOK
<1> QED
  BY <1>1 DEF OrdersGrow, IsOrder

\* A session that Stripe made for an order stays the order's.
LEMMA SessionKept ==
    ASSUME TypeOK, TypeOK', OrdersGrow, SessionsGrow,
           NEW o, IsOrder(o), NEW s, MadeFor(s, o)
    PROVE  (MadeFor(s, o))'
<1>1. Len(sessions) \in Nat /\ Len(sessions') \in Nat
  BY DEF TypeOK
<1> QED
  BY <1>1 DEF OrdersGrow, SessionsGrow, IsOrder, MadeFor

\* A request that is not touched holds its plan still.
LEMMA PlanKept ==
    ASSUME TypeOK, TypeOK', OrdersGrow, SessionsGrow,
           NEW r \in Request, requests'[r] = requests[r], PlanHeld(r)
    PROVE  PlanHeld(r)'
BY OrderKept, SessionKept DEF PlanHeld, OrdersGrow, IsOrder

\* Answers that were given stay right, and so does the binding of every order
\* that had one.
LEMMA AnswersKept ==
    ASSUME TypeOK, TypeOK', OrdersGrow, AnswersBound,
           \A a \in answers' : \/ a \in answers
                               \/ /\ IsOrder(a.order)'
                                  /\ a.session # 0
                                  /\ a.session = orders'[a.order].session
    PROVE  AnswersBound'
BY OrderKept DEF AnswersBound, OrdersGrow, IsOrder

\* An order is bound to what it was bound to, or to a session made for it.
LEMMA BindingsKept ==
    ASSUME TypeOK, TypeOK', OrdersGrow, SessionsGrow, SessionsBound,
           \A o \in 1..Len(orders') :
               orders'[o].session # 0 =>
                   \/ IsOrder(o) /\ orders'[o].session = orders[o].session
                   \/ (MadeFor(orders[o].session, o))'
    PROVE  SessionsBound'
<1> SUFFICES ASSUME NEW o \in 1..Len(orders'), orders'[o].session # 0
             PROVE  (MadeFor(orders[o].session, o))'
  BY DEF SessionsBound
<1>1. CASE IsOrder(o) /\ orders'[o].session = orders[o].session
  <2>1. MadeFor(orders[o].session, o)
    BY <1>1 DEF SessionsBound, IsOrder
  <2>2. Len(sessions) \in Nat /\ Len(sessions') \in Nat
    BY DEF TypeOK
  <2> QED
    BY <1>1, <2>1, <2>2 DEF MadeFor, OrdersGrow, SessionsGrow, IsOrder
<1> QED
  BY <1>1

-----------------------------------------------------------------------------
(* The order and its session.                                              *)

\* What is left to show of a step once it is known to take nothing back.
LEMMA CheckoutStep ==
    ASSUME CheckoutInv, TypeOK', OrdersGrow, SessionsGrow,
           remembered' \in 0..Len(sessions'), KeyRow', OrdersCounted',
           \A o \in 1..Len(orders') :
               orders'[o].session # 0 =>
                   \/ IsOrder(o) /\ orders'[o].session = orders[o].session
                   \/ (MadeFor(orders[o].session, o))',
           \A a \in answers' : \/ a \in answers
                               \/ /\ IsOrder(a.order)'
                                  /\ a.session # 0
                                  /\ a.session = orders'[a.order].session,
           \A r \in Request : requests'[r] = requests[r] \/ PlanHeld(r)'
    PROVE  CheckoutInv'
<1>1. SessionsBound'
  BY BindingsKept DEF CheckoutInv
<1>2. AnswersBound'
  BY AnswersKept DEF CheckoutInv
<1>3. \A r \in Request : PlanHeld(r)'
  BY PlanKept DEF CheckoutInv
<1> QED
  BY <1>1, <1>2, <1>3 DEF CheckoutInv

\* A step that leaves orders, sessions, tokens and the key's row alone, as most
\* do, has only its own request's plan to account for.
LEMMA LocalStep ==
    ASSUME CheckoutInv, TypeOK',
           UNCHANGED <<reservation, orders, tokens, sessions, remembered,
                       answers, cleanups>>,
           \A r \in Request : requests'[r] = requests[r] \/ PlanHeld(r)'
    PROVE  CheckoutInv'
<1>1. Len(orders) \in Nat /\ Len(sessions) \in Nat
  BY DEF CheckoutInv, TypeOK
<1>2. OrdersGrow /\ SessionsGrow
  BY <1>1 DEF OrdersGrow, SessionsGrow
<1>3. remembered' \in 0..Len(sessions') /\ KeyRow' /\ OrdersCounted'
  BY DEF CheckoutInv, KeyRow, OrdersCounted, IsOrder
<1>4. \A o \in 1..Len(orders') :
        IsOrder(o) /\ orders'[o].session = orders[o].session
  BY DEF IsOrder
<1> QED
  BY <1>2, <1>3, <1>4, CheckoutStep

\* Nothing is reserved at the start.
LEMMA CheckoutInit == Init => CheckoutInv
<1> SUFFICES ASSUME Init PROVE CheckoutInv
  OBVIOUS
<1>1. TypeOK
  BY DEF Init, TypeOK
<1>2. Len(orders) = 0 /\ Len(sessions) = 0
  BY DEF Init
<1> QED
  BY <1>1, <1>2 DEF Init, CheckoutInv, KeyRow, OrdersCounted, SessionsBound,
     AnswersBound, PlanHeld

\* A new key makes the next order and takes the price configured now.
LEMMA ReserveStep ==
    ASSUME CheckoutInv, TokenInv, NEW r \in Request, reserve(r)
    PROVE  CheckoutInv'
<1> DEFINE o == Len(orders) + 1
           row == [price |-> price, session |-> 0, state |-> "open"]
<1>1. /\ Len(orders) \in Nat /\ Len(sessions) \in Nat /\ leases \in Nat
      /\ price \in Price /\ orders \in Seq(OrderRow)
  BY DEF CheckoutInv, TypeOK
<1>2. row \in OrderRow
  BY <1>1 DEF OrderRow
<1>3. orders' = Append(orders, row)
  BY DEF reserve
<1>4. /\ orders' \in Seq(OrderRow)
      /\ Len(orders') = o
      /\ orders'[o] = row
      /\ \A i \in 1..Len(orders) : orders'[i] = orders[i]
  BY <1>1, <1>2, <1>3, AppendRow
<1>5. /\ reservation = None
      /\ reservation' = [order |-> o, state |-> "processing",
                         lease |-> leases + 1, expired |-> FALSE,
                         price |-> price]
      /\ requests' = [requests EXCEPT ![r] =
            [step |-> "price", order |-> o, price |-> price,
             lease |-> leases + 1, config |-> price, session |-> 0,
             found |-> {}]]
      /\ leases' = leases + 1
      /\ UNCHANGED <<tokens, price, sessions, remembered, rotating, answers,
                     cleanups>>
  BY DEF reserve, KeyIsNew, Begin, stripe_vars
<1>6. reservation' \in Reservation /\ reservation' # None
  <2>1. o \in Nat /\ leases + 1 \in Nat
    BY <1>1
  <2>2. reservation' \in Reservation
    BY <2>1, <1>1, <1>5, RowMade
  <2> QED
    BY <2>2, ConstantsAssumption
<1>7. [step |-> "price", order |-> o, price |-> price,
       lease |-> leases + 1, config |-> price, session |-> 0,
       found |-> {}] \in Locals
  BY <1>1 DEF Locals
<1> HIDE DEF row
<1>8. TypeOK'
  BY <1>4, <1>5, <1>6, <1>7, <1>1 DEF CheckoutInv, TypeOK
<1>9. OrdersGrow /\ SessionsGrow
  BY <1>1, <1>4, <1>5 DEF OrdersGrow, SessionsGrow
<1>10. orders'[o].price = price /\ orders'[o].session = 0
  BY <1>4 DEF row
<1>11. KeyRow'
  <2>1. \A t \in 1..Len(tokens) : tokens[t].order # o
    BY <1>1 DEF TokenInv, TokenLine, IsOrder
  <2> QED
    BY <2>1, <1>1, <1>4, <1>5, <1>10 DEF KeyRow, IsOrder
<1>12. OrdersCounted'
  <2>1. cleanups \in Nat
    BY DEF CheckoutInv, TypeOK
  <2> QED
    BY <2>1, <1>1, <1>4, <1>5, <1>6 DEF OrdersCounted, CheckoutInv
<1>13. PlanHeld(r)'
  BY <1>1, <1>4, <1>5, <1>10 DEF PlanHeld, IsOrder, CheckoutInv, TypeOK
<1>14. \A i \in 1..Len(orders') :
         orders'[i].session # 0 =>
             IsOrder(i) /\ orders'[i].session = orders[i].session
  BY <1>1, <1>4, <1>10 DEF IsOrder
<1>15. \A s \in Request : requests'[s] = requests[s] \/ PlanHeld(s)'
  BY <1>5, <1>13 DEF CheckoutInv, TypeOK
<1>16. remembered' \in 0..Len(sessions')
  BY <1>5 DEF CheckoutInv
<1> QED
  BY <1>5, <1>8, <1>9, <1>11, <1>12, <1>14, <1>15, <1>16, CheckoutStep

\* A takeover plans with the order and the price of the row.
LEMMA ResumeStep ==
    ASSUME CheckoutInv, NEW r \in Request, resume(r)
    PROVE  CheckoutInv'
<1>1. /\ reservation # None /\ reservation \in Reservation
      /\ leases \in Nat /\ price \in Price
      /\ Len(orders) \in Nat /\ Len(sessions) \in Nat
  BY DEF CheckoutInv, TypeOK, resume, Resumable
<1>2. /\ reservation' = [reservation EXCEPT !.lease = leases + 1,
                                            !.expired = FALSE]
      /\ requests' = [requests EXCEPT ![r] =
            [step |-> "price", order |-> reservation.order,
             price |-> reservation.price, lease |-> leases + 1,
             config |-> price, session |-> 0, found |-> {}]]
      /\ leases' = leases + 1
      /\ UNCHANGED <<orders, tokens, price, sessions, remembered, rotating,
                     answers, cleanups>>
  BY DEF resume, Begin, Relet, PlanPrice, stripe_vars
<1>3. /\ reservation' \in Reservation /\ reservation' # None
      /\ reservation'.order = reservation.order
      /\ reservation'.state = reservation.state
      /\ reservation'.price = reservation.price
  BY <1>1, <1>2, RowRelet DEF Relet, CheckoutInv
<1>4. [step |-> "price", order |-> reservation.order,
       price |-> reservation.price, lease |-> leases + 1,
       config |-> price, session |-> 0, found |-> {}] \in Locals
  BY <1>1 DEF Locals, Reservation
<1>5. TypeOK'
  BY <1>1, <1>2, <1>3, <1>4 DEF CheckoutInv, TypeOK
<1>6. OrdersGrow /\ SessionsGrow
  BY <1>1, <1>2 DEF OrdersGrow, SessionsGrow
<1>7. KeyRow' /\ OrdersCounted' /\ remembered' \in 0..Len(sessions')
  BY <1>1, <1>2, <1>3 DEF CheckoutInv, KeyRow, OrdersCounted, IsOrder
<1>8. PlanHeld(r)'
  BY <1>1, <1>2 DEF CheckoutInv, TypeOK, KeyRow, PlanHeld, IsOrder
<1>9. \A i \in 1..Len(orders') :
        IsOrder(i) /\ orders'[i].session = orders[i].session
  BY <1>2 DEF IsOrder
<1>10. \A s \in Request : requests'[s] = requests[s] \/ PlanHeld(s)'
  BY <1>2, <1>8 DEF CheckoutInv, TypeOK
<1> QED
  BY <1>2, <1>5, <1>6, <1>7, <1>9, <1>10, CheckoutStep

\* A finished checkout is answered again with the order's own session.
LEMMA ReplayedStep ==
    ASSUME CheckoutInv, TypeOK', reservation # None,
           reservation.state = "completed",
           reservation' = Relet, leases' = leases + 1,
           Answer(reservation.order),
           UNCHANGED <<orders, sessions, remembered, cleanups>>,
           \A r \in Request : requests'[r] = requests[r] \/ requests'[r] = None
    PROVE  CheckoutInv'
<1>1. /\ reservation \in Reservation /\ leases \in Nat
      /\ Len(orders) \in Nat /\ Len(sessions) \in Nat
  BY DEF CheckoutInv, TypeOK
<1>2. /\ reservation' \in Reservation /\ reservation' # None
      /\ reservation'.order = reservation.order
      /\ reservation'.state = "completed"
      /\ reservation'.price = reservation.price
  BY RowRelet DEF CheckoutInv
<1>3. OrdersGrow /\ SessionsGrow
  BY <1>1 DEF OrdersGrow, SessionsGrow
<1>4. KeyRow' /\ OrdersCounted' /\ remembered' \in 0..Len(sessions')
  BY <1>1, <1>2 DEF CheckoutInv, KeyRow, OrdersCounted, IsOrder
<1>5. \A a \in answers' :
        \/ a \in answers
        \/ /\ IsOrder(a.order)'
           /\ a.session # 0
           /\ a.session = orders'[a.order].session
  BY DEF Answer, CheckoutInv, KeyRow, IsOrder
<1>6. \A i \in 1..Len(orders') :
        IsOrder(i) /\ orders'[i].session = orders[i].session
  BY DEF IsOrder
<1>7. \A s \in Request : requests'[s] = requests[s] \/ PlanHeld(s)'
  BY DEF PlanHeld
<1> QED
  BY <1>3, <1>4, <1>5, <1>6, <1>7, CheckoutStep

\* _replay, when no token is locked.
LEMMA ReplayStep ==
    ASSUME CheckoutInv, NEW r \in Request, replay(r)
    PROVE  CheckoutInv'
<1> DEFINE o == reservation.order
<1>1. /\ reservation # None /\ reservation \in Reservation
      /\ reservation.state = "completed"
      /\ leases \in Nat
  BY DEF CheckoutInv, TypeOK, replay, Resumable
<1>2. o \in Nat /\ orders[o].session \in Nat
  BY <1>1, SessionType DEF CheckoutInv, KeyRow
<1>3. tokens' \in Seq(Token)
  BY <1>2, TokenIssued DEF CheckoutInv, replay
<1>4. reservation' \in Reservation
  BY <1>1, RowRelet DEF replay, CheckoutInv
<1>5. TypeOK'
  BY <1>1, <1>2, <1>3, <1>4 DEF CheckoutInv, TypeOK, replay, Answer, stripe_vars
<1> QED
  BY <1>1, <1>5, ReplayedStep DEF replay, stripe_vars

\* _replay, after it has waited for a rotation.
LEMMA ReplayGoesOnStep ==
    ASSUME CheckoutInv, TokenInv, NEW r \in Request, replay_goes_on(r)
    PROVE  CheckoutInv'
<1> DEFINE o == requests[r].order
<1>1. /\ reservation # None /\ reservation \in Reservation
      /\ reservation.state = "completed" /\ reservation.order = o
      /\ leases \in Nat
  BY DEF CheckoutInv, TypeOK, replay_goes_on, TokenInv, WaitHeld
<1>2. o \in Nat /\ orders[o].session \in Nat
  BY <1>1, SessionType DEF CheckoutInv, KeyRow
<1>3. tokens' \in Seq(Token)
  BY <1>2, TokenIssued DEF CheckoutInv, replay_goes_on
<1>4. reservation' \in Reservation
  BY <1>1, RowRelet DEF replay_goes_on, CheckoutInv
<1>5. TypeOK'
  BY <1>1, <1>2, <1>3, <1>4 DEF CheckoutInv, TypeOK, replay_goes_on, Answer,
     stripe_vars
<1>6. \A s \in Request : requests'[s] = requests[s] \/ requests'[s] = None
  BY DEF CheckoutInv, TypeOK, replay_goes_on
<1> QED
  BY <1>1, <1>5, <1>6, ReplayedStep DEF replay_goes_on, stripe_vars

\* A replay that has to wait holds the order of the row.
LEMMA ReplayWaitsStep ==
    ASSUME CheckoutInv, NEW r \in Request, replay_waits(r)
    PROVE  CheckoutInv'
<1> DEFINE o == reservation.order
           q == [step |-> "replay", order |-> o, price |-> reservation.price,
                 lease |-> leases + 1, config |-> price,
                 session |-> orders[o].session, found |-> Live(o)]
<1>1. /\ reservation # None /\ reservation \in Reservation
      /\ leases \in Nat /\ price \in Price
  BY DEF CheckoutInv, TypeOK, replay_waits, Resumable
<1>2. /\ IsOrder(o) /\ reservation.price = orders[o].price
      /\ o \in Nat /\ orders[o].session \in Nat
  BY <1>1, SessionType DEF CheckoutInv, KeyRow
<1>3. Live(o) \subseteq Nat
  BY DEF Live, CheckoutInv, TypeOK
<1>4. reservation.price \in Price
  BY <1>1 DEF Reservation
<1>5. q \in Locals
  BY <1>1, <1>2, <1>3, <1>4 DEF Locals
<1>6. /\ requests' = [requests EXCEPT ![r] = q]
      /\ UNCHANGED <<reservation, orders, tokens, leases, price, sessions,
                     remembered, rotating, answers, cleanups>>
  BY DEF replay_waits, db_vars, stripe_vars
<1>7. q.order = o /\ q.price = reservation.price /\ q.step = "replay"
  OBVIOUS
<1> HIDE DEF q
<1>8. TypeOK'
  BY <1>5, <1>6 DEF CheckoutInv, TypeOK
<1>9. PlanHeld(r)'
  BY <1>2, <1>6, <1>7 DEF PlanHeld, IsOrder, CheckoutInv, TypeOK
<1>10. \A s \in Request : requests'[s] = requests[s] \/ PlanHeld(s)'
  BY <1>6, <1>9 DEF CheckoutInv, TypeOK
<1> QED
  BY <1>6, <1>8, <1>10, LocalStep

\* A request that ends, for whatever reason, holds nothing.
LEMMA LeaveStep ==
    ASSUME CheckoutInv, NEW r \in Request, Leave(r),
           UNCHANGED <<reservation, orders, tokens, leases, price, sessions,
                       remembered, rotating, answers, cleanups>>
    PROVE  CheckoutInv'
<1>1. TypeOK'
  BY DEF CheckoutInv, TypeOK, Leave
<1>2. \A s \in Request : requests'[s] = requests[s] \/ PlanHeld(s)'
  BY DEF CheckoutInv, TypeOK, Leave, PlanHeld
<1> QED
  BY <1>1, <1>2, LocalStep

\* get_checkout_price: the request goes on, or ends.
LEMMA PriceStep ==
    ASSUME CheckoutInv, NEW r \in Request, get_checkout_price(r)
    PROVE  CheckoutInv'
<1>1. UNCHANGED <<reservation, orders, tokens, leases, price, sessions,
                  remembered, rotating, answers, cleanups>>
  BY DEF get_checkout_price, db_vars, stripe_vars
<1>2. CASE Leave(r)
  BY <1>1, <1>2, LeaveStep
<1>3. CASE Go(r, "create")
  <2>1. requests[r] \in Locals
    BY DEF CheckoutInv, TypeOK, get_checkout_price, At
  <2>2. /\ requests'[r] = [requests[r] EXCEPT !.step = "create"]
        /\ requests' = [requests EXCEPT ![r] = requests'[r]]
    BY <1>3 DEF Go, CheckoutInv, TypeOK
  <2>3. /\ requests'[r] \in Locals
        /\ requests'[r].order = requests[r].order
        /\ requests'[r].price = requests[r].price
        /\ requests'[r].step = "create"
    BY <2>1, <2>2 DEF Locals
  <2>4. TypeOK'
    BY <1>1, <2>2, <2>3 DEF CheckoutInv, TypeOK
  <2>5. PlanHeld(r)'
    BY <1>1, <2>3 DEF CheckoutInv, PlanHeld, IsOrder, get_checkout_price, At
  <2>6. \A s \in Request : requests'[s] = requests[s] \/ PlanHeld(s)'
    BY <2>2, <2>5 DEF CheckoutInv, TypeOK
  <2> QED
    BY <1>1, <2>4, <2>6, LocalStep
<1> QED
  BY <1>2, <1>3 DEF get_checkout_price

\* Stripe's session is for the order and the price of the plan, whether it is
\* made now or was remembered.
LEMMA SessionMade ==
    ASSUME CheckoutInv, NEW r \in Request, MakesSession(r)
    PROVE  /\ SessionsGrow
           /\ sessions' \in Seq(Session)
           /\ remembered' \in 1..Len(sessions')
           /\ sessions'[remembered'] = Asked(r)
<1>1. /\ requests[r] \in Locals /\ sessions \in Seq(Session)
      /\ Len(sessions) \in Nat /\ remembered \in 0..Len(sessions)
  BY DEF CheckoutInv, TypeOK, MakesSession, At
<1>2. Asked(r) \in Session
  BY <1>1 DEF Asked, Session, Locals
<1>3. CASE remembered = 0
  <2>1. sessions' = Append(sessions, Asked(r)) /\ remembered' = Len(sessions) + 1
    BY <1>3 DEF MakesSession
  <2>2. /\ sessions' \in Seq(Session)
        /\ Len(sessions') = Len(sessions) + 1
        /\ sessions'[Len(sessions) + 1] = Asked(r)
        /\ \A i \in 1..Len(sessions) : sessions'[i] = sessions[i]
    BY <2>1, <1>1, <1>2, AppendRow
  <2> QED
    BY <2>1, <2>2, <1>1 DEF SessionsGrow
<1>4. CASE remembered # 0
  <2>1. /\ sessions' = sessions /\ remembered' = remembered
        /\ sessions[remembered] = Asked(r)
    BY <1>4 DEF MakesSession
  <2> QED
    BY <2>1, <1>1, <1>4 DEF SessionsGrow
<1> QED
  BY <1>3, <1>4

\* create_checkout, whether its answer arrives or is lost.
LEMMA CreateStep ==
    ASSUME CheckoutInv, NEW r \in Request,
           create_checkout(r) \/ create_timeout(r)
    PROVE  CheckoutInv'
<1>1. MakesSession(r)
  BY DEF create_checkout, create_timeout
<1>2. /\ SessionsGrow
      /\ sessions' \in Seq(Session)
      /\ remembered' \in 1..Len(sessions') /\ remembered' \in Nat
      /\ sessions'[remembered'] = Asked(r)
  BY <1>1, SessionMade
<1>3. UNCHANGED <<reservation, orders, tokens, leases, price, rotating, answers,
                  cleanups>>
  BY <1>1 DEF MakesSession, db_vars
<1>4. /\ requests[r] \in Locals /\ requests[r] # None
      /\ Len(orders) \in Nat /\ Len(sessions') \in Nat
      /\ IsOrder(requests[r].order)
      /\ requests[r].price = orders[requests[r].order].price
  BY <1>1, <1>2 DEF CheckoutInv, TypeOK, MakesSession, At, PlanHeld
<1>5. \/ requests' = [requests EXCEPT ![r] = None]
      \/ requests' = [requests EXCEPT ![r] =
            [requests[r] EXCEPT !.step = "finalize", !.session = remembered']]
  BY DEF create_checkout, create_timeout, Leave
<1>6. ASSUME requests' = [requests EXCEPT ![r] = None]
      PROVE  TypeOK' /\ PlanHeld(r)'
  <2>1. TypeOK'
    BY <1>2, <1>3, <1>4, <1>6 DEF CheckoutInv, TypeOK
  <2>2. PlanHeld(r)'
    BY <1>6 DEF PlanHeld, CheckoutInv, TypeOK
  <2> QED
    BY <2>1, <2>2
<1>7. ASSUME requests' = [requests EXCEPT ![r] =
            [requests[r] EXCEPT !.step = "finalize", !.session = remembered']]
      PROVE  TypeOK' /\ PlanHeld(r)'
  <2>1. requests'[r] =
          [requests[r] EXCEPT !.step = "finalize", !.session = remembered']
    BY <1>7 DEF CheckoutInv, TypeOK
  <2>2. /\ requests'[r] \in Locals
        /\ requests'[r].order = requests[r].order
        /\ requests'[r].price = requests[r].price
        /\ requests'[r].session = remembered'
    BY <2>1, <1>2, <1>4 DEF Locals
  <2>3. TypeOK'
    BY <1>2, <1>3, <1>4, <1>7, <2>1, <2>2 DEF CheckoutInv, TypeOK
  <2>4. sessions'[requests'[r].session] =
          [order |-> requests'[r].order,
           price |-> orders'[requests'[r].order].price]
    BY <1>2, <1>3, <1>4, <2>2 DEF Asked
  <2>5. PlanHeld(r)'
    BY <2>2, <2>4, <1>2, <1>3, <1>4 DEF PlanHeld, MadeFor, IsOrder
  <2> QED
    BY <2>3, <2>5
<1>8. TypeOK' /\ PlanHeld(r)'
  BY <1>5, <1>6, <1>7
<1>9. OrdersGrow
  BY <1>3, <1>4 DEF OrdersGrow
<1>10. KeyRow' /\ OrdersCounted' /\ remembered' \in 0..Len(sessions')
  BY <1>2, <1>3, <1>4 DEF CheckoutInv, KeyRow, OrdersCounted, IsOrder
<1>11. \A o \in 1..Len(orders') :
         IsOrder(o) /\ orders'[o].session = orders[o].session
  BY <1>3 DEF IsOrder
<1>12. \A s \in Request : requests'[s] = requests[s] \/ PlanHeld(s)'
  BY <1>5, <1>8 DEF CheckoutInv, TypeOK
<1> QED
  BY <1>2, <1>3, <1>8, <1>9, <1>10, <1>11, <1>12, CheckoutStep

\* The order is bound to the session of the request that holds the lease; it
\* had none, or the same one.
LEMMA FinalizeStep ==
    ASSUME CheckoutInv, NEW r \in Request, finalize(r)
    PROVE  CheckoutInv'
<1> DEFINE o == requests[r].order
           x == requests[r].session
           row == [orders[o] EXCEPT !.session = x]
<1>1. /\ requests[r] \in Locals /\ requests[r] # None
      /\ requests[r].step = "finalize"
      /\ reservation # None /\ reservation \in Reservation
      /\ reservation.order = o /\ reservation.state = "processing"
      /\ orders[o].session \in {0, x}
  BY DEF CheckoutInv, TypeOK, finalize, At, MayFinalize, HoldsLease
<1>2. /\ IsOrder(o) /\ MadeFor(x, o)
      /\ requests[r].price = orders[o].price
  BY <1>1 DEF CheckoutInv, PlanHeld
<1>3. /\ o \in Nat /\ orders[o] \in OrderRow /\ x \in Nat /\ x # 0
      /\ orders \in Seq(OrderRow) /\ Len(orders) \in Nat
      /\ Len(sessions) \in Nat /\ o \in 1..Len(orders)
  BY <1>1, <1>2, SessionType DEF CheckoutInv, TypeOK, MadeFor, IsOrder
<1>4. row \in OrderRow /\ row.session = x /\ row.price = orders[o].price
  BY <1>3 DEF OrderRow
<1>5. orders' = [orders EXCEPT ![o] = row]
  BY DEF finalize
<1> HIDE DEF row
<1>6. /\ orders' \in Seq(OrderRow) /\ Len(orders') = Len(orders)
      /\ orders'[o] = row
      /\ \A i \in 1..Len(orders) : i # o => orders'[i] = orders[i]
  BY <1>3, <1>4, <1>5, ExceptSeq
<1>7. /\ UNCHANGED <<leases, price, sessions, remembered, rotating, cleanups>>
      /\ requests' = [requests EXCEPT ![r] = None]
      /\ answers' = answers \cup {[order |-> o, session |-> x]}
      /\ reservation' = [reservation EXCEPT !.state = "completed",
                                            !.expired = FALSE]
      /\ IssueToken(o, {}, 0)
  BY DEF finalize, Leave, stripe_vars
<1>8. reservation' \in Reservation /\ reservation' # None
  <2>1. reservation.lease \in Nat
    BY <1>1 DEF Reservation
  <2>2. reservation' \in Reservation
    BY <1>1, <1>7, <2>1, RowWritten, Zenon
  <2> QED
    BY <2>2, ConstantsAssumption
<1>9. /\ reservation'.order = o /\ reservation'.state = "completed"
      /\ reservation'.price = reservation.price
  BY <1>1, <1>7, Zenon DEF Reservation
<1>10. tokens' \in Seq(Token)
  BY <1>3, <1>7, TokenIssued DEF CheckoutInv
<1>11. TypeOK'
  <2>1. [order |-> o, session |-> x] \in [order : Nat, session : Nat]
    BY <1>3
  <2> QED
    BY <1>6, <1>7, <1>8, <1>10, <2>1 DEF CheckoutInv, TypeOK
<1>12. OrdersGrow /\ SessionsGrow
  BY <1>1, <1>3, <1>4, <1>6, <1>7 DEF OrdersGrow, SessionsGrow
<1>13. KeyRow'
  BY <1>1, <1>3, <1>4, <1>6, <1>8, <1>9 DEF CheckoutInv, KeyRow, IsOrder
<1>14. OrdersCounted' /\ remembered' \in 0..Len(sessions')
  BY <1>1, <1>6, <1>7, <1>8 DEF CheckoutInv, OrdersCounted
<1>15. /\ orders'[o].session \in 1..Len(sessions')
       /\ sessions'[orders'[o].session] =
             [order |-> o, price |-> orders'[o].price]
  BY <1>2, <1>3, <1>4, <1>6, <1>7 DEF MadeFor
<1>16. \A i \in 1..Len(orders') :
         \/ IsOrder(i) /\ orders'[i].session = orders[i].session
         \/ (MadeFor(orders[i].session, i))'
  BY <1>3, <1>6, <1>15 DEF IsOrder, MadeFor
<1>17. \A a \in answers' :
         \/ a \in answers
         \/ /\ IsOrder(a.order)'
            /\ a.session # 0
            /\ a.session = orders'[a.order].session
  BY <1>3, <1>4, <1>6, <1>7 DEF IsOrder
<1>18. \A s \in Request : requests'[s] = requests[s] \/ PlanHeld(s)'
  BY <1>7 DEF CheckoutInv, TypeOK, PlanHeld
<1> QED
  BY <1>11, <1>12, <1>13, <1>14, <1>16, <1>17, <1>18, CheckoutStep

\* A rotation issues its token for an order that had one before, so not for
\* one whose checkout is unfinished.
LEMMA RotateEndStep ==
    ASSUME CheckoutInv, TokenInv, NEW c \in Client, rotate_end(c)
    PROVE  CheckoutInv'
<1>u. PICK u : u = rotating[c]
  OBVIOUS
<1>o. PICK o : o = tokens[u].order
  OBVIOUS
<1>1. /\ u \in 1..Len(tokens) /\ u \in Nat /\ IsOrder(o)
      /\ Len(orders) \in Nat /\ Len(tokens) \in Nat /\ Len(sessions) \in Nat
  BY <1>u, <1>o DEF CheckoutInv, TypeOK, TokenInv, RotationHeld, TokenLine,
     rotate_end
<1>2. o \in Nat /\ TypeOK
  BY <1>1, SessionType DEF CheckoutInv
<1>3. IssueToken(o, Live(o), u)
  BY <1>u, <1>o DEF rotate_end
<1>4. /\ tokens' \in Seq(Token)
      /\ Len(tokens') = Len(tokens) + 1
      /\ \A t \in 1..Len(tokens) : tokens'[t].order = tokens[t].order
      /\ tokens'[Len(tokens) + 1].order = o
  <2>1. /\ tokens' \in Seq(Token)
        /\ Len(tokens') = Len(tokens) + 1
        /\ \A t \in 1..Len(tokens) : tokens'[t].order = tokens[t].order
        /\ tokens'[Len(tokens) + 1] =
              [order |-> o, live |-> TRUE, replaces |-> u]
    BY <1>1, <1>2, <1>3, TokenIssued
  <2> QED
    BY <2>1
<1>5. /\ UNCHANGED <<reservation, orders, leases, price, sessions, remembered,
                     requests, answers, cleanups>>
      /\ rotating' = [rotating EXCEPT ![c] = 0]
  BY DEF rotate_end, stripe_vars
<1>6. TypeOK'
  BY <1>4, <1>5 DEF CheckoutInv, TypeOK
<1>7. OrdersGrow /\ SessionsGrow
  BY <1>1, <1>5 DEF OrdersGrow, SessionsGrow
<1>8. KeyRow'
  <2> SUFFICES ASSUME reservation # None, reservation.state = "processing",
                      NEW t \in 1..Len(tokens')
               PROVE  tokens'[t].order # reservation.order
    BY <1>5 DEF CheckoutInv, KeyRow, IsOrder
  <2>1. \A v \in 1..Len(tokens) : tokens[v].order # reservation.order
    BY DEF CheckoutInv, KeyRow
  <2>2. t \in 1..Len(tokens) \/ t = Len(tokens) + 1
    BY <1>1, <1>4
  <2> QED
    BY <1>1, <1>o, <1>4, <2>1, <2>2
<1>9. OrdersCounted' /\ remembered' \in 0..Len(sessions')
  BY <1>5 DEF CheckoutInv, OrdersCounted
<1>10. \A i \in 1..Len(orders') :
         IsOrder(i) /\ orders'[i].session = orders[i].session
  BY <1>5 DEF IsOrder
<1> QED
  BY <1>5, <1>6, <1>7, <1>8, <1>9, <1>10, CheckoutStep

\* rotate_token does not touch orders and sessions.
LEMMA RotateStep ==
    ASSUME CheckoutInv, TokenInv, NEW c \in Client, Rotate(c)
    PROVE  CheckoutInv'
<1>1. CASE \/ \E t \in 1..Len(tokens) : rotate_begin(c, t)
           \/ rotate_fails(c)
  <2>1. /\ UNCHANGED <<reservation, orders, tokens, leases, price, sessions,
                       remembered, requests, answers, cleanups>>
        /\ \E t \in 0..Len(tokens) : rotating' = [rotating EXCEPT ![c] = t]
    <3>1. Len(tokens) \in Nat
      BY DEF CheckoutInv, TypeOK
    <3> QED
      BY <1>1, <3>1 DEF rotate_begin, rotate_fails, db_vars, stripe_vars
  <2>2. TypeOK'
    BY <2>1 DEF CheckoutInv, TypeOK
  <2> QED
    BY <2>1, <2>2, LocalStep
<1> QED
  BY <1>1, RotateEndStep DEF Rotate

\* A lease that ends leaves the row to the next request.
LEMMA ExpiryStep ==
    ASSUME CheckoutInv, lease_expires
    PROVE  CheckoutInv'
<1>1. /\ reservation # None /\ reservation \in Reservation
      /\ reservation.lease \in Nat
      /\ Len(orders) \in Nat /\ Len(sessions) \in Nat
  BY DEF CheckoutInv, TypeOK, Reservation, lease_expires
<1>2. /\ reservation' = [reservation EXCEPT !.expired = TRUE]
      /\ UNCHANGED <<orders, tokens, leases, price, sessions, remembered,
                     requests, rotating, answers, cleanups>>
  BY DEF lease_expires, stripe_vars
<1>3. reservation' \in Reservation
  BY <1>1, <1>2, RowWritten, Zenon
<1>4. /\ reservation'.order = reservation.order
      /\ reservation'.state = reservation.state
      /\ reservation'.price = reservation.price
  BY <1>1, <1>2, Zenon DEF Reservation
<1>5. reservation' # None
  BY <1>3, ConstantsAssumption
<1>6. TypeOK'
  BY <1>2, <1>3 DEF CheckoutInv, TypeOK
<1>7. OrdersGrow /\ SessionsGrow
  BY <1>1, <1>2 DEF OrdersGrow, SessionsGrow
<1>8. KeyRow' /\ OrdersCounted' /\ remembered' \in 0..Len(sessions')
  BY <1>1, <1>2, <1>4, <1>5 DEF CheckoutInv, KeyRow, OrdersCounted, IsOrder
<1>9. \A i \in 1..Len(orders') :
        IsOrder(i) /\ orders'[i].session = orders[i].session
  BY <1>2 DEF IsOrder
<1> QED
  BY <1>2, <1>6, <1>7, <1>8, <1>9, CheckoutStep

\* Stripe forgets a key, the row of the key is removed, or the service is
\* deployed with another price.
LEMMA AroundStep ==
    ASSUME CheckoutInv,
           stripe_forgets \/ cleanup \/ \E p \in Price : deploy(p)
    PROVE  CheckoutInv'
<1>1. /\ Len(orders) \in Nat /\ Len(sessions) \in Nat /\ cleanups \in Nat
  BY DEF CheckoutInv, TypeOK
<1>2. UNCHANGED <<orders, tokens, leases, sessions, requests, rotating, answers>>
  BY DEF stripe_forgets, cleanup, deploy, db_vars, stripe_vars
<1>3. /\ remembered' = remembered \/ remembered' = 0
      /\ price' \in Price
      /\ \/ reservation' = reservation /\ cleanups' = cleanups
         \/ reservation # None /\ reservation' = None /\ cleanups' = cleanups + 1
  BY DEF stripe_forgets, cleanup, deploy, db_vars, stripe_vars, CheckoutInv, TypeOK
<1>4. TypeOK'
  BY <1>1, <1>2, <1>3 DEF CheckoutInv, TypeOK
<1>5. OrdersGrow /\ SessionsGrow
  BY <1>1, <1>2 DEF OrdersGrow, SessionsGrow
<1>6. KeyRow' /\ remembered' \in 0..Len(sessions')
  BY <1>1, <1>2, <1>3 DEF CheckoutInv, KeyRow, IsOrder
<1>7. OrdersCounted'
  BY <1>1, <1>2, <1>3 DEF CheckoutInv, OrdersCounted
<1>8. \A i \in 1..Len(orders') :
        IsOrder(i) /\ orders'[i].session = orders[i].session
  BY <1>2 DEF IsOrder
<1> QED
  BY <1>2, <1>4, <1>5, <1>6, <1>7, <1>8, CheckoutStep

\* The webhook writes the state of an order and leaves its session and price.
LEMMA PaidStep ==
    ASSUME CheckoutInv, NEW o \in 1..Len(orders), paid(o)
    PROVE  CheckoutInv'
<1> DEFINE st == IF PriceMatches(o) THEN "paid" ELSE "refused"
           row == [orders[o] EXCEPT !.state = st]
<1>1. /\ orders \in Seq(OrderRow) /\ Len(orders) \in Nat
      /\ Len(sessions) \in Nat /\ orders[o] \in OrderRow
  BY DEF CheckoutInv, TypeOK
<1>2. st \in {"paid", "refused"}
  OBVIOUS
<1>3. orders' = [orders EXCEPT ![o] = row]
  BY DEF paid
<1> HIDE DEF st
<1>4. /\ row \in OrderRow /\ row.session = orders[o].session
      /\ row.price = orders[o].price
  BY <1>1, <1>2 DEF OrderRow
<1> HIDE DEF row
<1>5. /\ orders' \in Seq(OrderRow) /\ Len(orders') = Len(orders)
      /\ orders'[o] = row
      /\ \A i \in 1..Len(orders) : i # o => orders'[i] = orders[i]
  BY <1>1, <1>3, <1>4, ExceptSeq
<1>6. UNCHANGED <<reservation, tokens, leases, price, sessions, remembered,
                  requests, rotating, answers, cleanups>>
  BY DEF paid, stripe_vars
<1>7. TypeOK'
  BY <1>5, <1>6 DEF CheckoutInv, TypeOK
<1>8. \A i \in 1..Len(orders) :
         /\ orders'[i].price = orders[i].price
         /\ orders'[i].session = orders[i].session
  BY <1>4, <1>5
<1>9. OrdersGrow /\ SessionsGrow
  BY <1>1, <1>5, <1>6, <1>8 DEF OrdersGrow, SessionsGrow
<1>10. KeyRow' /\ OrdersCounted' /\ remembered' \in 0..Len(sessions')
  BY <1>5, <1>6, <1>8 DEF CheckoutInv, KeyRow, OrdersCounted, IsOrder
<1> QED
  BY <1>5, <1>6, <1>7, <1>8, <1>9, <1>10, CheckoutStep DEF IsOrder

\* Every step keeps the order and its session.
LEMMA CheckoutNext ==
    ASSUME CheckoutInv, TokenInv, [Next]_vars
    PROVE  CheckoutInv'
<1>1. ASSUME NEW r \in Request, Create(r)
      PROVE  CheckoutInv'
  <2>1. CASE fails(r) \/ finalize_refused(r)
    BY <2>1, LeaveStep DEF fails, finalize_refused, db_vars, stripe_vars
  <2> QED
    BY <1>1, <2>1, ReserveStep, ResumeStep, ReplayStep, ReplayWaitsStep,
       ReplayGoesOnStep, PriceStep, CreateStep, FinalizeStep DEF Create
<1>2. CASE UNCHANGED vars
  <2>1. TypeOK'
    BY <1>2 DEF CheckoutInv, TypeOK, vars
  <2> QED
    BY <1>2, <2>1, LocalStep DEF vars
<1> QED
  BY <1>1, <1>2, RotateStep, ExpiryStep, AroundStep, PaidStep DEF Next

-----------------------------------------------------------------------------
(* The tokens.                                                             *)

\* Tables with the same rows are equally long.
LEMMA SameLength ==
    ASSUME NEW S, NEW s \in Seq(S), NEW t \in Seq(S), DOMAIN t = DOMAIN s
    PROVE  Len(t) = Len(s)
<1>1. Len(s) \in Nat /\ DOMAIN s = 1..Len(s) /\ Len(t) \in Nat
      /\ DOMAIN t = 1..Len(t)
  BY LenProperties
<1> QED
  BY <1>1

\* No order is removed.
LEMMA OrdersStay ==
    ASSUME TypeOK, TypeOK', [Next]_vars
    PROVE  Len(orders') >= Len(orders)
<1>1. /\ orders \in Seq(OrderRow) /\ orders' \in Seq(OrderRow)
      /\ Len(orders) \in Nat
  BY DEF TypeOK
<1>2. CASE orders' = orders
  BY <1>1, <1>2
<1>3. CASE DOMAIN orders' = DOMAIN orders
  BY <1>1, <1>3, SameLength
<1>4. CASE \E r \in Request : reserve(r)
  <2>1. price \in Price
    BY DEF TypeOK
  <2>2. [price |-> price, session |-> 0, state |-> "open"] \in OrderRow
    BY <2>1 DEF OrderRow
  <2>3. orders' = Append(orders, [price |-> price, session |-> 0, state |-> "open"])
    BY <1>4 DEF reserve
  <2>4. Len(orders') = Len(orders) + 1
    BY <1>1, <2>2, <2>3, AppendRow
  <2> QED
    BY <1>1, <2>4
<1>5. CASE \E r \in Request : finalize(r)
  BY <1>3, <1>5 DEF finalize
<1>6. CASE \E o \in 1..Len(orders) : paid(o)
  BY <1>3, <1>6 DEF paid
<1>7. CASE \E r \in Request : Create(r) /\ ~reserve(r) /\ ~finalize(r)
  BY <1>2, <1>7 DEF Create, resume, replay, replay_waits, replay_goes_on,
     get_checkout_price, create_checkout, create_timeout, MakesSession, fails,
     finalize_refused, db_vars
<1>8. CASE \E c \in Client : Rotate(c)
  BY <1>2, <1>8 DEF Rotate, rotate_begin, rotate_end, rotate_fails, db_vars
<1>9. CASE \/ lease_expires \/ stripe_forgets \/ cleanup
           \/ (\E p \in Price : deploy(p)) \/ UNCHANGED vars
  BY <1>2, <1>9 DEF lease_expires, stripe_forgets, cleanup, deploy, db_vars, vars
<1> QED
  BY <1>4, <1>5, <1>6, <1>7, <1>8, <1>9 DEF Next

\* A token that is issued after all live ones of its order were found: they are
\* dead, so the order's line goes on with one live token.  The token it
\* replaces was live, so nothing else has replaced it.
LEMMA LineGoesOn ==
    ASSUME CheckoutInv, TokenInv, NEW o, IsOrder(o), NEW p \in Nat,
           p # 0 => p \in Live(o), IssueToken(o, Live(o), p),
           TypeOK', Len(orders') >= Len(orders)
    PROVE  TokenLine' /\ LiveIsSingle' /\ TokenReplacedOnce'
<1> DEFINE n == Len(tokens)
<1>1. /\ TypeOK /\ n \in Nat /\ o \in Nat
      /\ Len(orders) \in Nat /\ Len(orders') \in Nat
  <2>1. TypeOK
    BY DEF CheckoutInv
  <2>2. n \in Nat /\ Len(orders) \in Nat
    BY <2>1, Lengths
  <2>3. o \in Nat
    BY <2>2 DEF IsOrder
  <2>4. orders' \in Seq(OrderRow)
    BY DEF TypeOK
  <2>5. Len(orders') \in Nat
    BY <2>4
  <2> QED  BY <2>1, <2>2, <2>3, <2>5
<1>2. /\ Len(tokens') = n + 1
      /\ \A t \in 1..n :
            /\ tokens'[t].order = tokens[t].order
            /\ tokens'[t].replaces = tokens[t].replaces
            /\ tokens'[t].live <=> tokens[t].live /\ t \notin Live(o)
      /\ tokens'[n + 1] = [order |-> o, live |-> TRUE, replaces |-> p]
  <2>1. TypeOK /\ o \in Nat
    BY <1>1
  <2>2. PICK F : F = Live(o)
    OBVIOUS
  <2>3. IssueToken(o, F, p)
    BY <2>2
  <2> QED  BY <2>1, <2>2, <2>3, TokenIssued
<1>3. /\ tokens'[n + 1].order = o /\ tokens'[n + 1].live
      /\ tokens'[n + 1].replaces = p
  BY <1>2
<1>4. \A t \in 1..Len(tokens') : t \in 1..n \/ t = n + 1
  BY <1>1, <1>2
<1>5. \A t \in 1..n : t \in Live(o) <=> tokens[t].order = o /\ tokens[t].live
  BY DEF Live
<1>6. Live(o) \subseteq 1..n
  BY DEF Live
<1>7. ASSUME NEW t \in 1..Len(tokens')
      PROVE  /\ IsOrder(tokens[t].order)'
             /\ tokens'[t].replaces # 0 =>
                   /\ tokens'[t].replaces \in 1..n
                   /\ ~tokens'[tokens'[t].replaces].live
  <2>1. CASE t \in 1..n
    <3>1. /\ tokens[t].order \in 1..Len(orders)
          /\ tokens[t].replaces # 0 =>
                tokens[t].replaces \in 1..n /\ ~tokens[tokens[t].replaces].live
      BY <2>1 DEF TokenInv, TokenLine, IsOrder
    <3>2. tokens'[t].order \in 1..Len(orders')
      BY <1>1, <1>2, <2>1, <3>1
    <3> QED
      BY <1>2, <2>1, <3>1, <3>2 DEF IsOrder
  <2>2. CASE t = n + 1
    <3>1. o \in 1..Len(orders')
      BY <1>1 DEF IsOrder
    <3> QED
      BY <1>2, <1>3, <1>6, <2>2, <3>1 DEF IsOrder
  <2> QED
    BY <1>4, <2>1, <2>2
<1>8. TokenLine'
  BY <1>1, <1>2, <1>7 DEF TokenLine
<1>9. LiveIsSingle'
  BY <1>2, <1>3, <1>4, <1>5 DEF TokenInv, LiveIsSingle
<1>10. \A t \in 1..n : tokens[t].replaces # 0 => tokens[t].replaces # p
  BY <1>5, <1>6 DEF TokenInv, TokenLine
<1>11. TokenReplacedOnce'
  BY <1>2, <1>3, <1>4, <1>10 DEF TokenInv, TokenReplacedOnce
<1> QED
  BY <1>8, <1>9, <1>11

\* A rotation whose token is not among those that were found still holds it.
LEMMA RotationsKept ==
    ASSUME CheckoutInv, TokenInv, NEW o \in Nat, NEW p \in Nat,
           IssueToken(o, Live(o), p),
           \A c \in Client : \/ rotating'[c] = 0
                             \/ /\ rotating'[c] = rotating[c]
                                /\ rotating[c] \notin Live(o)
    PROVE  (\A c \in Client : RotationHeld(c)') /\ RotationsDiffer'
<1>1. TypeOK /\ Len(tokens) \in Nat
  BY DEF CheckoutInv, TypeOK
<1>2. /\ Len(tokens') = Len(tokens) + 1
      /\ \A t \in 1..Len(tokens) :
            tokens'[t].live <=> tokens[t].live /\ t \notin Live(o)
  BY <1>1, TokenIssued
<1>3. \A c \in Client : RotationHeld(c)'
  BY <1>1, <1>2 DEF TokenInv, RotationHeld
<1>4. RotationsDiffer'
  BY DEF TokenInv, RotationsDiffer
<1> QED
  BY <1>3, <1>4

\* Nobody waits: there is nothing to hold.
LEMMA NobodyWaits ==
    ASSUME \A r \in Request : ~Waits(r)'
    PROVE  (\A r \in Request : WaitHeld(r)') /\ OneWaits'
BY DEF WaitHeld, OneWaits

\* A step that issues no token and holds none leaves the line alone; of a
\* replay that waits it must keep the row of the key.
LEMMA TokenStep ==
    ASSUME CheckoutInv, TokenInv, TypeOK', Len(orders') >= Len(orders),
           UNCHANGED <<tokens, rotating>>,
           \/ \A r \in Request : ~Waits(r)'
           \/ /\ \A r \in Request : requests'[r] = requests[r] \/ ~Waits(r)'
              /\ reservation # None =>
                    /\ reservation' # None
                    /\ reservation'.order = reservation.order
                    /\ reservation'.state = reservation.state
    PROVE  TokenInv'
<1>1. Len(orders) \in Nat /\ Len(orders') \in Nat
  BY DEF CheckoutInv, TypeOK
<1>2. (\A c \in Client : RotationHeld(c)') /\ RotationsDiffer'
  BY DEF TokenInv, RotationHeld, RotationsDiffer
<1>3. LiveIsSingle' /\ TokenReplacedOnce'
  BY DEF TokenInv, LiveIsSingle, TokenReplacedOnce
<1>4. TokenLine'
  BY <1>1 DEF TokenInv, TokenLine, IsOrder
<1>5. (\A r \in Request : WaitHeld(r)') /\ OneWaits'
  <2>1. CASE \A r \in Request : ~Waits(r)'
    BY <2>1, NobodyWaits
  <2>2. CASE /\ \A r \in Request : requests'[r] = requests[r] \/ ~Waits(r)'
             /\ reservation # None =>
                   /\ reservation' # None
                   /\ reservation'.order = reservation.order
                   /\ reservation'.state = reservation.state
    <3>1. \A r \in Request : Waits(r)' =>
             Waits(r) /\ requests'[r] = requests[r]
      BY <2>2 DEF Waits
    <3>2. OneWaits'
      BY <3>1 DEF OneWaits, TokenInv
    <3>3. \A r \in Request : WaitHeld(r)'
      BY <2>2, <3>1 DEF WaitHeld, TokenInv, Live
    <3> QED
      BY <3>2, <3>3
  <2> QED
    BY <2>1, <2>2
<1> QED
  BY <1>2, <1>3, <1>4, <1>5 DEF TokenInv

\* There is no token at the start.
LEMMA TokenInit == Init => TokenInv
<1> SUFFICES ASSUME Init PROVE TokenInv
  OBVIOUS
<1>1. Len(tokens) = 0
  BY DEF Init
<1>2. \A r \in Request : ~Waits(r)
  BY DEF Init, Waits
<1> QED
  BY <1>1, <1>2 DEF Init, TokenInv, WaitHeld, OneWaits, RotationHeld,
     RotationsDiffer, TokenLine, LiveIsSingle, TokenReplacedOnce

\* A new key or a lease that is taken over: nobody was waiting.
LEMMA TokenReserve ==
    ASSUME CheckoutInv, TokenInv, CheckoutInv', Len(orders') >= Len(orders),
           NEW r \in Request, reserve(r) \/ resume(r)
    PROVE  TokenInv'
<1>1. UNCHANGED <<tokens, rotating>>
  BY DEF reserve, resume
<1>2. \A s \in Request : ~Waits(s)
  BY DEF reserve, resume, Resumable, KeyLocked, KeyIsNew, TokenInv, WaitHeld
<1>3. /\ \A s \in Request : s # r => requests'[s] = requests[s]
      /\ requests'[r].step = "price"
  BY DEF reserve, resume, Begin, CheckoutInv, TypeOK
<1>4. \A s \in Request : ~Waits(s)'
  BY <1>2, <1>3 DEF Waits
<1> QED
  BY <1>1, <1>4, TokenStep DEF CheckoutInv

\* A replay, now or after it has waited, finds the live tokens unlocked.
LEMMA TokenReplay ==
    ASSUME CheckoutInv, TokenInv, CheckoutInv', Len(orders') >= Len(orders),
           NEW r \in Request, replay(r) \/ replay_goes_on(r)
    PROVE  TokenInv'
<1>1. \A s \in Request : ~Waits(s)'
  <2>1. CASE replay(r)
    BY <2>1 DEF replay, Resumable, KeyLocked, Waits
  <2>2. CASE replay_goes_on(r)
    <3>1. /\ requests'[r] = None
          /\ \A s \in Request : s # r => requests'[s] = requests[s]
      BY <2>2 DEF replay_goes_on, CheckoutInv, TypeOK
    <3>2. \A s \in Request : s # r => ~Waits(s)
      BY <2>2 DEF replay_goes_on, TokenInv, OneWaits
    <3> QED
      BY <3>1, <3>2 DEF Waits
  <2> QED
    BY <2>1, <2>2
<1>2. PICK o : /\ IsOrder(o) /\ IssueToken(o, Live(o), 0)
              /\ \A t \in Live(o) : ~Locked(t)
  <2>1. CASE replay(r)
    BY <2>1 DEF replay, Resumable, CheckoutInv, KeyRow
  <2>2. CASE replay_goes_on(r)
    <3>1. /\ IsOrder(requests[r].order)
          /\ requests[r].found = Live(requests[r].order)
      BY <2>2 DEF replay_goes_on, Waits, CheckoutInv, PlanHeld, TokenInv,
         WaitHeld
    <3> QED
      BY <2>2, <3>1 DEF replay_goes_on
  <2> QED
    BY <2>1, <2>2
<1>3. TypeOK /\ TypeOK' /\ o \in Nat /\ 0 \in Nat
  BY <1>2, SessionType DEF CheckoutInv
<1>4. TokenLine' /\ LiveIsSingle' /\ TokenReplacedOnce'
  BY <1>2, <1>3, LineGoesOn
<1>5. rotating' = rotating
  BY DEF replay, replay_goes_on
<1>6. \A c \in Client : rotating'[c] = rotating[c] /\ rotating[c] \notin Live(o)
  BY <1>2, <1>5 DEF Locked
<1>7. (\A c \in Client : RotationHeld(c)') /\ RotationsDiffer'
  BY <1>2, <1>3, <1>6, RotationsKept
<1> QED
  BY <1>1, <1>4, <1>7, NobodyWaits DEF TokenInv

\* A replay that has to wait is the only one, and holds what it has found.
LEMMA TokenReplayWaits ==
    ASSUME CheckoutInv, TokenInv, CheckoutInv', NEW r \in Request,
           replay_waits(r)
    PROVE  TokenInv'
<1>1. UNCHANGED <<reservation, orders, tokens, rotating>>
  BY DEF replay_waits, db_vars
<1>2. /\ requests'[r].step = "replay"
      /\ requests'[r].order = reservation.order
      /\ requests'[r].found = Live(reservation.order)
      /\ \A s \in Request : s # r => requests'[s] = requests[s]
  BY DEF replay_waits, CheckoutInv, TypeOK
<1>3. \A s \in Request : s # r => ~Waits(s)'
  BY <1>2 DEF replay_waits, Resumable, KeyLocked, Waits
<1>4. OneWaits'
  BY <1>3 DEF OneWaits
<1>5. WaitHeld(r)'
  BY <1>1, <1>2 DEF replay_waits, Resumable, WaitHeld, Live
<1>6. \A s \in Request : WaitHeld(s)'
  BY <1>3, <1>5 DEF WaitHeld
<1>7. (\A c \in Client : RotationHeld(c)') /\ RotationsDiffer'
  BY <1>1 DEF TokenInv, RotationHeld, RotationsDiffer
<1>8. TokenLine' /\ LiveIsSingle' /\ TokenReplacedOnce'
  BY <1>1 DEF TokenInv, TokenLine, LiveIsSingle, TokenReplacedOnce, IsOrder
<1> QED
  BY <1>4, <1>6, <1>7, <1>8 DEF TokenInv

\* A request that asks Stripe or ends issues no token.
LEMMA TokenLocal ==
    ASSUME CheckoutInv, TokenInv, CheckoutInv', Len(orders') >= Len(orders),
           NEW r \in Request,
           \/ get_checkout_price(r) \/ create_checkout(r) \/ create_timeout(r)
           \/ fails(r) \/ finalize_refused(r)
    PROVE  TokenInv'
<1>1. UNCHANGED <<reservation, tokens, rotating>>
  BY DEF get_checkout_price, create_checkout, create_timeout, MakesSession,
     fails, finalize_refused, db_vars
<1>2. \A s \in Request : s # r => requests'[s] = requests[s]
  BY DEF get_checkout_price, create_checkout, create_timeout, fails,
     finalize_refused, Leave, Go, CheckoutInv, TypeOK
<1>3. ~Waits(r)'
  <2>1. CASE Leave(r)
    BY <2>1 DEF Leave, Waits, CheckoutInv, TypeOK
  <2>2. CASE requests[r] \in Locals /\ Go(r, "create")
    <3>1. requests'[r] = [requests[r] EXCEPT !.step = "create"]
      BY <2>2 DEF Go, CheckoutInv, TypeOK
    <3>2. requests'[r].step = "create"
      BY <2>2, <3>1 DEF Locals
    <3> QED
      BY <3>2 DEF Waits
  <2>3. CASE create_checkout(r)
    <3>1. requests[r] \in Locals
      BY <2>3 DEF create_checkout, MakesSession, At, CheckoutInv, TypeOK
    <3>2. requests'[r] = [requests[r] EXCEPT !.step = "finalize",
                                            !.session = remembered']
      BY <2>3 DEF create_checkout, CheckoutInv, TypeOK
    <3>3. requests'[r].step = "finalize"
      BY <3>1, <3>2 DEF Locals
    <3> QED
      BY <3>3 DEF Waits
  <2>4. get_checkout_price(r) => requests[r] \in Locals
    BY DEF get_checkout_price, At, CheckoutInv, TypeOK
  <2> QED
    BY <2>1, <2>2, <2>3, <2>4 DEF get_checkout_price, create_timeout, fails,
       finalize_refused
<1>4. \A s \in Request : requests'[s] = requests[s] \/ ~Waits(s)'
  BY <1>2, <1>3
<1> QED
  BY <1>1, <1>4, TokenStep DEF CheckoutInv

\* The first token of an order: there was no other.
LEMMA TokenFinalize ==
    ASSUME CheckoutInv, TokenInv, CheckoutInv', Len(orders') >= Len(orders),
           NEW r \in Request, finalize(r)
    PROVE  TokenInv'
<1>1. \A s \in Request : ~Waits(s)'
  BY DEF finalize, KeyLocked, Leave, Waits, CheckoutInv, TypeOK
<1>2. PICK o : /\ IsOrder(o) /\ IssueToken(o, {}, 0)
              /\ o = reservation.order /\ reservation # None
              /\ reservation.state = "processing"
  BY DEF finalize, MayFinalize, HoldsLease, CheckoutInv, KeyRow
<1>3. Live(o) = {}
  BY <1>2 DEF Live, CheckoutInv, KeyRow
<1>4. TypeOK /\ TypeOK' /\ o \in Nat /\ 0 \in Nat
  BY <1>2, SessionType DEF CheckoutInv
<1>5. IssueToken(o, Live(o), 0)
  BY <1>2, <1>3
<1>6. TokenLine' /\ LiveIsSingle' /\ TokenReplacedOnce'
  BY <1>2, <1>4, <1>5, LineGoesOn
<1>7. \A c \in Client : rotating'[c] = rotating[c] /\ rotating[c] \notin Live(o)
  BY <1>3 DEF finalize
<1>8. (\A c \in Client : RotationHeld(c)') /\ RotationsDiffer'
  BY <1>4, <1>5, <1>7, RotationsKept
<1> QED
  BY <1>1, <1>6, <1>8, NobodyWaits DEF TokenInv

\* A rotation that begins locks a live token that nobody has locked, and one
\* that fails unlocks it.
LEMMA TokenRotateBegin ==
    ASSUME CheckoutInv, TokenInv, NEW c \in Client,
           (\E t \in 1..Len(tokens) : rotate_begin(c, t)) \/ rotate_fails(c)
    PROVE  TokenInv'
<1>1. UNCHANGED <<reservation, orders, tokens, requests>>
  BY DEF rotate_begin, rotate_fails, db_vars
<1>2. PICK t \in 0..Len(tokens) :
        /\ rotating' = [rotating EXCEPT ![c] = t]
        /\ t # 0 => t \in 1..Len(tokens) /\ tokens[t].live /\ ~Locked(t)
  <2>1. Len(tokens) \in Nat
    BY DEF CheckoutInv, TypeOK
  <2> QED
    BY <2>1 DEF rotate_begin, rotate_fails, authenticate
<1>3. rotating'[c] = t /\ \A d \in Client : d # c => rotating'[d] = rotating[d]
  BY <1>2 DEF CheckoutInv, TypeOK
<1>4. \A d \in Client : RotationHeld(d)'
  BY <1>1, <1>2, <1>3 DEF TokenInv, RotationHeld
<1>5. RotationsDiffer'
  BY <1>2, <1>3 DEF TokenInv, RotationsDiffer, Locked
<1>6. (\A r \in Request : WaitHeld(r)') /\ OneWaits'
  BY <1>1 DEF TokenInv, WaitHeld, OneWaits, Waits, Live
<1>7. TokenLine' /\ LiveIsSingle' /\ TokenReplacedOnce'
  BY <1>1 DEF TokenInv, TokenLine, LiveIsSingle, TokenReplacedOnce, IsOrder
<1> QED
  BY <1>4, <1>5, <1>6, <1>7 DEF TokenInv

\* A rotation that ends replaces the token it has locked; a replay that waits
\* is about another order, for it would hold this one's row.
LEMMA TokenRotateEnd ==
    ASSUME CheckoutInv, TokenInv, CheckoutInv', NEW c \in Client,
           rotate_end(c)
    PROVE  TokenInv'
<1>1. PICK u : u = rotating[c]
  OBVIOUS
<1>2. PICK o : o = tokens[u].order
  OBVIOUS
<1>3. /\ u \in 1..Len(tokens) /\ tokens[u].live /\ u \in Nat
      /\ Len(tokens) \in Nat
  BY <1>1 DEF CheckoutInv, TypeOK, TokenInv, RotationHeld, rotate_end
<1>4. IsOrder(o) /\ u \in Live(o)
  BY <1>2, <1>3 DEF TokenInv, TokenLine, Live
<1>5. TypeOK /\ TypeOK' /\ o \in Nat
  BY <1>4, SessionType DEF CheckoutInv
<1>6. /\ IssueToken(o, Live(o), u)
      /\ rotating' = [rotating EXCEPT ![c] = 0]
      /\ \A v \in Live(o) \ {u} : ~Locked(v)
      /\ ~OrderLocked(o)
      /\ UNCHANGED <<reservation, orders, requests>>
  BY <1>1, <1>2 DEF rotate_end
<1>7. Len(orders') >= Len(orders)
  BY <1>6, Lengths, <1>5
<1>8. TokenLine' /\ LiveIsSingle' /\ TokenReplacedOnce'
  BY <1>3, <1>4, <1>5, <1>6, <1>7, LineGoesOn
<1>9. \A d \in Client : \/ rotating'[d] = 0
                        \/ /\ rotating'[d] = rotating[d]
                           /\ rotating[d] \notin Live(o)
  <2> SUFFICES ASSUME NEW d \in Client, d # c, rotating[d] \in Live(o)
               PROVE  FALSE
    BY <1>6 DEF CheckoutInv, TypeOK
  <2>1. rotating[d] = u
    BY <1>6 DEF Locked
  <2>2. u # 0
    BY <1>3
  <2> QED
    BY <1>1, <2>1, <2>2 DEF TokenInv, RotationsDiffer
<1>10. (\A d \in Client : RotationHeld(d)') /\ RotationsDiffer'
  BY <1>3, <1>5, <1>6, <1>9, RotationsKept
<1>11. OneWaits'
  BY <1>6 DEF TokenInv, OneWaits, Waits
<1>12. /\ Len(tokens') = Len(tokens) + 1
       /\ \A t \in 1..Len(tokens) :
             /\ tokens'[t].order = tokens[t].order
             /\ tokens'[t].live <=> tokens[t].live /\ t \notin Live(o)
       /\ tokens'[Len(tokens) + 1] =
             [order |-> o, live |-> TRUE, replaces |-> u]
  BY <1>3, <1>5, <1>6, TokenIssued
<1>13. ASSUME NEW w, w # o
       PROVE  Live(w) = {t \in 1..Len(tokens') :
                           tokens'[t].order = w /\ tokens'[t].live}
  <2>1. tokens'[Len(tokens) + 1].order = o
    BY <1>12
  <2>2. \A t \in 1..Len(tokens) : t \in Live(o) => tokens[t].order = o
    BY DEF Live
  <2> QED
    BY <1>3, <1>12, <1>13, <2>1, <2>2 DEF Live
<1>14. \A r \in Request : WaitHeld(r)'
  <2> SUFFICES ASSUME NEW r \in Request, Waits(r)
               PROVE  /\ reservation # None
                      /\ reservation.state = "completed"
                      /\ reservation.order = requests[r].order
                      /\ requests[r].found =
                            {t \in 1..Len(tokens') :
                                /\ tokens'[t].order = requests[r].order
                                /\ tokens'[t].live}
    BY <1>6 DEF WaitHeld, Waits, Live
  <2>1. requests[r].order # o
    BY <1>6 DEF OrderLocked
  <2> QED
    BY <1>13, <2>1 DEF TokenInv, WaitHeld
<1> QED
  BY <1>8, <1>10, <1>11, <1>14 DEF TokenInv

\* A lease that ends leaves the order and the state of the row; the row is
\* removed only when no replay has it locked.
LEMMA TokenAround ==
    ASSUME CheckoutInv, TokenInv, CheckoutInv', Len(orders') >= Len(orders),
           \/ lease_expires \/ stripe_forgets \/ cleanup
           \/ (\E p \in Price : deploy(p))
           \/ (\E o \in 1..Len(orders) : paid(o))
           \/ UNCHANGED vars
    PROVE  TokenInv'
<1>1. UNCHANGED <<tokens, rotating, requests>>
  BY DEF lease_expires, stripe_forgets, cleanup, deploy, paid, db_vars,
     stripe_vars, vars
<1>2. CASE cleanup
  <2>1. \A r \in Request : ~Waits(r)'
    BY <1>1, <1>2 DEF cleanup, KeyLocked, Waits
  <2> QED
    BY <1>1, <2>1, TokenStep DEF CheckoutInv
<1>3. CASE lease_expires
  <2>1. /\ reservation # None /\ reservation \in Reservation
        /\ reservation' = [reservation EXCEPT !.expired = TRUE]
        /\ reservation.lease \in Nat
    BY <1>3 DEF CheckoutInv, TypeOK, lease_expires, Reservation
  <2>2. reservation' \in Reservation
    BY <2>1, RowWritten, Zenon
  <2>3. reservation' # None
    BY <2>2, ConstantsAssumption
  <2>4. /\ reservation'.order = reservation.order
        /\ reservation'.state = reservation.state
    BY <2>1, Zenon DEF Reservation
  <2> QED
    BY <1>1, <2>3, <2>4, TokenStep DEF CheckoutInv
<1>4. CASE reservation' = reservation
  BY <1>1, <1>4, TokenStep DEF CheckoutInv
<1> QED
  BY <1>2, <1>3, <1>4 DEF stripe_forgets, deploy, paid, db_vars, vars

\* Every step keeps the invariant.
LEMMA InvNext ==
    ASSUME IInv, [Next]_vars
    PROVE  IInv'
<1>1. CheckoutInv /\ TokenInv /\ CheckoutInv'
  BY CheckoutNext DEF IInv
<1>2. Len(orders') >= Len(orders)
  BY <1>1, OrdersStay DEF CheckoutInv
<1>3. ASSUME NEW r \in Request, Create(r)
      PROVE  TokenInv'
  BY <1>1, <1>2, <1>3, TokenReserve, TokenReplay, TokenReplayWaits, TokenLocal,
     TokenFinalize DEF Create
<1>4. ASSUME NEW c \in Client, Rotate(c)
      PROVE  TokenInv'
  BY <1>1, <1>4, TokenRotateBegin, TokenRotateEnd DEF Rotate
<1>5. TokenInv'
  BY <1>1, <1>2, <1>3, <1>4, TokenAround DEF Next
<1> QED
  BY <1>1, <1>5 DEF IInv

-----------------------------------------------------------------------------
(* The theorems.                                                           *)

\* At most one token of an order is live when any two are the same.
LEMMA SingleCounts ==
    ASSUME LiveIsSingle
    PROVE  OneLiveToken
<1> SUFFICES ASSUME NEW o \in 1..Len(orders)
             PROVE  Cardinality(Live(o)) <= 1
  BY DEF OneLiveToken
<1>1. CASE Live(o) = {}
  BY <1>1, FS_EmptySet
<1>2. CASE Live(o) # {}
  <2>1. PICK t : t \in Live(o)
    BY <1>2
  <2>2. Live(o) = {t}
    BY <2>1 DEF Live, LiveIsSingle
  <2>3. Cardinality({t}) = 1
    BY FS_Singleton, Zenon
  <2> QED
    BY <2>2, <2>3
<1> QED
  BY <1>1, <1>2

\* The invariant is stronger than the property.
LEMMA CheckoutInvGives ==
    ASSUME CheckoutInv
    PROVE  OneCheckoutPerKey
<1>1. Len(orders) \in Nat /\ cleanups \in Nat
  BY DEF CheckoutInv, TypeOK
<1>2. OneOrderPerKey
  BY <1>1 DEF CheckoutInv, OrdersCounted, KeyRow, OneOrderPerKey
<1>3. \A o \in 1..Len(orders) : orders[o].session # 0 =>
        /\ sessions[orders[o].session].order = o
        /\ sessions[orders[o].session].price = orders[o].price
  <2> SUFFICES ASSUME NEW o \in 1..Len(orders), orders[o].session # 0
               PROVE  /\ sessions[orders[o].session].order = o
                      /\ sessions[orders[o].session].price = orders[o].price
    OBVIOUS
  <2>1. sessions[orders[o].session] =
          [order |-> o, price |-> orders[o].price]
    BY DEF CheckoutInv, SessionsBound, MadeFor
  <2> QED
    BY <2>1
<1>4. OneSessionPerOrder /\ ReservedPriceKept
  BY <1>3 DEF CheckoutInv, AnswersBound, OneSessionPerOrder, ReservedPriceKept
<1> QED
  BY <1>2, <1>4 DEF CheckoutInv, OneCheckoutPerKey

\* Requests that race for an idempotency key, take over each other's leases,
\* lose Stripe's answers or meet another price make one order for it, bound to
\* one session at the price it was reserved with (_reserve, _call_provider,
\* _finalize).
THEOREM CheckoutIsSingle == Spec => []OneCheckoutPerKey
<1>1. Init => IInv
  BY CheckoutInit, TokenInit DEF IInv
<1>2. IInv /\ [Next]_vars => IInv'
  BY InvNext
<1>3. IInv => OneCheckoutPerKey
  BY CheckoutInvGives DEF IInv
<1> QED
  BY <1>1, <1>2, <1>3, PTL DEF Spec

\* Rotations that race for a token, and replays of the checkout that go on with
\* the tokens they had found before they waited, leave one valid token and never
\* replace a token twice (authenticate, issue_token, rotate_token, _replay).
THEOREM TokenIsSingle == Spec => []TokensAreSingle
<1>1. Init => IInv
  BY CheckoutInit, TokenInit DEF IInv
<1>2. IInv /\ [Next]_vars => IInv'
  BY InvNext
<1>3. IInv => TokensAreSingle
  BY SingleCounts DEF IInv, TokenInv, TokensAreSingle
<1> QED
  BY <1>1, <1>2, <1>3, PTL DEF Spec

-----------------------------------------------------------------------------
(* The limits.  A counter is exact as long as a request may still be on    *)
(* its way to it; only then may it be deleted.                             *)

Caller == Endpoint \X Address \X Limits!Window

\* The counter of a caller may still be reached by a request.
Reachable(k) == clock <= k[3] + MaxDelay

IsCounted(q) == q.admitted \/ q.status = "rate_limited"
CountedAt(k) == {r \in Request : IsCounted(limited[r]) /\ Limits!Key(limited[r]) = k}
AdmittedAt(k) == {r \in Request : limited[r].admitted /\ Limits!Key(limited[r]) = k}

\* Reachable counters are exact; no more than the limit are admitted, and as many
\* are as soon as one was refused.
BooksInv ==
    \A k \in Caller :
        /\ Reachable(k) => counters[k] = Cardinality(CountedAt(k))
        /\ Cardinality(AdmittedAt(k)) <= Limit[k[1]]
        /\ CountedAt(k) # AdmittedAt(k) => Cardinality(AdmittedAt(k)) >= Limit[k[1]]

\* How far a request has come, and what it has had of an answer.
RequestInv(q) ==
    /\ q.step \in {"new", "rate", "hit"} =>
          /\ ~q.admitted
          /\ q.status = "none"
          /\ ~q.started
          /\ q.responses = 0
    /\ q.step = "hit" => clock <= q.window + MaxDelay
    /\ q.step \in {"body", "aborted"} =>
          /\ q.admitted
          /\ q.status = "none"
          /\ q.responses = IF q.started THEN 1 ELSE 0
    /\ q.admitted => q.status # "rate_limited"
    /\ q.responses <= 1

LimitsInv ==
    /\ Limits!TypeOK
    /\ BooksInv
    /\ \A r \in Request : RequestInv(limited[r])

\* What the constants are.
LEMMA LimitConstants ==
    /\ IsFiniteSet(Request)
    /\ Limit \in [Endpoint -> Nat]
    /\ BodyLimit \in Nat
    /\ MaxDelay \in Nat
    /\ MaxWindow \in Nat
  BY ApiAssumption

\* The limits count as their proof does.
LEMMA SameCardinality == \A S : Limits!Cardinality(S) = Cardinality(S)
  BY DEF Limits!Cardinality, Cardinality

\* The key of a request is that of a counter.
LEMMA KeyIsCaller ==
    ASSUME NEW q \in Limits!RequestState
    PROVE  /\ Limits!Key(q) \in Caller
           /\ Limits!Key(q)[1] = q.endpoint
           /\ Limits!Key(q)[2] = q.client
           /\ Limits!Key(q)[3] = q.window
  BY DEF Limits!Key, Limits!RequestState, Caller

\* The requests of a caller are finitely many.
LEMMA CallersAreFinite ==
    \A k : /\ IsFiniteSet(CountedAt(k))
           /\ IsFiniteSet(AdmittedAt(k))
           /\ AdmittedAt(k) \subseteq CountedAt(k)
           /\ Cardinality(CountedAt(k)) \in Nat
           /\ Cardinality(AdmittedAt(k)) \in Nat
           /\ Cardinality(AdmittedAt(k)) <= Cardinality(CountedAt(k))
<1> SUFFICES ASSUME NEW k
             PROVE  /\ IsFiniteSet(CountedAt(k))
                    /\ IsFiniteSet(AdmittedAt(k))
                    /\ AdmittedAt(k) \subseteq CountedAt(k)
                    /\ Cardinality(CountedAt(k)) \in Nat
                    /\ Cardinality(AdmittedAt(k)) \in Nat
                    /\ Cardinality(AdmittedAt(k)) <= Cardinality(CountedAt(k))
  OBVIOUS
<1>1. AdmittedAt(k) \subseteq CountedAt(k) /\ CountedAt(k) \subseteq Request
  BY DEF AdmittedAt, CountedAt, IsCounted
<1>2. IsFiniteSet(CountedAt(k))
  BY <1>1, LimitConstants, FS_Subset
<1> QED  BY <1>1, <1>2, FS_Subset, FS_CardinalityType

\* The books are those of the same requests when one of them goes on without
\* being counted.
LEMMA NotCounted ==
    ASSUME LimitsInv, NEW r \in Request, NEW q,
           limited' = [limited EXCEPT ![r] = q],
           IsCounted(q) <=> IsCounted(limited[r]),
           q.admitted <=> limited[r].admitted,
           IsCounted(q) => Limits!Key(q) = Limits!Key(limited[r]),
           UNCHANGED <<clock, counters>>
    PROVE  BooksInv'
<1>1. limited'[r] = q /\ \A s \in Request : s # r => limited'[s] = limited[s]
  BY DEF LimitsInv, Limits!TypeOK
<1>2. \A k : CountedAt(k)' = CountedAt(k) /\ AdmittedAt(k)' = AdmittedAt(k)
  BY <1>1, Zenon DEF CountedAt, AdmittedAt, IsCounted
<1> QED  BY <1>2, Zenon DEF LimitsInv, BooksInv, Reachable, Caller, Limits!Window

\* A request that goes on keeps the invariants of all requests.
LEMMA OneRequest ==
    ASSUME LimitsInv, NEW r \in Request, NEW q,
           limited' = [limited EXCEPT ![r] = q],
           q \in Limits!RequestState, q.received <= BodyLimit,
           RequestInv(q), UNCHANGED clock
    PROVE  /\ limited' \in [Request -> Limits!RequestState]
           /\ \A s \in Request : limited'[s].received <= BodyLimit
           /\ (\A s \in Request : RequestInv(limited[s]))'
<1>1. /\ limited' \in [Request -> Limits!RequestState]
      /\ limited'[r] = q
      /\ \A s \in Request : s # r => limited'[s] = limited[s]
  BY DEF LimitsInv, Limits!TypeOK
<1> QED  BY <1>1 DEF LimitsInv, Limits!TypeOK, RequestInv

\* A request that is not at the counter goes on.
LEMMA UncountedStep ==
    ASSUME LimitsInv, NEW r \in Request, NEW q \in Limits!RequestState,
           limited' = [limited EXCEPT ![r] = q],
           q.received <= BodyLimit, RequestInv(q),
           IsCounted(q) <=> IsCounted(limited[r]),
           q.admitted <=> limited[r].admitted,
           IsCounted(q) => Limits!Key(q) = Limits!Key(limited[r]),
           UNCHANGED <<clock, counters>>
    PROVE  LimitsInv'
<1>1. BooksInv'
  BY NotCounted
<1>2. /\ limited' \in [Request -> Limits!RequestState]
      /\ \A s \in Request : limited'[s].received <= BodyLimit
      /\ (\A s \in Request : RequestInv(limited[s]))'
  BY OneRequest
<1> QED  BY <1>1, <1>2 DEF LimitsInv, Limits!TypeOK, Limits!Window

\* What is known of a request.
LEMMA RequestTypes ==
    ASSUME LimitsInv, NEW r \in Request
    PROVE  /\ limited[r] \in Limits!RequestState
           /\ limited[r].received <= BodyLimit
           /\ RequestInv(limited[r])
           /\ clock \in Limits!Window
  BY DEF LimitsInv, Limits!TypeOK

\* What a response makes of a request.
LEMMA RespondFields ==
    ASSUME NEW x \in Limits!RequestState, NEW answer \in Limits!Status
    PROVE  /\ Limits!Respond(x, answer) \in Limits!RequestState
           /\ Limits!Respond(x, answer).step = "done"
           /\ Limits!Respond(x, answer).status = answer
           /\ Limits!Respond(x, answer).responses = x.responses + 1
           /\ Limits!Respond(x, answer).received = x.received
           /\ Limits!Respond(x, answer).admitted = x.admitted
           /\ Limits!Respond(x, answer).started = x.started
           /\ Limits!Key(Limits!Respond(x, answer)) = Limits!Key(x)
<1> DEFINE y == Limits!Respond(x, answer)
<1>1. y \in Limits!RequestState
  <2>1. x.responses + 1 \in Nat
    BY DEF Limits!RequestState
  <2>2. "done" \in Limits!Step
    BY DEF Limits!Step
  <2> QED  BY <2>1, <2>2, Zenon DEF Limits!RequestState, Limits!Respond
<1>0. y.responses = x.responses + 1
  BY DEF Limits!RequestState, Limits!Respond
<1>2. y.step = "done" /\ y.status = answer /\ y.received = x.received
  BY DEF Limits!RequestState, Limits!Respond
<1>3. y.admitted = x.admitted /\ y.started = x.started
  BY Zenon DEF Limits!RequestState, Limits!Respond
<1>4. Limits!Key(y) = Limits!Key(x)
  BY DEF Limits!RequestState, Limits!Respond, Limits!Key
<1> QED  BY <1>0, <1>1, <1>2, <1>3, <1>4

\* The headers are refused or read.
LEMMA HeadersStep ==
    ASSUME LimitsInv, NEW r \in Request, Limits!headers(r)
    PROVE  LimitsInv'
<1>1. PICK q : /\ limited' = [limited EXCEPT ![r] = q]
               /\ \/ q = Limits!Respond(limited[r], "bad_request")
                  \/ q = Limits!Respond(limited[r], "too_large")
                  \/ q = [limited[r] EXCEPT !.step = "rate"]
  BY DEF Limits!headers
<1>2. limited[r].step = "new" /\ UNCHANGED <<clock, counters>>
  BY DEF Limits!headers, Limits!At
<1>3. /\ limited[r] \in Limits!RequestState
      /\ limited[r].received <= BodyLimit
      /\ RequestInv(limited[r])
  BY RequestTypes
<1>4. /\ q \in Limits!RequestState
      /\ q.received = limited[r].received
      /\ q.admitted = limited[r].admitted
      /\ q.step \in {"done", "rate"}
      /\ q.status \in {"bad_request", "too_large", "none"}
      /\ q.responses \in {0, 1}
      /\ q.step = "rate" => ~q.started /\ q.status = "none" /\ q.responses = 0
  <2>1. /\ limited[r].status = "none"
        /\ limited[r].responses = 0
        /\ limited[r].started = FALSE
    BY <1>2, <1>3 DEF RequestInv, Limits!RequestState
  <2>2. CASE q = Limits!Respond(limited[r], "bad_request")
    BY <1>3, <2>1, <2>2, RespondFields DEF Limits!Status
  <2>3. CASE q = Limits!Respond(limited[r], "too_large")
    BY <1>3, <2>1, <2>3, RespondFields DEF Limits!Status
  <2>4. CASE q = [limited[r] EXCEPT !.step = "rate"]
    <3>1. q \in Limits!RequestState /\ q.step = "rate"
      BY <1>3, <2>4 DEF Limits!RequestState, Limits!Step
    <3>2. /\ q.received = limited[r].received
          /\ q.admitted = limited[r].admitted
          /\ q.started = limited[r].started
          /\ q.status = limited[r].status
          /\ q.responses = limited[r].responses
      BY <1>3, <2>4, Zenon DEF Limits!RequestState
    <3> QED  BY <2>1, <3>1, <3>2
  <2> QED  BY <1>1, <2>2, <2>3, <2>4
<1>5. RequestInv(q) /\ ~IsCounted(q) /\ ~IsCounted(limited[r])
  <2>1. ~limited[r].admitted /\ limited[r].status = "none"
    BY <1>2, <1>3 DEF RequestInv
  <2>2. RequestInv(q)
    BY <1>4, <2>1 DEF RequestInv
  <2> QED  BY <1>4, <2>1, <2>2 DEF IsCounted
<1> QED  BY <1>1, <1>2, <1>3, <1>4, <1>5, UncountedStep

\* The window is the one of now, so its counter is live.
LEMMA ReadClockStep ==
    ASSUME LimitsInv, NEW r \in Request, Limits!read_clock(r)
    PROVE  LimitsInv'
<1>1. PICK q : q = [limited[r] EXCEPT !.step = "hit", !.window = clock]
  OBVIOUS
<1>2. /\ limited' = [limited EXCEPT ![r] = q]
      /\ limited[r].step = "rate"
      /\ UNCHANGED <<clock, counters>>
  BY <1>1 DEF Limits!read_clock, Limits!At
<1>3. /\ q \in Limits!RequestState
      /\ q.received <= BodyLimit
      /\ RequestInv(q)
      /\ IsCounted(q) <=> IsCounted(limited[r])
      /\ q.admitted <=> limited[r].admitted
      /\ ~IsCounted(q)
  <2>1. /\ limited[r] \in Limits!RequestState
        /\ limited[r].received <= BodyLimit
        /\ RequestInv(limited[r])
        /\ clock \in Limits!Window
    BY RequestTypes
  <2>2. /\ q \in Limits!RequestState
        /\ q.received = limited[r].received
        /\ q.admitted = limited[r].admitted
        /\ q.started = limited[r].started
        /\ q.status = limited[r].status
        /\ q.responses = limited[r].responses
        /\ q.step = "hit"
        /\ q.window = clock
    BY <1>1, <2>1 DEF Limits!RequestState, Limits!Step
  <2>3. clock <= clock + MaxDelay
    BY <2>1, LimitConstants DEF Limits!Window
  <2> QED  BY <1>2, <2>1, <2>2, <2>3 DEF RequestInv, IsCounted
<1> QED  BY <1>2, <1>3, UncountedStep

\* One more unit of the body, or too much of it.
LEMMA ReceiveStep ==
    ASSUME LimitsInv, NEW r \in Request, Limits!receive(r)
    PROVE  LimitsInv'
<1>1. PICK q : q = IF Limits!Fits(limited[r].received + 1)
                   THEN [limited[r] EXCEPT !.received = limited[r].received + 1]
                   ELSE [limited[r] EXCEPT !.step = "aborted"]
  OBVIOUS
<1>2. /\ limited' = [limited EXCEPT ![r] = q]
      /\ limited[r].step = "body"
      /\ UNCHANGED <<clock, counters>>
  BY <1>1 DEF Limits!receive, Limits!At
<1>3. /\ q \in Limits!RequestState
      /\ q.received <= BodyLimit
      /\ RequestInv(q)
      /\ IsCounted(q) <=> IsCounted(limited[r])
      /\ q.admitted <=> limited[r].admitted
      /\ Limits!Key(q) = Limits!Key(limited[r])
  BY <1>1, <1>2, RequestTypes, LimitConstants
     DEF Limits!RequestState, Limits!Step, Limits!Fits, Limits!Key, RequestInv,
         IsCounted
<1> QED  BY <1>2, <1>3, UncountedStep

\* The application begins its response.
LEMMA RespondStep ==
    ASSUME LimitsInv, NEW r \in Request, Limits!respond(r)
    PROVE  LimitsInv'
<1>1. PICK q : q = [limited[r] EXCEPT !.started = TRUE,
                                      !.responses = limited[r].responses + 1]
  OBVIOUS
<1>2. /\ limited' = [limited EXCEPT ![r] = q]
      /\ limited[r].step = "body"
      /\ ~limited[r].started
      /\ UNCHANGED <<clock, counters>>
  BY <1>1 DEF Limits!respond, Limits!At
<1>3. /\ q \in Limits!RequestState
      /\ q.received <= BodyLimit
      /\ RequestInv(q)
      /\ IsCounted(q) <=> IsCounted(limited[r])
      /\ q.admitted <=> limited[r].admitted
      /\ Limits!Key(q) = Limits!Key(limited[r])
  <2>1. /\ limited[r] \in Limits!RequestState
        /\ limited[r].received <= BodyLimit
        /\ RequestInv(limited[r])
    BY RequestTypes
  <2>2. /\ q \in Limits!RequestState
        /\ q.received = limited[r].received
        /\ q.status = limited[r].status
        /\ q.responses = limited[r].responses + 1
        /\ q.step = limited[r].step
        /\ Limits!Key(q) = Limits!Key(limited[r])
        /\ q.admitted = limited[r].admitted
        /\ q.started = TRUE
    <3>1. q.responses = limited[r].responses + 1 /\ q.responses \in Nat
      BY <1>1, <2>1 DEF Limits!RequestState
    <3>4. q \in Limits!RequestState
      BY <1>1, <2>1, <3>1, Zenon DEF Limits!RequestState
    <3>2. q.admitted = limited[r].admitted /\ q.started = TRUE
      BY <1>1, <2>1, Zenon DEF Limits!RequestState
    <3>3. /\ q.received = limited[r].received
          /\ q.status = limited[r].status
          /\ q.step = limited[r].step
          /\ Limits!Key(q) = Limits!Key(limited[r])
      BY <1>1, <2>1, Zenon DEF Limits!RequestState, Limits!Key
    <3> QED  BY <3>1, <3>2, <3>3, <3>4
  <2>3. limited[r].responses = 0
    BY <1>2, <2>1 DEF RequestInv
  <2> QED  BY <1>2, <2>1, <2>2, <2>3 DEF RequestInv, IsCounted
<1> QED  BY <1>2, <1>3, UncountedStep

\* The response is complete.
LEMMA CompleteStep ==
    ASSUME LimitsInv, NEW r \in Request, Limits!complete(r)
    PROVE  LimitsInv'
<1>1. PICK q : q = [limited[r] EXCEPT !.step = "done", !.status = "answered"]
  OBVIOUS
<1>2. /\ limited' = [limited EXCEPT ![r] = q]
      /\ limited[r].step = "body"
      /\ UNCHANGED <<clock, counters>>
  BY <1>1 DEF Limits!complete, Limits!At
<1>3. /\ q \in Limits!RequestState
      /\ q.received <= BodyLimit
      /\ RequestInv(q)
      /\ IsCounted(q) <=> IsCounted(limited[r])
      /\ q.admitted <=> limited[r].admitted
      /\ Limits!Key(q) = Limits!Key(limited[r])
  BY <1>1, <1>2, RequestTypes
     DEF Limits!RequestState, Limits!Step, Limits!Status, Limits!Key, RequestInv,
         IsCounted
<1> QED  BY <1>2, <1>3, UncountedStep

\* The body was too large: an answer only if none has begun.
LEMMA ExceededStep ==
    ASSUME LimitsInv, NEW r \in Request, Limits!body_limit_exceeded(r)
    PROVE  LimitsInv'
<1>1. PICK q : q = IF Limits!MayRefuse(limited[r])
                   THEN Limits!Respond(limited[r], "too_large")
                   ELSE [limited[r] EXCEPT !.step = "done"]
  OBVIOUS
<1>2. /\ limited' = [limited EXCEPT ![r] = q]
      /\ limited[r].step = "aborted"
      /\ UNCHANGED <<clock, counters>>
  BY <1>1 DEF Limits!body_limit_exceeded, Limits!At
<1>3. /\ q \in Limits!RequestState
      /\ q.received <= BodyLimit
      /\ RequestInv(q)
      /\ IsCounted(q) <=> IsCounted(limited[r])
      /\ q.admitted <=> limited[r].admitted
      /\ Limits!Key(q) = Limits!Key(limited[r])
  <2>1. /\ limited[r] \in Limits!RequestState
        /\ limited[r].received <= BodyLimit
        /\ RequestInv(limited[r])
    BY RequestTypes
  <2>2. CASE Limits!MayRefuse(limited[r])
    <3>1. limited[r].responses = 0
      BY <1>2, <2>1, <2>2 DEF RequestInv, Limits!MayRefuse
    <3> QED  BY <1>1, <1>2, <2>1, <2>2, <3>1, RespondFields
             DEF RequestInv, IsCounted, Limits!Status
  <2>3. CASE ~Limits!MayRefuse(limited[r])
    <3>1. /\ q \in Limits!RequestState
          /\ q.received = limited[r].received
          /\ q.admitted = limited[r].admitted
          /\ q.status = limited[r].status
          /\ q.responses = limited[r].responses
          /\ q.step = "done"
          /\ Limits!Key(q) = Limits!Key(limited[r])
      BY <1>1, <2>1, <2>3 DEF Limits!RequestState, Limits!Step, Limits!Key
    <3> QED  BY <1>2, <2>1, <3>1 DEF RequestInv, IsCounted
  <2> QED  BY <2>2, <2>3
<1> QED  BY <1>2, <1>3, UncountedStep

\* The counter of the request is live and so exact: it is admitted while fewer
\* than the limit were, and refused when as many as that have been admitted.
LEMMA HitStep ==
    ASSUME LimitsInv, NEW r \in Request, Limits!hit(r)
    PROVE  LimitsInv'
<1>k. PICK k : k = Limits!Key(limited[r])
  OBVIOUS
<1>n. PICK n : n = counters[k] + 1
  OBVIOUS
<1>q. PICK q : q = IF n <= Limit[limited[r].endpoint]
                   THEN [limited[r] EXCEPT !.step = "body", !.admitted = TRUE]
                   ELSE Limits!Respond(limited[r], "rate_limited")
  OBVIOUS
<1>1. /\ limited[r].step = "hit"
      /\ counters' = [counters EXCEPT ![k] = n]
      /\ limited' = [limited EXCEPT ![r] = q]
      /\ UNCHANGED clock
  BY <1>k, <1>n, <1>q DEF Limits!hit, Limits!At
<1>2. /\ k \in Caller
      /\ k[1] = limited[r].endpoint
      /\ Reachable(k)
      /\ Limits!Key(q) = k
      /\ ~IsCounted(limited[r])
      /\ ~limited[r].admitted
  <2>1. /\ limited[r] \in Limits!RequestState
        /\ RequestInv(limited[r])
    BY RequestTypes
  <2>2. Limits!Key(q) = k
    BY <1>k, <1>q, <2>1 DEF Limits!Key, Limits!Respond, Limits!RequestState
  <2> QED  BY <1>k, <1>1, <2>1, <2>2, KeyIsCaller DEF Reachable, RequestInv, IsCounted
<1>3. /\ Limit[k[1]] \in Nat
      /\ counters \in [Caller -> 0..Cardinality(Request)]
      /\ Cardinality(Request) \in Nat
  BY <1>2, LimitConstants, RequestTypes, FS_CardinalityType, SameCardinality
     DEF LimitsInv, Limits!TypeOK, Caller, Limits!RequestState
<1>4. /\ q \in Limits!RequestState
      /\ q.received <= BodyLimit
      /\ RequestInv(q)
      /\ IsCounted(q)
      /\ q.admitted <=> n <= Limit[k[1]]
  <2>1. /\ limited[r] \in Limits!RequestState
        /\ limited[r].received <= BodyLimit
        /\ RequestInv(limited[r])
    BY RequestTypes
  <2>2. CASE n <= Limit[k[1]]
    <3>1. /\ q \in Limits!RequestState
          /\ q.received = limited[r].received
          /\ q.admitted = TRUE
          /\ q.started = limited[r].started
          /\ q.status = limited[r].status
          /\ q.responses = limited[r].responses
          /\ q.step = "body"
      BY <1>2, <1>q, <2>1, <2>2 DEF Limits!RequestState, Limits!Step
    <3> QED  BY <1>1, <2>1, <2>2, <3>1 DEF RequestInv, IsCounted
  <2>3. CASE ~(n <= Limit[k[1]])
    <3>1. q = Limits!Respond(limited[r], "rate_limited")
      BY <1>2, <1>q, <2>3
    <3> QED  BY <1>1, <2>1, <2>3, <3>1, RespondFields
             DEF RequestInv, IsCounted, Limits!Status
  <2> QED  BY <2>2, <2>3
<1>5. /\ limited'[r] = q
      /\ \A s \in Request : s # r => limited'[s] = limited[s]
      /\ counters'[k] = n
      /\ \A d \in Caller : d # k => counters'[d] = counters[d]
  BY <1>1, <1>2, <1>3 DEF LimitsInv, Limits!TypeOK
<1>6. ASSUME NEW d, d # k
      PROVE  CountedAt(d)' = CountedAt(d) /\ AdmittedAt(d)' = AdmittedAt(d)
  <2>1. Limits!Key(limited[r]) # d /\ Limits!Key(limited'[r]) # d
    BY <1>k, <1>2, <1>5, <1>6
  <2> QED  BY <1>5, <2>1, Zenon DEF CountedAt, AdmittedAt
<1>7. /\ CountedAt(k)' = CountedAt(k) \cup {r}
      /\ r \notin CountedAt(k)
      /\ r \notin AdmittedAt(k)
      /\ q.admitted => AdmittedAt(k)' = AdmittedAt(k) \cup {r}
      /\ ~q.admitted => AdmittedAt(k)' = AdmittedAt(k)
  BY <1>2, <1>4, <1>5 DEF CountedAt, AdmittedAt, IsCounted
<1>8. /\ Cardinality(CountedAt(k)') = Cardinality(CountedAt(k)) + 1
      /\ q.admitted => Cardinality(AdmittedAt(k)') = Cardinality(AdmittedAt(k)) + 1
      /\ Cardinality(CountedAt(k)) = counters[k]
      /\ Cardinality(CountedAt(k)') <= Cardinality(Request)
  <2>1. CountedAt(k)' \subseteq Request
    BY DEF CountedAt
  <2>2. Cardinality(CountedAt(k)') <= Cardinality(Request)
    BY <2>1, LimitConstants, FS_Subset
  <2>3. Cardinality(CountedAt(k)) = counters[k]
    BY <1>2 DEF LimitsInv, BooksInv
  <2> QED  BY <1>7, <2>2, <2>3, CallersAreFinite, FS_AddElement
<1>9. /\ Cardinality(AdmittedAt(k)) \in Nat
      /\ Cardinality(AdmittedAt(k)) <= counters[k]
      /\ Cardinality(AdmittedAt(k)) <= Limit[k[1]]
      /\ CountedAt(k) # AdmittedAt(k) =>
            Cardinality(AdmittedAt(k)) >= Limit[k[1]]
      /\ counters[k] \in Nat
      /\ n \in 0..Cardinality(Request)
  BY <1>n, <1>2, <1>3, <1>8, CallersAreFinite DEF LimitsInv, BooksInv
<1>10. /\ Cardinality(CountedAt(k)') = counters'[k]
       /\ Cardinality(AdmittedAt(k)') <= Limit[k[1]]
       /\ CountedAt(k)' # AdmittedAt(k)' =>
             Cardinality(AdmittedAt(k)') >= Limit[k[1]]
  <2>1. CASE n <= Limit[k[1]]
    <3>1. /\ Cardinality(AdmittedAt(k)') = Cardinality(AdmittedAt(k)) + 1
          /\ AdmittedAt(k)' = AdmittedAt(k) \cup {r}
      BY <1>4, <1>7, <1>8, <2>1
    <3>2. Cardinality(AdmittedAt(k)) < Limit[k[1]]
      BY <1>n, <1>3, <1>9, <2>1
    <3>3. CountedAt(k) = AdmittedAt(k)
      BY <1>3, <1>9, <3>2
    <3> QED  BY <1>n, <1>3, <1>5, <1>7, <1>8, <1>9, <3>1, <3>2, <3>3
  <2>2. CASE ~(n <= Limit[k[1]])
    <3>1. AdmittedAt(k)' = AdmittedAt(k)
      BY <1>4, <1>7, <2>2
    <3>2. Cardinality(AdmittedAt(k)) >= Limit[k[1]]
      BY <1>n, <1>3, <1>8, <1>9, <2>2
    <3> QED  BY <1>n, <1>3, <1>5, <1>8, <1>9, <3>1, <3>2
  <2> QED  BY <2>1, <2>2
<1>11. BooksInv'
  <2> SUFFICES ASSUME NEW d \in Caller
               PROVE  /\ Reachable(d)' => counters'[d] = Cardinality(CountedAt(d)')
                      /\ Cardinality(AdmittedAt(d)') <= Limit[d[1]]
                      /\ CountedAt(d)' # AdmittedAt(d)' =>
                            Cardinality(AdmittedAt(d)') >= Limit[d[1]]
    BY Zenon DEF BooksInv, Caller, Limits!Window
  <2>1. CASE d = k
    BY <1>10, <2>1
  <2>2. CASE d # k
    <3>1. CountedAt(d)' = CountedAt(d) /\ AdmittedAt(d)' = AdmittedAt(d)
      BY <1>6, <2>2
    <3>2. Reachable(d)' => Reachable(d)
      BY <1>1 DEF Reachable
    <3> QED  BY <1>5, <2>2, <3>1, <3>2 DEF LimitsInv, BooksInv
  <2> QED  BY <2>1, <2>2
<1>12. /\ limited' \in [Request -> Limits!RequestState]
       /\ \A s \in Request : limited'[s].received <= BodyLimit
       /\ (\A s \in Request : RequestInv(limited[s]))'
  BY <1>1, <1>4, OneRequest
<1>13. counters' \in [Caller -> 0..Cardinality(Request)]
  BY <1>1, <1>3, <1>9
<1> QED  BY <1>1, <1>11, <1>12, <1>13, SameCardinality
         DEF LimitsInv, Limits!TypeOK, Caller, Limits!Window

\* Only counters that no request can still reach are deleted.
LEMMA CleanupStep ==
    ASSUME LimitsInv, Limits!cleanup
    PROVE  LimitsInv'
<1>1. PICK cutoff \in Limits!Window :
         /\ cutoff + MaxDelay <= clock
         /\ counters' = [k \in DOMAIN counters |->
               IF Limits!Expired(k[3], cutoff) THEN 0 ELSE counters[k]]
  BY DEF Limits!cleanup
<1>2. UNCHANGED <<clock, limited>>
  BY DEF Limits!cleanup
<1>3. /\ counters \in [Caller -> 0..Cardinality(Request)]
      /\ clock \in Nat
      /\ cutoff \in Nat
      /\ Cardinality(Request) \in Nat
  BY LimitConstants, FS_CardinalityType, SameCardinality
     DEF LimitsInv, Limits!TypeOK, Caller, Limits!Window
<1>4. counters' \in [Caller -> 0..Cardinality(Request)]
  BY <1>1, <1>3
<1>5. ASSUME NEW k \in Caller, Reachable(k)
      PROVE  counters'[k] = counters[k]
  <2>1. k[3] \in Nat
    BY DEF Caller, Limits!Window
  <2>2. ~Limits!Expired(k[3], cutoff)
    BY <1>1, <1>3, <1>5, <2>1, LimitConstants DEF Reachable, Limits!Expired
  <2> QED  BY <1>1, <1>3, <2>2
<1>6. BooksInv'
  BY <1>2, <1>5, Zenon
     DEF LimitsInv, BooksInv, Reachable, CountedAt, AdmittedAt, Caller, Limits!Window
<1> QED  BY <1>2, <1>4, <1>6, SameCardinality
         DEF LimitsInv, Limits!TypeOK, Caller, Limits!Window, RequestInv

\* The next minute: fewer counters are live.
LEMMA TickStep ==
    ASSUME LimitsInv, Limits!tick
    PROVE  LimitsInv'
<1>1. /\ clock' = clock + 1
      /\ clock < MaxWindow
      /\ \A r \in Request : limited[r].step = "hit" =>
            clock + 1 <= limited[r].window + MaxDelay
      /\ UNCHANGED <<counters, limited>>
  BY DEF Limits!tick, Limits!At
<1>2. clock \in Nat /\ clock' \in Limits!Window
  BY <1>1, LimitConstants DEF LimitsInv, Limits!TypeOK, Limits!Window
<1>3. \A k \in Caller : Reachable(k)' => Reachable(k)
  BY <1>1, <1>2, LimitConstants DEF Reachable, Caller, Limits!Window
<1>4. BooksInv'
  BY <1>1, <1>3, Zenon
     DEF LimitsInv, BooksInv, CountedAt, AdmittedAt, Caller, Limits!Window
<1>5. \A r \in Request : RequestInv(limited[r])'
  BY <1>1 DEF LimitsInv, RequestInv
<1> QED  BY <1>1, <1>2, <1>4, <1>5 DEF LimitsInv, Limits!TypeOK, Limits!Window

\* The limits begin with no request counted.
LEMMA LimitsInit ==
    ASSUME Limits!Init
    PROVE  LimitsInv
<1>1. \A r \in Request :
         /\ limited[r] \in Limits!RequestState
         /\ limited[r].step = "new"
         /\ limited[r].status = "none"
         /\ ~limited[r].admitted
         /\ ~limited[r].started
         /\ limited[r].received = 0
         /\ limited[r].responses = 0
  <2> SUFFICES ASSUME NEW r \in Request
               PROVE  /\ limited[r] \in Limits!RequestState
                      /\ limited[r].step = "new"
                      /\ limited[r].status = "none"
                      /\ ~limited[r].admitted
                      /\ ~limited[r].started
                      /\ limited[r].received = 0
                      /\ limited[r].responses = 0
    OBVIOUS
  <2>1. PICK x : x = limited[r]
    OBVIOUS
  <2>2. x \in [step : {"new"}, endpoint : Endpoint, client : Address,
               window : {0}, received : {0}, started : {FALSE},
               admitted : {FALSE}, status : {"none"}, responses : {0}]
    BY <2>1 DEF Limits!Init
  <2>3. 0 \in Limits!Window
    BY LimitConstants DEF Limits!Window
  <2>4. x \in Limits!RequestState
    <3>1. /\ {"new"} \subseteq Limits!Step
          /\ {"none"} \subseteq Limits!Status
          /\ {0} \subseteq Limits!Window
          /\ {0} \subseteq Nat
      BY <2>3 DEF Limits!Step, Limits!Status
    <3> QED  BY <2>2, <3>1, Zenon DEF Limits!RequestState
  <2>5. /\ x.step = "new"
        /\ x.status = "none"
        /\ x.admitted = FALSE
        /\ x.started = FALSE
        /\ x.received = 0
        /\ x.responses = 0
    BY <2>2, Zenon
  <2> QED  BY <2>1, <2>4, <2>5
<1>2. limited \in [Request -> Limits!RequestState]
  BY <1>1 DEF Limits!Init
<1>3. \A k : CountedAt(k) = {} /\ AdmittedAt(k) = {}
  BY <1>1 DEF CountedAt, AdmittedAt, IsCounted
<1>4. /\ Cardinality({}) = 0
      /\ Cardinality(Request) \in Nat
  BY FS_EmptySet, LimitConstants, FS_CardinalityType
<1>5. BooksInv
  <2> SUFFICES ASSUME NEW k \in Caller
               PROVE  counters[k] = 0 /\ 0 <= Limit[k[1]]
    BY <1>3, <1>4 DEF BooksInv
  <2> QED  BY LimitConstants DEF Limits!Init, Caller
<1>6. Limits!TypeOK
  BY <1>1, <1>2, <1>4, LimitConstants, SameCardinality
     DEF Limits!Init, Limits!TypeOK, Limits!Window
<1> QED  BY <1>1, <1>5, <1>6 DEF LimitsInv, RequestInv

\* Every step of the limits keeps the invariant.
LEMMA LimitsStep ==
    ASSUME LimitsInv, [Limits!Next]_(Limits!vars)
    PROVE  LimitsInv'
<1>1. CASE UNCHANGED Limits!vars
  BY <1>1, Zenon
     DEF Limits!vars, LimitsInv, Limits!TypeOK, BooksInv, Reachable, CountedAt,
         AdmittedAt, RequestInv, Caller, Limits!Window
<1>2. CASE Limits!Next
  BY <1>2, HeadersStep, ReadClockStep, HitStep, ReceiveStep, RespondStep,
     CompleteStep, ExceededStep, CleanupStep, TickStep DEF Limits!Next
<1> QED  BY <1>1, <1>2

\* What the invariant says of the admitted and of the refused.
LEMMA LimitsFollow ==
    ASSUME LimitsInv
    PROVE  /\ Limits!TypeOK
           /\ Limits!AdmittedWithinLimit
           /\ Limits!RefusedAtLimitOnly
           /\ Limits!OneResponse
<1>1. ASSUME NEW r \in Request
      PROVE  /\ Limits!Key(limited[r]) \in Caller
             /\ Limits!Key(limited[r])[1] = limited[r].endpoint
             /\ Limits!Counted(limited[r]) = AdmittedAt(Limits!Key(limited[r]))
             /\ {s \in Request : /\ limited[s].admitted
                                 /\ Limits!SameCaller(limited[s], limited[r])}
                   = AdmittedAt(Limits!Key(limited[r]))
             /\ limited[r].status = "rate_limited" =>
                   /\ r \in CountedAt(Limits!Key(limited[r]))
                   /\ r \notin AdmittedAt(Limits!Key(limited[r]))
  <2>1. limited[r] \in Limits!RequestState /\ RequestInv(limited[r])
    BY RequestTypes
  <2> QED  BY <2>1, KeyIsCaller
           DEF Limits!Counted, Limits!SameCaller, Limits!Key, AdmittedAt,
               CountedAt, IsCounted, RequestInv
<1>2. Limits!AdmittedWithinLimit
  BY <1>1, SameCardinality DEF Limits!AdmittedWithinLimit, LimitsInv, BooksInv
<1>3. Limits!RefusedAtLimitOnly
  BY <1>1, SameCardinality DEF Limits!RefusedAtLimitOnly, LimitsInv, BooksInv
<1> QED  BY <1>2, <1>3 DEF LimitsInv, Limits!OneResponse, RequestInv

\* For any clients, endpoints, limits and delays: no more than the limit get
\* through in one window, whoever is refused has had as many requests admitted,
\* and every request is answered at most once (RateLimitStore.hit,
\* cleanup_ephemeral_records, HttpSecurityMiddleware).
THEOREM LimitsAreKept ==
    Limits!Spec => [](/\ Limits!TypeOK
                      /\ Limits!AdmittedWithinLimit
                      /\ Limits!RefusedAtLimitOnly
                      /\ Limits!OneResponse)
<1>1. Limits!Init => LimitsInv
  BY LimitsInit
<1>2. LimitsInv /\ [Limits!Next]_(Limits!vars) => LimitsInv'
  BY LimitsStep
<1>3. LimitsInv => /\ Limits!TypeOK
                   /\ Limits!AdmittedWithinLimit
                   /\ Limits!RefusedAtLimitOnly
                   /\ Limits!OneResponse
  BY LimitsFollow
<1> QED  BY <1>1, <1>2, <1>3, PTL DEF Limits!Spec

-----------------------------------------------------------------------------
(* The snapshot.  Every database and metadata file there ever is was made  *)
(* of an accepted export, so one that names the export of the other was    *)
(* made of the same one.                                                   *)

Accepted == {e \in CSV : Snapshot!Accepts(e)}
MetadataOf(e) == Snapshot!Metadata(e, Snapshot!Built(e))
Described == {MetadataOf(e) : e \in Accepted}

DatabaseFile == Snapshot!Databases \cup {None}
MetadataFile == Described \cup {None}

FilesInv ==
    /\ database \in DatabaseFile
    /\ metadata \in MetadataFile
    /\ durable \in [database : DatabaseFile, metadata : MetadataFile]
    /\ database_temp \in Snapshot!Databases \cup {None, Snapshot!Empty}
    /\ metadata_temp \in MetadataFile
    /\ updates \in 0..MaxUpdates
    /\ faults \in 0..MaxFaults

\* What an update has done so far.
UpdateInv ==
    /\ pc \in Snapshot!AtRest \cup Snapshot!Building \cup Snapshot!Publishing
    /\ csv \in CSV \cup {None}
    /\ pc = "validate" => csv \in CSV
    /\ pc \in {"write", "metadata", "replace_database", "replace_metadata",
               "fsync", "done"} => csv \in Accepted
    /\ pc \in {"metadata", "replace_database"} =>
          database_temp = Snapshot!Built(csv)
    /\ pc \in {"replace_database", "replace_metadata"} =>
          metadata_temp = MetadataOf(csv)
    /\ pc \in {"replace_metadata", "fsync", "done"} =>
          database = Snapshot!Built(csv)
    /\ pc \in {"fsync", "done"} => metadata = MetadataOf(csv)
    /\ pc = "done" => durable = Snapshot!Pair(database, metadata)
    /\ pc \in Snapshot!Building => Snapshot!Pair(database, metadata) = before

\* What a process has checked, and that it has found a database to open.
ReaderInv ==
    /\ phase \in [Reader -> {"off", "hash", "validate", "serving"}]
    /\ checked \in [Reader -> MetadataFile]
    /\ seen \in [Reader -> DatabaseFile]
    /\ \A r \in Reader : phase[r] # "off" => checked[r] # None /\ database # None
    /\ Snapshot!StartedOnOneBuild
    /\ looked_up \subseteq {200, 404, 409}

SnapshotInv == FilesInv /\ UpdateInv /\ ReaderInv

\* What the database of an accepted export holds: every row that has
\* coordinates has two that are on the globe.
LEMMA BuiltFacts ==
    ASSUME NEW e \in Accepted
    PROVE  /\ Snapshot!Built(e) \in Snapshot!Databases
           /\ Snapshot!Built(e).source_sha256 = e
           /\ Snapshot!Built(e) # Snapshot!Empty
           /\ DOMAIN Snapshot!Built(e).rows = Snapshot!Codes(e)
           /\ \A c \in Snapshot!Codes(e) :
                 Snapshot!RecordValid(Snapshot!Built(e).rows[c])
<1>1. Snapshot!Built(e) \in Snapshot!Databases
  BY DEF Snapshot!Databases, Accepted
<1>2. Snapshot!Built(e).source_sha256 = e
  BY DEF Snapshot!Built
<1>3. DOMAIN Snapshot!Built(e).rows = Snapshot!Codes(e)
  BY DEF Snapshot!Built
<1>4. Snapshot!Built(e) # Snapshot!Empty
  <2>1. DOMAIN Snapshot!Built(e).rows # {}
    BY <1>3 DEF Accepted, Snapshot!Accepts
  <2>2. DOMAIN Snapshot!Empty.rows = {}
    BY DEF Snapshot!Empty
  <2> QED  BY <2>1, <2>2
<1>5. ASSUME NEW c \in Snapshot!Codes(e)
      PROVE  Snapshot!RecordValid(Snapshot!Built(e).rows[c])
  <2>1. PICK row : row = Snapshot!RowOf(e, c)
    OBVIOUS
  <2>2. Snapshot!Built(e).rows[c] = Snapshot!record(row)
    BY <1>5, <2>1 DEF Snapshot!Built
  <2>3. Snapshot!record(row).coordinates
           = Snapshot!coordinates_or_none(row.latitude, row.longitude)
    BY DEF Snapshot!record
  <2>4. ASSUME NEW lat, NEW lon
        PROVE  Snapshot!coordinates_or_none(lat, lon)
                  \in {<<None, None>>, <<"inside", "inside">>}
    <3>1. CASE {lat, lon} = {"inside"}
      <4>1. lat = "inside" /\ lon = "inside"
        BY <3>1
      <4> QED  BY <3>1, <4>1 DEF Snapshot!coordinates_or_none
    <3>2. CASE {lat, lon} # {"inside"}
      BY <3>2 DEF Snapshot!coordinates_or_none
    <3> QED  BY <3>1, <3>2
  <2> QED  BY <2>2, <2>3, <2>4 DEF Snapshot!RecordValid
<1> QED  BY <1>1, <1>2, <1>3, <1>4, <1>5

\* A lookup in a database is answered.
LEMMA AnswerIsDefinite ==
    ASSUME NEW db \in Snapshot!Databases, NEW c
    PROVE  Snapshot!Answer(db, c) \in {200, 404, 409}
<1>1. PICK e \in Accepted : db = Snapshot!Built(e)
  BY DEF Snapshot!Databases, Accepted
<1> QED  BY <1>1, BuiltFacts DEF Snapshot!Answer

\* The metadata of an accepted export.
LEMMA MetadataFacts ==
    ASSUME NEW e \in Accepted
    PROVE  /\ MetadataOf(e) \in Described
           /\ MetadataOf(e) \in Snapshot!Metadatas
           /\ MetadataOf(e).source_sha256 = e
           /\ MetadataOf(e).database_sha256 = Snapshot!Built(e)
           /\ Snapshot!Matching(e)
                 = Snapshot!Pair(Snapshot!Built(e), MetadataOf(e))
           /\ Snapshot!Matching(e).database = Snapshot!Built(e)
           /\ Snapshot!Matching(e).metadata = MetadataOf(e)
<1>1. e \in CSV /\ Len(e) \in Nat
  BY ApiAssumption DEF Accepted
<1>2. MetadataOf(e) \in Snapshot!Metadatas
  BY <1>1, BuiltFacts DEF MetadataOf, Snapshot!Metadata, Snapshot!Metadatas
<1>3. /\ MetadataOf(e).source_sha256 = e
      /\ MetadataOf(e).database_sha256 = Snapshot!Built(e)
  BY DEF MetadataOf, Snapshot!Metadata
<1>4. /\ Snapshot!Matching(e)
            = Snapshot!Pair(Snapshot!Built(e), MetadataOf(e))
      /\ Snapshot!Matching(e).database = Snapshot!Built(e)
      /\ Snapshot!Matching(e).metadata = MetadataOf(e)
  BY DEF Snapshot!Matching, Snapshot!Pair, MetadataOf
<1> QED  BY <1>2, <1>3, <1>4 DEF Described

\* Files are of the kinds TypeOK names.
LEMMA MetadataFiles == MetadataFile \subseteq Snapshot!Metadatas \cup {None}
  BY MetadataFacts DEF MetadataFile, Described

\* A pair has its two files.
LEMMA PairFacts ==
    \A db, meta : /\ Snapshot!Pair(db, meta).database = db
                  /\ Snapshot!Pair(db, meta).metadata = meta
  BY DEF Snapshot!Pair

\* Processes that only see a database change keep what they know.
LEMMA ReadersStay ==
    ASSUME ReaderInv, UNCHANGED <<phase, checked, seen, looked_up>>,
           database # None => database' # None
    PROVE  ReaderInv'
  BY DEF ReaderInv, Snapshot!StartedOnOneBuild

\* Steps of the processes do not touch the files.
LEMMA UpdaterStays ==
    ASSUME FilesInv, UpdateInv,
           UNCHANGED <<database, metadata, durable, pc, csv, database_temp,
                       metadata_temp, before, updates, faults>>
    PROVE  FilesInv' /\ UpdateInv'
  BY DEF FilesInv, UpdateInv

-----------------------------------------------------------------------------
(* The steps of the updater.                                               *)

\* An update begins with the files as they are.
LEMMA DownloadStep ==
    ASSUME SnapshotInv, Snapshot!download_official_csv
    PROVE  SnapshotInv'
<1>1. /\ updates < MaxUpdates
      /\ updates' = updates + 1
      /\ before' = Snapshot!Pair(database, metadata)
      /\ \/ csv' \in CSV /\ pc' = "validate"
         \/ csv' = None /\ pc' = "failed"
      /\ UNCHANGED <<database, metadata, durable, database_temp,
                     metadata_temp, phase, checked, seen, looked_up, faults>>
  BY DEF Snapshot!download_official_csv, Snapshot!file_vars,
         Snapshot!temp_vars, Snapshot!reader_vars
<1>2. FilesInv'
  BY <1>1, ApiAssumption DEF SnapshotInv, FilesInv
<1>3. UpdateInv'
  BY <1>1
     DEF UpdateInv, Snapshot!AtRest, Snapshot!Building, Snapshot!Publishing,
         Snapshot!Pair
<1> QED  BY <1>1, <1>2, <1>3, ReadersStay DEF SnapshotInv

\* An export that is refused ends the update.
LEMMA ValidateRowsStep ==
    ASSUME SnapshotInv, Snapshot!validate_rows
    PROVE  SnapshotInv'
<1>1. /\ pc = "validate"
      /\ \/ /\ Snapshot!Accepts(csv)
            /\ pc' = "write"
            /\ database_temp' = Snapshot!Empty
         \/ pc' = "failed" /\ UNCHANGED database_temp
      /\ UNCHANGED <<database, metadata, durable, metadata_temp, csv, before,
                     phase, checked, seen, looked_up, updates, faults>>
  BY DEF Snapshot!validate_rows, Snapshot!file_vars, Snapshot!reader_vars
<1>2. FilesInv'
  BY <1>1 DEF SnapshotInv, FilesInv
<1>3. UpdateInv'
  BY <1>1
     DEF SnapshotInv, UpdateInv, Snapshot!AtRest, Snapshot!Building,
         Snapshot!Publishing, Snapshot!Pair, Accepted
<1> QED  BY <1>1, <1>2, <1>3, ReadersStay DEF SnapshotInv

\* The database is written beside the published one.
LEMMA WriteDatabaseStep ==
    ASSUME SnapshotInv, Snapshot!write_database
    PROVE  SnapshotInv'
<1>1. /\ pc = "write"
      /\ database_temp' = Snapshot!Built(csv)
      /\ pc' = "metadata"
      /\ UNCHANGED <<database, metadata, durable, metadata_temp, csv, before,
                     phase, checked, seen, looked_up, updates, faults>>
  BY DEF Snapshot!write_database, Snapshot!file_vars, Snapshot!reader_vars
<1>2. csv \in Accepted
  BY <1>1 DEF SnapshotInv, UpdateInv
<1>3. FilesInv'
  BY <1>1, <1>2, BuiltFacts DEF SnapshotInv, FilesInv
<1>4. UpdateInv'
  BY <1>1, <1>2
     DEF SnapshotInv, UpdateInv, Snapshot!AtRest, Snapshot!Building,
         Snapshot!Publishing, Snapshot!Pair
<1> QED  BY <1>1, <1>3, <1>4, ReadersStay DEF SnapshotInv

\* The metadata name the hash of the temporary database.
LEMMA WriteMetadataStep ==
    ASSUME SnapshotInv, Snapshot!write_metadata_temp
    PROVE  SnapshotInv'
<1>1. /\ pc = "metadata"
      /\ metadata_temp' = Snapshot!Metadata(csv, database_temp)
      /\ pc' = "replace_database"
      /\ UNCHANGED <<database, metadata, durable, database_temp, csv, before,
                     phase, checked, seen, looked_up, updates, faults>>
  BY DEF Snapshot!write_metadata_temp, Snapshot!file_vars,
         Snapshot!reader_vars, Snapshot!Hashed
<1>2. csv \in Accepted /\ database_temp = Snapshot!Built(csv)
  BY <1>1 DEF SnapshotInv, UpdateInv
<1>3. metadata_temp' = MetadataOf(csv)
  BY <1>1, <1>2 DEF MetadataOf
<1>4. FilesInv'
  BY <1>1, <1>2, <1>3, MetadataFacts DEF SnapshotInv, FilesInv, MetadataFile
<1>5. UpdateInv'
  BY <1>1, <1>2, <1>3
     DEF SnapshotInv, UpdateInv, Snapshot!AtRest, Snapshot!Building,
         Snapshot!Publishing, Snapshot!Pair
<1> QED  BY <1>1, <1>4, <1>5, ReadersStay DEF SnapshotInv

\* The database is replaced by a finished one.
LEMMA ReplaceDatabaseStep ==
    ASSUME SnapshotInv, Snapshot!replace_database
    PROVE  SnapshotInv'
<1>1. /\ pc = "replace_database"
      /\ database' = database_temp
      /\ database_temp' = None
      /\ pc' = "replace_metadata"
      /\ UNCHANGED <<metadata, durable, metadata_temp, csv, before,
                     phase, checked, seen, looked_up, updates, faults>>
  BY DEF Snapshot!replace_database, Snapshot!reader_vars
<1>2. /\ csv \in Accepted
      /\ database_temp = Snapshot!Built(csv)
      /\ metadata_temp = MetadataOf(csv)
  BY <1>1 DEF SnapshotInv, UpdateInv
<1>3. FilesInv'
  BY <1>1, <1>2, BuiltFacts DEF SnapshotInv, FilesInv, DatabaseFile
<1>4. UpdateInv'
  BY <1>1, <1>2
     DEF SnapshotInv, UpdateInv, Snapshot!AtRest, Snapshot!Building,
         Snapshot!Publishing
<1>5. ReaderInv'
  <2>1. database' # None
    BY <1>1, <1>2, BuiltFacts, ApiAssumption
  <2> QED  BY <1>1, <2>1, ReadersStay DEF SnapshotInv
<1> QED  BY <1>3, <1>4, <1>5 DEF SnapshotInv

\* The metadata follow.
LEMMA ReplaceMetadataStep ==
    ASSUME SnapshotInv, Snapshot!replace_metadata
    PROVE  SnapshotInv'
<1>1. /\ pc = "replace_metadata"
      /\ metadata' = metadata_temp
      /\ metadata_temp' = None
      /\ pc' = "fsync"
      /\ UNCHANGED <<database, durable, database_temp, csv, before,
                     phase, checked, seen, looked_up, updates, faults>>
  BY DEF Snapshot!replace_metadata, Snapshot!reader_vars
<1>2. /\ csv \in Accepted
      /\ metadata_temp = MetadataOf(csv)
  BY <1>1 DEF SnapshotInv, UpdateInv
<1>3. FilesInv'
  BY <1>1, <1>2, MetadataFacts DEF SnapshotInv, FilesInv, MetadataFile
<1>4. UpdateInv'
  BY <1>1, <1>2
     DEF SnapshotInv, UpdateInv, Snapshot!AtRest, Snapshot!Building,
         Snapshot!Publishing
<1> QED  BY <1>1, <1>3, <1>4, ReadersStay DEF SnapshotInv

\* The two renames survive a power loss from now on.
LEMMA FsyncStep ==
    ASSUME SnapshotInv, Snapshot!fsync_directory
    PROVE  SnapshotInv'
<1>1. /\ pc = "fsync"
      /\ durable' = Snapshot!Pair(database, metadata)
      /\ pc' = "done"
      /\ UNCHANGED <<database, metadata, database_temp, metadata_temp, csv,
                     before, phase, checked, seen, looked_up, updates, faults>>
  BY DEF Snapshot!fsync_directory, Snapshot!file_vars, Snapshot!temp_vars,
         Snapshot!reader_vars
<1>2. durable' \in [database : DatabaseFile, metadata : MetadataFile]
  BY <1>1 DEF SnapshotInv, FilesInv, Snapshot!Pair
<1>3. FilesInv'
  BY <1>1, <1>2 DEF SnapshotInv, FilesInv
<1>4. UpdateInv'
  BY <1>1
     DEF SnapshotInv, UpdateInv, Snapshot!AtRest, Snapshot!Building,
         Snapshot!Publishing, Snapshot!Pair
<1> QED  BY <1>1, <1>3, <1>4, ReadersStay DEF SnapshotInv

\* An update fails or is killed: its temporary files do not count any more.
LEMMA AbandonedStep ==
    ASSUME SnapshotInv, Snapshot!build_fails \/ Snapshot!killed
    PROVE  SnapshotInv'
<1>1. /\ pc' \in {"failed", "idle"}
      /\ faults' \in {faults, faults + 1}
      /\ faults' = faults \/ faults < MaxFaults
      /\ database_temp' = None
      /\ metadata_temp' = None
      /\ UNCHANGED <<database, metadata, durable, csv, before, phase, checked,
                     seen, looked_up, updates>>
  BY DEF Snapshot!build_fails, Snapshot!killed, Snapshot!file_vars,
         Snapshot!reader_vars
<1>2. FilesInv'
  BY <1>1, ApiAssumption DEF SnapshotInv, FilesInv, MetadataFile
<1>3. UpdateInv'
  BY <1>1
     DEF SnapshotInv, UpdateInv, Snapshot!AtRest, Snapshot!Building,
         Snapshot!Publishing
<1> QED  BY <1>1, <1>2, <1>3, ReadersStay DEF SnapshotInv

\* Either rename may be lost; no process survives.
LEMMA PowerLossStep ==
    ASSUME SnapshotInv, Snapshot!power_loss
    PROVE  SnapshotInv'
<1>1. /\ faults < MaxFaults
      /\ faults' = faults + 1
      /\ database' \in {database, durable.database}
      /\ metadata' \in {metadata, durable.metadata}
      /\ durable' = Snapshot!Pair(database', metadata')
      /\ pc' = "idle"
      /\ database_temp' = None
      /\ metadata_temp' = None
      /\ phase' = [r \in Reader |-> "off"]
      /\ checked' = [r \in Reader |-> None]
      /\ seen' = [r \in Reader |-> None]
      /\ UNCHANGED <<looked_up, csv, before, updates>>
  BY DEF Snapshot!power_loss
<1>2. database' \in DatabaseFile /\ metadata' \in MetadataFile
  BY <1>1 DEF SnapshotInv, FilesInv
<1>3. durable' \in [database : DatabaseFile, metadata : MetadataFile]
  BY <1>1, <1>2 DEF Snapshot!Pair
<1>4. FilesInv'
  BY <1>1, <1>2, <1>3, ApiAssumption DEF SnapshotInv, FilesInv, MetadataFile
<1>5. UpdateInv'
  BY <1>1
     DEF SnapshotInv, UpdateInv, Snapshot!AtRest, Snapshot!Building,
         Snapshot!Publishing
<1>6. ReaderInv'
  BY <1>1
     DEF SnapshotInv, ReaderInv, Snapshot!StartedOnOneBuild, DatabaseFile,
         MetadataFile
<1> QED  BY <1>4, <1>5, <1>6 DEF SnapshotInv

-----------------------------------------------------------------------------
(* The steps of a process.                                                 *)

\* A process reads the metadata.
LEMMA LoadStep ==
    ASSUME SnapshotInv, NEW r \in Reader, Snapshot!load_metadata(r)
    PROVE  SnapshotInv'
<1>1. /\ database # None
      /\ metadata # None
      /\ phase' = [phase EXCEPT ![r] = "hash"]
      /\ checked' = [checked EXCEPT ![r] = metadata]
      /\ UNCHANGED <<database, metadata, durable, pc, csv, database_temp,
                     metadata_temp, before, seen, looked_up, updates, faults>>
  BY DEF Snapshot!load_metadata, Snapshot!Reads, Snapshot!file_vars,
         Snapshot!temp_vars
<1>2. ReaderInv'
  BY <1>1
     DEF SnapshotInv, FilesInv, ReaderInv, Snapshot!StartedOnOneBuild
<1> QED  BY <1>1, <1>2, UpdaterStays DEF SnapshotInv

\* It compares the hash.
LEMMA HashStep ==
    ASSUME SnapshotInv, NEW r \in Reader, Snapshot!hash_database(r)
    PROVE  SnapshotInv'
<1>1. PICK p \in {"validate", "off"} :
         /\ phase[r] = "hash"
         /\ phase' = [phase EXCEPT ![r] = p]
         /\ UNCHANGED <<database, metadata, durable, pc, csv, database_temp,
                        metadata_temp, before, checked, seen, looked_up,
                        updates, faults>>
  BY DEF Snapshot!hash_database, Snapshot!Reads, Snapshot!file_vars,
         Snapshot!temp_vars
<1>2. ReaderInv'
  BY <1>1 DEF SnapshotInv, ReaderInv, Snapshot!StartedOnOneBuild
<1> QED  BY <1>1, <1>2, UpdaterStays DEF SnapshotInv

\* It opens the database, which names the export the metadata name.
LEMMA ValidateDatabaseStep ==
    ASSUME SnapshotInv, NEW r \in Reader, Snapshot!validate_database(r)
    PROVE  SnapshotInv'
<1>1. /\ phase[r] = "validate"
      /\ \/ /\ Snapshot!InternalAgrees(database, checked[r])
            /\ phase' = [phase EXCEPT ![r] = "serving"]
            /\ seen' = [seen EXCEPT ![r] = database]
         \/ /\ phase' = [phase EXCEPT ![r] = "off"]
            /\ UNCHANGED seen
      /\ UNCHANGED <<database, metadata, durable, pc, csv, database_temp,
                     metadata_temp, before, checked, looked_up, updates, faults>>
  BY DEF Snapshot!validate_database, Snapshot!Reads, Snapshot!file_vars,
         Snapshot!temp_vars
<1>2. /\ database \in Snapshot!Databases
      /\ checked[r] \in Described
  BY <1>1 DEF SnapshotInv, FilesInv, ReaderInv, DatabaseFile, MetadataFile
<1>3. PICK e \in Accepted : database = Snapshot!Built(e)
  BY <1>2 DEF Snapshot!Databases, Accepted
<1>4. PICK f \in Accepted : checked[r] = MetadataOf(f)
  BY <1>2 DEF Described
<1>5. Snapshot!InternalAgrees(database, checked[r]) =>
         /\ database = checked[r].database_sha256
         /\ database.source_sha256 = checked[r].source_sha256
  BY <1>3, <1>4, BuiltFacts, MetadataFacts DEF Snapshot!InternalAgrees
<1>6. ReaderInv'
  BY <1>1, <1>5
     DEF SnapshotInv, FilesInv, ReaderInv, Snapshot!StartedOnOneBuild
<1> QED  BY <1>1, <1>6, UpdaterStays DEF SnapshotInv

\* A lookup opens the database of the moment.
LEMMA LookupStep ==
    ASSUME SnapshotInv, NEW r \in Reader, NEW c \in Code, Snapshot!lookup(r, c)
    PROVE  SnapshotInv'
<1>1. /\ phase[r] = "serving"
      /\ looked_up' = looked_up \cup {Snapshot!Answer(database, c)}
      /\ UNCHANGED <<database, metadata, durable, pc, csv, database_temp,
                     metadata_temp, before, phase, checked, seen, updates,
                     faults>>
  BY DEF Snapshot!lookup, Snapshot!file_vars, Snapshot!temp_vars
<1>2. database \in Snapshot!Databases
  BY <1>1 DEF SnapshotInv, FilesInv, ReaderInv, DatabaseFile
<1>3. Snapshot!Answer(database, c) \in {200, 404, 409}
  BY <1>2, AnswerIsDefinite
<1>4. looked_up' \subseteq {200, 404, 409}
  <2>1. looked_up \subseteq {200, 404, 409}
    BY DEF SnapshotInv, ReaderInv
  <2>2. PICK n : n = Snapshot!Answer(database, c)
    OBVIOUS
  <2>3. looked_up' = looked_up \cup {n} /\ n \in {200, 404, 409}
    BY <1>1, <1>3, <2>2
  <2> QED  BY <2>1, <2>3
<1>5. ReaderInv'
  BY <1>1, <1>4 DEF SnapshotInv, ReaderInv, Snapshot!StartedOnOneBuild
<1> QED  BY <1>1, <1>5, UpdaterStays DEF SnapshotInv

\* A process stops.
LEMMA StopStep ==
    ASSUME SnapshotInv, NEW r \in Reader, Snapshot!stop(r)
    PROVE  SnapshotInv'
<1>1. /\ phase' = [phase EXCEPT ![r] = "off"]
      /\ checked' = [checked EXCEPT ![r] = None]
      /\ seen' = [seen EXCEPT ![r] = None]
      /\ UNCHANGED <<database, metadata, durable, pc, csv, database_temp,
                     metadata_temp, before, looked_up, updates, faults>>
  BY DEF Snapshot!stop, Snapshot!Reads, Snapshot!file_vars, Snapshot!temp_vars
<1>2. ReaderInv'
  BY <1>1
     DEF SnapshotInv, ReaderInv, Snapshot!StartedOnOneBuild, DatabaseFile,
         MetadataFile
<1> QED  BY <1>1, <1>2, UpdaterStays DEF SnapshotInv

-----------------------------------------------------------------------------
\* No snapshot, or one an update has completed.
LEMMA SnapshotInit ==
    ASSUME Snapshot!Init
    PROVE  SnapshotInv
<1>1. /\ \/ database = None /\ metadata = None
         \/ \E e \in Accepted :
               database = Snapshot!Built(e) /\ metadata = MetadataOf(e)
      /\ durable = Snapshot!Pair(database, metadata)
  BY MetadataFacts DEF Snapshot!Init, Accepted
<1>2. database \in DatabaseFile /\ metadata \in MetadataFile
  BY <1>1, BuiltFacts, MetadataFacts DEF DatabaseFile, MetadataFile
<1>3. durable \in [database : DatabaseFile, metadata : MetadataFile]
  BY <1>1, <1>2 DEF Snapshot!Pair
<1>4. FilesInv
  BY <1>2, <1>3, ApiAssumption DEF Snapshot!Init, FilesInv, MetadataFile
<1>5. UpdateInv
  BY DEF Snapshot!Init, UpdateInv, Snapshot!AtRest, Snapshot!Building
<1>6. ReaderInv
  BY DEF Snapshot!Init, ReaderInv, Snapshot!StartedOnOneBuild, DatabaseFile,
         MetadataFile
<1> QED  BY <1>4, <1>5, <1>6 DEF SnapshotInv

\* Every step of updates and processes keeps the invariant.
LEMMA SnapshotStep ==
    ASSUME SnapshotInv, [Snapshot!Next]_(Snapshot!vars)
    PROVE  SnapshotInv'
<1>1. CASE UNCHANGED Snapshot!vars
  BY <1>1, UpdaterStays, ReadersStay DEF SnapshotInv, Snapshot!vars
<1>2. CASE Snapshot!Updater
  BY <1>2, DownloadStep, ValidateRowsStep, WriteDatabaseStep,
     WriteMetadataStep, ReplaceDatabaseStep, ReplaceMetadataStep, FsyncStep,
     AbandonedStep DEF Snapshot!Updater
<1>3. CASE Snapshot!power_loss
  BY <1>3, PowerLossStep
<1>4. CASE \E r \in Reader : Snapshot!Api(r)
  BY <1>4, LoadStep, HashStep, ValidateDatabaseStep, LookupStep, StopStep
     DEF Snapshot!Api
<1> QED  BY <1>1, <1>2, <1>3, <1>4 DEF Snapshot!Next

\* What the invariant says of updates and processes.
LEMMA SnapshotFollows ==
    ASSUME SnapshotInv
    PROVE  /\ Snapshot!TypeOK
           /\ Snapshot!StartedOnOneBuild
           /\ Snapshot!PublishedIsServable
           /\ Snapshot!UpdateRepairs
           /\ Snapshot!NothingBeforeReplace
<1>1. Snapshot!TypeOK
  <2>1. durable \in [database : Snapshot!Databases \cup {None},
                     metadata : Snapshot!Metadatas \cup {None}]
    BY MetadataFiles DEF SnapshotInv, FilesInv, DatabaseFile
  <2>2. looked_up \subseteq {200, 404, 409, 503}
    BY DEF SnapshotInv, ReaderInv
  <2> QED  BY <2>1, <2>2, MetadataFiles
           DEF SnapshotInv, FilesInv, UpdateInv, ReaderInv, DatabaseFile,
               Snapshot!TypeOK
<1>2. Snapshot!PublishedIsServable
  BY DEF SnapshotInv, ReaderInv, Snapshot!PublishedIsServable
<1>3. Snapshot!UpdateRepairs
  BY MetadataFacts DEF SnapshotInv, UpdateInv, Snapshot!UpdateRepairs
<1> QED  BY <1>1, <1>2, <1>3
         DEF SnapshotInv, UpdateInv, ReaderInv, Snapshot!NothingBeforeReplace

\* For any exports and any updates, killed or cut off by a power loss: a process
\* that serves has checked files of one export and answers every lookup; an
\* update that completes leaves a matching pair, and until its first replacement
\* it has changed nothing (build_snapshot against MeteoriticalBulletinSnapshot).
THEOREM SnapshotsAreWhole ==
    Snapshot!Spec => [](/\ Snapshot!TypeOK
                        /\ Snapshot!StartedOnOneBuild
                        /\ Snapshot!PublishedIsServable
                        /\ Snapshot!UpdateRepairs
                        /\ Snapshot!NothingBeforeReplace)
<1>1. Snapshot!Init => SnapshotInv
  BY SnapshotInit
<1>2. SnapshotInv /\ [Snapshot!Next]_(Snapshot!vars) => SnapshotInv'
  BY SnapshotStep
<1>3. SnapshotInv => /\ Snapshot!TypeOK
                     /\ Snapshot!StartedOnOneBuild
                     /\ Snapshot!PublishedIsServable
                     /\ Snapshot!UpdateRepairs
                     /\ Snapshot!NothingBeforeReplace
  BY SnapshotFollows
<1> QED  BY <1>1, <1>2, <1>3, PTL DEF Snapshot!Spec

-----------------------------------------------------------------------------
(* The composition: one of the three is at work, the others stay.          *)

\* Of every behaviour of the API process: the limits hold (RateLimitStore.hit,
\* HttpSecurityMiddleware).
THEOREM ApiLimitsHold == MCSpec => []LimitsHold
<1> DEFINE I == scenario = "limits" => LimitsInv
<1>1. MCInit => I
  BY LimitsInit DEF MCInit
<1>2. I /\ [MCNext]_<<vars, limit_vars, snapshot_vars, scenario>> => I'
  <2> SUFFICES ASSUME scenario' = "limits", I,
                      [MCNext]_<<vars, limit_vars, snapshot_vars, scenario>>
               PROVE  LimitsInv'
    OBVIOUS
  <2>1. scenario = "limits" /\ [Limits!Next]_(Limits!vars)
    BY DEF MCNext, limit_vars, Limits!vars
  <2> QED  BY <2>1, LimitsStep
<1>3. I => LimitsHold
  BY LimitsFollow DEF LimitsHold
<1> QED  BY <1>1, <1>2, <1>3, PTL DEF MCSpec

\* Of every behaviour of the API process: the snapshot it serves is whole
\* (MeteoriticalBulletinSnapshot).
THEOREM ApiSnapshotIsWhole == MCSpec => []SnapshotIsWhole
<1> DEFINE I == scenario = "snapshot" => SnapshotInv
<1>1. MCInit => I
  BY SnapshotInit DEF MCInit
<1>2. I /\ [MCNext]_<<vars, limit_vars, snapshot_vars, scenario>> => I'
  <2> SUFFICES ASSUME scenario' = "snapshot", I,
                      [MCNext]_<<vars, limit_vars, snapshot_vars, scenario>>
               PROVE  SnapshotInv'
    OBVIOUS
  <2>1. scenario = "snapshot" /\ [Snapshot!Next]_(Snapshot!vars)
    BY DEF MCNext, snapshot_vars, Snapshot!vars
  <2> QED  BY <2>1, SnapshotStep
<1>3. I => SnapshotIsWhole
  BY SnapshotFollows DEF SnapshotIsWhole
<1> QED  BY <1>1, <1>2, <1>3, PTL DEF MCSpec
=============================================================================

-------------------------- MODULE Notification_proofs --------------------------
(***************************************************************************)
(* The outbox tells the truth, and what it says is final, for every set of *)
(* workers and webhook requests and every value of the other constants.    *)
(*                                                                         *)
(* OutboxIsSound is not inductive.  Its strengthening says what a worker   *)
(* still holds while its lease has not ended (WorkersInv), that a row      *)
(* which is not settled has no mail yet (RowsInv), that the horizon of a   *)
(* row is counted from before its first mail (MailsInv), and that Resend   *)
(* reports only mails it made (EventsInv).                                 *)
(***************************************************************************)
EXTENDS Notification, SequenceTheorems, TLAPS

-----------------------------------------------------------------------------
(* The inductive invariant.                                                *)

\* A row that may still be sent, or was given up, has no mail of its own, and
\* its horizon was counted from a time that has passed.
RowsInv ==
    \A m \in Message : rows[m] # None =>
        /\ rows[m].state \in Unsent \cup {"dead_letter"} =>
              rows[m].provider_id = 0
        /\ rows[m].expires <= clock + Horizon

\* While its lease has not ended, a worker holds its row; an accepted answer
\* names a mail made from the worker's message.
Holds(w) ==
    /\ rows[workers[w].msg].state = "leased"
    /\ rows[workers[w].msg].owner = w
    /\ rows[workers[w].msg].lease_until = workers[w].now + LeaseFor
WorkersInv ==
    \A w \in Worker : workers[w] # None =>
        /\ rows[workers[w].msg] # None
        /\ workers[w].now + LeaseFor >= clock => Holds(w)
        /\ workers[w].answer # None /\ workers[w].answer.kind = "accepted" =>
              /\ workers[w].answer.mail \in 1..Len(mails)
              /\ mails[workers[w].answer.mail].msg = workers[w].msg

\* A mail was made from a row, not before the row was enqueued.
MailsInv ==
    \A i \in 1..Len(mails) :
        /\ rows[mails[i].msg] # None
        /\ rows[mails[i].msg].expires <= mails[i].at + Horizon

\* Stored and pending events were reported, of mails that were made.
EventsInv ==
    /\ events \subseteq reported
    /\ \A h \in Hook : hooks[h] # None => hooks[h] \in reported
    /\ \A e \in reported : e.mail \in 1..Len(mails)

IInv ==
    /\ TypeOK
    /\ AttemptsAreHistory
    /\ OneMailWithinHorizon
    /\ DeliveredByItsMail
    /\ RowsInv
    /\ WorkersInv
    /\ MailsInv
    /\ EventsInv

-----------------------------------------------------------------------------
(* Rows, attempts and mails.                                               *)

\* Released keeps a row a row, without its lease.
LEMMA ReleasedRow ==
    ASSUME NEW r \in Row, NEW s \in RowState
    PROVE  /\ Released(r, s) \in Row
           /\ Released(r, s).state = s
           /\ Released(r, s).attempt = r.attempt
           /\ Released(r, s).expires = r.expires
           /\ Released(r, s).count = r.count
           /\ Released(r, s).provider_id = r.provider_id
  BY DEF Released, Row

\* Finishing an attempt keeps the number of attempts, and leaves none open.
LEMMA FinishOpenProperties ==
    ASSUME NEW s \in Seq(Outcome \cup {None}), NEW outcome \in Outcome
    PROVE  /\ FinishOpen(s, outcome) \in Seq(Outcome \cup {None})
           /\ Len(FinishOpen(s, outcome)) = Len(s)
           /\ \A i \in 1..Len(s) : FinishOpen(s, outcome)[i] # None
<1>n. None \notin Outcome
  BY ConstantsAssumption
<1>1. Len(s) \in Nat /\ \A i \in 1..Len(s) : s[i] \in Outcome \cup {None}
  OBVIOUS
<1>2. FinishOpen(s, outcome) \in [1..Len(s) -> Outcome]
  BY <1>1 DEF FinishOpen
<1>3. FinishOpen(s, outcome) \in Seq(Outcome)
  BY <1>1, <1>2
<1>4. Len(FinishOpen(s, outcome)) = Len(s)
  BY <1>1, <1>2, <1>3
<1> QED  BY <1>n, <1>1, <1>2, <1>3, <1>4

\* The attempts of one message after a claim: all ended, and one more open.
LEMMA ClaimedAttempts ==
    ASSUME NEW s \in Seq(Outcome \cup {None}),
           NEW t, t = Append(FinishOpen(s, "lease_expired"), None)
    PROVE  /\ t \in Seq(Outcome \cup {None})
           /\ Len(t) = Len(s) + 1
           /\ \A i \in 1..Len(t) : t[i] = None <=> i = Len(t)
<1> DEFINE f == FinishOpen(s, "lease_expired")
<1>0. "lease_expired" \in Outcome
  BY DEF Outcome
<1>1. /\ f \in Seq(Outcome \cup {None})
      /\ Len(f) = Len(s)
      /\ \A i \in 1..Len(s) : f[i] # None
  BY <1>0, FinishOpenProperties
<1> HIDE DEF f
<1>2. t = Append(f, None)
  BY DEF f
<1>3. /\ t \in Seq(Outcome \cup {None})
      /\ Len(t) = Len(f) + 1
      /\ \A i \in 1..Len(f) : t[i] = f[i]
      /\ t[Len(f) + 1] = None
  <2>1. None \in Outcome \cup {None}
    OBVIOUS
  <2>2. /\ Append(f, None) \in Seq(Outcome \cup {None})
        /\ Append(f, None) # <<>>
        /\ Len(Append(f, None)) = Len(f) + 1
        /\ \A i \in 1..Len(f) : Append(f, None)[i] = f[i]
        /\ Append(f, None)[Len(f) + 1] = None
    BY <1>1, <2>1, AppendProperties, ZenonT(30)
  <2> QED  BY <1>2, <2>2, Zenon
<1> QED  BY <1>1, <1>3

\* The mails after a request: as before, or one more, made from the message
\* now and only when no mail of the message is within its horizon.
LEMMA TakenMails ==
    ASSUME TypeOK, NEW m \in Message
    PROVE  /\ Taken(m) \in Seq([msg : Message, at : Nat])
           /\ Len(Taken(m)) \in {Len(mails), Len(mails) + 1}
           /\ \A i \in 1..Len(mails) : Taken(m)[i] = mails[i]
           /\ Len(Taken(m)) = Len(mails) + 1 =>
                 /\ Taken(m)[Len(mails) + 1].msg = m
                 /\ Taken(m)[Len(mails) + 1].at = clock
                 /\ \A i \in 1..Len(mails) :
                       mails[i].msg = m => clock >= mails[i].at + Horizon
           /\ MailOf(m) \in 1..Len(Taken(m))
           /\ Taken(m)[MailOf(m)].msg = m
<1>1. /\ mails \in Seq([msg : Message, at : Nat])
      /\ Len(mails) \in Nat
      /\ clock \in Nat
      /\ Horizon \in Nat
      /\ \A i \in 1..Len(mails) : mails[i].at \in Nat
  <2>1. mails \in Seq([msg : Message, at : Nat])
    BY DEF TypeOK
  <2>2. clock \in Nat /\ Horizon \in Nat
    BY ConstantsAssumption DEF TypeOK
  <2>3. \A i \in 1..Len(mails) : mails[i] \in [msg : Message, at : Nat]
    BY <2>1, ElementOfSeq
  <2> QED  BY <2>1, <2>2, <2>3
<1>2. CASE Known(m) = {}
  <2> DEFINE x == [msg |-> m, at |-> clock]
  <2>1. x \in [msg : Message, at : Nat]
    BY <1>1
  <2>2. Taken(m) = Append(mails, x) /\ MailOf(m) = Len(mails) + 1
    BY <1>2 DEF Taken, MailOf
  <2>3. \A i \in 1..Len(mails) : mails[i].msg = m => clock >= mails[i].at + Horizon
    BY <1>1, <1>2 DEF Known, SameKey
  <2>4. x.msg = m /\ x.at = clock
    OBVIOUS
  <2> HIDE DEF x
  <2>5. /\ Taken(m) \in Seq([msg : Message, at : Nat])
        /\ Len(Taken(m)) = Len(mails) + 1
        /\ \A i \in 1..Len(mails) : Taken(m)[i] = mails[i]
        /\ Taken(m)[Len(mails) + 1] = x
    BY <1>1, <2>1, <2>2, AppendProperties
  <2> QED  BY <1>1, <2>2, <2>3, <2>4, <2>5
<1>3. CASE Known(m) # {}
  <2>1. Taken(m) = mails /\ MailOf(m) \in Known(m)
    BY <1>3 DEF Taken, MailOf
  <2>2. MailOf(m) \in 1..Len(mails) /\ mails[MailOf(m)].msg = m
    BY <2>1 DEF Known, SameKey
  <2> QED  BY <1>1, <2>1, <2>2
<1> QED  BY <1>2, <1>3

\* What the type invariant says of each row, worker, mail and event.
LEMMA Types ==
    ASSUME TypeOK
    PROVE  /\ clock \in Nat /\ Horizon \in Nat /\ LeaseFor \in Nat
           /\ \A m \in Message : rows[m] # None => rows[m] \in Row
           /\ \A m \in Message : attempts[m] \in Seq(Outcome \cup {None})
           /\ \A w \in Worker : workers[w] # None => workers[w] \in Locals
           /\ \A i \in 1..Len(mails) :
                 mails[i].msg \in Message /\ mails[i].at \in Nat
<1>1. clock \in Nat /\ Horizon \in Nat /\ LeaseFor \in Nat
  BY ConstantsAssumption DEF TypeOK
<1>2. /\ \A m \in Message : rows[m] # None => rows[m] \in Row
      /\ \A m \in Message : attempts[m] \in Seq(Outcome \cup {None})
      /\ \A w \in Worker : workers[w] # None => workers[w] \in Locals
  BY DEF TypeOK
<1>3. mails \in Seq([msg : Message, at : Nat])
  BY DEF TypeOK
<1>4. \A i \in 1..Len(mails) : mails[i] \in [msg : Message, at : Nat]
  BY <1>3, ElementOfSeq
<1> QED  BY <1>1, <1>2, <1>4

\* None is not a row, a worker's locals, an event or an answer.
LEMMA NoneIsNothing ==
    /\ None \notin Row
    /\ None \notin Locals
    /\ None \notin Event
    /\ None \notin Answer
    /\ None \notin Worker
    /\ None \notin Outcome
  BY ConstantsAssumption

\* The fields of a row.
LEMMA RowFields ==
    ASSUME NEW r \in Row
    PROVE  /\ r.state \in RowState
           /\ r.attempt \in Nat
           /\ r.available_at \in Nat
           /\ r.expires \in Nat
           /\ r.count \in Nat
           /\ r.provider_id \in Nat
  BY DEF Row

\* The fields of a worker's locals.
LEMMA LocalsFields ==
    ASSUME NEW x \in Locals
    PROVE  /\ x.msg \in Message
           /\ x.attempt \in Nat
           /\ x.now \in Nat
           /\ x.answer # None => x.answer \in Answer
  BY DEF Locals

\* AttemptsAreHistory, of one row and its attempts.
History(r, s) ==
    /\ Len(s) = (IF r = None THEN 0 ELSE r.attempt)
    /\ \A i \in 1..Len(s) : s[i] = None <=> i = Len(s) /\ r.state = "leased"

\* AttemptsAreHistory says it of every message.
LEMMA HistoryOfEach ==
    AttemptsAreHistory <=> \A m \in Message : History(rows[m], attempts[m])
  BY DEF AttemptsAreHistory, History

\* A row that is released when its open attempt is finished keeps its history.
LEMMA FinishedHistory ==
    ASSUME NEW r \in Row, NEW q \in Row, NEW s \in Seq(Outcome \cup {None}),
           History(r, s), NEW outcome \in Outcome,
           q.attempt = r.attempt, q.state # "leased"
    PROVE  History(q, FinishOpen(s, outcome))
<1>1. r # None /\ q # None
  BY NoneIsNothing
<1>2. Len(s) = r.attempt
  BY <1>1 DEF History
<1> QED  BY <1>1, <1>2, FinishOpenProperties DEF History

\* What the sweep makes of a row: nothing, or a dead letter of one that nobody
\* holds and that has no mail.
LEMMA SweptRow ==
    ASSUME TypeOK, NEW m \in Message, History(rows[m], attempts[m])
    PROVE  /\ Swept(m) \in Row \cup {None}
           /\ Swept(m) = None <=> rows[m] = None
           /\ SweptAttempts(m) \in Seq(Outcome \cup {None})
           /\ History(Swept(m), SweptAttempts(m))
           /\ rows[m] # None => /\ Swept(m).expires = rows[m].expires
                                /\ Swept(m).provider_id = rows[m].provider_id
           /\ \/ Swept(m) = rows[m]
              \/ /\ rows[m] # None
                 /\ Takable(rows[m])
                 /\ rows[m].provider_id = 0
                 /\ Swept(m).state = "dead_letter"
<1>0. "dead_letter" \in Outcome /\ "dead_letter" \in RowState
  BY DEF Outcome, RowState
<1>t. /\ rows[m] \in Row \cup {None}
      /\ attempts[m] \in Seq(Outcome \cup {None})
  BY DEF TypeOK
<1>1. CASE ~Expires(m)
  BY <1>1, <1>t DEF Swept, SweptAttempts
<1>2. CASE Expires(m)
  <2>1. /\ Swept(m) = Released(rows[m], "dead_letter")
        /\ SweptAttempts(m) = FinishOpen(attempts[m], "dead_letter")
    BY <1>2 DEF Swept, SweptAttempts
  <2>2. rows[m] # None /\ Takable(rows[m]) /\ rows[m].provider_id = 0
    BY <1>2 DEF Expires
  <2>3. rows[m] \in Row
    BY <2>2, <1>t
  <2>4. /\ Swept(m) \in Row
        /\ Swept(m).state = "dead_letter"
        /\ Swept(m).attempt = rows[m].attempt
        /\ Swept(m).expires = rows[m].expires
        /\ Swept(m).provider_id = rows[m].provider_id
    BY <1>0, <2>1, <2>3, ReleasedRow
  <2>5. History(Swept(m), SweptAttempts(m))
    BY <1>0, <1>t, <2>1, <2>3, <2>4, FinishedHistory
  <2>6. SweptAttempts(m) \in Seq(Outcome \cup {None})
    BY <1>0, <1>t, <2>1, FinishOpenProperties
  <2> QED  BY <2>2, <2>4, <2>5, <2>6, NoneIsNothing
<1> QED  BY <1>1, <1>2

\* While rows stay and keep their horizon, so do the facts about the mails.
LEMMA HorizonKept ==
    ASSUME IInv, mails' = mails,
           \A m \in Message : rows[m] # None =>
               rows'[m] # None /\ rows'[m].expires = rows[m].expires
    PROVE  MailsInv' /\ OneMailWithinHorizon'
<1>1. \A i \in 1..Len(mails) : mails[i].msg \in Message
  BY Types DEF IInv
<1>2. \A i \in 1..Len(mails) :
         /\ rows'[mails[i].msg] # None
         /\ rows'[mails[i].msg].expires = rows[mails[i].msg].expires
  BY <1>1 DEF IInv, MailsInv
<1>3. MailsInv'
  BY <1>2 DEF IInv, MailsInv
<1>4. OneMailWithinHorizon'
  BY <1>2 DEF IInv, OneMailWithinHorizon
<1> QED  BY <1>3, <1>4

-----------------------------------------------------------------------------
(* The steps, one lemma for each kind.                                     *)

\* The handlers change what the order is, not what the outbox says of it.
LEMMA OrderStep ==
    ASSUME IInv, append \/ put_bundle \/ manual_review
                 \/ \E n \in 1..FinalConfirmations : record_once(n)
    PROVE  IInv'
<1>1. UNCHANGED <<rows, attempts, events, workers, hooks, mails, reported, clock>>
  BY DEF append, record_once, put_bundle, manual_review, outbox_vars, resend_vars
<1>2. /\ version' \in 1..MaxVersion
      /\ fulfillment' \in Confirmed \cup {"manual_review"}
  BY ConstantsAssumption
     DEF IInv, TypeOK, append, record_once, put_bundle, manual_review, Confirmed
<1>3. count' \in Nat /\ observed' \in Nat
  BY ConstantsAssumption
     DEF IInv, TypeOK, append, record_once, put_bundle, manual_review
<1>4. bundled' \in BOOLEAN
  BY DEF IInv, TypeOK, append, record_once, put_bundle, manual_review
<1>5. TypeOK'
  BY <1>1, <1>2, <1>3, <1>4 DEF IInv, TypeOK
<1>6. AttemptsAreHistory' /\ OneMailWithinHorizon' /\ DeliveredByItsMail'
  BY <1>1 DEF IInv, AttemptsAreHistory, OneMailWithinHorizon, DeliveredByItsMail
<1>7. RowsInv' /\ WorkersInv' /\ MailsInv' /\ EventsInv'
  BY <1>1 DEF IInv, RowsInv, WorkersInv, MailsInv, EventsInv, Holds
<1> QED  BY <1>5, <1>6, <1>7 DEF IInv

\* A new row begins with no attempt, no mail and the horizon before it.
LEMMA EnqueueStep ==
    ASSUME IInv, NEW k \in NotificationKind, enqueue(k)
    PROVE  IInv'
<1>m. PICK m : m = [kind |-> k, version |-> version]
  OBVIOUS
<1>x. PICK x : x = [state |-> "available", attempt |-> 0, available_at |-> clock,
                    lease_until |-> None, owner |-> None,
                    expires |-> clock + Horizon, count |-> count,
                    provider_id |-> 0]
  OBVIOUS
<1>1. /\ rows[m] = None
      /\ rows' = [rows EXCEPT ![m] = x]
      /\ UNCHANGED <<fulfillment, version, count, bundled, observed, attempts,
                     events, workers, hooks, mails, reported, clock>>
  BY <1>m, <1>x DEF enqueue, order_vars, resend_vars
<1>2. m \in Message /\ clock \in Nat /\ Horizon \in Nat /\ count \in Nat
  BY <1>m, ConstantsAssumption DEF IInv, TypeOK, Message
<1>3. /\ x \in Row
      /\ x # None
      /\ x.state = "available"
      /\ x.attempt = 0
      /\ x.expires = clock + Horizon
      /\ x.provider_id = 0
  BY <1>x, <1>2, NoneIsNothing DEF Row, RowState
<1>4. \A n \in Message : rows'[n] = IF n = m THEN x ELSE rows[n]
  BY <1>1, <1>2 DEF IInv, TypeOK
<1>5. TypeOK'
  <2>1. rows' \in [Message -> Row \cup {None}]
    BY <1>1, <1>2, <1>3 DEF IInv, TypeOK
  <2> QED  BY <1>1, <2>1 DEF IInv, TypeOK
<1>6. AttemptsAreHistory'
  BY <1>1, <1>2, <1>3, <1>4 DEF IInv, AttemptsAreHistory
<1>7. MailsInv' /\ OneMailWithinHorizon'
  BY <1>1, <1>4, HorizonKept
<1>8. DeliveredByItsMail'
  BY <1>1, <1>3, <1>4 DEF IInv, DeliveredByItsMail
<1>9. RowsInv'
  BY <1>1, <1>2, <1>3, <1>4 DEF IInv, RowsInv
<1>10. WorkersInv'
  <2>1. \A w \in Worker : workers[w] # None =>
           workers[w].msg \in Message /\ workers[w].msg # m
    BY <1>1, Types, LocalsFields DEF IInv, WorkersInv
  <2> QED  BY <1>1, <1>4, <2>1 DEF IInv, WorkersInv, Holds
<1>11. EventsInv'
  BY <1>1 DEF IInv, EventsInv
<1> QED  BY <1>5, <1>6, <1>7, <1>8, <1>9, <1>10, <1>11 DEF IInv

\* A step that releases a worker, and changes nothing else.
LEMMA DropStep ==
    ASSUME IInv, NEW w \in Worker, lease_stale(w) \/ crash(w)
    PROVE  IInv'
<1>1. /\ workers' = [workers EXCEPT ![w] = None]
      /\ UNCHANGED <<fulfillment, version, count, bundled, observed, rows,
                     attempts, events, hooks, mails, reported, clock>>
  BY DEF lease_stale, crash, Done, order_vars, outbox_vars, resend_vars
<1>2. \A v \in Worker : workers'[v] # None => workers'[v] = workers[v]
  BY <1>1 DEF IInv, TypeOK
<1>3. TypeOK'
  BY <1>1 DEF IInv, TypeOK
<1>4. AttemptsAreHistory' /\ OneMailWithinHorizon' /\ DeliveredByItsMail'
  BY <1>1 DEF IInv, AttemptsAreHistory, OneMailWithinHorizon, DeliveredByItsMail
<1>5. RowsInv' /\ MailsInv' /\ EventsInv'
  BY <1>1 DEF IInv, RowsInv, MailsInv, EventsInv
<1>6. WorkersInv'
  BY <1>1, <1>2 DEF IInv, WorkersInv, Holds
<1> QED  BY <1>3, <1>4, <1>5, <1>6 DEF IInv

\* Time passes: a lease may end, a horizon comes nearer.
LEMMA TickStep ==
    ASSUME IInv, tick
    PROVE  IInv'
<1>1. /\ clock' = clock + 1
      /\ UNCHANGED <<fulfillment, version, count, bundled, observed, rows,
                     attempts, events, workers, hooks, mails, reported>>
  BY DEF tick, order_vars, outbox_vars, resend_vars
<1>t. clock \in Nat /\ Horizon \in Nat /\ LeaseFor \in Nat
  BY Types DEF IInv
<1>2. TypeOK'
  BY <1>1, <1>t DEF IInv, TypeOK
<1>3. AttemptsAreHistory' /\ OneMailWithinHorizon' /\ DeliveredByItsMail'
  BY <1>1 DEF IInv, AttemptsAreHistory, OneMailWithinHorizon, DeliveredByItsMail
<1>4. MailsInv' /\ EventsInv'
  BY <1>1 DEF IInv, MailsInv, EventsInv
<1>5. RowsInv'
  <2>1. \A m \in Message : rows[m] # None => rows[m].expires \in Nat
    BY Types, RowFields DEF IInv
  <2> QED  BY <1>1, <1>t, <2>1 DEF IInv, RowsInv
<1>6. WorkersInv'
  <2>1. \A w \in Worker : workers[w] # None => workers[w].now \in Nat
    BY Types, LocalsFields DEF IInv
  <2>2. \A w \in Worker : workers[w] # None /\ workers[w].now + LeaseFor >= clock'
           => workers[w].now + LeaseFor >= clock
    BY <1>1, <1>t, <2>1
  <2> QED  BY <1>1, <2>2 DEF IInv, WorkersInv, Holds
<1> QED  BY <1>2, <1>3, <1>4, <1>5, <1>6 DEF IInv

\* Resend reports a mail it made.
LEMMA ReportStep ==
    ASSUME IInv, Report
    PROVE  IInv'
<1>1. PICK i \in 1..Len(mails), t \in Reports : report([mail |-> i, type |-> t])
  BY DEF Report
<1>2. PICK e : e = [mail |-> i, type |-> t]
  OBVIOUS
<1>3. /\ reported' = reported \cup {e}
      /\ UNCHANGED <<fulfillment, version, count, bundled, observed, rows,
                     attempts, events, workers, hooks, mails, clock>>
  BY <1>1, <1>2 DEF report, order_vars, outbox_vars
<1>4. e \in Event /\ e.mail = i
  <2>1. Len(mails) \in Nat
    BY DEF IInv, TypeOK
  <2>2. i \in Nat /\ t \in EventType
    BY <2>1, ConstantsAssumption
  <2> QED  BY <1>2, <2>2 DEF Event
<1>5. TypeOK'
  BY <1>3, <1>4 DEF IInv, TypeOK
<1>6. EventsInv'
  BY <1>3, <1>4 DEF IInv, EventsInv
<1>7. AttemptsAreHistory' /\ OneMailWithinHorizon' /\ DeliveredByItsMail'
  BY <1>3 DEF IInv, AttemptsAreHistory, OneMailWithinHorizon, DeliveredByItsMail
<1>8. RowsInv' /\ MailsInv' /\ WorkersInv'
  BY <1>3 DEF IInv, RowsInv, MailsInv, WorkersInv, Holds
<1> QED  BY <1>5, <1>6, <1>7, <1>8 DEF IInv

\* What a worker's holding tells of a row that another may take: its lease has
\* ended.
LEMMA HeldIsNotTakable ==
    ASSUME IInv, NEW w \in Worker, workers[w] # None,
           Takable(rows[workers[w].msg])
    PROVE  ~(workers[w].now + LeaseFor >= clock)
<1>1. /\ workers[w].now \in Nat
      /\ clock \in Nat /\ LeaseFor \in Nat
  BY Types, LocalsFields DEF IInv
<1>2. SUFFICES ASSUME workers[w].now + LeaseFor >= clock
               PROVE  FALSE
  OBVIOUS
<1>3. Holds(w)
  BY <1>2 DEF IInv, WorkersInv
<1>4. /\ rows[workers[w].msg].state = "leased"
      /\ rows[workers[w].msg].lease_until = workers[w].now + LeaseFor
  BY <1>3 DEF Holds
<1>5. rows[workers[w].msg].lease_until < clock
  BY <1>4 DEF Takable
<1> QED  BY <1>1, <1>2, <1>4, <1>5

\* The sweep of some messages, with everything else of a claim left out.
LEMMA SweepKeeps ==
    ASSUME IInv, NEW m \in Message
    PROVE  /\ Swept(m) \in Row \cup {None}
           /\ Swept(m) = None <=> rows[m] = None
           /\ SweptAttempts(m) \in Seq(Outcome \cup {None})
           /\ History(Swept(m), SweptAttempts(m))
           /\ rows[m] # None => /\ Swept(m).expires = rows[m].expires
                                /\ Swept(m).provider_id = rows[m].provider_id
           /\ \/ Swept(m) = rows[m]
              \/ /\ rows[m] # None
                 /\ Takable(rows[m])
                 /\ rows[m].provider_id = 0
                 /\ Swept(m).state = "dead_letter"
  BY HistoryOfEach, SweptRow DEF IInv

\* A worker takes a row and the sweep gives up others; no worker loses a lease
\* that has not ended.
LEMMA ClaimStep ==
    ASSUME IInv, NEW w \in Worker, NEW m \in Message, claim(w, m)
    PROVE  IInv'
<1>t. clock \in Nat /\ Horizon \in Nat /\ LeaseFor \in Nat
  BY Types DEF IInv
<1>0. /\ rows[m] # None
      /\ Takable(rows[m])
      /\ rows[m].provider_id = 0
  BY DEF claim, Claimable
<1>r. /\ rows[m] \in Row
      /\ rows[m].attempt \in Nat
      /\ rows[m].expires \in Nat
  BY <1>0, Types, RowFields DEF IInv
<1>x. PICK x : x = lease(w, m)
  OBVIOUS
<1>1. /\ x \in Row
      /\ x # None
      /\ x.state = "leased"
      /\ x.owner = w
      /\ x.attempt = rows[m].attempt + 1
      /\ x.lease_until = clock + LeaseFor
      /\ x.expires = rows[m].expires
      /\ x.provider_id = 0
  <2>1. clock + LeaseFor \in Nat /\ rows[m].attempt + 1 \in Nat
    BY <1>t, <1>r
  <2>2. /\ x \in Row
        /\ x.state = "leased"
        /\ x.owner = w
        /\ x.attempt = rows[m].attempt + 1
        /\ x.lease_until = clock + LeaseFor
        /\ x.expires = rows[m].expires
        /\ x.provider_id = rows[m].provider_id
    BY <1>x, <1>r, <2>1, Zenon DEF lease, Row, RowState
  <2> QED  BY <1>0, <2>2, NoneIsNothing
<1>y. PICK y : y = [msg |-> m, attempt |-> x.attempt, now |-> clock, answer |-> None]
  OBVIOUS
<1>2. /\ workers[w] = None
      /\ \A n \in Message : rows'[n] = IF n = m THEN x ELSE Swept(n)
      /\ \A n \in Message : attempts'[n] =
            IF n = m THEN Append(FinishOpen(attempts[m], "lease_expired"), None)
            ELSE SweptAttempts(n)
      /\ workers' = [workers EXCEPT ![w] = y]
      /\ rows' = [n \in Message |-> rows'[n]]
      /\ attempts' = [n \in Message |-> attempts'[n]]
      /\ UNCHANGED <<fulfillment, version, count, bundled, observed, events,
                     hooks, mails, reported, clock>>
  BY <1>x, <1>y DEF claim, order_vars, resend_vars
<1>3. /\ attempts'[m] \in Seq(Outcome \cup {None})
      /\ Len(attempts'[m]) = Len(attempts[m]) + 1
      /\ \A i \in 1..Len(attempts'[m]) : attempts'[m][i] = None <=> i = Len(attempts'[m])
  BY <1>2, Types, ClaimedAttempts DEF IInv
<1>4. History(rows'[m], attempts'[m])
  <2>1. Len(attempts[m]) = rows[m].attempt
    BY <1>0 DEF IInv, AttemptsAreHistory
  <2>2. rows'[m] = x
    BY <1>2
  <2> QED  BY <1>1, <1>3, <2>1, <2>2 DEF History
<1>5. AttemptsAreHistory'
  <2>1. ASSUME NEW n \in Message, n # m
        PROVE  History(rows'[n], attempts'[n])
    BY <1>2, <2>1, SweepKeeps
  <2> QED  BY <1>4, <2>1 DEF AttemptsAreHistory, History
<1>6. TypeOK'
  <2>1. rows' \in [Message -> Row \cup {None}]
    BY <1>1, <1>2, SweepKeeps
  <2>2. attempts' \in [Message -> Seq(Outcome \cup {None})]
    BY <1>2, <1>3, SweepKeeps
  <2>3. y \in Locals
    BY <1>y, <1>1, <1>t, RowFields DEF Locals
  <2>4. workers' \in [Worker -> Locals \cup {None}]
    BY <1>2, <2>3 DEF IInv, TypeOK
  <2> QED  BY <1>2, <2>1, <2>2, <2>4 DEF IInv, TypeOK
<1>7. \A n \in Message : rows[n] # None =>
         /\ rows'[n] # None
         /\ rows'[n].expires = rows[n].expires
         /\ rows'[n].provider_id = rows[n].provider_id
  BY <1>0, <1>1, <1>2, SweepKeeps
<1>8. MailsInv' /\ OneMailWithinHorizon'
  BY <1>2, <1>7, HorizonKept
<1>9. ASSUME NEW n \in Message, rows'[n] # None
      PROVE  /\ rows[n] # None
             /\ rows'[n] = rows[n] \/ rows'[n].state = "dead_letter"
                                   \/ n = m
  BY <1>0, <1>2, <1>9, SweepKeeps
<1>10. DeliveredByItsMail'
  <2>1. ASSUME NEW n \in Message, rows'[n] # None
        PROVE  \/ rows'[n] = rows[n]
               \/ rows'[n].provider_id = 0 /\ rows'[n].state \in {"leased", "dead_letter"}
    BY <1>1, <1>2, <2>1, SweepKeeps
  <2> QED  BY <1>2, <2>1, Zenon DEF IInv, DeliveredByItsMail
<1>11. RowsInv'
  <2>1. SUFFICES ASSUME NEW n \in Message, rows'[n] # None
                 PROVE  /\ rows'[n].state \in Unsent \cup {"dead_letter"} =>
                              rows'[n].provider_id = 0
                        /\ rows'[n].expires <= clock + Horizon
    BY <1>2 DEF RowsInv
  <2>2. rows[n] # None
    BY <1>9, <2>1
  <2>3. rows'[n].expires <= clock + Horizon
    BY <1>7, <2>2 DEF IInv, RowsInv
  <2>4. \/ rows'[n] = rows[n]
        \/ rows'[n].provider_id = 0
    BY <1>1, <1>2, <2>1, SweepKeeps
  <2> QED  BY <2>2, <2>3, <2>4 DEF IInv, RowsInv
<1>12. WorkersInv'
  <2>1. SUFFICES ASSUME NEW v \in Worker, workers'[v] # None
                 PROVE  /\ rows'[workers'[v].msg] # None
                        /\ workers'[v].now + LeaseFor >= clock =>
                              /\ rows'[workers'[v].msg].state = "leased"
                              /\ rows'[workers'[v].msg].owner = v
                              /\ rows'[workers'[v].msg].lease_until
                                    = workers'[v].now + LeaseFor
                        /\ workers'[v].answer # None
                           /\ workers'[v].answer.kind = "accepted" =>
                              /\ workers'[v].answer.mail \in 1..Len(mails)
                              /\ mails[workers'[v].answer.mail].msg = workers'[v].msg
    BY <1>2 DEF WorkersInv, Holds
  <2>2. CASE v = w
    <3>1. workers'[v] = y
      BY <1>2, <2>2 DEF IInv, TypeOK
    <3>2. y.msg = m /\ y.now = clock /\ y.answer = None
      BY <1>y
    <3>3. rows'[m] = x
      BY <1>2
    <3> QED  BY <1>1, <2>2, <3>1, <3>2, <3>3
  <2>3. CASE v # w
    <3>1. workers'[v] = workers[v]
      BY <1>2, <2>3 DEF IInv, TypeOK
    <3>2. workers[v] # None /\ rows[workers[v].msg] # None
          /\ workers[v].msg \in Message
      BY <2>1, <3>1, Types, LocalsFields DEF IInv, WorkersInv
    <3>3. ASSUME workers[v].now + LeaseFor >= clock
          PROVE  rows'[workers[v].msg] = rows[workers[v].msg]
      <4>1. ~Takable(rows[workers[v].msg])
        BY <3>2, <3>3, HeldIsNotTakable
      <4> QED  BY <1>0, <1>2, <3>2, <4>1, SweepKeeps
    <3>4. /\ workers[v].now + LeaseFor >= clock => Holds(v)
          /\ workers[v].answer # None /\ workers[v].answer.kind = "accepted" =>
                /\ workers[v].answer.mail \in 1..Len(mails)
                /\ mails[workers[v].answer.mail].msg = workers[v].msg
      BY <3>2 DEF IInv, WorkersInv
    <3> QED  BY <1>7, <3>1, <3>2, <3>3, <3>4 DEF Holds
  <2> QED  BY <2>2, <2>3
<1>13. EventsInv'
  BY <1>2 DEF IInv, EventsInv
<1> QED  BY <1>5, <1>6, <1>8, <1>10, <1>11, <1>12, <1>13 DEF IInv

\* The sweep alone: a worker that finds nothing to claim gives up rows.
LEMMA SweepStep ==
    ASSUME IInv, NEW w \in Worker, claim_nothing(w)
    PROVE  IInv'
<1>1. /\ \A n \in Message : rows'[n] = Swept(n) /\ attempts'[n] = SweptAttempts(n)
      /\ rows' = [n \in Message |-> Swept(n)]
      /\ attempts' = [n \in Message |-> SweptAttempts(n)]
      /\ UNCHANGED <<fulfillment, version, count, bundled, observed, events,
                     workers, hooks, mails, reported, clock>>
  BY DEF claim_nothing, order_vars, resend_vars
<1>2. AttemptsAreHistory'
  <2>1. \A n \in Message : History(rows'[n], attempts'[n])
    BY <1>1, SweepKeeps
  <2> QED  BY <2>1 DEF AttemptsAreHistory, History
<1>3. TypeOK'
  <2>1. rows' \in [Message -> Row \cup {None}]
    BY <1>1, SweepKeeps
  <2>2. attempts' \in [Message -> Seq(Outcome \cup {None})]
    BY <1>1, SweepKeeps
  <2> QED  BY <1>1, <2>1, <2>2 DEF IInv, TypeOK
<1>4. ASSUME NEW n \in Message
      PROVE  /\ rows'[n] # None <=> rows[n] # None
             /\ rows[n] # None => rows'[n].expires = rows[n].expires
             /\ \/ rows'[n] = rows[n]
                \/ /\ Takable(rows[n])
                   /\ rows'[n].provider_id = 0
                   /\ rows'[n].state = "dead_letter"
  BY <1>1, SweepKeeps
<1>5. MailsInv' /\ OneMailWithinHorizon'
  BY <1>1, <1>4, HorizonKept
<1>6. DeliveredByItsMail'
  <2>1. ASSUME NEW n \in Message, rows'[n] # None
        PROVE  \/ rows'[n] = rows[n]
               \/ rows'[n].provider_id = 0 /\ rows'[n].state = "dead_letter"
    BY <1>4
  <2> QED  BY <1>1, <2>1, Zenon DEF IInv, DeliveredByItsMail
<1>7. RowsInv'
  BY <1>1, <1>4 DEF IInv, RowsInv
<1>8. WorkersInv'
  <2>1. ASSUME NEW v \in Worker, workers[v] # None
        PROVE  /\ rows'[workers[v].msg] # None
               /\ workers[v].now + LeaseFor >= clock =>
                     rows'[workers[v].msg] = rows[workers[v].msg]
    <3>1. workers[v].msg \in Message /\ rows[workers[v].msg] # None
      BY <2>1, Types, LocalsFields DEF IInv, WorkersInv
    <3> QED  BY <1>4, <2>1, <3>1, HeldIsNotTakable
  <2> QED  BY <1>1, <2>1 DEF IInv, WorkersInv, Holds
<1>9. EventsInv'
  BY <1>1 DEF IInv, EventsInv
<1> QED  BY <1>2, <1>3, <1>5, <1>6, <1>7, <1>8, <1>9 DEF IInv

\* What the three answers have in common: the worker hears it, and Resend may
\* have made a mail of the message.
LEMMA HearStep ==
    ASSUME IInv, NEW w \in Worker, workers[w] # None, NEW a \in Answer,
           Hears(w, a), mails' \in {mails, Taken(workers[w].msg)},
           a.kind = "accepted" =>
              a.mail \in 1..Len(mails') /\ mails'[a.mail].msg = workers[w].msg,
           UNCHANGED <<fulfillment, version, count, bundled, observed, rows,
                       attempts, events, hooks, reported, clock>>
    PROVE  IInv'
<1>t. clock \in Nat /\ Horizon \in Nat /\ LeaseFor \in Nat
  BY Types DEF IInv
<1>m. PICK m : m = workers[w].msg
  OBVIOUS
<1>0. /\ m \in Message
      /\ workers[w] \in Locals
      /\ rows[m] # None
  BY <1>m, Types, LocalsFields DEF IInv, WorkersInv
<1>1. /\ mails' \in Seq([msg : Message, at : Nat])
      /\ Len(mails) \in Nat
      /\ Len(mails') \in {Len(mails), Len(mails) + 1}
      /\ \A i \in 1..Len(mails) : mails'[i] = mails[i]
      /\ Len(mails') = Len(mails) + 1 =>
            /\ mails'[Len(mails) + 1].msg = m
            /\ mails'[Len(mails) + 1].at = clock
            /\ \A i \in 1..Len(mails) :
                  mails[i].msg = m => clock >= mails[i].at + Horizon
  <2>1. mails \in Seq([msg : Message, at : Nat]) /\ Len(mails) \in Nat
    BY DEF IInv, TypeOK
  <2>2. CASE mails' = mails
    BY <2>1, <2>2
  <2>3. CASE mails' = Taken(m)
    <3>1. TypeOK
      BY DEF IInv
    <3> QED  BY <1>0, <2>1, <2>3, <3>1, TakenMails
  <2> QED  BY <1>m, <2>2, <2>3
<1>2. \A i \in 1..Len(mails) : i \in 1..Len(mails')
  BY <1>1
<1>x. PICK x : x = [workers[w] EXCEPT !.answer = a]
  OBVIOUS
<1>3. /\ x \in Locals
      /\ x.msg = m
      /\ x.now = workers[w].now
      /\ x.answer = a
      /\ workers' = [workers EXCEPT ![w] = x]
  <2>1. workers' = [workers EXCEPT ![w] = x]
    BY <1>x DEF Hears
  <2> QED  BY <1>m, <1>x, <1>0, <2>1 DEF Locals
<1>4. \A v \in Worker : workers'[v] = IF v = w THEN x ELSE workers[v]
  BY <1>3 DEF IInv, TypeOK
<1>5. TypeOK'
  <2>1. workers' \in [Worker -> Locals \cup {None}]
    BY <1>3 DEF IInv, TypeOK
  <2> QED  BY <1>1, <2>1 DEF IInv, TypeOK
<1>6. AttemptsAreHistory' /\ RowsInv'
  BY DEF IInv, AttemptsAreHistory, RowsInv
<1>7. MailsInv'
  <2>1. rows[m].expires <= clock + Horizon
    BY <1>0 DEF IInv, RowsInv
  <2>2. \A i \in 1..Len(mails') :
           \/ i \in 1..Len(mails)
           \/ i = Len(mails) + 1 /\ Len(mails') = Len(mails) + 1
    BY <1>1
  <2> QED  BY <1>0, <1>1, <2>1, <2>2 DEF IInv, MailsInv
<1>8. OneMailWithinHorizon'
  <2>1. SUFFICES ASSUME NEW i \in 1..Len(mails'), NEW j \in 1..Len(mails'),
                        mails'[i].msg = mails'[j].msg, i < j
                 PROVE  mails'[j].at >= rows[mails'[j].msg].expires
    BY DEF OneMailWithinHorizon
  <2>2. i \in 1..Len(mails) /\ mails'[i] = mails[i]
    BY <1>1, <2>1
  <2>3. CASE j \in 1..Len(mails)
    BY <1>1, <2>1, <2>2, <2>3 DEF IInv, OneMailWithinHorizon
  <2>4. CASE j \notin 1..Len(mails)
    <3>1. j = Len(mails) + 1 /\ Len(mails') = Len(mails) + 1
      BY <1>1, <2>1, <2>4
    <3>2. /\ mails'[j].msg = m
          /\ mails'[j].at = clock
          /\ mails[i].msg = m
          /\ clock >= mails[i].at + Horizon
      BY <1>1, <2>1, <2>2, <3>1
    <3>3. rows[m].expires <= mails[i].at + Horizon
      BY <2>2, <3>2 DEF IInv, MailsInv
    <3>4. rows[m].expires \in Nat /\ mails[i].at \in Nat
      BY <1>0, <2>2, Types, RowFields DEF IInv
    <3> QED  BY <1>t, <3>2, <3>3, <3>4
  <2> QED  BY <2>3, <2>4
<1>9. DeliveredByItsMail'
  BY <1>1, <1>2, Zenon DEF IInv, DeliveredByItsMail
<1>10. WorkersInv'
  BY <1>0, <1>1, <1>2, <1>3, <1>4, <1>m, SMTT(30)
     DEF IInv, WorkersInv, Holds
<1>11. EventsInv'
  BY <1>2 DEF IInv, EventsInv
<1> QED  BY <1>5, <1>6, <1>7, <1>8, <1>9, <1>10, <1>11 DEF IInv

\* The three answers of a request.
LEMMA SendStep ==
    ASSUME IInv, NEW w \in Worker, Send(w)
    PROVE  IInv'
<1>0. workers[w] # None
  BY DEF Send, send_accepted, send_ambiguous, send_refused, Sending
<1>1. workers[w].msg \in Message
  BY <1>0, Types, LocalsFields DEF IInv
<1>2. CASE send_accepted(w)
  <2>1. PICK a : a = [kind |-> "accepted", mail |-> MailOf(workers[w].msg)]
    OBVIOUS
  <2>2. /\ Hears(w, a)
        /\ mails' = Taken(workers[w].msg)
        /\ UNCHANGED <<fulfillment, version, count, bundled, observed, rows,
                       attempts, events, hooks, reported, clock>>
    BY <1>2, <2>1 DEF send_accepted, order_vars, outbox_vars
  <2>3. /\ MailOf(workers[w].msg) \in 1..Len(mails')
        /\ mails'[MailOf(workers[w].msg)].msg = workers[w].msg
        /\ Len(mails') \in Nat
    <3>1. TypeOK
      BY DEF IInv
    <3>2. PICK m \in Message : m = workers[w].msg
      BY <1>1
    <3>3. /\ Taken(m) \in Seq([msg : Message, at : Nat])
          /\ MailOf(m) \in 1..Len(Taken(m))
          /\ Taken(m)[MailOf(m)].msg = m
      BY <3>1, TakenMails
    <3>4. Len(Taken(m)) \in Nat
      BY <3>3
    <3> QED  BY <2>2, <3>2, <3>3, <3>4, Zenon
  <2>4. a \in Answer /\ a.mail = MailOf(workers[w].msg)
    BY <2>1, <2>3 DEF Answer
  <2> QED  BY <1>0, <2>2, <2>3, <2>4, HearStep
<1>3. CASE send_ambiguous(w)
  <2>1. PICK a : a = [kind |-> "retryable", mail |-> 0]
    OBVIOUS
  <2>2. a \in Answer /\ a.kind # "accepted"
    BY <2>1 DEF Answer
  <2>3. /\ Hears(w, a)
        /\ mails' \in {mails, Taken(workers[w].msg)}
        /\ UNCHANGED <<fulfillment, version, count, bundled, observed, rows,
                       attempts, events, hooks, reported, clock>>
    BY <1>3, <2>1 DEF send_ambiguous, order_vars, outbox_vars
  <2> QED  BY <1>0, <2>2, <2>3, HearStep
<1>4. CASE send_refused(w)
  <2>1. PICK a : a = [kind |-> "permanent", mail |-> 0]
    OBVIOUS
  <2>2. a \in Answer /\ a.kind # "accepted"
    BY <2>1 DEF Answer
  <2>3. /\ Hears(w, a)
        /\ mails' = mails
        /\ UNCHANGED <<fulfillment, version, count, bundled, observed, rows,
                       attempts, events, hooks, reported, clock>>
    BY <1>4, <2>1 DEF send_refused, order_vars, outbox_vars, resend_vars
  <2> QED  BY <1>0, <2>2, <2>3, HearStep
<1> QED  BY <1>2, <1>3, <1>4 DEF Send

\* What the order needs to become delivered by a notice whose row becomes q,
\* next to the stored report.
Earns(m, q) ==
    /\ m.kind = "initial"
    /\ m.version = version
    /\ q.count >= 1
    /\ count >= 1
    /\ bundled
    /\ q.state = "delivered"

\* What applying a delivery makes of a row and of the order.
LEMMA Applied ==
    ASSUME TypeOK, NEW m \in Message, NEW r \in Row, apply_delivered_event(m, r)
    PROVE  \E q \in Row :
              /\ rows' = [rows EXCEPT ![m] = q]
              /\ q.attempt = r.attempt
              /\ q.expires = r.expires
              /\ q.count = r.count
              /\ q.provider_id = r.provider_id
              /\ \/ q = r /\ fulfillment' = fulfillment
                 \/ /\ q.state = "delivered"
                    /\ fulfillment' \in Confirmed
                    /\ fulfillment' # fulfillment => Earns(m, q)
<1>1. CASE Applies(m, r)
  <2>1. PICK q : q = [r EXCEPT !.state = "delivered"]
    OBVIOUS
  <2>2. /\ q \in Row
        /\ q.state = "delivered"
        /\ q.attempt = r.attempt
        /\ q.expires = r.expires
        /\ q.count = r.count
        /\ q.provider_id = r.provider_id
    BY <2>1 DEF Row, RowState
  <2>3. /\ rows' = [rows EXCEPT ![m] = q]
        /\ fulfillment' = IF m.kind = "initial" THEN "delivered" ELSE fulfillment
    BY <1>1, <2>1 DEF apply_delivered_event
  <2>4. /\ fulfillment' \in Confirmed
        /\ fulfillment' # fulfillment => m.kind = "initial"
    BY <1>1, <2>3 DEF Applies, Confirmed
  <2>5. m.kind = "initial" => Earns(m, q)
    BY <1>1, <2>2 DEF Applies, delivery_evidence_matches, Threshold, Earns
  <2> QED  BY <2>2, <2>3, <2>4, <2>5
<1>2. CASE ~Applies(m, r)
  BY <1>2 DEF apply_delivered_event
<1> QED  BY <1>1, <1>2

\* What the three records have in common: the holder of a lease settles its
\* attempt and releases the row, and goes on to the next.
LEMMA SettleStep ==
    ASSUME IInv, NEW w \in Worker, workers[w] # None, active_lease(w),
           NEW m, m = workers[w].msg, NEW q \in Row, NEW outcome \in Outcome,
           rows' = [rows EXCEPT ![m] = q], Finish(m, outcome), Done(w),
           fulfillment' \in Confirmed \cup {"manual_review"},
           UNCHANGED <<version, count, bundled, observed, events, hooks, mails,
                       reported, clock>>,
           q.attempt = rows[m].attempt, q.expires = rows[m].expires,
           q.state # "leased",
           q.state \in {"accepted", "delivered"} <=> q.provider_id # 0,
           q.provider_id # 0 => /\ q.provider_id \in 1..Len(mails)
                                /\ mails[q.provider_id].msg = m,
           q.state = "delivered" =>
              [mail |-> q.provider_id, type |-> "delivered"] \in events
    PROVE  IInv'
<1>0. /\ m \in Message
      /\ rows[m] # None
      /\ rows[m] \in Row
      /\ q # None
  BY Types, LocalsFields, NoneIsNothing DEF IInv, WorkersInv
<1>1. \A n \in Message : rows'[n] = IF n = m THEN q ELSE rows[n]
  BY <1>0 DEF IInv, TypeOK
<1>2. \A n \in Message :
         attempts'[n] = IF n = m THEN FinishOpen(attempts[m], outcome) ELSE attempts[n]
  BY <1>0 DEF IInv, TypeOK, Finish
<1>3. AttemptsAreHistory'
  <2>1. History(rows[m], attempts[m]) /\ attempts[m] \in Seq(Outcome \cup {None})
    BY <1>0, HistoryOfEach, Types DEF IInv
  <2>2. History(q, FinishOpen(attempts[m], outcome))
    BY <1>0, <2>1, FinishedHistory
  <2>3. \A n \in Message : History(rows[n], attempts[n])
    BY HistoryOfEach DEF IInv
  <2>4. \A n \in Message : History(rows'[n], attempts'[n])
    BY <1>1, <1>2, <2>2, <2>3, Zenon
  <2> QED  BY <2>4 DEF AttemptsAreHistory, History
<1>4. TypeOK'
  <2>1. rows' \in [Message -> Row \cup {None}]
    BY DEF IInv, TypeOK
  <2>2. FinishOpen(attempts[m], outcome) \in Seq(Outcome \cup {None})
    BY <1>0, Types, FinishOpenProperties DEF IInv
  <2>3. attempts' \in [Message -> Seq(Outcome \cup {None})]
    BY <2>2 DEF IInv, TypeOK, Finish
  <2>4. workers' \in [Worker -> Locals \cup {None}]
    BY DEF IInv, TypeOK, Done
  <2> QED  BY <2>1, <2>3, <2>4 DEF IInv, TypeOK
<1>5. MailsInv' /\ OneMailWithinHorizon'
  BY <1>0, <1>1, HorizonKept
<1>6. DeliveredByItsMail'
  <2>1. SUFFICES ASSUME NEW n \in Message, rows'[n] # None
                 PROVE  /\ rows'[n].provider_id # 0 =>
                              /\ rows'[n].provider_id \in 1..Len(mails)
                              /\ mails[rows'[n].provider_id].msg = n
                        /\ rows'[n].state \in {"accepted", "delivered"} =>
                              rows'[n].provider_id # 0
                        /\ rows'[n].state = "delivered" =>
                              [mail |-> rows'[n].provider_id, type |-> "delivered"]
                                 \in events
    BY DEF DeliveredByItsMail
  <2>2. CASE n = m
    BY <1>1, <2>2, Zenon
  <2>3. CASE n # m
    BY <1>1, <2>1, <2>3, Zenon DEF IInv, DeliveredByItsMail
  <2> QED  BY <2>2, <2>3
<1>7. RowsInv'
  <2>1. rows[m].expires <= clock + Horizon
    BY <1>0 DEF IInv, RowsInv
  <2>2. q.state \in Unsent \cup {"dead_letter"} => q.provider_id = 0
    BY DEF Unsent
  <2> QED  BY <1>1, <2>1, <2>2 DEF IInv, RowsInv
<1>8. WorkersInv'
  <2>1. ASSUME NEW v \in Worker, workers'[v] # None
        PROVE  v # w /\ workers'[v] = workers[v]
    BY <2>1 DEF IInv, TypeOK, Done
  <2>2. rows[m].owner = w
    BY DEF active_lease
  <2>3. ASSUME NEW v \in Worker, v # w, workers[v] # None,
               workers[v].now + LeaseFor >= clock
        PROVE  workers[v].msg # m
    BY <2>2, <2>3 DEF IInv, WorkersInv, Holds
  <2>4. \A v \in Worker : workers[v] # None => workers[v].msg \in Message
    BY Types, LocalsFields DEF IInv
  <2> QED  BY <1>0, <1>1, <2>1, <2>3, <2>4 DEF IInv, WorkersInv, Holds
<1>9. EventsInv'
  BY DEF IInv, EventsInv
<1> QED  BY <1>3, <1>4, <1>5, <1>6, <1>7, <1>8, <1>9 DEF IInv

\* What the webhook does: a row that has its mail takes a report of it, and
\* events that were reported are stored or pending.
LEMMA HookStep ==
    ASSUME IInv, NEW m \in Message, rows[m] # None, rows[m].provider_id # 0,
           NEW q \in Row, rows' = [rows EXCEPT ![m] = q],
           q.attempt = rows[m].attempt, q.expires = rows[m].expires,
           q.provider_id = rows[m].provider_id,
           q = rows[m] \/ q.state \in {"delivered", "failed"},
           q # rows[m] /\ q.state = "delivered" =>
              [mail |-> q.provider_id, type |-> "delivered"] \in events',
           fulfillment' \in Confirmed \cup {"manual_review"},
           events \subseteq events', events' \subseteq reported,
           hooks' \in [Hook -> reported \cup {None}],
           UNCHANGED <<version, count, bundled, observed, attempts, workers,
                       mails, reported, clock>>
    PROVE  IInv'
<1>0. q # None /\ rows[m] \in Row
  BY NoneIsNothing, Types DEF IInv
<1>1. \A n \in Message : rows'[n] = IF n = m THEN q ELSE rows[n]
  BY DEF IInv, TypeOK
<1>2. rows[m].state \notin Unsent \cup {"dead_letter"}
  BY DEF IInv, RowsInv
<1>3. q.state \notin Unsent \cup {"dead_letter"}
  BY <1>2 DEF Unsent
<1>4. AttemptsAreHistory'
  <2>1. rows[m].state # "leased" /\ q.state # "leased"
    BY <1>2, <1>3 DEF Unsent
  <2> QED  BY <1>0, <1>1, <2>1 DEF IInv, AttemptsAreHistory
<1>5. TypeOK'
  <2>1. rows' \in [Message -> Row \cup {None}]
    BY DEF IInv, TypeOK
  <2>2. events' \subseteq Event /\ hooks' \in [Hook -> Event \cup {None}]
    BY DEF IInv, TypeOK
  <2> QED  BY <2>1, <2>2 DEF IInv, TypeOK
<1>6. MailsInv' /\ OneMailWithinHorizon'
  BY <1>0, <1>1, HorizonKept
<1>7. DeliveredByItsMail'
  <2>1. SUFFICES ASSUME NEW n \in Message, rows'[n] # None
                 PROVE  /\ rows'[n].provider_id # 0 =>
                              /\ rows'[n].provider_id \in 1..Len(mails)
                              /\ mails[rows'[n].provider_id].msg = n
                        /\ rows'[n].state \in {"accepted", "delivered"} =>
                              rows'[n].provider_id # 0
                        /\ rows'[n].state = "delivered" =>
                              [mail |-> rows'[n].provider_id, type |-> "delivered"]
                                 \in events'
    BY DEF DeliveredByItsMail
  <2>2. CASE n = m
    <3>1. rows'[n] = q
      BY <1>1, <2>2
    <3>2. /\ rows[m].provider_id \in 1..Len(mails)
          /\ mails[rows[m].provider_id].msg = m
          /\ rows[m].state = "delivered" =>
                [mail |-> rows[m].provider_id, type |-> "delivered"] \in events
      BY DEF IInv, DeliveredByItsMail
    <3>3. q.state = "delivered" =>
             [mail |-> q.provider_id, type |-> "delivered"] \in events'
      BY <3>2, Zenon
    <3> QED  BY <2>2, <3>1, <3>2, <3>3, Zenon
  <2>3. CASE n # m
    BY <1>1, <2>1, <2>3, Zenon DEF IInv, DeliveredByItsMail
  <2> QED  BY <2>2, <2>3
<1>8. RowsInv'
  BY <1>1, <1>3 DEF IInv, RowsInv
<1>9. WorkersInv'
  <2>1. ASSUME NEW v \in Worker, workers[v] # None,
               workers[v].now + LeaseFor >= clock
        PROVE  workers[v].msg # m
    BY <1>2, <2>1 DEF IInv, WorkersInv, Holds, Unsent
  <2>2. \A v \in Worker : workers[v] # None => workers[v].msg \in Message
    BY Types, LocalsFields DEF IInv
  <2> QED  BY <1>0, <1>1, <2>1, <2>2 DEF IInv, WorkersInv, Holds
<1>10. EventsInv'
  BY DEF IInv, EventsInv
<1> QED  BY <1>4, <1>5, <1>6, <1>7, <1>8, <1>9, <1>10 DEF IInv

\* A webhook transaction that changes no row.
LEMMA HookOnlyStep ==
    ASSUME IInv, rows' = rows, fulfillment' = fulfillment,
           events \subseteq events', events' \subseteq reported,
           hooks' \in [Hook -> reported \cup {None}],
           UNCHANGED <<version, count, bundled, observed, attempts, workers,
                       mails, reported, clock>>
    PROVE  IInv'
<1>1. TypeOK'
  <2>1. events' \subseteq Event /\ hooks' \in [Hook -> Event \cup {None}]
    BY DEF IInv, TypeOK
  <2> QED  BY <2>1 DEF IInv, TypeOK
<1>2. AttemptsAreHistory' /\ OneMailWithinHorizon'
  BY DEF IInv, AttemptsAreHistory, OneMailWithinHorizon
<1>3. DeliveredByItsMail'
  BY Zenon DEF IInv, DeliveredByItsMail
<1>4. RowsInv' /\ WorkersInv' /\ MailsInv' /\ EventsInv'
  BY DEF IInv, RowsInv, WorkersInv, MailsInv, EventsInv, Holds
<1> QED  BY <1>1, <1>2, <1>3, <1>4 DEF IInv

\* What a recorded acceptance makes of the row: accepted, or delivered when the
\* report came first.
AcceptedRow(m, q) ==
    /\ rows' = [rows EXCEPT ![m] = q]
    /\ q.attempt = rows[m].attempt
    /\ q.expires = rows[m].expires
    /\ q.state \in {"accepted", "delivered"}
    /\ q.provider_id \in 1..Len(mails)
    /\ mails[q.provider_id].msg = m
    /\ q.state = "delivered" =>
          [mail |-> q.provider_id, type |-> "delivered"] \in events
    /\ \/ fulfillment' = fulfillment
       \/ fulfillment' \in Confirmed /\ Earns(m, q)

\* record_accepted makes such a row.
LEMMA AcceptedChange ==
    ASSUME IInv, NEW w \in Worker, record_accepted(w)
    PROVE  \E q \in Row : AcceptedRow(workers[w].msg, q)
<1>1. /\ workers[w] # None
      /\ workers[w].answer # None
      /\ workers[w].answer.kind = "accepted"
  BY DEF record_accepted, Answered
<1>m. PICK m, id : m = workers[w].msg /\ id = workers[w].answer.mail
  OBVIOUS
<1>2. /\ m \in Message
      /\ rows[m] \in Row
      /\ id \in 1..Len(mails)
      /\ mails[id].msg = m
      /\ Len(mails) \in Nat
  <2>1. workers[w] \in Locals
    BY <1>1, Types DEF IInv
  <2>2. m \in Message
    BY <1>m, <2>1, LocalsFields
  <2>3. rows[m] # None /\ id \in 1..Len(mails) /\ mails[id].msg = m
    BY <1>1, <1>m DEF IInv, WorkersInv
  <2>4. Len(mails) \in Nat
    BY DEF IInv, TypeOK
  <2> QED  BY <2>2, <2>3, <2>4, Types DEF IInv
<1>3. id \in Nat
  BY <1>2
<1>p. PICK p : p = Released(rows[m], "accepted")
  OBVIOUS
<1>4. /\ p \in Row
      /\ p.state = "accepted"
      /\ p.attempt = rows[m].attempt
      /\ p.expires = rows[m].expires
  <2>1. "accepted" \in RowState
    BY DEF RowState
  <2> QED  BY <1>2, <1>p, <2>1, ReleasedRow
<1>r. PICK r : r = [p EXCEPT !.provider_id = id]
  OBVIOUS
<1>5. /\ r \in Row
      /\ r.state = "accepted"
      /\ r.attempt = rows[m].attempt
      /\ r.expires = rows[m].expires
      /\ r.provider_id = id
  BY <1>3, <1>4, <1>r DEF Row
<1>6. IF [mail |-> id, type |-> "delivered"] \in events
      THEN apply_delivered_event(m, r)
      ELSE rows' = [rows EXCEPT ![m] = r] /\ fulfillment' = fulfillment
  BY <1>m, <1>p, <1>r, Zenon DEF record_accepted
<1>7. CASE [mail |-> id, type |-> "delivered"] \in events
  <2>1. apply_delivered_event(m, r) /\ TypeOK
    BY <1>6, <1>7 DEF IInv
  <2>2. PICK q \in Row :
           /\ rows' = [rows EXCEPT ![m] = q]
           /\ q.attempt = r.attempt
           /\ q.expires = r.expires
           /\ q.count = r.count
           /\ q.provider_id = r.provider_id
           /\ \/ q = r /\ fulfillment' = fulfillment
              \/ /\ q.state = "delivered"
                 /\ fulfillment' \in Confirmed
                 /\ fulfillment' # fulfillment => Earns(m, q)
    BY <1>2, <1>5, <2>1, Applied
  <2>3. AcceptedRow(m, q)
    BY <1>2, <1>5, <1>7, <2>2, Zenon DEF AcceptedRow
  <2> QED  BY <1>m, <2>3
<1>8. CASE [mail |-> id, type |-> "delivered"] \notin events
  <2>1. AcceptedRow(m, r)
    BY <1>2, <1>5, <1>6, <1>8 DEF AcceptedRow
  <2> QED  BY <1>m, <1>5, <2>1
<1> QED  BY <1>7, <1>8

\* The three records of the holder of a lease.
LEMMA RecordStep ==
    ASSUME IInv, NEW w \in Worker, Record(w)
    PROVE  IInv'
<1>m. PICK m : m = workers[w].msg
  OBVIOUS
<1>o. {"accepted", "retry", "failed", "dead_letter"} \subseteq Outcome \cap RowState
  BY DEF Outcome, RowState
<1>1. CASE record_accepted(w)
  <2>1. PICK q \in Row : AcceptedRow(m, q)
    BY <1>1, <1>m, AcceptedChange
  <2>2. /\ workers[w] # None
        /\ active_lease(w)
        /\ Finish(m, "accepted")
        /\ Done(w)
        /\ UNCHANGED <<version, count, bundled, observed, events, hooks, mails,
                       reported, clock>>
    BY <1>1, <1>m DEF record_accepted, Answered, resend_vars
  <2>3. fulfillment' \in Confirmed \cup {"manual_review"}
    BY <2>1 DEF AcceptedRow, IInv, TypeOK
  <2>4. q.provider_id # 0
    <3>1. q.provider_id \in 1..Len(mails) /\ Len(mails) \in Nat
      BY <2>1 DEF AcceptedRow, IInv, TypeOK
    <3> QED  BY <3>1
  <2>5. /\ rows' = [rows EXCEPT ![m] = q]
        /\ q.attempt = rows[m].attempt
        /\ q.expires = rows[m].expires
        /\ q.state # "leased"
        /\ q.state \in {"accepted", "delivered"} <=> q.provider_id # 0
        /\ q.provider_id # 0 => /\ q.provider_id \in 1..Len(mails)
                                /\ mails[q.provider_id].msg = m
        /\ q.state = "delivered" =>
              [mail |-> q.provider_id, type |-> "delivered"] \in events
    BY <2>1, <2>4 DEF AcceptedRow
  <2> QED  BY <1>m, <1>o, <2>2, <2>3, <2>5, SettleStep
<1>2. CASE record_retry(w)
  <2>1. PICK t, state, p, q :
           /\ t = workers[w].now + Delay(workers[w].attempt)
           /\ state = IF GivesUp(rows[m], t) THEN "dead_letter" ELSE "retry"
           /\ p = Released(rows[m], state)
           /\ q = [p EXCEPT !.available_at = t]
    OBVIOUS
  <2>2. /\ workers[w] # None
        /\ active_lease(w)
        /\ rows' = [rows EXCEPT ![m] = q]
        /\ Finish(m, state)
        /\ Done(w)
        /\ UNCHANGED <<fulfillment, version, count, bundled, observed, events,
                       hooks, mails, reported, clock>>
    BY <1>2, <1>m, <2>1 DEF record_retry, Answered, order_vars, resend_vars
  <2>3. state \in {"retry", "dead_letter"} /\ state \in RowState /\ state \in Outcome
    BY <1>o, <2>1
  <2>4. t \in Nat
    <3>1. Delay(workers[w].attempt) \in Nat
      BY ConstantsAssumption DEF Delay
    <3>2. workers[w].now \in Nat
      BY <2>2, Types, LocalsFields DEF IInv
    <3> QED  BY <2>1, <3>1, <3>2
  <2>5. rows[m] \in Row /\ rows[m].provider_id = 0
    BY <1>m, <2>2, Types, LocalsFields DEF IInv, WorkersInv, active_lease
  <2>6. /\ p \in Row
        /\ p.state = state
        /\ p.attempt = rows[m].attempt
        /\ p.expires = rows[m].expires
        /\ p.provider_id = 0
    BY <2>1, <2>3, <2>5, ReleasedRow
  <2>7. /\ q \in Row
        /\ q.state = state
        /\ q.attempt = rows[m].attempt
        /\ q.expires = rows[m].expires
        /\ q.provider_id = 0
    BY <2>1, <2>4, <2>6 DEF Row
  <2>8. /\ q.state # "leased"
        /\ q.state \notin {"accepted", "delivered"}
    BY <2>3, <2>7
  <2>9. fulfillment' \in Confirmed \cup {"manual_review"}
    BY <2>2 DEF IInv, TypeOK
  <2> QED  BY <1>m, <2>2, <2>3, <2>7, <2>8, <2>9, SettleStep
<1>3. CASE record_terminal_failure(w)
  <2>1. PICK q : q = Released(rows[m], "failed")
    OBVIOUS
  <2>2. /\ workers[w] # None
        /\ active_lease(w)
        /\ rows' = [rows EXCEPT ![m] = q]
        /\ Finish(m, "failed")
        /\ Done(w)
        /\ UNCHANGED <<fulfillment, version, count, bundled, observed, events,
                       hooks, mails, reported, clock>>
    BY <1>3, <1>m, <2>1 DEF record_terminal_failure, Answered, order_vars, resend_vars
  <2>3. rows[m] \in Row /\ rows[m].provider_id = 0
    BY <1>m, <2>2, Types, LocalsFields DEF IInv, WorkersInv, active_lease
  <2>4. /\ q \in Row
        /\ q.state = "failed"
        /\ q.attempt = rows[m].attempt
        /\ q.expires = rows[m].expires
        /\ q.provider_id = 0
    BY <1>o, <2>1, <2>3, ReleasedRow
  <2>5. fulfillment' \in Confirmed \cup {"manual_review"}
    BY <2>2 DEF IInv, TypeOK
  <2> QED  BY <1>m, <1>o, <2>2, <2>4, <2>5, SettleStep
<1>4. CASE lease_stale(w)
  BY <1>4, DropStep
<1> QED  BY <1>1, <1>2, <1>3, <1>4 DEF Record

\* What a report makes of the row that has its mail.
HookRow(m, q) ==
    /\ rows[m] # None
    /\ rows[m].provider_id # 0
    /\ rows' = [rows EXCEPT ![m] = q]
    /\ q.attempt = rows[m].attempt
    /\ q.expires = rows[m].expires
    /\ q.provider_id = rows[m].provider_id
    /\ \/ q = rows[m]
       \/ /\ q.state = "delivered"
          /\ [mail |-> q.provider_id, type |-> "delivered"] \in events'
       \/ /\ q.state = "failed"
          /\ rows[m].state # "delivered"
    /\ \/ fulfillment' = fulfillment
       \/ /\ fulfillment' \in Confirmed
          /\ Earns(m, q)
          /\ [mail |-> q.provider_id, type |-> "delivered"] \in events'

HookRows == UNCHANGED <<rows, fulfillment>>
            \/ \E m \in Message, q \in Row : HookRow(m, q)

\* A delivery that is applied to the row with its mail.
LEMMA DeliveryApplied ==
    ASSUME IInv, NEW e \in reported, e \in events', e.type = "delivered",
           NEW m \in Message, Matches(m, e), apply_delivered_event(m, rows[m])
    PROVE  HookRows
<1>1. e \in Event /\ e.mail \in 1..Len(mails) /\ Len(mails) \in Nat
  BY DEF IInv, TypeOK, EventsInv
<1>2. e = [mail |-> e.mail, type |-> "delivered"] /\ e.mail # 0
  BY <1>1 DEF Event
<1>3. /\ rows[m] # None
      /\ rows[m] \in Row
      /\ rows[m].provider_id = e.mail
  BY Types DEF IInv, Matches
<1>4. TypeOK
  BY DEF IInv
<1>5. PICK q \in Row :
         /\ rows' = [rows EXCEPT ![m] = q]
         /\ q.attempt = rows[m].attempt
         /\ q.expires = rows[m].expires
         /\ q.count = rows[m].count
         /\ q.provider_id = rows[m].provider_id
         /\ \/ q = rows[m] /\ fulfillment' = fulfillment
            \/ /\ q.state = "delivered"
               /\ fulfillment' \in Confirmed
               /\ fulfillment' # fulfillment => Earns(m, q)
  BY <1>3, <1>4, Applied
<1>6. [mail |-> q.provider_id, type |-> "delivered"] \in events'
  BY <1>2, <1>3, <1>5, Zenon
<1>7. HookRow(m, q)
  BY <1>2, <1>3, <1>5, <1>6, Zenon DEF HookRow
<1> QED  BY <1>7 DEF HookRows

\* A replayed event that is stored.
LEMMA ReplayApplied ==
    ASSUME IInv, NEW e \in reported, e \in events', reconcile_replayed_event(e)
    PROVE  HookRows
<1>1. CASE e.type = "delivered" /\ \E m \in Message : Matches(m, e)
  <2>1. PICK m \in Message : Matches(m, e) /\ apply_delivered_event(m, rows[m])
    BY <1>1 DEF reconcile_replayed_event
  <2> QED  BY <1>1, <2>1, DeliveryApplied
<1>2. CASE ~(e.type = "delivered" /\ \E m \in Message : Matches(m, e))
  BY <1>2 DEF reconcile_replayed_event, HookRows
<1> QED  BY <1>1, <1>2

\* A failure that is reported of the row with the mail.
LEMMA FailureApplied ==
    ASSUME IInv, NEW e \in reported, NEW m \in Message, Matches(m, e),
           fail_notice(m)
    PROVE  HookRows
<1>1. e.mail \in 1..Len(mails) /\ Len(mails) \in Nat
  BY DEF IInv, TypeOK, EventsInv
<1>2. /\ rows[m] # None
      /\ rows[m] \in Row
      /\ rows[m].provider_id = e.mail
      /\ rows[m].provider_id # 0
  BY <1>1, Types DEF IInv, Matches
<1>3. CASE rows[m].state = "delivered"
  BY <1>3 DEF fail_notice, HookRows
<1>4. CASE rows[m].state # "delivered"
  <2>1. PICK q : q = [rows[m] EXCEPT !.state = "failed"]
    OBVIOUS
  <2>2. /\ q \in Row
        /\ q.state = "failed"
        /\ q.attempt = rows[m].attempt
        /\ q.expires = rows[m].expires
        /\ q.provider_id = rows[m].provider_id
    BY <1>2, <2>1 DEF Row, RowState
  <2>3. rows' = [rows EXCEPT ![m] = q] /\ fulfillment' = fulfillment
    BY <1>4, <2>1 DEF fail_notice
  <2>4. HookRow(m, q)
    BY <1>2, <1>4, <2>2, <2>3 DEF HookRow
  <2> QED  BY <2>2, <2>4 DEF HookRows
<1> QED  BY <1>3, <1>4

\* The transactions of the webhook.
Webhook ==
    \/ \E e \in reported : process_replay(e) \/ process_match(e)
    \/ \E h \in Hook : \/ \E e \in reported : process_miss(h, e)
                       \/ process_store(h)
                       \/ hook_crash(h)

\* What a transaction of the webhook may change.
LEMMA WebhookChanges ==
    ASSUME IInv, Webhook
    PROVE  /\ HookRows
           /\ events \subseteq events'
           /\ events' \subseteq reported
           /\ hooks' \in [Hook -> reported \cup {None}]
           /\ UNCHANGED <<version, count, bundled, observed, attempts, workers,
                          mails, reported, clock>>
<1>0. /\ events \subseteq reported
      /\ hooks \in [Hook -> reported \cup {None}]
  BY DEF IInv, EventsInv, TypeOK
<1>1. ASSUME NEW e \in reported, process_replay(e)
      PROVE  /\ HookRows
             /\ events' = events /\ hooks' = hooks
             /\ UNCHANGED <<version, count, bundled, observed, attempts, workers,
                            mails, reported, clock>>
  <2>1. /\ e \in events
        /\ reconcile_replayed_event(e)
        /\ events' = events /\ hooks' = hooks
        /\ UNCHANGED <<version, count, bundled, observed, attempts, workers,
                       mails, reported, clock>>
    BY <1>1 DEF process_replay, resend_vars
  <2> QED  BY <2>1, ReplayApplied
<1>2. ASSUME NEW e \in reported, process_match(e)
      PROVE  /\ HookRows
             /\ events' = events \cup {e} /\ hooks' = hooks
             /\ UNCHANGED <<version, count, bundled, observed, attempts, workers,
                            mails, reported, clock>>
  <2>1. /\ events' = events \cup {e} /\ hooks' = hooks
        /\ UNCHANGED <<version, count, bundled, observed, attempts, workers,
                       mails, reported, clock>>
    BY <1>2 DEF process_match, resend_vars
  <2>2. PICK m \in Message :
           /\ Matches(m, e)
           /\ CASE e.type = "delivered" -> apply_delivered_event(m, rows[m])
                [] e.type = "failure" -> fail_notice(m)
                [] e.type = "other" -> UNCHANGED <<rows, fulfillment>>
    BY <1>2 DEF process_match
  <2>3. e.type \in EventType
    BY DEF IInv, TypeOK, Event
  <2>4. CASE e.type = "delivered"
    <3>1. apply_delivered_event(m, rows[m]) /\ e \in events'
      BY <2>1, <2>2, <2>4
    <3> QED  BY <2>1, <2>2, <2>4, <3>1, DeliveryApplied
  <2>5. CASE e.type = "failure"
    <3>1. fail_notice(m)
      BY <2>2, <2>5
    <3> QED  BY <2>1, <2>2, <3>1, FailureApplied
  <2>6. CASE e.type = "other"
    <3>1. UNCHANGED <<rows, fulfillment>>
      BY <2>2, <2>6
    <3> QED  BY <2>1, <3>1 DEF HookRows
  <2> QED  BY <2>3, <2>4, <2>5, <2>6 DEF EventType
<1>3. ASSUME NEW h \in Hook, NEW e \in reported, process_miss(h, e)
      PROVE  /\ HookRows
             /\ events' = events /\ hooks' = [hooks EXCEPT ![h] = e]
             /\ UNCHANGED <<version, count, bundled, observed, attempts, workers,
                            mails, reported, clock>>
  BY <1>3 DEF process_miss, HookRows, order_vars, outbox_vars, resend_vars
<1>4. ASSUME NEW h \in Hook, process_store(h)
      PROVE  /\ HookRows
             /\ events' = events \cup {hooks[h]} /\ hooks[h] \in reported
             /\ hooks' = [hooks EXCEPT ![h] = None]
             /\ UNCHANGED <<version, count, bundled, observed, attempts, workers,
                            mails, reported, clock>>
  <2>1. /\ hooks[h] \in reported
        /\ events' = events \cup {hooks[h]}
        /\ hooks' = [hooks EXCEPT ![h] = None]
        /\ UNCHANGED <<version, count, bundled, observed, attempts, workers,
                       mails, reported, clock>>
    BY <1>4 DEF process_store, resend_vars, IInv, EventsInv
  <2>2. PICK e \in reported : e = hooks[h]
    BY <2>1
  <2>3. \/ reconcile_replayed_event(e)
        \/ UNCHANGED <<rows, fulfillment>>
    BY <1>4, <2>2 DEF process_store
  <2>4. e \in events'
    BY <2>1, <2>2
  <2>5. HookRows
    BY <2>3, <2>4, ReplayApplied DEF HookRows
  <2> QED  BY <2>1, <2>5
<1>5. ASSUME NEW h \in Hook, hook_crash(h)
      PROVE  /\ HookRows
             /\ events' = events /\ hooks' = [hooks EXCEPT ![h] = None]
             /\ UNCHANGED <<version, count, bundled, observed, attempts, workers,
                            mails, reported, clock>>
  BY <1>5 DEF hook_crash, HookRows, order_vars, outbox_vars, resend_vars
<1> QED  BY <1>0, <1>1, <1>2, <1>3, <1>4, <1>5 DEF Webhook

\* The webhook preserves the invariant.
LEMMA WebhookStep ==
    ASSUME IInv, Webhook
    PROVE  IInv'
<1>1. /\ events \subseteq events'
      /\ events' \subseteq reported
      /\ hooks' \in [Hook -> reported \cup {None}]
      /\ UNCHANGED <<version, count, bundled, observed, attempts, workers,
                     mails, reported, clock>>
      /\ HookRows
  BY WebhookChanges
<1>2. CASE UNCHANGED <<rows, fulfillment>>
  BY <1>1, <1>2, HookOnlyStep
<1>3. ASSUME NEW m \in Message, NEW q \in Row, HookRow(m, q)
      PROVE  IInv'
  <2>1. fulfillment' \in Confirmed \cup {"manual_review"}
    BY <1>3 DEF HookRow, IInv, TypeOK
  <2>2. /\ rows[m] # None
        /\ rows[m].provider_id # 0
        /\ rows' = [rows EXCEPT ![m] = q]
        /\ q.attempt = rows[m].attempt
        /\ q.expires = rows[m].expires
        /\ q.provider_id = rows[m].provider_id
        /\ q = rows[m] \/ q.state \in {"delivered", "failed"}
        /\ q # rows[m] /\ q.state = "delivered" =>
              [mail |-> q.provider_id, type |-> "delivered"] \in events'
    BY <1>3, Zenon DEF HookRow
  <2> QED  BY <1>1, <2>1, <2>2, HookStep
<1> QED  BY <1>1, <1>2, <1>3 DEF HookRows

-----------------------------------------------------------------------------
(* The theorems.                                                           *)

\* The invariant holds in the first state.
LEMMA InitIInv == Init => IInv
<1> SUFFICES ASSUME Init PROVE IInv
  OBVIOUS
<1>1. TypeOK
  <2>1. <<>> \in Seq(Outcome \cup {None}) /\ <<>> \in Seq([msg : Message, at : Nat])
    OBVIOUS
  <2>2. version \in 1..MaxVersion
    BY ConstantsAssumption DEF Init
  <2> QED  BY <2>1, <2>2 DEF Init, TypeOK, Confirmed
<1>2. AttemptsAreHistory
  BY DEF Init, AttemptsAreHistory
<1>3. OneMailWithinHorizon /\ MailsInv
  BY DEF Init, OneMailWithinHorizon, MailsInv
<1>4. DeliveredByItsMail /\ RowsInv /\ WorkersInv /\ EventsInv
  BY DEF Init, DeliveredByItsMail, RowsInv, WorkersInv, EventsInv
<1> QED  BY <1>1, <1>2, <1>3, <1>4 DEF IInv

\* Every step preserves the invariant.
LEMMA NextIInv == IInv /\ [Next]_vars => IInv'
<1> SUFFICES ASSUME IInv, [Next]_vars PROVE IInv'
  OBVIOUS
<1>1. CASE Order
  BY <1>1, OrderStep, EnqueueStep DEF Order
<1>2. ASSUME NEW w \in Worker, Claim(w) PROVE IInv'
  BY <1>2, ClaimStep, SweepStep DEF Claim
<1>3. ASSUME NEW w \in Worker, Send(w) \/ Record(w) \/ crash(w) PROVE IInv'
  BY <1>3, SendStep, RecordStep, DropStep
<1>4. CASE Report
  BY <1>4, ReportStep
<1>5. CASE Webhook
  BY <1>5, WebhookStep
<1>6. CASE tick
  BY <1>6, TickStep
<1>7. CASE UNCHANGED vars
  <2>1. UNCHANGED <<fulfillment, version, count, bundled, rows, attempts, events,
                    workers, hooks, mails, reported, clock, observed>>
    BY <1>7 DEF vars
  <2>2. TypeOK'
    BY <2>1 DEF IInv, TypeOK
  <2>3. AttemptsAreHistory' /\ OneMailWithinHorizon' /\ DeliveredByItsMail'
    BY <2>1 DEF IInv, AttemptsAreHistory, OneMailWithinHorizon, DeliveredByItsMail
  <2>4. RowsInv' /\ WorkersInv' /\ MailsInv' /\ EventsInv'
    BY <2>1 DEF IInv, RowsInv, WorkersInv, MailsInv, EventsInv, Holds
  <2> QED  BY <2>2, <2>3, <2>4 DEF IInv
<1> QED  BY <1>1, <1>2, <1>3, <1>4, <1>5, <1>6, <1>7 DEF Next, Webhook

\* A lease that has not ended is held by the owner of its row alone.
LEMMA HoldersAreSingle == IInv => OneLiveClaim
  BY DEF IInv, WorkersInv, Holds, OneLiveClaim

\* The outbox and its attempts tell the truth of what was sent: attempts are
\* the history of their row, no two workers hold one message under a lease that
\* has not ended, a notice is mailed once before its horizon, and what is
\* accepted or delivered is so by a mail made from it (SqlNotificationStore).
THEOREM OutboxSound == Spec => []OutboxIsSound
<1>1. IInv => OutboxIsSound
  BY HoldersAreSingle DEF IInv, OutboxIsSound
<1>2. Spec => []IInv
  BY InitIInv, NextIInv, PTL DEF Spec
<1> QED  BY <1>1, <1>2, PTL

\* A notice that earns the order its delivery satisfies the trigger.
LEMMA EarnedIsGuarded ==
    ASSUME IInv, NEW m \in Message, NEW q \in Row,
           rows' = [rows EXCEPT ![m] = q], Earns(m, q),
           [mail |-> q.provider_id, type |-> "delivered"] \in events',
           UNCHANGED <<version, count, bundled>>
    PROVE  delivery_guard'
<1>1. m = [kind |-> "initial", version |-> version]
  BY Zenon DEF Earns, Message
<1>2. rows'[m] = q /\ q # None
  BY NoneIsNothing DEF IInv, TypeOK
<1>3. m = [kind |-> "initial", version |-> version']
  BY <1>1
<1>4. /\ count' >= 1
      /\ bundled'
      /\ rows'[m] # None
      /\ rows'[m].count >= 1
      /\ rows'[m].state = "delivered"
  BY <1>2 DEF Earns
<1>5. \E e \in events' : e = [mail |-> rows'[m].provider_id, type |-> "delivered"]
  BY <1>2, Zenon
<1> QED  BY <1>3, <1>4, <1>5, Zenon DEF delivery_guard

\* Rows that nobody can take keep what they are under a claim's sweep.
LEMMA SweptIsFinal ==
    ASSUME IInv, NEW m \in Message, rows'[m] = Swept(m)
    PROVE  Final(m)
<1>1. rows[m] # None /\ Takable(rows[m]) =>
         rows[m].state \notin {"delivered", "dead_letter", "failed"}
  BY DEF Takable
<1> QED  BY <1>1, SweepKeeps DEF Final

\* What each step leaves final.
LEMMA StepIsFinal ==
    ASSUME IInv, Next
    PROVE  TriggerAgrees /\ \A m \in Message : Final(m)
<1>1. CASE Order
  <2>1. ASSUME NEW k \in NotificationKind, enqueue(k)
        PROVE  TriggerAgrees /\ \A m \in Message : Final(m)
    <3>1. /\ fulfillment' = fulfillment
          /\ \A m \in Message : rows[m] # None => rows'[m] = rows[m]
      BY <2>1 DEF enqueue, order_vars, IInv, TypeOK
    <3> QED  BY <3>1 DEF TriggerAgrees, Final
  <2>2. CASE append \/ put_bundle \/ manual_review
             \/ \E n \in 1..FinalConfirmations : record_once(n)
    <3>1. /\ rows' = rows
          /\ fulfillment' = fulfillment \/ fulfillment' # "delivered"
      BY <2>2 DEF append, put_bundle, manual_review, record_once, outbox_vars
    <3> QED  BY <3>1 DEF TriggerAgrees, Final
  <2> QED  BY <1>1, <2>1, <2>2 DEF Order
<1>2. ASSUME NEW w \in Worker, Claim(w)
      PROVE  TriggerAgrees /\ \A m \in Message : Final(m)
  <2>1. fulfillment' = fulfillment
    BY <1>2 DEF Claim, claim, claim_nothing, order_vars
  <2>2. ASSUME NEW n \in Message, claim(w, n), NEW m \in Message
        PROVE  Final(m)
    <3>1. CASE m # n
      <4>1. rows'[m] = Swept(m)
        BY <2>2, <3>1 DEF claim
      <4> QED  BY <4>1, SweptIsFinal
    <3>2. CASE m = n
      <4>1. /\ rows[m].state \notin {"delivered", "dead_letter", "failed"}
            /\ rows[m].provider_id = 0
        BY <2>2, <3>2 DEF claim, Claimable, Takable
      <4> QED  BY <4>1 DEF Final
    <3> QED  BY <3>1, <3>2
  <2>3. ASSUME claim_nothing(w), NEW m \in Message
        PROVE  Final(m)
    <3>1. rows'[m] = Swept(m)
      BY <2>3 DEF claim_nothing
    <3> QED  BY <3>1, SweptIsFinal
  <2> QED  BY <1>2, <2>1, <2>2, <2>3 DEF Claim, TriggerAgrees
<1>3. ASSUME NEW w \in Worker, Send(w) \/ crash(w) \/ lease_stale(w)
      PROVE  TriggerAgrees /\ \A m \in Message : Final(m)
  <2>1. rows' = rows /\ fulfillment' = fulfillment
    BY <1>3 DEF Send, send_accepted, send_ambiguous, send_refused, crash,
                lease_stale, order_vars, outbox_vars
  <2> QED  BY <2>1 DEF TriggerAgrees, Final
<1>4. ASSUME NEW w \in Worker,
             record_accepted(w) \/ record_retry(w) \/ record_terminal_failure(w)
      PROVE  TriggerAgrees /\ \A m \in Message : Final(m)
  <2>m. PICK m : m = workers[w].msg
    OBVIOUS
  <2>1. workers[w] # None /\ active_lease(w)
    BY <1>4 DEF record_accepted, record_retry, record_terminal_failure, Answered
  <2>2. /\ m \in Message
        /\ rows[m].state = "leased"
        /\ rows[m].provider_id = 0
    BY <2>m, <2>1, Types, LocalsFields DEF IInv, active_lease
  <2>3. \E q : rows' = [rows EXCEPT ![m] = q]
    <3>1. CASE record_accepted(w)
      BY <2>m, <3>1, AcceptedChange DEF AcceptedRow
    <3>2. CASE record_retry(w) \/ record_terminal_failure(w)
      BY <2>m, <3>2 DEF record_retry, record_terminal_failure
    <3> QED  BY <1>4, <3>1, <3>2
  <2>4. \A n \in Message : n # m => rows'[n] = rows[n]
    BY <2>2, <2>3 DEF IInv, TypeOK
  <2>5. \A n \in Message : Final(n)
    BY <2>2, <2>4 DEF Final
  <2>6. CASE record_accepted(w)
    <3>1. PICK q \in Row : AcceptedRow(m, q)
      BY <2>m, <2>6, AcceptedChange
    <3>2. UNCHANGED <<version, count, bundled, events>>
      BY <2>6 DEF record_accepted
    <3>3. ASSUME fulfillment' # fulfillment
          PROVE  delivery_guard'
      <4>1. /\ rows' = [rows EXCEPT ![m] = q]
            /\ Earns(m, q)
            /\ q.state = "delivered"
        BY <3>1, <3>3 DEF AcceptedRow, Earns
      <4>2. [mail |-> q.provider_id, type |-> "delivered"] \in events'
        BY <3>1, <3>2, <4>1, Zenon DEF AcceptedRow
      <4> QED  BY <2>2, <3>2, <4>1, <4>2, EarnedIsGuarded
    <3> QED  BY <2>5, <3>3 DEF TriggerAgrees
  <2>7. CASE record_retry(w) \/ record_terminal_failure(w)
    <3>1. fulfillment' = fulfillment
      BY <2>7 DEF record_retry, record_terminal_failure, order_vars
    <3> QED  BY <2>5, <3>1 DEF TriggerAgrees
  <2> QED  BY <1>4, <2>6, <2>7
<1>5. CASE Report \/ tick
  <2>1. rows' = rows /\ fulfillment' = fulfillment
    BY <1>5 DEF Report, report, tick, order_vars, outbox_vars
  <2> QED  BY <2>1 DEF TriggerAgrees, Final
<1>6. CASE Webhook
  <2>1. HookRows /\ UNCHANGED <<version, count, bundled>>
    BY <1>6, WebhookChanges
  <2>2. CASE UNCHANGED <<rows, fulfillment>>
    BY <2>2 DEF TriggerAgrees, Final
  <2>3. ASSUME NEW m \in Message, NEW q \in Row, HookRow(m, q)
        PROVE  TriggerAgrees /\ \A n \in Message : Final(n)
    <3>1. \A n \in Message : rows'[n] = IF n = m THEN q ELSE rows[n]
      BY <2>3 DEF HookRow, IInv, TypeOK
    <3>2. rows[m].state # "dead_letter"
      BY <2>3 DEF HookRow, IInv, RowsInv
    <3>3. Final(m)
      BY <2>3, <3>1, <3>2 DEF HookRow, Final
    <3>4. \A n \in Message : Final(n)
      BY <3>1, <3>3 DEF Final
    <3>5. ASSUME fulfillment' # fulfillment
          PROVE  delivery_guard'
      <4>1. /\ rows' = [rows EXCEPT ![m] = q]
            /\ Earns(m, q)
            /\ [mail |-> q.provider_id, type |-> "delivered"] \in events'
        BY <2>3, <3>5, Zenon DEF HookRow
      <4> QED  BY <2>1, <4>1, EarnedIsGuarded
    <3> QED  BY <3>4, <3>5 DEF TriggerAgrees
  <2> QED  BY <2>1, <2>2, <2>3 DEF HookRows
<1> QED  BY <1>1, <1>2, <1>3, <1>4, <1>5, <1>6 DEF Next, Record, Webhook

\* What a notice became is final, and an order becomes delivered only by what
\* the database trigger accepts, whatever is reported early, late or twice and
\* whatever answers come late (record_*, process, _apply_delivered_event).
THEOREM OutcomesStay == Spec => OutcomesAreFinal
<1>1. IInv /\ [Next]_vars => [TriggerAgrees /\ \A m \in Message : Final(m)]_vars
  BY StepIsFinal
<1>2. Spec => []IInv
  BY InitIInv, NextIInv, PTL DEF Spec
<1> QED  BY <1>1, <1>2, PTL DEF Spec, OutcomesAreFinal

=============================================================================

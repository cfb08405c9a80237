------------------------- MODULE Fulfillment_proofs -------------------------
(***************************************************************************)
(* Proofs about Fulfillment for every set of runs and calendars and every  *)
(* bound.  The invariant says, beside the properties, what each run may    *)
(* rely on at its step whatever the others did since it read the tables.   *)
(* Rows are only ever added, so what a run has read stays true, and each   *)
(* action needs to be looked at for its own run alone.  That no order is   *)
(* forgotten has an invariant of its own, which leaves out of account the  *)
(* runs that are about to settle their job.                                *)
(*                                                                         *)
(* The second part is about ProofDownload, for every number of requests.   *)
(* What leaves as a download is current and backed by evidence however     *)
(* many attempts carry the order out; that the status is answered and true *)
(* holds for one attempt at a time, because an upgrade that overlaps with  *)
(* another may append a version behind the verified one.  With one attempt *)
(* no version is appended once the order is past calendar_pending, so that *)
(* whatever a request has read of a confirmed order stays true while it    *)
(* goes on.                                                                *)
(***************************************************************************)
EXTENDS ProofDownload, SequenceTheorems, WellFoundedInduction, TLAPS

-----------------------------------------------------------------------------
(* The inductive invariant.                                                *)

\* The steps at which a run holds a proof that is a stored version.
HoldsStored ==
    {"replay_start", "replay_end", "response", "persisted", "upgrade", "verify",
     "put", "observe", "verified", "reverify", "reverified", "stored",
     "observed", "bundle", "recheck", "notice"}
Offers == {"append", "conflict"}

IsStored(p) ==
    /\ p.version \in 1..Version
    /\ proofs[p.version] = [stamp |-> p.stamp, att |-> p.att]

\* A proof on offer is the first version, or adds attestations to a stored one.
IsOffer(p) ==
    /\ \A c \in p.att : height[c] # 0
    /\ \/ p.version = 1
       \/ /\ p.version - 1 \in 1..Version
          /\ proofs[p.version - 1].att \subseteq p.att
          /\ proofs[p.version - 1].att # p.att

\* What the verifier answered about a proof: one of its blocks, at a past time.
IsAnswer(a, p) ==
    /\ a \in Answer
    /\ a.at \in 1..checks
    /\ \E c \in p.att : height[c] = a.block

HasEvidence == \E v \in 1..Version : IsVerified(v) /\ IsObserved(v)
HasInitial == \E m \in outbox : m.kind = "initial"

\* What run r holds is what its step needs: its job, the order it loaded, the
\* proof, the verifier's answer, the rows it has seen, and a notice's grounds.
HoldsJob(r) ==
    /\ pc[r] # "idle" => kind[r] \in Kind
    /\ owns[r] => pc[r] # "idle"
HoldsOrder(r) ==
    /\ pc[r] \in {"latest", "reverify", "reverified"} => snap[r] \in Snapshot
    /\ snap[r] # None /\ snap[r].fulfillment \in Confirmed => HasEvidence
    /\ snap[r] # None /\ snap[r].fulfillment = "delivered" => HasInitial
HoldsProof(r) ==
    /\ pc[r] \in HoldsStored => seen[r] \in StoredProof /\ IsStored(seen[r])
    /\ pc[r] \in Offers => seen[r] \in StoredProof /\ IsOffer(seen[r])
HoldsAnswer(r) ==
    pc[r] \in {"put", "observe", "verified", "reverified"} =>
        IsAnswer(found[r], seen[r])
HoldsRows(r) ==
    /\ pc[r] \in {"verified", "observed"} =>
          IsVerified(seen[r].version) /\ IsObserved(seen[r].version)
    /\ pc[r] = "bundle" => kind[r] = "delivery"
    /\ pc[r] = "notice" =>
          IF kind[r] = "delivery" THEN seen[r].version \in bundles
          ELSE basis[r] >= FinalConfirmations

Ready(r) ==
    /\ HoldsJob(r)
    /\ HoldsOrder(r)
    /\ HoldsProof(r)
    /\ HoldsAnswer(r)
    /\ HoldsRows(r)
RunsReady == \A r \in Run : Ready(r)

\* Calendars whose attestation is stored have a block.
AttestedAnchored == \A v \in 1..Version : \A c \in proofs[v].att : height[c] # 0

IInv ==
    /\ TypeOK
    /\ RunsReady
    /\ AttestedAnchored
    /\ OneSubmissionTime
    /\ VersionsGrow
    /\ VerificationsAreAttested
    /\ ConfirmedOnEvidence
    /\ NoticesAreBacked

-----------------------------------------------------------------------------
(* The rows that are chosen exist.                                         *)

\* A set of naturals that is not empty has a least element.
LEMMA Least ==
    ASSUME NEW S \in SUBSET Nat, S # {}
    PROVE  \E x \in S : \A y \in S : x <= y
<1>1. PICK x \in S : \A y \in S : ~(<<y, x>> \in OpToRel(<, Nat))
  BY WFMin, NatLessThanWellFounded, Zenon
<1>2. \A y \in S : ~(y < x)
  BY <1>1, Zenon DEF OpToRel
<1>3. QED BY <1>2

\* The count of an observed version is that of one of its observations.
LEMMA LatestIsObserved ==
    ASSUME TypeOK, NEW v, IsObserved(v)
    PROVE  /\ LatestCount(v) \in Nat
           /\ \E x \in observations : x.version = v /\ x.count = LatestCount(v)
<1> DEFINE Ages == {checks - x.at : x \in {y \in observations : y.version = v}}
<1>1. Ages \in SUBSET Nat /\ Ages # {}
  BY DEF TypeOK, IsObserved
<1>2. PICK a \in Ages : \A b \in Ages : a <= b
  BY <1>1, Least
<1>3. PICK x \in observations : x.version = v /\ a = checks - x.at
  OBVIOUS
<1>4. \A y \in observations : y.version = v => y.at <= x.at
  <2> SUFFICES ASSUME NEW y \in observations, y.version = v
               PROVE  y.at <= x.at
    OBVIOUS
  <2>1. checks - y.at \in Ages
    OBVIOUS
  <2>2. x.at \in Nat /\ y.at \in Nat /\ checks \in Nat
    BY DEF TypeOK
  <2>3. QED BY <1>2, <1>3, <2>1, <2>2
<1>5. \E x1 \in observations :
         /\ x1.version = v
         /\ \A y \in observations : y.version = v => y.at <= x1.at
  BY <1>3, <1>4
<1>6. PICK x2 \in observations : x2.version = v /\ LatestCount(v) = x2.count
  BY <1>5, Zenon DEF LatestCount
<1>7. QED BY <1>6 DEF TypeOK

\* A verified version's block is that of one of its verifications.
LEMMA BlockIsVerified ==
    ASSUME TypeOK, NEW v, IsVerified(v)
    PROVE  /\ BlockOf(v) \in Nat
           /\ \E x \in verifications : x.version = v /\ x.block = BlockOf(v)
<1>1. PICK x \in verifications : x.version = v /\ BlockOf(v) = x.block
  BY Zenon DEF IsVerified, BlockOf
<1>2. QED BY <1>1 DEF TypeOK

\* The latest proof is a stored one.
LEMMA LatestIsStored ==
    ASSUME TypeOK, latest_for_order # None
    PROVE  latest_for_order \in StoredProof /\ IsStored(latest_for_order)
<1> DEFINE evidence ==
      IF fulfillment \in Confirmed /\ IsVerified(Version) /\ IsObserved(Version)
      THEN [block |-> BlockOf(Version), count |-> LatestCount(Version)]
      ELSE None
<1>1. evidence \in Evidence \cup {None}
  BY LatestIsObserved, BlockIsVerified DEF Evidence
<1>2. proofs # <<>>
  BY DEF latest_for_order
<1>3. Version \in 1..Version /\ proofs[Version] \in Bytes
  BY <1>2 DEF TypeOK, Version
<1>4. latest_for_order =
        [version |-> Version, stamp |-> proofs[Version].stamp,
         att |-> proofs[Version].att, evidence |-> evidence]
  BY <1>2 DEF latest_for_order
<1> HIDE DEF evidence
<1>5. QED
  BY <1>1, <1>3, <1>4 DEF StoredProof, Bytes, IsStored

\* A positive answer names the block of one of the attestations.
LEMMA FoundIsAnswer ==
    ASSUME TypeOK, NEW att \in SUBSET Calendar, Buried(att) # {}
    PROVE  /\ Found(att) \in Answer
           /\ Found(att).at = checks + 1
           /\ \E c \in att : height[c] = Found(att).block
<1> DEFINE H == {height[c] : c \in Buried(att)}
<1>0. \A c \in Buried(att) : c \in att /\ c \in Calendar /\ height[c] \in Nat
  BY DEF TypeOK, Buried
<1>1. H \in SUBSET Nat /\ H # {}
  <2>1. H \in SUBSET Nat
    BY <1>0
  <2>2. PICK c \in Buried(att) : TRUE
    OBVIOUS
  <2>3. height[c] \in H
    OBVIOUS
  <2>4. QED BY <2>1, <2>3
<1>2. PICK h \in H : \A x \in H : h <= x
  BY <1>1, Least
<1>3. \A c \in Buried(att) : h <= height[c]
  BY <1>2
<1>4. PICK c \in Buried(att) : Deepest(att) = height[c]
  BY <1>2, <1>3, Zenon DEF Deepest
<1>5. Deepest(att) \in Nat /\ Deepest(att) <= tip /\ tip \in Nat /\ checks \in Nat
  BY <1>4 DEF TypeOK, Buried
<1>6. QED
  BY <1>4, <1>5 DEF Found, Answer, Buried

-----------------------------------------------------------------------------
(* Types.                                                                  *)

\* Going to a step keeps the program counters typed.
LEMMA GoTypes ==
    ASSUME TypeOK, NEW r \in Run, NEW step \in Steps, Go(r, step)
    PROVE  pc' \in [Run -> Steps]
BY DEF Go, TypeOK

\* A transition of the order keeps the types.
LEMMA TransitionTypes ==
    ASSUME TypeOK, NEW r \in Run, NEW target \in FulfillmentState,
           NEW key \in EventKey, NEW time \in Nat \cup {None},
           NEW next \in Steps,
           transition_fulfillment_once(r, target, key, time, next)
    PROVE  TypeOK'
<1>1. /\ submitted_at' \in Nat \cup {None}
      /\ fulfillment' \in FulfillmentState
      /\ events' \subseteq EventKey
  BY DEF transition_fulfillment_once, Merged, TypeOK
<1>2. pc' \in [Run -> Steps]
  <2>1. Go(r, next) \/ Go(r, "retry")
    BY DEF transition_fulfillment_once, Go
  <2>2. "retry" \in Steps
    BY DEF Steps, Returned
  <2>3. QED BY <2>1, <2>2, GoTypes
<1>3. UNCHANGED <<payment, evidence_vars, job_vars, world_vars, kind, owns,
                  snap, seen, found, basis, bound_vars>>
  BY DEF transition_fulfillment_once
<1>4. QED
  BY <1>1, <1>2, <1>3 DEF TypeOK, evidence_vars, job_vars, world_vars, bound_vars

\* The steps that change nothing but the locals of their run.
LocalStep(r) ==
    \/ load(r) \/ latest(r) \/ calendars_fail(r) \/ append_conflict(r)
    \/ upgrade(r) \/ verifier_fails(r) \/ not_confirmed(r) \/ after(r)
    \/ get_verified(r) \/ latest_observation(r) \/ finish(r) \/ escalate(r)
    \/ stop(r)

RunTypes ==
    /\ pc \in [Run -> Steps]
    /\ kind \in [Run -> Kind \cup {None}]
    /\ owns \in [Run -> BOOLEAN]
    /\ snap \in [Run -> Snapshot \cup {None}]
    /\ seen \in [Run -> StoredProof \cup {None}]
    /\ found \in [Run -> Answer \cup {None}]
    /\ basis \in [Run -> Nat]

\* Giving up the locals, as every run does when it ends, keeps them typed.
LEMMA LeaveTypes ==
    ASSUME TypeOK, NEW r \in Run, Leave(r)
    PROVE  RunTypes'
BY DEF Leave, Go, TypeOK, RunTypes, Steps

\* The handlers go to steps.
LEMMA HandlerSteps ==
    ASSUME NEW k, NEW o, NEW p
    PROVE  HandlerGoes(k, o, p) \in Steps
BY DEF HandlerGoes, StampGoes, UpgradeGoes, DeliveryGoes, ConfirmationGoes,
   Steps, Returned

\* Where nothing but the locals changes, only they have to be typed.
LEMMA OnlyLocals ==
    ASSUME TypeOK, RunTypes',
           UNCHANGED <<order_vars, evidence_vars, job_vars, world_vars,
                       bound_vars>>
    PROVE  TypeOK'
BY DEF TypeOK, RunTypes, order_vars, evidence_vars, job_vars, world_vars,
   bound_vars

\* The steps that only read the tables, load and latest_for_order among them,
\* keep the types.
LEMMA LocalTypes ==
    ASSUME TypeOK, RunsReady, NEW r \in Run, LocalStep(r)
    PROVE  TypeOK'
<1> SUFFICES RunTypes'
  BY OnlyLocals DEF LocalStep, load, latest, calendars_fail, append_conflict,
     upgrade, verifier_fails, not_confirmed, after, get_verified,
     latest_observation, finish, escalate, stop
<1>0. RunTypes /\ Ready(r)
  BY DEF TypeOK, RunTypes, RunsReady
<1>1. CASE load(r)
  <2>1. pc' \in [Run -> Steps]
    BY <1>1 DEF load, Go, TypeOK, Steps, Returned
  <2>2. [payment |-> payment, fulfillment |-> fulfillment,
         submitted_at |-> submitted_at] \in Snapshot
    BY DEF TypeOK, Snapshot
  <2>3. QED BY <1>0, <1>1, <2>1, <2>2 DEF load, RunTypes
<1>2. CASE latest(r)
  <2>1. pc' \in [Run -> Steps]
    BY <1>2, HandlerSteps, GoTypes DEF latest
  <2>2. latest_for_order \in StoredProof \cup {None}
    BY LatestIsStored
  <2>3. QED BY <1>0, <1>2, <2>1, <2>2 DEF latest, RunTypes
<1>3. CASE calendars_fail(r) \/ append_conflict(r) \/ verifier_fails(r)
           \/ not_confirmed(r) \/ after(r) \/ get_verified(r) \/ escalate(r)
  <2>1. pc' \in [Run -> Steps]
    <3>1. \E step \in Returned \cup {"response", "verify", "poll", "spawn",
                                     "observed", "failing"} : Go(r, step)
      BY <1>3 DEF calendars_fail, append_conflict, AfterAppend, verifier_fails,
         not_confirmed, after, get_verified, escalate, Returned
    <3>2. QED BY <3>1, GoTypes DEF Steps
  <2>2. QED
    BY <1>0, <1>3, <2>1 DEF calendars_fail, append_conflict, verifier_fails,
       not_confirmed, after, get_verified, escalate, RunTypes
<1>4. CASE upgrade(r)
  <2>1. PICK S \in SUBSET Calendar :
          /\ IF S \subseteq seen[r].att
             THEN Go(r, "verify") /\ UNCHANGED seen
             ELSE /\ Go(r, "append")
                  /\ seen' = [seen EXCEPT ![r] =
                        [version |-> seen[r].version + 1, stamp |-> seen[r].stamp,
                         att |-> seen[r].att \cup S, evidence |-> None]]
          /\ UNCHANGED <<kind, owns, snap, found, basis>>
    BY <1>4 DEF upgrade
  <2>2. seen[r] \in StoredProof
    BY <1>0, <1>4 DEF upgrade, At, Ready, HoldsProof, HoldsStored
  <2>3. [version |-> seen[r].version + 1, stamp |-> seen[r].stamp,
         att |-> seen[r].att \cup S, evidence |-> None] \in StoredProof
    BY <2>2 DEF StoredProof
  <2>4. pc' \in [Run -> Steps]
    BY <2>1 DEF Go, TypeOK, Steps
  <2>5. QED BY <1>0, <2>1, <2>3, <2>4 DEF RunTypes
<1>5. CASE latest_observation(r)
  <2>1. LatestCount(seen[r].version) \in Nat
    BY <1>0, <1>5, LatestIsObserved DEF latest_observation, At, Ready, HoldsRows
  <2>2. pc' \in [Run -> Steps]
    BY <1>5 DEF latest_observation, Go, TypeOK, Steps
  <2>3. QED BY <1>0, <1>5, <2>1, <2>2 DEF latest_observation, RunTypes
<1>6. CASE finish(r) \/ stop(r)
  BY <1>6, LeaveTypes DEF finish, stop
<1>7. QED BY <1>1, <1>2, <1>3, <1>4, <1>5, <1>6 DEF LocalStep

\* The steps that move the order with transition_fulfillment_once.
TransitionStep(r) ==
    \/ replay_start(r) \/ replay_end(r) \/ start(r) \/ response(r)
    \/ persisted(r) \/ verified(r) \/ reverified(r)

\* What such a step asks for.
LEMMA Transitions ==
    ASSUME TypeOK, RunsReady, NEW r \in Run, TransitionStep(r)
    PROVE  \E target \in FulfillmentState, key \in EventKey,
              time \in Nat \cup {None}, next \in Steps :
              transition_fulfillment_once(r, target, key, time, next)
<1> USE DEF EventKey, FulfillmentState, Steps, Returned
<1>0. Ready(r)
  BY DEF RunsReady
<1>1. CASE replay_start(r)
  <2>1. seen[r].version \in Nat /\ seen[r].stamp \in Nat
    BY <1>0, <1>1 DEF replay_start, At, Ready, HoldsProof, HoldsStored, StoredProof
  <2>2. QED BY <1>1, <2>1 DEF replay_start
<1>2. CASE replay_end(r)
  <2>1. seen[r].version \in Nat /\ seen[r].stamp \in Nat
    BY <1>0, <1>2 DEF replay_end, At, Ready, HoldsProof, HoldsStored, StoredProof
  <2>2. QED BY <1>2, <2>1 DEF replay_end
<1>3. CASE start(r)
  BY <1>3 DEF start
<1>4. CASE response(r)
  <2>1. seen[r].stamp \in Nat
    BY <1>0, <1>4 DEF response, At, Ready, HoldsProof, HoldsStored, StoredProof
  <2>2. QED BY <1>4, <2>1 DEF response
<1>5. CASE persisted(r)
  <2>1. seen[r].stamp \in Nat
    BY <1>0, <1>5 DEF persisted, At, Ready, HoldsProof, HoldsStored, StoredProof
  <2>2. QED BY <1>5, <2>1 DEF persisted
<1>6. CASE verified(r)
  <2>1. seen[r].version \in Nat
    BY <1>0, <1>6 DEF verified, At, Ready, HoldsProof, HoldsStored, StoredProof
  <2>2. QED BY <1>6, <2>1 DEF verified
<1>7. CASE reverified(r)
  <2>1. snap[r].fulfillment \in FulfillmentState /\ found[r].at \in Nat
    BY <1>0, <1>7 DEF reverified, At, Ready, HoldsOrder, HoldsAnswer,
       Snapshot, IsAnswer, Answer
  <2>2. QED BY <1>7, <2>1 DEF reverified
<1>8. QED
  BY <1>1, <1>2, <1>3, <1>4, <1>5, <1>6, <1>7 DEF TransitionStep

\* The steps that add a row to the evidence.
EvidenceStep(r) ==
    \/ append(r) \/ put_verified_once(r) \/ record_once(r) \/ put_once(r)
    \/ enqueue_notice(r)

\* The rows that append, put_verified_once, record_once, put_once and the
\* notice add are typed and belong to a stored version.
LEMMA EvidenceTypes ==
    ASSUME TypeOK, RunsReady, NEW r \in Run, EvidenceStep(r)
    PROVE  TypeOK'
<1>0. Ready(r)
  BY DEF RunsReady
<1>1. CASE append(r)
  <2>1. seen[r] \in StoredProof
    BY <1>0, <1>1 DEF append, At, Ready, HoldsProof, Offers
  <2> DEFINE b == [stamp |-> seen[r].stamp, att |-> seen[r].att]
  <2>2. b \in Bytes /\ seen[r].stamp \in Nat
    BY <2>1 DEF StoredProof, Bytes
  <2>3. \/ UNCHANGED proofs
        \/ proofs' = Append(proofs, b)
    BY <1>1 DEF append
  <2> HIDE DEF b
  <2>4. proofs' \in Seq(Bytes) /\ Len(proofs) <= Len(proofs') /\ Len(proofs) \in Nat
        /\ Len(proofs') \in Nat
    <3>1. proofs \in Seq(Bytes)
      BY DEF TypeOK
    <3>2. CASE UNCHANGED proofs
      BY <3>1, <3>2, LenProperties
    <3>3. CASE proofs' = Append(proofs, b)
      BY <2>2, <3>1, <3>3, AppendProperties, LenProperties
    <3>4. QED BY <2>3, <3>2, <3>3
  <2>5. submitted_at' \in Nat \cup {None}
    BY <1>1, <2>2 DEF append, Merged, TypeOK
  <2>6. pc' \in [Run -> Steps]
    BY <1>1 DEF append, AfterAppend, Go, TypeOK, Steps
  <2>7. 1..Len(proofs) \subseteq 1..Len(proofs')
    BY <2>4
  <2>8. UNCHANGED <<payment, fulfillment, events, verifications, observations,
                    bundles, outbox, job_vars, world_vars, kind, owns, snap,
                    seen, found, basis, bound_vars>>
    BY <1>1 DEF append
  <2>9. /\ verifications' \subseteq [version : 1..Len(proofs'), block : Nat]
        /\ observations' \subseteq
             [version : 1..Len(proofs'), count : Nat, at : 1..checks']
        /\ bundles' \subseteq 1..Len(proofs')
        /\ outbox' \subseteq
             [kind : NoticeKind, version : 1..Len(proofs'), count : Nat]
    BY <2>7, <2>8 DEF TypeOK, world_vars
  <2>10. QED
    BY <2>4, <2>5, <2>6, <2>8, <2>9 DEF TypeOK, job_vars, world_vars, bound_vars
<1>2. CASE put_verified_once(r)
  <2>1. found[r].block \in Nat
    BY <1>0, <1>2 DEF put_verified_once, At, Ready, HoldsAnswer, IsAnswer,
       Answer
  <2>2. verifications' \subseteq [version : 1..Len(proofs'), block : Nat]
    BY <1>2, <2>1 DEF put_verified_once, Verifiable, Version, TypeOK
  <2>3. pc' \in [Run -> Steps]
    BY <1>2 DEF put_verified_once, Go, TypeOK, Steps, Returned
  <2>4. QED
    BY <1>2, <2>2, <2>3 DEF put_verified_once, TypeOK, order_vars, job_vars,
       world_vars, bound_vars
<1>3. CASE record_once(r)
  <2>1. found[r].count \in Nat /\ found[r].at \in 1..checks
    BY <1>0, <1>3 DEF record_once, At, Ready, HoldsAnswer, IsAnswer,
       Answer
  <2>2. Recordable(r) => Version \in 1..Len(proofs)
    BY DEF Recordable, IsVerified, TypeOK
  <2>3. observations' \subseteq
          [version : 1..Len(proofs'), count : Nat, at : 1..checks']
    BY <1>3, <2>1, <2>2 DEF record_once, TypeOK, world_vars
  <2>4. pc' \in [Run -> Steps]
    BY <1>3 DEF record_once, ObservedGoes, Go, TypeOK, Steps, Returned
  <2>5. basis' \in [Run -> Nat]
    BY <1>3, <2>1 DEF record_once, TypeOK
  <2>6. QED
    BY <1>3, <2>3, <2>4, <2>5 DEF record_once, TypeOK, order_vars, job_vars,
       world_vars, bound_vars
<1>4. CASE put_once(r)
  <2>1. bundles' \subseteq 1..Len(proofs')
    BY <1>4 DEF put_once, Version, TypeOK
  <2>2. pc' \in [Run -> Steps]
    BY <1>4 DEF put_once, Go, TypeOK, Steps, Returned
  <2>3. QED
    BY <1>4, <2>1, <2>2 DEF put_once, TypeOK, order_vars, job_vars, world_vars,
       bound_vars
<1>5. CASE enqueue_notice(r)
  <2>1. Authoritative(r) => seen[r].version \in 1..Len(proofs)
    BY DEF Authoritative, IsVerified, TypeOK
  <2>2. basis[r] \in Nat
    BY DEF TypeOK
  <2>3. outbox' \subseteq
          [kind : NoticeKind, version : 1..Len(proofs'), count : Nat]
    BY <1>5, <2>1, <2>2 DEF enqueue_notice, Notice, NoticeKind, TypeOK
  <2>4. pc' \in [Run -> Steps]
    BY <1>5 DEF enqueue_notice, Go, TypeOK, Steps, Returned
  <2>5. QED
    BY <1>5, <2>3, <2>4 DEF enqueue_notice, TypeOK, order_vars, job_vars,
       world_vars, bound_vars
<1>6. QED
  BY <1>1, <1>2, <1>3, <1>4, <1>5 DEF EvidenceStep

\* The steps that change the job rows, the world or the order from outside.
QueueTypes ==
    /\ keys \subseteq JobKey
    /\ waiting \in [Kind -> Nat]
    /\ stranded \subseteq Kind
    /\ requests \in Nat
    /\ faults \in Nat

\* Claiming, enqueueing and giving back a job keeps the types: no count of
\* waiting rows becomes negative.
LEMMA JobTypes ==
    ASSUME TypeOK, RunsReady, NEW r \in Run,
           \/ \E k \in Kind : claim(r, k)
           \/ spawn(r) \/ poll(r) \/ retry(r) \/ lease_expires(r)
           \/ last_lease_expires(r)
    PROVE  TypeOK'
<1>0. Ready(r) /\ RunTypes
  BY DEF RunsReady, TypeOK, RunTypes
<1>1. ASSUME NEW k \in Kind, claim(r, k)
      PROVE  TypeOK'
  <2>1. waiting' \in [Kind -> Nat]
    BY <1>1 DEF claim, TypeOK
  <2>2. RunTypes'
    BY <1>0, <1>1 DEF claim, Go, RunTypes, Steps
  <2>3. QED
    BY <1>1, <2>1, <2>2 DEF claim, TypeOK, RunTypes, order_vars, evidence_vars,
       world_vars, bound_vars
<1>2. CASE spawn(r) \/ poll(r)
  <2>1. faults' \in Nat
    BY <1>2 DEF spawn, poll, Dispatch, TypeOK
  <2>2. ASSUME NEW k \in Kind, NEW key \in JobKey,
               EnqueueOnce(k, key) \/ EnqueuePoll(k)
        PROVE  /\ keys' \subseteq JobKey /\ waiting' \in [Kind -> Nat]
               /\ stranded' \subseteq Kind
    <3>1. keys' \subseteq JobKey /\ stranded' \subseteq Kind
      BY <2>2 DEF EnqueueOnce, EnqueuePoll, TypeOK
    <3>2. waiting' \in {waiting, [waiting EXCEPT ![k] = @ + 1]}
      BY <2>2, Zenon DEF EnqueueOnce, EnqueuePoll
    <3>3. waiting \in [Kind -> Nat]
      BY DEF TypeOK
    <3>4. [waiting EXCEPT ![k] = @ + 1] \in [Kind -> Nat]
      BY <3>3
    <3>5. QED BY <3>1, <3>2, <3>3, <3>4
  <2>3. /\ keys' \subseteq JobKey /\ waiting' \in [Kind -> Nat]
        /\ stranded' \subseteq Kind
    <3>1. {"upgrade", "delivery", "confirmation"} \subseteq Kind
      BY DEF Kind
    <3>2. \A k \in Kind : <<k, 0>> \in JobKey
      BY DEF JobKey
    <3>3. QED BY <1>2, <2>2, <3>1, <3>2 DEF spawn, poll
  <2>4. pc' \in [Run -> Steps]
    BY <1>2 DEF spawn, poll, Dispatch, Go, TypeOK, Steps, Returned
  <2>5. QED
    BY <1>2, <2>1, <2>3, <2>4 DEF spawn, poll, TypeOK, order_vars,
       evidence_vars, world_vars
<1>3. CASE retry(r)
  <2>1. kind[r] \in Kind
    BY <1>0, <1>3 DEF retry, At, Ready, HoldsJob
  <2>2. waiting' \in [Kind -> Nat]
    BY <1>3, <2>1 DEF retry, TypeOK
  <2>3. RunTypes'
    BY <1>3, LeaveTypes DEF retry
  <2>4. QED
    BY <1>3, <2>2, <2>3 DEF retry, TypeOK, RunTypes, order_vars, evidence_vars,
       world_vars, bound_vars
<1>4. CASE lease_expires(r)
  <2>1. kind[r] \in Kind
    BY <1>0, <1>4 DEF lease_expires, Ready, HoldsJob
  <2>2. waiting' \in [Kind -> Nat] /\ faults' \in Nat
    BY <1>4, <2>1 DEF lease_expires, TypeOK
  <2>3. owns' \in [Run -> BOOLEAN]
    BY <1>4 DEF lease_expires, TypeOK
  <2>4. QED
    BY <1>4, <2>2, <2>3 DEF lease_expires, TypeOK, order_vars, evidence_vars,
       world_vars
<1>5. CASE last_lease_expires(r)
  <2>1. stranded' \subseteq Kind
    BY <1>0, <1>5 DEF last_lease_expires, Ready, HoldsJob, TypeOK
  <2>2. owns' \in [Run -> BOOLEAN] /\ faults' \in Nat
    BY <1>5 DEF last_lease_expires, TypeOK
  <2>3. QED
    BY <1>5, <2>1, <2>2 DEF last_lease_expires, TypeOK, order_vars,
       evidence_vars, world_vars
<1>6. QED BY <1>1, <1>2, <1>3, <1>4, <1>5

\* Every step keeps the types.
LEMMA TypeStep ==
    ASSUME TypeOK, RunsReady, [Next]_vars
    PROVE  TypeOK'
<1>1. ASSUME NEW r \in Run, RunStep(r)
      PROVE  TypeOK'
  <2>0. Ready(r)
    BY DEF RunsReady
  <2>1. CASE TransitionStep(r)
    BY <2>1, Transitions, TransitionTypes
  <2>2. CASE LocalStep(r)
    BY <2>2, LocalTypes
  <2>3. CASE EvidenceStep(r)
    BY <2>3, EvidenceTypes
  <2>4. CASE \/ \E k \in Kind : claim(r, k)
             \/ spawn(r) \/ poll(r) \/ retry(r) \/ lease_expires(r)
             \/ last_lease_expires(r)
    BY <2>4, JobTypes
  <2>5. CASE submit(r)
    <3>1. [version |-> 1, stamp |-> stamps + 1, att |-> {}, evidence |-> None]
            \in StoredProof
      BY DEF TypeOK, StoredProof
    <3>2. seen' \in [Run -> StoredProof \cup {None}]
      BY <2>5, <3>1 DEF submit, TypeOK
    <3>3. pc' \in [Run -> Steps] /\ stamps' \in Nat
      BY <2>5 DEF submit, Go, TypeOK, Steps
    <3>4. QED
      BY <2>5, <3>2, <3>3 DEF submit, TypeOK, order_vars, evidence_vars,
         job_vars, bound_vars
  <2>6. CASE verify_exact_digest(r)
    <3>1. seen[r].att \in SUBSET Calendar
      BY <2>0, <2>6 DEF verify_exact_digest, Asking, Ready, HoldsProof, HoldsStored,
         StoredProof
    <3>2. found' \in [Run -> Answer \cup {None}]
      BY <2>6, <3>1, FoundIsAnswer DEF verify_exact_digest, TypeOK
    <3>3. pc' \in [Run -> Steps] /\ checks' \in Nat
      BY <2>6 DEF verify_exact_digest, VerifiedGoes, Go, TypeOK, Steps, Returned
    <3>4. 1..checks \subseteq 1..checks'
      BY <2>6 DEF verify_exact_digest, TypeOK
    <3>5. observations' \subseteq
            [version : 1..Len(proofs'), count : Nat, at : 1..checks']
      BY <2>6, <3>4 DEF verify_exact_digest, evidence_vars, TypeOK
    <3>6. QED
      BY <2>6, <3>2, <3>3, <3>5 DEF verify_exact_digest, TypeOK, order_vars,
         evidence_vars, job_vars, bound_vars
  <2>7. CASE terminal_failure(r)
    <3>1. pc' \in [Run -> Steps] /\ fulfillment' \in FulfillmentState
      BY <2>7 DEF terminal_failure, Go, TypeOK, Steps, FulfillmentState
    <3>2. QED
      BY <2>7, <3>1 DEF terminal_failure, TypeOK, evidence_vars, job_vars,
         world_vars, bound_vars
  <2>8. QED
    BY <1>1, <2>1, <2>2, <2>3, <2>4, <2>5, <2>6, <2>7 DEF RunStep, StampStep,
       ProofStep, UpgradeStep, VerifierStep, NoticeStep, QueueStep, EndStep,
       TransitionStep, LocalStep, EvidenceStep
<1>2. CASE Environment
  <2>1. CASE operator_reverify \/ operator_upgrade
    <3>1. QueueTypes'
      <4>1. requests' \in Nat /\ faults' \in Nat
        BY <2>1 DEF operator_reverify, operator_upgrade, TypeOK
      <4>2. "upgrade" \in Kind /\ <<"upgrade-manual", Version>> \in JobKey
        BY DEF Kind, JobKey, Version, TypeOK
      <4>3. /\ waiting' \in {waiting, [waiting EXCEPT !["upgrade"] = @ + 1]}
            /\ keys' \subseteq keys \cup {<<"upgrade-manual", Version>>}
            /\ UNCHANGED stranded
        <5>1. CASE operator_reverify
          BY <5>1 DEF operator_reverify, EnqueuePoll
        <5>2. CASE operator_upgrade
          BY <5>2 DEF operator_upgrade, EnqueueOnce
        <5>3. QED BY <2>1, <5>1, <5>2
      <4>4. [waiting EXCEPT !["upgrade"] = @ + 1] \in [Kind -> Nat]
        BY <4>2 DEF TypeOK
      <4>5. QED BY <4>1, <4>2, <4>3, <4>4 DEF TypeOK, QueueTypes
    <3>2. QED
      BY <2>1, <3>1 DEF operator_reverify, operator_upgrade, TypeOK, QueueTypes,
         order_vars, evidence_vars, world_vars, run_vars
  <2>2. ASSUME NEW target \in PaymentState, payment_returned(target)
        PROVE  TypeOK'
    BY <2>2 DEF payment_returned, TypeOK, evidence_vars, job_vars, world_vars,
       run_vars, bound_vars
  <2>3. CASE apply_delivered_event
    BY <2>3 DEF apply_delivered_event, TypeOK, FulfillmentState, evidence_vars,
       job_vars, world_vars, run_vars, bound_vars
  <2>4. CASE mine \/ reorganize
    <3>1. tip' \in Nat /\ height' \in [Calendar -> Nat]
          /\ orphaned' \subseteq Calendar
      BY <2>4 DEF mine, reorganize, TypeOK
    <3>2. QED
      BY <2>4, <3>1 DEF mine, reorganize, TypeOK, order_vars, evidence_vars,
         job_vars, run_vars, bound_vars
  <2>5. QED BY <1>2, <2>1, <2>2, <2>3, <2>4 DEF Environment
<1>3. CASE UNCHANGED vars
  BY <1>3 DEF vars, TypeOK
<1>4. QED BY <1>1, <1>2, <1>3 DEF Next

-----------------------------------------------------------------------------
(* Rows are never taken back.                                              *)

Grown ==
    /\ Version <= Version'
    /\ \A v \in 1..Version : proofs'[v] = proofs[v]
    /\ verifications \subseteq verifications'
    /\ observations \subseteq observations'
    /\ bundles \subseteq bundles'
    /\ outbox \subseteq outbox'
    /\ checks <= checks'
    /\ \A c \in Calendar : height[c] # 0 => height'[c] = height[c]

\* Only the evidence steps of a run write evidence.
LEMMA EvidenceChanges ==
    ASSUME [Next]_vars
    PROVE  (\E r \in Run : EvidenceStep(r)) \/ UNCHANGED evidence_vars
<1>1. ASSUME NEW r \in Run, RunStep(r)
      PROVE  EvidenceStep(r) \/ UNCHANGED evidence_vars
  <2>1. CASE StampStep(r)
    BY <2>1 DEF StampStep, replay_start, replay_end, start, submit, response,
       persisted, transition_fulfillment_once
  <2>2. CASE ProofStep(r)
    BY <2>2 DEF ProofStep, append_conflict, calendars_fail, EvidenceStep
  <2>3. CASE UpgradeStep(r)
    BY <2>3 DEF UpgradeStep, upgrade, verified, reverified, after,
       transition_fulfillment_once, EvidenceStep
  <2>4. CASE VerifierStep(r)
    BY <2>4 DEF VerifierStep, verifier_fails, not_confirmed, verify_exact_digest
  <2>5. CASE NoticeStep(r)
    BY <2>5 DEF NoticeStep, get_verified, latest_observation, EvidenceStep
  <2>6. CASE QueueStep(r)
    BY <2>6 DEF QueueStep, claim, load, latest, spawn, poll
  <2>7. CASE EndStep(r)
    BY <2>7 DEF EndStep, finish, retry, escalate, terminal_failure,
       lease_expires, last_lease_expires, stop
  <2>8. QED
    BY <1>1, <2>1, <2>2, <2>3, <2>4, <2>5, <2>6, <2>7 DEF RunStep
<1>2. CASE Environment
  BY <1>2 DEF Environment, operator_reverify, operator_upgrade,
     payment_returned, apply_delivered_event, mine, reorganize
<1>3. CASE UNCHANGED vars
  BY <1>3 DEF vars, evidence_vars
<1>4. QED BY <1>1, <1>2, <1>3 DEF Next

\* Only the chain changes heights, and only the verifier the clock.
LEMMA WorldGrows ==
    ASSUME TypeOK, [Next]_vars
    PROVE  /\ checks <= checks'
           /\ \A c \in Calendar : height[c] # 0 => height'[c] = height[c]
<1> SUFFICES \/ UNCHANGED <<checks, height>>
             \/ checks' = checks + 1 /\ UNCHANGED height
             \/ mine
  BY DEF mine, TypeOK
<1>1. ASSUME NEW r \in Run, RunStep(r)
      PROVE  \/ UNCHANGED <<checks, height>>
             \/ checks' = checks + 1 /\ UNCHANGED height
  <2> USE DEF world_vars
  <2>1. CASE StampStep(r)
    BY <2>1 DEF StampStep, replay_start, replay_end, start, submit, response,
       persisted, transition_fulfillment_once
  <2>2. CASE ProofStep(r)
    BY <2>2 DEF ProofStep, append, append_conflict, calendars_fail
  <2>3. CASE UpgradeStep(r)
    BY <2>3 DEF UpgradeStep, upgrade, put_verified_once, verified, reverified,
       after, transition_fulfillment_once
  <2>4. CASE VerifierStep(r)
    BY <2>4 DEF VerifierStep, verifier_fails, not_confirmed, verify_exact_digest
  <2>5. CASE NoticeStep(r)
    BY <2>5 DEF NoticeStep, get_verified, latest_observation, put_once,
       record_once, enqueue_notice
  <2>6. CASE QueueStep(r)
    BY <2>6 DEF QueueStep, claim, load, latest, spawn, poll
  <2>7. CASE EndStep(r)
    BY <2>7 DEF EndStep, finish, retry, escalate, terminal_failure,
       lease_expires, last_lease_expires, stop
  <2>8. QED
    BY <1>1, <2>1, <2>2, <2>3, <2>4, <2>5, <2>6, <2>7 DEF RunStep
<1>2. CASE Environment
  BY <1>2 DEF Environment, operator_reverify, operator_upgrade,
     payment_returned, apply_delivered_event, reorganize, world_vars
<1>3. CASE UNCHANGED vars
  BY <1>3 DEF vars
<1>4. QED BY <1>1, <1>2, <1>3 DEF Next

\* An append puts one more proof behind the others, or changes nothing.
LEMMA AppendGrows ==
    ASSUME TypeOK, RunsReady, NEW r \in Run, append(r)
    PROVE  /\ \/ UNCHANGED proofs
              \/ /\ seen[r].version = Version + 1
                 /\ Version' = Version + 1
                 /\ \A v \in 1..Version : proofs'[v] = proofs[v]
                 /\ proofs'[Version + 1] =
                       [stamp |-> seen[r].stamp, att |-> seen[r].att]
           /\ Version \in Nat
           /\ Version <= Version'
<1> DEFINE b == [stamp |-> seen[r].stamp, att |-> seen[r].att]
<1>1. seen[r] \in StoredProof
  BY DEF RunsReady, Ready, HoldsProof, append, At, Offers
<1>2. b \in Bytes
  BY <1>1 DEF StoredProof, Bytes
<1>3. \/ UNCHANGED proofs
      \/ seen[r].version = Version + 1 /\ proofs' = Append(proofs, b)
  BY DEF append, Appends
<1>4. proofs \in Seq(Bytes) /\ Len(proofs) \in Nat
  BY DEF TypeOK
<1> HIDE DEF b
<1>5. CASE UNCHANGED proofs
  BY <1>4, <1>5 DEF Version
<1>6. CASE seen[r].version = Version + 1 /\ proofs' = Append(proofs, b)
  <2>1. /\ Len(proofs') = Len(proofs) + 1
        /\ \A v \in 1..Len(proofs) : proofs'[v] = proofs[v]
        /\ proofs'[Len(proofs) + 1] = b
    BY <1>2, <1>4, <1>6, AppendProperties
  <2>2. QED BY <1>4, <1>6, <2>1 DEF Version, b
<1>7. QED BY <1>3, <1>5, <1>6

\* No step takes back or rewrites a stored row, or moves a block it refers to.
LEMMA RowsGrow ==
    ASSUME TypeOK, RunsReady, [Next]_vars
    PROVE  Grown
<1>1. Version \in Nat
  BY DEF TypeOK, Version
<1>2. /\ Version <= Version'
      /\ \A v \in 1..Version : proofs'[v] = proofs[v]
      /\ verifications \subseteq verifications'
      /\ observations \subseteq observations'
      /\ bundles \subseteq bundles'
      /\ outbox \subseteq outbox'
  <2>1. CASE UNCHANGED evidence_vars
    BY <1>1, <2>1 DEF evidence_vars, Version
  <2>2. ASSUME NEW r \in Run, append(r)
        PROVE  <1>2
    BY <2>2, AppendGrows DEF append
  <2>3. ASSUME NEW r \in Run, put_verified_once(r) \/ record_once(r)
                               \/ put_once(r) \/ enqueue_notice(r)
        PROVE  <1>2
    BY <1>1, <2>3 DEF put_verified_once, record_once, put_once, enqueue_notice,
       Version
  <2>4. QED BY <2>1, <2>2, <2>3, EvidenceChanges DEF EvidenceStep
<1>3. QED BY <1>2, WorldGrows DEF Grown

-----------------------------------------------------------------------------
(* A run's step is seen by the other runs only through the tables.         *)

LocalsKept(q) ==
    /\ pc'[q] = pc[q]
    /\ kind'[q] = kind[q]
    /\ owns'[q] = owns[q]
    /\ snap'[q] = snap[q]
    /\ seen'[q] = seen[q]
    /\ found'[q] = found[q]
    /\ basis'[q] = basis[q]

\* No step of a run touches the locals of another.
LEMMA OthersKept ==
    ASSUME TypeOK, NEW r \in Run, RunStep(r), NEW q \in Run, q # r
    PROVE  LocalsKept(q)
<1> USE DEF LocalsKept, Go
<1>0. RunTypes
  BY DEF TypeOK, RunTypes
<1>1. CASE StampStep(r)
  BY <1>0, <1>1 DEF StampStep, replay_start, replay_end, start, submit, response,
     persisted, transition_fulfillment_once, RunTypes
<1>2. CASE ProofStep(r)
  BY <1>0, <1>2 DEF ProofStep, append, append_conflict, calendars_fail, RunTypes
<1>3. CASE UpgradeStep(r)
  BY <1>0, <1>3 DEF UpgradeStep, upgrade, put_verified_once, verified, reverified,
     after, transition_fulfillment_once, RunTypes
<1>4. CASE VerifierStep(r)
  BY <1>0, <1>4 DEF VerifierStep, verifier_fails, not_confirmed,
     verify_exact_digest, RunTypes
<1>5. CASE NoticeStep(r)
  BY <1>0, <1>5 DEF NoticeStep, get_verified, latest_observation, put_once,
     record_once, enqueue_notice, RunTypes
<1>6. CASE QueueStep(r)
  BY <1>0, <1>6 DEF QueueStep, claim, load, latest, spawn, poll, Dispatch,
     RunTypes
<1>7. CASE EndStep(r)
  BY <1>0, <1>7 DEF EndStep, finish, retry, escalate, terminal_failure,
     lease_expires, last_lease_expires, stop, Leave, RunTypes
<1>8. QED
  BY <1>1, <1>2, <1>3, <1>4, <1>5, <1>6, <1>7 DEF RunStep

\* What is held of the tables stays true as they grow.
LEMMA HeldKept ==
    ASSUME TypeOK, TypeOK', Grown
    PROVE  /\ \A p \in StoredProof : IsStored(p) => IsStored(p)'
           /\ \A p \in StoredProof : IsOffer(p) => IsOffer(p)'
           /\ HasEvidence => HasEvidence'
           /\ HasInitial => HasInitial'
           /\ \A v : IsVerified(v) => IsVerified(v)'
           /\ \A v : IsObserved(v) => IsObserved(v)'
<1>0. Version \in Nat /\ Version' \in Nat /\ Version <= Version'
  BY DEF TypeOK, Version, Grown
<1>1. ASSUME NEW v, IsVerified(v)
      PROVE  IsVerified(v)'
  BY <1>1 DEF IsVerified, Grown
<1>2. ASSUME NEW v, IsObserved(v)
      PROVE  IsObserved(v)'
  BY <1>2 DEF IsObserved, Grown
<1>3. ASSUME NEW p \in StoredProof, IsStored(p)
      PROVE  IsStored(p)'
  BY <1>0, <1>3 DEF IsStored, Grown, StoredProof
<1>4. ASSUME NEW p \in StoredProof, IsOffer(p)
      PROVE  IsOffer(p)'
  <2>1. p.att \subseteq Calendar /\ p.version \in Nat
    BY DEF StoredProof
  <2>2. \A c \in p.att : height'[c] # 0
    BY <1>4, <2>1 DEF IsOffer, Grown
  <2>3. CASE p.version = 1
    BY <2>2, <2>3 DEF IsOffer
  <2>4. CASE /\ p.version - 1 \in 1..Version
             /\ proofs[p.version - 1].att \subseteq p.att
             /\ proofs[p.version - 1].att # p.att
    <3>1. proofs'[p.version - 1] = proofs[p.version - 1]
      BY <2>4 DEF Grown
    <3>2. p.version - 1 \in 1..Version'
      BY <1>0, <2>1, <2>4
    <3>3. QED BY <2>2, <2>4, <3>1, <3>2 DEF IsOffer
  <2>5. QED BY <1>4, <2>3, <2>4 DEF IsOffer
<1>5. HasEvidence => HasEvidence'
  BY <1>0, <1>1, <1>2 DEF HasEvidence
<1>6. HasInitial => HasInitial'
  BY DEF HasInitial, Grown
<1>7. QED BY <1>1, <1>2, <1>3, <1>4, <1>5, <1>6

\* An answer to a proof stays one.
LEMMA AnswerKept ==
    ASSUME TypeOK, TypeOK', Grown, NEW a, NEW p \in StoredProof,
           \A c \in p.att : height[c] # 0, IsAnswer(a, p)
    PROVE  IsAnswer(a, p)'
<1>1. checks \in Nat /\ checks' \in Nat /\ checks <= checks'
  BY DEF TypeOK, Grown
<1>2. p.att \subseteq Calendar
  BY DEF StoredProof
<1>3. QED BY <1>1, <1>2 DEF IsAnswer, Grown

\* A run that keeps its locals is ready still, even if it loses its lease.
LEMMA ReadyKept ==
    ASSUME TypeOK, TypeOK', Grown, AttestedAnchored, NEW q \in Run, Ready(q),
           pc'[q] = pc[q], kind'[q] = kind[q], snap'[q] = snap[q],
           seen'[q] = seen[q], found'[q] = found[q], basis'[q] = basis[q],
           owns'[q] => owns[q]
    PROVE  Ready(q)'
<1>1. HoldsJob(q)'
  BY DEF Ready, HoldsJob
<1>2. HoldsOrder(q)'
  BY HeldKept DEF Ready, HoldsOrder
<1>3. HoldsProof(q)'
  BY HeldKept DEF Ready, HoldsProof
<1>4. HoldsAnswer(q)'
  <2> SUFFICES ASSUME pc[q] \in {"put", "observe", "verified", "reverified"}
               PROVE  IsAnswer(found[q], seen[q])'
    BY DEF HoldsAnswer
  <2>1. seen[q] \in StoredProof /\ IsStored(seen[q])
        /\ IsAnswer(found[q], seen[q])
    BY DEF Ready, HoldsAnswer, HoldsProof, HoldsStored
  <2>2. \A c \in seen[q].att : height[c] # 0
    BY <2>1 DEF IsStored, AttestedAnchored
  <2>3. QED BY <2>1, <2>2, AnswerKept DEF IsAnswer
<1>5. HoldsRows(q)'
  <2>1. pc[q] \in {"verified", "observed"} =>
           IsVerified(seen[q].version)' /\ IsObserved(seen[q].version)'
    BY HeldKept DEF Ready, HoldsRows, IsVerified, IsObserved
  <2>2. bundles \subseteq bundles'
    BY DEF Grown
  <2>3. QED BY <2>1, <2>2 DEF Ready, HoldsRows
<1>6. QED BY <1>1, <1>2, <1>3, <1>4, <1>5 DEF Ready

\* A step that keeps its job and loads no order leaves the proof, the answer
\* and the rows to be shown.
LEMMA StepReady ==
    ASSUME TypeOK, TypeOK', Grown, NEW r \in Run, Ready(r),
           pc[r] # "idle", pc'[r] # "idle", kind'[r] = kind[r],
           owns'[r] = owns[r], snap'[r] \in {snap[r], None},
           pc'[r] \in {"latest", "reverify", "reverified"} =>
              snap'[r] \in Snapshot,
           HoldsProof(r)', HoldsAnswer(r)', HoldsRows(r)'
    PROVE  Ready(r)'
<1>1. HoldsJob(r)'
  BY DEF Ready, HoldsJob
<1>2. HoldsOrder(r)'
  <2>1. CASE snap'[r] = None
    BY <2>1 DEF HoldsOrder
  <2>2. CASE snap'[r] = snap[r]
    BY <2>2, HeldKept DEF Ready, HoldsOrder
  <2>3. QED BY <2>1, <2>2
<1>3. QED BY <1>1, <1>2 DEF Ready

\* The steps at which nothing is needed but the job.
Quiet == Returned \cup {"load", "start", "submit", "after", "spawn", "poll",
                        "failing", "failed"}

\* A run that goes to such a step is ready.
LEMMA QuietReady ==
    ASSUME TypeOK, TypeOK', Grown, NEW r \in Run, Ready(r),
           pc[r] # "idle", pc'[r] \in Quiet, kind'[r] = kind[r],
           owns'[r] = owns[r], snap'[r] \in {snap[r], None}
    PROVE  Ready(r)'
<1>1. /\ pc'[r] # "idle"
      /\ pc'[r] \notin {"latest", "reverify", "reverified"}
      /\ HoldsProof(r)' /\ HoldsAnswer(r)' /\ HoldsRows(r)'
  BY DEF Quiet, Returned, HoldsProof, HoldsStored, Offers, HoldsAnswer, HoldsRows
<1>2. QED BY <1>1, StepReady

\* A run that has left its job is ready for the next.
LEMMA LeaveReady ==
    ASSUME TypeOK, NEW r \in Run, Leave(r)
    PROVE  Ready(r)'
<1>1. pc'[r] = "idle" /\ owns'[r] = FALSE /\ snap'[r] = None
  BY DEF Leave, Go, TypeOK
<1>2. QED
  BY <1>1 DEF Ready, HoldsJob, HoldsOrder, HoldsProof, HoldsStored, Offers,
     HoldsAnswer, HoldsRows

\* A stored proof that the run keeps is stored still.
LEMMA ProofKept ==
    ASSUME TypeOK, TypeOK', Grown, NEW r \in Run, Ready(r),
           pc[r] \in HoldsStored, pc'[r] \notin Offers, seen'[r] = seen[r]
    PROVE  HoldsProof(r)'
<1>1. seen[r] \in StoredProof /\ IsStored(seen[r])
  BY DEF Ready, HoldsProof
<1>2. seen'[r] \in StoredProof /\ IsStored(seen[r])'
  BY <1>1, HeldKept DEF IsStored
<1>3. QED BY <1>2 DEF HoldsProof

-----------------------------------------------------------------------------
(* A run's own step leaves it ready for the next one.                      *)

\* The order that is loaded is as it was shown to be.
LEMMA LoadReady ==
    ASSUME TypeOK, TypeOK', Grown, ConfirmedOnEvidence, NoticesAreBacked,
           NEW r \in Run, Ready(r), load(r)
    PROVE  Ready(r)'
<1>1. /\ pc'[r] \in {"manual", "latest"}
      /\ kind'[r] = kind[r] /\ owns'[r] = owns[r]
      /\ snap'[r] = [payment |-> payment, fulfillment |-> fulfillment,
                     submitted_at |-> submitted_at]
  BY DEF load, Go, TypeOK
<1>2. snap'[r] \in Snapshot /\ snap'[r].fulfillment = fulfillment
  BY <1>1 DEF TypeOK, Snapshot
<1>3. HoldsOrder(r)'
  BY <1>1, <1>2, HeldKept DEF HoldsOrder, ConfirmedOnEvidence, HasEvidence,
     NoticesAreBacked, HasInitial
<1>4. HoldsJob(r)'
  BY <1>1 DEF load, At, Ready, HoldsJob
<1>5. HoldsProof(r)' /\ HoldsAnswer(r)' /\ HoldsRows(r)'
  BY <1>1 DEF HoldsProof, HoldsStored, Offers, HoldsAnswer, HoldsRows
<1>6. QED BY <1>3, <1>4, <1>5 DEF Ready

\* A handler that goes on with a proof was given one.
LEMMA LatestReady ==
    ASSUME TypeOK, TypeOK', Grown, NEW r \in Run, Ready(r), latest(r)
    PROVE  Ready(r)'
<1> DEFINE p == latest_for_order
           next == HandlerGoes(kind[r], snap[r], p)
<1>1. /\ pc[r] = "latest" /\ pc'[r] = next /\ seen'[r] = p
      /\ kind'[r] = kind[r] /\ owns'[r] = owns[r]
      /\ snap'[r] = IF next = "reverify" THEN snap[r] ELSE None
  BY DEF latest, Go, At, TypeOK
<1>2. /\ p = None => next \in {"manual", "start", "submit"}
      /\ next \in {"manual", "start", "submit", "spawn", "replay_start",
                   "replay_end", "reverify", "upgrade", "stored"}
  BY DEF HandlerGoes, StampGoes, UpgradeGoes, DeliveryGoes, ConfirmationGoes
<1>3. p # None => /\ p \in StoredProof
                  /\ p.version \in 1..Version'
                  /\ proofs'[p.version] = [stamp |-> p.stamp, att |-> p.att]
  <2>1. p # None => p \in StoredProof /\ IsStored(p)
    BY LatestIsStored
  <2>2. proofs' = proofs
    BY DEF latest, evidence_vars
  <2> HIDE DEF p
  <2>3. QED BY <1>1, <2>1, <2>2 DEF IsStored, Version
<1> HIDE DEF next, p
<1>4. CASE next \in {"manual", "start", "submit", "spawn"}
  BY <1>1, <1>4, QuietReady DEF Quiet, Returned
<1>5. CASE next \in {"replay_start", "replay_end", "reverify", "upgrade", "stored"}
  <2>1. HoldsProof(r)' /\ HoldsAnswer(r)' /\ HoldsRows(r)'
    <3>1. p # None
      BY <1>2, <1>5
    <3>2. QED
      BY <1>1, <1>3, <1>5, <3>1 DEF HoldsProof, Offers, HoldsAnswer, HoldsRows,
         IsStored, Version
  <2>2. next = "reverify" => snap'[r] \in Snapshot
    BY <1>1 DEF Ready, HoldsOrder
  <2>3. QED BY <1>1, <1>5, <2>1, <2>2, StepReady
<1>6. QED BY <1>2, <1>4, <1>5

\* A transition goes on with what the run held, or is retried.
LEMMA TransitionReady ==
    ASSUME TypeOK, TypeOK', Grown, NEW r \in Run, Ready(r), TransitionStep(r)
    PROVE  Ready(r)'
<1>1. /\ kind'[r] = kind[r] /\ owns'[r] = owns[r] /\ snap'[r] = snap[r]
      /\ seen'[r] = seen[r] /\ pc[r] # "idle"
      /\ pc'[r] \in {"replay_end", "spawn", "submit", "persisted", "after",
                     "retry", "manual"}
      /\ pc'[r] = "replay_end" => pc[r] = "replay_start"
      /\ pc'[r] = "persisted" => pc[r] = "response"
  BY DEF TransitionStep, replay_start, replay_end, start, response, persisted,
     verified, reverified, transition_fulfillment_once, At, TypeOK
<1>2. CASE pc'[r] \in {"replay_end", "persisted"}
  <2>1. HoldsProof(r)'
    BY <1>1, <1>2, ProofKept DEF HoldsStored, Offers
  <2>2. HoldsAnswer(r)' /\ HoldsRows(r)'
    BY <1>2 DEF HoldsAnswer, HoldsRows
  <2>3. QED BY <1>1, <1>2, <2>1, <2>2, StepReady
<1>3. CASE pc'[r] \in {"spawn", "submit", "after", "retry", "manual"}
  BY <1>1, <1>3, QuietReady DEF Quiet, Returned
<1>4. QED BY <1>1, <1>2, <1>3

\* A submission offers the first version, without attestations.
LEMMA SubmitReady ==
    ASSUME TypeOK, TypeOK', Grown, NEW r \in Run, Ready(r), submit(r)
    PROVE  Ready(r)'
<1> DEFINE p == [version |-> 1, stamp |-> stamps + 1, att |-> {},
                 evidence |-> None]
<1>1. /\ pc[r] = "submit" /\ pc'[r] = "append" /\ seen'[r] = p
      /\ kind'[r] = kind[r] /\ owns'[r] = owns[r] /\ snap'[r] = snap[r]
  BY DEF submit, Go, At, TypeOK
<1>2. p \in StoredProof /\ p.version = 1 /\ p.att = {}
  BY DEF StoredProof, TypeOK
<1> HIDE DEF p
<1>3. HoldsProof(r)'
  BY <1>1, <1>2 DEF HoldsProof, HoldsStored, IsOffer
<1>4. HoldsAnswer(r)' /\ HoldsRows(r)'
  BY <1>1 DEF HoldsAnswer, HoldsRows
<1>5. QED BY <1>1, <1>3, <1>4, StepReady

\* A proof that was appended, or repeats the latest, is stored; one that was
\* refused is on offer still.
LEMMA AppendReady ==
    ASSUME TypeOK, TypeOK', Grown, RunsReady, NEW r \in Run, append(r)
    PROVE  Ready(r)'
<1>0. Ready(r)
  BY DEF RunsReady
<1>1. /\ pc[r] = "append" /\ pc'[r] \in {"response", "verify", "conflict"}
      /\ kind'[r] = kind[r] /\ owns'[r] = owns[r] /\ snap'[r] = snap[r]
      /\ seen'[r] = seen[r]
  BY DEF append, AfterAppend, Go, At, TypeOK
<1>2. seen[r] \in StoredProof /\ IsOffer(seen[r])
  BY <1>0, <1>1 DEF Ready, HoldsProof, Offers
<1>3. HoldsProof(r)'
  <2>1. CASE pc'[r] = "conflict"
    <3>1. IsOffer(seen[r])'
      BY <1>1, <1>2, HeldKept DEF IsOffer
    <3>2. QED BY <1>1, <1>2, <2>1, <3>1 DEF HoldsProof, HoldsStored
  <2>2. CASE pc'[r] # "conflict"
    <3>1. MergesTime(seen[r].stamp) /\ (Appends(seen[r]) \/ Repeats(seen[r]))
      BY <1>1, <2>2 DEF append, Go, TypeOK
    <3>2. proofs' = IF Appends(seen[r])
                    THEN Append(proofs, [stamp |-> seen[r].stamp,
                                         att |-> seen[r].att])
                    ELSE proofs
      BY <3>1 DEF append
    <3>3. seen[r].version \in Nat /\ seen[r].version >= 1 /\ Version \in Nat
      BY <1>2 DEF StoredProof, IsOffer, TypeOK, Version
    <3>4. CASE Appends(seen[r])
      <4> DEFINE b == [stamp |-> seen[r].stamp, att |-> seen[r].att]
      <4>1. b \in Bytes
        BY <1>2 DEF StoredProof, Bytes
      <4>2. proofs' = Append(proofs, b) /\ proofs \in Seq(Bytes)
        BY <3>2, <3>4 DEF TypeOK
      <4> HIDE DEF b
      <4>3. Len(proofs') = Len(proofs) + 1 /\ proofs'[Len(proofs) + 1] = b
        BY <4>1, <4>2, AppendProperties
      <4>4. seen[r].version = Len(proofs) + 1
        BY <3>4 DEF Appends, Version
      <4>5. QED
        BY <1>1, <1>2, <2>2, <3>3, <4>3, <4>4
        DEF HoldsProof, Offers, IsStored, Version, b
    <3>5. CASE ~Appends(seen[r])
      <4>1. proofs' = proofs /\ Repeats(seen[r])
        BY <3>1, <3>2, <3>5
      <4>2. QED
        BY <1>1, <1>2, <2>2, <3>3, <4>1
        DEF HoldsProof, Offers, IsStored, Version, Repeats
    <3>6. QED BY <3>4, <3>5
  <2>3. QED BY <2>1, <2>2
<1>4. HoldsAnswer(r)' /\ HoldsRows(r)'
  BY <1>1 DEF HoldsAnswer, HoldsRows
<1>5. QED BY <1>0, <1>1, <1>3, <1>4, StepReady

\* A refused proof that the run goes on with is the latest one.
LEMMA ConflictReady ==
    ASSUME TypeOK, TypeOK', Grown, NEW r \in Run, Ready(r), append_conflict(r)
    PROVE  Ready(r)'
<1>1. /\ pc[r] = "conflict" /\ pc'[r] \in {"response", "verify", "manual"}
      /\ pc'[r] # "manual" => latest_for_order = seen[r]
      /\ kind'[r] = kind[r] /\ owns'[r] = owns[r] /\ snap'[r] = snap[r]
      /\ seen'[r] = seen[r]
  BY DEF append_conflict, AfterAppend, Go, At, TypeOK
<1>2. seen[r] \in StoredProof /\ seen[r] # None
  BY <1>1, ConstantsAssumption DEF Ready, HoldsProof, Offers
<1>3. CASE pc'[r] = "manual"
  BY <1>1, <1>3, QuietReady DEF Quiet, Returned
<1>4. CASE pc'[r] # "manual"
  <2>1. IsStored(seen[r])
    BY <1>1, <1>2, <1>4, LatestIsStored
  <2>2. IsStored(seen[r])'
    BY <1>1, <1>2, <2>1, HeldKept DEF IsStored
  <2>3. HoldsProof(r)'
    BY <1>1, <1>2, <1>4, <2>2 DEF HoldsProof, Offers
  <2>4. HoldsAnswer(r)' /\ HoldsRows(r)'
    BY <1>1 DEF HoldsAnswer, HoldsRows
  <2>5. QED BY <1>1, <1>4, <2>3, <2>4, StepReady
<1>5. QED BY <1>3, <1>4

\* An upgrade keeps the stored bytes, or offers more than they hold.
LEMMA UpgradeReady ==
    ASSUME TypeOK, TypeOK', Grown, AttestedAnchored, NEW r \in Run, Ready(r),
           upgrade(r)
    PROVE  Ready(r)'
<1>1. PICK S \in SUBSET {c \in Calendar \ orphaned : height[c] # 0} :
        /\ pc[r] = "upgrade"
        /\ IF S \subseteq seen[r].att
           THEN Go(r, "verify") /\ UNCHANGED seen
           ELSE /\ Go(r, "append")
                /\ seen' = [seen EXCEPT ![r] =
                      [version |-> seen[r].version + 1, stamp |-> seen[r].stamp,
                       att |-> seen[r].att \cup S, evidence |-> None]]
        /\ UNCHANGED <<proofs, height, kind, owns, snap>>
  BY DEF upgrade, At, evidence_vars, world_vars
<1>2. seen[r] \in StoredProof /\ IsStored(seen[r])
  BY <1>1 DEF Ready, HoldsProof, HoldsStored
<1>3. pc'[r] \in {"verify", "append"}
  BY <1>1 DEF Go, TypeOK
<1>4. HoldsAnswer(r)' /\ HoldsRows(r)'
  BY <1>3 DEF HoldsAnswer, HoldsRows
<1>5. HoldsProof(r)'
  <2>1. CASE S \subseteq seen[r].att
    <3>1. pc'[r] = "verify" /\ seen'[r] = seen[r]
      BY <1>1, <2>1 DEF Go, TypeOK
    <3>2. QED BY <1>1, <3>1, ProofKept DEF HoldsStored, Offers
  <2>2. CASE ~(S \subseteq seen[r].att)
    <3> DEFINE p == [version |-> seen[r].version + 1, stamp |-> seen[r].stamp,
                     att |-> seen[r].att \cup S, evidence |-> None]
    <3>1. pc'[r] = "append" /\ seen'[r] = p
      BY <1>1, <2>2 DEF Go, TypeOK
    <3>2. p \in StoredProof /\ p.version - 1 = seen[r].version
          /\ p.att = seen[r].att \cup S
      BY <1>2 DEF StoredProof
    <3> HIDE DEF p
    <3>3. \A c \in seen[r].att : height[c] # 0
      BY <1>2 DEF IsStored, AttestedAnchored
    <3>4. \A c \in p.att : height'[c] # 0
      BY <1>1, <3>2, <3>3
    <3>5. /\ p.version - 1 \in 1..Version'
          /\ proofs'[p.version - 1].att \subseteq p.att
          /\ proofs'[p.version - 1].att # p.att
      BY <1>1, <1>2, <2>2, <3>2 DEF IsStored, Version
    <3>6. QED BY <3>1, <3>2, <3>4, <3>5 DEF HoldsProof, HoldsStored, IsOffer, Version
  <2>3. QED BY <2>1, <2>2
<1>6. kind'[r] = kind[r] /\ owns'[r] = owns[r] /\ snap'[r] = snap[r]
  BY <1>1
<1>7. QED BY <1>1, <1>3, <1>4, <1>5, <1>6, StepReady

\* An answer that the run keeps is one still.
LEMMA RunAnswerKept ==
    ASSUME TypeOK, TypeOK', Grown, AttestedAnchored, NEW r \in Run, Ready(r),
           pc[r] \in {"put", "observe"},
           seen'[r] = seen[r], found'[r] = found[r]
    PROVE  HoldsAnswer(r)'
<1>1. /\ seen[r] \in StoredProof /\ IsStored(seen[r])
      /\ IsAnswer(found[r], seen[r])
  BY DEF Ready, HoldsAnswer, HoldsProof, HoldsStored
<1>2. \A c \in seen[r].att : height[c] # 0
  BY <1>1 DEF IsStored, AttestedAnchored
<1>3. IsAnswer(found[r], seen[r])'
  BY <1>1, <1>2, AnswerKept DEF IsAnswer
<1>4. QED BY <1>3 DEF HoldsAnswer

\* The verifier's answer is about the proof that was asked about.
LEMMA VerifyReady ==
    ASSUME TypeOK, TypeOK', Grown, NEW r \in Run, Ready(r),
           verify_exact_digest(r)
    PROVE  Ready(r)'
<1> DEFINE a == Found(seen[r].att)
<1>1. /\ pc[r] \in Asking /\ pc'[r] \in {"put", "observe", "manual"}
      /\ kind'[r] = kind[r] /\ owns'[r] = owns[r] /\ snap'[r] = snap[r]
      /\ seen'[r] = seen[r] /\ found'[r] = a /\ Buried(seen[r].att) # {}
      /\ checks' = checks + 1 /\ height' = height
  BY DEF verify_exact_digest, VerifiedGoes, Go, TypeOK
<1>2. seen[r] \in StoredProof /\ pc[r] \in HoldsStored /\ pc[r] # "idle"
  BY <1>1 DEF Ready, HoldsProof, HoldsStored, Asking
<1>3. a \in Answer /\ a.at = checks + 1 /\ \E c \in seen[r].att : height[c] = a.block
  BY <1>1, <1>2, FoundIsAnswer DEF StoredProof
<1> HIDE DEF a
<1>4. CASE pc'[r] = "manual"
  BY <1>1, <1>2, <1>4, QuietReady DEF Quiet, Returned
<1>5. CASE pc'[r] \in {"put", "observe"}
  <2>1. HoldsProof(r)'
    BY <1>1, <1>2, <1>5, ProofKept DEF Offers
  <2>2. HoldsAnswer(r)'
    <3>1. checks' \in Nat /\ a.at \in 1..checks'
      BY <1>1, <1>3 DEF TypeOK
    <3>2. QED BY <1>1, <1>3, <3>1 DEF HoldsAnswer, IsAnswer
  <2>3. HoldsRows(r)'
    BY <1>5 DEF HoldsRows
  <2>4. QED BY <1>1, <1>2, <1>5, <2>1, <2>2, <2>3, StepReady
<1>6. QED BY <1>1, <1>4, <1>5

\* With the verification stored the run still holds the answer.
LEMMA PutReady ==
    ASSUME TypeOK, TypeOK', Grown, AttestedAnchored, NEW r \in Run, Ready(r),
           put_verified_once(r)
    PROVE  Ready(r)'
<1>1. /\ pc[r] = "put" /\ pc'[r] \in {"observe", "retry"}
      /\ kind'[r] = kind[r] /\ owns'[r] = owns[r] /\ snap'[r] = snap[r]
      /\ seen'[r] = seen[r] /\ found'[r] = found[r]
  BY DEF put_verified_once, Go, At, TypeOK
<1>2. CASE pc'[r] = "retry"
  BY <1>1, <1>2, QuietReady DEF Quiet, Returned
<1>3. CASE pc'[r] = "observe"
  <2>1. HoldsProof(r)'
    BY <1>1, <1>3, ProofKept DEF Offers, HoldsStored
  <2>2. HoldsAnswer(r)'
    BY <1>1, RunAnswerKept
  <2>3. HoldsRows(r)'
    BY <1>3 DEF HoldsRows
  <2>4. QED BY <1>1, <1>3, <2>1, <2>2, <2>3, StepReady
<1>4. QED BY <1>1, <1>2, <1>3

\* A recorded observation is of a verified version, and a final notice is only
\* begun with a count that is enough.
LEMMA RecordReady ==
    ASSUME TypeOK, TypeOK', Grown, AttestedAnchored, NEW r \in Run, Ready(r),
           record_once(r)
    PROVE  Ready(r)'
<1>1. /\ pc[r] = "observe"
      /\ pc'[r] \in {"poll", "notice", "verified", "reverified", "retry"}
      /\ kind'[r] = kind[r] /\ owns'[r] = owns[r] /\ snap'[r] = snap[r]
      /\ seen'[r] = seen[r] /\ found'[r] = found[r]
      /\ basis'[r] = found[r].count
  BY DEF record_once, ObservedGoes, Go, At, TypeOK
<1>2. CASE pc'[r] \in {"poll", "retry"}
  BY <1>1, <1>2, QuietReady DEF Quiet, Returned
<1>3. CASE pc'[r] \in {"notice", "verified", "reverified"}
  <2>1. HoldsProof(r)'
    BY <1>1, <1>3, ProofKept DEF Offers, HoldsStored
  <2>2. HoldsAnswer(r)'
    BY <1>1, RunAnswerKept
  <2>3. Recordable(r) /\ pc'[r] = ObservedGoes(r)
    BY <1>1, <1>3 DEF record_once, Go, TypeOK
  <2>4. observations' = observations \cup
          {[version |-> Version, count |-> found[r].count, at |-> found[r].at]}
    BY <2>3 DEF record_once
  <2>5. IsVerified(seen[r].version)' /\ IsObserved(seen[r].version)'
    <3>1. IsVerified(Version) /\ seen[r].version = Version
      BY <2>3 DEF Recordable
    <3>2. UNCHANGED verifications
      BY DEF record_once
    <3>3. IsVerified(seen[r].version)'
      BY <1>1, <3>1, <3>2 DEF IsVerified
    <3>4. \E x \in observations' : x.version = seen[r].version
      <4> DEFINE x == [version |-> Version, count |-> found[r].count,
                       at |-> found[r].at]
      <4>1. x.version = seen[r].version
        BY <3>1
      <4>2. x \in observations'
        BY <2>4
      <4> HIDE DEF x
      <4>3. QED BY <4>1, <4>2
    <3>5. QED BY <1>1, <3>3, <3>4 DEF IsObserved
  <2>6. pc'[r] = "notice" => /\ kind[r] = "confirmation"
                             /\ found[r].count >= FinalConfirmations
    <3>1. found[r].count \in Nat
      BY <1>1 DEF Ready, HoldsAnswer, IsAnswer, Answer
    <3>2. pc'[r] = "notice" => /\ kind[r] = "confirmation"
                               /\ ~(found[r].count < FinalConfirmations)
      BY <2>3 DEF ObservedGoes
    <3>3. FinalConfirmations \in Nat
      BY ConstantsAssumption
    <3>4. QED BY <3>1, <3>2, <3>3
  <2>7. HoldsRows(r)'
    BY <1>1, <1>3, <2>5, <2>6 DEF HoldsRows
  <2>8. pc'[r] = "reverified" => snap'[r] \in Snapshot
    BY <1>1, <2>3 DEF ObservedGoes, TypeOK
  <2>9. QED BY <1>1, <1>3, <2>1, <2>2, <2>7, <2>8, StepReady
<1>4. QED BY <1>1, <1>2, <1>3

\* The rows that were read are there, and a bundle is stored before its notice.
LEMMA NoticeReady ==
    ASSUME TypeOK, TypeOK', Grown, NEW r \in Run, Ready(r),
           get_verified(r) \/ latest_observation(r) \/ put_once(r)
    PROVE  Ready(r)'
<1>1. /\ pc[r] \in {"stored", "observed", "bundle"}
      /\ kind'[r] = kind[r] /\ owns'[r] = owns[r] /\ snap'[r] = snap[r]
      /\ seen'[r] = seen[r]
      /\ pc'[r] \in {"manual", "retry", "observed", "bundle", "recheck", "notice"}
  BY DEF get_verified, latest_observation, put_once, Go, At, TypeOK
<1>2. CASE pc'[r] \in {"manual", "retry"}
  BY <1>1, <1>2, QuietReady DEF Quiet, Returned
<1>3. CASE pc'[r] \in {"observed", "bundle", "recheck", "notice"}
  <2>1. HoldsProof(r)'
    BY <1>1, <1>3, ProofKept DEF Offers, HoldsStored
  <2>2. HoldsAnswer(r)'
    BY <1>3 DEF HoldsAnswer
  <2>3. HoldsRows(r)'
    <3>1. CASE get_verified(r)
      <4>1. pc'[r] = "observed"
            /\ IsVerified(seen[r].version) /\ IsObserved(seen[r].version)
        BY <1>3, <3>1 DEF get_verified, Go, TypeOK
      <4>2. UNCHANGED <<verifications, observations>>
        BY <3>1 DEF get_verified, evidence_vars
      <4>3. QED BY <1>1, <4>1, <4>2 DEF HoldsRows, IsVerified, IsObserved
    <3>2. CASE latest_observation(r)
      <4>1. /\ pc'[r] \in {"bundle", "recheck"}
            /\ pc'[r] = "bundle" => kind[r] = "delivery"
        BY <3>2 DEF latest_observation, Go, TypeOK
      <4>2. QED BY <1>1, <4>1 DEF HoldsRows
    <3>3. CASE put_once(r)
      <4>1. pc[r] = "bundle" /\ pc'[r] = "notice"
            /\ seen[r].version \in bundles'
        BY <1>3, <3>3 DEF put_once, Go, At, TypeOK
      <4>2. kind[r] = "delivery"
        BY <4>1 DEF Ready, HoldsRows
      <4>3. QED BY <1>1, <4>1, <4>2 DEF HoldsRows
    <3>4. QED BY <3>1, <3>2, <3>3
  <2>4. QED BY <1>1, <1>3, <2>1, <2>2, <2>3, StepReady
<1>4. QED BY <1>1, <1>2, <1>3

\* Steps that end a phase need only the job afterwards.
LEMMA OtherReady ==
    ASSUME TypeOK, TypeOK', Grown, NEW r \in Run, Ready(r),
           \/ calendars_fail(r) \/ verifier_fails(r) \/ not_confirmed(r)
           \/ after(r) \/ enqueue_notice(r) \/ escalate(r)
           \/ terminal_failure(r) \/ spawn(r) \/ poll(r)
    PROVE  Ready(r)'
<1>1. /\ kind'[r] = kind[r] /\ owns'[r] = owns[r] /\ snap'[r] = snap[r]
      /\ pc[r] # "idle"
  BY DEF calendars_fail, verifier_fails, not_confirmed, after, enqueue_notice,
     escalate, terminal_failure, spawn, poll, At, Asking
<1>2. pc'[r] \in Quiet
  BY DEF calendars_fail, verifier_fails, not_confirmed, after, enqueue_notice,
     escalate, terminal_failure, spawn, poll, Dispatch, Go, TypeOK, Quiet,
     Returned
<1>3. QED BY <1>1, <1>2, QuietReady

\* A claimed job is the run's.
LEMMA ClaimReady ==
    ASSUME TypeOK, TypeOK', Grown, NEW r \in Run, Ready(r), NEW k \in Kind,
           claim(r, k)
    PROVE  Ready(r)'
<1>1. pc'[r] = "load" /\ kind'[r] = k /\ snap'[r] = snap[r]
  BY DEF claim, Go, TypeOK
<1>2. HoldsJob(r)'
  BY <1>1 DEF HoldsJob
<1>3. HoldsOrder(r)'
  BY <1>1, HeldKept DEF Ready, HoldsOrder
<1>4. HoldsProof(r)' /\ HoldsAnswer(r)' /\ HoldsRows(r)'
  BY <1>1 DEF HoldsProof, HoldsStored, Offers, HoldsAnswer, HoldsRows
<1>5. QED BY <1>2, <1>3, <1>4 DEF Ready

\* Every step leaves every run ready.
LEMMA ReadyStep ==
    ASSUME IInv, [Next]_vars
    PROVE  RunsReady'
<1> USE DEF IInv
<1>1. TypeOK' /\ Grown
  BY TypeStep, RowsGrow
<1>2. ASSUME NEW r \in Run, RunStep(r)
      PROVE  Ready(r)'
  <2>0. Ready(r)
    BY DEF RunsReady
  <2>1. CASE StampStep(r)
    BY <1>1, <2>0, <2>1, TransitionReady, SubmitReady DEF StampStep, TransitionStep
  <2>2. CASE ProofStep(r)
    BY <1>1, <2>0, <2>2, AppendReady, ConflictReady, OtherReady DEF ProofStep
  <2>3. CASE UpgradeStep(r)
    BY <1>1, <2>0, <2>3, UpgradeReady, PutReady, TransitionReady, OtherReady
    DEF UpgradeStep, TransitionStep
  <2>4. CASE VerifierStep(r)
    BY <1>1, <2>0, <2>4, VerifyReady, OtherReady DEF VerifierStep
  <2>5. CASE NoticeStep(r)
    BY <1>1, <2>0, <2>5, NoticeReady, RecordReady, OtherReady DEF NoticeStep
  <2>6. CASE QueueStep(r)
    BY <1>1, <2>0, <2>6, ClaimReady, LoadReady, LatestReady, OtherReady
    DEF QueueStep
  <2>7. CASE EndStep(r)
    <3>1. CASE finish(r) \/ retry(r) \/ stop(r)
      BY <3>1, LeaveReady DEF finish, retry, stop
    <3>2. CASE escalate(r) \/ terminal_failure(r)
      BY <1>1, <2>0, <3>2, OtherReady
    <3>3. CASE lease_expires(r) \/ last_lease_expires(r)
      <4>1. /\ pc'[r] = pc[r] /\ kind'[r] = kind[r] /\ snap'[r] = snap[r]
            /\ seen'[r] = seen[r] /\ found'[r] = found[r]
            /\ basis'[r] = basis[r] /\ owns[r]
        BY <3>3 DEF lease_expires, last_lease_expires
      <4>2. QED BY <1>1, <2>0, <4>1, ReadyKept
    <3>4. QED BY <2>7, <3>1, <3>2, <3>3 DEF EndStep
  <2>8. QED
    BY <1>2, <2>1, <2>2, <2>3, <2>4, <2>5, <2>6, <2>7 DEF RunStep
<1>3. ASSUME NEW q \in Run, LocalsKept(q)
      PROVE  Ready(q)'
  BY <1>1, <1>3, ReadyKept DEF LocalsKept, RunsReady
<1>4. ASSUME NEW r \in Run, RunStep(r)
      PROVE  RunsReady'
  BY <1>2, <1>3, <1>4, OthersKept DEF RunsReady
<1>5. CASE Environment \/ UNCHANGED vars
  <2>1. UNCHANGED run_vars
    BY <1>5 DEF Environment, operator_reverify, operator_upgrade,
       payment_returned, apply_delivered_event, mine, reorganize, vars, run_vars
  <2>2. \A q \in Run : LocalsKept(q)
    BY <2>1 DEF run_vars, LocalsKept
  <2>3. QED BY <1>3, <2>2 DEF RunsReady
<1>6. QED BY <1>4, <1>5 DEF Next

-----------------------------------------------------------------------------
(* The properties.                                                         *)

\* Once the order has a submission time it keeps it.
LEMMA TimeKept ==
    ASSUME TypeOK, [Next]_vars
    PROVE  submitted_at = None \/ submitted_at' = submitted_at
<1> USE DEF order_vars
<1>1. ASSUME NEW r \in Run, NEW target, NEW key, NEW time, NEW next,
             transition_fulfillment_once(r, target, key, time, next)
      PROVE  submitted_at = None \/ submitted_at' = submitted_at
  BY <1>1 DEF transition_fulfillment_once, Accepts, MergesTime, Merged
<1>2. ASSUME NEW r \in Run, RunStep(r)
      PROVE  submitted_at = None \/ submitted_at' = submitted_at
  <2>1. CASE StampStep(r)
    <3>1. CASE submit(r)
      BY <3>1 DEF submit
    <3>2. CASE TransitionStep(r)
      BY <1>1, <3>2 DEF TransitionStep, replay_start, replay_end, start,
         response, persisted, verified, reverified
    <3>3. QED BY <2>1, <3>1, <3>2 DEF StampStep, TransitionStep
  <2>2. CASE ProofStep(r)
    BY <2>2 DEF ProofStep, append, append_conflict, calendars_fail, MergesTime,
       Merged
  <2>3. CASE UpgradeStep(r)
    <3>1. CASE upgrade(r) \/ put_verified_once(r) \/ after(r)
      BY <3>1 DEF upgrade, put_verified_once, after
    <3>2. CASE verified(r) \/ reverified(r)
      BY <1>1, <3>2 DEF verified, reverified
    <3>3. QED BY <2>3, <3>1, <3>2 DEF UpgradeStep
  <2>4. CASE VerifierStep(r)
    BY <2>4 DEF VerifierStep, verifier_fails, not_confirmed, verify_exact_digest
  <2>5. CASE NoticeStep(r)
    BY <2>5 DEF NoticeStep, get_verified, latest_observation, put_once,
       record_once, enqueue_notice
  <2>6. CASE QueueStep(r)
    BY <2>6 DEF QueueStep, claim, load, latest, spawn, poll
  <2>7. CASE EndStep(r)
    BY <2>7 DEF EndStep, finish, retry, escalate, terminal_failure,
       lease_expires, last_lease_expires, stop
  <2>8. QED
    BY <1>2, <2>1, <2>2, <2>3, <2>4, <2>5, <2>6, <2>7 DEF RunStep
<1>3. CASE Environment
  BY <1>3 DEF Environment, operator_reverify, operator_upgrade,
     payment_returned, apply_delivered_event, mine, reorganize
<1>4. CASE UNCHANGED vars
  BY <1>4 DEF vars
<1>5. QED BY <1>2, <1>3, <1>4 DEF Next

\* A proof that is appended is typed, was on offer, and sets or repeats the
\* order's time.
LEMMA Appended ==
    ASSUME TypeOK, RunsReady, NEW r \in Run, append(r), proofs' # proofs
    PROVE  /\ seen[r] \in StoredProof
           /\ IsOffer(seen[r])
           /\ submitted_at' = seen[r].stamp
           /\ submitted_at \in {None, seen[r].stamp}
<1>1. seen[r] \in StoredProof /\ IsOffer(seen[r])
  BY DEF RunsReady, Ready, HoldsProof, append, At, Offers
<1>2. seen[r].stamp # None
  BY <1>1, ConstantsAssumption DEF StoredProof
<1>3. MergesTime(seen[r].stamp) /\ submitted_at' = Merged(seen[r].stamp)
  BY DEF append
<1>4. QED BY <1>1, <1>2, <1>3 DEF MergesTime, Merged

\* The three facts about the stored proofs.
LEMMA ProofsStep ==
    ASSUME IInv, [Next]_vars
    PROVE  AttestedAnchored' /\ OneSubmissionTime' /\ VersionsGrow'
<1> USE DEF IInv
<1>0. /\ Grown /\ Version \in Nat
      /\ \A v \in 1..Version : proofs[v] \in Bytes
  BY RowsGrow DEF TypeOK, Version
<1>1. \A v \in 1..Version : submitted_at' = proofs[v].stamp
  BY <1>0, TimeKept, ConstantsAssumption DEF OneSubmissionTime, Bytes
<1>2. \A v \in 1..Version : \A c \in proofs[v].att : height'[c] # 0
  BY <1>0 DEF AttestedAnchored, Grown, Bytes
<1>3. CASE UNCHANGED proofs
  BY <1>0, <1>1, <1>2, <1>3 DEF AttestedAnchored, OneSubmissionTime,
     VersionsGrow, Version
<1>4. ASSUME NEW r \in Run, append(r), proofs' # proofs
      PROVE  AttestedAnchored' /\ OneSubmissionTime' /\ VersionsGrow'
  <2>1. /\ seen[r].version = Version + 1
        /\ Version' = Version + 1
        /\ \A v \in 1..Version : proofs'[v] = proofs[v]
        /\ proofs'[Version + 1] = [stamp |-> seen[r].stamp, att |-> seen[r].att]
    BY <1>4, AppendGrows
  <2>2. /\ seen[r].att \subseteq Calendar /\ IsOffer(seen[r])
        /\ submitted_at' = seen[r].stamp
    BY <1>4, Appended DEF StoredProof
  <2>3. AttestedAnchored'
    <3>1. \A c \in seen[r].att : height'[c] # 0
      BY <1>0, <2>2 DEF IsOffer, Grown
    <3>2. QED BY <1>0, <1>2, <2>1, <3>1 DEF AttestedAnchored
  <2>4. OneSubmissionTime'
    BY <1>0, <1>1, <2>1, <2>2 DEF OneSubmissionTime
  <2>5. VersionsGrow'
    <3>1. ASSUME Version # 0
          PROVE  /\ proofs[Version].att \subseteq seen[r].att
                 /\ proofs[Version].att # seen[r].att
      BY <1>0, <2>1, <2>2, <3>1 DEF IsOffer
    <3>2. QED BY <1>0, <2>1, <3>1 DEF VersionsGrow
  <2>6. QED BY <2>3, <2>4, <2>5
<1>5. UNCHANGED proofs \/ \E r \in Run : append(r)
  BY EvidenceChanges DEF EvidenceStep, put_verified_once, record_once, put_once,
     enqueue_notice, evidence_vars
<1>6. QED BY <1>3, <1>4, <1>5

\* A stored verification names a block of its version, and stays the only one.
LEMMA VerificationsStep ==
    ASSUME IInv, [Next]_vars
    PROVE  VerificationsAreAttested'
<1> USE DEF IInv
<1>0. Grown /\ Version \in Nat /\ \A v \in 1..Version : proofs[v] \in Bytes
  BY RowsGrow DEF TypeOK, Version
<1>1. ASSUME NEW x \in verifications
      PROVE  \E c \in proofs'[x.version].att : height'[c] = x.block
  <2>1. x.version \in 1..Version
    BY DEF TypeOK, Version
  <2>2. PICK c \in proofs[x.version].att : height[c] = x.block
    BY DEF VerificationsAreAttested
  <2>3. c \in Calendar /\ height[c] # 0
    BY <1>0, <2>1, <2>2 DEF AttestedAnchored, Bytes
  <2>4. height'[c] = x.block /\ proofs'[x.version] = proofs[x.version]
    BY <1>0, <2>1, <2>2, <2>3 DEF Grown
  <2>5. QED BY <2>2, <2>4
<1>2. CASE UNCHANGED verifications
  BY <1>1, <1>2 DEF VerificationsAreAttested
<1>3. ASSUME NEW r \in Run, put_verified_once(r), verifications' # verifications
      PROVE  VerificationsAreAttested'
  <2> DEFINE n == [version |-> seen[r].version, block |-> found[r].block]
  <2>1. /\ pc[r] = "put" /\ Verifiable(seen[r].version, found[r].block)
        /\ verifications' = verifications \cup {n}
        /\ UNCHANGED <<proofs, height>>
    BY <1>3 DEF put_verified_once, At, world_vars
  <2>2. /\ seen[r] \in StoredProof /\ IsStored(seen[r])
        /\ IsAnswer(found[r], seen[r])
    BY <2>1 DEF RunsReady, Ready, HoldsProof, HoldsStored, HoldsAnswer
  <2>3. \E c \in proofs'[n.version].att : height'[c] = n.block
    BY <2>1, <2>2 DEF IsStored, IsAnswer
  <2>4. ASSUME NEW y \in verifications, y.version = n.version
        PROVE  y = n
    <3>1. IsVerified(seen[r].version)
      BY <2>4 DEF IsVerified
    <3>2. BlockOf(seen[r].version) = found[r].block
      BY <2>1, <3>1 DEF Verifiable
    <3>3. PICK x \in verifications :
            x.version = seen[r].version /\ x.block = BlockOf(seen[r].version)
      BY <3>1, BlockIsVerified
    <3>4. x = y
      BY <2>4, <3>3 DEF VerificationsAreAttested
    <3>5. y \in [version : 1..Len(proofs), block : Nat]
      BY DEF TypeOK
    <3>6. QED BY <2>4, <3>2, <3>3, <3>4, <3>5
  <2> HIDE DEF n
  <2>5. QED BY <1>1, <2>1, <2>3, <2>4 DEF VerificationsAreAttested
<1>4. UNCHANGED verifications \/ \E r \in Run : put_verified_once(r)
  BY EvidenceChanges DEF EvidenceStep, append, record_once, put_once,
     enqueue_notice, evidence_vars
<1>5. QED BY <1>2, <1>3, <1>4

\* Only the transitions and a failure's escalation write the order's state.
LEMMA OtherStepsLeaveOrder ==
    ASSUME NEW r \in Run, RunStep(r), ~TransitionStep(r)
    PROVE  UNCHANGED fulfillment \/ fulfillment' = "manual_review"
<1> USE DEF order_vars, TransitionStep
<1>1. CASE StampStep(r)
  BY <1>1 DEF StampStep, submit
<1>2. CASE ProofStep(r)
  BY <1>2 DEF ProofStep, append, append_conflict, calendars_fail
<1>3. CASE UpgradeStep(r)
  BY <1>3 DEF UpgradeStep, upgrade, put_verified_once, after
<1>4. CASE VerifierStep(r)
  BY <1>4 DEF VerifierStep, verifier_fails, not_confirmed, verify_exact_digest
<1>5. CASE NoticeStep(r)
  BY <1>5 DEF NoticeStep, get_verified, latest_observation, put_once,
     record_once, enqueue_notice
<1>6. CASE QueueStep(r)
  BY <1>6 DEF QueueStep, claim, load, latest, spawn, poll
<1>7. CASE EndStep(r)
  BY <1>7 DEF EndStep, finish, retry, escalate, terminal_failure,
     lease_expires, last_lease_expires, stop
<1>8. QED
  BY <1>1, <1>2, <1>3, <1>4, <1>5, <1>6, <1>7 DEF RunStep

\* An order becomes confirmed, or delivered, only where there are the grounds.
LEMMA FulfillmentChanges ==
    ASSUME IInv, [Next]_vars
    PROVE  /\ fulfillment' \in Confirmed => HasEvidence
           /\ fulfillment' = "delivered" => HasInitial
<1> USE DEF IInv
<1> DEFINE Goal == /\ fulfillment' \in Confirmed => HasEvidence
                   /\ fulfillment' = "delivered" => HasInitial
<1>0. CASE UNCHANGED fulfillment
  BY <1>0 DEF ConfirmedOnEvidence, HasEvidence, NoticesAreBacked, HasInitial
<1>1. ASSUME NEW r \in Run, NEW target, NEW key, NEW time, NEW next,
             transition_fulfillment_once(r, target, key, time, next)
      PROVE  fulfillment' \in {fulfillment, target}
  BY <1>1 DEF transition_fulfillment_once
<1>2. ASSUME NEW r \in Run, TransitionStep(r)
      PROVE  Goal
  <2>0. Ready(r)
    BY DEF RunsReady
  <2>1. CASE replay_start(r) \/ replay_end(r) \/ start(r) \/ response(r)
             \/ persisted(r)
    <3>1. fulfillment' \in {fulfillment, "stamping", "calendar_pending"}
      BY <1>1, <2>1 DEF replay_start, replay_end, start, response, persisted
    <3>2. QED BY <1>0, <3>1 DEF Confirmed
  <2>2. CASE verified(r)
    <3>1. fulfillment' \in {fulfillment, "bitcoin_verified"}
      BY <1>1, <2>2 DEF verified
    <3>2. seen[r].version \in 1..Version
      BY <2>0, <2>2 DEF verified, At, Ready, HoldsProof, HoldsStored, IsStored
    <3>3. HasEvidence
      BY <2>0, <2>2, <3>2 DEF verified, At, Ready, HoldsRows, HasEvidence
    <3>4. QED BY <1>0, <3>1, <3>3
  <2>3. CASE reverified(r)
    <3>1. fulfillment' \in {fulfillment, snap[r].fulfillment}
      BY <1>1, <2>3 DEF reverified
    <3>2. snap[r] # None
      BY <2>0, <2>3, ConstantsAssumption DEF reverified, At, Ready, HoldsOrder
    <3>3. QED BY <1>0, <2>0, <3>1, <3>2 DEF Ready, HoldsOrder
  <2>4. QED BY <1>2, <2>1, <2>2, <2>3 DEF TransitionStep
<1>3. ASSUME NEW r \in Run, RunStep(r), ~TransitionStep(r)
      PROVE  UNCHANGED fulfillment \/ fulfillment' = "manual_review"
  BY <1>3, OtherStepsLeaveOrder
<1>4. CASE Environment
  <2>1. CASE apply_delivered_event
    <3>1. fulfillment = "bitcoin_verified" /\ HasInitial
      BY <2>1 DEF apply_delivered_event, HasInitial
    <3>2. QED BY <3>1 DEF ConfirmedOnEvidence, Confirmed, HasEvidence
  <2>2. CASE ~apply_delivered_event
    <3>1. UNCHANGED fulfillment
      BY <1>4, <2>2 DEF Environment, operator_reverify, operator_upgrade,
         payment_returned, mine, reorganize, order_vars
    <3>2. QED BY <1>0, <3>1
  <2>3. QED BY <2>1, <2>2
<1>5. CASE UNCHANGED vars
  BY <1>0, <1>5 DEF vars
<1>6. CASE fulfillment' = "manual_review"
  BY <1>6 DEF Confirmed
<1>7. QED BY <1>0, <1>2, <1>3, <1>4, <1>5, <1>6 DEF Next

\* A message is stored on an observation of its version, and a delivered order
\* has been notified.
LEMMA NoticesStep ==
    ASSUME IInv, [Next]_vars
    PROVE  NoticesAreBacked'
<1> USE DEF IInv
<1> DEFINE Backed(m) ==
             /\ IsVerified(m.version)
             /\ \E x \in observations : x.version = m.version /\ x.count = m.count
             /\ m.kind = "initial" => m.version \in bundles
             /\ m.kind = "final" => m.count >= FinalConfirmations
<1>0. TypeOK' /\ Grown
  BY TypeStep, RowsGrow
<1>1. fulfillment' = "delivered" => HasInitial'
  BY <1>0, FulfillmentChanges, HeldKept
<1>2. ASSUME NEW m, Backed(m)
      PROVE  /\ IsVerified(m.version)'
             /\ \E x \in observations' :
                   x.version = m.version /\ x.count = m.count
             /\ m.kind = "initial" => m.version \in bundles'
             /\ m.kind = "final" => m.count >= FinalConfirmations
  BY <1>0, <1>2, HeldKept DEF Grown, IsVerified
<1>3. \A m \in outbox : Backed(m)
  BY DEF NoticesAreBacked
<1>4. ASSUME NEW r \in Run, enqueue_notice(r), outbox' # outbox
      PROVE  outbox' = outbox \cup {Notice(r)} /\ Backed(Notice(r))
  <2>1. /\ pc[r] = "notice" /\ Authoritative(r)
        /\ outbox' = outbox \cup {Notice(r)}
    BY <1>4 DEF enqueue_notice, At
  <2>2. \E x \in observations : x.version = Version /\ x.count = basis[r]
    BY <2>1, LatestIsObserved DEF Authoritative
  <2>3. IF kind[r] = "delivery" THEN seen[r].version \in bundles
        ELSE basis[r] >= FinalConfirmations
    BY <2>1 DEF RunsReady, Ready, HoldsRows
  <2>4. QED BY <2>1, <2>2, <2>3 DEF Authoritative, Notice
<1>5. UNCHANGED outbox \/ \E r \in Run : enqueue_notice(r)
  BY EvidenceChanges DEF EvidenceStep, append, put_verified_once, record_once,
     put_once, evidence_vars
<1>6. \A m \in outbox' : Backed(m)
  BY <1>3, <1>4, <1>5
<1> HIDE DEF Backed
<1>7. QED BY <1>1, <1>2, <1>6 DEF NoticesAreBacked, HasInitial, IsVerified

\* The invariant holds at the start.
LEMMA InitIInv == Init => IInv
<1> SUFFICES ASSUME Init PROVE IInv
  OBVIOUS
<1>1. proofs = <<>> /\ Len(proofs) = 0 /\ Version = 0
  BY DEF Init, Version
<1>2. TypeOK
  BY <1>1 DEF Init, TypeOK, PaymentState, FulfillmentState, EventKey, JobKey,
     Kind, Steps, Returned
<1>3. RunsReady
  BY DEF Init, RunsReady, Ready, HoldsJob, HoldsOrder, HoldsProof, HoldsStored,
     Offers, HoldsAnswer, HoldsRows
<1>4. AttestedAnchored /\ OneSubmissionTime /\ VersionsGrow
  BY <1>1 DEF AttestedAnchored, OneSubmissionTime, VersionsGrow
<1>5. VerificationsAreAttested /\ ConfirmedOnEvidence /\ NoticesAreBacked
  BY DEF Init, VerificationsAreAttested, ConfirmedOnEvidence, Confirmed,
     NoticesAreBacked
<1>6. QED BY <1>2, <1>3, <1>4, <1>5 DEF IInv

\* Every step keeps it.
LEMMA StepIInv ==
    ASSUME IInv, [Next]_vars
    PROVE  IInv'
<1>1. TypeOK' /\ Grown
  BY TypeStep, RowsGrow DEF IInv
<1>2. ConfirmedOnEvidence'
  BY <1>1, FulfillmentChanges, HeldKept DEF IInv, ConfirmedOnEvidence, HasEvidence
<1>3. QED
  BY <1>1, <1>2, ReadyStep, ProofsStep, VerificationsStep, NoticesStep DEF IInv

\* The inductive invariant holds of every run of the handlers.
THEOREM Invariance == Spec => []IInv
BY InitIInv, StepIInv, PTL DEF Spec

\* Every row and local keeps its type; nothing refers to a version that is not
\* stored or to a check that was not made.
THEOREM TypeCorrect == Spec => []TypeOK
<1>1. IInv => TypeOK
  BY DEF IInv
<1>2. QED BY Invariance, <1>1, PTL

\* However many attempts submit the digest, every proof version that append
\* stores carries the one submission time of the order.
THEOREM OneSubmission == Spec => []OneSubmissionTime
<1>1. IInv => OneSubmissionTime
  BY DEF IInv
<1>2. QED BY Invariance, <1>1, PTL

\* However upgrades overlap, append only stores versions that hold more than
\* the one before.
THEOREM NoUpgradeLost == Spec => []VersionsGrow
<1>1. IInv => VersionsGrow
  BY DEF IInv
<1>2. QED BY Invariance, <1>1, PTL

\* put_verified_once keeps one verification per version, and its block is one
\* the version attests.
THEOREM VerificationsHold == Spec => []VerificationsAreAttested
<1>1. IInv => VerificationsAreAttested
  BY DEF IInv
<1>2. QED BY Invariance, <1>1, PTL

\* transition_fulfillment_once confirms an order only after a version of it was
\* verified and observed.
THEOREM ConfirmationsHold == Spec => []ConfirmedOnEvidence
<1>1. IInv => ConfirmedOnEvidence
  BY DEF IInv
<1>2. QED BY Invariance, <1>1, PTL

\* Every message in the outbox tells an observed count that is enough for its
\* kind, and an order is delivered only after the initial message.
THEOREM NoticesHold == Spec => []NoticesAreBacked
<1>1. IInv => NoticesAreBacked
  BY DEF IInv
<1>2. QED BY Invariance, <1>1, PTL

-----------------------------------------------------------------------------
(* No order is forgotten: the invariant.                                   *)

PastStamp == {"calendar_pending", "bitcoin_verified", "delivered", "manual_review"}
PastPending == {"bitcoin_verified", "delivered", "manual_review"}
HasFinal == \E m \in outbox : m.kind = "final"
Ended == {"complete", "failed"}

\* Some job of one of these kinds waits, has a run that will not end it yet, or
\* is stranded.
CarriedOn(kinds) ==
    \/ \E k \in kinds : waiting[k] > 0
    \/ \E r \in Run : owns[r] /\ kind[r] \in kinds /\ pc[r] \notin Ended
    \/ stranded \cap kinds # {}

\* The steps of each handler.
StepsOfKind(r) ==
    /\ pc[r] \in {"replay_start", "replay_end", "start", "submit", "response",
                  "persisted"} => kind[r] = "stamp"
    /\ pc[r] \in {"upgrade", "verify", "put", "verified", "reverify",
                  "reverified", "after"} => kind[r] = "upgrade"
    /\ pc[r] \in {"append", "conflict", "spawn"} => kind[r] \in {"stamp", "upgrade"}
    /\ pc[r] = "observe" => kind[r] \in {"upgrade", "confirmation"}
    /\ pc[r] = "recheck" => kind[r] = "confirmation"
    /\ pc[r] \in {"stored", "observed", "notice"} =>
          kind[r] \in {"delivery", "confirmation"}
    /\ pc[r] = "poll" => kind[r] # "stamp"

\* The steps at which a run may hold an order that is not confirmed.
Loading == Returned \cup {"idle", "load", "latest", "failing", "failed"}

\* What a run knows of the order: it is no earlier than it was loaded, and
\* has passed the state that the run's next job presupposes.
KnowsOrder(r) ==
    /\ snap[r] # None =>
          /\ snap[r].fulfillment \in PastStamp => fulfillment \in PastStamp
          /\ snap[r].fulfillment \in PastPending => fulfillment \in PastPending
          /\ snap[r].fulfillment # "awaiting_payment"
          /\ pc[r] \notin Loading => snap[r].fulfillment \in Confirmed
    /\ pc[r] \in {"reverify", "reverified"} => snap[r] # None
    /\ pc[r] = "spawn" /\ kind[r] = "stamp" => fulfillment \in PastStamp
    /\ pc[r] = "spawn" /\ kind[r] = "upgrade" => fulfillment \in PastPending
    /\ pc[r] = "after" => fulfillment \in PastPending
    /\ pc[r] = "poll" /\ kind[r] = "delivery" => HasInitial

Knows(r) == StepsOfKind(r) /\ KnowsOrder(r)

\* A known event key means that the order has passed that state.
EventsPassed ==
    \A e \in events :
        /\ e[1] \in {"stamp-persisted", "stamp-replay"} => fulfillment \in PastStamp
        /\ e[1] = "bitcoin-verified" => fulfillment \in PastPending

\* A job of a later kind means that the order has got that far.
UpgradeBegun ==
    \/ <<"upgrade", 0>> \in keys
    \/ \E r \in Run : kind[r] = "upgrade"
DeliveryBegun == <<"delivery", 0>> \in keys
JobsBegun ==
    /\ UpgradeBegun \/ waiting["upgrade"] > 0 => fulfillment \in PastStamp
    /\ DeliveryBegun => fulfillment \in PastPending
    /\ \/ waiting["delivery"] > 0
       \/ \E r \in Run : kind[r] = "delivery"
       \/ HasInitial
       => DeliveryBegun

\* The order is carried, by its latest job once that was begun.
Carries ==
    /\ fulfillment \in {"queued", "stamping"} => CarriedOn({"stamp"})
    /\ fulfillment = "calendar_pending" =>
          /\ CarriedOn({"stamp", "upgrade"})
          /\ UpgradeBegun => CarriedOn({"upgrade"})
    /\ fulfillment = "bitcoin_verified" =>
          /\ HasInitial \/ CarriedOn({"upgrade", "delivery"})
          /\ DeliveryBegun => HasInitial \/ CarriedOn({"delivery"})
    /\ fulfillment \in Confirmed =>
          /\ HasFinal \/ CarriedOn({"upgrade", "delivery", "confirmation"})
          /\ DeliveryBegun => HasFinal \/ CarriedOn({"delivery", "confirmation"})

LifeInv ==
    /\ fulfillment # "awaiting_payment"
    /\ \A r \in Run : Knows(r)
    /\ EventsPassed
    /\ JobsBegun
    /\ Carries

\* Where a run that goes on with its job may go, and with which order.
LEMMA KindStep ==
    ASSUME IInv, NEW r \in Run, Knows(r), RunStep(r)
    PROVE  StepsOfKind(r)'
<1>0. RunTypes /\ StepsOfKind(r)
  BY DEF IInv, TypeOK, RunTypes, Knows
<1> USE DEF StepsOfKind, RunTypes
<1>1. CASE StampStep(r)
  <2>1. /\ kind'[r] = kind[r]
        /\ \/ kind[r] = "stamp" /\ pc'[r] \in {"replay_end", "spawn", "retry",
                "manual", "submit", "append", "persisted"}
    BY <1>0, <1>1 DEF StampStep, replay_start, replay_end, start, submit,
       response, persisted, transition_fulfillment_once, At, Go
  <2>2. QED BY <2>1
<1>2. CASE ProofStep(r)
  <2>1. kind'[r] = kind[r] /\ pc'[r] \in {"response", "verify", "conflict",
                                          "retry", "manual"}
    BY <1>0, <1>2 DEF ProofStep, append, append_conflict, calendars_fail,
       AfterAppend, Go
  <2>2. /\ pc'[r] = "response" => kind[r] = "stamp"
        /\ pc'[r] = "verify" => kind[r] # "stamp" /\ pc[r] \in Offers
        /\ pc'[r] = "conflict" => pc[r] = "append"
    BY <1>0, <1>2 DEF ProofStep, append, append_conflict, calendars_fail,
       AfterAppend, Go, At, Offers
  <2>3. QED BY <1>0, <2>1, <2>2 DEF Offers
<1>3. CASE UpgradeStep(r)
  <2>1. /\ kind'[r] = kind[r] /\ kind[r] = "upgrade"
        /\ pc'[r] \in {"verify", "append", "observe", "after", "spawn", "retry",
                       "complete"}
    BY <1>0, <1>3 DEF UpgradeStep, upgrade, put_verified_once, verified,
       reverified, after, transition_fulfillment_once, At, Go
  <2>2. QED BY <2>1
<1>4. CASE VerifierStep(r)
  <2>1. /\ kind'[r] = kind[r] /\ kind[r] \in {"upgrade", "confirmation"}
        /\ pc'[r] \in {"retry", "manual", "poll", "put", "observe"}
        /\ pc'[r] \in {"poll", "put"} => pc[r] = "verify"
    BY <1>0, <1>4 DEF VerifierStep, verifier_fails, not_confirmed,
       verify_exact_digest, VerifiedGoes, Asking, At, Go
  <2>2. QED BY <1>0, <2>1
<1>5. CASE NoticeStep(r)
  <2>1. CASE get_verified(r)
    BY <1>0, <2>1 DEF get_verified, At, Go
  <2>2. CASE latest_observation(r)
    BY <1>0, <2>2 DEF latest_observation, At, Go
  <2>3. CASE put_once(r)
    <3>1. kind[r] = "delivery"
      BY <2>3 DEF put_once, At, IInv, RunsReady, Ready, HoldsRows
    <3>2. QED BY <1>0, <2>3, <3>1 DEF put_once, At, Go
  <2>4. CASE record_once(r)
    BY <1>0, <2>4 DEF record_once, ObservedGoes, At, Go
  <2>5. CASE enqueue_notice(r)
    BY <1>0, <2>5 DEF enqueue_notice, At, Go
  <2>6. QED BY <1>5, <2>1, <2>2, <2>3, <2>4, <2>5 DEF NoticeStep
<1>6. CASE QueueStep(r)
  <2>1. CASE latest(r)
    <3>1. /\ kind'[r] = kind[r] /\ kind[r] \in Kind
          /\ pc'[r] = HandlerGoes(kind[r], snap[r], latest_for_order)
      <4>1. kind[r] \in Kind
        BY <2>1 DEF latest, At, IInv, RunsReady, Ready, HoldsJob
      <4>2. QED BY <1>0, <2>1, <4>1 DEF latest, Go
    <3>2. QED
      BY <3>1 DEF HandlerGoes, StampGoes, UpgradeGoes, DeliveryGoes,
         ConfirmationGoes, Kind
  <2>2. CASE ~latest(r)
    <3>1. pc'[r] \in {"load", "latest", "complete", "retry", "manual"}
      BY <1>0, <1>6, <2>2 DEF QueueStep, claim, load, spawn, poll, Dispatch, Go
    <3>2. QED BY <3>1
  <2>3. QED BY <2>1, <2>2
<1>7. CASE EndStep(r)
  <2>1. \/ pc'[r] \in {"idle", "failing", "failed"}
        \/ lease_expires(r) \/ last_lease_expires(r)
    BY <1>0, <1>7 DEF EndStep, finish, retry, escalate, terminal_failure, stop,
       Leave, Go
  <2>2. CASE lease_expires(r) \/ last_lease_expires(r)
    BY <1>0, <2>2 DEF lease_expires, last_lease_expires
  <2>3. QED BY <2>1, <2>2
<1>8. QED
  BY <1>1, <1>2, <1>3, <1>4, <1>5, <1>6, <1>7 DEF RunStep

\* The ways an order may go.
OrderMoves ==
    {<<"queued", "stamping">>, <<"stamping", "calendar_pending">>,
     <<"calendar_pending", "bitcoin_verified">>,
     <<"bitcoin_verified", "delivered">>}

\* Every step leaves the order's state, hands it to a human or moves it on.
LEMMA OrderAdvances ==
    ASSUME IInv, LifeInv, [Next]_vars
    PROVE  \/ UNCHANGED fulfillment
           \/ fulfillment' = "manual_review"
           \/ /\ <<fulfillment, fulfillment'>> \in OrderMoves
              /\ UNCHANGED <<keys, waiting, kind>>
              /\ fulfillment' = "bitcoin_verified" =>
                    \E r \in Run : kind[r] = "upgrade"
<1> DEFINE Goal ==
      \/ UNCHANGED fulfillment
      \/ fulfillment' = "manual_review"
      \/ /\ <<fulfillment, fulfillment'>> \in OrderMoves
         /\ UNCHANGED <<keys, waiting, kind>>
         /\ fulfillment' = "bitcoin_verified" => \E r \in Run : kind[r] = "upgrade"
<1>1. ASSUME NEW r \in Run, NEW target, NEW key, NEW time, NEW next,
             transition_fulfillment_once(r, target, key, time, next)
      PROVE  /\ \/ UNCHANGED fulfillment
                \/ /\ fulfillment' = target
                   /\ <<fulfillment, target>> \in FulfillmentTransitions
             /\ UNCHANGED <<keys, waiting, kind>>
  BY <1>1 DEF transition_fulfillment_once, Accepts, MayBecome, job_vars
<1>2. ASSUME NEW r \in Run, TransitionStep(r)
      PROVE  Goal
  <2>1. CASE replay_start(r) \/ start(r) \/ response(r)
    <3>1. /\ \/ UNCHANGED fulfillment
             \/ /\ fulfillment' = "stamping"
                /\ <<fulfillment, "stamping">> \in FulfillmentTransitions
          /\ UNCHANGED <<keys, waiting, kind>>
      BY <1>1, <2>1 DEF replay_start, start, response
    <3>2. QED BY <3>1 DEF FulfillmentTransitions, OrderMoves
  <2>2. CASE replay_end(r) \/ persisted(r)
    <3>1. /\ \/ UNCHANGED fulfillment
             \/ /\ fulfillment' = "calendar_pending"
                /\ <<fulfillment, "calendar_pending">> \in FulfillmentTransitions
          /\ UNCHANGED <<keys, waiting, kind>>
      BY <1>1, <2>2 DEF replay_end, persisted
    <3>2. QED BY <3>1 DEF FulfillmentTransitions, OrderMoves
  <2>3. CASE verified(r)
    <3>1. /\ \/ UNCHANGED fulfillment
             \/ /\ fulfillment' = "bitcoin_verified"
                /\ <<fulfillment, "bitcoin_verified">> \in FulfillmentTransitions
          /\ UNCHANGED <<keys, waiting, kind>>
      BY <1>1, <2>3 DEF verified
    <3>2. kind[r] = "upgrade"
      BY <2>3 DEF verified, At, LifeInv, Knows, StepsOfKind
    <3>3. QED BY <3>1, <3>2 DEF FulfillmentTransitions, OrderMoves
  <2>4. CASE reverified(r)
    <3>1. /\ \/ UNCHANGED fulfillment
             \/ /\ fulfillment' = snap[r].fulfillment
                /\ <<fulfillment, snap[r].fulfillment>> \in FulfillmentTransitions
          /\ UNCHANGED <<keys, waiting, kind>>
      BY <1>1, <2>4 DEF reverified
    <3>2. /\ snap[r].fulfillment \in Confirmed
          /\ fulfillment \in PastPending
      BY <2>4 DEF reverified, At, LifeInv, Knows, KnowsOrder, Loading, Returned,
         PastPending, Confirmed
    <3>3. QED
      BY <3>1, <3>2 DEF FulfillmentTransitions, OrderMoves, Confirmed, PastPending
  <2>5. QED BY <1>2, <2>1, <2>2, <2>3, <2>4 DEF TransitionStep
<1>3. ASSUME NEW r \in Run, RunStep(r), ~TransitionStep(r)
      PROVE  UNCHANGED fulfillment \/ fulfillment' = "manual_review"
  BY <1>3, OtherStepsLeaveOrder
<1>4. CASE Environment
  <2>1. CASE apply_delivered_event
    BY <2>1 DEF apply_delivered_event, OrderMoves, job_vars, run_vars
  <2>2. CASE ~apply_delivered_event
    BY <1>4, <2>2 DEF Environment, operator_reverify, operator_upgrade,
       payment_returned, mine, reorganize, order_vars
  <2>3. QED BY <2>1, <2>2
<1>5. CASE UNCHANGED vars
  BY <1>5 DEF vars
<1>6. QED BY <1>2, <1>3, <1>4, <1>5 DEF Next

\* No order goes back.
Advanced ==
    /\ fulfillment \in PastStamp => fulfillment' \in PastStamp
    /\ fulfillment \in PastPending => fulfillment' \in PastPending
    /\ fulfillment' # "awaiting_payment"

\* What the order has passed it never comes back to.
LEMMA OrderNeverReturns ==
    ASSUME IInv, LifeInv, [Next]_vars
    PROVE  Advanced
BY OrderAdvances DEF Advanced, OrderMoves, PastStamp, PastPending, LifeInv

\* A run that keeps its locals still knows what it knew.
LEMMA OrderStillKnown ==
    ASSUME Grown, Advanced, NEW q \in Run, KnowsOrder(q),
           pc'[q] = pc[q], kind'[q] = kind[q], snap'[q] = snap[q]
    PROVE  KnowsOrder(q)'
<1>1. HasInitial => HasInitial'
  BY DEF HasInitial, Grown
<1>2. QED BY <1>1 DEF KnowsOrder, Advanced

\* The same, with the kind of its steps.
LEMMA KnowsKept ==
    ASSUME Grown, Advanced, NEW q \in Run, Knows(q),
           pc'[q] = pc[q], kind'[q] = kind[q], snap'[q] = snap[q]
    PROVE  Knows(q)'
<1>1. StepsOfKind(q)'
  BY DEF Knows, StepsOfKind
<1>2. QED BY <1>1, OrderStillKnown DEF Knows

\* A step that keeps the loaded order, and comes to none of the steps that
\* presuppose a state of it.
LEMMA OrderKnownOn ==
    ASSUME TypeOK, Advanced, NEW r \in Run, KnowsOrder(r),
           snap'[r] = snap[r], pc[r] \notin Loading \/ pc'[r] \in Loading,
           pc'[r] \notin {"reverify", "reverified", "spawn", "after", "poll"}
    PROVE  KnowsOrder(r)'
BY DEF KnowsOrder, Advanced

\* The transitions that lead to the next job's steps.
LEMMA TransitionKnows ==
    ASSUME IInv, LifeInv, Advanced, NEW r \in Run, TransitionStep(r)
    PROVE  KnowsOrder(r)'
<1>0. /\ RunTypes /\ KnowsOrder(r) /\ StepsOfKind(r) /\ EventsPassed
      /\ snap'[r] = snap[r] /\ kind'[r] = kind[r]
  BY DEF IInv, TypeOK, RunTypes, LifeInv, Knows, TransitionStep, replay_start,
     replay_end, start, response, persisted, verified, reverified,
     transition_fulfillment_once
<1>1. ASSUME NEW target, NEW key, NEW time, NEW next,
             transition_fulfillment_once(r, target, key, time, next)
      PROVE  \/ pc'[r] = "retry"
             \/ /\ pc'[r] = next
                /\ IF key \in events THEN UNCHANGED fulfillment
                   ELSE fulfillment' = target
  BY <1>0, <1>1 DEF transition_fulfillment_once, RunTypes
<1>2. CASE replay_start(r) \/ start(r) \/ response(r)
  <2>1. /\ pc[r] \in {"replay_start", "start", "response"}
        /\ pc'[r] \in {"replay_end", "submit", "manual", "persisted", "retry"}
    BY <1>0, <1>2 DEF replay_start, start, response, At, RunTypes,
       transition_fulfillment_once
  <2>2. QED
    BY <1>0, <2>1, OrderKnownOn DEF IInv, Loading, Returned
<1>3. CASE replay_end(r) \/ persisted(r)
  <2>1. PICK key : /\ key[1] \in {"stamp-persisted", "stamp-replay"}
                   /\ \/ pc'[r] = "retry"
                      \/ /\ pc'[r] = "spawn"
                         /\ IF key \in events THEN UNCHANGED fulfillment
                            ELSE fulfillment' = "calendar_pending"
    <3>1. CASE replay_end(r)
      <4>1. transition_fulfillment_once(r, "calendar_pending",
              <<"stamp-replay", seen[r].version>>, seen[r].stamp, "spawn")
        BY <3>1 DEF replay_end
      <4>2. <<"stamp-replay", seen[r].version>>[1] = "stamp-replay"
        OBVIOUS
      <4>3. QED BY <1>1, <4>1, <4>2
    <3>2. CASE persisted(r)
      <4>1. transition_fulfillment_once(r, "calendar_pending",
              <<"stamp-persisted", 1>>, seen[r].stamp, "spawn")
        BY <3>2 DEF persisted
      <4>2. <<"stamp-persisted", 1>>[1] = "stamp-persisted"
        OBVIOUS
      <4>3. QED BY <1>1, <4>1, <4>2
    <3>3. QED BY <1>3, <3>1, <3>2
  <2>2. pc[r] \in {"replay_end", "persisted"} /\ kind[r] = "stamp"
    BY <1>0, <1>3 DEF replay_end, persisted, At, StepsOfKind
  <2>3. pc'[r] = "spawn" => fulfillment' \in PastStamp
    BY <1>0, <2>1 DEF EventsPassed, PastStamp
  <2>4. QED
    BY <1>0, <2>1, <2>2, <2>3 DEF KnowsOrder, Advanced, Loading, Returned
<1>4. CASE verified(r)
  <2>1. \/ pc'[r] = "retry"
        \/ /\ pc'[r] = "after"
           /\ IF <<"bitcoin-verified", seen[r].version>> \in events
              THEN UNCHANGED fulfillment
              ELSE fulfillment' = "bitcoin_verified"
    BY <1>1, <1>4 DEF verified
  <2>2. pc'[r] = "after" => fulfillment' \in PastPending
    <3>1. <<"bitcoin-verified", seen[r].version>>[1] = "bitcoin-verified"
      OBVIOUS
    <3>2. QED BY <1>0, <2>1, <3>1 DEF EventsPassed, PastPending
  <2>3. pc[r] = "verified"
    BY <1>4 DEF verified, At
  <2>4. QED
    BY <1>0, <2>1, <2>2, <2>3 DEF KnowsOrder, Advanced, Loading, Returned
<1>5. CASE reverified(r)
  <2>1. pc[r] = "reverified" /\ pc'[r] \in {"retry", "after"}
    BY <1>1, <1>5 DEF reverified, At
  <2>2. fulfillment \in PastPending
    BY <1>0, <2>1 DEF KnowsOrder, Loading, Returned, Confirmed, PastPending
  <2>3. QED
    BY <1>0, <2>1, <2>2 DEF KnowsOrder, Advanced, Loading, Returned
<1>6. QED BY <1>2, <1>3, <1>4, <1>5 DEF TransitionStep

\* A run's step comes to what the run may know.
LEMMA OrderKnown ==
    ASSUME IInv, LifeInv, Grown, Advanced, NEW r \in Run, RunStep(r)
    PROVE  KnowsOrder(r)'
<1>0. /\ RunTypes /\ TypeOK /\ KnowsOrder(r) /\ StepsOfKind(r)
      /\ fulfillment # "awaiting_payment" /\ fulfillment \in FulfillmentState
  BY DEF IInv, TypeOK, RunTypes, LifeInv, Knows
<1> USE DEF RunTypes
<1>1. CASE TransitionStep(r)
  BY <1>1, TransitionKnows
<1>2. CASE load(r)
  <2>1. /\ snap'[r].fulfillment = fulfillment /\ UNCHANGED fulfillment
        /\ pc'[r] \in {"manual", "latest"}
    BY <1>0, <1>2 DEF load, Go, order_vars
  <2>2. QED BY <1>0, <2>1 DEF KnowsOrder, Loading, Returned
<1>3. CASE latest(r)
  <2>1. /\ pc'[r] = HandlerGoes(kind[r], snap[r], latest_for_order)
        /\ kind'[r] = kind[r] /\ UNCHANGED fulfillment
        /\ snap'[r] = IF pc'[r] = "reverify" THEN snap[r] ELSE None
    BY <1>0, <1>3 DEF latest, Go, order_vars
  <2>2. snap[r] \in Snapshot /\ snap[r] # None /\ kind[r] \in Kind
    BY <1>3, ConstantsAssumption DEF latest, At, IInv, RunsReady, Ready,
       HoldsOrder, HoldsJob
  <2>3. /\ pc'[r] \notin {"after", "poll", "reverified"}
        /\ pc'[r] = "reverify" => snap[r].fulfillment \in Confirmed
        /\ pc'[r] = "spawn" => /\ kind[r] = "stamp"
                               /\ snap[r].fulfillment \notin {"queued", "stamping"}
    BY <2>1, <2>2 DEF HandlerGoes, StampGoes, UpgradeGoes, DeliveryGoes,
       ConfirmationGoes, Kind
  <2>4. pc'[r] = "spawn" => fulfillment \in PastStamp
    <3>1. snap[r].fulfillment \in FulfillmentState
      BY <2>2 DEF Snapshot
    <3>2. QED
      BY <1>0, <2>2, <2>3, <3>1 DEF KnowsOrder, FulfillmentState, PastStamp
  <2>5. QED BY <1>0, <2>1, <2>2, <2>3, <2>4 DEF KnowsOrder
<1>4. CASE submit(r) \/ ProofStep(r) \/ upgrade(r) \/ put_verified_once(r)
  <2>1. /\ snap'[r] = snap[r] /\ pc[r] \notin Loading
        /\ pc'[r] \in {"append", "response", "verify", "conflict", "observe",
                       "retry", "manual"}
    BY <1>0, <1>4 DEF submit, ProofStep, append, append_conflict,
       calendars_fail, AfterAppend, upgrade, put_verified_once, Go, At, Loading,
       Returned
  <2>2. QED BY <1>0, <2>1, OrderKnownOn
<1>5. CASE after(r)
  <2>1. /\ snap'[r] = snap[r] /\ kind'[r] = kind[r] /\ pc[r] = "after"
        /\ pc'[r] \in {"spawn", "complete"} /\ UNCHANGED fulfillment
        /\ kind[r] = "upgrade"
    BY <1>0, <1>5 DEF after, Go, At, order_vars, StepsOfKind
  <2>2. QED BY <1>0, <2>1 DEF KnowsOrder, Loading, Returned
<1>6. CASE VerifierStep(r)
  <2>1. /\ snap'[r] = snap[r] /\ kind'[r] = kind[r] /\ pc[r] \notin Loading
        /\ pc'[r] \in {"retry", "manual", "poll", "put", "observe"}
        /\ pc'[r] = "poll" => kind[r] = "upgrade"
    BY <1>0, <1>6 DEF VerifierStep, verifier_fails, not_confirmed,
       verify_exact_digest, VerifiedGoes, Asking, At, Go, StepsOfKind, Loading,
       Returned
  <2>2. QED BY <1>0, <2>1 DEF KnowsOrder, Advanced, Loading, Returned
<1>7. CASE get_verified(r) \/ latest_observation(r) \/ put_once(r)
  <2>1. /\ snap'[r] = snap[r] /\ pc[r] \notin Loading
        /\ pc'[r] \in {"retry", "manual", "observed", "bundle", "recheck",
                       "notice"}
    BY <1>0, <1>7 DEF get_verified, latest_observation, put_once, At, Go,
       Loading, Returned
  <2>2. QED BY <1>0, <2>1, OrderKnownOn
<1>8. CASE record_once(r)
  <2>1. /\ snap'[r] = snap[r] /\ kind'[r] = kind[r] /\ pc[r] \notin Loading
        /\ pc'[r] \in {"retry", "poll", "notice", "verified", "reverified"}
        /\ pc'[r] = "poll" => kind[r] = "confirmation"
        /\ pc'[r] = "reverified" => snap[r] # None
    BY <1>0, <1>8 DEF record_once, ObservedGoes, At, Go, Loading, Returned
  <2>2. QED BY <1>0, <2>1 DEF KnowsOrder, Advanced, Loading, Returned
<1>9. CASE enqueue_notice(r)
  <2>1. /\ snap'[r] = snap[r] /\ kind'[r] = kind[r] /\ pc[r] \notin Loading
        /\ pc'[r] \in {"retry", "poll", "complete"}
    BY <1>0, <1>9 DEF enqueue_notice, At, Go, Loading, Returned
  <2>2. pc'[r] = "poll" => HasInitial'
    <3> SUFFICES ASSUME pc'[r] = "poll" PROVE HasInitial'
      OBVIOUS
    <3>1. kind[r] = "delivery" /\ Authoritative(r)
      BY <1>0, <1>9 DEF enqueue_notice, Go
    <3>2. /\ outbox' = IF IsQueued(Notice(r)) THEN outbox
                       ELSE outbox \cup {Notice(r)}
          /\ Notice(r).kind = "initial"
      BY <1>9, <3>1 DEF enqueue_notice, Notice
    <3>3. QED BY <3>2 DEF IsQueued, HasInitial
  <2>3. QED BY <1>0, <2>1, <2>2 DEF KnowsOrder, Advanced, Loading, Returned
<1>10. CASE \/ \E k \in Kind : claim(r, k)
            \/ spawn(r) \/ poll(r) \/ escalate(r) \/ terminal_failure(r)
  <2>1. snap'[r] = snap[r] /\ pc'[r] \in Loading
    BY <1>0, <1>10 DEF claim, spawn, poll, escalate, terminal_failure, Dispatch,
       Go, Loading, Returned
  <2>2. QED BY <1>0, <2>1, OrderKnownOn DEF Loading, Returned
<1>11. CASE finish(r) \/ retry(r) \/ stop(r)
  <2>1. snap'[r] = None /\ pc'[r] = "idle"
    BY <1>0, <1>11 DEF finish, retry, stop, Leave, Go
  <2>2. QED BY <2>1 DEF KnowsOrder
<1>12. CASE lease_expires(r) \/ last_lease_expires(r)
  BY <1>0, <1>12, OrderStillKnown DEF lease_expires, last_lease_expires
<1>13. QED
  BY <1>1, <1>2, <1>3, <1>4, <1>5, <1>6, <1>7, <1>8, <1>9, <1>10, <1>11, <1>12
  DEF RunStep, StampStep, UpgradeStep, NoticeStep, QueueStep, EndStep,
      TransitionStep

\* Every run knows what its step needs, after whoever's step.
LEMMA KnowsStep ==
    ASSUME IInv, LifeInv, Grown, Advanced, [Next]_vars
    PROVE  \A q \in Run : Knows(q)'
<1> SUFFICES ASSUME NEW q \in Run PROVE Knows(q)'
  OBVIOUS
<1>0. Knows(q)
  BY DEF LifeInv
<1>1. CASE Environment \/ UNCHANGED vars
  BY <1>0, <1>1, KnowsKept DEF Environment, operator_reverify, operator_upgrade,
     payment_returned, apply_delivered_event, mine, reorganize, run_vars, vars
<1>2. ASSUME NEW r \in Run, RunStep(r)
      PROVE  Knows(q)'
  <2>1. CASE q = r
    BY <1>0, <1>2, <2>1, KindStep, OrderKnown DEF Knows
  <2>2. CASE q # r
    BY <1>0, <1>2, <2>2, OthersKept, KnowsKept DEF IInv, LocalsKept
  <2>3. QED BY <2>1, <2>2
<1>3. QED BY <1>1, <1>2 DEF Next

\* A transition writes its event key together with the state.
LEMMA EventsStep ==
    ASSUME IInv, LifeInv, Advanced, [Next]_vars
    PROVE  EventsPassed'
<1>0. EventsPassed
  BY DEF LifeInv
<1>1. CASE UNCHANGED events
  BY <1>0, <1>1 DEF EventsPassed, Advanced
<1>2. ASSUME NEW r \in Run, NEW target, NEW key, NEW time, NEW next,
             transition_fulfillment_once(r, target, key, time, next),
             key[1] \in {"stamp-persisted", "stamp-replay"} => target \in PastStamp,
             key[1] = "bitcoin-verified" => target \in PastPending
      PROVE  EventsPassed'
  <2>1. \/ UNCHANGED events
        \/ /\ events' = events \cup {key}
           /\ key \notin events => fulfillment' = target
    BY <1>2 DEF transition_fulfillment_once
  <2>2. QED BY <1>0, <1>1, <1>2, <2>1 DEF EventsPassed, Advanced
<1>3. ASSUME NEW r \in Run, TransitionStep(r)
      PROVE  EventsPassed'
  <2>1. CASE replay_start(r) \/ start(r) \/ response(r)
    BY <1>2, <2>1 DEF replay_start, start, response
  <2>2. CASE replay_end(r) \/ persisted(r)
    <3>1. "calendar_pending" \in PastStamp
      BY DEF PastStamp
    <3>2. QED BY <1>2, <2>2, <3>1 DEF replay_end, persisted
  <2>3. CASE verified(r)
    <3>1. "bitcoin_verified" \in PastPending
      BY DEF PastPending
    <3>2. QED BY <1>2, <2>3, <3>1 DEF verified
  <2>4. CASE reverified(r)
    BY <1>2, <2>4 DEF reverified
  <2>5. QED BY <1>3, <2>1, <2>2, <2>3, <2>4 DEF TransitionStep
<1>4. ASSUME NEW r \in Run, RunStep(r), ~TransitionStep(r)
      PROVE  UNCHANGED events
  <2> USE <1>4 DEF order_vars, TransitionStep
  <2>1. CASE StampStep(r)
    BY <2>1 DEF StampStep, submit
  <2>2. CASE ProofStep(r)
    BY <2>2 DEF ProofStep, append, append_conflict, calendars_fail
  <2>3. CASE UpgradeStep(r)
    BY <2>3 DEF UpgradeStep, upgrade, put_verified_once, after
  <2>4. CASE VerifierStep(r)
    BY <2>4 DEF VerifierStep, verifier_fails, not_confirmed, verify_exact_digest
  <2>5. CASE NoticeStep(r)
    BY <2>5 DEF NoticeStep, get_verified, latest_observation, put_once,
       record_once, enqueue_notice
  <2>6. CASE QueueStep(r)
    BY <2>6 DEF QueueStep, claim, load, latest, spawn, poll
  <2>7. CASE EndStep(r)
    BY <2>7 DEF EndStep, finish, retry, escalate, terminal_failure,
       lease_expires, last_lease_expires, stop
  <2>8. QED
    BY <2>1, <2>2, <2>3, <2>4, <2>5, <2>6, <2>7 DEF RunStep
<1>5. CASE Environment \/ UNCHANGED vars
  BY <1>1, <1>5 DEF Environment, operator_reverify, operator_upgrade,
     payment_returned, apply_delivered_event, mine, reorganize, order_vars, vars
<1>6. QED BY <1>1, <1>3, <1>4, <1>5 DEF Next

-----------------------------------------------------------------------------
(* Jobs: who holds them, and what becomes of them.                         *)

\* The steps that take a job, give it back, or leave it.
JobStep(r) ==
    \/ \E k \in Kind : claim(r, k)
    \/ finish(r) \/ retry(r) \/ lease_expires(r) \/ last_lease_expires(r)
    \/ stop(r)

\* The others keep their job, and enqueue none but in spawn and poll.
LEMMA JobsKept ==
    ASSUME NEW r \in Run, RunStep(r), ~JobStep(r)
    PROVE  /\ UNCHANGED <<kind, owns, stranded>>
           /\ spawn(r) \/ poll(r) \/ UNCHANGED <<keys, waiting>>
<1> USE DEF job_vars, JobStep
<1>1. CASE StampStep(r)
  BY <1>1 DEF StampStep, replay_start, replay_end, start, submit, response,
     persisted, transition_fulfillment_once
<1>2. CASE ProofStep(r)
  BY <1>2 DEF ProofStep, append, append_conflict, calendars_fail
<1>3. CASE UpgradeStep(r)
  BY <1>3 DEF UpgradeStep, upgrade, put_verified_once, verified, reverified,
     after, transition_fulfillment_once
<1>4. CASE VerifierStep(r)
  BY <1>4 DEF VerifierStep, verifier_fails, not_confirmed, verify_exact_digest
<1>5. CASE NoticeStep(r)
  BY <1>5 DEF NoticeStep, get_verified, latest_observation, put_once,
     record_once, enqueue_notice
<1>6. CASE QueueStep(r)
  BY <1>6 DEF QueueStep, load, latest, spawn, poll, EnqueueOnce, EnqueuePoll
<1>7. CASE EndStep(r)
  BY <1>7 DEF EndStep, escalate, terminal_failure
<1>8. QED
  BY <1>1, <1>2, <1>3, <1>4, <1>5, <1>6, <1>7 DEF RunStep

\* What spawn and poll enqueue.
LEMMA Enqueued ==
    ASSUME IInv, LifeInv, NEW r \in Run, spawn(r) \/ poll(r)
    PROVE  /\ keys \subseteq keys'
           /\ \A k \in Kind : waiting'[k] >= waiting[k]
           /\ spawn(r) /\ kind[r] = "stamp" =>
                /\ keys' = keys \cup {<<"upgrade", 0>>}
                /\ <<"upgrade", 0>> \notin keys => waiting'["upgrade"] > 0
                /\ waiting'["delivery"] = waiting["delivery"]
           /\ spawn(r) /\ kind[r] # "stamp" =>
                /\ keys' = keys \cup {<<"delivery", 0>>}
                /\ <<"delivery", 0>> \notin keys => waiting'["delivery"] > 0
                /\ waiting'["upgrade"] = waiting["upgrade"]
           /\ poll(r) =>
                /\ keys' = keys
                /\ waiting'["delivery"] = waiting["delivery"]
                /\ kind[r] = "upgrade" => waiting'["upgrade"] > 0
                /\ kind[r] # "upgrade" => waiting'["confirmation"] > 0
                /\ kind[r] # "upgrade" => waiting'["upgrade"] = waiting["upgrade"]
<1>0. /\ waiting \in [Kind -> Nat]
      /\ {"upgrade", "delivery", "confirmation"} \subseteq Kind
  BY DEF IInv, TypeOK, Kind
<1>1. ASSUME NEW k \in {"upgrade", "delivery", "confirmation"},
             waiting' = [waiting EXCEPT ![k] = @ + 1]
      PROVE  /\ \A j \in Kind : waiting'[j] >= waiting[j]
             /\ waiting'[k] > 0
             /\ \A j \in Kind : j # k => waiting'[j] = waiting[j]
  BY <1>0, <1>1
<1>2. CASE waiting' = waiting
  BY <1>0, <1>2 DEF spawn, poll, EnqueueOnce, EnqueuePoll
<1>3. CASE spawn(r) /\ kind[r] = "stamp" /\ waiting' # waiting
  <2>1. /\ waiting' = [waiting EXCEPT !["upgrade"] = @ + 1]
        /\ keys' = keys \cup {<<"upgrade", 0>>}
    BY <1>3 DEF spawn, EnqueueOnce
  <2>2. ~poll(r)
    BY <1>3 DEF spawn, poll, At
  <2>3. QED BY <1>0, <1>1, <1>3, <2>1, <2>2
<1>4. CASE spawn(r) /\ kind[r] # "stamp" /\ waiting' # waiting
  <2>1. /\ waiting' = [waiting EXCEPT !["delivery"] = @ + 1]
        /\ keys' = keys \cup {<<"delivery", 0>>}
    BY <1>4 DEF spawn, EnqueueOnce
  <2>2. ~poll(r)
    BY <1>4 DEF spawn, poll, At
  <2>3. QED BY <1>0, <1>1, <1>4, <2>1, <2>2
<1>5. CASE poll(r) /\ waiting' # waiting
  <2>1. /\ waiting' = [waiting EXCEPT ![IF kind[r] = "upgrade" THEN "upgrade"
                                        ELSE "confirmation"] = @ + 1]
        /\ keys' = keys
    BY <1>5 DEF poll, EnqueuePoll
  <2>2. ~spawn(r)
    BY <1>5 DEF spawn, poll, At
  <2>3. CASE kind[r] = "upgrade"
    BY <1>0, <1>1, <1>5, <2>1, <2>2, <2>3
  <2>4. CASE kind[r] # "upgrade"
    BY <1>0, <1>1, <1>5, <2>1, <2>2, <2>4
  <2>5. QED BY <2>3, <2>4
<1>6. QED BY <1>2, <1>3, <1>4, <1>5

\* A row that is stranded stays so.
LEMMA StrandedStays ==
    ASSUME [Next]_vars
    PROVE  stranded \subseteq stranded'
<1>1. ASSUME NEW r \in Run, JobStep(r)
      PROVE  stranded \subseteq stranded'
  BY <1>1 DEF JobStep, claim, finish, retry, lease_expires, last_lease_expires,
     stop, job_vars
<1>2. ASSUME NEW r \in Run, RunStep(r), ~JobStep(r)
      PROVE  stranded \subseteq stranded'
  BY <1>2, JobsKept
<1>3. CASE Environment
  BY <1>3 DEF Environment, operator_reverify, operator_upgrade, EnqueuePoll,
     EnqueueOnce, payment_returned, apply_delivered_event, mine, reorganize,
     job_vars
<1>4. QED BY <1>1, <1>2, <1>3 DEF Next, vars

\* A job is taken up again or kept: none of a kind is lost but by a run that
\* ends it, or stranded.
LEMMA CarriedKept ==
    ASSUME IInv, LifeInv, [Next]_vars, NEW K \in SUBSET Kind, CarriedOn(K),
           \A r \in Run :
               kind[r] \in K /\ pc[r] \notin Ended => pc'[r] \notin Ended
    PROVE  CarriedOn(K)'
<1> SUFFICES ASSUME stranded \cap K = {}
             PROVE  CarriedOn(K)'
  BY StrandedStays DEF CarriedOn
<1>0. RunTypes /\ waiting \in [Kind -> Nat]
  BY DEF IInv, TypeOK, RunTypes
<1>1. ASSUME UNCHANGED <<kind, owns>>,
             \A k \in Kind : waiting'[k] >= waiting[k]
      PROVE  CarriedOn(K)'
  <2>1. ASSUME NEW k \in K, waiting[k] > 0
        PROVE  CarriedOn(K)'
    <3>1. waiting[k] \in Nat /\ waiting'[k] >= waiting[k]
      BY <1>0, <1>1
    <3>2. waiting'[k] > 0
      <4>1. waiting'[k] \in Nat
        BY TypeStep DEF IInv, TypeOK
      <4>2. QED BY <2>1, <3>1, <4>1
    <3>3. QED BY <3>2 DEF CarriedOn
  <2>2. ASSUME NEW q \in Run, owns[q], kind[q] \in K, pc[q] \notin Ended
        PROVE  CarriedOn(K)'
    BY <1>1, <2>2 DEF CarriedOn
  <2>3. QED BY <2>1, <2>2 DEF CarriedOn
<1>2. ASSUME NEW r \in Run, NEW k \in Kind, claim(r, k)
      PROVE  CarriedOn(K)'
  <2>1. /\ pc'[r] = "load" /\ kind'[r] = k /\ owns'[r]
        /\ \A j \in Kind : j # k => waiting'[j] = waiting[j]
    BY <1>0, <1>2 DEF claim, Go, RunTypes
  <2>2. CASE k \in K
    BY <2>1, <2>2 DEF CarriedOn, Ended
  <2>3. CASE k \notin K
    <3>1. \A q \in Run : owns[q] => q # r
      BY <1>2 DEF claim, At, IInv, RunsReady, Ready, HoldsJob
    <3>2. RunStep(r)
      BY <1>2 DEF RunStep, QueueStep
    <3>3. \A q \in Run : owns[q] => LocalsKept(q)
      BY <3>1, <3>2, OthersKept DEF IInv
    <3>4. QED BY <2>1, <2>3, <3>3 DEF CarriedOn, LocalsKept
  <2>4. QED BY <2>2, <2>3
<1>3. ASSUME NEW r \in Run, retry(r) \/ lease_expires(r)
      PROVE  CarriedOn(K)'
  <2>1. kind[r] \in Kind
    BY <1>3 DEF retry, lease_expires, At, IInv, RunsReady, Ready, HoldsJob
  <2>2. waiting' = [waiting EXCEPT ![kind[r]] = @ + 1]
    BY <1>3 DEF retry, lease_expires
  <2>3. waiting'[kind[r]] > 0 /\ \A k \in Kind : waiting'[k] >= waiting[k]
    BY <1>0, <2>1, <2>2
  <2>4. CASE kind[r] \in K
    BY <2>3, <2>4 DEF CarriedOn
  <2>5. CASE kind[r] \notin K
    <3>1. RunStep(r)
      BY <1>3 DEF RunStep, EndStep
    <3>2. \A q \in Run : kind[q] \in K => LocalsKept(q)
      BY <2>5, <3>1, OthersKept DEF IInv
    <3>3. \A k \in K : waiting[k] > 0 => waiting'[k] > 0
      BY <1>0, <2>1, <2>2
    <3>4. QED BY <3>2, <3>3 DEF CarriedOn, LocalsKept
  <2>6. QED BY <2>4, <2>5
<1>4. ASSUME NEW r \in Run, finish(r) \/ stop(r)
      PROVE  CarriedOn(K)'
  <2>1. RunStep(r) /\ UNCHANGED waiting
    BY <1>4 DEF RunStep, EndStep, finish, stop, job_vars
  <2>2. \A q \in Run : owns[q] /\ pc[q] \notin Ended => q # r
    BY <1>4 DEF finish, stop, At, Ended
  <2>3. \A q \in Run : owns[q] /\ pc[q] \notin Ended => LocalsKept(q)
    BY <2>1, <2>2, OthersKept DEF IInv
  <2>4. QED BY <2>1, <2>3 DEF CarriedOn, LocalsKept
<1>5. ASSUME NEW r \in Run, RunStep(r), ~JobStep(r)
      PROVE  CarriedOn(K)'
  <2>1. UNCHANGED <<kind, owns>> /\ \A k \in Kind : waiting'[k] >= waiting[k]
    <3>1. CASE spawn(r) \/ poll(r)
      BY <1>5, <3>1, JobsKept, Enqueued
    <3>2. CASE UNCHANGED waiting
      BY <1>0, <1>5, <3>2, JobsKept
    <3>3. QED BY <1>5, <3>1, <3>2, JobsKept
  <2>2. QED BY <1>1, <2>1
<1>6. CASE Environment
  <2>1. UNCHANGED <<kind, owns>>
    BY <1>6 DEF Environment, operator_reverify, operator_upgrade,
       payment_returned, apply_delivered_event, mine, reorganize, run_vars
  <2>2. waiting' = waiting \/ waiting' = [waiting EXCEPT !["upgrade"] = @ + 1]
    BY <1>6 DEF Environment, operator_reverify, operator_upgrade, EnqueuePoll,
       EnqueueOnce, payment_returned, apply_delivered_event, mine, reorganize,
       job_vars
  <2>3. \A k \in Kind : waiting'[k] >= waiting[k]
    BY <1>0, <2>2
  <2>4. QED BY <1>1, <2>1, <2>3
<1>7. CASE UNCHANGED vars
  BY <1>7 DEF vars, CarriedOn
<1>8. ASSUME NEW r \in Run, last_lease_expires(r)
      PROVE  CarriedOn(K)'
  <2>1. /\ stranded' = stranded \cup {kind[r]}
        /\ UNCHANGED <<waiting, kind, pc>>
    BY <1>8 DEF last_lease_expires
  <2>2. CASE kind[r] \in K
    BY <2>1, <2>2 DEF CarriedOn
  <2>3. CASE kind[r] \notin K
    <3>1. \A q \in Run : q # r => owns'[q] = owns[q]
      BY <1>0, <1>8 DEF last_lease_expires, RunTypes
    <3>2. QED BY <2>1, <2>3, <3>1 DEF CarriedOn
  <2>4. QED BY <2>2, <2>3
<1>9. QED
  BY <1>2, <1>3, <1>4, <1>5, <1>6, <1>7, <1>8 DEF Next, JobStep

\* A job that begins a later part of the order's life is carried from the start,
\* and begins only when the order has got that far.
LEMMA BegunStep ==
    ASSUME IInv, LifeInv, Grown, Advanced, [Next]_vars
    PROVE  /\ JobsBegun'
           /\ UpgradeBegun' => UpgradeBegun \/ CarriedOn({"upgrade"})'
           /\ DeliveryBegun' => DeliveryBegun \/ CarriedOn({"delivery"})'
           /\ DeliveryBegun => DeliveryBegun'
<1>0. /\ RunTypes /\ waiting \in [Kind -> Nat] /\ JobsBegun
      /\ {"upgrade", "delivery"} \subseteq Kind
  BY DEF IInv, TypeOK, RunTypes, LifeInv, Kind
<1> DEFINE UpgradeKnown == UpgradeBegun \/ waiting["upgrade"] > 0
           DeliveryKnown == \/ waiting["delivery"] > 0
                            \/ \E r \in Run : kind[r] = "delivery"
                            \/ HasInitial
           Same == UNCHANGED <<keys, waiting, kind>>
           Goal == /\ UpgradeKnown' => UpgradeKnown \/ fulfillment \in PastStamp
                   /\ DeliveryBegun' => DeliveryBegun \/ fulfillment \in PastPending
                   /\ DeliveryKnown' => DeliveryKnown \/ DeliveryBegun'
                   /\ UpgradeBegun' => UpgradeBegun \/ CarriedOn({"upgrade"})'
                   /\ DeliveryBegun' => DeliveryBegun \/ CarriedOn({"delivery"})'
                   /\ DeliveryBegun => DeliveryBegun'
<1>1. SUFFICES Goal
  BY <1>0 DEF JobsBegun, Advanced
<1>2. HasInitial' => HasInitial \/ \E r \in Run : kind[r] = "delivery"
  <2>1. CASE UNCHANGED outbox
    BY <2>1 DEF HasInitial
  <2>2. ASSUME NEW r \in Run, enqueue_notice(r)
        PROVE  HasInitial' => HasInitial \/ \E q \in Run : kind[q] = "delivery"
    BY <2>2 DEF enqueue_notice, HasInitial, Notice
  <2>3. UNCHANGED outbox \/ \E r \in Run : enqueue_notice(r)
    BY EvidenceChanges DEF EvidenceStep, append, put_verified_once, record_once,
       put_once, evidence_vars
  <2>4. QED BY <2>1, <2>2, <2>3
<1>3. CASE Same
  BY <1>2, <1>3 DEF UpgradeBegun, DeliveryBegun
<1>4. ASSUME NEW r \in Run, NEW k \in Kind, claim(r, k)
      PROVE  Goal
  <2>1. /\ kind' = [kind EXCEPT ![r] = k] /\ UNCHANGED keys
        /\ pc'[r] = "load" /\ owns'[r] /\ kind'[r] = k
        /\ waiting[k] > 0
        /\ \A j \in Kind : waiting'[j] > 0 => waiting[j] > 0
    BY <1>0, <1>4 DEF claim, Go, RunTypes
  <2>2. \A q \in Run : kind'[q] = kind[q] \/ kind'[q] = k
    BY <1>0, <2>1 DEF RunTypes
  <2>3. UpgradeBegun' => UpgradeBegun \/ k = "upgrade"
    BY <2>1, <2>2 DEF UpgradeBegun
  <2>4. k = "upgrade" => CarriedOn({"upgrade"})'
    BY <2>1 DEF CarriedOn, Ended
  <2>5. DeliveryBegun' <=> DeliveryBegun
    BY <2>1 DEF DeliveryBegun
  <2>6. DeliveryKnown' => DeliveryKnown
    BY <1>0, <1>2, <2>1, <2>2
  <2>7. UpgradeKnown' => UpgradeKnown
    BY <1>0, <2>1, <2>3
  <2>8. QED BY <2>3, <2>4, <2>5, <2>6, <2>7
<1>5. ASSUME NEW r \in Run,
             \/ finish(r) \/ retry(r) \/ stop(r)
             \/ lease_expires(r) \/ last_lease_expires(r)
      PROVE  Goal
  <2>1. /\ UNCHANGED keys
        /\ \A q \in Run : kind'[q] = kind[q] \/ kind'[q] = None
    BY <1>0, <1>5 DEF finish, retry, stop, lease_expires, last_lease_expires,
       Leave, job_vars, RunTypes
  <2>2. \A k \in Kind : waiting'[k] > 0 => waiting[k] > 0 \/ kind[r] = k
    BY <1>0, <1>5 DEF finish, retry, stop, lease_expires, last_lease_expires,
       job_vars
  <2>3. None \notin Kind
    BY ConstantsAssumption
  <2>4. /\ UpgradeBegun' => UpgradeBegun
        /\ DeliveryBegun' <=> DeliveryBegun
    BY <1>0, <2>1, <2>3 DEF UpgradeBegun, DeliveryBegun
  <2>5. DeliveryKnown' => DeliveryKnown
    BY <1>0, <1>2, <2>1, <2>2, <2>3
  <2>6. UpgradeKnown' => UpgradeKnown
    BY <1>0, <2>2, <2>4 DEF UpgradeBegun
  <2>7. QED BY <2>4, <2>5, <2>6
<1>6. ASSUME NEW r \in Run, spawn(r) \/ poll(r)
      PROVE  Goal
  <2>0. UNCHANGED <<kind, owns, order_vars, evidence_vars>>
    BY <1>6 DEF spawn, poll
  <2>1. /\ StepsOfKind(r) /\ KnowsOrder(r)
    BY DEF LifeInv, Knows
  <2>2. HasInitial' => HasInitial
    BY <2>0 DEF HasInitial, evidence_vars
  <2>3. CASE spawn(r) /\ kind[r] = "stamp"
    <3>1. /\ keys' = keys \cup {<<"upgrade", 0>>}
          /\ <<"upgrade", 0>> \notin keys => waiting'["upgrade"] > 0
          /\ waiting'["delivery"] = waiting["delivery"]
      BY <2>3, Enqueued
    <3>2. fulfillment \in PastStamp
      BY <2>1, <2>3 DEF spawn, At, KnowsOrder
    <3>3. <<"upgrade", 0>> # <<"delivery", 0>>
      OBVIOUS
    <3>4. UpgradeBegun' => UpgradeBegun \/ CarriedOn({"upgrade"})'
      BY <2>0, <3>1 DEF UpgradeBegun, CarriedOn
    <3>5. DeliveryBegun' <=> DeliveryBegun
      BY <3>1, <3>3 DEF DeliveryBegun
    <3>6. DeliveryKnown' => DeliveryKnown
      BY <2>0, <2>2, <3>1
    <3>7. QED BY <3>2, <3>4, <3>5, <3>6
  <2>4. CASE spawn(r) /\ kind[r] # "stamp"
    <3>1. /\ keys' = keys \cup {<<"delivery", 0>>}
          /\ <<"delivery", 0>> \notin keys => waiting'["delivery"] > 0
          /\ waiting'["upgrade"] = waiting["upgrade"]
      BY <2>4, Enqueued
    <3>2. fulfillment \in PastPending
      BY <2>1, <2>4 DEF spawn, At, KnowsOrder, StepsOfKind
    <3>3. <<"upgrade", 0>> # <<"delivery", 0>>
      OBVIOUS
    <3>4. UpgradeBegun' => UpgradeBegun
      BY <2>0, <3>1, <3>3 DEF UpgradeBegun
    <3>5. DeliveryBegun'
      BY <3>1 DEF DeliveryBegun
    <3>6. DeliveryBegun \/ CarriedOn({"delivery"})'
      BY <3>1 DEF DeliveryBegun, CarriedOn
    <3>7. QED BY <3>1, <3>2, <3>4, <3>5, <3>6
  <2>5. CASE poll(r)
    <3>1. /\ keys' = keys
          /\ waiting'["delivery"] = waiting["delivery"]
          /\ kind[r] # "upgrade" => waiting'["upgrade"] = waiting["upgrade"]
      BY <2>5, Enqueued
    <3>2. /\ UpgradeBegun' => UpgradeBegun
          /\ DeliveryBegun' <=> DeliveryBegun
      BY <2>0, <3>1 DEF UpgradeBegun, DeliveryBegun
    <3>3. DeliveryKnown' => DeliveryKnown
      BY <2>0, <2>2, <3>1
    <3>4. UpgradeKnown' => UpgradeKnown
      BY <3>1, <3>2 DEF UpgradeBegun
    <3>5. QED BY <3>2, <3>3, <3>4
  <2>6. QED BY <1>6, <2>3, <2>4, <2>5
<1>7. CASE operator_reverify \/ operator_upgrade
  <2>1. /\ fulfillment \in PastStamp /\ UNCHANGED kind
        /\ keys' \in {keys, keys \cup {<<"upgrade-manual", Version>>}}
        /\ waiting'["delivery"] = waiting["delivery"]
    BY <1>0, <1>7 DEF operator_reverify, operator_upgrade, EnqueuePoll,
       EnqueueOnce, Confirmed, PastStamp, run_vars
  <2>2. /\ <<"upgrade-manual", Version>> # <<"upgrade", 0>>
        /\ <<"upgrade-manual", Version>> # <<"delivery", 0>>
    OBVIOUS
  <2>3. /\ UpgradeBegun' => UpgradeBegun
        /\ DeliveryBegun' <=> DeliveryBegun
    BY <2>1, <2>2 DEF UpgradeBegun, DeliveryBegun
  <2>4. DeliveryKnown' => DeliveryKnown
    BY <1>2, <2>1
  <2>5. QED BY <2>1, <2>3, <2>4
<1>8. ASSUME NEW r \in Run, RunStep(r)
      PROVE  Goal
  <2>1. CASE ~JobStep(r)
    BY <1>3, <1>6, <1>8, <2>1, JobsKept
  <2>2. CASE JobStep(r)
    BY <1>4, <1>5, <2>2 DEF JobStep
  <2>3. QED BY <2>1, <2>2
<1>9. CASE Environment
  BY <1>3, <1>7, <1>9 DEF Environment, payment_returned, apply_delivered_event,
     mine, reorganize, job_vars, run_vars
<1>10. CASE UNCHANGED vars
  BY <1>3, <1>10 DEF vars
<1>11. QED BY <1>8, <1>9, <1>10 DEF Next

\* The steps that end a job.
LEMMA Endings ==
    ASSUME IInv, NEW r \in Run, RunStep(r), pc[r] \notin Ended, pc'[r] \in Ended
    PROVE  after(r) \/ spawn(r) \/ poll(r) \/ enqueue_notice(r)
           \/ terminal_failure(r)
<1>0. RunTypes
  BY DEF IInv, TypeOK, RunTypes
<1> USE DEF Ended, Go, RunTypes
<1>1. CASE StampStep(r)
  BY <1>0, <1>1 DEF StampStep, replay_start, replay_end, start, submit, response,
     persisted, transition_fulfillment_once
<1>2. CASE ProofStep(r)
  BY <1>0, <1>2 DEF ProofStep, append, append_conflict, calendars_fail,
     AfterAppend
<1>3. CASE UpgradeStep(r)
  BY <1>0, <1>3 DEF UpgradeStep, upgrade, put_verified_once, verified,
     reverified, transition_fulfillment_once
<1>4. CASE VerifierStep(r)
  BY <1>0, <1>4 DEF VerifierStep, verifier_fails, not_confirmed,
     verify_exact_digest, VerifiedGoes
<1>5. CASE NoticeStep(r)
  BY <1>0, <1>5 DEF NoticeStep, get_verified, latest_observation, put_once,
     record_once, ObservedGoes
<1>6. CASE QueueStep(r)
  <2>1. CASE latest(r)
    <3>1. pc'[r] = HandlerGoes(kind[r], snap[r], latest_for_order)
      BY <1>0, <2>1 DEF latest
    <3>2. QED
      BY <3>1 DEF HandlerGoes, StampGoes, UpgradeGoes, DeliveryGoes,
         ConfirmationGoes
  <2>2. QED BY <1>0, <1>6, <2>1 DEF QueueStep, claim, load
<1>7. CASE EndStep(r)
  BY <1>0, <1>7 DEF EndStep, finish, retry, escalate, lease_expires,
     last_lease_expires, stop, Leave
<1>8. QED
  BY <1>1, <1>2, <1>3, <1>4, <1>5, <1>6, <1>7 DEF RunStep

\* The order stays carried: a run that ends its job has enqueued the next one,
\* or has found it begun, or has done its part.
LEMMA CarriesStep ==
    ASSUME IInv, LifeInv, Grown, Advanced, [Next]_vars
    PROVE  Carries'
<1> DEFINE S == {"stamp"}
           SU == {"stamp", "upgrade"}
           U == {"upgrade"}
           UD == {"upgrade", "delivery"}
           D == {"delivery"}
           UDC == {"upgrade", "delivery", "confirmation"}
           DC == {"delivery", "confirmation"}
<1>0. /\ Carries /\ JobsBegun /\ RunTypes
      /\ fulfillment \in FulfillmentState
      /\ S \in SUBSET Kind /\ SU \in SUBSET Kind /\ U \in SUBSET Kind
      /\ UD \in SUBSET Kind /\ D \in SUBSET Kind /\ UDC \in SUBSET Kind
      /\ DC \in SUBSET Kind
  BY DEF LifeInv, IInv, TypeOK, RunTypes, Kind
<1>1. /\ HasInitial => HasInitial'
      /\ HasFinal => HasFinal'
  BY DEF HasInitial, HasFinal, Grown
<1>2. /\ UpgradeBegun' => UpgradeBegun \/ CarriedOn(U)'
      /\ DeliveryBegun' => DeliveryBegun \/ CarriedOn(D)'
      /\ DeliveryBegun => DeliveryBegun'
  BY BegunStep
<1>3. /\ CarriedOn(U)' => CarriedOn(SU)' /\ CarriedOn(UD)' /\ CarriedOn(UDC)'
      /\ CarriedOn(S)' => CarriedOn(SU)'
      /\ CarriedOn(D)' => CarriedOn(UD)' /\ CarriedOn(DC)'
      /\ CarriedOn(DC)' => CarriedOn(UDC)'
  BY DEF CarriedOn
<1>4. CASE fulfillment' = "manual_review"
  BY <1>4 DEF Carries, Confirmed
<1>5. ASSUME NEW r \in Run, RunStep(r), pc[r] \notin Ended, pc'[r] \in Ended,
             fulfillment' # "manual_review"
      PROVE  Carries'
  <2>1. after(r) \/ spawn(r) \/ poll(r) \/ enqueue_notice(r)
    BY <1>5, Endings DEF terminal_failure
  <2>2. UNCHANGED fulfillment
    BY <2>1 DEF after, spawn, poll, enqueue_notice, order_vars
  <2>3. KnowsOrder(r) /\ StepsOfKind(r)
    BY DEF LifeInv, Knows
  <2>4. ASSUME NEW K \in SUBSET Kind, CarriedOn(K), kind[r] \notin K
        PROVE  CarriedOn(K)'
    <3>1. \A q \in Run : kind[q] \in K => LocalsKept(q)
      BY <1>5, <2>4, OthersKept DEF IInv
    <3>2. QED BY <2>4, <3>1, CarriedKept DEF LocalsKept
  <2>5. CASE after(r)
    <3>1. kind[r] = "upgrade" /\ fulfillment = "delivered"
      BY <1>0, <1>5, <2>2, <2>3, <2>5 DEF after, At, Go, KnowsOrder, StepsOfKind,
         PastPending, RunTypes, Ended
    <3>2. DeliveryBegun
      BY <1>0, <3>1 DEF JobsBegun, IInv, NoticesAreBacked, HasInitial
    <3>3. HasFinal \/ CarriedOn(DC)
      BY <1>0, <3>1, <3>2 DEF Carries, Confirmed
    <3>4. HasFinal' \/ CarriedOn(DC)'
      BY <1>0, <1>1, <2>4, <3>1, <3>3
    <3>5. QED BY <1>3, <2>2, <3>1, <3>4 DEF Carries
  <2>6. CASE spawn(r) /\ kind[r] = "stamp"
    <3>1. fulfillment \in PastStamp
      BY <2>3, <2>6 DEF spawn, At, KnowsOrder
    <3>2. CarriedOn(U)' \/ UpgradeBegun
      BY <2>6, Enqueued DEF CarriedOn, UpgradeBegun
    <3>3. fulfillment = "calendar_pending" => CarriedOn(U)'
      BY <1>0, <2>4, <2>6, <3>2 DEF Carries
    <3>4. fulfillment = "bitcoin_verified" =>
            /\ HasInitial' \/ CarriedOn(UD)'
            /\ DeliveryBegun' => HasInitial' \/ CarriedOn(D)'
      BY <1>0, <1>1, <1>2, <2>4, <2>6 DEF Carries
    <3>5. fulfillment \in Confirmed =>
            /\ HasFinal' \/ CarriedOn(UDC)'
            /\ DeliveryBegun' => HasFinal' \/ CarriedOn(DC)'
      BY <1>0, <1>1, <1>2, <1>3, <2>4, <2>6 DEF Carries
    <3>6. QED BY <1>3, <2>2, <3>1, <3>3, <3>4, <3>5 DEF Carries, PastStamp
  <2>7. CASE spawn(r) /\ kind[r] # "stamp"
    <3>1. fulfillment \in PastPending /\ kind[r] = "upgrade"
      BY <2>3, <2>7 DEF spawn, At, KnowsOrder, StepsOfKind
    <3>2. CarriedOn(D)' \/ DeliveryBegun
      BY <2>7, Enqueued DEF CarriedOn, DeliveryBegun
    <3>3. fulfillment = "bitcoin_verified" => HasInitial' \/ CarriedOn(D)'
      BY <1>0, <1>1, <2>4, <3>1, <3>2 DEF Carries
    <3>4. fulfillment \in Confirmed => HasFinal' \/ CarriedOn(DC)'
      BY <1>0, <1>1, <1>3, <2>4, <3>1, <3>2 DEF Carries
    <3>5. QED BY <1>3, <2>2, <3>1, <3>3, <3>4 DEF Carries, PastPending
  <2>8. CASE poll(r) /\ kind[r] = "upgrade"
    <3>1. CarriedOn(U)'
      BY <2>8, Enqueued DEF CarriedOn
    <3>2. fulfillment \in {"queued", "stamping"} => CarriedOn(S)'
      BY <1>0, <2>4, <2>8 DEF Carries
    <3>3. /\ fulfillment = "bitcoin_verified" /\ DeliveryBegun' =>
               HasInitial' \/ CarriedOn(D)'
          /\ fulfillment \in Confirmed /\ DeliveryBegun' =>
               HasFinal' \/ CarriedOn(DC)'
      BY <1>0, <1>1, <1>2, <1>3, <2>4, <2>8 DEF Carries
    <3>4. QED BY <1>3, <2>2, <3>1, <3>2, <3>3 DEF Carries
  <2>9. CASE poll(r) /\ kind[r] # "upgrade"
    <3>1. CarriedOn(DC)'
      BY <2>9, Enqueued DEF CarriedOn
    <3>2. kind[r] \in {"delivery", "confirmation"}
      <4>1. kind[r] \in Kind
        BY <2>9 DEF poll, At, IInv, RunsReady, Ready, HoldsJob
      <4>2. QED BY <2>3, <2>9, <4>1 DEF poll, At, StepsOfKind, Kind
    <3>3. kind[r] = "delivery" => HasInitial'
      BY <1>1, <2>3, <2>9 DEF poll, At, KnowsOrder
    <3>4. fulfillment \in {"queued", "stamping"} => CarriedOn(S)'
      BY <1>0, <2>4, <3>2 DEF Carries
    <3>5. fulfillment = "calendar_pending" =>
            /\ CarriedOn(SU)'
            /\ UpgradeBegun' => CarriedOn(U)'
      BY <1>0, <1>2, <2>4, <3>2 DEF Carries
    <3>6. fulfillment = "bitcoin_verified" =>
            /\ HasInitial' \/ CarriedOn(UD)'
            /\ DeliveryBegun' => HasInitial' \/ CarriedOn(D)'
      <4>1. CASE kind[r] = "delivery"
        BY <3>3, <4>1
      <4>2. CASE kind[r] = "confirmation"
        BY <1>0, <1>1, <1>2, <2>4, <4>2 DEF Carries
      <4>3. QED BY <3>2, <4>1, <4>2
    <3>7. QED BY <1>3, <2>2, <3>1, <3>4, <3>5, <3>6 DEF Carries
  <2>10. CASE enqueue_notice(r)
    <3>1. kind[r] = "confirmation" /\ Authoritative(r)
      BY <1>0, <1>5, <2>3, <2>10 DEF enqueue_notice, At, Go, StepsOfKind,
         RunTypes, Ended
    <3>2. HasFinal'
      <4>1. /\ outbox' = IF IsQueued(Notice(r)) THEN outbox
                         ELSE outbox \cup {Notice(r)}
            /\ Notice(r).kind = "final"
        BY <2>10, <3>1 DEF enqueue_notice, Notice
      <4>2. QED BY <4>1 DEF IsQueued, HasFinal
    <3>3. fulfillment \in {"queued", "stamping"} => CarriedOn(S)'
      BY <1>0, <2>4, <3>1 DEF Carries
    <3>4. fulfillment = "calendar_pending" =>
            /\ CarriedOn(SU)'
            /\ UpgradeBegun' => CarriedOn(U)'
      BY <1>0, <1>2, <2>4, <3>1 DEF Carries
    <3>5. fulfillment = "bitcoin_verified" =>
            /\ HasInitial' \/ CarriedOn(UD)'
            /\ DeliveryBegun' => HasInitial' \/ CarriedOn(D)'
      BY <1>0, <1>1, <1>2, <2>4, <3>1 DEF Carries
    <3>6. QED BY <2>2, <3>2, <3>3, <3>4, <3>5 DEF Carries
  <2>11. QED BY <2>1, <2>5, <2>6, <2>7, <2>8, <2>9, <2>10
<1>6. CASE /\ \A r \in Run : pc[r] \notin Ended => pc'[r] \notin Ended
           /\ fulfillment' # "manual_review"
  <2>1. ASSUME NEW K \in SUBSET Kind, CarriedOn(K)
        PROVE  CarriedOn(K)'
    BY <1>6, <2>1, CarriedKept
  <2>2. CASE UNCHANGED fulfillment
    <3>1. fulfillment \in {"queued", "stamping"} => CarriedOn(S)'
      BY <1>0, <2>1 DEF Carries
    <3>2. fulfillment = "calendar_pending" =>
            /\ CarriedOn(SU)'
            /\ UpgradeBegun' => CarriedOn(U)'
      BY <1>0, <1>2, <2>1 DEF Carries
    <3>3. fulfillment = "bitcoin_verified" =>
            /\ HasInitial' \/ CarriedOn(UD)'
            /\ DeliveryBegun' => HasInitial' \/ CarriedOn(D)'
      BY <1>0, <1>1, <1>2, <2>1 DEF Carries
    <3>4. fulfillment \in Confirmed =>
            /\ HasFinal' \/ CarriedOn(UDC)'
            /\ DeliveryBegun' => HasFinal' \/ CarriedOn(DC)'
      BY <1>0, <1>1, <1>2, <1>3, <2>1 DEF Carries
    <3>5. QED BY <2>2, <3>1, <3>2, <3>3, <3>4 DEF Carries
  <2>3. CASE <<fulfillment, fulfillment'>> = <<"queued", "stamping">>
    BY <1>0, <2>1, <2>3 DEF Carries, Confirmed
  <2>4. CASE /\ <<fulfillment, fulfillment'>> = <<"stamping", "calendar_pending">>
             /\ UNCHANGED <<keys, waiting, kind>>
    <3>1. ~UpgradeBegun
      BY <1>0, <2>4 DEF JobsBegun, PastStamp
    <3>2. ~UpgradeBegun'
      BY <2>4, <3>1 DEF UpgradeBegun
    <3>3. CarriedOn(SU)'
      BY <1>0, <1>3, <2>1, <2>4 DEF Carries
    <3>4. QED BY <2>4, <3>2, <3>3 DEF Carries, Confirmed
  <2>5. CASE /\ <<fulfillment, fulfillment'>> =
                   <<"calendar_pending", "bitcoin_verified">>
             /\ UNCHANGED <<keys, waiting, kind>>
             /\ \E r \in Run : kind[r] = "upgrade"
    <3>1. CarriedOn(U)
      BY <1>0, <2>5 DEF Carries, UpgradeBegun
    <3>2. CarriedOn(U)'
      BY <1>0, <2>1, <3>1
    <3>3. ~DeliveryBegun
      BY <1>0, <2>5 DEF JobsBegun, PastPending
    <3>4. ~DeliveryBegun'
      BY <2>5, <3>3 DEF DeliveryBegun
    <3>5. QED BY <1>3, <2>5, <3>2, <3>4 DEF Carries
  <2>6. CASE <<fulfillment, fulfillment'>> = <<"bitcoin_verified", "delivered">>
    <3>1. /\ HasFinal' \/ CarriedOn(UDC)'
          /\ DeliveryBegun' => HasFinal' \/ CarriedOn(DC)'
      BY <1>0, <1>1, <1>2, <1>3, <2>1, <2>6 DEF Carries, Confirmed
    <3>2. QED BY <2>6, <3>1 DEF Carries
  <2>7. QED
    BY <1>6, <2>2, <2>3, <2>4, <2>5, <2>6, OrderAdvances DEF OrderMoves
<1>7. CASE Environment \/ UNCHANGED vars
  <2>1. UNCHANGED pc
    BY <1>7 DEF Environment, operator_reverify, operator_upgrade,
       payment_returned, apply_delivered_event, mine, reorganize, run_vars, vars
  <2>2. QED BY <1>4, <1>6, <2>1
<1>8. ASSUME NEW r \in Run, RunStep(r)
      PROVE  Carries'
  <2>1. CASE pc[r] \notin Ended /\ pc'[r] \in Ended
    BY <1>4, <1>5, <1>8, <2>1
  <2>2. CASE ~(pc[r] \notin Ended /\ pc'[r] \in Ended)
    <3>1. \A q \in Run : q # r => pc'[q] = pc[q]
      BY <1>8, OthersKept DEF IInv, LocalsKept
    <3>2. QED BY <1>4, <1>6, <2>2, <3>1
  <2>3. QED BY <2>1, <2>2
<1>9. QED BY <1>7, <1>8 DEF Next

\* The stamp job of a paid order waits, and carries it.
LEMMA InitLife == Init => LifeInv
<1> SUFFICES ASSUME Init PROVE LifeInv
  OBVIOUS
<1>1. /\ waiting["stamp"] = 1 /\ waiting["upgrade"] = 0 /\ waiting["delivery"] = 0
      /\ <<"stamp", 0>> # <<"upgrade", 0>> /\ <<"stamp", 0>> # <<"delivery", 0>>
  BY DEF Init, Kind
<1>2. \A r \in Run : kind[r] = None /\ pc[r] = "idle" /\ snap[r] = None
  BY DEF Init
<1>3. None # "upgrade" /\ None # "delivery"
  BY ConstantsAssumption DEF Kind
<1>4. ~UpgradeBegun /\ ~DeliveryBegun /\ ~HasInitial
  BY <1>1, <1>2, <1>3 DEF Init, UpgradeBegun, DeliveryBegun, HasInitial
<1>5. \A r \in Run : Knows(r)
  BY <1>2 DEF Knows, StepsOfKind, KnowsOrder
<1>6. Carries
  <2>1. CarriedOn({"stamp"})
    BY <1>1 DEF CarriedOn
  <2>2. QED BY <1>4, <2>1 DEF Init, Carries, Confirmed
<1>7. JobsBegun
  BY <1>1, <1>2, <1>3, <1>4 DEF JobsBegun
<1>8. QED BY <1>5, <1>6, <1>7 DEF Init, LifeInv, EventsPassed

\* Every step keeps the invariant.
LEMMA StepLife ==
    ASSUME IInv, LifeInv, [Next]_vars
    PROVE  LifeInv'
<1>1. Grown /\ Advanced
  BY RowsGrow, OrderNeverReturns DEF IInv
<1>2. QED
  BY <1>1, KnowsStep, EventsStep, BegunStep, CarriesStep DEF LifeInv, Advanced

\* An order that is paid for is never left without a job to carry it on: through
\* lost leases, repeated attempts, refused tasks and keys that are known already
\* (enqueue_once, StampJobHandler, UpgradeJobHandler, DeliveryHandler,
\* ConfirmationHandler).
THEOREM NothingForgotten == Spec => []NoOrderForgotten
<1>1. Init => LifeInv
  BY InitLife
<1>2. IInv /\ LifeInv /\ [Next]_vars => LifeInv'
  BY StepLife
<1>3. LifeInv => NoOrderForgotten
  BY DEF LifeInv, Carries, CarriedOn, Carried, HasInitial, HasFinal,
     NoOrderForgotten
<1>4. QED BY <1>1, <1>2, <1>3, Invariance, PTL DEF Spec

-----------------------------------------------------------------------------
(* Status and downloads: what holds however many attempts run.             *)

\* A request that holds the token's row has a valid token, and one that goes
\* on with a proof has one.
Authorized(d) == On(d, "lock") \/ On(d, "relock") => token
HasSelection(d) ==
    On(d, "build") \/ On(d, "relock") \/ On(d, "bundle") =>
        request[d].proof \in StoredProof
RequestsReady == \A d \in Customer : Authorized(d) /\ HasSelection(d)

CustomerInv ==
    /\ RequestsTypeOK
    /\ RequestsReady
    /\ VerifiedDownloadsAreBacked

-----------------------------------------------------------------------------
(* What holds while one attempt at a time carries the order out.           *)

\* The current version is verified and observed; its notice was delivered.
Backed == IsVerified(Version) /\ IsObserved(Version)
Sent ==
    /\ sender = Version
    /\ Version \in bundles
    /\ \E m \in outbox : m.kind = "initial" /\ m.version = Version

\* What an order that was read in this state still shows.
Grounded(state) ==
    /\ state \in HasProof => proofs # <<>>
    /\ state \in Confirmed => fulfillment \in PastPending /\ Backed
    /\ state = "delivered" => Sent

\* The steps from which a version may yet be appended.
Appending == {"start", "submit", "upgrade", "append", "conflict"}
Early == {"queued", "stamping", "calendar_pending"}

\* A run that may append does so before the order is past calendar_pending; the
\* order it loaded is no later than the order; what it verified is current.
Attends(r) ==
    /\ pc[r] \in Appending => fulfillment \in Early
    /\ pc[r] = "latest" /\ snap[r].fulfillment \in Early => fulfillment \in Early
    /\ snap[r] # None /\ snap[r].fulfillment = "delivered" =>
          fulfillment \in {"delivered", "manual_review"}
    /\ pc[r] = "verified" => Backed

\* What a status request has read, and what it has told.
Reads(d) ==
    /\ On(d, "proof") => request[d].state \in HasProof /\ Grounded(request[d].state)
    /\ On(d, "bundle") =>
          /\ request[d].state \in Confirmed
          /\ Grounded(request[d].state)
          /\ request[d].proof.version = Version
ToldIsTrue ==
    told # None =>
        /\ told.code = 200
        /\ told.available /\ told.state \in Confirmed =>
              fulfillment \in PastPending /\ Version \in bundles

StatusInv ==
    /\ Grounded(fulfillment)
    /\ \A r \in Run : Attends(r)
    /\ \A d \in Customer : Reads(d)
    /\ ToldIsTrue

-----------------------------------------------------------------------------
(* Steps.                                                                  *)

CustomerStep(d) == DownloadStep(d) \/ StatusStep(d)

\* Requests read the handlers' tables and never write them.
LEMMA HandlersStep ==
    ASSUME [AllNext]_all_vars
    PROVE  [Next]_vars
<1>1. ASSUME NEW d \in Customer, CustomerStep(d)
      PROVE  UNCHANGED vars
  BY <1>1 DEF CustomerStep, DownloadStep, StatusStep, proof_bundle,
     select_verified, select_pending, select_refused, build, record_pending,
     download_fails, order_status, status_proof, status_bundle
<1>2. QED
  BY <1>1 DEF AllNext, FulfillmentStep, CustomerStep, token_revoked, all_vars

\* The proof projected by whatever state was loaded is the latest stored one.
LEMMA LatestForIsStored ==
    ASSUME TypeOK, NEW state, LatestFor(state) # None \/ proofs # <<>>
    PROVE  /\ LatestFor(state) \in StoredProof
           /\ LatestFor(state).version = Version
           /\ proofs[Version] = [stamp |-> LatestFor(state).stamp,
                                 att |-> LatestFor(state).att]
           /\ proofs # <<>>
           /\ LatestFor(state).evidence # None =>
                 /\ state \in Confirmed
                 /\ IsVerified(Version) /\ IsObserved(Version)
<1> DEFINE evidence ==
      IF state \in Confirmed /\ IsVerified(Version) /\ IsObserved(Version)
      THEN [block |-> BlockOf(Version), count |-> LatestCount(Version)]
      ELSE None
<1>1. evidence \in Evidence \cup {None}
  BY LatestIsObserved, BlockIsVerified DEF Evidence
<1>2. proofs # <<>>
  BY DEF LatestFor
<1>3. Version \in Nat /\ proofs[Version] \in Bytes
  BY <1>2 DEF TypeOK, Version
<1>4. LatestFor(state) =
        [version |-> Version, stamp |-> proofs[Version].stamp,
         att |-> proofs[Version].att, evidence |-> evidence]
  BY <1>2 DEF LatestFor
<1>5. evidence # None =>
        state \in Confirmed /\ IsVerified(Version) /\ IsObserved(Version)
  OBVIOUS
<1> HIDE DEF evidence
<1>6. QED
  BY <1>1, <1>2, <1>3, <1>4, <1>5 DEF StoredProof, Bytes

\* None of the values a request may hold is None.
LEMMA NoneApart ==
    /\ None \notin Request
    /\ None \notin Status
    /\ None \notin StoredProof
BY CustomersAssumption, ConstantsAssumption

-----------------------------------------------------------------------------
(* Types.                                                                  *)

\* What a request moves to is typed.
LEMMA MovesTypes ==
    ASSUME RequestsTypeOK, NEW d \in Customer,
           NEW step \in {"lock", "build", "relock", "proof", "bundle"},
           NEW state \in FulfillmentState, NEW p \in StoredProof \cup {None},
           Moves(d, step, state, p)
    PROVE  /\ request' \in [Customer -> Request \cup {None}]
           /\ request'[d] = [step |-> step, state |-> state, proof |-> p]
           /\ request'[d] # None
           /\ \A e \in Customer : e # d => request'[e] = request[e]
<1>1. [step |-> step, state |-> state, proof |-> p] \in Request
  BY DEF Request
<1>2. QED BY <1>1, NoneApart DEF Moves, RequestsTypeOK

\* A request that ends leaves the others alone.
LEMMA EndsTypes ==
    ASSUME RequestsTypeOK, NEW d \in Customer, Ends(d)
    PROVE  /\ request' \in [Customer -> Request \cup {None}]
           /\ request'[d] = None
           /\ \A e \in Customer : e # d => request'[e] = request[e]
BY DEF Ends, RequestsTypeOK

\* A download is recorded with its type, behind the earlier ones.
LEMMA Recorded ==
    ASSUME RequestsTypeOK, NEW p \in StoredProof, NEW k \in Artifact,
           record_download_event(p, k)
    PROVE  /\ downloads' \in Seq(Download)
           /\ Len(downloads') = Len(downloads) + 1
           /\ Len(downloads) \in Nat
           /\ \A i \in 1..Len(downloads) : downloads'[i] = downloads[i]
           /\ downloads'[Len(downloads) + 1] =
                 [version |-> p.version, kind |-> k, stamp |-> p.stamp,
                  att |-> p.att]
<1> DEFINE e == [version |-> p.version, kind |-> k, stamp |-> p.stamp,
                 att |-> p.att]
<1>1. e \in Download
  BY DEF StoredProof, Download
<1>2. downloads \in Seq(Download) /\ downloads' = Append(downloads, e)
  BY DEF RequestsTypeOK, record_download_event
<1> HIDE DEF e
<1>3. /\ downloads' \in Seq(Download)
      /\ Len(downloads') = Len(downloads) + 1
      /\ Len(downloads) \in Nat
      /\ \A i \in 1..Len(downloads) : downloads'[i] = downloads[i]
      /\ downloads'[Len(downloads) + 1] = e
  BY <1>1, <1>2, AppendProperties, LenProperties
<1>4. QED BY <1>3 DEF e

\* An answer has its type.
LEMMA AnswerTypes ==
    ASSUME NEW status, NEW state, NEW v, NEW b,
           status \in {200, 503}, state \in FulfillmentState, v \in Nat,
           b \in BOOLEAN, Tells(status, state, v, b)
    PROVE  told' \in Status
BY DEF Tells, Status

\* The kinds of a request's step, by what becomes of the request: it begins or
\* goes on with a typed proof, ends with or without a download, or tells.
Goes(d) ==
    \E step \in {"lock", "build", "relock", "proof", "bundle"},
       state \in FulfillmentState, p \in StoredProof \cup {None} :
        /\ Moves(d, step, state, p)
        /\ step \in {"lock", "relock"} => token
        /\ step \in {"build", "relock", "bundle"} => p \in StoredProof
Downloads(d) ==
    \E p \in StoredProof, k \in Artifact :
        /\ record_download_event(p, k)
        /\ On(d, "lock") \/ On(d, "relock")
        /\ p.version = Version
        /\ proofs[Version] = [stamp |-> p.stamp, att |-> p.att]
        /\ k = "persisted_verified" =>
              IsVerified(Version) /\ IsObserved(Version) /\ Version \in bundles

\* proof_bundle and order_status as such steps.
LEMMA CustomerGoes ==
    ASSUME TypeOK, CustomerInv, NEW d \in Customer, CustomerStep(d)
    PROVE  /\ Goes(d) \/ Ends(d) \/ UNCHANGED request
           /\ Downloads(d) \/ UNCHANGED downloads
           /\ told' \in Status \/ UNCHANGED told
           /\ UNCHANGED <<token, sender>>
<1> USE DEF CustomerInv
<1>0. /\ request[d] \in Request \cup {None} /\ fulfillment \in FulfillmentState
      /\ HasSelection(d)
      /\ \A state : LatestFor(state) # None => LatestFor(state) \in StoredProof
  BY LatestForIsStored DEF RequestsTypeOK, TypeOK, RequestsReady
<1>1. request[d] # None => request[d].state \in FulfillmentState
  BY <1>0 DEF Request
<1>b. PICK yes, no : yes = TRUE /\ no = FALSE
  OBVIOUS
<1>c. yes \in BOOLEAN /\ no \in BOOLEAN
  BY <1>b
<1>2. CASE proof_bundle(d)
  <2>1. Goes(d)
    BY <1>0, <1>2 DEF proof_bundle, authenticate, Goes
  <2>2. QED BY <1>2, <2>1 DEF proof_bundle
<1>3. CASE select_verified(d)
  <2> DEFINE p == LatestFor(request[d].state)
  <2>1. /\ p \in StoredProof /\ p.version = Version
        /\ proofs[Version] = [stamp |-> p.stamp, att |-> p.att]
        /\ IsVerified(Version) /\ IsObserved(Version) /\ Version \in bundles
    BY <1>3, LatestForIsStored DEF select_verified, Served
  <2>2. record_download_event(p, "persisted_verified") /\ On(d, "lock")
    BY <1>3 DEF select_verified
  <2> HIDE DEF p
  <2>3. Downloads(d)
    BY <2>1, <2>2 DEF Downloads, Artifact
  <2>4. QED BY <1>3, <2>3 DEF select_verified
<1>4. CASE select_pending(d)
  <2> DEFINE p == LatestFor(request[d].state)
  <2>1. p \in StoredProof /\ request[d].state \in FulfillmentState
    BY <1>0, <1>1, <1>4 DEF select_pending, On
  <2>2. Moves(d, "build", request[d].state, p)
    BY <1>4 DEF select_pending
  <2> HIDE DEF p
  <2>3. Goes(d)
    BY <2>1, <2>2 DEF Goes
  <2>4. QED BY <1>4, <2>3 DEF select_pending
<1>5. CASE select_refused(d) \/ download_fails(d)
  BY <1>5 DEF select_refused, download_fails
<1>6. CASE build(d)
  <2>1. request[d].proof \in StoredProof
    BY <1>0, <1>6 DEF build, HasSelection
  <2>2. Goes(d)
    BY <1>0, <1>6, <2>1 DEF build, Reauthenticates, authenticate, Goes
  <2>3. QED BY <1>6, <2>2 DEF build
<1>7. CASE record_pending(d)
  <2>1. request[d].proof \in StoredProof
    BY <1>0, <1>7 DEF record_pending, HasSelection
  <2>2. Downloads(d)
    BY <1>7, <2>1 DEF record_pending, SelectionIsCurrent, Downloads, Artifact
  <2>3. QED BY <1>7, <2>2 DEF record_pending
<1>8. CASE order_status(d)
  <2>1. CASE fulfillment \in HasProof
    <3>1. Goes(d)
      BY <1>0, <1>8, <2>1 DEF order_status, Goes
    <3>2. QED BY <1>8, <2>1, <3>1 DEF order_status
  <2>2. CASE fulfillment \notin HasProof
    <3>1. told' \in Status
      <4>1. Tells(200, fulfillment, 0, no)
        BY <1>b, <1>8, <2>2 DEF order_status
      <4>2. QED BY <1>0, <4>1, <1>c, AnswerTypes
    <3>2. QED BY <1>8, <2>2, <3>1 DEF order_status
  <2>3. QED BY <2>1, <2>2
<1>9. CASE status_proof(d)
  <2> DEFINE state == request[d].state
             p == LatestFor(state)
  <2>1. state \in FulfillmentState
    BY <1>1, <1>9 DEF status_proof, On
  <2>2. CASE ~Fits(state, p)
    <3>1. told' \in Status /\ Ends(d)
      <4>1. Tells(503, state, 0, no) /\ Ends(d)
        BY <1>b, <1>9, <2>2 DEF status_proof, Unavailable
      <4>2. QED BY <2>1, <4>1, <1>c, AnswerTypes
    <3>2. QED BY <1>9, <3>1 DEF status_proof
  <2>3. CASE Fits(state, p)
    <3>1. p \in StoredProof
      BY <1>0, <2>3 DEF Fits
    <3>2. p.version \in Nat
      BY <3>1 DEF StoredProof
    <3>3. \/ Tells(200, state, p.version, yes) /\ Ends(d)
          \/ Moves(d, "bundle", state, p) /\ UNCHANGED told
      BY <1>b, <1>9, <2>3 DEF status_proof
    <3> HIDE DEF p, state
    <3>4. CASE Tells(200, state, p.version, yes) /\ Ends(d)
      <4>1. told' \in Status
        BY <2>1, <3>2, <3>4, <1>c, AnswerTypes
      <4>2. QED BY <1>9, <3>4, <4>1 DEF status_proof
    <3>5. CASE Moves(d, "bundle", state, p) /\ UNCHANGED told
      <4>1. Goes(d)
        BY <2>1, <3>1, <3>5 DEF Goes
      <4>2. QED BY <1>9, <3>5, <4>1 DEF status_proof
    <3>6. QED BY <3>3, <3>4, <3>5
  <2>4. QED BY <2>2, <2>3
<1>10. CASE status_bundle(d)
  <2>1. request[d].state \in FulfillmentState /\ request[d].proof \in StoredProof
    BY <1>0, <1>1, <1>10 DEF status_bundle, On, HasSelection
  <2>2. request[d].proof.version \in Nat
    BY <2>1 DEF StoredProof
  <2>3. PICK b : b = Available(request[d].proof)
    OBVIOUS
  <2>4. b \in BOOLEAN
    BY <2>3 DEF Available
  <2>5. \/ Tells(503, request[d].state, 0, no)
        \/ Tells(200, request[d].state, request[d].proof.version, b)
    BY <1>b, <1>10, <2>3, Zenon DEF status_bundle, Unavailable
  <2>6. told' \in Status
    BY <2>1, <2>2, <2>4, <2>5, <1>c, AnswerTypes
  <2>7. QED BY <1>10, <2>6 DEF status_bundle
<1>11. QED
  BY <1>2, <1>3, <1>4, <1>5, <1>6, <1>7, <1>8, <1>9, <1>10
  DEF CustomerStep, DownloadStep, StatusStep

-----------------------------------------------------------------------------
(* Downloads are current and backed.                                       *)

Evident(v) == IsVerified(v) /\ IsObserved(v) /\ v \in bundles

\* Evidence is never taken back.
LEMMA EvidenceKept ==
    ASSUME IInv, [Next]_vars, NEW v, Evident(v)
    PROVE  Evident(v)'
<1>1. Grown
  BY RowsGrow DEF IInv
<1>2. QED BY <1>1 DEF Grown, Evident, IsVerified, IsObserved

\* A step that records no download leaves the earlier ones backed, and one that
\* does records one that is.
LEMMA BackedStep ==
    ASSUME IInv, CustomerInv, [Next]_vars,
           UNCHANGED downloads \/ \E d \in Customer : Downloads(d)
    PROVE  downloads' \in Seq(Download) /\ VerifiedDownloadsAreBacked'
<1> DEFINE EvidentThen(v) == /\ \E x \in verifications' : x.version = v
                             /\ \E x \in observations' : x.version = v
                             /\ v \in bundles'
<1> SUFFICES /\ downloads' \in Seq(Download)
             /\ \A i \in 1..Len(downloads') :
                   downloads'[i].kind = "persisted_verified" =>
                      EvidentThen(downloads'[i].version)
  BY DEF VerifiedDownloadsAreBacked, IsVerified, IsObserved
<1>1. /\ downloads \in Seq(Download) /\ Len(downloads) \in Nat
      /\ \A i \in 1..Len(downloads) :
            downloads[i].kind = "persisted_verified" =>
               Evident(downloads[i].version)
  BY DEF CustomerInv, RequestsTypeOK, VerifiedDownloadsAreBacked, Evident
<1>2. \A v : Evident(v) => EvidentThen(v)
  BY EvidenceKept DEF Evident, IsVerified, IsObserved
<1> HIDE DEF EvidentThen
<1>3. CASE UNCHANGED downloads
  BY <1>1, <1>2, <1>3
<1>4. ASSUME NEW d \in Customer, Downloads(d)
      PROVE  /\ downloads' \in Seq(Download)
             /\ \A i \in 1..Len(downloads') :
                   downloads'[i].kind = "persisted_verified" =>
                      EvidentThen(downloads'[i].version)
  <2>1. PICK p \in StoredProof, k \in Artifact :
           /\ record_download_event(p, k)
           /\ p.version = Version
           /\ k = "persisted_verified" => Evident(Version)
    BY <1>4 DEF Downloads, Evident
  <2>2. /\ downloads' \in Seq(Download)
        /\ Len(downloads') = Len(downloads) + 1
        /\ \A i \in 1..Len(downloads) : downloads'[i] = downloads[i]
        /\ downloads'[Len(downloads) + 1] =
              [version |-> p.version, kind |-> k, stamp |-> p.stamp,
               att |-> p.att]
    BY <2>1, Recorded DEF CustomerInv
  <2>3. \A i \in 1..Len(downloads') :
           i \in 1..Len(downloads) \/ i = Len(downloads) + 1
    BY <1>1, <2>2
  <2>4. ASSUME NEW i \in 1..Len(downloads'),
               downloads'[i].kind = "persisted_verified"
        PROVE  Evident(downloads'[i].version)
    BY <1>1, <2>1, <2>2, <2>3, <2>4
  <2>5. QED BY <1>2, <2>2, <2>4
<1>5. QED BY <1>3, <1>4

\* Where the token is as it was, the requests that a step leaves alone are ready
\* still, and one that goes on is.
LEMMA ReadyOn ==
    ASSUME CustomerInv, NEW d \in Customer, UNCHANGED token,
           Goes(d) \/ Ends(d) \/ UNCHANGED request
    PROVE  request' \in [Customer -> Request \cup {None}] /\ RequestsReady'
<1>1. RequestsTypeOK /\ RequestsReady
  BY DEF CustomerInv
<1>2. ASSUME NEW e \in Customer, request'[e] = request[e]
      PROVE  (Authorized(e) /\ HasSelection(e))'
  BY <1>1, <1>2 DEF RequestsReady, Authorized, HasSelection, On
<1>3. CASE UNCHANGED request
  BY <1>1, <1>2, <1>3 DEF RequestsTypeOK, RequestsReady
<1>4. CASE Ends(d)
  <2>1. (Authorized(d) /\ HasSelection(d))'
    BY <1>1, <1>4, EndsTypes DEF Authorized, HasSelection, On
  <2>2. QED BY <1>1, <1>2, <1>4, <2>1, EndsTypes DEF RequestsReady
<1>5. CASE Goes(d)
  <2>1. PICK step \in {"lock", "build", "relock", "proof", "bundle"},
             state \in FulfillmentState, p \in StoredProof \cup {None} :
          /\ Moves(d, step, state, p)
          /\ step \in {"lock", "relock"} => token
          /\ step \in {"build", "relock", "bundle"} => p \in StoredProof
    BY <1>5 DEF Goes
  <2>2. /\ request' \in [Customer -> Request \cup {None}]
        /\ request'[d] = [step |-> step, state |-> state, proof |-> p]
        /\ \A e \in Customer : e # d => request'[e] = request[e]
    BY <1>1, <2>1, MovesTypes
  <2>3. (Authorized(d) /\ HasSelection(d))'
    BY <2>1, <2>2 DEF Authorized, HasSelection, On
  <2>4. QED BY <1>2, <2>2, <2>3 DEF RequestsReady
<1>6. QED BY <1>3, <1>4, <1>5

\* Every step keeps what holds of requests and downloads.
LEMMA StepCustomer ==
    ASSUME IInv, CustomerInv, [AllNext]_all_vars
    PROVE  CustomerInv'
<1>0. /\ TypeOK /\ [Next]_vars /\ Version \in Nat
      /\ RequestsTypeOK /\ RequestsReady
  <2>1. TypeOK /\ [Next]_vars /\ RequestsTypeOK /\ RequestsReady
    BY HandlersStep DEF IInv, CustomerInv
  <2>2. QED BY <2>1 DEF TypeOK, Version
<1>1. ASSUME NEW d \in Customer, CustomerStep(d)
      PROVE  CustomerInv'
  <2>1. /\ Goes(d) \/ Ends(d) \/ UNCHANGED request
        /\ Downloads(d) \/ UNCHANGED downloads
        /\ told' \in Status \/ UNCHANGED told
        /\ UNCHANGED <<token, sender>>
    BY <1>0, <1>1, CustomerGoes
  <2>2. request' \in [Customer -> Request \cup {None}] /\ RequestsReady'
    BY <2>1, ReadyOn
  <2>3. downloads' \in Seq(Download) /\ VerifiedDownloadsAreBacked'
    BY <1>0, <2>1, BackedStep
  <2>4. RequestsTypeOK'
    BY <1>0, <2>1, <2>2, <2>3 DEF RequestsTypeOK
  <2>5. QED BY <2>2, <2>3, <2>4 DEF CustomerInv
<1>2. CASE FulfillmentStep \/ UNCHANGED all_vars
  <2>1. /\ UNCHANGED <<token, downloads, request, told>>
        /\ sender' \in {sender, Version}
    BY <1>2 DEF FulfillmentStep, all_vars, customer_vars
  <2>2. VerifiedDownloadsAreBacked'
    BY <1>0, <2>1, BackedStep
  <2>3. RequestsReady'
    BY <1>0, <2>1 DEF RequestsReady, Authorized, HasSelection, On
  <2>4. RequestsTypeOK'
    BY <1>0, <2>1 DEF RequestsTypeOK
  <2>5. QED BY <2>2, <2>3, <2>4 DEF CustomerInv
<1>3. CASE token_revoked
  <2>1. /\ UNCHANGED <<sender, downloads, request, told>>
        /\ TokenFree /\ token' \in BOOLEAN
    BY <1>3 DEF token_revoked
  <2>2. VerifiedDownloadsAreBacked'
    BY <1>0, <2>1, BackedStep
  <2>3. RequestsReady'
    BY <1>0, <2>1 DEF RequestsReady, Authorized, HasSelection, On, TokenFree
  <2>4. RequestsTypeOK'
    BY <1>0, <2>1 DEF RequestsTypeOK
  <2>5. QED BY <2>2, <2>3, <2>4 DEF CustomerInv
<1>4. QED
  BY <1>1, <1>2, <1>3 DEF AllNext, CustomerStep

\* Nobody has asked for anything yet.
LEMMA InitCustomer == CustomersInit => CustomerInv
<1> SUFFICES ASSUME CustomersInit PROVE CustomerInv
  OBVIOUS
<1>1. downloads = <<>> /\ downloads \in Seq(Download) /\ Len(downloads) = 0
  BY DEF CustomersInit
<1>2. \A d \in Customer : request[d] = None
  BY DEF CustomersInit
<1>3. RequestsTypeOK
  BY <1>1 DEF CustomersInit, RequestsTypeOK
<1>4. RequestsReady
  BY <1>2 DEF RequestsReady, Authorized, HasSelection, On
<1>5. QED BY <1>1, <1>3, <1>4 DEF CustomerInv, VerifiedDownloadsAreBacked

\* The handlers' invariant holds beside the requests.
THEOREM DownloadInvariance == AllSpec => [](IInv /\ CustomerInv)
<1>1. AllInit => IInv /\ CustomerInv
  BY InitIInv, InitCustomer DEF AllInit
<1>2. IInv /\ CustomerInv /\ [AllNext]_all_vars => (IInv /\ CustomerInv)'
  BY HandlersStep, StepIInv, StepCustomer
<1>3. QED BY <1>1, <1>2, PTL DEF AllSpec

\* What leaves as verified is of a version with its verification, an observation
\* and a stored bundle, however many attempts and requests overlap and however
\* stale the order is that select_verified was shown (proof_bundle).
THEOREM DownloadsBacked == AllSpec => []VerifiedDownloadsAreBacked
<1>1. IInv /\ CustomerInv => VerifiedDownloadsAreBacked
  BY DEF CustomerInv
<1>2. QED BY DownloadInvariance, <1>1, PTL

\* Every download is of the proof that is the latest when it is recorded, under
\* a token that is valid then: proof_bundle's second transaction refuses what an
\* upgrade or a rotation made stale while the bundle was built.
THEOREM DownloadsCurrent == AllSpec => DownloadsAreCurrent
<1> DEFINE Current == downloads' # downloads => LeavesCurrent /\ token
<1>1. IInv /\ CustomerInv /\ [AllNext]_all_vars => [Current]_all_vars
  <2> SUFFICES ASSUME IInv, CustomerInv, [AllNext]_all_vars,
                      downloads' # downloads
               PROVE  LeavesCurrent /\ token
    BY DEF all_vars
  <2>1. PICK d \in Customer : CustomerStep(d)
    BY DEF AllNext, CustomerStep, FulfillmentStep, token_revoked, all_vars,
       customer_vars
  <2>2. Downloads(d)
    BY <2>1, CustomerGoes DEF IInv
  <2>3. PICK p \in StoredProof, k \in Artifact :
          /\ record_download_event(p, k)
          /\ On(d, "lock") \/ On(d, "relock")
          /\ p.version = Version
          /\ proofs[Version] = [stamp |-> p.stamp, att |-> p.att]
    BY <2>2 DEF Downloads
  <2>4. downloads'[Len(downloads')] =
          [version |-> p.version, kind |-> k, stamp |-> p.stamp, att |-> p.att]
    BY <2>3, Recorded DEF CustomerInv
  <2>5. LeavesCurrent
    BY <2>3, <2>4 DEF LeavesCurrent
  <2>6. token
    BY <2>3 DEF CustomerInv, RequestsReady, Authorized
  <2>7. QED BY <2>5, <2>6
<1>2. QED
  BY DownloadInvariance, <1>1, PTL DEF AllSpec, DownloadsAreCurrent

-----------------------------------------------------------------------------
(* One attempt at a time: the order.                                       *)

OneAttempt == \A q, r \in Run : q = r

\* The order was notified of, or is with a human.
PastDelivery == {"delivered", "manual_review"}

\* How a step moves the order, and on what grounds.
LEMMA OrderMoved ==
    ASSUME IInv, LifeInv, StatusInv, [Next]_vars
    PROVE  \/ UNCHANGED fulfillment
           \/ fulfillment' = "stamping" /\ fulfillment = "queued"
           \/ /\ fulfillment' = "calendar_pending" /\ fulfillment = "stamping"
              /\ proofs # <<>>
           \/ /\ fulfillment' = "manual_review"
              /\ \E r \in Run : terminal_failure(r)
           \/ /\ fulfillment' = "bitcoin_verified"
              /\ \E r \in Run : verified(r)
           \/ apply_delivered_event
<1> USE DEF IInv
<1> DEFINE Goal ==
      \/ UNCHANGED fulfillment
      \/ fulfillment' = "stamping" /\ fulfillment = "queued"
      \/ /\ fulfillment' = "calendar_pending" /\ fulfillment = "stamping"
         /\ proofs # <<>>
      \/ /\ fulfillment' = "manual_review"
         /\ \E r \in Run : terminal_failure(r)
      \/ /\ fulfillment' = "bitcoin_verified"
         /\ \E r \in Run : verified(r)
      \/ apply_delivered_event
<1>1. ASSUME NEW r \in Run, NEW target, NEW key, NEW time, NEW next,
             transition_fulfillment_once(r, target, key, time, next)
      PROVE  \/ UNCHANGED fulfillment
             \/ /\ fulfillment' = target
                /\ <<fulfillment, target>> \in FulfillmentTransitions
  BY <1>1 DEF transition_fulfillment_once, Accepts, MayBecome
<1>2. ASSUME NEW r \in Run, TransitionStep(r)
      PROVE  Goal
  <2>1. CASE replay_start(r) \/ start(r) \/ response(r)
    <3>1. \/ UNCHANGED fulfillment
          \/ /\ fulfillment' = "stamping"
             /\ <<fulfillment, "stamping">> \in FulfillmentTransitions
      BY <1>1, <2>1 DEF replay_start, start, response
    <3>2. QED BY <3>1 DEF FulfillmentTransitions
  <2>2. CASE replay_end(r) \/ persisted(r)
    <3>1. \/ UNCHANGED fulfillment
          \/ /\ fulfillment' = "calendar_pending"
             /\ <<fulfillment, "calendar_pending">> \in FulfillmentTransitions
      BY <1>1, <2>2 DEF replay_end, persisted
    <3>2. IsStored(seen[r])
      BY <2>2 DEF replay_end, persisted, At, RunsReady, Ready, HoldsProof,
         HoldsStored
    <3>3. proofs # <<>>
      BY <3>2 DEF IsStored, Version
    <3>4. QED BY <3>1, <3>3 DEF FulfillmentTransitions
  <2>3. CASE verified(r)
    BY <1>1, <2>3 DEF verified
  <2>4. CASE reverified(r)
    <3>1. \/ UNCHANGED fulfillment
          \/ /\ fulfillment' = snap[r].fulfillment
             /\ <<fulfillment, snap[r].fulfillment>> \in FulfillmentTransitions
      BY <1>1, <2>4 DEF reverified
    <3>2. /\ snap[r] # None
          /\ snap[r].fulfillment \in Confirmed
          /\ fulfillment \in PastPending
      BY <2>4 DEF reverified, At, LifeInv, Knows, KnowsOrder, Loading, Returned,
         PastPending, Confirmed
    <3>3. snap[r].fulfillment = "delivered" => fulfillment \in PastDelivery
      BY <3>2 DEF StatusInv, Attends, PastDelivery
    <3>4. QED
      BY <3>1, <3>2, <3>3 DEF FulfillmentTransitions, Confirmed, PastPending,
         PastDelivery
  <2>5. QED BY <1>2, <2>1, <2>2, <2>3, <2>4 DEF TransitionStep
<1>3. ASSUME NEW r \in Run, RunStep(r), ~TransitionStep(r)
      PROVE  Goal
  <2>1. CASE terminal_failure(r)
    BY <2>1 DEF terminal_failure
  <2>2. CASE ~terminal_failure(r)
    <3> USE DEF order_vars, TransitionStep
    <3>1. CASE StampStep(r)
      BY <1>3, <3>1 DEF StampStep, submit
    <3>2. CASE ProofStep(r)
      BY <3>2 DEF ProofStep, append, append_conflict, calendars_fail
    <3>3. CASE UpgradeStep(r)
      BY <1>3, <3>3 DEF UpgradeStep, upgrade, put_verified_once, after
    <3>4. CASE VerifierStep(r)
      BY <3>4 DEF VerifierStep, verifier_fails, not_confirmed,
         verify_exact_digest
    <3>5. CASE NoticeStep(r)
      BY <3>5 DEF NoticeStep, get_verified, latest_observation, put_once,
         record_once, enqueue_notice
    <3>6. CASE QueueStep(r)
      BY <3>6 DEF QueueStep, claim, load, latest, spawn, poll
    <3>7. CASE EndStep(r)
      BY <2>2, <3>7 DEF EndStep, finish, retry, escalate, lease_expires,
         last_lease_expires, stop
    <3>8. QED
      BY <1>3, <3>1, <3>2, <3>3, <3>4, <3>5, <3>6, <3>7 DEF RunStep
  <2>3. QED BY <2>1, <2>2
<1>4. CASE Environment
  BY <1>4 DEF Environment, operator_reverify, operator_upgrade,
     payment_returned, mine, reorganize, order_vars
<1>5. CASE UNCHANGED vars
  BY <1>5 DEF vars
<1>6. QED BY <1>2, <1>3, <1>4, <1>5 DEF Next

\* An order that is past calendar_pending gets no further version.
LEMMA ProofsFrozen ==
    ASSUME IInv, LifeInv, StatusInv, [Next]_vars, fulfillment \in PastPending
    PROVE  UNCHANGED proofs /\ fulfillment' \in PastPending
<1>1. ASSUME NEW r \in Run, append(r)
      PROVE  FALSE
  <2>1. fulfillment \in Early
    BY <1>1 DEF append, At, StatusInv, Attends, Appending
  <2>2. QED BY <2>1 DEF Early, PastPending
<1>2. UNCHANGED proofs
  BY <1>1, EvidenceChanges DEF EvidenceStep, evidence_vars, put_verified_once,
     record_once, put_once, enqueue_notice
<1>3. QED BY <1>2, OrderNeverReturns DEF Advanced

\* What was read of the order in some state stays true.
LEMMA GroundedKept ==
    ASSUME IInv, LifeInv, StatusInv, [Next]_vars, sender' \in {sender, Version},
           NEW state, Grounded(state)
    PROVE  Grounded(state)'
<1>1. Grown /\ TypeOK /\ TypeOK'
  BY RowsGrow, TypeStep DEF IInv
<1>2. proofs # <<>> => proofs' # <<>>
  <2>1. /\ proofs \in Seq(Bytes) /\ proofs' \in Seq(Bytes)
        /\ Len(proofs) <= Len(proofs')
    BY <1>1 DEF TypeOK, Grown, Version
  <2>2. QED BY <2>1
<1>3. CASE state \notin Confirmed
  BY <1>2, <1>3 DEF Grounded, Confirmed
<1>4. CASE state \in Confirmed
  <2>1. UNCHANGED proofs /\ fulfillment' \in PastPending
    BY <1>4, ProofsFrozen DEF Grounded
  <2>2. Version' = Version
    BY <2>1 DEF Version
  <2>3. Backed'
    <3>1. Backed
      BY <1>4 DEF Grounded
    <3>2. QED
      BY <1>1, <2>2, <3>1 DEF Backed, Grown, IsVerified, IsObserved
  <2>4. state = "delivered" => Sent'
    <3>1. state = "delivered" => Sent
      BY DEF Grounded
    <3>2. Sent => Sent'
      BY <1>1, <2>2 DEF Sent, Grown
    <3>3. QED BY <3>1, <3>2
  <2>5. QED BY <1>2, <2>1, <2>3, <2>4 DEF Grounded
<1>5. QED BY <1>3, <1>4

\* The order itself shows what its state says.
LEMMA OrderGrounded ==
    ASSUME IInv, LifeInv, StatusInv, [Next]_vars, sender' \in {sender, Version},
           fulfillment # "delivered" /\ fulfillment' = "delivered" =>
              sender' = Version
    PROVE  Grounded(fulfillment)'
<1> USE DEF HasProof, Confirmed
<1>0. Grounded(fulfillment) /\ TypeOK
  BY DEF StatusInv, IInv
<1>1. CASE UNCHANGED fulfillment
  <2>1. PICK state : state = fulfillment
    OBVIOUS
  <2>2. Grounded(state)'
    BY <1>0, <2>1, GroundedKept
  <2>3. QED BY <1>1, <2>1, <2>2 DEF Grounded
<1>2. CASE fulfillment' \in {"stamping", "manual_review"}
  BY <1>2 DEF Grounded
<1>3. CASE fulfillment' = "calendar_pending" /\ proofs # <<>>
  <2>1. Grounded("calendar_pending")
    BY <1>3 DEF Grounded
  <2>2. Grounded("calendar_pending")'
    BY <2>1, GroundedKept
  <2>3. QED BY <1>3, <2>2 DEF Grounded
<1>4. ASSUME NEW r \in Run, verified(r), fulfillment' = "bitcoin_verified"
      PROVE  Grounded(fulfillment)'
  <2>1. Backed
    BY <1>4 DEF verified, At, StatusInv, Attends
  <2>2. proofs # <<>>
    <3>1. PICK x \in verifications : x.version = Version
      BY <2>1 DEF Backed, IsVerified
    <3>2. x.version \in 1..Len(proofs)
      BY <1>0 DEF TypeOK
    <3>3. QED BY <3>1, <3>2
  <2>3. UNCHANGED <<proofs, verifications, observations>>
    BY <1>4 DEF verified, transition_fulfillment_once, evidence_vars
  <2>4. QED
    BY <1>4, <2>1, <2>2, <2>3 DEF Grounded, PastPending, Backed, Version,
       IsVerified, IsObserved
<1>5. CASE apply_delivered_event
  <2>1. /\ fulfillment = "bitcoin_verified" /\ fulfillment' = "delivered"
        /\ UNCHANGED <<proofs, verifications, observations, bundles, outbox>>
        /\ Backed /\ Version \in bundles
        /\ \E m \in outbox : m.kind = "initial" /\ m.version = Version
    BY <1>5 DEF apply_delivered_event, evidence_vars, Backed
  <2>2. sender' = Version /\ proofs # <<>>
    BY <1>0, <2>1 DEF Grounded
  <2>3. Backed' /\ Sent'
    BY <2>1, <2>2 DEF Backed, Sent, Version, IsVerified, IsObserved
  <2>4. QED BY <2>1, <2>2, <2>3 DEF Grounded, PastPending
<1>6. QED BY <1>1, <1>2, <1>3, <1>4, <1>5, OrderMoved

-----------------------------------------------------------------------------
(* One attempt at a time: the run.                                         *)

\* A run that leaves its handler, or goes to a step that presupposes nothing.
LEMMA ElseAttends ==
    ASSUME IInv, LifeInv, StatusInv, [Next]_vars, NEW r \in Run,
           pc'[r] \notin Appending \cup {"latest", "verified"},
           snap'[r] \in {snap[r], None}
    PROVE  Attends(r)'
<1>1. fulfillment \in PastDelivery => fulfillment' \in PastDelivery
  BY OrderAdvances DEF PastDelivery, OrderMoves
<1>2. Attends(r)
  BY DEF StatusInv
<1>3. QED BY <1>1, <1>2 DEF Attends, PastDelivery

\* A run that keeps its locals while the order and the evidence are kept.
LEMMA StillAttends ==
    ASSUME NEW r \in Run, Attends(r),
           UNCHANGED <<proofs, verifications, observations>>,
           pc'[r] = pc[r], snap'[r] = snap[r],
           fulfillment' = fulfillment \/ apply_delivered_event
    PROVE  Attends(r)'
<1>1. fulfillment \in Early => fulfillment' \in Early
  BY DEF apply_delivered_event, Early
<1>2. fulfillment \in PastDelivery => fulfillment' \in PastDelivery
  BY DEF apply_delivered_event, PastDelivery
<1>3. Backed => Backed'
  BY DEF Backed, Version, IsVerified, IsObserved
<1>4. QED BY <1>1, <1>2, <1>3 DEF Attends, PastDelivery

\* The steps that lead to one where the run may append.
AppendingStep(r) == latest(r) \/ start(r) \/ submit(r) \/ upgrade(r) \/ append(r)

\* Where the other steps lead.
LEMMA ElseGoes ==
    ASSUME TypeOK, NEW r \in Run, RunStep(r),
           ~AppendingStep(r), ~load(r), ~record_once(r), ~lease_expires(r),
           ~last_lease_expires(r)
    PROVE  /\ pc'[r] \notin Appending \cup {"latest", "verified"}
           /\ snap'[r] \in {snap[r], None}
<1>0. pc \in [Run -> Steps] /\ snap \in [Run -> Snapshot \cup {None}]
  BY DEF TypeOK
<1> USE DEF AppendingStep, Appending, Go
<1>1. CASE StampStep(r)
  BY <1>0, <1>1 DEF StampStep, replay_start, replay_end, response, persisted,
     transition_fulfillment_once
<1>2. CASE ProofStep(r)
  BY <1>0, <1>2 DEF ProofStep, append_conflict, calendars_fail, AfterAppend
<1>3. CASE UpgradeStep(r)
  BY <1>0, <1>3 DEF UpgradeStep, put_verified_once, verified, reverified, after,
     transition_fulfillment_once
<1>4. CASE VerifierStep(r)
  BY <1>0, <1>4 DEF VerifierStep, verifier_fails, not_confirmed,
     verify_exact_digest, VerifiedGoes
<1>5. CASE NoticeStep(r)
  BY <1>0, <1>5 DEF NoticeStep, get_verified, latest_observation, put_once,
     enqueue_notice
<1>6. CASE QueueStep(r)
  BY <1>0, <1>6 DEF QueueStep, claim, spawn, poll, Dispatch
<1>7. CASE EndStep(r)
  BY <1>0, <1>7 DEF EndStep, finish, retry, escalate, terminal_failure, stop,
     Leave
<1>8. QED BY <1>1, <1>2, <1>3, <1>4, <1>5, <1>6, <1>7 DEF RunStep

\* The order is still early when the run comes to a step where it may append.
LEMMA AppendingAttends ==
    ASSUME IInv, LifeInv, StatusInv, [Next]_vars, NEW r \in Run,
           AppendingStep(r)
    PROVE  Attends(r)'
<1>0. /\ pc \in [Run -> Steps] /\ snap \in [Run -> Snapshot \cup {None}]
      /\ Attends(r)
  BY DEF IInv, TypeOK, StatusInv
<1>1. fulfillment \in PastDelivery => fulfillment' \in PastDelivery
  BY OrderAdvances DEF PastDelivery, OrderMoves
<1> USE DEF Go, At
<1>2. CASE latest(r)
  <2> DEFINE next == HandlerGoes(kind[r], snap[r], latest_for_order)
  <2>1. /\ pc[r] = "latest" /\ pc'[r] = next /\ UNCHANGED fulfillment
        /\ snap'[r] \in {snap[r], None}
    BY <1>0, <1>2 DEF latest, order_vars
  <2>2. next \in Appending => snap[r].fulfillment \in Early
    BY DEF HandlerGoes, StampGoes, UpgradeGoes, DeliveryGoes, ConfirmationGoes,
       Appending, Early
  <2>3. next \notin {"latest", "verified"}
    BY DEF HandlerGoes, StampGoes, UpgradeGoes, DeliveryGoes, ConfirmationGoes
  <2> HIDE DEF next
  <2>4. QED BY <1>0, <1>1, <2>1, <2>2, <2>3 DEF Attends, PastDelivery
<1>3. CASE start(r) \/ submit(r) \/ upgrade(r) \/ append(r)
  <2>1. pc[r] \in Appending
    BY <1>3 DEF start, submit, upgrade, append, Appending
  <2>2. /\ fulfillment' \in {fulfillment, "stamping"}
        /\ snap'[r] = snap[r]
    BY <1>3 DEF start, submit, upgrade, append, transition_fulfillment_once,
       order_vars
  <2>3. pc'[r] \notin {"latest", "verified"}
    BY <1>0, <1>3 DEF start, submit, upgrade, append, AfterAppend,
       transition_fulfillment_once
  <2>4. QED BY <1>0, <1>1, <2>1, <2>2, <2>3 DEF Attends, Early, PastDelivery
<1>4. QED BY <1>2, <1>3 DEF AppendingStep

\* The only attempt knows at each step what it relies on.
LEMMA StepAttends ==
    ASSUME OneAttempt, IInv, LifeInv, StatusInv, [Next]_vars, NEW q \in Run
    PROVE  Attends(q)'
<1>0. TypeOK /\ Attends(q)
  BY DEF IInv, StatusInv
<1>1. CASE Environment \/ UNCHANGED vars
  <2>1. /\ UNCHANGED <<proofs, verifications, observations, pc, snap>>
        /\ fulfillment' = fulfillment \/ apply_delivered_event
    BY <1>1 DEF Environment, operator_reverify, operator_upgrade,
       payment_returned, apply_delivered_event, mine, reorganize, order_vars,
       evidence_vars, run_vars, vars
  <2>2. QED BY <1>0, <2>1, StillAttends
<1>2. ASSUME RunStep(q)
      PROVE  Attends(q)'
  <2>0. pc \in [Run -> Steps] /\ snap \in [Run -> Snapshot \cup {None}]
    BY <1>0 DEF TypeOK
  <2>1. CASE AppendingStep(q)
    BY <2>1, AppendingAttends
  <2>2. CASE load(q)
    <3>1. /\ pc'[q] \in {"manual", "latest"} /\ UNCHANGED fulfillment
          /\ snap'[q].fulfillment = fulfillment
      BY <2>0, <2>2 DEF load, Go, order_vars
    <3>2. QED BY <3>1 DEF Attends, Appending
  <2>3. CASE record_once(q)
    <3>1. /\ UNCHANGED <<fulfillment, proofs, verifications>>
          /\ snap'[q] = snap[q]
          /\ pc'[q] \in {"poll", "notice", "verified", "reverified", "retry"}
      BY <2>0, <2>3 DEF record_once, ObservedGoes, Go, order_vars
    <3>2. pc'[q] = "verified" => Backed'
      <4>1. pc'[q] = "verified" =>
              /\ IsVerified(Version)
              /\ observations' = observations \cup
                    {[version |-> Version, count |-> found[q].count,
                      at |-> found[q].at]}
        BY <2>0, <2>3 DEF record_once, Recordable, Go
      <4>2. Version' = Version
        BY <3>1 DEF Version
      <4>3. pc'[q] = "verified" => \E x \in observations' : x.version = Version
        <5> DEFINE x == [version |-> Version, count |-> found[q].count,
                         at |-> found[q].at]
        <5>1. x.version = Version
          OBVIOUS
        <5>2. pc'[q] = "verified" => x \in observations'
          BY <4>1
        <5>3. QED BY <5>1, <5>2
      <4>4. QED
        BY <3>1, <4>1, <4>2, <4>3 DEF Backed, IsVerified, IsObserved
    <3>3. QED BY <1>0, <3>1, <3>2 DEF Attends, Appending
  <2>4. CASE lease_expires(q) \/ last_lease_expires(q)
    <3>1. /\ UNCHANGED <<proofs, verifications, observations, pc, snap>>
          /\ UNCHANGED fulfillment
      BY <2>4 DEF lease_expires, last_lease_expires, order_vars, evidence_vars
    <3>2. QED BY <1>0, <3>1, StillAttends
  <2>5. CASE ~(\/ AppendingStep(q) \/ load(q) \/ record_once(q)
               \/ lease_expires(q) \/ last_lease_expires(q))
    <3>1. /\ pc'[q] \notin Appending \cup {"latest", "verified"}
          /\ snap'[q] \in {snap[q], None}
      BY <1>0, <1>2, <2>5, ElseGoes
    <3>2. QED BY <3>1, ElseAttends
  <2>6. QED BY <2>1, <2>2, <2>3, <2>4, <2>5
<1>3. QED BY <1>1, <1>2 DEF Next, OneAttempt

-----------------------------------------------------------------------------
(* One attempt at a time: the requests.                                    *)

\* What a status request has read stays true while the handlers go on.
LEMMA ReadsKept ==
    ASSUME IInv, LifeInv, StatusInv, [Next]_vars, sender' \in {sender, Version},
           NEW d \in Customer, request'[d] = request[d]
    PROVE  Reads(d)'
<1>0. Reads(d)
  BY DEF StatusInv
<1>1. PICK state : state = request[d].state
  OBVIOUS
<1>2. Grounded(state) => Grounded(state)'
  BY GroundedKept
<1>3. CASE On(d, "proof")
  BY <1>0, <1>1, <1>2, <1>3 DEF Reads, On, Grounded
<1>4. CASE On(d, "bundle")
  <2>1. fulfillment \in PastPending
    BY <1>0, <1>4 DEF Reads, Grounded
  <2>2. Version' = Version
    BY <2>1, ProofsFrozen DEF Version
  <2>3. QED BY <1>0, <1>1, <1>2, <1>4, <2>2 DEF Reads, On, Grounded
<1>5. QED BY <1>3, <1>4 DEF Reads, On

\* What was told stays true.
LEMMA ToldKept ==
    ASSUME IInv, LifeInv, StatusInv, [Next]_vars, UNCHANGED told
    PROVE  ToldIsTrue'
<1>1. Grown
  BY RowsGrow DEF IInv
<1>2. fulfillment \in PastPending =>
        fulfillment' \in PastPending /\ Version' = Version
  BY ProofsFrozen DEF Version
<1>3. ToldIsTrue
  BY DEF StatusInv
<1>4. QED BY <1>1, <1>2, <1>3 DEF ToldIsTrue, Grown

\* A request that the status of a confirmed order was asked with can be
\* answered from every table it reads.
LEMMA StatusFits ==
    ASSUME IInv, CustomerInv, StatusInv, NEW d \in Customer, On(d, "proof")
    PROVE  /\ Fits(request[d].state, LatestFor(request[d].state))
           /\ LatestFor(request[d].state).version = Version
<1>1. PICK state : state = request[d].state
  OBVIOUS
<1>2. state \in HasProof /\ Grounded(state) /\ TypeOK
  BY <1>1 DEF StatusInv, Reads, IInv
<1>3. proofs # <<>> /\ (state \in Confirmed => Backed)
  BY <1>2 DEF Grounded
<1> DEFINE evidence ==
      IF state \in Confirmed /\ IsVerified(Version) /\ IsObserved(Version)
      THEN [block |-> BlockOf(Version), count |-> LatestCount(Version)]
      ELSE None
           p == [version |-> Version, stamp |-> proofs[Version].stamp,
                 att |-> proofs[Version].att, evidence |-> evidence]
<1>4. LatestFor(state) = p
  BY <1>3 DEF LatestFor
<1>5. state \in Confirmed <=> evidence # None
  <2>1. CASE state \in Confirmed
    <3>1. BlockOf(Version) \in Nat /\ LatestCount(Version) \in Nat
      BY <1>2, <1>3, <2>1, LatestIsObserved, BlockIsVerified DEF Backed
    <3>2. [block |-> BlockOf(Version), count |-> LatestCount(Version)] \in Evidence
      BY <3>1 DEF Evidence
    <3>3. QED
      BY <1>3, <2>1, <3>2, ConstantsAssumption DEF Backed
  <2>2. CASE state \notin Confirmed
    BY <2>2
  <2>3. QED BY <2>1, <2>2
<1> HIDE DEF evidence
<1>6. p # None
  <2>1. LatestFor(state) \in StoredProof
    BY <1>2, <1>3, LatestForIsStored
  <2>2. QED BY <1>4, <2>1, NoneApart
<1>7. QED BY <1>1, <1>4, <1>5, <1>6 DEF Fits

\* The requests that a customer's step leaves alone, and the one it moves.
LEMMA CustomerReads ==
    ASSUME IInv, LifeInv, CustomerInv, StatusInv, NEW d \in Customer,
           CustomerStep(d), NEW e \in Customer
    PROVE  Reads(e)'
<1>0. /\ UNCHANGED <<vars, sender>> /\ [Next]_vars
      /\ RequestsTypeOK /\ Reads(d) /\ Grounded(fulfillment) /\ TypeOK
  BY DEF CustomerStep, DownloadStep, StatusStep, proof_bundle,
     select_verified, select_pending, select_refused, build, record_pending,
     download_fails, order_status, status_proof, status_bundle, CustomerInv,
     StatusInv, IInv
<1>1. CASE e # d \/ UNCHANGED request
  <2>1. request'[e] = request[e]
    BY <1>0, <1>1 DEF CustomerStep, DownloadStep, StatusStep, proof_bundle,
       select_verified, select_pending, select_refused, build, record_pending,
       download_fails, order_status, status_proof, status_bundle, Ends, Moves,
       RequestsTypeOK
  <2>2. QED BY <1>0, <2>1, ReadsKept
<1>2. CASE e = d /\ Ends(d)
  BY <1>0, <1>2, EndsTypes DEF Reads, On
<1>3. ASSUME NEW step \in {"lock", "build", "relock"}, NEW state, NEW p,
             Moves(d, step, state, p), e = d
      PROVE  Reads(e)'
  BY <1>0, <1>3 DEF Moves, Reads, On, RequestsTypeOK
<1>4. CASE e = d /\ order_status(d)
  <2>1. CASE fulfillment \in HasProof
    <3>1. request'[d] = [step |-> "proof", state |-> fulfillment, proof |-> None]
      BY <1>0, <1>4, <2>1 DEF order_status, Moves, RequestsTypeOK
    <3>2. /\ request'[d].step = "proof"
          /\ request'[d].state = fulfillment
      BY <3>1
    <3>3. PICK state : state = fulfillment
      OBVIOUS
    <3>4. Grounded(state)'
      BY <1>0, <3>3, GroundedKept
    <3>5. QED
      BY <1>4, <2>1, <3>2, <3>3, <3>4 DEF Reads, On, Grounded, HasProof
  <2>2. CASE fulfillment \notin HasProof
    BY <1>1, <1>4, <2>2 DEF order_status
  <2>3. QED BY <2>1, <2>2
<1>5. CASE e = d /\ status_proof(d)
  <2> DEFINE state == request[d].state
             p == LatestFor(state)
  <2>1. On(d, "proof") /\ state \in HasProof /\ Grounded(state)
    BY <1>0, <1>5 DEF status_proof, Reads
  <2>2. Fits(state, p) /\ p.version = Version
    BY <2>1, StatusFits
  <2>3. \/ Ends(d)
        \/ Moves(d, "bundle", state, p) /\ state # "calendar_pending"
    BY <1>5 DEF status_proof
  <2>4. CASE Moves(d, "bundle", state, p) /\ state # "calendar_pending"
    <3>1. PICK s, v : s = state /\ v = p
      OBVIOUS
    <3>2. s \in Confirmed /\ Grounded(s) /\ v.version = Version
      BY <2>1, <2>2, <2>4, <3>1 DEF HasProof
    <3>3. request'[d] = [step |-> "bundle", state |-> s, proof |-> v]
      BY <1>0, <2>4, <3>1 DEF Moves, RequestsTypeOK
    <3>4. Grounded(s)'
      BY <1>0, <3>2, GroundedKept
    <3>5. Version' = Version
      BY <1>0 DEF vars, Version
    <3>6. QED BY <1>5, <3>2, <3>3, <3>4, <3>5 DEF Reads, On, Grounded
  <2>5. QED BY <1>2, <1>5, <2>3, <2>4
<1>6. QED
  BY <1>1, <1>2, <1>3, <1>4, <1>5 DEF CustomerStep, DownloadStep, StatusStep,
     proof_bundle, select_verified, select_pending, select_refused, build,
     record_pending, download_fails, status_bundle

\* The status is answered, and calls available only what is stored.
LEMMA CustomerTold ==
    ASSUME IInv, LifeInv, CustomerInv, StatusInv, NEW d \in Customer,
           CustomerStep(d)
    PROVE  ToldIsTrue'
<1>0. UNCHANGED <<fulfillment, proofs, bundles>> /\ Version' = Version
  BY DEF CustomerStep, DownloadStep, StatusStep, proof_bundle,
     select_verified, select_pending, select_refused, build, record_pending,
     download_fails, order_status, status_proof, status_bundle, vars, Version
<1>1. CASE UNCHANGED told
  <2>1. [Next]_vars
    BY HandlersStep DEF AllNext, CustomerStep
  <2>2. QED BY <1>1, <2>1, ToldKept
<1>2. ASSUME NEW state, NEW v, NEW b, Tells(200, state, v, b),
             \/ b \in {FALSE}
             \/ state \notin Confirmed
             \/ fulfillment \in PastPending /\ Version \in bundles
      PROVE  ToldIsTrue'
  <2>1. told' = [code |-> 200, state |-> state, version |-> v, available |-> b]
    BY <1>2 DEF Tells
  <2>2. told'.code = 200 /\ told'.state = state /\ told'.available = b
    BY <2>1
  <2>3. QED BY <1>0, <1>2, <2>2 DEF ToldIsTrue
<1>3. CASE order_status(d)
  <2>1. CASE fulfillment \in HasProof
    BY <1>1, <1>3, <2>1 DEF order_status
  <2>2. CASE fulfillment \notin HasProof
    <3>1. PICK b : b = FALSE
      OBVIOUS
    <3>2. Tells(200, fulfillment, 0, b)
      BY <1>3, <2>2, <3>1 DEF order_status
    <3>3. fulfillment \notin Confirmed
      BY <2>2 DEF HasProof
    <3>4. QED BY <1>2, <3>2, <3>3
  <2>3. QED BY <2>1, <2>2
<1>4. CASE status_proof(d)
  <2> DEFINE state == request[d].state
             p == LatestFor(state)
  <2>1. On(d, "proof")
    BY <1>4 DEF status_proof
  <2>2. Fits(state, p)
    BY <2>1, StatusFits
  <2>3. PICK b : b = TRUE
    OBVIOUS
  <2>4. \/ Tells(200, state, p.version, b) /\ state = "calendar_pending"
        \/ UNCHANGED told
    BY <1>4, <2>2, <2>3 DEF status_proof
  <2>5. "calendar_pending" \notin Confirmed
    BY DEF Confirmed
  <2>6. QED BY <1>1, <1>2, <2>4, <2>5
<1>5. CASE status_bundle(d)
  <2> DEFINE state == request[d].state
             p == request[d].proof
  <2>1. state \in Confirmed /\ Grounded(state) /\ p.version = Version
    BY <1>5 DEF status_bundle, StatusInv, Reads
  <2>2. state = "delivered" => Available(p) /\ ValidDeliverySender(p)
    <3>1. state = "delivered" => Sent
      BY <2>1 DEF Grounded
    <3>2. Sent => Available(p) /\ ValidDeliverySender(p)
      BY <2>1 DEF Sent, Available, ValidDeliverySender, IInv, NoticesAreBacked
    <3>3. QED BY <3>1, <3>2
  <2>3. PICK b : b = Available(p)
    OBVIOUS
  <2>4. Tells(200, state, p.version, b)
    BY <1>5, <2>2, <2>3, Zenon DEF status_bundle
  <2>5. b \in {FALSE} \/ (fulfillment \in PastPending /\ Version \in bundles)
    <3>1. fulfillment \in PastPending /\ (Available(p) <=> Version \in bundles)
      BY <2>1 DEF Grounded, Available
    <3>2. Available(p) \/ b = FALSE
      <4>1. Available(p) \in BOOLEAN
        BY DEF Available
      <4>2. QED BY <2>3, <4>1, Zenon
    <3>3. QED BY <3>1, <3>2
  <2>6. PICK s, v : s = state /\ v = p.version
    OBVIOUS
  <2>7. Tells(200, s, v, b)
    BY <2>4, <2>6
  <2>8. QED BY <1>2, <2>5, <2>7
<1>6. QED
  BY <1>1, <1>3, <1>4, <1>5 DEF CustomerStep, DownloadStep, StatusStep,
     proof_bundle, select_verified, select_pending, select_refused, build,
     record_pending, download_fails

\* Every step keeps what the status relies on.
LEMMA StepStatus ==
    ASSUME OneAttempt, IInv, LifeInv, CustomerInv, StatusInv,
           [AllNext]_all_vars
    PROVE  StatusInv'
<1>0. [Next]_vars
  BY HandlersStep
<1>1. \A r \in Run : Attends(r)'
  BY <1>0, StepAttends
<1>2. /\ sender' \in {sender, Version}
      /\ fulfillment # "delivered" /\ fulfillment' = "delivered" =>
            sender' = Version
  <2>1. ASSUME NEW d \in Customer, CustomerStep(d)
        PROVE  UNCHANGED <<fulfillment, sender>>
    BY <2>1 DEF CustomerStep, DownloadStep, StatusStep, proof_bundle,
       select_verified, select_pending, select_refused, build, record_pending,
       download_fails, order_status, status_proof, status_bundle, vars
  <2>2. CASE token_revoked \/ UNCHANGED all_vars
    BY <2>2 DEF token_revoked, all_vars, customer_vars, vars
  <2>3. CASE FulfillmentStep
    BY <2>3 DEF FulfillmentStep
  <2>4. QED BY <2>1, <2>2, <2>3 DEF AllNext, CustomerStep
<1>3. Grounded(fulfillment)'
  BY <1>0, <1>2, OrderGrounded
<1>4. CASE FulfillmentStep \/ token_revoked \/ UNCHANGED all_vars
  <2>1. UNCHANGED <<request, told>>
    BY <1>4 DEF FulfillmentStep, token_revoked, all_vars, customer_vars
  <2>2. \A d \in Customer : Reads(d)'
    BY <1>0, <1>2, <2>1, ReadsKept
  <2>3. ToldIsTrue'
    BY <1>0, <2>1, ToldKept
  <2>4. QED BY <1>1, <1>3, <2>2, <2>3 DEF StatusInv
<1>5. ASSUME NEW d \in Customer, CustomerStep(d)
      PROVE  StatusInv'
  <2>1. \A e \in Customer : Reads(e)'
    BY <1>5, CustomerReads
  <2>2. ToldIsTrue'
    BY <1>5, CustomerTold
  <2>3. QED BY <1>1, <1>3, <2>1, <2>2 DEF StatusInv
<1>6. QED BY <1>4, <1>5 DEF AllNext, CustomerStep

\* A queued order shows nothing yet, and nobody has asked.
LEMMA InitStatus == AllInit => StatusInv
<1> SUFFICES ASSUME AllInit PROVE StatusInv
  OBVIOUS
<1>1. /\ fulfillment = "queued" /\ told = None
      /\ \A r \in Run : pc[r] = "idle" /\ snap[r] = None
      /\ \A d \in Customer : request[d] = None
  BY DEF AllInit, Init, CustomersInit
<1>2. QED
  BY <1>1 DEF StatusInv, Grounded, HasProof, Confirmed, Attends, Appending,
     Reads, On, ToldIsTrue

\* What the status calls available is what a download is served.
LEMMA AvailableServed ==
    ASSUME IInv, StatusInv
    PROVE  AvailableIsServed
<1> SUFFICES ASSUME told # None, fulfillment \in Confirmed,
                    told.available /\ told.state \in Confirmed
             PROVE  Served(LatestFor(fulfillment))
  BY DEF AvailableIsServed
<1>1. PICK state : state = fulfillment
  OBVIOUS
<1>2. TypeOK /\ Version \in bundles /\ proofs # <<>> /\ Backed
  BY DEF IInv, StatusInv, ToldIsTrue, Grounded, HasProof
<1>3. LatestFor(state).version = Version
  BY <1>2, LatestForIsStored
<1>4. LatestFor(state).evidence =
        [block |-> BlockOf(Version), count |-> LatestCount(Version)]
  BY <1>1, <1>2 DEF LatestFor, Backed
<1>5. BlockOf(Version) \in Nat /\ LatestCount(Version) \in Nat
  BY <1>2, LatestIsObserved, BlockIsVerified DEF Backed
<1>6. LatestFor(state).evidence \in Evidence
  BY <1>4, <1>5 DEF Evidence
<1>7. QED BY <1>1, <1>2, <1>3, <1>6, ConstantsAssumption DEF Served

\* While one attempt at a time carries the order out, with lost leases, retries
\* and the operator's jobs, every status request is answered, what order_status
\* calls available is served by proof_bundle for as long as the order stays
\* confirmed, and what leaves as verified is backed by evidence.
THEOREM StatusTrue ==
    ASSUME OneAttempt
    PROVE  AllSpec => []StatusIsTrue
<1>1. AllInit => LifeInv /\ StatusInv
  BY InitLife, InitStatus DEF AllInit
<1>2. (IInv /\ CustomerInv) /\ (LifeInv /\ StatusInv) /\ [AllNext]_all_vars
        => (LifeInv /\ StatusInv)'
  BY HandlersStep, StepLife, StepStatus
<1>3. IInv /\ CustomerInv /\ LifeInv /\ StatusInv => StatusIsTrue
  BY AvailableServed DEF StatusIsTrue, CustomerInv, StatusInv, ToldIsTrue,
     StatusIsAnswered
<1>4. QED BY <1>1, <1>2, <1>3, DownloadInvariance, PTL DEF AllSpec
=============================================================================

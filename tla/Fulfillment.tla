----------------------------- MODULE Fulfillment -----------------------------
(***************************************************************************)
(* Carrying out a paid order: the stamp, upgrade, delivery and             *)
(* confirmation handlers, the tables they write, the calendars and the     *)
(* chain they ask, and the operator's commands that start them again.      *)
(*                                                                         *)
(* One order.  A Run is one attempt at a job.  Every repository call is a  *)
(* transaction of its own and every call of a calendar or a Bitcoin node   *)
(* an await, so each is one action and runs interleave between them.  A    *)
(* run that lost its lease goes on beside the run that took over the job   *)
(* (owns is then FALSE); the queue itself is the subject of JobQueue, and  *)
(* here a job row is waiting, leased by a run, settled, or stranded: leased*)
(* for good, because its last attempt never gave the lease back.  How many *)
(* attempts are left is not kept: any attempt may be the last.             *)
(*                                                                         *)
(* A proof's bytes are the submission they come from and the calendars     *)
(* whose Bitcoin attestation they hold.  The submission's number is also   *)
(* its calendar_submitted_at.  Stored proofs always parse and match the    *)
(* order's digest: the rows are immutable, and what fails to parse is      *)
(* refused before it is stored.  Worker clocks agree.                      *)
(***************************************************************************)
EXTENDS OrderState, Naturals, Sequences, FiniteSets

CONSTANTS
    Run,                \* attempts that may be in progress at the same time
    Calendar,           \* calendars in the allowlist
    FinalConfirmations, \* confirmations of the final notice, 6 in the code
    MaxStamps,          \* bound: calendar submissions
    MaxTip,             \* bound: height of the chain
    MaxChecks,          \* bound: positive answers of the Bitcoin verifier
    MaxRequests,        \* bound: jobs the operator asks for
    MaxFaults,          \* bound: leases that are lost, tasks that are refused
    Returns,            \* bound: what may become of the payment
    None

VARIABLES
    payment, fulfillment, submitted_at,     \* the orders row
    events,         \* state_events: the keys of the transitions made
    proofs,         \* proof_versions, by version
    verifications,  \* proof_verifications
    observations,   \* bitcoin_confirmation_observations
    bundles,        \* proof_bundles: versions that have one
    outbox,
    keys,           \* job_key of the jobs that are enqueued once
    waiting,        \* by kind, how many job rows nobody holds
    stranded,       \* kinds with a row that stays leased for good
    stamps, tip, height, orphaned,      \* the calendars and the chain
    checks,         \* the verifier's clock
    \* the locals of each run
    pc, kind, owns, snap, seen, found, basis,
    requests, faults

order_vars == <<payment, fulfillment, submitted_at, events>>
evidence_vars == <<proofs, verifications, observations, bundles, outbox>>
job_vars == <<keys, waiting, stranded>>
world_vars == <<stamps, tip, height, orphaned, checks>>
run_vars == <<pc, kind, owns, snap, seen, found, basis>>
bound_vars == <<requests, faults>>
vars == <<payment, fulfillment, submitted_at, events, proofs, verifications,
          observations, bundles, outbox, keys, waiting, stranded, stamps, tip,
          height, orphaned, checks, pc, kind, owns, snap, seen, found, basis,
          requests, faults>>

Kind == {"stamp", "upgrade", "delivery", "confirmation"}
Confirmed == {"bitcoin_verified", "delivered"}
Returned == {"complete", "retry", "manual"}
Steps == Returned \cup
    {"idle", "load", "latest", "replay_start", "replay_end", "start", "submit",
     "append", "conflict", "response", "persisted", "upgrade", "verify", "put",
     "observe", "verified", "reverify", "reverified", "after", "spawn",
     "stored", "observed", "bundle", "recheck", "notice", "poll",
     "failing", "failed"}
Bytes == [stamp : Nat, att : SUBSET Calendar]
Evidence == [block : Nat, count : Nat]
StoredProof == [version : Nat, stamp : Nat, att : SUBSET Calendar,
                evidence : Evidence \cup {None}]
Snapshot == [payment : PaymentState, fulfillment : FulfillmentState,
             submitted_at : Nat \cup {None}]
Answer == [block : Nat, count : Nat, at : Nat]
EventKey == {"stamp-start", "stamp-replay-start", "stamp-replay",
             "stamp-response", "stamp-persisted", "bitcoin-verified",
             "bitcoin-reverified"} \X Nat
JobKey == (Kind \cup {"upgrade-manual"}) \X Nat
NoticeKind == {"initial", "final"}

ASSUME ConstantsAssumption ==
    /\ FinalConfirmations \in Nat \ {0}
    /\ MaxStamps \in Nat
    /\ MaxTip \in Nat
    /\ MaxChecks \in Nat
    /\ MaxRequests \in Nat
    /\ MaxFaults \in Nat
    /\ Returns \subseteq PaymentState
    /\ None \notin Nat \cup Kind \cup StoredProof \cup Evidence \cup Answer
                  \cup Snapshot

\* Every row and local has its type; verifications, observations and bundles
\* belong to a stored version, and nothing is dated after the verifier's clock.
TypeOK ==
    /\ payment \in PaymentState
    /\ fulfillment \in FulfillmentState
    /\ submitted_at \in Nat \cup {None}
    /\ events \subseteq EventKey
    /\ proofs \in Seq(Bytes)
    /\ verifications \subseteq [version : 1..Len(proofs), block : Nat]
    /\ observations \subseteq
          [version : 1..Len(proofs), count : Nat, at : 1..checks]
    /\ bundles \subseteq 1..Len(proofs)
    /\ outbox \subseteq
          [kind : NoticeKind, version : 1..Len(proofs), count : Nat]
    /\ keys \subseteq JobKey
    /\ waiting \in [Kind -> Nat]
    /\ stranded \subseteq Kind
    /\ stamps \in Nat
    /\ tip \in Nat
    /\ height \in [Calendar -> Nat]
    /\ orphaned \subseteq Calendar
    /\ checks \in Nat
    /\ pc \in [Run -> Steps]
    /\ kind \in [Run -> Kind \cup {None}]
    /\ owns \in [Run -> BOOLEAN]
    /\ snap \in [Run -> Snapshot \cup {None}]
    /\ seen \in [Run -> StoredProof \cup {None}]
    /\ found \in [Run -> Answer \cup {None}]
    /\ basis \in [Run -> Nat]
    /\ requests \in Nat
    /\ faults \in Nat

\* The order is paid and queued, and its stamp job waits (Payment).
Init ==
    /\ payment = "paid"
    /\ fulfillment = "queued"
    /\ submitted_at = None
    /\ events = {}
    /\ proofs = <<>>
    /\ verifications = {}
    /\ observations = {}
    /\ bundles = {}
    /\ outbox = {}
    /\ keys = {<<"stamp", 0>>}
    /\ waiting = [k \in Kind |-> IF k = "stamp" THEN 1 ELSE 0]
    /\ stranded = {}
    /\ stamps = 0
    /\ tip = 0
    /\ height = [c \in Calendar |-> 0]
    /\ orphaned = {}
    /\ checks = 0
    /\ pc = [r \in Run |-> "idle"]
    /\ kind = [r \in Run |-> None]
    /\ owns = [r \in Run |-> FALSE]
    /\ snap = [r \in Run |-> None]
    /\ seen = [r \in Run |-> None]
    /\ found = [r \in Run |-> None]
    /\ basis = [r \in Run |-> 0]
    /\ requests = 0
    /\ faults = 0

-----------------------------------------------------------------------------
(* The tables.                                                             *)

Version == Len(proofs)
IsVerified(v) == \E x \in verifications : x.version = v
BlockOf(v) == (CHOOSE x \in verifications : x.version = v).block
IsObserved(v) == \E x \in observations : x.version = v

\* Observations are read newest first, by the verifier's clock.
LatestCount(v) ==
    (CHOOSE x \in observations :
        /\ x.version = v
        /\ \A y \in observations : y.version = v => y.at <= x.at).count

\* The latest version with its verification, which is projected only while the
\* order is confirmed and an observation gives the count.
latest_for_order ==
    IF proofs = <<>> THEN None
    ELSE [version |-> Version, stamp |-> proofs[Version].stamp,
          att |-> proofs[Version].att,
          evidence |->
            IF fulfillment \in Confirmed /\ IsVerified(Version)
               /\ IsObserved(Version)
            THEN [block |-> BlockOf(Version), count |-> LatestCount(Version)]
            ELSE None]

\* A supplied calendar time is stored once and must then agree.
MergesTime(time) == time # None => submitted_at \in {None, time}
Merged(time) == IF time = None THEN submitted_at ELSE time

\* The table of legal transitions, and the trigger's demand for evidence.
MayBecome(target) ==
    \/ target = fulfillment
    \/ /\ <<fulfillment, target>> \in FulfillmentTransitions
       /\ target = "bitcoin_verified" => IsVerified(Version)

\* A known event key returns the order as it is; a transition that is refused
\* leaves the row alone and the run's job is retried.
Accepts(target, key, time) ==
    /\ MergesTime(time)
    /\ key \notin events =>
          /\ MayBecome(target)
          /\ target = "calendar_pending" => Merged(time) # None
transition_fulfillment_once(r, target, key, time, next) ==
    /\ IF Accepts(target, key, time)
       THEN /\ submitted_at' = Merged(time)
            /\ fulfillment' = IF key \in events THEN fulfillment ELSE target
            /\ events' = events \cup {key}
            /\ pc' = [pc EXCEPT ![r] = next]
       ELSE /\ UNCHANGED <<submitted_at, fulfillment, events>>
            /\ pc' = [pc EXCEPT ![r] = "retry"]
    /\ UNCHANGED <<payment, evidence_vars, job_vars, world_vars, kind, owns,
                   snap, seen, found, basis, bound_vars>>

\* enqueue_once with a key of the order, and with a key that names the time.
EnqueueOnce(k, key) ==
    /\ keys' = keys \cup {key}
    /\ waiting' = IF key \in keys THEN waiting
                  ELSE [waiting EXCEPT ![k] = @ + 1]
    /\ UNCHANGED stranded

EnqueuePoll(k) ==
    /\ waiting' = [waiting EXCEPT ![k] = @ + 1]
    /\ UNCHANGED <<keys, stranded>>

-----------------------------------------------------------------------------
(* Runs.                                                                   *)

Go(r, step) == pc' = [pc EXCEPT ![r] = step]
At(r, step) == pc[r] = step

\* A run gives up its locals when it ends.
Leave(r) ==
    /\ Go(r, "idle")
    /\ kind' = [kind EXCEPT ![r] = None]
    /\ owns' = [owns EXCEPT ![r] = FALSE]
    /\ snap' = [snap EXCEPT ![r] = None]
    /\ seen' = [seen EXCEPT ![r] = None]
    /\ found' = [found EXCEPT ![r] = None]
    /\ basis' = [basis EXCEPT ![r] = 0]

\* Mutant: a row that is leased is taken again.
claim_any(r, k) ==
    /\ At(r, "idle")
    /\ waiting' = [waiting EXCEPT ![k] = @ - 1]
    /\ kind' = [kind EXCEPT ![r] = k]
    /\ owns' = [owns EXCEPT ![r] = TRUE]
    /\ Go(r, "load")
    /\ UNCHANGED <<order_vars, evidence_vars, keys, stranded, world_vars, snap,
                   seen, found, basis, bound_vars>>

claim(r, k) ==
    /\ At(r, "idle")
    /\ waiting[k] > 0
    /\ waiting' = [waiting EXCEPT ![k] = @ - 1]
    /\ kind' = [kind EXCEPT ![r] = k]
    /\ owns' = [owns EXCEPT ![r] = TRUE]
    /\ Go(r, "load")
    /\ UNCHANGED <<order_vars, evidence_vars, keys, stranded, world_vars, snap,
                   seen, found, basis, bound_vars>>

\* _load, with the checks that need only the order.
load(r) ==
    /\ At(r, "load")
    /\ snap' = [snap EXCEPT ![r] =
                  [payment |-> payment, fulfillment |-> fulfillment,
                   submitted_at |-> submitted_at]]
    /\ Go(r, IF \/ kind[r] = "delivery"
                   /\ (fulfillment \notin Confirmed \/ submitted_at = None)
                \/ kind[r] = "confirmation" /\ fulfillment \notin Confirmed
             THEN "manual" ELSE "latest")
    /\ UNCHANGED <<order_vars, evidence_vars, job_vars, world_vars, kind, owns,
                   seen, found, basis, bound_vars>>

\* Mutant: a replay with a stored proof returns before the upgrade is enqueued.
StampGoes_done(o, p) ==
    IF p # None
    THEN IF o.submitted_at \notin {None, p.stamp} THEN "manual"
         ELSE IF o.fulfillment = "queued" THEN "replay_start"
         ELSE IF o.fulfillment = "stamping" THEN "replay_end"
         ELSE "complete"
    ELSE IF o.payment # "paid" THEN "manual"
         ELSE IF o.fulfillment = "queued" THEN "start"
         ELSE IF o.fulfillment = "stamping" THEN "submit"
         ELSE "manual"

\* Where each handler goes from the order o it loaded and the latest proof p.
StampGoes(o, p) ==
    IF p # None
    THEN IF o.submitted_at \notin {None, p.stamp} THEN "manual"
         ELSE IF o.fulfillment = "queued" THEN "replay_start"
         ELSE IF o.fulfillment = "stamping" THEN "replay_end"
         ELSE "spawn"
    ELSE IF o.payment # "paid" THEN "manual"
         ELSE IF o.fulfillment = "queued" THEN "start"
         ELSE IF o.fulfillment = "stamping" THEN "submit"
         ELSE "manual"
UpgradeGoes(o, p) ==
    IF p = None \/ o.submitted_at = None THEN "manual"
    ELSE IF o.submitted_at # p.stamp THEN "manual"
    ELSE IF o.fulfillment \in Confirmed THEN "reverify"
    ELSE IF o.fulfillment = "calendar_pending" THEN "upgrade"
    ELSE "manual"
DeliveryGoes(o, p) ==
    IF p = None THEN "manual"
    ELSE IF p.stamp # o.submitted_at THEN "manual"
    ELSE "stored"
ConfirmationGoes(p) == IF p = None THEN "manual" ELSE "stored"
HandlerGoes(k, o, p) ==
    IF k = "stamp" THEN StampGoes(o, p)
    ELSE IF k = "upgrade" THEN UpgradeGoes(o, p)
    ELSE IF k = "delivery" THEN DeliveryGoes(o, p)
    ELSE ConfirmationGoes(p)

\* Only the reverification uses the loaded order again.
latest(r) ==
    LET next == HandlerGoes(kind[r], snap[r], latest_for_order)
    IN  /\ At(r, "latest")
        /\ seen' = [seen EXCEPT ![r] = latest_for_order]
        /\ snap' = [snap EXCEPT ![r] = IF next = "reverify" THEN @ ELSE None]
        /\ Go(r, next)
        /\ UNCHANGED <<order_vars, evidence_vars, job_vars, world_vars, kind,
                       owns, found, basis, bound_vars>>

-----------------------------------------------------------------------------
(* StampHandler.                                                           *)

\* A proof was stored by an earlier attempt: only the order is brought up.
replay_start(r) ==
    /\ At(r, "replay_start")
    /\ transition_fulfillment_once(r, "stamping",
           <<"stamp-replay-start", seen[r].version>>, seen[r].stamp,
           "replay_end")

replay_end(r) ==
    /\ At(r, "replay_end")
    /\ transition_fulfillment_once(r, "calendar_pending",
           <<"stamp-replay", seen[r].version>>, seen[r].stamp, "spawn")

\* The returned order must be stamping.
start(r) ==
    /\ At(r, "start")
    /\ transition_fulfillment_once(r, "stamping", <<"stamp-start", 1>>, None,
           IF <<"stamp-start", 1>> \in events /\ fulfillment # "stamping"
           THEN "manual" ELSE "submit")

\* The calendars accept the digest; the pending proof is to become version 1.
submit(r) ==
    /\ At(r, "submit")
    /\ stamps < MaxStamps
    /\ stamps' = stamps + 1
    /\ seen' = [seen EXCEPT ![r] = [version |-> 1, stamp |-> stamps + 1,
                                   att |-> {}, evidence |-> None]]
    /\ Go(r, "append")
    /\ UNCHANGED <<order_vars, evidence_vars, job_vars, tip, height, orphaned,
                   checks, kind, owns, snap, found, basis, bound_vars>>

\* Every calendar is unavailable, or what they answer is no proof of the
\* digest.  An upgrade may end in the same two ways.
calendars_fail(r) ==
    /\ pc[r] \in {"submit", "upgrade"}
    /\ \E outcome \in {"retry", "manual"} : Go(r, outcome)
    /\ UNCHANGED <<order_vars, evidence_vars, job_vars, world_vars, kind, owns,
                   snap, seen, found, basis, bound_vars>>

AfterAppend(r) == IF kind[r] = "stamp" THEN "response" ELSE "verify"

\* Mutant: whatever version is offered is stored behind the latest.
Appends_any(p) == p.version <= Version + 1

\* The version must follow the latest one, or repeat it byte for byte.
Appends(p) == p.version = Version + 1
Repeats(p) ==
    /\ p.version = Version
    /\ proofs[Version] = [stamp |-> p.stamp, att |-> p.att]

\* Mutant: the order's submission time is left to the transitions.
append_unmerged(r) ==
    LET p == seen[r] IN
    /\ At(r, "append")
    /\ IF Appends(p) \/ Repeats(p)
       THEN /\ proofs' = IF Appends(p)
                         THEN Append(proofs, [stamp |-> p.stamp, att |-> p.att])
                         ELSE proofs
            /\ Go(r, AfterAppend(r))
       ELSE Go(r, "conflict") /\ UNCHANGED proofs
    /\ UNCHANGED <<order_vars, verifications, observations, bundles, outbox,
                   job_vars, world_vars, kind, owns, snap, seen, found, basis,
                   bound_vars>>

append(r) ==
    LET p == seen[r] IN
    /\ At(r, "append")
    /\ IF MergesTime(p.stamp) /\ (Appends(p) \/ Repeats(p))
       THEN /\ submitted_at' = Merged(p.stamp)
            /\ proofs' = IF Appends(p)
                         THEN Append(proofs, [stamp |-> p.stamp, att |-> p.att])
                         ELSE proofs
            /\ Go(r, AfterAppend(r))
       ELSE /\ Go(r, "conflict")
            /\ UNCHANGED <<submitted_at, proofs>>
    /\ UNCHANGED <<payment, fulfillment, events, verifications, observations,
                   bundles, outbox, job_vars, world_vars, kind, owns, snap,
                   seen, found, basis, bound_vars>>

\* Mutant: a refused append is taken for a replay.
append_conflict_ignored(r) ==
    /\ At(r, "conflict")
    /\ Go(r, AfterAppend(r))
    /\ UNCHANGED <<order_vars, evidence_vars, job_vars, world_vars, kind, owns,
                   snap, seen, found, basis, bound_vars>>

\* The append was refused: the stored proof may still be the same one.
append_conflict(r) ==
    /\ At(r, "conflict")
    /\ Go(r, IF latest_for_order = seen[r] THEN AfterAppend(r) ELSE "manual")
    /\ UNCHANGED <<order_vars, evidence_vars, job_vars, world_vars, kind, owns,
                   snap, seen, found, basis, bound_vars>>

response(r) ==
    /\ At(r, "response")
    /\ transition_fulfillment_once(r, "stamping", <<"stamp-response", 1>>,
           seen[r].stamp, "persisted")

persisted(r) ==
    /\ At(r, "persisted")
    /\ transition_fulfillment_once(r, "calendar_pending",
           <<"stamp-persisted", 1>>, seen[r].stamp, "spawn")

\* The job is committed; its task may then be refused, and the run is retried.
Dispatch(r) ==
    \/ Go(r, "complete") /\ UNCHANGED faults
    \/ /\ faults < MaxFaults
       /\ faults' = faults + 1
       /\ Go(r, "retry")

\* StampJobHandler enqueues the upgrade job, UpgradeJobHandler the delivery.
spawn(r) ==
    /\ At(r, "spawn")
    /\ IF kind[r] = "stamp" THEN EnqueueOnce("upgrade", <<"upgrade", 0>>)
       ELSE EnqueueOnce("delivery", <<"delivery", 0>>)
    /\ Dispatch(r)
    /\ UNCHANGED <<order_vars, evidence_vars, world_vars, kind, owns, snap,
                   seen, found, basis, requests>>

-----------------------------------------------------------------------------
(* UpgradeHandler.                                                         *)

\* Calendars that answer add their attestation; if none does the bytes stay.
upgrade(r) ==
    \E S \in SUBSET {c \in Calendar \ orphaned : height[c] # 0} :
        LET p == seen[r] IN
        /\ At(r, "upgrade")
        /\ IF S \subseteq p.att
           THEN Go(r, "verify") /\ UNCHANGED seen
           ELSE /\ Go(r, "append")
                /\ seen' = [seen EXCEPT ![r] =
                      [version |-> p.version + 1, stamp |-> p.stamp,
                       att |-> p.att \cup S, evidence |-> None]]
        /\ UNCHANGED <<order_vars, evidence_vars, job_vars, world_vars, kind,
                       owns, snap, found, basis, bound_vars>>

\* What a Bitcoin node says of attestations: those above the tip are pending,
\* one in a block that was replaced contradicts the chain, the deepest decides.
Buried(att) == {c \in att : height[c] <= tip}
Contradicts(att) == Buried(att) \cap orphaned # {}
Deepest(att) ==
    CHOOSE h \in {height[c] : c \in Buried(att)} :
        \A c \in Buried(att) : h <= height[c]
Found(att) == [block |-> Deepest(att), count |-> tip - Deepest(att) + 1,
               at |-> checks + 1]
Asking == {"verify", "reverify", "recheck"}

\* The node cannot be reached, is behind or moves while it is asked; or its
\* answer is malformed, or contradicts the proof.
verifier_fails(r) ==
    /\ pc[r] \in Asking
    /\ \E outcome \in {"retry", "manual"} : Go(r, outcome)
    /\ UNCHANGED <<order_vars, evidence_vars, job_vars, world_vars, kind, owns,
                   snap, seen, found, basis, bound_vars>>

\* A first verification waits for the next poll; a later one lost the block.
not_confirmed(r) ==
    /\ pc[r] \in Asking
    /\ Buried(seen[r].att) = {}
    /\ Go(r, IF At(r, "verify") THEN "poll" ELSE "manual")
    /\ UNCHANGED <<order_vars, evidence_vars, job_vars, world_vars, kind, owns,
                   snap, seen, found, basis, bound_vars>>

\* _same_reverification_evidence: the block may not change.
SameEvidence(r, a) ==
    IF At(r, "reverify")
    THEN seen[r].evidence # None /\ seen[r].evidence.block = a.block
    ELSE BlockOf(seen[r].version) = a.block

\* Only the confirmation monitor compares the count with the previous one.
VerifiedGoes(r, a) ==
    IF At(r, "verify") THEN "put"
    ELSE IF ~SameEvidence(r, a) THEN "manual"
    ELSE IF At(r, "recheck") /\ a.count < basis[r] THEN "manual"
    ELSE "observe"

verify_exact_digest(r) ==
    LET a == Found(seen[r].att) IN
    /\ pc[r] \in Asking
    /\ ~Contradicts(seen[r].att)
    /\ Buried(seen[r].att) # {}
    /\ checks < MaxChecks
    /\ checks' = checks + 1
    /\ found' = [found EXCEPT ![r] = a]
    /\ Go(r, VerifiedGoes(r, a))
    /\ UNCHANGED <<order_vars, evidence_vars, job_vars, stamps, tip, height,
                   orphaned, kind, owns, snap, seen, basis, bound_vars>>

\* The version must exist, and a verification it has must name the same block.
Verifiable(v, block) == v \in 1..Version /\ (IsVerified(v) => BlockOf(v) = block)

\* Mutant: the order is moved before the observation is recorded.
put_verified_once_first(r) ==
    LET v == seen[r].version IN
    /\ At(r, "put")
    /\ IF Verifiable(v, found[r].block)
       THEN /\ verifications' = verifications \cup
                  {[version |-> v, block |-> found[r].block]}
            /\ Go(r, "verified")
       ELSE Go(r, "retry") /\ UNCHANGED verifications
    /\ UNCHANGED <<order_vars, proofs, observations, bundles, outbox, job_vars,
                   world_vars, kind, owns, snap, seen, found, basis, bound_vars>>

put_verified_once(r) ==
    LET v == seen[r].version IN
    /\ At(r, "put")
    /\ IF Verifiable(v, found[r].block)
       THEN /\ verifications' = verifications \cup
                  {[version |-> v, block |-> found[r].block]}
            /\ Go(r, "observe")
       ELSE Go(r, "retry") /\ UNCHANGED verifications
    /\ UNCHANGED <<order_vars, proofs, observations, bundles, outbox, job_vars,
                   world_vars, kind, owns, snap, seen, found, basis, bound_vars>>

\* Observations are taken only for the current version and its own block.
Recordable(r) ==
    /\ seen[r].version = Version
    /\ IsVerified(Version)
    /\ BlockOf(Version) = found[r].block
\* Mutant: the final notice is sent one confirmation early.
ObservedGoes_early(r) ==
    IF kind[r] = "confirmation"
    THEN IF found[r].count + 1 < FinalConfirmations THEN "poll" ELSE "notice"
    ELSE IF snap[r] = None THEN "verified" ELSE "reverified"
ObservedGoes(r) ==
    IF kind[r] = "confirmation"
    THEN IF found[r].count < FinalConfirmations THEN "poll" ELSE "notice"
    ELSE IF snap[r] = None THEN "verified" ELSE "reverified"

record_once(r) ==
    /\ At(r, "observe")
    /\ IF Recordable(r)
       THEN /\ observations' = observations \cup
                  {[version |-> Version, count |-> found[r].count,
                    at |-> found[r].at]}
            /\ Go(r, ObservedGoes(r))
       ELSE Go(r, "retry") /\ UNCHANGED observations
    /\ basis' = [basis EXCEPT ![r] = found[r].count]
    /\ UNCHANGED <<order_vars, proofs, verifications, bundles, outbox, job_vars,
                   world_vars, kind, owns, snap, seen, found, bound_vars>>

verified(r) ==
    /\ At(r, "verified")
    /\ transition_fulfillment_once(r, "bitcoin_verified",
           <<"bitcoin-verified", seen[r].version>>, None, "after")

\* The reverification is noted under the state that was loaded.
reverified(r) ==
    /\ At(r, "reverified")
    /\ transition_fulfillment_once(r, snap[r].fulfillment,
           <<"bitcoin-reverified", found[r].at>>, None, "after")

\* UpgradeJobHandler reads the order again.
after(r) ==
    /\ At(r, "after")
    /\ Go(r, IF fulfillment = "bitcoin_verified" THEN "spawn" ELSE "complete")
    /\ UNCHANGED <<order_vars, evidence_vars, job_vars, world_vars, kind, owns,
                   snap, seen, found, basis, bound_vars>>

\* The next poll, and after a delivery the first one of the monitor.
poll(r) ==
    /\ At(r, "poll")
    /\ EnqueuePoll(IF kind[r] = "upgrade" THEN "upgrade" ELSE "confirmation")
    /\ Dispatch(r)
    /\ UNCHANGED <<order_vars, evidence_vars, world_vars, kind, owns, snap,
                   seen, found, basis, requests>>

-----------------------------------------------------------------------------
(* DeliveryHandler and ConfirmationHandler.                                *)

\* The proof read before must carry exactly this verification, count included.
SameAsSeen(r) ==
    seen[r].evidence = [block |-> BlockOf(seen[r].version),
                        count |-> LatestCount(seen[r].version)]

get_verified(r) ==
    LET v == seen[r].version IN
    /\ At(r, "stored")
    /\ Go(r, IF ~IsVerified(v) THEN "manual"
             ELSE IF ~IsObserved(v) THEN "retry"
             ELSE IF kind[r] = "delivery" /\ ~SameAsSeen(r) THEN "manual"
             ELSE "observed")
    /\ UNCHANGED <<order_vars, evidence_vars, job_vars, world_vars, kind, owns,
                   snap, seen, found, basis, bound_vars>>

latest_observation(r) ==
    /\ At(r, "observed")
    /\ basis' = [basis EXCEPT ![r] = LatestCount(seen[r].version)]
    /\ Go(r, IF kind[r] = "delivery" THEN "bundle" ELSE "recheck")
    /\ UNCHANGED <<order_vars, evidence_vars, job_vars, world_vars, kind, owns,
                   snap, seen, found, bound_vars>>

\* A version has one bundle.  The bundler may refuse the receipt and the stored
\* bundle may be another release's; module Bundle says when, here either may
\* happen and the job is retried.
put_once(r) ==
    /\ At(r, "bundle")
    /\ \/ /\ seen[r].version \in 1..Version
          /\ bundles' = bundles \cup {seen[r].version}
          /\ Go(r, "notice")
       \/ Go(r, "retry") /\ UNCHANGED bundles
    /\ UNCHANGED <<order_vars, proofs, verifications, observations, outbox,
                   job_vars, world_vars, kind, owns, snap, seen, found, basis,
                   bound_vars>>

\* _authoritative_observation_for_enqueue: the notice repeats the latest count
\* of the current version.
Authoritative(r) ==
    /\ seen[r].version = Version
    /\ IsVerified(Version)
    /\ IsObserved(Version)
    /\ LatestCount(Version) = basis[r]

\* A message is stored once per kind and version.
Notice(r) == [kind |-> IF kind[r] = "delivery" THEN "initial" ELSE "final",
              version |-> seen[r].version, count |-> basis[r]]
IsQueued(m) == \E x \in outbox : x.kind = m.kind /\ x.version = m.version

enqueue_notice(r) ==
    /\ At(r, "notice")
    /\ IF Authoritative(r)
       THEN /\ outbox' = IF IsQueued(Notice(r)) THEN outbox
                         ELSE outbox \cup {Notice(r)}
            /\ Go(r, IF kind[r] = "delivery" THEN "poll" ELSE "complete")
       ELSE Go(r, "retry") /\ UNCHANGED outbox
    /\ UNCHANGED <<order_vars, proofs, verifications, observations, bundles,
                   job_vars, world_vars, kind, owns, snap, seen, found, basis,
                   bound_vars>>

-----------------------------------------------------------------------------
(* The end of a run.                                                       *)

\* A run that still holds the lease settles its job or gives it back; one that
\* lost it is refused by the final heartbeat and leaves no trace.
finish(r) ==
    /\ \/ At(r, "complete")
       \/ At(r, "failed")
       \/ pc[r] \in {"retry", "manual"} /\ ~owns[r]
    /\ Leave(r)
    /\ UNCHANGED <<order_vars, evidence_vars, job_vars, world_vars, bound_vars>>

retry(r) ==
    /\ At(r, "retry")
    /\ owns[r]
    /\ waiting' = [waiting EXCEPT ![kind[r]] = @ + 1]
    /\ Leave(r)
    /\ UNCHANGED <<order_vars, evidence_vars, keys, stranded, world_vars,
                   bound_vars>>

\* A manual review error, or a retry that was the last one.
escalate(r) ==
    /\ pc[r] \in {"retry", "manual"}
    /\ owns[r]
    /\ Go(r, "failing")
    /\ UNCHANGED <<order_vars, evidence_vars, job_vars, world_vars, kind, owns,
                   snap, seen, found, basis, bound_vars>>

\* The order's transition does not look at the lease.  A repeated event key
\* finds the order in manual_review already.
terminal_failure(r) ==
    /\ At(r, "failing")
    /\ fulfillment' = "manual_review"
    /\ Go(r, "failed")
    /\ UNCHANGED <<payment, submitted_at, events, evidence_vars, job_vars,
                   world_vars, kind, owns, snap, seen, found, basis, bound_vars>>

\* The lease of a slow or dead run expires, and its job can be claimed again
\* while it has attempts left.
lease_expires(r) ==
    /\ owns[r]
    /\ faults < MaxFaults
    /\ faults' = faults + 1
    /\ owns' = [owns EXCEPT ![r] = FALSE]
    /\ waiting' = [waiting EXCEPT ![kind[r]] = @ + 1]
    /\ UNCHANGED <<order_vars, evidence_vars, keys, stranded, world_vars, pc,
                   kind, snap, seen, found, basis, requests>>

\* It was the last attempt: no query finds the row again, and it stays leased.
last_lease_expires(r) ==
    /\ owns[r]
    /\ faults < MaxFaults
    /\ faults' = faults + 1
    /\ owns' = [owns EXCEPT ![r] = FALSE]
    /\ stranded' = stranded \cup {kind[r]}
    /\ UNCHANGED <<order_vars, evidence_vars, keys, waiting, world_vars, pc, kind,
                   snap, seen, found, basis, requests>>

\* A run without its lease is dead, or its heartbeat cancels it at an await.
stop(r) ==
    /\ ~At(r, "idle")
    /\ ~owns[r]
    /\ Leave(r)
    /\ UNCHANGED <<order_vars, evidence_vars, job_vars, world_vars, bound_vars>>

-----------------------------------------------------------------------------
(* Operator, customer, mail and chain.                                     *)

\* Each reverification has its own request id.  The command reads the order
\* and the proof before it enqueues; a job that waits makes the same delay.
operator_reverify ==
    /\ fulfillment \in Confirmed
    /\ proofs # <<>>
    /\ requests < MaxRequests
    /\ requests' = requests + 1
    /\ EnqueuePoll("upgrade")
    /\ UNCHANGED <<order_vars, evidence_vars, world_vars, run_vars, faults>>

operator_upgrade ==
    /\ fulfillment = "calendar_pending"
    /\ proofs # <<>>
    /\ requests < MaxRequests
    /\ requests' = requests + 1
    /\ EnqueueOnce("upgrade", <<"upgrade-manual", Version>>)
    /\ UNCHANGED <<order_vars, evidence_vars, world_vars, run_vars, faults>>

\* Stripe reports a refund or a dispute (Payment).
payment_returned(target) ==
    /\ target \in Returns
    /\ <<payment, target>> \in PaymentTransitions
    /\ payment' = target
    /\ UNCHANGED <<fulfillment, submitted_at, events, evidence_vars, job_vars,
                   world_vars, run_vars, bound_vars>>

\* Resend reports the delivery of the initial notice of the current version,
\* which must still have its verification, bundle and an observation.
apply_delivered_event ==
    /\ fulfillment = "bitcoin_verified"
    /\ \E m \in outbox : m.kind = "initial" /\ m.version = Version
    /\ IsVerified(Version)
    /\ Version \in bundles
    /\ IsObserved(Version)
    /\ fulfillment' = "delivered"
    /\ UNCHANGED <<payment, submitted_at, events, evidence_vars, job_vars,
                   world_vars, run_vars, bound_vars>>

\* A block is found; it may anchor calendars that have the digest.
mine ==
    \E S \in SUBSET {c \in Calendar : height[c] = 0 /\ stamps > 0} :
        /\ tip < MaxTip
        /\ tip' = tip + 1
        /\ height' = [c \in Calendar |-> IF c \in S THEN tip + 1 ELSE height[c]]
        /\ UNCHANGED <<order_vars, evidence_vars, job_vars, stamps, orphaned,
                       checks, run_vars, bound_vars>>

\* The top block is abandoned, with what it anchored.
reorganize ==
    /\ tip > 0
    /\ tip' = tip - 1
    /\ orphaned' = orphaned \cup {c \in Calendar : height[c] = tip}
    /\ UNCHANGED <<order_vars, evidence_vars, job_vars, stamps, height, checks,
                   run_vars, bound_vars>>

-----------------------------------------------------------------------------

StampStep(r) ==
    \/ replay_start(r) \/ replay_end(r) \/ start(r) \/ submit(r)
    \/ response(r) \/ persisted(r)
ProofStep(r) == append(r) \/ append_conflict(r) \/ calendars_fail(r)
UpgradeStep(r) ==
    \/ upgrade(r) \/ put_verified_once(r) \/ verified(r) \/ reverified(r)
    \/ after(r)
VerifierStep(r) ==
    \/ verifier_fails(r) \/ not_confirmed(r) \/ verify_exact_digest(r)
NoticeStep(r) ==
    \/ get_verified(r) \/ latest_observation(r) \/ put_once(r)
    \/ record_once(r) \/ enqueue_notice(r)
QueueStep(r) ==
    \/ \E k \in Kind : claim(r, k)
    \/ load(r) \/ latest(r) \/ spawn(r) \/ poll(r)
EndStep(r) ==
    \/ finish(r) \/ retry(r) \/ escalate(r) \/ terminal_failure(r)
    \/ lease_expires(r) \/ last_lease_expires(r) \/ stop(r)
RunStep(r) ==
    \/ StampStep(r) \/ ProofStep(r) \/ UpgradeStep(r) \/ VerifierStep(r)
    \/ NoticeStep(r) \/ QueueStep(r) \/ EndStep(r)
Environment ==
    \/ operator_reverify \/ operator_upgrade
    \/ \E target \in PaymentState : payment_returned(target)
    \/ apply_delivered_event \/ mine \/ reorganize

Next == (\E r \in Run : RunStep(r)) \/ Environment

Spec == Init /\ [][Next]_vars

-----------------------------------------------------------------------------
(* Properties.                                                             *)

\* Every proof version has the submission time of the order: however many
\* attempts submit the digest, one submission is kept, and upgrades retain it.
OneSubmissionTime ==
    \A v \in 1..Version : proofs[v].stamp = submitted_at

\* Every version holds more attestations than the one before: concurrent
\* upgrades of the same version never store one over the other.
VersionsGrow ==
    \A v \in 1..(Version - 1) :
        proofs[v].att \subseteq proofs[v + 1].att /\ proofs[v].att # proofs[v + 1].att

\* A verification names a block that one of its version's attestations is in,
\* and there is only one for a version.
VerificationsAreAttested ==
    \A x \in verifications :
        /\ \E c \in proofs[x.version].att : height[c] = x.block
        /\ \A y \in verifications : y.version = x.version => y = x

\* A confirmed order has a version that was verified and observed.
ConfirmedOnEvidence ==
    fulfillment \in Confirmed =>
        \E v \in 1..Version : IsVerified(v) /\ IsObserved(v)

\* A notice tells a count that was observed for its version, enough for its
\* kind; the initial one has its bundle, and a delivered order was notified.
NoticesAreBacked ==
    /\ \A m \in outbox :
          /\ IsVerified(m.version)
          /\ \E x \in observations :
                x.version = m.version /\ x.count = m.count
          /\ m.kind = "initial" => m.version \in bundles
          /\ m.kind = "final" => m.count >= FinalConfirmations
    /\ fulfillment = "delivered" => \E m \in outbox : m.kind = "initial"

\* Some job of one of these kinds will run again or is running, or was
\* stranded by a worker that died in its last attempt.
Carried(kinds) ==
    \/ \E k \in kinds : waiting[k] > 0
    \/ \E r \in Run : owns[r] /\ kind[r] \in kinds
    \/ stranded \cap kinds # {}

\* Until it is notified of its final confirmation or handed to a human, some
\* job still carries the order to its next state; the one way to forget it is
\* the loss of the lease of the last attempt at such a job, of which JobQueue's
\* CrashedRunsRecover shows that the code does not recover it.
NoOrderForgotten ==
    /\ fulfillment \in {"queued", "stamping"} => Carried({"stamp"})
    /\ fulfillment = "calendar_pending" => Carried({"stamp", "upgrade"})
    /\ fulfillment = "bitcoin_verified" =>
          \/ \E m \in outbox : m.kind = "initial"
          \/ Carried({"upgrade", "delivery"})
    /\ fulfillment \in Confirmed =>
          \/ \E m \in outbox : m.kind = "final"
          \/ Carried({"upgrade", "delivery", "confirmation"})

\* What the code does not have (README.md, "Where code and documents part"):
\* handlers.py:94: "Refund, dispute, failure, and redirect state never authorize
\* new external work."
SubmissionsArePaidFor == [][stamps' # stamps => payment = "paid"]_vars

\* What the code does not have (README.md, "Where code and documents part"):
\* a lower count than the one observed before is never recorded as the latest.
CountsNeverDecrease ==
    [][\A v \in 1..Version :
          IsObserved(v) => LatestCount(v)' >= LatestCount(v)]_vars

\* What the code does not have (README.md, "Where code and documents part"):
\* a confirmed order's current proof version is verified.
CurrentProofIsVerified == fulfillment \in Confirmed => IsVerified(Version)

=============================================================================

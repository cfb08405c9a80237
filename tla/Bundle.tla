-------------------------------- MODULE Bundle --------------------------------
(***************************************************************************)
(* The receipt and the bundle of one proof: who writes a receipt, what the *)
(* bundler demands of it, and the delivery job that has to get the bundle  *)
(* stored, the initial notice queued and the monitor started.              *)
(*                                                                         *)
(* A receipt is text, so every time in it has been formatted and is parsed *)
(* again before the bundler compares it with the time of the proof.  There *)
(* are two writers: the delivery handler (proofs/receipt.py) and the proof *)
(* download (_receipt in api/routes.py).  A time is a second and the       *)
(* microseconds past it; only the block's time is always a whole second.   *)
(*                                                                         *)
(* The order, certificate, digest and length in a receipt are copied from  *)
(* the very proof they are compared with; what can differ is the state,    *)
(* the times and the product version the process was configured with.      *)
(* PRODUCT_VERSION is read when a process starts, so two workers may have  *)
(* two of them and a restarted worker may have another one.                *)
(***************************************************************************)
EXTENDS Naturals

CONSTANTS
    Worker,         \* delivery workers
    Release,        \* values of PRODUCT_VERSION
    Second,         \* the clock, in seconds
    Micro,          \* the clock, microseconds past the second
    MaxAttempts,    \* 10 in the code
    MaxFaults,      \* bound: leases that expire
    None

ASSUME MicroAssumption == 0 \in Micro /\ Micro \subseteq Nat
ASSUME SecondAssumption == Second # {} /\ Second \subseteq Nat
ASSUME AttemptsAssumption == MaxAttempts \in Nat \ {0}
ASSUME FaultsAssumption == MaxFaults \in Nat

VARIABLES
    fulfillment,    \* orders.fulfillment_state
    submitted_at,   \* calendar_submitted_at of the proof
    verification,   \* the verification of the proof
    bundle,         \* proof_bundles: the receipt inside
    notice,         \* the initial notice is in the outbox
    monitor,        \* the first confirmation poll is queued
    job, attempt,   \* the delivery job
    pc, owns,       \* what a worker does, and whether the lease is its own
    receipt,        \* the receipt it has bundled
    release,        \* PRODUCT_VERSION of its process
    refused,        \* proof downloads whose receipt the bundler refused
    faults

order_vars == <<fulfillment, submitted_at, verification>>
stored_vars == <<bundle, notice, monitor>>
job_vars == <<job, attempt>>
vars == <<fulfillment, submitted_at, verification, bundle, notice, monitor,
          job, attempt, pc, owns, receipt, release, refused, faults>>

DateTime == [second : Second, micro : Micro]
Text == [second : Second, fraction : Micro \cup {None}]
Verification == [block_time : [second : Second, micro : {0}],
                 verified_at : DateTime]
Receipt == [state : {"calendar_pending", "bitcoin_verified"},
            submitted_at : Text,
            bitcoin : [block_time : Text, verified_at : Text] \cup {None},
            service_version : Release]

ASSUME NoneAssumption ==
    /\ None \notin Nat
    /\ None \notin DateTime
    /\ None \notin Verification
    /\ None \notin Receipt

\* The proof's own state, as StoredProof has it.
ProofState == IF verification = None THEN "calendar_pending"
              ELSE "bitcoin_verified"

-----------------------------------------------------------------------------
(* Times as text.                                                          *)

\* datetime.isoformat(): the microseconds are written when there are any.
isoformat(t) == [second |-> t.second,
                 fraction |-> IF t.micro = 0 THEN None ELSE t.micro]

\* isoformat(timespec="seconds"): they are not written.
rfc3339(t) == [second |-> t.second, fraction |-> None]

\* _date_time: what is not written reads as zero.
date_time(x) == [second |-> x.second,
                 micro |-> IF x.fraction = None THEN 0 ELSE x.fraction]

-----------------------------------------------------------------------------
(* The two writers and the reader.                                         *)

build_receipt(version) ==
    [state |-> ProofState,
     submitted_at |-> rfc3339(submitted_at),
     bitcoin |-> IF verification = None THEN None
                 ELSE [block_time |-> rfc3339(verification.block_time),
                       verified_at |-> rfc3339(verification.verified_at)],
     service_version |-> version]

\* Mutant: the download writes its times like the delivery.
route_receipt_seconds(version) ==
    [state |-> ProofState,
     submitted_at |-> rfc3339(submitted_at),
     bitcoin |-> None,
     service_version |-> version]

\* A download builds a receipt for a pending proof only.
route_receipt(version) ==
    [state |-> ProofState,
     submitted_at |-> isoformat(submitted_at),
     bitcoin |-> None,
     service_version |-> version]

\* Mutant: a time is compared by its second.
validate_receipt_seconds(r, version) ==
    /\ r.service_version = version
    /\ r.state = ProofState
    /\ date_time(r.submitted_at).second = submitted_at.second
    /\ r.state = "calendar_pending" => r.bitcoin = None

validate_receipt(r, version) ==
    /\ r.service_version = version
    /\ r.state = ProofState
    /\ date_time(r.submitted_at) = submitted_at
    /\ IF r.state = "calendar_pending"
       THEN r.bitcoin = None
       ELSE /\ r.bitcoin # None
            /\ date_time(r.bitcoin.block_time) = verification.block_time
            /\ date_time(r.bitcoin.verified_at) = verification.verified_at

-----------------------------------------------------------------------------
(* The order before its delivery, and the download of the pending proof.   *)

Init ==
    /\ fulfillment = "queued"
    /\ submitted_at = None
    /\ verification = None
    /\ bundle = None
    /\ notice = FALSE
    /\ monitor = FALSE
    /\ job = "none"
    /\ attempt = 0
    /\ pc = [w \in Worker |-> "idle"]
    /\ owns = [w \in Worker |-> FALSE]
    /\ receipt = [w \in Worker |-> None]
    /\ release \in [Worker -> Release]
    /\ refused = FALSE
    /\ faults = 0

\* The calendar submission takes the time of the clock.
stamp ==
    /\ fulfillment = "queued"
    /\ submitted_at' \in DateTime
    /\ fulfillment' = "calendar_pending"
    /\ UNCHANGED <<verification, stored_vars, job_vars, pc, owns, receipt,
                   release, refused, faults>>

\* A pending proof is bundled for a download by the API process.
pending_download ==
    /\ fulfillment = "calendar_pending"
    /\ \E version \in Release :
          refused' = (refused \/ ~validate_receipt(route_receipt(version),
                                                   version))
    /\ UNCHANGED <<order_vars, stored_vars, job_vars, pc, owns, receipt,
                   release, faults>>

\* The proof is verified now, and the delivery job is enqueued.
verify ==
    /\ fulfillment = "calendar_pending"
    /\ verification' \in Verification
    /\ fulfillment' = "bitcoin_verified"
    /\ job' = "waiting"
    /\ UNCHANGED <<submitted_at, stored_vars, attempt, pc, owns, receipt,
                   release, refused, faults>>

-----------------------------------------------------------------------------
(* The delivery job.                                                       *)

Go(w, label) == pc' = [pc EXCEPT ![w] = label]

\* Mutant: the attempts are not counted against their limit.
claim_unlimited(w) ==
    /\ pc[w] = "idle"
    /\ job = "waiting"
    /\ job' = "leased"
    /\ attempt' = attempt + 1
    /\ owns' = [owns EXCEPT ![w] = TRUE]
    /\ Go(w, "load")
    /\ UNCHANGED <<order_vars, stored_vars, receipt, release, refused, faults>>

claim(w) ==
    /\ pc[w] = "idle"
    /\ job = "waiting"
    /\ attempt < MaxAttempts
    /\ job' = "leased"
    /\ attempt' = attempt + 1
    /\ owns' = [owns EXCEPT ![w] = TRUE]
    /\ Go(w, "load")
    /\ UNCHANGED <<order_vars, stored_vars, receipt, release, refused, faults>>

\* The checks before the receipt: the order is still one to deliver.
load(w) ==
    /\ pc[w] = "load"
    /\ Go(w, IF fulfillment = "bitcoin_verified" THEN "build" ELSE "manual")
    /\ UNCHANGED <<order_vars, stored_vars, job_vars, owns, receipt, release,
                   refused, faults>>

\* Mutant: the order is told though its bundle could not be built.
build_lenient(w) ==
    LET r == build_receipt(release[w]) IN
    /\ pc[w] = "build"
    /\ IF validate_receipt(r, release[w])
       THEN receipt' = [receipt EXCEPT ![w] = r] /\ Go(w, "put")
       ELSE Go(w, "notice") /\ UNCHANGED receipt
    /\ UNCHANGED <<order_vars, stored_vars, job_vars, owns, release, refused,
                   faults>>

\* Receipt and bundle are built before anything is stored; the bundler may
\* refuse the receipt.
build(w) ==
    LET r == build_receipt(release[w]) IN
    /\ pc[w] = "build"
    /\ IF validate_receipt(r, release[w])
       THEN receipt' = [receipt EXCEPT ![w] = r] /\ Go(w, "put")
       ELSE Go(w, "failed") /\ UNCHANGED receipt
    /\ UNCHANGED <<order_vars, stored_vars, job_vars, owns, release, refused,
                   faults>>

Stores(w) == bundle = None

\* Mutant: a bundle that is already there is a conflict.
Repeats_never(w) == FALSE

Repeats(w) == bundle = receipt[w]

\* A stored bundle is repeated byte for byte or the job fails.
put_once(w) ==
    /\ pc[w] = "put"
    /\ IF Stores(w)
       THEN bundle' = receipt[w] /\ Go(w, "notice")
       ELSE /\ Go(w, IF Repeats(w) THEN "notice" ELSE "failed")
            /\ UNCHANGED bundle
    /\ receipt' = [receipt EXCEPT ![w] = None]
    /\ UNCHANGED <<order_vars, notice, monitor, job_vars, owns, release,
                   refused, faults>>

enqueue(w) ==
    /\ pc[w] = "notice"
    /\ notice' = TRUE
    /\ Go(w, "poll")
    /\ UNCHANGED <<order_vars, bundle, monitor, job_vars, owns, receipt,
                   release, refused, faults>>

enqueue_once(w) ==
    /\ pc[w] = "poll"
    /\ monitor' = TRUE
    /\ Go(w, "complete")
    /\ UNCHANGED <<order_vars, bundle, notice, job_vars, owns, receipt,
                   release, refused, faults>>

Exhausted == attempt >= MaxAttempts

\* The worker settles the job if the lease is still its own.  A ValueError is
\* an unexpected failure: it is retried until the attempts are used up, then
\* the order goes to manual review like one the handler refuses.
settle(w) ==
    /\ pc[w] \in {"complete", "failed", "manual"}
    /\ IF ~owns[w] THEN UNCHANGED <<job, fulfillment>>
       ELSE IF pc[w] = "complete"
       THEN job' = "complete" /\ UNCHANGED fulfillment
       ELSE IF pc[w] = "failed" /\ ~Exhausted
       THEN job' = "waiting" /\ UNCHANGED fulfillment
       ELSE job' = "closed" /\ fulfillment' = "manual_review"
    /\ owns' = [owns EXCEPT ![w] = FALSE]
    /\ Go(w, "idle")
    /\ UNCHANGED <<submitted_at, verification, stored_vars, attempt, receipt,
                   release, refused, faults>>

\* The lease of a slow or dead worker runs out.
lease_expires(w) ==
    /\ owns[w]
    /\ faults < MaxFaults
    /\ faults' = faults + 1
    /\ owns' = [owns EXCEPT ![w] = FALSE]
    /\ job' = "waiting"
    /\ UNCHANGED <<order_vars, stored_vars, attempt, pc, receipt, release,
                   refused>>

\* A worker without the lease is cancelled by its heartbeat or its process has
\* ended; the next process may have another PRODUCT_VERSION.
restart(w) ==
    /\ ~owns[w]
    /\ \E v \in Release : release' = [release EXCEPT ![w] = v]
    /\ receipt' = [receipt EXCEPT ![w] = None]
    /\ Go(w, "idle")
    /\ UNCHANGED <<order_vars, stored_vars, job_vars, owns, refused, faults>>

Handle(w) == load(w) \/ build(w) \/ put_once(w) \/ enqueue(w) \/ enqueue_once(w)

Next ==
    \/ stamp \/ pending_download \/ verify
    \/ \E w \in Worker : \/ claim(w) \/ Handle(w) \/ settle(w)
                         \/ lease_expires(w) \/ restart(w)

Spec == Init /\ [][Next]_vars

\* Workers poll for due jobs, and the handler of a worker that keeps its lease
\* runs to its end; one that lost it may be stopped anywhere, so that the job
\* depends on the next worker.
Fairness ==
    \A w \in Worker : /\ WF_vars(claim(w))
                      /\ WF_vars(owns[w] /\ Handle(w))
                      /\ WF_vars(settle(w))
                      /\ WF_vars(restart(w) /\ pc[w] # "idle")
FairSpec == Spec /\ Fairness

-----------------------------------------------------------------------------
(* Properties.                                                             *)

\* Every row and local has its type, and no attempt is made beyond the limit.
TypeOK ==
    /\ fulfillment \in {"queued", "calendar_pending", "bitcoin_verified",
                        "manual_review"}
    /\ submitted_at \in DateTime \cup {None}
    /\ verification \in Verification \cup {None}
    /\ bundle \in Receipt \cup {None}
    /\ notice \in BOOLEAN
    /\ monitor \in BOOLEAN
    /\ job \in {"none", "waiting", "leased", "complete", "closed"}
    /\ attempt \in 0..MaxAttempts
    /\ pc \in [Worker -> {"idle", "load", "build", "put", "notice", "poll",
                          "complete", "failed", "manual"}]
    /\ owns \in [Worker -> BOOLEAN]
    /\ receipt \in [Worker -> Receipt \cup {None}]
    /\ release \in [Worker -> Release]
    /\ refused \in BOOLEAN
    /\ faults \in 0..MaxFaults

\* What the customer can read in a stored bundle is what was verified: its
\* receipt parses to the times of the proof, whichever worker and release
\* wrote it (proofs/bundle.py, _validate_receipt).
BundleTellsTheProof ==
    bundle # None =>
        /\ bundle.state = "bitcoin_verified"
        /\ date_time(bundle.submitted_at) = submitted_at
        /\ date_time(bundle.bitcoin.verified_at) = verification.verified_at

\* The download's receipt of a pending proof is never refused: format and
\* parse agree to the microsecond (api/routes.py, _receipt).
DownloadsAreBundled == ~refused

\* No notice without the bundle it speaks of and no monitor without the notice,
\* wherever a worker stops (DeliveryHandler, DeliveryJobHandler).
NoticeHasBundle == (notice => bundle # None) /\ (monitor => notice)

\* Receipts, bundles and notices agree with the proof, wherever a worker stops
\* and whichever release wrote them (DeliveryHandler, build_proof_bundle).
BundlesAreSound ==
    /\ TypeOK
    /\ BundleTellsTheProof
    /\ DownloadsAreBundled
    /\ NoticeHasBundle

WholeSeconds == submitted_at.micro = 0 /\ verification.verified_at.micro = 0
Delivered == bundle # None /\ notice /\ monitor

\* While the release stays the same, an order whose times happen to be whole
\* seconds is delivered, through expired leases and workers that stop half-way
\* (DeliveryHandler, put_once: the second attempt finds its own bundle).
WholeSecondsAreDelivered ==
    \A v \in Release :
        [](release = [w \in Worker |-> v])
            => ((verification # None /\ WholeSeconds) ~> Delivered)

\* "The delivery job persists the matching bundle, enqueues the initial
\* `bitcoin-confirmed-initial` notice at `>=1`, and starts 15-minute
\* confirmation monitoring." (docs/TIMESTAMP_SERVICE_OPERATIONS.md:153)
VerifiedIsDelivered == (fulfillment = "bitcoin_verified") ~> Delivered

=============================================================================

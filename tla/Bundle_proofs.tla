--------------------------- MODULE Bundle_proofs ---------------------------
(***************************************************************************)
(* The delivery's safety for every clock, every set of workers and         *)
(* releases, every attempt budget and any number of expired leases.        *)
(***************************************************************************)
EXTENDS Bundle, TLAPS

-----------------------------------------------------------------------------
(* The inductive invariant.                                                *)

\* A receipt that tells what the proof's rows say.
Tells(r) ==
    /\ r \in Receipt
    /\ r.state = "bitcoin_verified"
    /\ date_time(r.submitted_at) = submitted_at
    /\ date_time(r.bitcoin.verified_at) = verification.verified_at

\* The proof's rows are written once each, in the order of the states.
RowsFollowState ==
    /\ fulfillment = "queued" => verification = None
    /\ fulfillment = "calendar_pending"
          => submitted_at \in DateTime /\ verification = None
    /\ fulfillment = "bitcoin_verified" => verification \in Verification
    /\ verification \in Verification => submitted_at \in DateTime

\* What a worker's program counter promises of what it did before, which the
\* steps of another worker must not take away.
WorkerReady(w) ==
    /\ pc[w] = "build" => verification \in Verification
    /\ pc[w] = "put" => verification \in Verification /\ Tells(receipt[w])
    /\ pc[w] = "notice" => bundle # None
    /\ pc[w] = "poll" => notice

IInv ==
    /\ TypeOK
    /\ RowsFollowState
    /\ bundle # None => verification \in Verification /\ Tells(bundle)
    /\ DownloadsAreBundled
    /\ NoticeHasBundle
    /\ \A w \in Worker : WorkerReady(w)

-----------------------------------------------------------------------------
(* Times as text.                                                          *)

\* A time that is written with its fraction is read back as it was.
LEMMA IsoformatIsRead ==
    ASSUME NEW t \in DateTime
    PROVE  date_time(isoformat(t)) = t
BY MicroAssumption, NoneAssumption DEF DateTime, isoformat, date_time

\* What is formatted without a fraction is text of the receipt's type.
LEMMA SecondsAreText ==
    ASSUME NEW t, t.second \in Second
    PROVE  rfc3339(t) \in Text
BY DEF rfc3339, Text

\* The receipt of the delivery handler has its type.
LEMMA ReceiptType ==
    ASSUME NEW version \in Release,
           submitted_at \in DateTime, verification \in Verification
    PROVE  /\ build_receipt(version) \in Receipt
           /\ ProofState = "bitcoin_verified"
<1>1. verification # None
  BY NoneAssumption
<1>2. ProofState = "bitcoin_verified"
  BY <1>1 DEF ProofState
<1>3. rfc3339(submitted_at) \in Text
  BY SecondsAreText DEF DateTime
<1>4. rfc3339(verification.block_time) \in Text
  BY SecondsAreText DEF Verification
<1>5. rfc3339(verification.verified_at) \in Text
  BY SecondsAreText DEF Verification, DateTime
<1>6. build_receipt(version) =
        [state |-> "bitcoin_verified",
         submitted_at |-> rfc3339(submitted_at),
         bitcoin |-> [block_time |-> rfc3339(verification.block_time),
                      verified_at |-> rfc3339(verification.verified_at)],
         service_version |-> version]
  BY <1>1, <1>2 DEF build_receipt
<1> QED
  BY <1>2, <1>3, <1>4, <1>5, <1>6 DEF Receipt

\* A receipt that the bundler accepts for a verified proof tells that proof.
LEMMA ValidatedTells ==
    ASSUME NEW version \in Release,
           submitted_at \in DateTime, verification \in Verification,
           validate_receipt(build_receipt(version), version)
    PROVE  Tells(build_receipt(version))
<1> DEFINE r == build_receipt(version)
<1>1. r \in Receipt /\ r.state = "bitcoin_verified"
  BY ReceiptType DEF validate_receipt
<1>2. date_time(r.submitted_at) = submitted_at
  BY DEF validate_receipt
<1>3. date_time(r.bitcoin.verified_at) = verification.verified_at
  BY <1>1 DEF validate_receipt
<1> QED
  BY <1>1, <1>2, <1>3 DEF Tells

-----------------------------------------------------------------------------
(* The invariant holds initially and is preserved by every step.           *)

LEMMA InitIInv == Init => IInv
<1> SUFFICES ASSUME Init PROVE IInv
  OBVIOUS
<1>1. TypeOK
  <2>1. attempt \in 0..MaxAttempts /\ faults \in 0..MaxFaults
    BY AttemptsAssumption, FaultsAssumption DEF Init
  <2>2. /\ owns \in [Worker -> BOOLEAN]
        /\ notice \in BOOLEAN /\ monitor \in BOOLEAN /\ refused \in BOOLEAN
    BY Zenon DEF Init
  <2>3. /\ pc \in [Worker -> {"idle", "load", "build", "put", "notice",
                              "poll", "complete", "failed", "manual"}]
        /\ receipt \in [Worker -> Receipt \cup {None}]
    BY DEF Init
  <2> QED
    BY <2>1, <2>2, <2>3 DEF Init, TypeOK
<1>2. RowsFollowState
  BY NoneAssumption DEF Init, RowsFollowState
<1> QED
  BY <1>1, <1>2 DEF Init, IInv, DownloadsAreBundled, NoticeHasBundle,
     WorkerReady

\* As long as the proof's rows stay, what was told of them stays true.
LEMMA RowsKept ==
    ASSUME UNCHANGED <<submitted_at, verification>>
    PROVE  /\ \A r : Tells(r)' <=> Tells(r)
BY DEF Tells

\* A stamped or verified proof has no earlier bundle, and no worker is at it.
LEMMA OrderStep ==
    ASSUME IInv, stamp \/ verify
    PROVE  IInv'
<1> USE DEF stored_vars, job_vars, order_vars
<1>1. verification = None
  BY DEF IInv, RowsFollowState, stamp, verify
<1>2. verification \notin Verification
  BY <1>1, NoneAssumption
<1>3. bundle = None
  BY <1>2 DEF IInv
<1>4. TypeOK'
  <2>1. CASE stamp
    BY <2>1 DEF IInv, TypeOK, stamp
  <2>2. CASE verify
    BY <2>2 DEF IInv, TypeOK, verify
  <2> QED
    BY <2>1, <2>2
<1>5. RowsFollowState'
  <2>1. CASE stamp
    BY <2>1, <1>1 DEF IInv, RowsFollowState, stamp
  <2>2. CASE verify
    BY <2>2, <1>1 DEF IInv, RowsFollowState, verify
  <2> QED
    BY <2>1, <2>2
<1>6. UNCHANGED <<bundle, notice, monitor, pc, receipt, refused>>
  BY DEF stamp, verify
<1>7. \A w \in Worker : WorkerReady(w)'
  <2> TAKE w \in Worker
  <2>1. WorkerReady(w)
    BY DEF IInv
  <2>2. pc[w] # "build" /\ pc[w] # "put"
    BY <2>1, <1>2 DEF WorkerReady
  <2> QED
    BY <2>1, <2>2, <1>6 DEF WorkerReady
<1> QED
  BY <1>3, <1>4, <1>5, <1>6, <1>7 DEF IInv, DownloadsAreBundled,
     NoticeHasBundle

\* The download's receipt is accepted, whatever the clock said.
LEMMA DownloadStep ==
    ASSUME IInv, pending_download
    PROVE  IInv'
<1> USE DEF stored_vars, job_vars, order_vars
<1>1. submitted_at \in DateTime /\ verification = None
  BY DEF IInv, RowsFollowState, pending_download
<1>2. ASSUME NEW version \in Release
      PROVE  validate_receipt(route_receipt(version), version)
  BY <1>1, IsoformatIsRead DEF validate_receipt, route_receipt, ProofState
<1>3. refused' = FALSE
  BY <1>2 DEF IInv, DownloadsAreBundled, pending_download
<1>4. UNCHANGED <<fulfillment, submitted_at, verification, bundle, notice,
                  monitor, job, attempt, pc, owns, receipt, release, faults>>
  BY DEF pending_download
<1>5. TypeOK'
  BY <1>3, <1>4 DEF IInv, TypeOK
<1>6. RowsFollowState'
  BY <1>4 DEF IInv, RowsFollowState
<1>7. \A w \in Worker : WorkerReady(w)'
  BY <1>4, RowsKept DEF IInv, WorkerReady
<1> QED
  BY <1>3, <1>4, <1>5, <1>6, <1>7, RowsKept DEF IInv, DownloadsAreBundled,
     NoticeHasBundle

\* A step of one worker that writes none of the rows a promise speaks of.
LEMMA LocalStep ==
    ASSUME IInv, TypeOK', NEW w \in Worker,
           UNCHANGED <<fulfillment, submitted_at, verification, bundle, notice,
                       monitor, refused>>,
           \A v \in Worker \ {w} : pc'[v] = pc[v] /\ receipt'[v] = receipt[v],
           WorkerReady(w)'
    PROVE  IInv'
<1>1. RowsFollowState'
  BY DEF IInv, RowsFollowState
<1>2. ASSUME NEW v \in Worker \ {w} PROVE WorkerReady(v)'
  BY <1>2, RowsKept DEF IInv, WorkerReady
<1> QED
  BY <1>1, <1>2, RowsKept DEF IInv, DownloadsAreBundled, NoticeHasBundle

LEMMA ClaimStep ==
    ASSUME IInv, NEW w \in Worker, claim(w)
    PROVE  IInv'
<1> USE DEF stored_vars, job_vars, order_vars, Go
<1>1. TypeOK'
  BY AttemptsAssumption DEF IInv, TypeOK, claim
<1>2. WorkerReady(w)'
  BY DEF IInv, TypeOK, claim, WorkerReady
<1>3. \A v \in Worker \ {w} : pc'[v] = pc[v] /\ receipt'[v] = receipt[v]
  BY DEF IInv, TypeOK, claim
<1> QED
  BY <1>1, <1>2, <1>3, LocalStep DEF claim

LEMMA LoadStep ==
    ASSUME IInv, NEW w \in Worker, load(w)
    PROVE  IInv'
<1> USE DEF stored_vars, job_vars, order_vars, Go
<1>1. TypeOK'
  BY DEF IInv, TypeOK, load
<1>2. WorkerReady(w)'
  BY DEF IInv, TypeOK, load, WorkerReady, RowsFollowState
<1>3. \A v \in Worker \ {w} : pc'[v] = pc[v] /\ receipt'[v] = receipt[v]
  BY DEF IInv, TypeOK, load
<1> QED
  BY <1>1, <1>2, <1>3, LocalStep DEF load

LEMMA BuildStep ==
    ASSUME IInv, NEW w \in Worker, build(w)
    PROVE  IInv'
<1> USE DEF stored_vars, job_vars, order_vars, Go
<1> DEFINE r == build_receipt(release[w])
<1>1. /\ verification \in Verification
      /\ submitted_at \in DateTime
      /\ release[w] \in Release
  BY DEF IInv, TypeOK, RowsFollowState, WorkerReady, build
<1>2. r \in Receipt
  BY <1>1, ReceiptType
<1>3. UNCHANGED <<fulfillment, submitted_at, verification, bundle, notice,
                  monitor, job, attempt, owns, release, refused, faults>>
  BY DEF build
<1>4. \/ /\ validate_receipt(r, release[w])
         /\ receipt' = [receipt EXCEPT ![w] = r]
         /\ pc' = [pc EXCEPT ![w] = "put"]
      \/ receipt' = receipt /\ pc' = [pc EXCEPT ![w] = "failed"]
  BY DEF build
<1> HIDE DEF r
<1>5. TypeOK'
  BY <1>2, <1>3, <1>4 DEF IInv, TypeOK
<1>6. WorkerReady(w)'
  <2>1. CASE /\ validate_receipt(r, release[w])
             /\ receipt' = [receipt EXCEPT ![w] = r]
             /\ pc' = [pc EXCEPT ![w] = "put"]
    <3>1. Tells(r)
      BY <1>1, <2>1, ValidatedTells DEF r
    <3>2. receipt'[w] = r /\ pc'[w] = "put"
      BY <2>1 DEF IInv, TypeOK
    <3>3. Tells(receipt[w])'
      BY <3>1, <3>2, <1>3 DEF Tells
    <3> QED
      BY <3>2, <3>3, <1>1, <1>3 DEF WorkerReady
  <2>2. CASE receipt' = receipt /\ pc' = [pc EXCEPT ![w] = "failed"]
    BY <2>2 DEF IInv, TypeOK, WorkerReady
  <2> QED
    BY <1>4, <2>1, <2>2
<1>7. \A v \in Worker \ {w} : pc'[v] = pc[v] /\ receipt'[v] = receipt[v]
  BY <1>4 DEF IInv, TypeOK
<1> QED
  BY <1>3, <1>5, <1>6, <1>7, LocalStep

\* The bundle that is stored is the receipt the worker has validated; one that
\* is there already stays.
LEMMA PutStep ==
    ASSUME IInv, NEW w \in Worker, put_once(w)
    PROVE  IInv'
<1> USE DEF stored_vars, job_vars, order_vars, Go
<1>1. verification \in Verification /\ Tells(receipt[w])
  BY DEF IInv, WorkerReady, put_once
<1>2. receipt[w] \in Receipt /\ receipt[w] # None
  BY <1>1, NoneAssumption DEF Tells
<1>3. /\ UNCHANGED <<fulfillment, submitted_at, verification, notice, monitor,
                     job, attempt, owns, release, refused, faults>>
      /\ receipt' = [receipt EXCEPT ![w] = None]
  BY DEF put_once
<1>4. \/ bundle' = receipt[w] /\ pc' = [pc EXCEPT ![w] = "notice"]
      \/ /\ bundle' = bundle /\ bundle # None
         /\ \/ pc' = [pc EXCEPT ![w] = "notice"]
            \/ pc' = [pc EXCEPT ![w] = "failed"]
  BY DEF put_once, Stores
<1>5. bundle' # None /\ Tells(bundle)'
  <2>1. bundle' # None /\ Tells(bundle')
    BY <1>1, <1>2, <1>4 DEF IInv
  <2> QED
    BY <2>1, <1>3 DEF Tells
<1>6. TypeOK'
  BY <1>2, <1>3, <1>4 DEF IInv, TypeOK
<1>7. RowsFollowState'
  BY <1>3 DEF IInv, RowsFollowState
<1>8. ASSUME NEW v \in Worker PROVE WorkerReady(v)'
  <2>1. CASE v = w
    <3>1. pc'[w] \in {"notice", "failed"}
      BY <1>4 DEF IInv, TypeOK
    <3> QED
      BY <3>1, <2>1, <1>5 DEF WorkerReady
  <2>2. CASE v # w
    <3>1. pc'[v] = pc[v] /\ receipt'[v] = receipt[v]
      BY <2>2, <1>3, <1>4 DEF IInv, TypeOK
    <3> QED
      BY <3>1, <1>3, <1>5, RowsKept DEF IInv, WorkerReady
  <2> QED
    BY <2>1, <2>2
<1> QED
  BY <1>1, <1>3, <1>5, <1>6, <1>7, <1>8 DEF IInv, DownloadsAreBundled,
     NoticeHasBundle

LEMMA EnqueueStep ==
    ASSUME IInv, NEW w \in Worker, enqueue(w) \/ enqueue_once(w)
    PROVE  IInv'
<1> USE DEF stored_vars, job_vars, order_vars, Go
<1>1. /\ UNCHANGED <<fulfillment, submitted_at, verification, bundle, job,
                     attempt, owns, receipt, release, refused, faults>>
      /\ \/ /\ pc[w] = "notice" /\ notice' = TRUE /\ UNCHANGED monitor
            /\ pc' = [pc EXCEPT ![w] = "poll"]
         \/ /\ pc[w] = "poll" /\ monitor' = TRUE /\ UNCHANGED notice
            /\ pc' = [pc EXCEPT ![w] = "complete"]
  BY DEF enqueue, enqueue_once
<1>2. TypeOK'
  <2>1. TypeOK /\ UNCHANGED <<receipt, release, owns>>
    BY <1>1 DEF IInv
  <2>2. notice' \in BOOLEAN /\ monitor' \in BOOLEAN
    BY <1>1, <2>1 DEF TypeOK
  <2>3. pc' \in [Worker -> {"idle", "load", "build", "put", "notice", "poll",
                           "complete", "failed", "manual"}]
    BY <1>1, <2>1 DEF TypeOK
  <2> QED  BY <1>1, <2>1, <2>2, <2>3, Zenon DEF TypeOK
<1>3. RowsFollowState'
  BY <1>1 DEF IInv, RowsFollowState
<1>4. NoticeHasBundle'
  BY <1>1 DEF IInv, NoticeHasBundle, WorkerReady
<1>5. ASSUME NEW v \in Worker PROVE WorkerReady(v)'
  <2>1. CASE v = w
    BY <2>1, <1>1 DEF IInv, TypeOK, WorkerReady
  <2>2. CASE v # w
    <3>1. pc'[v] = pc[v]
      BY <2>2, <1>1 DEF IInv, TypeOK
    <3> QED
      BY <3>1, <1>1, RowsKept DEF IInv, WorkerReady
  <2> QED
    BY <2>1, <2>2
<1> QED
  BY <1>1, <1>2, <1>3, <1>4, <1>5, RowsKept DEF IInv, DownloadsAreBundled

\* The job is settled; the order may go to manual review, which takes no row.
LEMMA SettleStep ==
    ASSUME IInv, NEW w \in Worker, settle(w)
    PROVE  IInv'
<1> USE DEF stored_vars, job_vars, order_vars, Go
<1>1. /\ UNCHANGED <<submitted_at, verification, bundle, notice, monitor,
                     attempt, receipt, release, refused, faults>>
      /\ owns' = [owns EXCEPT ![w] = FALSE]
      /\ pc' = [pc EXCEPT ![w] = "idle"]
      /\ fulfillment' = fulfillment \/ fulfillment' = "manual_review"
      /\ job' = job \/ job' \in {"waiting", "complete", "closed"}
  BY DEF settle
<1>2. TypeOK'
  BY <1>1 DEF IInv, TypeOK
<1>3. RowsFollowState'
  BY <1>1 DEF IInv, RowsFollowState
<1>4. ASSUME NEW v \in Worker PROVE WorkerReady(v)'
  <2>1. CASE v = w
    BY <2>1, <1>1 DEF IInv, TypeOK, WorkerReady
  <2>2. CASE v # w
    <3>1. pc'[v] = pc[v]
      BY <2>2, <1>1 DEF IInv, TypeOK
    <3> QED
      BY <3>1, <1>1, RowsKept DEF IInv, WorkerReady
  <2> QED
    BY <2>1, <2>2
<1> QED
  BY <1>1, <1>2, <1>3, <1>4, RowsKept DEF IInv, DownloadsAreBundled,
     NoticeHasBundle

LEMMA LeaseStep ==
    ASSUME IInv, NEW w \in Worker, lease_expires(w)
    PROVE  IInv'
<1> USE DEF stored_vars, job_vars, order_vars
<1>1. TypeOK'
  BY FaultsAssumption DEF IInv, TypeOK, lease_expires
<1>2. UNCHANGED <<fulfillment, submitted_at, verification, bundle, notice,
                  monitor, refused, pc, receipt>>
  BY DEF lease_expires
<1>3. WorkerReady(w)'
  BY <1>2, RowsKept DEF IInv, WorkerReady
<1> QED
  BY <1>1, <1>2, <1>3, LocalStep

LEMMA RestartStep ==
    ASSUME IInv, NEW w \in Worker, restart(w)
    PROVE  IInv'
<1> USE DEF stored_vars, job_vars, order_vars, Go
<1>1. TypeOK'
  BY DEF IInv, TypeOK, restart
<1>2. WorkerReady(w)'
  BY DEF IInv, TypeOK, restart, WorkerReady
<1>3. \A v \in Worker \ {w} : pc'[v] = pc[v] /\ receipt'[v] = receipt[v]
  BY DEF IInv, TypeOK, restart
<1> QED
  BY <1>1, <1>2, <1>3, LocalStep DEF restart

LEMMA NextIInv == IInv /\ [Next]_vars => IInv'
<1> SUFFICES ASSUME IInv, [Next]_vars PROVE IInv'
  OBVIOUS
<1>1. CASE stamp \/ verify
  BY <1>1, OrderStep
<1>2. CASE pending_download
  BY <1>2, DownloadStep
<1>3. ASSUME NEW w \in Worker,
             \/ claim(w) \/ Handle(w) \/ settle(w)
             \/ lease_expires(w) \/ restart(w)
      PROVE  IInv'
  BY <1>3, ClaimStep, LoadStep, BuildStep, PutStep, EnqueueStep, SettleStep,
     LeaseStep, RestartStep DEF Handle
<1>4. CASE UNCHANGED vars
  <2>1. TypeOK'
    BY <1>4 DEF IInv, TypeOK, vars
  <2>2. RowsFollowState'
    BY <1>4 DEF IInv, RowsFollowState, vars
  <2>3. \A w \in Worker : WorkerReady(w)'
    BY <1>4, RowsKept DEF IInv, WorkerReady, vars
  <2> QED
    BY <1>4, <2>1, <2>2, <2>3, RowsKept DEF IInv, DownloadsAreBundled,
       NoticeHasBundle, vars
<1> QED
  BY <1>1, <1>2, <1>3, <1>4 DEF Next

-----------------------------------------------------------------------------

\* Whatever the clocks read, however many workers and releases deliver at once
\* and wherever they stop: a stored bundle tells the times of its proof, no
\* pending download is refused for its receipt, no notice precedes its bundle
\* and no monitor its notice (DeliveryHandler, build_proof_bundle, put_once).
THEOREM DeliveryIsSound == Spec => []BundlesAreSound
<1>1. IInv => BundlesAreSound
  BY DEF IInv, BundlesAreSound, BundleTellsTheProof, Tells
<1> QED
  BY <1>1, InitIInv, NextIInv, PTL DEF Spec
=============================================================================

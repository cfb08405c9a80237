---------------------------- MODULE ProofDownload ----------------------------
(***************************************************************************)
(* What a customer reads with a status token, order_status and             *)
(* proof_bundle, beside the handlers that carry the order out              *)
(* (Fulfillment).                                                          *)
(*                                                                         *)
(* authenticate locks the token of a download and loads the order without  *)
(* a lock.  The SELECT ... FOR UPDATE that follows waits for the row, but  *)
(* the session returns the object it already has, with the attributes it   *)
(* was loaded with: no statement asks for populate_existing.  A download   *)
(* of a pending proof builds its bundle between two transactions.  The     *)
(* status request locks nothing and reads its tables one after the other.  *)
(***************************************************************************)
EXTENDS Fulfillment

CONSTANTS
    Customer,       \* status and download requests in progress at once
    MaxDownloads    \* bound: downloads

VARIABLES
    token,          \* the order's token is not revoked
    sender,         \* the version whose initial notice was delivered, or 0
    downloads,      \* state_events of source customer_download
    request,        \* the locals of each request
    told            \* the last answer of order_status

customer_vars == <<token, sender, downloads, request, told>>
all_vars == <<vars, customer_vars>>

Artifact == {"persisted_verified", "generated_pending"}
Download == [version : Nat, kind : Artifact, stamp : Nat,
             att : SUBSET Calendar]
Request == [step : {"lock", "build", "relock", "proof", "bundle"},
            state : FulfillmentState, proof : StoredProof \cup {None}]
Status == [code : {200, 503}, state : FulfillmentState, version : Nat,
           available : BOOLEAN]

ASSUME CustomersAssumption ==
    /\ MaxDownloads \in Nat
    /\ None \notin Request \cup Status

\* Every request, download and answer has its type.
RequestsTypeOK ==
    /\ token \in BOOLEAN
    /\ sender \in Nat
    /\ downloads \in Seq(Download)
    /\ request \in [Customer -> Request \cup {None}]
    /\ told \in Status \cup {None}

CustomersInit ==
    /\ token = TRUE
    /\ sender = 0
    /\ downloads = <<>>
    /\ request = [d \in Customer |-> None]
    /\ told = None

-----------------------------------------------------------------------------
HasProof == {"calendar_pending"} \cup Confirmed

On(d, step) == request[d] # None /\ request[d].step = step
Ends(d) == request' = [request EXCEPT ![d] = None]
Moves(d, step, state, p) ==
    request' = [request EXCEPT ![d] =
                  [step |-> step, state |-> state, proof |-> p]]

\* Transactions of a download hold the token's row.
TokenFree == \A d \in Customer : ~On(d, "lock") /\ ~On(d, "relock")
authenticate == token /\ TokenFree

\* Mutant: the verification is projected by the order's state now.
LatestFor_now(state) == latest_for_order

\* latest_for_order with the order that the session has loaded.
LatestFor(state) ==
    IF proofs = <<>> THEN None
    ELSE [version |-> Version, stamp |-> proofs[Version].stamp,
          att |-> proofs[Version].att,
          evidence |->
            IF state \in Confirmed /\ IsVerified(Version) /\ IsObserved(Version)
            THEN [block |-> BlockOf(Version), count |-> LatestCount(Version)]
            ELSE None]

\* Mutant: the event names the proof's state instead of the artifact.
record_download_event_state(p, kind_of) ==
    /\ Len(downloads) < MaxDownloads
    /\ downloads' = Append(downloads,
          [version |-> p.version, stamp |-> p.stamp, att |-> p.att,
           kind |-> IF p.evidence = None THEN "calendar_pending"
                    ELSE "bitcoin_verified"])

record_download_event(p, kind_of) ==
    /\ Len(downloads) < MaxDownloads
    /\ downloads' = Append(downloads, [version |-> p.version, kind |-> kind_of,
                                       stamp |-> p.stamp, att |-> p.att])

-----------------------------------------------------------------------------
(* proof_bundle.                                                           *)

proof_bundle(d) ==
    /\ request[d] = None
    /\ authenticate
    /\ Moves(d, "lock", fulfillment, None)
    /\ UNCHANGED <<vars, token, sender, downloads, told>>

\* Mutant: a verified proof is served, bundle or not.
Served_verified(p) == p.evidence # None

\* A confirmed order is served the bundle that was stored for its version.
Served(p) == p.evidence # None /\ p.version \in bundles

select_verified(d) ==
    LET p == LatestFor(request[d].state)
    IN  /\ On(d, "lock")
        /\ request[d].state \in Confirmed
        /\ p # None
        /\ Served(p)
        /\ record_download_event(p, "persisted_verified")
        /\ Ends(d)
        /\ UNCHANGED <<vars, token, sender, told>>

select_pending(d) ==
    LET p == LatestFor(request[d].state)
    IN  /\ On(d, "lock")
        /\ request[d].state = "calendar_pending"
        /\ p # None
        /\ Moves(d, "build", request[d].state, p)
        /\ UNCHANGED <<vars, token, sender, downloads, told>>

\* 409 or 425: under review, not stamped yet, or no bundle yet.
select_refused(d) ==
    LET p == LatestFor(request[d].state)
    IN  /\ On(d, "lock")
        /\ \/ request[d].state \notin HasProof
           \/ p = None
           \/ request[d].state \in Confirmed /\ p # None /\ ~Served(p)
        /\ Ends(d)
        /\ UNCHANGED <<vars, token, sender, downloads, told>>

\* Mutant: the second transaction takes the token on trust.
Reauthenticates_not == TokenFree

Reauthenticates == authenticate

\* The bundle is built, and a second transaction begins.
build(d) ==
    /\ On(d, "build")
    /\ Reauthenticates
    /\ Moves(d, "relock", fulfillment, request[d].proof)
    /\ UNCHANGED <<vars, token, sender, downloads, told>>

\* Mutant: only the order is checked again.
SelectionIsCurrent_state(d) == request[d].state = "calendar_pending"

\* _pending_selection_is_current and the proof's metadata, read again.
SelectionIsCurrent(d) ==
    LET p == request[d].proof
    IN  /\ request[d].state = "calendar_pending"
        /\ p.version = Version
        /\ proofs[Version] = [stamp |-> p.stamp, att |-> p.att]

record_pending(d) ==
    /\ On(d, "relock")
    /\ SelectionIsCurrent(d)
    /\ record_download_event(request[d].proof, "generated_pending")
    /\ Ends(d)
    /\ UNCHANGED <<vars, token, sender, told>>

\* The selection is stale, the token revoked, or the process dies.
download_fails(d) ==
    /\ On(d, "build") \/ On(d, "lock") \/ On(d, "relock")
    /\ Ends(d)
    /\ UNCHANGED <<vars, token, sender, downloads, told>>

-----------------------------------------------------------------------------
(* order_status.                                                           *)

Tells(status, of_state, v, is_available) ==
    told' = [code |-> status, state |-> of_state, version |-> v,
             available |-> is_available]
Unavailable(state) == Tells(503, state, 0, FALSE)

order_status(d) ==
    /\ request[d] = None
    /\ token
    /\ IF fulfillment \in HasProof
       THEN Moves(d, "proof", fulfillment, None) /\ UNCHANGED told
       ELSE /\ Tells(200, fulfillment, 0, FALSE)
            /\ UNCHANGED request
    /\ UNCHANGED <<vars, token, sender, downloads>>

\* The proof must be in the state the order claims.
Fits(state, p) == p # None /\ (state \in Confirmed <=> p.evidence # None)

status_proof(d) ==
    LET state == request[d].state
        p == LatestFor(state)
    IN  /\ On(d, "proof")
        /\ IF ~Fits(state, p) THEN Unavailable(state) /\ Ends(d)
           ELSE IF state = "calendar_pending"
           THEN /\ Tells(200, state, p.version, TRUE)
                /\ Ends(d)
           ELSE Moves(d, "bundle", state, p) /\ UNCHANGED told
        /\ UNCHANGED <<vars, token, sender, downloads>>

\* Mutant: a verified proof is available, bundle or not.
Available_verified(p) == p.evidence # None

Available(p) == p.version \in bundles

\* _valid_delivery_sender: the notice of this version was delivered, and tells
\* a count that was observed.
ValidDeliverySender(p) ==
    /\ sender = p.version
    /\ \E m \in outbox :
          /\ m.kind = "initial"
          /\ m.version = p.version
          /\ \E x \in observations :
                x.version = p.version /\ x.count = m.count

status_bundle(d) ==
    LET state == request[d].state
        p == request[d].proof
    IN  /\ On(d, "bundle")
        /\ IF state = "delivered" /\ ~(Available(p) /\ ValidDeliverySender(p))
           THEN Unavailable(state)
           ELSE Tells(200, state, p.version, Available(p))
        /\ Ends(d)
        /\ UNCHANGED <<vars, token, sender, downloads>>

-----------------------------------------------------------------------------
\* rotate_token or a checkout that is answered again (Checkout).
token_revoked ==
    /\ token
    /\ TokenFree
    /\ token' = FALSE
    /\ UNCHANGED <<vars, sender, downloads, request, told>>

\* A step of Fulfillment.  The event that makes the order delivered is about
\* the notice of the version that is then current.
FulfillmentStep ==
    /\ Next
    /\ sender' = IF fulfillment # "delivered" /\ fulfillment' = "delivered"
                 THEN Version ELSE sender
    /\ UNCHANGED <<token, downloads, request, told>>

DownloadStep(d) ==
    \/ proof_bundle(d) \/ select_verified(d) \/ select_pending(d)
    \/ select_refused(d) \/ build(d) \/ record_pending(d) \/ download_fails(d)
StatusStep(d) == order_status(d) \/ status_proof(d) \/ status_bundle(d)

AllNext ==
    \/ FulfillmentStep
    \/ \E d \in Customer : DownloadStep(d) \/ StatusStep(d)
    \/ token_revoked

AllInit == Init /\ CustomersInit
AllSpec == AllInit /\ [][AllNext]_all_vars

-----------------------------------------------------------------------------
(* Properties.                                                             *)

\* A bundle that leaves as verified is of a version with its verification, an
\* observation and a stored bundle, however stale the order it was chosen by.
VerifiedDownloadsAreBacked ==
    \A i \in 1..Len(downloads) :
        downloads[i].kind = "persisted_verified" =>
            /\ IsVerified(downloads[i].version)
            /\ IsObserved(downloads[i].version)
            /\ downloads[i].version \in bundles

\* The proof that leaves is the latest version at the moment it is recorded,
\* byte for byte: an upgrade while the bundle is built ends the download.
LeavesCurrent ==
    LET last == downloads'[Len(downloads')]
    IN  /\ last.version = Version
        /\ proofs[Version] = [stamp |-> last.stamp, att |-> last.att]

\* Every download that is recorded is of the current proof, under a token that
\* is valid at that moment, also when a version was appended or the token was
\* rotated while the bundle was built (proof_bundle's second transaction).
DownloadsAreCurrent == [][downloads' # downloads => LeavesCurrent /\ token]_all_vars

\* While one worker carries the order out, the status of the order can be
\* answered at any time, though it reads order, proof, bundle and notice one
\* after the other.
StatusIsAnswered == told # None => told.code = 200

\* What the status calls available can be downloaded for as long as the order
\* stays confirmed.
AvailableIsServed ==
    told # None /\ fulfillment \in Confirmed =>
        (told.available /\ told.state \in Confirmed
            => Served(LatestFor(fulfillment)))

\* A customer is told the truth: the status is answered, what it calls available
\* is served, and what leaves as verified is backed by evidence
\* (order_status, proof_bundle).
StatusIsTrue ==
    /\ RequestsTypeOK
    /\ StatusIsAnswered
    /\ AvailableIsServed
    /\ VerifiedDownloadsAreBacked

\* What the code does not have (README.md, "Where code and documents part"):
\* docs/PAID_BITCOIN_TIMESTAMP_SERVICE_PLAN.md:95: "`stamping` and
\* `manual_review` suppress proof download."
ReviewSuppressesDownload ==
    [][downloads' # downloads => fulfillment # "manual_review"]_all_vars
=============================================================================

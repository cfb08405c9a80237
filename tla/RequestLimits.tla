---------------------------- MODULE RequestLimits ----------------------------
(***************************************************************************)
(* The limits in front of the API: the size of a request's body, and the   *)
(* number of requests of a client to an endpoint in one minute.            *)
(*                                                                         *)
(* HttpSecurityMiddleware is the outer of the two, so a request refused by *)
(* its headers is not counted.  The rate limit reads the clock and then    *)
(* counts in the database, where the requests of every API process meet;   *)
(* the upsert counts and reads in one statement, so it is one step.  The   *)
(* body is counted as it arrives, after the request has been admitted, and *)
(* the application may have begun its response by then.                    *)
(*                                                                         *)
(* A window is a minute.  Operators delete old counters; the cutoff they   *)
(* give must be older than any request still on its way to the counter,    *)
(* which is what MaxDelay says.                                            *)
(***************************************************************************)
EXTENDS Naturals, FiniteSets

CONSTANTS
    Request,
    Endpoint,
    Client,         \* addresses as _client_address gives them
    Limit,          \* requests per endpoint and window
    BodyLimit,      \* of a checkout or webhook body, in units
    MaxDelay,       \* bound: windows between the clock and the counter
    MaxWindow       \* bound: the clock

VARIABLES
    clock,      \* the window that is open
    counters,   \* rate_counters
    requests    \* what each request is and how far it has come

vars == <<clock, counters, requests>>

Window == 0..MaxWindow
Status == {"none", "bad_request", "too_large", "rate_limited", "answered"}
Step == {"new", "rate", "hit", "body", "aborted", "done"}
RequestState ==
    [step : Step, endpoint : Endpoint, client : Client, window : Window,
     received : Nat, started : BOOLEAN, admitted : BOOLEAN, status : Status,
     responses : Nat]

\* Every counter and request has its type, and no body exceeds its limit.
TypeOK ==
    /\ clock \in Window
    /\ counters \in [Endpoint \X Client \X Window -> 0..Cardinality(Request)]
    /\ requests \in [Request -> RequestState]
    /\ \A r \in Request : requests[r].received <= BodyLimit

Init ==
    /\ clock = 0
    /\ counters = [k \in Endpoint \X Client \X Window |-> 0]
    /\ requests \in [Request ->
          [step : {"new"}, endpoint : Endpoint, client : Client,
           window : {0}, received : {0}, started : {FALSE},
           admitted : {FALSE}, status : {"none"}, responses : {0}]]

At(r, step) == requests[r].step = step

\* One response to the request.
Respond(q, status) == [q EXCEPT !.step = "done", !.status = status,
                                !.responses = @ + 1]

\* The headers: the media type and the length must parse, and the declared
\* length must be within the limit.  A length that is not declared is 0.
headers(r) ==
    /\ At(r, "new")
    /\ \/ requests' = [requests EXCEPT ![r] = Respond(@, "bad_request")]
       \/ \E declared \in 0..BodyLimit + 1 :
             requests' = [requests EXCEPT ![r] =
                 IF declared > BodyLimit THEN Respond(@, "too_large")
                 ELSE [@ EXCEPT !.step = "rate"]]
    /\ UNCHANGED <<clock, counters>>

\* RateLimitMiddleware reads the clock before it opens a transaction.
read_clock(r) ==
    /\ At(r, "rate")
    /\ requests' = [requests EXCEPT ![r].step = "hit", ![r].window = clock]
    /\ UNCHANGED <<clock, counters>>

\* Mutant: the counter does not tell the endpoints' clients apart.
Key_shared(q) == <<q.endpoint, CHOOSE c \in Client : TRUE, q.window>>

Key(q) == <<q.endpoint, q.client, q.window>>

\* RateLimitStore.hit: the request is counted whether or not it is admitted.
hit(r) ==
    LET q == requests[r]
        count == counters[Key(q)] + 1
    IN  /\ At(r, "hit")
        /\ counters' = [counters EXCEPT ![Key(q)] = count]
        /\ requests' = [requests EXCEPT ![r] =
              IF count <= Limit[q.endpoint]
              THEN [q EXCEPT !.step = "body", !.admitted = TRUE]
              ELSE Respond(q, "rate_limited")]
        /\ UNCHANGED clock

\* Mutant: the body is only limited by the length that was declared.
Fits_declared(total) == TRUE

Fits(total) == total <= BodyLimit

\* limited_receive: one more unit of the body.
receive(r) ==
    LET total == requests[r].received + 1 IN
    /\ At(r, "body")
    /\ total <= BodyLimit + 1
    /\ requests' = [requests EXCEPT ![r] =
          IF Fits(total) THEN [@ EXCEPT !.received = total]
          ELSE [@ EXCEPT !.step = "aborted"]]
    /\ UNCHANGED <<clock, counters>>

\* The application begins its response, perhaps before it has read the body.
respond(r) ==
    /\ At(r, "body")
    /\ ~requests[r].started
    /\ requests' = [requests EXCEPT ![r].started = TRUE,
                                    ![r].responses = @ + 1]
    /\ UNCHANGED <<clock, counters>>

\* The response is complete.
complete(r) ==
    /\ At(r, "body")
    /\ requests[r].started
    /\ requests' = [requests EXCEPT ![r].step = "done",
                                    ![r].status = "answered"]
    /\ UNCHANGED <<clock, counters>>

\* Mutant: the refusal is sent after a response has begun.
MayRefuse_always(q) == TRUE

MayRefuse(q) == ~q.started

\* BodyLimitExceeded reaches the middleware: it answers unless the response
\* has begun, in which case the response is cut off.
body_limit_exceeded(r) ==
    /\ At(r, "aborted")
    /\ requests' = [requests EXCEPT ![r] =
          IF MayRefuse(@) THEN Respond(@, "too_large")
          ELSE [@ EXCEPT !.step = "done"]]
    /\ UNCHANGED <<clock, counters>>

\* Mutant: the cutoff itself is deleted too.
Expired_at_cutoff(w, cutoff) == w <= cutoff

Expired(w, cutoff) == w < cutoff

\* cleanup_ephemeral_records, the counters.  The code deletes with any cutoff it
\* is given; that the operator gives one in the past by more than a request may
\* be late is assumed here, and the limit rests on it.
cleanup ==
    /\ \E cutoff \in Window :
          /\ cutoff + MaxDelay <= clock
          /\ counters' = [k \in DOMAIN counters |->
                IF Expired(k[3], cutoff) THEN 0 ELSE counters[k]]
    /\ UNCHANGED <<clock, requests>>

\* The next minute; a request is at the counter within MaxDelay.
tick ==
    /\ clock < MaxWindow
    /\ \A r \in Request :
          At(r, "hit") => clock + 1 <= requests[r].window + MaxDelay
    /\ clock' = clock + 1
    /\ UNCHANGED <<counters, requests>>

Next ==
    \/ \E r \in Request : \/ headers(r) \/ read_clock(r) \/ hit(r)
                          \/ receive(r) \/ respond(r) \/ complete(r)
                          \/ body_limit_exceeded(r)
    \/ cleanup
    \/ tick

Spec == Init /\ [][Next]_vars

-----------------------------------------------------------------------------
Counted(q) == {r \in Request : /\ requests[r].admitted
                               /\ Key(requests[r]) = Key(q)}

\* However the requests of all processes interleave and whenever counters are
\* cleaned up, no more than the limit get through in one window
\* (RateLimitStore.hit, cleanup_ephemeral_records).
AdmittedWithinLimit ==
    \A r \in Request :
        requests[r].admitted =>
            Cardinality(Counted(requests[r])) <= Limit[requests[r].endpoint]

SameCaller(q, p) == /\ q.endpoint = p.endpoint
                    /\ q.client = p.client
                    /\ q.window = p.window

\* A client is refused only for its own requests: as many of its requests to
\* that endpoint as the limit allows have been admitted in that window.
RefusedAtLimitOnly ==
    \A r \in Request :
        requests[r].status = "rate_limited" =>
            Cardinality({s \in Request : /\ requests[s].admitted
                                         /\ SameCaller(requests[s], requests[r])})
                >= Limit[requests[r].endpoint]

\* A request is answered at most once, even when its body turns out to be too
\* large after the application began to answer (HttpSecurityMiddleware).
OneResponse == \A r \in Request : requests[r].responses <= 1

=============================================================================

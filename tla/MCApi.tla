-------------------------------- MODULE MCApi --------------------------------
(***************************************************************************)
(* The API process for TLC: opening a checkout and its tokens, the limits  *)
(* in front of every request, and the MetBull snapshot it starts with.     *)
(* The three share no state, so a behaviour keeps to one scenario and the  *)
(* variables of the other two stay as they are:                            *)
(*                                                                         *)
(*   requests   three checkout requests that take over each other's lease, *)
(*              two prices, and retention that makes the key new again;    *)
(*   rotations  two rotations, and checkouts that are answered again;      *)
(*   limits     three requests of two clients to two endpoints, one of     *)
(*              which lets one through and the other two, over three       *)
(*              windows;                                                   *)
(*   snapshot   two updates that meet one kill or power loss, while the    *)
(*              process starts and looks up.                               *)
(***************************************************************************)
EXTENDS Checkout, TLC

CONSTANTS
    r1, r2, r3, c1, c2, p1, p2,
    Endpoint, checkout, status, Address, Limit, BodyLimit, MaxDelay, MaxWindow,
    Reader, Code, Sentinel, CSV, MinimumRows, MaxUpdates, MaxFaults

VARIABLES
    clock, counters, limited,
    database, metadata, durable, pc, csv, database_temp, metadata_temp,
    before, phase, checked, seen, looked_up, updates, faults,
    scenario

limit_vars == <<clock, counters, limited>>
snapshot_vars == <<database, metadata, durable, pc, csv, database_temp,
                   metadata_temp, before, phase, checked, seen, looked_up,
                   updates, faults>>

Limits == INSTANCE RequestLimits WITH Client <- Address, requests <- limited
Snapshot == INSTANCE MetbullSnapshot WITH answers <- looked_up

\* One endpoint lets a client through once in a window, the other twice.
LimitOf == (checkout :> 1) @@ (status :> 2)

\* Exports of the sentinel and one more row, of each kind the checks tell apart.
Plain == [code |-> 2, allowed |-> TRUE, official |-> TRUE, year |-> "year",
          place |-> "country", latitude |-> "inside", longitude |-> "inside"]
Known == [Plain EXCEPT !.code = 1, !.latitude = "empty", !.longitude = "empty"]
Rows ==
    {Plain,
     [Plain EXCEPT !.official = FALSE, !.place = "region", !.year = "text"],
     [Plain EXCEPT !.latitude = "outside", !.place = "alias"],
     [Plain EXCEPT !.longitude = "empty"],
     [Plain EXCEPT !.allowed = FALSE]}
Exports ==
    {<<Known, row>> : row \in Rows}
        \cup {<<Known, [Known EXCEPT !.year = "zero"]>>, <<Known>>,
              <<Plain, Plain>>, <<[Known EXCEPT !.year = "zero"], Plain>>}

ASSUME ApiAssumption ==
    /\ IsFiniteSet(Request)
    /\ Limit \in [Endpoint -> Nat \ {0}]
    /\ MaxWindow \in Nat
    /\ BodyLimit \in Nat \ {0}
    /\ MaxDelay \in Nat
    /\ Sentinel \in Code
    /\ MinimumRows \in Nat
    /\ CSV \subseteq Seq(Snapshot!Row)
    /\ None \notin Snapshot!Databases
    /\ MaxUpdates \in Nat /\ MaxFaults \in Nat

-----------------------------------------------------------------------------
Bound ==
    [requests |-> [requests |-> 3, clients |-> 0, orders |-> 2, tokens |-> 3,
                   sessions |-> 3, deploys |-> TRUE],
     rotations |-> [requests |-> 2, clients |-> 2, orders |-> 1, tokens |-> 5,
                    sessions |-> 1, deploys |-> FALSE]]

Within(b) ==
    /\ Cardinality({r \in Request : requests'[r] # None}) <= b.requests
    /\ Cardinality({c \in Client : rotating'[c] # 0}) <= b.clients
    /\ Len(orders') <= b.orders
    /\ Len(tokens') <= b.tokens
    /\ Len(sessions') <= b.sessions
    /\ b.deploys \/ price' = price

LimitsUnused == clock = None /\ counters = None /\ limited = None
SnapshotUnused ==
    /\ database = None /\ metadata = None /\ durable = None
    /\ pc = None /\ csv = None /\ database_temp = None
    /\ metadata_temp = None /\ before = None /\ phase = None
    /\ checked = None /\ seen = None /\ looked_up = None
    /\ updates = None /\ faults = None

MCInit ==
    /\ scenario \in DOMAIN Bound \cup {"limits", "snapshot"}
    /\ Init
    /\ scenario \notin DOMAIN Bound => price = p1
    /\ IF scenario = "limits" THEN Limits!Init ELSE LimitsUnused
    /\ IF scenario = "snapshot" THEN Snapshot!Init ELSE SnapshotUnused

MCNext ==
    /\ UNCHANGED scenario
    /\ \/ /\ scenario \in DOMAIN Bound
          /\ Next
          /\ Within(Bound[scenario])
          /\ UNCHANGED <<limit_vars, snapshot_vars>>
       \/ /\ scenario = "limits"
          /\ Limits!Next
          /\ UNCHANGED <<vars, snapshot_vars>>
       \/ /\ scenario = "snapshot"
          /\ Snapshot!Next
          /\ UNCHANGED <<vars, limit_vars>>

MCSpec == MCInit /\ [][MCNext]_<<vars, limit_vars, snapshot_vars, scenario>>

\* Requests are alike.
Symmetry == Permutations(Request)

-----------------------------------------------------------------------------
(* The properties of the limits and of the snapshot.                       *)

\* However the requests of all processes interleave and whenever counters are
\* cleaned up: no more than the limit get through in one window, a client is
\* refused only for its own requests, and each request is answered once, even
\* when its body turns out to be too large after the application began to
\* answer (RateLimitStore.hit, HttpSecurityMiddleware).
LimitsHold ==
    scenario = "limits" =>
        /\ Limits!TypeOK
        /\ Limits!AdmittedWithinLimit
        /\ Limits!RefusedAtLimitOnly
        /\ Limits!OneResponse

\* Whatever update runs meanwhile, is refused or is killed: a process that serves
\* has checked a database and a metadata file of one export and can answer every
\* lookup; an update changes nothing before it replaces the database, and one
\* that completes leaves a matching pair (build_snapshot against
\* MeteoriticalBulletinSnapshot).
SnapshotIsWhole ==
    scenario = "snapshot" =>
        /\ Snapshot!TypeOK
        /\ Snapshot!StartedOnOneBuild
        /\ Snapshot!PublishedIsServable
        /\ Snapshot!UpdateRepairs
        /\ Snapshot!NothingBeforeReplace
=============================================================================

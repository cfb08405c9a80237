------------------------------- MODULE MCLive -------------------------------
(***************************************************************************)
(* What must happen in the end, for three loops that ask another service   *)
(* again and again: the notification worker (scenario "notices"), the      *)
(* upgrades of a proof ("calendars") and the requests to an Esplora        *)
(* provider ("transport").  They share no state, so a behaviour has one of *)
(* them at work, under the fairness of its own module.                     *)
(***************************************************************************)
EXTENDS Notification

CONSTANTS
    Calendar, Foreign, Commitment, Long, Call, Slots, MaxUpgrades, MaxPending,
    MaxCancels,
    Host, Asker, Address, Public, Connections, MaxChanges

VARIABLES proof, free, calls, issued, anchored, cancels
VARIABLES dns, changes, tasks, requests, free_connections, lookups, used, served
VARIABLE scenario

calendar_vars == <<proof, free, calls, issued, anchored, cancels>>
transport_vars == <<dns, changes, tasks, requests, free_connections, lookups,
                    used, served>>

\* No calendar answers garbage: one that keeps doing so keeps what the others
\* answer out of the proof.
Upgrades == INSTANCE Calendars WITH Faulty <- {}

Transport == INSTANCE EsploraTransport WITH
    Request <- Asker, Slots <- Connections, free <- free_connections

MCInit ==
    /\ scenario \in {"notices", "calendars", "transport"}
    /\ Init
    /\ Upgrades!Init
    /\ Transport!Init
    /\ scenario # "transport" => \A h \in Host : dns[h] = {}

MCNext ==
    /\ UNCHANGED scenario
    /\ \/ /\ scenario = "notices"
          /\ Next
          /\ UNCHANGED <<calendar_vars, transport_vars>>
       \/ /\ scenario = "calendars"
          /\ Upgrades!Next
          /\ UNCHANGED <<vars, transport_vars>>
       \/ /\ scenario = "transport"
          /\ Transport!Next
          /\ UNCHANGED <<vars, calendar_vars>>

MCFairSpec ==
    /\ MCInit
    /\ [][MCNext]_<<vars, calendar_vars, transport_vars, scenario>>
    /\ scenario = "notices" => Fairness
    /\ scenario = "calendars" => Upgrades!Fairness
    /\ scenario = "transport" => Transport!Fairness

\* What another server has is heard in the end.  As long as no calendar answers
\* garbage, the proof gets a Bitcoin attestation once a block attests one of its
\* commitments, if that one's calendar is on the allowlist, it is 32 bytes long
\* and the proof has no more pending attestations than an upgrade asks for
\* (upgrade_exact_digest, polled until something attests the proof); and a host
\* whose name was resolved is reached through timeouts and HTTP errors, because
\* no request keeps its slot (HttpxEsploraTransport.get).
ServersAreHeard == Upgrades!AnchoredIsFetched /\ Transport!PinnedIsServed
=============================================================================

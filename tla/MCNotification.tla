---------------------------- MODULE MCNotification ----------------------------
(***************************************************************************)
(* Notification for TLC.  A behaviour keeps to one scenario:               *)
(*                                                                         *)
(*   sending    three workers and the clock: leases that end, lost         *)
(*              answers, crashes, the end of the horizon;                  *)
(*   delivery   one worker and two webhook requests: reports that come     *)
(*              early, late or twice, while the confirmations change;      *)
(*   new_proof  a newer proof is stored while the notices of the old one   *)
(*              are out.                                                   *)
(***************************************************************************)
EXTENDS Notification, TLC

CONSTANTS w1, w2, w3, h1, h2

VARIABLE scenario

Bound ==
    [sending |-> [workers |-> 3, hooks |-> 0, clock |-> 8, version |-> 1,
                  observed |-> 0, reports |-> {}],
     delivery |-> [workers |-> 1, hooks |-> 2, clock |-> 0, version |-> 1,
                   observed |-> 2, reports |-> {"delivered", "failure"}],
     new_proof |-> [workers |-> 1, hooks |-> 1, clock |-> 0, version |-> 2,
                    observed |-> 1, reports |-> {"delivered"}]]

Within(b) ==
    /\ Cardinality({w \in Worker : workers'[w] # None}) <= b.workers
    /\ Cardinality({h \in Hook : hooks'[h] # None}) <= b.hooks
    /\ clock' <= b.clock
    /\ version' <= b.version
    /\ observed' <= b.observed
    /\ \A e \in reported' : e.type \in b.reports

MCInit == Init /\ scenario \in DOMAIN Bound
MCNext ==
    /\ Next
    /\ Within(Bound[scenario])
    /\ UNCHANGED scenario
MCSpec == MCInit /\ [][MCNext]_<<vars, scenario>>

\* Workers, and webhook requests, are alike.
Processes == Permutations(Worker) \cup Permutations(Hook)
=============================================================================

---------------------------- MODULE MCFulfillment ----------------------------
(***************************************************************************)
(* Fulfillment and ProofDownload for TLC.  A behaviour keeps to one        *)
(* scenario, so that each part of the order's life is explored deeper than *)
(* all of it could be at once:                                             *)
(*                                                                         *)
(*   stamping       overlapping attempts at the stamp job, lost leases and *)
(*                  refused tasks, refunds and disputes;                   *)
(*   upgrades       two calendars that are anchored at different heights,  *)
(*                  the operator's jobs beside the chain of polls;         *)
(*   confirmations  the order's whole life up to the final notice, with a  *)
(*                  lost lease or a refused task;                          *)
(*   download       one worker, and a customer who asks for status and     *)
(*                  proof between its steps.                               *)
(***************************************************************************)
EXTENDS ProofDownload, TLC

CONSTANTS r1, r2, c1, c2, d1

VARIABLE scenario

Bound ==
    [stamping |->
        [runs |-> 2, stamps |-> 3, anchored |-> 0, tip |-> 0, checks |-> 0,
         requests |-> 0, faults |-> 2, returns |-> TRUE, customers |-> FALSE],
     upgrades |->
        [runs |-> 2, stamps |-> 1, anchored |-> 2, tip |-> 2, checks |-> 1,
         requests |-> 1, faults |-> 0, returns |-> FALSE, customers |-> FALSE],
     confirmations |->
        [runs |-> 2, stamps |-> 1, anchored |-> 1, tip |-> 2, checks |-> 3,
         requests |-> 0, faults |-> 1, returns |-> FALSE, customers |-> FALSE],
     download |->
        [runs |-> 1, stamps |-> 1, anchored |-> 2, tip |-> 1, checks |-> 1,
         requests |-> 0, faults |-> 0, returns |-> FALSE, customers |-> TRUE]]

Within(b) ==
    /\ Cardinality({r \in Run : pc'[r] # "idle"}) <= b.runs
    /\ stamps' <= b.stamps
    /\ Cardinality({c \in Calendar : height'[c] # 0}) <= b.anchored
    /\ tip' <= b.tip
    /\ checks' <= b.checks
    /\ requests' <= b.requests
    /\ faults' <= b.faults
    /\ b.returns \/ payment' = payment

MCInit == AllInit /\ scenario \in DOMAIN Bound
MCNext ==
    /\ IF Bound[scenario].customers THEN AllNext ELSE FulfillmentStep
    /\ Within(Bound[scenario])
    /\ UNCHANGED scenario
MCSpec == MCInit /\ [][MCNext]_<<all_vars, scenario>>

Symmetry == Permutations(Run) \cup Permutations(Calendar)

\* States that differ only in locals no step reads any more are one state.
UsesSeen == Steps \ (Returned \cup {"idle", "load", "latest", "start", "submit",
                                    "after", "spawn", "poll", "failing", "failed"})
View ==
    <<order_vars, evidence_vars, job_vars, world_vars, pc, kind, owns, snap,
      [r \in Run |->
        <<IF pc[r] \in UsesSeen THEN seen[r] ELSE None,
          IF pc[r] \in {"put", "observe", "reverified"} THEN found[r] ELSE None,
          IF pc[r] \in {"recheck", "notice"} THEN basis[r] ELSE 0>>],
      bound_vars, customer_vars, scenario>>

=============================================================================

------------------------------ MODULE Calendars ------------------------------
(***************************************************************************)
(* MultiCalendarTimestamper: a digest is submitted to every allowlisted    *)
(* calendar, and the pending attestations of a proof are brought back to   *)
(* the calendars that issued them until Bitcoin attestations come.         *)
(*                                                                         *)
(* The jobs of one process share the timestamper, so their requests share  *)
(* its semaphore.  A request is queued, asks once it has a slot, and ends  *)
(* with an answer; a call goes on when all of its requests have ended.  A  *)
(* calendar may be unavailable at any time (timeout, DNS, HTTP error); one *)
(* in Faulty may also answer with bytes that are not a timestamp.          *)
(*                                                                         *)
(* A proof is reduced to its attestations: those pending, each a           *)
(* commitment and the calendar's URI, and the commitments a Bitcoin block  *)
(* attests.  The tree in between has been checked operation by operation   *)
(* when it is parsed.  Only commitments of 32 bytes can be asked for; Long *)
(* are the others.                                                         *)
(***************************************************************************)
EXTENDS Naturals, FiniteSets

CONSTANTS
    Calendar,       \* the allowlist
    Foreign,        \* URIs that are not on it
    Commitment,
    Long,           \* commitments that are not 32 bytes long
    Faulty,         \* calendars that may answer garbage
    Call,           \* handlers that run at the same time
    Slots,          \* MAX_CONCURRENT_CALENDAR_REQUESTS, 4 in the code
    MaxUpgrades,    \* MAX_UPGRADE_REQUESTS, 8 in the code
    MaxPending,     \* MAX_PENDING_ATTESTATIONS, 16 in the code
    MaxCancels,     \* bound: handlers cancelled
    None

ASSUME CalendarsAssumption ==
    /\ Cardinality(Calendar) >= 2
    /\ Long \subseteq Commitment
    /\ Faulty \subseteq Calendar
    /\ Slots \in Nat \ {0}
    /\ MaxUpgrades \in Nat \ {0}
    /\ MaxPending \in Nat \ {0}

VARIABLES
    proof,      \* the stored proof
    free,       \* the semaphore
    calls,      \* the locals of each call
    issued,     \* the calendars: commitments given out
    anchored,   \* the calendars: commitments in a Bitcoin block
    cancels

world_vars == <<issued, anchored>>
vars == <<proof, free, calls, issued, anchored, cancels>>

Pending == [commitment : Commitment, uri : Calendar \cup Foreign]
Proof == [pending : SUBSET Pending, blocks : SUBSET Commitment]
AnswerKind == {"queued", "asking", "unavailable", "nothing", "malformed",
               "timestamp"}
Answer == [kind : AnswerKind, pending : SUBSET Pending,
           blocks : SUBSET Commitment]
Outcome == {"none", "proof", "unavailable", "invalid"}

Ended(kind) == [kind |-> kind, pending |-> {}, blocks |-> {}]
Idle == [kind |-> "idle", base |-> None, asked |-> <<>>, outcome |-> "none"]

\* Every answer, call and slot has its type, and no stored proof has more
\* pending attestations than its parser takes.
TypeOK ==
    /\ proof \in Proof \cup {None}
    /\ proof # None => Cardinality(proof.pending) <= MaxPending
    /\ free \in 0..Slots
    /\ issued \subseteq Commitment
    /\ anchored \subseteq issued
    /\ \A c \in Call :
          /\ calls[c].kind \in {"idle", "stamp", "upgrade"}
          /\ calls[c].base \in Proof \cup {None}
          /\ calls[c].outcome \in Outcome
          /\ \A t \in DOMAIN calls[c].asked : calls[c].asked[t] \in Answer

Init ==
    /\ proof = None
    /\ free = Slots
    /\ calls = [c \in Call |-> Idle]
    /\ issued = {}
    /\ anchored = {}
    /\ cancels = 0

Started(kind, base, targets) ==
    [kind |-> kind, base |-> base,
     asked |-> [t \in targets |-> Ended("queued")], outcome |-> "none"]

Asked(c) == DOMAIN calls[c].asked
With(c, kind) == {t \in Asked(c) : calls[c].asked[t].kind = kind}
Waiting(c) == /\ calls[c].kind # "idle"
              /\ With(c, "queued") \cup With(c, "asking") = {}

-----------------------------------------------------------------------------
(* One request: _submit and _upgrade.                                      *)

acquire(c, t) ==
    /\ t \in With(c, "queued")
    /\ free > 0
    /\ free' = free - 1
    /\ calls' = [calls EXCEPT ![c].asked[t].kind = "asking"]
    /\ UNCHANGED <<proof, world_vars, cancels>>

\* Mutant: a slot is given back only by a request that was answered.
Released_answered(kind) == IF kind = "unavailable" THEN 0 ELSE 1

\* However the request ends, its slot is free again.
Released(kind) == 1

End(c, t, answer) ==
    /\ t \in With(c, "asking")
    /\ free' = free + Released(answer.kind)
    /\ calls' = [calls EXCEPT ![c].asked[t] = answer]
    /\ UNCHANGED <<proof, cancels>>

\* The calendar of a request.
CalendarOf(c, t) == IF calls[c].kind = "stamp" THEN t ELSE t.uri

unavailable(c, t) == End(c, t, Ended("unavailable")) /\ UNCHANGED world_vars

malformed(c, t) ==
    /\ t \in With(c, "asking")
    /\ CalendarOf(c, t) \in Faulty
    /\ End(c, t, Ended("malformed"))
    /\ UNCHANGED world_vars

\* A calendar takes the digest: it answers with pending attestations under
\* commitments of its own and the URI it calls itself by.
submitted(c, t) ==
    /\ calls[c].kind = "stamp"
    /\ \E p \in SUBSET [commitment : Commitment \ issued, uri : {t} \cup Foreign] :
          /\ Cardinality(p) \in 1..2
          /\ End(c, t, [kind |-> "timestamp", pending |-> p, blocks |-> {}])
          /\ issued' = issued \cup {x.commitment : x \in p}
    /\ UNCHANGED anchored

\* A calendar is asked for a commitment: it has nothing yet, or the path to
\* the block.  A commitment of another length is never sent.
fetched(c, t) ==
    /\ calls[c].kind = "upgrade"
    /\ t \in With(c, "asking")
    /\ t.commitment \notin Long
    /\ End(c, t, IF t.commitment \in anchored
                 THEN [kind |-> "timestamp", pending |-> {},
                       blocks |-> {t.commitment}]
                 ELSE Ended("nothing"))
    /\ UNCHANGED world_vars

-----------------------------------------------------------------------------
(* stamp_exact_digest.                                                     *)

begin_stamp(c) ==
    /\ calls[c].kind = "idle"
    /\ proof = None
    /\ calls' = [calls EXCEPT ![c] = Started("stamp", None, Calendar)]
    /\ UNCHANGED <<proof, free, world_vars, cancels>>

Merged(c, base) ==
    [pending |-> base.pending \cup
                 UNION {calls[c].asked[t].pending : t \in Asked(c)},
     blocks |-> base.blocks \cup
                UNION {calls[c].asked[t].blocks : t \in Asked(c)}]

\* Mutant: the merged tree is not counted again.
Valid_any(p) == TRUE

\* validate_timestamp_tree: a proof may hold so many pending attestations.
Valid(p) == Cardinality(p.pending) <= MaxPending

\* What became of a stamp stays to be seen until the next call.
Conclude(c, outcome) ==
    calls' = [calls EXCEPT ![c].kind = "idle", ![c].outcome = outcome]

\* Mutant: one answer that does not parse spoils the stamp.
Stamped_all(c) == /\ With(c, "timestamp") # {}
                  /\ With(c, "malformed") = {}

\* An answer that does not parse is passed over.
Stamped(c) == With(c, "timestamp") # {}

\* The first version that is stored is the proof of the order.
end_stamp(c) ==
    LET new == Merged(c, [pending |-> {}, blocks |-> {}]) IN
    /\ Waiting(c)
    /\ calls[c].kind = "stamp"
    /\ IF ~Stamped(c) THEN Conclude(c, "unavailable") /\ UNCHANGED proof
       ELSE IF ~Valid(new) THEN Conclude(c, "invalid") /\ UNCHANGED proof
       ELSE /\ Conclude(c, "proof")
            /\ proof' = IF proof = None THEN new ELSE proof
    /\ UNCHANGED <<free, world_vars, cancels>>

-----------------------------------------------------------------------------
(* upgrade_exact_digest.                                                   *)

Upgradable(p) == {x \in p.pending : x.uri \in Calendar}

\* Too many to ask for is refused before the first request, and a proof
\* without any is returned as it is: in both cases nothing changes.
begin_upgrade(c) ==
    /\ calls[c].kind = "idle"
    /\ proof # None
    /\ Cardinality(Upgradable(proof)) \in 1..MaxUpgrades
    /\ calls' = [calls EXCEPT ![c] =
                    Started("upgrade", proof, Upgradable(proof))]
    /\ UNCHANGED <<proof, free, world_vars, cancels>>

\* Mutant: what the calendars answered is not serialized.
Upgraded_unchanged(c) == calls[c].base

Upgraded(c) == Merged(c, calls[c].base)

\* Mutant: a proof is replaced though it has changed since it was read.
Replaces_any(c) == TRUE

\* SqlProofStore.append takes the next version of what was read only.
Replaces(c) == proof = calls[c].base

\* Here an answer that does not parse discards the others as well.
end_upgrade(c) ==
    /\ Waiting(c)
    /\ calls[c].kind = "upgrade"
    /\ proof' = IF With(c, "malformed") = {} /\ Replaces(c)
                THEN Upgraded(c) ELSE proof
    /\ calls' = [calls EXCEPT ![c] = Idle]
    /\ UNCHANGED <<free, world_vars, cancels>>

-----------------------------------------------------------------------------
\* A worker that lost its lease cancels the handler: requests that ask give
\* their slots back.
cancel(c) ==
    /\ calls[c].kind # "idle"
    /\ cancels < MaxCancels
    /\ cancels' = cancels + 1
    /\ free' = free + Cardinality(With(c, "asking"))
    /\ calls' = [calls EXCEPT ![c] = Idle]
    /\ UNCHANGED <<proof, world_vars>>

anchor ==
    /\ \E k \in issued \ anchored : anchored' = anchored \cup {k}
    /\ UNCHANGED <<proof, free, calls, issued, cancels>>

Request(c, t) == \/ acquire(c, t) \/ unavailable(c, t) \/ malformed(c, t)
                 \/ submitted(c, t) \/ fetched(c, t)

Next ==
    \/ \E c \in Call : \/ begin_stamp(c) \/ end_stamp(c)
                       \/ begin_upgrade(c) \/ end_upgrade(c) \/ cancel(c)
                       \/ \E t \in Asked(c) : Request(c, t)
    \/ anchor

Spec == Init /\ [][Next]_vars

\* A proof without a Bitcoin attestation is pending, whoever verifies it, and is
\* polled again; one that has an attestation may be verified or condemned, and
\* then the calendars are asked no more.
Polled == proof # None /\ proof.blocks = {}

\* Upgrades go on as long as nothing attests the proof, every request ends by its
\* timeout, and a calendar that is asked again and again answers in the end.
Fairness ==
    \A c \in Call :
        /\ WF_vars(Polled /\ begin_upgrade(c))
        /\ WF_vars(end_stamp(c) \/ end_upgrade(c))
        /\ WF_vars(\E t \in Asked(c) : Request(c, t))
        /\ \A k \in Commitment :
              SF_vars(\E t \in Asked(c) : /\ calls[c].kind = "upgrade"
                                         /\ t.commitment = k
                                         /\ fetched(c, t))
FairSpec == Spec /\ Fairness

-----------------------------------------------------------------------------
(* Properties.                                                             *)

\* No slot is lost and none is made up, through answers, failures and
\* cancelled handlers: otherwise the worker ends up unable to ask anyone
\* (MultiCalendarTimestamper._request_slots).
SlotsAreReturned ==
    LET asking == UNION {{c} \X With(c, "asking") : c \in Call}
    IN  free + Cardinality(asking) = Slots

\* A stamp fails only if no calendar gave a timestamp, or all of them together
\* gave too many: one calendar that is down or broken does not fail it.
StampSurvivesOutage ==
    \A c \in Call :
        (/\ calls[c].kind = "idle"
         /\ calls[c].outcome \in {"unavailable", "invalid"}) =>
            \/ With(c, "timestamp") = {}
            \/ ~Valid(Merged(c, [pending |-> {}, blocks |-> {}]))

\* The calls leave the timestamper as they found it and fail only for a reason,
\* whatever the calendars answer (stamp_exact_digest, upgrade_exact_digest).
CallsAreSound == TypeOK /\ SlotsAreReturned /\ StampSurvivesOutage

\* What a proof once attests it attests in every later version, whatever the
\* calendars answer and however two upgrades overlap.
ProofOnlyGrows ==
    [][proof # None => /\ proof.pending \subseteq proof'.pending
                       /\ proof.blocks \subseteq proof'.blocks]_vars

Fetchable(k) ==
    /\ proof # None
    /\ \E x \in Upgradable(proof) : x.commitment = k
    /\ Cardinality(Upgradable(proof)) <= MaxUpgrades
    /\ k \in anchored \ Long

\* As long as no calendar answers garbage, the proof gets a Bitcoin attestation
\* in the end once some block attests a commitment whose calendar is on the
\* allowlist and that is 32 bytes long, if the proof has no more pending
\* attestations than an upgrade asks for.  It need not get a second one: when the
\* first is verified the calendars are asked no more.
AnchoredIsFetched ==
    (\E k \in Commitment : Fetchable(k)) ~> (proof # None /\ proof.blocks # {})

=============================================================================

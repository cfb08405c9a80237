--------------------------- MODULE Calendars_proofs ---------------------------
(***************************************************************************)
(* The calls of the timestamper are sound and a proof only grows, for any  *)
(* calendars, commitments, handlers and limits.                            *)
(*                                                                         *)
(* SlotsAreReturned counts the requests that ask, so it needs their number *)
(* to be finite, that a call which is over has no request left (QuietInv), *)
(* and what a request may answer to which call (TargetsInv).  That a new   *)
(* version stays within the parser's limit needs that an upgrade brings no *)
(* pending attestation, and that what it extends is the stored proof.      *)
(***************************************************************************)
EXTENDS Calendars, FiniteSetTheorems, TLAPS

-----------------------------------------------------------------------------
(* The inductive invariant.                                                *)

Target == Calendar \cup Pending
CallState ==
    [kind : {"idle", "stamp", "upgrade"}, base : Proof \cup {None},
     asked : UNION {[T -> Answer] : T \in SUBSET Target}, outcome : Outcome]

\* The requests that hold a slot.
Asking == UNION {{c} \X With(c, "asking") : c \in Call}

StateInv ==
    /\ proof \in Proof \cup {None}
    /\ proof # None => Cardinality(proof.pending) <= MaxPending
    /\ issued \subseteq Commitment
    /\ anchored \subseteq issued
    /\ calls \in [Call -> CallState]

\* A call that is over has no request that still runs.
QuietInv ==
    \A c \in Call : calls[c].kind = "idle" =>
        With(c, "queued") = {} /\ With(c, "asking") = {}

\* A stamp asks calendars; an upgrade of a proof asks for its pending
\* attestations and is not given new ones.
TargetsInv ==
    \A c \in Call :
        /\ calls[c].kind = "stamp" => Asked(c) \subseteq Calendar
        /\ calls[c].kind = "upgrade" =>
              /\ Asked(c) \subseteq Pending
              /\ calls[c].base \in Proof
              /\ calls[c].base # None
              /\ \A t \in Asked(c) : calls[c].asked[t].pending = {}

SlotsInv ==
    /\ free \in Nat
    /\ IsFiniteSet(Asking)
    /\ free + Cardinality(Asking) = Slots

IInv ==
    /\ StateInv
    /\ QuietInv
    /\ TargetsInv
    /\ SlotsInv
    /\ StampSurvivesOutage

-----------------------------------------------------------------------------
(* Calls and their requests.                                               *)

\* What StateInv says of one call.
LEMMA CallTypes ==
    ASSUME StateInv, NEW c \in Call
    PROVE  /\ calls[c] \in CallState
           /\ calls[c].kind \in {"idle", "stamp", "upgrade"}
           /\ calls[c].base \in Proof \cup {None}
           /\ calls[c].outcome \in Outcome
           /\ Asked(c) \subseteq Target
           /\ calls[c].asked \in [Asked(c) -> Answer]
<1>1. calls[c] \in CallState
  BY DEF StateInv
<1>2. /\ calls[c].kind \in {"idle", "stamp", "upgrade"}
      /\ calls[c].base \in Proof \cup {None}
      /\ calls[c].outcome \in Outcome
      /\ calls[c].asked \in UNION {[T -> Answer] : T \in SUBSET Target}
  BY <1>1 DEF CallState
<1>3. PICK T \in SUBSET Target : calls[c].asked \in [T -> Answer]
  BY <1>2
<1> QED  BY <1>1, <1>2, <1>3 DEF Asked

\* A request that holds a slot is one of its call.
LEMMA AskingPairs ==
    \A c, t : <<c, t>> \in Asking <=> c \in Call /\ t \in With(c, "asking")
  BY DEF Asking

\* An ended answer is an answer.
LEMMA EndedIsAnswer ==
    ASSUME NEW kind \in AnswerKind
    PROVE  /\ Ended(kind) \in Answer
           /\ Ended(kind).kind = kind
           /\ Ended(kind).pending = {}
           /\ Ended(kind).blocks = {}
  BY DEF Ended, Answer

\* A call without requests is a state of a call.
LEMMA IdleIsState ==
    /\ Idle \in CallState
    /\ Idle.kind = "idle"
    /\ Idle.outcome = "none"
    /\ DOMAIN Idle.asked = {}
<1>1. <<>> \in [{} -> Answer]
  OBVIOUS
<1>2. <<>> \in UNION {[T -> Answer] : T \in SUBSET Target}
  BY <1>1
<1> QED  BY <1>2 DEF Idle, CallState, Outcome

\* One request of one call has a new answer, and nothing else of a call.
OneAnswer(c, t, a) ==
    /\ calls' \in [Call -> CallState]
    /\ \A d \in Call : d # c => calls'[d] = calls[d]
    /\ calls'[c].kind = calls[c].kind
    /\ calls'[c].base = calls[c].base
    /\ calls'[c].outcome = calls[c].outcome
    /\ DOMAIN calls'[c].asked = Asked(c)
    /\ \A s \in Asked(c) :
          calls'[c].asked[s] = IF s = t THEN a ELSE calls[c].asked[s]

\* What changes when one request of a call goes on: the others stay.
LEMMA RequestChange ==
    ASSUME StateInv, NEW c \in Call, NEW t \in Asked(c), NEW a \in Answer,
           calls' = [calls EXCEPT ![c].asked[t] = a]
    PROVE  OneAnswer(c, t, a)
<1>1. /\ calls[c] \in CallState
      /\ calls[c].asked \in [Asked(c) -> Answer]
      /\ Asked(c) \subseteq Target
  BY CallTypes
<1>2. PICK y : y = [calls[c].asked EXCEPT ![t] = a]
  OBVIOUS
<1>3. /\ y \in [Asked(c) -> Answer]
      /\ DOMAIN y = Asked(c)
      /\ \A s \in Asked(c) : y[s] = IF s = t THEN a ELSE calls[c].asked[s]
  BY <1>1, <1>2
<1>4. y \in UNION {[T -> Answer] : T \in SUBSET Target}
  BY <1>1, <1>3
<1>5. PICK z : z = [calls[c] EXCEPT !.asked = y]
  OBVIOUS
<1>6. /\ z \in CallState
      /\ z.kind = calls[c].kind
      /\ z.base = calls[c].base
      /\ z.outcome = calls[c].outcome
      /\ z.asked = y
  BY <1>1, <1>4, <1>5, Zenon DEF CallState
<1>7. calls' = [calls EXCEPT ![c] = z]
  BY <1>2, <1>5
<1>8. /\ calls' \in [Call -> CallState]
      /\ \A d \in Call : d # c => calls'[d] = calls[d]
      /\ calls'[c] = z
  BY <1>6, <1>7 DEF StateInv
<1> QED  BY <1>3, <1>6, <1>8 DEF OneAnswer

\* The invariants that do not count survive a request that goes on.
LEMMA RequestKeeps ==
    ASSUME IInv, NEW c \in Call, NEW t \in Asked(c), NEW a \in Answer,
           t \in With(c, "queued") \cup With(c, "asking"),
           calls[c].kind = "upgrade" => a.pending = {},
           calls' = [calls EXCEPT ![c].asked[t] = a]
    PROVE  /\ calls' \in [Call -> CallState]
           /\ QuietInv'
           /\ TargetsInv'
           /\ StampSurvivesOutage'
           /\ a.kind = "asking" => Asking' = Asking \cup {<<c, t>>}
           /\ a.kind # "asking" => Asking' = Asking \ {<<c, t>>}
<1>1. /\ calls' \in [Call -> CallState]
      /\ \A d \in Call : d # c => calls'[d] = calls[d]
      /\ calls'[c].kind = calls[c].kind
      /\ calls'[c].base = calls[c].base
      /\ calls'[c].outcome = calls[c].outcome
      /\ DOMAIN calls'[c].asked = Asked(c)
      /\ \A s \in Asked(c) :
            calls'[c].asked[s] = IF s = t THEN a ELSE calls[c].asked[s]
  <2>1. StateInv
    BY DEF IInv
  <2>2. OneAnswer(c, t, a)
    BY <2>1, RequestChange
  <2> QED  BY <2>2 DEF OneAnswer
<1>2. calls[c].kind # "idle"
  BY DEF IInv, QuietInv
<1>3. QuietInv'
  BY <1>1, <1>2 DEF IInv, QuietInv, With, Asked
<1>4. TargetsInv'
  <2>1. Asked(c)' = Asked(c)
    BY <1>1 DEF Asked
  <2>2. ASSUME NEW d \in Call, d # c
        PROVE  Asked(d)' = Asked(d) /\ calls'[d] = calls[d]
    BY <1>1, <2>2 DEF Asked
  <2>3. ASSUME calls'[c].kind = "upgrade"
        PROVE  \A s \in Asked(c) : calls'[c].asked[s].pending = {}
    BY <1>1, <2>3 DEF IInv, TargetsInv
  <2> QED  BY <1>1, <2>1, <2>2, <2>3 DEF IInv, TargetsInv
<1>5. StampSurvivesOutage'
  <2>1. ASSUME NEW d \in Call, d # c
        PROVE  /\ calls'[d] = calls[d]
               /\ With(d, "timestamp")' = With(d, "timestamp")
               /\ Merged(d, [pending |-> {}, blocks |-> {}])'
                     = Merged(d, [pending |-> {}, blocks |-> {}])
    BY <1>1, <2>1 DEF With, Merged, Asked
  <2> QED  BY <1>1, <1>2, <2>1 DEF IInv, StampSurvivesOutage, Valid
<1>6. ASSUME NEW d \in Call, d # c
      PROVE  With(d, "asking")' = With(d, "asking")
  BY <1>1, <1>6 DEF With, Asked
<1>7. With(c, "asking")' = IF a.kind = "asking" THEN With(c, "asking") \cup {t}
                           ELSE With(c, "asking") \ {t}
  BY <1>1 DEF With, Asked
<1>8. ASSUME a.kind = "asking"
      PROVE  Asking' = Asking \cup {<<c, t>>}
  BY <1>6, <1>7, <1>8 DEF Asking
<1>9. ASSUME a.kind # "asking"
      PROVE  Asking' = Asking \ {<<c, t>>}
  BY <1>6, <1>7, <1>9 DEF Asking
<1> QED  BY <1>1, <1>3, <1>4, <1>5, <1>8, <1>9

\* What changes when a call is begun, over or cancelled: the requests it had
\* give their slots back.
LEMMA CallChange ==
    ASSUME IInv, NEW c \in Call, NEW z \in CallState,
           calls' = [calls EXCEPT ![c] = z],
           \A s \in DOMAIN z.asked : z.asked[s].kind # "asking",
           z.kind = "idle" => \A s \in DOMAIN z.asked : z.asked[s].kind # "queued",
           z.kind = "stamp" => DOMAIN z.asked \subseteq Calendar,
           z.kind = "upgrade" => /\ DOMAIN z.asked \subseteq Pending
                                 /\ z.base \in Proof
                                 /\ z.base # None
                                 /\ \A s \in DOMAIN z.asked : z.asked[s].pending = {},
           z.kind = "idle" /\ z.outcome \in {"unavailable", "invalid"} =>
              \/ With(c, "timestamp")' = {}
              \/ ~Valid(Merged(c, [pending |-> {}, blocks |-> {}]))'
    PROVE  /\ calls' \in [Call -> CallState]
           /\ QuietInv'
           /\ TargetsInv'
           /\ StampSurvivesOutage'
           /\ Asking' = Asking \ ({c} \X With(c, "asking"))
<1>1. /\ calls' \in [Call -> CallState]
      /\ \A d \in Call : d # c => calls'[d] = calls[d]
      /\ calls'[c] = z
  BY DEF IInv, StateInv
<1>2. QuietInv'
  BY <1>1 DEF IInv, QuietInv, With, Asked
<1>3. TargetsInv'
  BY <1>1 DEF IInv, TargetsInv, Asked
<1>4. StampSurvivesOutage'
  <2>1. ASSUME NEW d \in Call, d # c
        PROVE  /\ calls'[d] = calls[d]
               /\ With(d, "timestamp")' = With(d, "timestamp")
               /\ Merged(d, [pending |-> {}, blocks |-> {}])'
                     = Merged(d, [pending |-> {}, blocks |-> {}])
    BY <1>1, <2>1 DEF With, Merged, Asked
  <2> QED  BY <1>1, <2>1 DEF IInv, StampSurvivesOutage, Valid
<1>5. ASSUME NEW d \in Call, d # c
      PROVE  With(d, "asking")' = With(d, "asking")
  BY <1>1, <1>5 DEF With, Asked
<1>6. With(c, "asking")' = {}
  BY <1>1 DEF With, Asked
<1>7. Asking' = Asking \ ({c} \X With(c, "asking"))
  BY <1>5, <1>6 DEF Asking
<1> QED  BY <1>1, <1>2, <1>3, <1>4, <1>7

\* The slots of one call are as many as its requests that ask.
LEMMA SlotsOfCall ==
    ASSUME IInv, NEW c \in Call
    PROVE  /\ IsFiniteSet(With(c, "asking"))
           /\ Cardinality({c} \X With(c, "asking")) = Cardinality(With(c, "asking"))
           /\ {c} \X With(c, "asking") \subseteq Asking
           /\ Cardinality(With(c, "asking")) \in Nat
<1>w. PICK W : W = With(c, "asking")
  OBVIOUS
<1>p. PICK P : P = {c} \X W
  OBVIOUS
<1>1. P \subseteq Asking
  BY <1>w, <1>p DEF Asking
<1>2. IsFiniteSet(P)
  BY <1>1, FS_Subset DEF IInv, SlotsInv
<1>3. PICK f : f = [x \in P |-> x[2]]
  OBVIOUS
<1>4. f \in Bijection(P, W)
  <2>1. f \in [P -> W]
    BY <1>3, <1>p
  <2>2. \A x, y \in P : f[x] = f[y] => x = y
    BY <1>3, <1>p
  <2>3. \A w \in W : \E x \in P : f[x] = w
    <3>1. SUFFICES ASSUME NEW w \in W PROVE \E x \in P : f[x] = w
      OBVIOUS
    <3>2. <<c, w>> \in P /\ f[<<c, w>>] = w
      BY <1>3, <1>p
    <3> QED  BY <3>2
  <2> QED  BY <2>1, <2>2, <2>3, Zenon DEF Bijection, Injection, IsInjective, Surjection
<1>5. ExistsBijection(P, W)
  BY <1>4 DEF ExistsBijection
<1>6. IsFiniteSet(W) /\ Cardinality(W) = Cardinality(P)
  BY <1>2, <1>5, FS_Bijection
<1>7. Cardinality(W) \in Nat
  BY <1>6, FS_CardinalityType
<1> QED  BY <1>w, <1>p, <1>1, <1>6, <1>7

\* Slots after one more request asks.
LEMMA SlotTaken ==
    ASSUME IInv, NEW x, x \notin Asking, Asking' = Asking \cup {x},
           free > 0, free' = free - 1
    PROVE  SlotsInv'
<1>1. IsFiniteSet(Asking) /\ free \in Nat /\ free + Cardinality(Asking) = Slots
  BY DEF IInv, SlotsInv
<1>2. IsFiniteSet(Asking \cup {x}) /\ Cardinality(Asking \cup {x}) = Cardinality(Asking) + 1
  BY <1>1, FS_AddElement
<1>3. Cardinality(Asking) \in Nat
  BY <1>1, FS_CardinalityType
<1> QED  BY <1>1, <1>2, <1>3 DEF SlotsInv

\* Slots after some requests have ended.
LEMMA SlotsGiven ==
    ASSUME IInv, NEW P, P \subseteq Asking, Asking' = Asking \ P,
           free' = free + Cardinality(P)
    PROVE  SlotsInv'
<1>1. IsFiniteSet(Asking) /\ free \in Nat /\ free + Cardinality(Asking) = Slots
  BY DEF IInv, SlotsInv
<1>2. IsFiniteSet(P) /\ Cardinality(P) <= Cardinality(Asking)
  BY <1>1, FS_Subset
<1>3. Asking \cap P = P
  OBVIOUS
<1>4. IsFiniteSet(Asking \ P) /\ Cardinality(Asking \ P) = Cardinality(Asking) - Cardinality(P)
  BY <1>1, <1>3, FS_Difference
<1>5. Cardinality(Asking) \in Nat /\ Cardinality(P) \in Nat
  BY <1>1, <1>2, FS_CardinalityType
<1> QED  BY <1>1, <1>2, <1>4, <1>5 DEF SlotsInv

-----------------------------------------------------------------------------
(* The steps.                                                              *)

\* A request that has waited takes a slot.
LEMMA AcquireStep ==
    ASSUME IInv, NEW c \in Call, NEW t \in Asked(c), acquire(c, t)
    PROVE  IInv'
<1>1. /\ t \in With(c, "queued")
      /\ free > 0
      /\ free' = free - 1
      /\ UNCHANGED <<proof, issued, anchored>>
  BY DEF acquire, world_vars
<1>2. PICK a : a = [calls[c].asked[t] EXCEPT !.kind = "asking"]
  OBVIOUS
<1>3. /\ calls[c].asked[t] \in Answer
      /\ calls[c].asked[t].kind = "queued"
  BY <1>1, CallTypes DEF IInv, With
<1>4. /\ a \in Answer
      /\ a.kind = "asking"
      /\ a.pending = calls[c].asked[t].pending
  BY <1>2, <1>3 DEF Answer, AnswerKind
<1>5. calls' = [calls EXCEPT ![c].asked[t] = a]
  BY <1>2 DEF acquire
<1>6. calls[c].kind = "upgrade" => a.pending = {}
  BY <1>4 DEF IInv, TargetsInv
<1>7. /\ calls' \in [Call -> CallState]
      /\ QuietInv'
      /\ TargetsInv'
      /\ StampSurvivesOutage'
      /\ Asking' = Asking \cup {<<c, t>>}
  BY <1>1, <1>4, <1>5, <1>6, RequestKeeps
<1>8. <<c, t>> \notin Asking
  BY <1>3, AskingPairs DEF With
<1>9. SlotsInv'
  BY <1>1, <1>7, <1>8, SlotTaken
<1>10. StateInv'
  BY <1>1, <1>7 DEF IInv, StateInv
<1> QED  BY <1>7, <1>9, <1>10 DEF IInv

\* A request ends with an answer, and gives its slot back.
LEMMA EndStep ==
    ASSUME IInv, NEW c \in Call, NEW t \in Asked(c), NEW a \in Answer,
           End(c, t, a), a.kind # "asking",
           calls[c].kind = "upgrade" => a.pending = {},
           issued' \subseteq Commitment, anchored' \subseteq issued'
    PROVE  IInv'
<1>1. /\ t \in With(c, "asking")
      /\ free' = free + 1
      /\ calls' = [calls EXCEPT ![c].asked[t] = a]
      /\ proof' = proof
  BY DEF End, Released
<1>2. /\ calls' \in [Call -> CallState]
      /\ QuietInv'
      /\ TargetsInv'
      /\ StampSurvivesOutage'
      /\ Asking' = Asking \ {<<c, t>>}
  BY <1>1, RequestKeeps
<1>3. {<<c, t>>} \subseteq Asking
  BY <1>1, AskingPairs
<1>4. Cardinality({<<c, t>>}) = 1
  BY FS_Singleton, Zenon
<1>5. SlotsInv'
  BY <1>1, <1>2, <1>3, <1>4, SlotsGiven
<1>6. StateInv'
  BY <1>1, <1>2 DEF IInv, StateInv
<1> QED  BY <1>2, <1>5, <1>6 DEF IInv

\* Every answer to a request, and none.
LEMMA RequestStep ==
    ASSUME IInv, NEW c \in Call, NEW t \in Asked(c), Request(c, t)
    PROVE  IInv'
<1>w. issued \subseteq Commitment /\ anchored \subseteq issued
  BY DEF IInv, StateInv
<1>1. CASE acquire(c, t)
  BY <1>1, AcquireStep
<1>2. CASE unavailable(c, t) \/ malformed(c, t)
  <2>1. PICK kind \in {"unavailable", "malformed"} :
           End(c, t, Ended(kind)) /\ UNCHANGED <<issued, anchored>>
    BY <1>2 DEF unavailable, malformed, world_vars
  <2>2. kind \in AnswerKind /\ kind # "asking"
    BY DEF AnswerKind
  <2>3. PICK a : a = Ended(kind)
    OBVIOUS
  <2>4. a \in Answer /\ a.kind # "asking" /\ a.pending = {}
    BY <2>2, <2>3, EndedIsAnswer
  <2> QED  BY <1>w, <2>1, <2>3, <2>4, EndStep
<1>3. CASE submitted(c, t)
  <2>1. PICK p \in SUBSET [commitment : Commitment \ issued, uri : {t} \cup Foreign] :
           /\ End(c, t, [kind |-> "timestamp", pending |-> p, blocks |-> {}])
           /\ issued' = issued \cup {x.commitment : x \in p}
    BY <1>3 DEF submitted
  <2>2. calls[c].kind = "stamp" /\ anchored' = anchored
    BY <1>3 DEF submitted
  <2>3. t \in Calendar
    BY <2>2 DEF IInv, TargetsInv
  <2>4. p \subseteq Pending
    BY <2>3 DEF Pending
  <2>5. \A x \in p : x.commitment \in Commitment
    BY <2>4 DEF Pending
  <2>6. PICK a : a = [kind |-> "timestamp", pending |-> p, blocks |-> {}]
    OBVIOUS
  <2>7. a \in Answer /\ a.kind # "asking"
    BY <2>4, <2>6 DEF Answer, AnswerKind
  <2>8. issued' \subseteq Commitment /\ anchored' \subseteq issued'
    BY <1>w, <2>1, <2>2, <2>5
  <2>9. calls[c].kind # "upgrade"
    BY <2>2
  <2> QED  BY <2>1, <2>6, <2>7, <2>8, <2>9, EndStep
<1>4. CASE fetched(c, t)
  <2>1. PICK a : a = IF t.commitment \in anchored
                     THEN [kind |-> "timestamp", pending |-> {},
                           blocks |-> {t.commitment}]
                     ELSE Ended("nothing")
    OBVIOUS
  <2>2. /\ calls[c].kind = "upgrade"
        /\ End(c, t, a)
        /\ UNCHANGED <<issued, anchored>>
    BY <1>4, <2>1 DEF fetched, world_vars
  <2>3. a \in Answer /\ a.kind # "asking" /\ a.pending = {}
    <3>1. CASE t.commitment \in anchored
      <4>1. t.commitment \in Commitment
        BY <1>w, <3>1
      <4>2. a = [kind |-> "timestamp", pending |-> {}, blocks |-> {t.commitment}]
        BY <2>1, <3>1
      <4> QED  BY <4>1, <4>2 DEF Answer, AnswerKind
    <3>2. CASE t.commitment \notin anchored
      <4>1. a = Ended("nothing") /\ "nothing" \in AnswerKind
        BY <2>1, <3>2 DEF AnswerKind
      <4> QED  BY <4>1, EndedIsAnswer
    <3> QED  BY <3>1, <3>2
  <2> QED  BY <1>w, <2>2, <2>3, EndStep
<1> QED  BY <1>1, <1>2, <1>3, <1>4 DEF Request

\* A call begins with its requests queued, after one that is over.
LEMMA BeginStep ==
    ASSUME IInv, NEW c \in Call, begin_stamp(c) \/ begin_upgrade(c)
    PROVE  IInv'
<1>1. PICK kind, base, T :
         /\ kind \in {"stamp", "upgrade"}
         /\ calls[c].kind = "idle"
         /\ calls' = [calls EXCEPT ![c] = Started(kind, base, T)]
         /\ \/ kind = "stamp" /\ base = None /\ T = Calendar
            \/ kind = "upgrade" /\ base = proof /\ proof # None /\ T = Upgradable(proof)
         /\ UNCHANGED <<proof, free, issued, anchored>>
  BY DEF begin_stamp, begin_upgrade, world_vars
<1>2. /\ base \in Proof \cup {None}
      /\ T \in SUBSET Target
      /\ kind = "stamp" => T \subseteq Calendar
      /\ kind = "upgrade" => T \subseteq Pending /\ base \in Proof /\ base # None
  <2>1. proof \in Proof \cup {None}
    BY DEF IInv, StateInv
  <2>2. proof # None => Upgradable(proof) \subseteq Pending
    BY <2>1 DEF Upgradable, Proof
  <2> QED  BY <1>1, <2>1, <2>2 DEF Target
<1>3. PICK z : z = Started(kind, base, T)
  OBVIOUS
<1>4. /\ z \in CallState
      /\ z.kind = kind
      /\ z.base = base
      /\ z.outcome = "none"
      /\ DOMAIN z.asked = T
      /\ \A s \in T : z.asked[s] = Ended("queued")
  <2>1. PICK g : g = [s \in T |-> Ended("queued")]
    OBVIOUS
  <2>2. Ended("queued") \in Answer
    BY EndedIsAnswer DEF AnswerKind
  <2>3. g \in [T -> Answer] /\ DOMAIN g = T /\ \A s \in T : g[s] = Ended("queued")
    BY <2>1, <2>2
  <2>4. g \in UNION {[U -> Answer] : U \in SUBSET Target}
    BY <1>2, <2>3
  <2>5. z = [kind |-> kind, base |-> base, asked |-> g, outcome |-> "none"]
    BY <1>3, <2>1 DEF Started
  <2>6. z \in CallState
    BY <1>1, <1>2, <2>4, <2>5 DEF CallState, Outcome
  <2> QED  BY <2>3, <2>5, <2>6
<1>5. Ended("queued").kind = "queued" /\ Ended("queued").pending = {}
  BY EndedIsAnswer DEF AnswerKind
<1>6. /\ calls' \in [Call -> CallState]
      /\ QuietInv'
      /\ TargetsInv'
      /\ StampSurvivesOutage'
      /\ Asking' = Asking \ ({c} \X With(c, "asking"))
  <2>1. calls' = [calls EXCEPT ![c] = z]
    BY <1>1, <1>3
  <2>2. \A s \in DOMAIN z.asked : z.asked[s].kind # "asking" /\ z.asked[s].pending = {}
    BY <1>4, <1>5
  <2>3. z.kind # "idle"
    BY <1>1, <1>4
  <2> QED  BY <1>2, <1>4, <2>1, <2>2, <2>3, CallChange
<1>7. With(c, "asking") = {}
  BY <1>1 DEF IInv, QuietInv
<1>8. Asking' = Asking
  BY <1>6, <1>7
<1>9. SlotsInv'
  BY <1>1, <1>8 DEF IInv, SlotsInv
<1>10. StateInv'
  BY <1>1, <1>6 DEF IInv, StateInv
<1> QED  BY <1>6, <1>9, <1>10 DEF IInv

\* A call that is over or cancelled gives back the slots it had.
LEMMA IdleChange ==
    ASSUME IInv, NEW c \in Call, calls' = [calls EXCEPT ![c] = Idle]
    PROVE  /\ calls' \in [Call -> CallState]
           /\ QuietInv'
           /\ TargetsInv'
           /\ StampSurvivesOutage'
           /\ Asking' = Asking \ ({c} \X With(c, "asking"))
<1>1. /\ Idle \in CallState
      /\ Idle.kind = "idle"
      /\ Idle.outcome = "none"
      /\ DOMAIN Idle.asked = {}
  BY IdleIsState
<1>2. PICK z \in CallState : z = Idle
  BY <1>1
<1>3. /\ calls' = [calls EXCEPT ![c] = z]
      /\ z.kind = "idle"
      /\ z.outcome = "none"
      /\ DOMAIN z.asked = {}
  BY <1>1, <1>2
<1> QED  BY <1>3, CallChange

\* What the answers of a call add up to is a proof.
LEMMA MergedIsProof ==
    ASSUME IInv, NEW c \in Call, NEW base \in Proof
    PROVE  /\ Merged(c, base) \in Proof
           /\ base.pending \subseteq Merged(c, base).pending
           /\ base.blocks \subseteq Merged(c, base).blocks
<1>1. \A t \in Asked(c) : calls[c].asked[t] \in Answer
  BY CallTypes DEF IInv
<1>2. \A t \in Asked(c) : /\ calls[c].asked[t].pending \subseteq Pending
                          /\ calls[c].asked[t].blocks \subseteq Commitment
  BY <1>1 DEF Answer
<1>3. base.pending \subseteq Pending /\ base.blocks \subseteq Commitment
  BY DEF Proof
<1>4. PICK p, b :
         /\ p = base.pending \cup UNION {calls[c].asked[t].pending : t \in Asked(c)}
         /\ b = base.blocks \cup UNION {calls[c].asked[t].blocks : t \in Asked(c)}
  OBVIOUS
<1>5. p \subseteq Pending /\ b \subseteq Commitment
  BY <1>2, <1>3, <1>4
<1>6. Merged(c, base) = [pending |-> p, blocks |-> b]
  BY <1>4 DEF Merged
<1> QED  BY <1>4, <1>5, <1>6 DEF Proof

\* A stamp is over, with a proof or for one of the two reasons not to have one.
LEMMA EndStampStep ==
    ASSUME IInv, NEW c \in Call, end_stamp(c)
    PROVE  IInv'
<1>e. PICK e : e = [pending |-> {}, blocks |-> {}]
  OBVIOUS
<1>1. /\ With(c, "queued") = {}
      /\ With(c, "asking") = {}
      /\ UNCHANGED <<free, issued, anchored>>
  BY DEF end_stamp, Waiting, world_vars
<1>2. PICK o \in Outcome :
         /\ Conclude(c, o)
         /\ o = "unavailable" => With(c, "timestamp") = {}
         /\ o = "invalid" => ~Valid(Merged(c, e))
         /\ \/ proof' = proof
            \/ proof' = Merged(c, e) /\ Valid(Merged(c, e))
  BY <1>e DEF end_stamp, Stamped, Outcome
<1>3. PICK z : z = [calls[c] EXCEPT !.kind = "idle", !.outcome = o]
  OBVIOUS
<1>4. /\ z \in CallState
      /\ z.kind = "idle"
      /\ z.outcome = o
      /\ z.asked = calls[c].asked
  <2>1. calls[c] \in CallState
    BY CallTypes DEF IInv
  <2> QED  BY <1>3, <2>1, Zenon DEF CallState
<1>5. calls' = [calls EXCEPT ![c] = z] /\ calls'[c] = z
  <2>1. calls' = [calls EXCEPT ![c] = z]
    BY <1>2, <1>3 DEF Conclude
  <2> QED  BY <2>1 DEF IInv, StateInv
<1>6. /\ With(c, "timestamp")' = With(c, "timestamp")
      /\ Merged(c, [pending |-> {}, blocks |-> {}])' = Merged(c, e)
  <2>1. calls'[c].asked = calls[c].asked
    BY <1>4, <1>5
  <2>2. Asked(c)' = Asked(c)
    BY <2>1 DEF Asked
  <2>3. /\ UNION {calls'[c].asked[t].pending : t \in Asked(c)'}
              = UNION {calls[c].asked[t].pending : t \in Asked(c)}
        /\ UNION {calls'[c].asked[t].blocks : t \in Asked(c)'}
              = UNION {calls[c].asked[t].blocks : t \in Asked(c)}
    BY <2>1, <2>2, Zenon
  <2>4. Merged(c, [pending |-> {}, blocks |-> {}])'
           = Merged(c, [pending |-> {}, blocks |-> {}])
    BY <2>3 DEF Merged
  <2> QED  BY <1>e, <2>1, <2>2, <2>4 DEF With
<1>7. o \in {"unavailable", "invalid"} =>
         \/ With(c, "timestamp")' = {}
         \/ ~Valid(Merged(c, [pending |-> {}, blocks |-> {}]))'
  BY <1>2, <1>6 DEF Valid
<1>8. \A s \in DOMAIN z.asked : z.asked[s].kind # "asking" /\ z.asked[s].kind # "queued"
  BY <1>1, <1>4 DEF With, Asked
<1>9. /\ calls' \in [Call -> CallState]
      /\ QuietInv'
      /\ TargetsInv'
      /\ StampSurvivesOutage'
      /\ Asking' = Asking \ ({c} \X With(c, "asking"))
  BY <1>4, <1>5, <1>7, <1>8, CallChange
<1>10. Asking' = Asking
  BY <1>1, <1>9
<1>11. SlotsInv'
  BY <1>1, <1>10 DEF IInv, SlotsInv
<1>12. StateInv'
  <2>1. e \in Proof
    BY <1>e DEF Proof
  <2>2. Merged(c, e) \in Proof
    BY <2>1, MergedIsProof
  <2> QED  BY <1>1, <1>2, <1>9, <2>2 DEF IInv, StateInv, Valid
<1> QED  BY <1>9, <1>11, <1>12 DEF IInv

\* What an upgrade makes of the stored proof: nothing, or the proof it read
\* with what the calendars answered.
LEMMA UpgradeChange ==
    ASSUME IInv, NEW c \in Call, end_upgrade(c)
    PROVE  \/ proof' = proof
           \/ /\ proof \in Proof
              /\ proof # None
              /\ proof' \in Proof
              /\ proof'.pending = proof.pending
              /\ proof.blocks \subseteq proof'.blocks
<1>1. calls[c].kind = "upgrade"
  BY DEF end_upgrade
<1>2. PICK base : base = calls[c].base
  OBVIOUS
<1>3. /\ base \in Proof
      /\ base # None
      /\ \A t \in Asked(c) : calls[c].asked[t].pending = {}
  BY <1>1, <1>2 DEF IInv, TargetsInv
<1>4. CASE proof' # proof
  <2>1. proof = base /\ proof' = Merged(c, base)
    BY <1>2, <1>4 DEF end_upgrade, Replaces, Upgraded
  <2>2. /\ Merged(c, base) \in Proof
        /\ base.blocks \subseteq Merged(c, base).blocks
    BY <1>3, MergedIsProof
  <2>3. UNION {calls[c].asked[t].pending : t \in Asked(c)} = {}
    BY <1>3
  <2>4. Merged(c, base).pending = base.pending
    BY <2>3 DEF Merged
  <2> QED  BY <1>3, <2>1, <2>2, <2>4
<1> QED  BY <1>4

\* An upgrade is over.
LEMMA EndUpgradeStep ==
    ASSUME IInv, NEW c \in Call, end_upgrade(c)
    PROVE  IInv'
<1>1. /\ With(c, "asking") = {}
      /\ calls' = [calls EXCEPT ![c] = Idle]
      /\ UNCHANGED <<free, issued, anchored>>
  BY DEF end_upgrade, Waiting, world_vars
<1>2. /\ calls' \in [Call -> CallState]
      /\ QuietInv'
      /\ TargetsInv'
      /\ StampSurvivesOutage'
      /\ Asking' = Asking \ ({c} \X With(c, "asking"))
  BY <1>1, IdleChange
<1>3. Asking' = Asking
  BY <1>1, <1>2
<1>4. SlotsInv'
  BY <1>1, <1>3 DEF IInv, SlotsInv
<1>5. StateInv'
  BY <1>1, <1>2, UpgradeChange DEF IInv, StateInv
<1> QED  BY <1>2, <1>4, <1>5 DEF IInv

\* A handler is cancelled while its requests ask.
LEMMA CancelStep ==
    ASSUME IInv, NEW c \in Call, cancel(c)
    PROVE  IInv'
<1>1. /\ free' = free + Cardinality(With(c, "asking"))
      /\ calls' = [calls EXCEPT ![c] = Idle]
      /\ UNCHANGED <<proof, issued, anchored>>
  BY DEF cancel, world_vars
<1>2. /\ calls' \in [Call -> CallState]
      /\ QuietInv'
      /\ TargetsInv'
      /\ StampSurvivesOutage'
      /\ Asking' = Asking \ ({c} \X With(c, "asking"))
  BY <1>1, IdleChange
<1>3. PICK P : P = {c} \X With(c, "asking")
  OBVIOUS
<1>4. P \subseteq Asking /\ Cardinality(P) = Cardinality(With(c, "asking"))
  BY <1>3, SlotsOfCall
<1>5. SlotsInv'
  BY <1>1, <1>2, <1>3, <1>4, SlotsGiven
<1>6. StateInv'
  BY <1>1, <1>2 DEF IInv, StateInv
<1> QED  BY <1>2, <1>5, <1>6 DEF IInv

\* A step that touches no call and no slot.
LEMMA OtherStep ==
    ASSUME IInv, UNCHANGED <<proof, free, calls>>,
           issued' \subseteq Commitment, anchored' \subseteq issued'
    PROVE  IInv'
<1>1. /\ \A c \in Call : Asked(c)' = Asked(c)
      /\ Asking' = Asking
  BY DEF Asking, With, Asked
<1>2. StateInv'
  BY DEF IInv, StateInv
<1>3. QuietInv' /\ TargetsInv'
  BY DEF IInv, QuietInv, TargetsInv, With, Asked
<1>4. SlotsInv'
  BY <1>1 DEF IInv, SlotsInv
<1>5. StampSurvivesOutage'
  BY DEF IInv, StampSurvivesOutage, With, Merged, Asked, Valid
<1> QED  BY <1>2, <1>3, <1>4, <1>5 DEF IInv

-----------------------------------------------------------------------------
(* The theorems.                                                           *)

\* The invariant holds in the first state.
LEMMA InitIInv == Init => IInv
<1> SUFFICES ASSUME Init PROVE IInv
  OBVIOUS
<1>1. \A c \in Call : calls[c] = Idle
  BY DEF Init
<1>2. \A c \in Call : Asked(c) = {}
  BY <1>1, IdleIsState DEF Asked
<1>3. \A c \in Call, k \in AnswerKind : With(c, k) = {}
  BY <1>2 DEF With
<1>4. Asking = {}
  BY <1>3 DEF Asking, AnswerKind
<1>5. StateInv
  BY <1>1, IdleIsState DEF Init, StateInv
<1>6. QuietInv
  BY <1>3 DEF QuietInv, AnswerKind
<1>7. TargetsInv
  BY <1>1, IdleIsState DEF TargetsInv
<1>8. SlotsInv
  BY <1>4, FS_EmptySet, CalendarsAssumption DEF Init, SlotsInv
<1>9. StampSurvivesOutage
  BY <1>1, IdleIsState DEF StampSurvivesOutage
<1> QED  BY <1>5, <1>6, <1>7, <1>8, <1>9 DEF IInv

\* Every step preserves the invariant.
LEMMA NextIInv == IInv /\ [Next]_vars => IInv'
<1> SUFFICES ASSUME IInv, [Next]_vars PROVE IInv'
  OBVIOUS
<1>w. issued \subseteq Commitment /\ anchored \subseteq issued
  BY DEF IInv, StateInv
<1>1. ASSUME NEW c \in Call,
             begin_stamp(c) \/ end_stamp(c) \/ begin_upgrade(c)
             \/ end_upgrade(c) \/ cancel(c)
      PROVE  IInv'
  BY <1>1, BeginStep, EndStampStep, EndUpgradeStep, CancelStep
<1>2. ASSUME NEW c \in Call, NEW t \in Asked(c), Request(c, t)
      PROVE  IInv'
  BY <1>2, RequestStep
<1>3. CASE anchor
  BY <1>3, <1>w, OtherStep DEF anchor
<1>4. CASE UNCHANGED vars
  BY <1>4, <1>w, OtherStep DEF vars
<1> QED  BY <1>1, <1>2, <1>3, <1>4 DEF Next

\* The invariant gives what the runs check.
LEMMA IInvIsSound == IInv => CallsAreSound
<1> SUFFICES ASSUME IInv PROVE CallsAreSound
  OBVIOUS
<1>1. SlotsAreReturned
  BY DEF IInv, SlotsInv, SlotsAreReturned, Asking
<1>2. free \in 0..Slots
  <2>1. Cardinality(Asking) \in Nat
    BY FS_CardinalityType DEF IInv, SlotsInv
  <2> QED  BY <2>1, CalendarsAssumption DEF IInv, SlotsInv
<1>3. ASSUME NEW c \in Call
      PROVE  /\ calls[c].kind \in {"idle", "stamp", "upgrade"}
             /\ calls[c].base \in Proof \cup {None}
             /\ calls[c].outcome \in Outcome
             /\ \A t \in DOMAIN calls[c].asked : calls[c].asked[t] \in Answer
  BY CallTypes DEF IInv, Asked
<1>4. TypeOK
  BY <1>2, <1>3 DEF IInv, StateInv, TypeOK
<1> QED  BY <1>1, <1>4 DEF IInv, CallsAreSound

\* No slot of the shared semaphore is lost or made up, through answers,
\* failures and cancelled handlers; a stamp fails only if no calendar gave a
\* timestamp, or all together too many; and no stored proof has more pending
\* attestations than its parser takes (MultiCalendarTimestamper).
THEOREM CallsSound == Spec => []CallsAreSound
<1>1. Spec => []IInv
  BY InitIInv, NextIInv, PTL DEF Spec
<1> QED  BY <1>1, IInvIsSound, PTL

\* What each step makes of the stored proof.
LEMMA ProofSteps ==
    ASSUME IInv, Next, proof # None
    PROVE  /\ proof.pending \subseteq proof'.pending
           /\ proof.blocks \subseteq proof'.blocks
<1>1. ASSUME NEW c \in Call, end_upgrade(c)
      PROVE  /\ proof.pending \subseteq proof'.pending
             /\ proof.blocks \subseteq proof'.blocks
  BY <1>1, UpgradeChange
<1>2. ASSUME NEW c \in Call,
             begin_stamp(c) \/ end_stamp(c) \/ begin_upgrade(c) \/ cancel(c)
      PROVE  proof' = proof
  BY <1>2 DEF begin_stamp, end_stamp, begin_upgrade, cancel
<1>3. ASSUME NEW c \in Call, NEW t \in Asked(c), Request(c, t)
      PROVE  proof' = proof
  BY <1>3 DEF Request, acquire, unavailable, malformed, submitted, fetched, End
<1>4. CASE anchor
  BY <1>4 DEF anchor
<1> QED  BY <1>1, <1>2, <1>3, <1>4 DEF Next

\* What a proof once attests it attests in every later version, whatever the
\* calendars answer and however two upgrades overlap (SqlProofStore.append,
\* upgrade_exact_digest).
THEOREM ProofGrows == Spec => ProofOnlyGrows
<1>1. IInv /\ [Next]_vars =>
         [proof # None => /\ proof.pending \subseteq proof'.pending
                          /\ proof.blocks \subseteq proof'.blocks]_vars
  BY ProofSteps
<1>2. Spec => []IInv
  BY InitIInv, NextIInv, PTL DEF Spec
<1> QED  BY <1>1, <1>2, PTL DEF Spec, ProofOnlyGrows

=============================================================================

----------------------------- MODULE RpcVerifier -----------------------------
(***************************************************************************)
(* BitcoinCoreRpcVerifier: one call of verify_exact_digest against one     *)
(* Bitcoin Core node whose best chain moves while it is asked.  Every RPC  *)
(* is a step of its own.  What the node says of the chain is true of the   *)
(* moment it is asked; a call that fails and an answer that is refused end *)
(* the verification at any RPC.                                            *)
(***************************************************************************)
EXTENDS BlockTree, Integers, FiniteSets

CONSTANTS
    MinimumConfirmations,
    MaxReorgs,      \* bound: reorganizations of the node
    None

VARIABLES
    best,       \* the block the node takes for the tip
    reorgs,     \* how often it left a branch
    sound,      \* whether it is a main chain node that answers as it should
    held,       \* the tips it had during the call
    call,       \* the locals of the call
    result

chain_vars == <<blocks, best, reorgs, sound>>
vars == <<blocks, best, reorgs, sound, held, call, result>>

BlockEvidence == [height : Nat, block : Block, confirmations : Nat]
Call == [candidates : SUBSET Candidate, todo : SUBSET Candidate,
         step : {"snapshot", "next", "header", "recheck"},
         snapshot : Block \cup {None}, hash : Block \cup {None},
         evidence : SUBSET BlockEvidence, pending : SUBSET Nat]
Result == [kind : {"verified", "pending", "invalid", "unavailable"},
           height : Nat, block : Block \cup {None}, confirmations : Nat,
           candidates : SUBSET Candidate]

\* Every block, local and answer has its type.
TypeOK ==
    /\ blocks \in Seq(Seq(Block))
    /\ best \in 1..Len(blocks)
    /\ reorgs \in Nat
    /\ sound \in BOOLEAN
    /\ held \subseteq 1..Len(blocks)
    /\ call \in Call \cup {None}
    /\ result \in Result \cup {None}

Init ==
    /\ GenesisOnly
    /\ best = 1
    /\ reorgs = 0
    /\ sound \in BOOLEAN
    /\ held = {}
    /\ call = None
    /\ result = None

-----------------------------------------------------------------------------
mine(parent) ==
    /\ call = None
    /\ result = None
    /\ Grows(parent)
    /\ UNCHANGED <<best, reorgs, sound, held, call, result>>

follow(b) ==
    /\ result = None
    /\ b # best
    /\ \/ Holds(b, best) /\ UNCHANGED reorgs
       \/ /\ ~Holds(b, best)
          /\ reorgs < MaxReorgs
          /\ reorgs' = reorgs + 1
    /\ best' = b
    /\ held' = IF call = None THEN held ELSE held \cup {b}
    /\ UNCHANGED <<blocks, sound, call, result>>

-----------------------------------------------------------------------------
(* verify_exact_digest.                                                    *)

Goes(c) == call' = c /\ UNCHANGED <<chain_vars, held, result>>
Ends(kind, h, b, n) ==
    /\ result' = [kind |-> kind, height |-> h, block |-> b,
                  confirmations |-> n, candidates |-> call.candidates]
    /\ call' = None
    /\ UNCHANGED <<chain_vars, held>>
Fails(kind) == Ends(kind, 0, None, 0)
On(step) == call # None /\ call.step = step

verify_exact_digest(S) ==
    /\ call = None
    /\ result = None
    /\ call' = [candidates |-> S, todo |-> S, step |-> "snapshot",
                snapshot |-> None, hash |-> None, evidence |-> {},
                pending |-> {}]
    /\ held' = {best}
    /\ UNCHANGED <<chain_vars, result>>

\* Attestations are taken by height, then by message.
Current ==
    CHOOSE x \in call.todo : \A y \in call.todo :
        x.height < y.height \/ (x.height = y.height /\ x.root <= y.root)

\* An attestation above the tip of the snapshot is settled without the node.
Asks == call # None /\ ~(/\ On("next")
                         /\ call.todo # {}
                         /\ Current.height > Height(call.snapshot))

\* BitcoinVerifierUnavailable: the node cannot be reached in time, is not ready
\* or not synchronized, or has another HTTP status without an error of its own.
unavailable ==
    /\ Asks
    /\ Fails("unavailable")

\* BitcoinEvidenceInvalid, though the chain says nothing against the proof: the
\* answer is too long, is not the JSON expected, lacks a field or names another
\* network, or is an error of any other code.
malformed ==
    /\ Asks
    /\ ~sound
    /\ Fails("invalid")

\* _chain_snapshot: the best block, and so the number of blocks.
chain_snapshot ==
    /\ On("snapshot")
    /\ Goes([call EXCEPT !.snapshot = best, !.step = "next"])

\* Mutant: an attestation above the tip contradicts the chain.
AboveTip_invalid == Fails("invalid")

\* Mutant: its confirmations are counted as for a block below the tip.
AboveTip_counted ==
    Goes([call EXCEPT !.todo = @ \ {Current},
            !.pending = @ \cup {Height(call.snapshot) - Current.height + 1}])

AboveTip == Goes([call EXCEPT !.todo = @ \ {Current}, !.pending = @ \cup {0}])

above_tip ==
    /\ On("next")
    /\ call.todo # {}
    /\ Current.height > Height(call.snapshot)
    /\ AboveTip

\* _attestation_evidence.  A height the node no longer has is error -8.
getblockhash ==
    /\ On("next")
    /\ call.todo # {}
    /\ Current.height <= Height(call.snapshot)
    /\ IF Current.height <= Height(best)
       THEN Goes([call EXCEPT !.hash = BlockAt(best, Current.height),
                              !.step = "header"])
       ELSE Fails("unavailable")

\* The node's count is -1 for a block that is off its chain.
NodeCount(b) == IF Holds(best, b) THEN Height(best) - Height(b) + 1 ELSE -1
Expected == Height(call.snapshot) - Current.height + 1

CountAgrees == NodeCount(call.hash) = Expected

Commits == Current.root = call.hash

getblockheader ==
    /\ On("header")
    /\ IF ~CountAgrees THEN Fails("unavailable")
       ELSE IF ~Commits THEN Fails("invalid")
       ELSE Goes([call EXCEPT !.step = "recheck"])

\* The hash at that height once more.
recheck ==
    /\ On("recheck")
    /\ IF Current.height > Height(best) THEN Fails("unavailable")
       ELSE IF BlockAt(best, Current.height) # call.hash THEN Fails("unavailable")
       ELSE Goes([call EXCEPT
              !.todo = @ \ {Current}, !.step = "next", !.hash = None,
              !.pending = IF Expected < MinimumConfirmations
                          THEN @ \cup {Expected} ELSE @,
              !.evidence = IF Expected < MinimumConfirmations THEN @
                           ELSE @ \cup {[height |-> Current.height,
                                         block |-> call.hash,
                                         confirmations |-> Expected]}])

Largest(N) == CHOOSE n \in N : \A k \in N : k <= n

\* Mutant: the shallowest block is reported.
Strongest_shallow ==
    CHOOSE e \in call.evidence :
        \A f \in call.evidence : e.confirmations <= f.confirmations

\* More confirmations first; at the same depth heights are equal too.
Strongest ==
    CHOOSE e \in call.evidence :
        \A f \in call.evidence : e.confirmations >= f.confirmations

\* Mutant: the chain is not looked at again.
SameChain_once == TRUE

SameChain == best = call.snapshot

final_snapshot ==
    /\ On("next")
    /\ call.todo = {}
    /\ IF ~SameChain THEN Fails("unavailable")
       ELSE IF call.evidence = {}
       THEN Ends("pending", 0, None, Largest(call.pending))
       ELSE Ends("verified", Strongest.height, Strongest.block,
                 Strongest.confirmations)

-----------------------------------------------------------------------------
Chain ==
    \/ \E b \in 1..Len(blocks) : mine(b)
    \/ \E b \in 1..Len(blocks) : follow(b)
Verifier ==
    \/ \E S \in Proofs : verify_exact_digest(S)
    \/ unavailable \/ malformed \/ chain_snapshot \/ above_tip \/ getblockhash
    \/ getblockheader \/ recheck \/ final_snapshot

Next == Chain \/ Verifier

Spec == Init /\ [][Next]_vars

-----------------------------------------------------------------------------
(* Properties.                                                             *)

\* The confirmations of each attestation that agrees with the chain of tip t.
Depths(S, t) == {Height(t) - x.height + 1 :
                    x \in {y \in S : Height(y.root) = y.height /\ Holds(t, y.root)}}

\* What is verified is so at the moment the call returns: the node's best chain
\* has the block under exactly that many confirmations, and no attestation of
\* the proof is deeper.  This takes both snapshots, and a node that is
\* reorganized at most once while it is asked.
VerifiesTruly ==
    result = None /\ result' # None /\ result'.kind = "verified" =>
        /\ Holds(best, result'.block)
        /\ result'.confirmations = Height(best) - result'.height + 1
        /\ result'.confirmations = Largest(Depths(result'.candidates, best))
VerifiedIsTrueNow == [][VerifiesTruly]_vars

\* A proof is called pending only when no attestation has the confirmations it
\* needs at the moment the call returns.
PendsTruly ==
    result = None /\ result' # None /\ result'.kind = "pending" =>
        \A n \in Depths(result'.candidates, best) : n < MinimumConfirmations
PendingIsTrueNow == [][PendsTruly]_vars

\* By a sound node a proof is condemned only when the node had another block at an
\* attested height during the call.  Of a node that is not sound nothing of the
\* kind holds: one answer that is refused condemns any proof (malformed).
CondemnedByTheChain ==
    result # None /\ result.kind = "invalid" /\ sound =>
        \E x \in result.candidates, t \in held :
            Height(t) >= x.height /\ BlockAt(t, x.height) # x.root
=============================================================================

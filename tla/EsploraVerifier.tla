--------------------------- MODULE EsploraVerifier ---------------------------
(***************************************************************************)
(* EsploraBitcoinVerifier: one call of verify_exact_digest against two     *)
(* providers whose views of the chain move while they are asked.           *)
(*                                                                         *)
(* Blocks form a tree; a provider follows one branch and may be            *)
(* reorganized to another.  Every HTTP request is a step of its own and    *)
(* the two providers are asked in any order.  What is looked up by a       *)
(* block's hash (its header) never changes, so it is read with the status. *)
(* A liar answers whatever it likes; it cannot make a header that hashes   *)
(* to another block's hash.                                                *)
(*                                                                         *)
(* Proofs are reduced to their Bitcoin attestations: a height and the      *)
(* block whose merkle root the proof commits to.                           *)
(***************************************************************************)
EXTENDS BlockTree, FiniteSets

CONSTANTS
    Provider,               \* the two Esplora services
    MaxLiars,               \* bound: those that answer anything
    MinimumConfirmations,
    MaxSkew,                \* MAX_PROVIDER_TIP_SKEW, 2 in the code
    MaxReorgs,              \* bound: reorganizations of one provider
    None

VARIABLES
    liars,      \* the providers that answer anything
    best,       \* by provider, the block it takes for the tip
    reorgs,     \* by provider, how often it left a branch
    held,       \* by provider, the tips it had during the call
    call,       \* the locals of the call
    result

chain_vars == <<blocks, liars, best, reorgs>>
vars == <<blocks, liars, best, reorgs, held, call, result>>

Tips == [Provider -> Nat]
Snapshot == [block : Block, header : Block, height : Nat, canonical : BOOLEAN,
             tips : Tips]
StatusAnswer == [header : Block, height : Nat, canonical : BOOLEAN]
Call == [candidates : SUBSET Candidate, todo : SUBSET Nat, height : Nat,
         pending : SUBSET Snapshot, expected : Snapshot \cup {None},
         step : {"hashes", "evidence"},
         hash : [Provider -> Block \cup {None}],
         status : [Provider -> StatusAnswer \cup {None}],
         tip : [Provider -> Nat \cup {None}]]
Result == [kind : {"verified", "pending", "invalid", "unavailable"},
           height : Nat, block : Block \cup {None}, confirmations : Nat,
           candidates : SUBSET Candidate]

ASSUME ConstantsAssumption ==
    /\ Cardinality(Provider) = 2
    /\ MaxLiars \in Nat
    /\ MinimumConfirmations \in Nat \ {0}
    /\ MaxSkew \in Nat
    /\ MaxReorgs \in Nat
    /\ None \notin Nat \cup Snapshot \cup StatusAnswer \cup Call \cup Result

\* Every block, view, local and answer has its type.
TypeOK ==
    /\ blocks \in Seq(Seq(Block))
    /\ liars \subseteq Provider
    /\ best \in [Provider -> 1..Len(blocks)]
    /\ reorgs \in [Provider -> Nat]
    /\ held \in [Provider -> SUBSET (1..Len(blocks))]
    /\ call \in Call \cup {None}
    /\ result \in Result \cup {None}

\* Both start at the genesis block.
Init ==
    /\ GenesisOnly
    /\ liars \in {S \in SUBSET Provider : Cardinality(S) <= MaxLiars}
    /\ best = [p \in Provider |-> 1]
    /\ reorgs = [p \in Provider |-> 0]
    /\ held = [p \in Provider |-> {}]
    /\ call = None
    /\ result = None

-----------------------------------------------------------------------------
(* The chain and what an honest provider sees of it.                       *)

HasHeight(p, h) == h <= Height(best[p])

\* Blocks are mined before the call: a provider that learns of one during the
\* call sees it as new.
mine(parent) ==
    /\ call = None
    /\ result = None
    /\ Grows(parent)
    /\ UNCHANGED <<liars, best, reorgs, held, call, result>>

\* A provider moves on along its branch, or leaves it.
\* The chain is of interest until the call has returned.
follow(p, b) ==
    /\ result = None
    /\ b # best[p]
    /\ \/ Holds(b, best[p]) /\ UNCHANGED reorgs
       \/ /\ ~Holds(b, best[p])
          /\ reorgs[p] < MaxReorgs
          /\ reorgs' = [reorgs EXCEPT ![p] = @ + 1]
    /\ best' = [best EXCEPT ![p] = b]
    /\ held' = [held EXCEPT ![p] = IF call = None THEN @ ELSE @ \cup {b}]
    /\ UNCHANGED <<blocks, liars, call, result>>

-----------------------------------------------------------------------------
(* verify_exact_digest.                                                    *)

Lowest(H) == CHOOSE h \in H : \A k \in H : h <= k
Highest(H) == CHOOSE h \in H : \A k \in H : k <= h

\* A quorum snapshot of height h begins with the two block hashes.
Asks(c, h, expected) ==
    [c EXCEPT !.height = h, !.expected = expected, !.step = "hashes",
              !.hash = [p \in Provider |-> None],
              !.status = [p \in Provider |-> None],
              !.tip = [p \in Provider |-> None]]

Ends(kind, h, b, n) ==
    /\ result' = [kind |-> kind, height |-> h, block |-> b,
                  confirmations |-> n, candidates |-> call.candidates]
    /\ call' = None
    /\ UNCHANGED <<chain_vars, held>>
Fails(kind) == Ends(kind, 0, None, 0)
Goes(c) == call' = c /\ UNCHANGED <<chain_vars, held, result>>

verify_exact_digest(S) ==
    /\ call = None
    /\ result = None
    /\ LET H == {x.height : x \in S}
       IN  call' = [candidates |-> S, todo |-> H, height |-> Lowest(H),
                    pending |-> {}, expected |-> None, step |-> "hashes",
                    hash |-> [p \in Provider |-> None],
                    status |-> [p \in Provider |-> None],
                    tip |-> [p \in Provider |-> None]]
    /\ held' = [p \in Provider |-> {best[p]}]
    /\ UNCHANGED <<chain_vars, result>>

\* A request fails or times out, or its answer is malformed; a block beyond a
\* provider's tip is not found.
unavailable ==
    /\ call # None
    /\ Fails("unavailable")

-----------------------------------------------------------------------------
(* _quorum_snapshot.                                                       *)

block_hash(p) ==
    /\ call # None
    /\ call.step = "hashes"
    /\ call.hash[p] = None
    /\ IF p \in liars
       THEN \E b \in 1..Len(blocks) : Goes([call EXCEPT !.hash[p] = b])
       ELSE /\ HasHeight(p, call.height)
            /\ Goes([call EXCEPT !.hash[p] = BlockAt(best[p], call.height)])

\* A conflict is a contradiction when it is met first, and a race later.
Conflict == Fails(IF call.expected = None THEN "invalid" ELSE "unavailable")

HashAnswered == call # None /\ call.step = "hashes"
                    /\ \A p \in Provider : call.hash[p] # None

HashesAgree == \A p, q \in Provider : call.hash[p] = call.hash[q]

hashes ==
    /\ HashAnswered
    /\ IF HashesAgree THEN Goes([call EXCEPT !.step = "evidence"])
       ELSE Conflict

\* A liar may also be found out by its answer for the genesis block.
wrong_network ==
    /\ HashAnswered
    /\ liars # {}
    /\ Conflict

\* _provider_snapshot: the header and the status of the hash, and the tip.
block_status(p) ==
    LET b == call.hash[p]
    IN  /\ call # None
        /\ call.step = "evidence"
        /\ call.status[p] = None
        /\ IF p \in liars
           THEN \E a \in [header : {b, 1}, height : {Height(b), 0},
                          canonical : BOOLEAN] :
                    Goes([call EXCEPT !.status[p] = a])
           ELSE Goes([call EXCEPT !.status[p] =
                        [header |-> b, height |-> Height(b),
                         canonical |-> Holds(best[p], b)]])

tip_height(p) ==
    /\ call # None
    /\ call.step = "evidence"
    /\ call.tip[p] = None
    /\ IF p \in liars
       THEN \E h \in 0..(Len(blocks) + MaxSkew) :
                Goes([call EXCEPT !.tip[p] = h])
       ELSE Goes([call EXCEPT !.tip[p] = Height(best[p])])

Answered ==
    /\ call # None
    /\ call.step = "evidence"
    /\ \A p \in Provider : call.status[p] # None /\ call.tip[p] # None

StatusesAgree == \A p, q \in Provider : call.status[p] = call.status[q]
Skewed == \E p, q \in Provider : call.tip[p] > call.tip[q] + MaxSkew

QuorumTip(s) == Lowest({s.tips[p] : p \in Provider})

Observed ==
    LET p == CHOOSE q \in Provider : TRUE
    IN  [block |-> call.hash[p], header |-> call.status[p].header,
         height |-> call.status[p].height,
         canonical |-> call.status[p].canonical, tips |-> call.tip]

Agreed == Answered /\ StatusesAgree /\ ~Skewed

evidence_conflict ==
    /\ Answered
    /\ ~StatusesAgree
    /\ Conflict

tip_skew ==
    /\ Answered
    /\ StatusesAgree
    /\ Skewed
    /\ Fails("unavailable")

-----------------------------------------------------------------------------
(* What the call makes of a snapshot.                                      *)

\* Mutant: the tip must be above the block.
Canonical_above(s) ==
    /\ s.height = call.height
    /\ s.canonical
    /\ QuorumTip(s) > call.height

Canonical(s) ==
    /\ s.height = call.height
    /\ s.canonical
    /\ QuorumTip(s) >= call.height

\* _verify_header: the header hashes to the block's hash.
HeaderMatches(s) == s.header = s.block

\* Mutant: the merkle root is not compared.
Commits_any(s) == TRUE

Commits(s) == [height |-> call.height, root |-> s.header] \in call.candidates

\* Mutant: the operands are swapped.
Confirmations_swapped(h, s) == h - QuorumTip(s) + 1

Confirmations(h, s) == QuorumTip(s) - h + 1
First == Agreed /\ call.expected = None

noncanonical ==
    /\ First
    /\ ~Canonical(Observed) \/ ~HeaderMatches(Observed)
    /\ Fails("invalid")

\* The next height, or the pending ones once more, or the end.
NextHeight(c) ==
    LET todo == c.todo \ {c.height}
    IN  IF todo # {} THEN Goes(Asks([c EXCEPT !.todo = todo], Lowest(todo), None))
        ELSE IF c.pending = {} THEN Fails("invalid")
        ELSE LET s == CHOOSE x \in c.pending :
                        \A y \in c.pending : x.height <= y.height
             IN  Goes(Asks([c EXCEPT !.todo = {x.height : x \in c.pending}],
                           s.height, s))

merkle_mismatch ==
    /\ First
    /\ Canonical(Observed)
    /\ HeaderMatches(Observed)
    /\ ~Commits(Observed)
    /\ NextHeight(call)

not_deep_enough ==
    /\ First
    /\ Canonical(Observed)
    /\ HeaderMatches(Observed)
    /\ Commits(Observed)
    /\ Confirmations(call.height, Observed) < MinimumConfirmations
    /\ NextHeight([call EXCEPT !.pending = @ \cup {Observed}])

Verify(s) == Ends("verified", s.height, s.block, Confirmations(s.height, s))

\* Mutant: the first snapshot is enough.
DeepEnough_once(s) == Verify(s)

\* _require_stable_snapshot asks everything again.
DeepEnough(s) == Goes(Asks(call, call.height, s))

deep_enough ==
    /\ First
    /\ Canonical(Observed)
    /\ HeaderMatches(Observed)
    /\ Commits(Observed)
    /\ Confirmations(call.height, Observed) >= MinimumConfirmations
    /\ DeepEnough(Observed)

race ==
    /\ Agreed
    /\ call.expected # None
    /\ Observed # call.expected
    /\ Fails("unavailable")

\* The same snapshot again: it is verified, or one more pending one is stable.
stable ==
    /\ Agreed
    /\ Observed = call.expected
    /\ IF call.expected \notin call.pending THEN Verify(call.expected)
       ELSE LET todo == call.todo \ {call.height}
                depths == {Confirmations(x.height, x) : x \in call.pending}
            IN  IF todo = {} THEN Ends("pending", 0, None, Highest(depths))
                ELSE Goes(Asks([call EXCEPT !.todo = todo], Lowest(todo),
                               CHOOSE x \in call.pending :
                                   x.height = Lowest(todo)))

-----------------------------------------------------------------------------
Chain ==
    \/ \E b \in 1..Len(blocks) : mine(b)
    \/ \E p \in Provider \ liars, b \in 1..Len(blocks) : follow(p, b)
Ask(p) == block_hash(p) \/ block_status(p) \/ tip_height(p)
Decide ==
    \/ unavailable \/ hashes \/ wrong_network \/ evidence_conflict \/ tip_skew
    \/ noncanonical \/ merkle_mismatch \/ not_deep_enough \/ deep_enough
    \/ race \/ stable
Begin == \E S \in Proofs : verify_exact_digest(S)

Next == Chain \/ Begin \/ (\E p \in Provider : Ask(p)) \/ Decide

Spec == Init /\ [][Next]_vars

-----------------------------------------------------------------------------
(* Properties.                                                             *)

\* Whatever one provider says, a verification is what an honest one saw: at
\* some moment of the call its best chain had the block at that height, under
\* at least as many confirmations.  The tip is another request than the block,
\* so this needs the second snapshot when a provider is reorganized in between.
VerifiedWasTrue ==
    result # None /\ result.kind = "verified" =>
        \A p \in Provider \ liars : \E t \in held[p] :
            /\ Holds(t, result.block)
            /\ Height(result.block) = result.height
            /\ Height(t) + 1 >= result.height + result.confirmations

\* The proof commits to the block that is named, at its own height, and the
\* configured number of confirmations is there.
VerifiedIsAttested ==
    result # None /\ result.kind = "verified" =>
        /\ [height |-> Height(result.block), root |-> result.block]
               \in result.candidates
        /\ result.confirmations >= MinimumConfirmations

\* With honest providers a proof is condemned only when one of them had another
\* block at an attested height during the call, or was reorganized: blocks that
\* arrive between two requests, or at one provider first, are no contradiction
\* (an invalid answer takes the order to manual review for good).
CondemnedByTheChain ==
    result # None /\ result.kind = "invalid" /\ liars = {} =>
        \E p \in Provider :
            \/ reorgs[p] > 0
            \/ \E x \in result.candidates, t \in held[p] :
                  Height(t) >= x.height /\ BlockAt(t, x.height) # x.root
=============================================================================

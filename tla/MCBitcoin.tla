------------------------------ MODULE MCBitcoin ------------------------------
(***************************************************************************)
(* Bitcoin verification for TLC.  BITCOIN_VERIFIER_BACKEND chooses one of  *)
(* the two verifiers for a process, so a behaviour has one of them at work *)
(* or, beneath the Esplora verifier, its transport; the variables of the   *)
(* others stay as they are.                                                *)
(*                                                                         *)
(*   reorgs     two honest Esplora providers that move at different times, *)
(*              each reorganized at most once;                             *)
(*   liar       one of the two answers anything;                           *)
(*   two        a proof with two attestations, and providers that learn of *)
(*              blocks at different times;                                 *)
(*   node       the Bitcoin Core node, reorganized at most once, and two   *)
(*              attestations; or one whose answers are refused;            *)
(*   transport  three requests to a host whose name changes its            *)
(*              addresses.                                                 *)
(***************************************************************************)
EXTENDS EsploraVerifier, TLC

CONSTANTS
    p1, p2, q1, q2, q3,
    Request, Host, Address, Public, Slots, MaxChanges

VARIABLES
    node_blocks, node_best, node_reorgs, node_sound, node_held, node_call,
    node_result,
    dns, changes, tasks, requests, free, lookups, used, served,
    scenario

node_vars == <<node_blocks, node_best, node_reorgs, node_sound, node_held,
               node_call, node_result>>
transport_vars == <<dns, changes, tasks, requests, free, lookups, used, served>>

Node == INSTANCE RpcVerifier WITH
    blocks <- node_blocks, best <- node_best, reorgs <- node_reorgs,
    sound <- node_sound, held <- node_held, call <- node_call, result <- node_result
Transport == INSTANCE EsploraTransport

ASSUME BackendsAssumption ==
    /\ IsFiniteSet(Request)
    /\ Public \subseteq Address
    /\ Slots \in Nat \ {0}
    /\ None \notin Address

Bound ==
    [reorgs |-> [liars |-> 0, reorgs |-> 1, attestations |-> 1],
     liar |-> [liars |-> 1, reorgs |-> 1, attestations |-> 1],
     two |-> [liars |-> 0, reorgs |-> 0, attestations |-> 2]]
\* Blocks that nobody follows do no harm, and it does not matter in which order
\* they are mined: all are there when the call begins, level by level.
MinedInOrder(tree, n) ==
    /\ n => Len(tree) = MaxBlocks
    /\ \A i \in 2..(Len(tree) - 1) : Len(tree[i]) <= Len(tree[i + 1])
Within(b) ==
    /\ MinedInOrder(blocks', call' # None)
    /\ Cardinality(liars') = b.liars
    /\ \A p \in Provider : reorgs'[p] <= b.reorgs
    /\ call' # None => Cardinality(call'.candidates) <= b.attestations

TransportUnused ==
    /\ dns = None /\ changes = None /\ tasks = None /\ requests = None
    /\ free = None /\ lookups = None /\ used = None /\ served = None

MCInit ==
    /\ scenario \in DOMAIN Bound \cup {"node", "transport"}
    /\ Init
    /\ Cardinality(liars) = IF scenario = "liar" THEN 1 ELSE 0
    /\ Node!Init
    /\ scenario # "node" => node_sound
    /\ IF scenario = "transport" THEN Transport!Init
       ELSE TransportUnused

MCNext ==
    /\ UNCHANGED scenario
    /\ \/ /\ scenario \in DOMAIN Bound
          /\ Next
          /\ Within(Bound[scenario])
          /\ UNCHANGED <<node_vars, transport_vars>>
       \/ /\ scenario = "node"
          /\ Node!Next
          /\ MinedInOrder(node_blocks', node_call' # None)
          /\ UNCHANGED <<vars, transport_vars>>
       \/ /\ scenario = "transport"
          /\ Transport!Next
          /\ UNCHANGED <<vars, node_vars>>

MCSpec == MCInit /\ [][MCNext]_<<vars, node_vars, transport_vars, scenario>>

\* The providers are alike.
Symmetry == Permutations(Provider)

-----------------------------------------------------------------------------
(* Properties of the two verifiers together, and of the transport.         *)

\* What a verifier concludes is true.  A verified block is one the proof commits
\* to, and an honest provider had it at that depth at some moment of the call,
\* whatever the other says; while providers are honest, and the node is sound, a
\* proof is condemned only when the chain had another block at an attested
\* height, or was reorganized, during the call, since an invalid answer takes
\* the order to manual review for good (both verify_exact_digest).
VerdictsAreTrue ==
    /\ TypeOK
    /\ VerifiedWasTrue
    /\ VerifiedIsAttested
    /\ CondemnedByTheChain
    /\ Node!TypeOK
    /\ Node!CondemnedByTheChain

\* What the node's verifier answers is so at the moment the call returns: the
\* best chain has the block under exactly that many confirmations and no
\* attestation of the proof is deeper, or none has the confirmations it needs
\* (both snapshots of verify_exact_digest).
NodeAnswersTruly == [][Node!VerifiesTruly /\ Node!PendsTruly]_node_vars

\* A process looks a name up once, however many requests wait for it and however
\* many of them time out, and all connections to the host go to one address, a
\* public one, though the name servers may change their answers at any time
\* (_resolution_tasks, shield, _pinned_addresses).
LookupIsShared ==
    scenario = "transport" =>
        /\ Transport!TypeOK
        /\ Transport!OneLookup
        /\ Transport!OneAddress
=============================================================================

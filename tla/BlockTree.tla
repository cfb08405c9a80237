------------------------------ MODULE BlockTree ------------------------------
(***************************************************************************)
(* The blocks the Bitcoin verifiers ask about.  Blocks form a tree whose   *)
(* root is block 1, the genesis block; a block is named by the order in    *)
(* which it was mined, which stands for its hash, header and merkle root.  *)
(* A view of the chain is the block that is taken for the tip.             *)
(***************************************************************************)
EXTENDS Naturals, Sequences

CONSTANTS
    MaxBlocks,      \* bound: blocks ever mined
    MaxAttestations \* bound: Bitcoin attestations of a proof, 1 or 2

VARIABLE blocks     \* by block, the chain from genesis to it

Block == 1..MaxBlocks
Candidate == [height : Nat, root : Block]

ASSUME BlocksAssumption == MaxBlocks \in Nat \ {0} /\ MaxAttestations \in {1, 2}

GenesisOnly == blocks = <<<<1>>>>
Grows(parent) ==
    /\ Len(blocks) < MaxBlocks
    /\ blocks' = Append(blocks, Append(blocks[parent], Len(blocks) + 1))

Height(b) == Len(blocks[b]) - 1
Holds(t, b) == \E i \in 1..Len(blocks[t]) : blocks[t][i] = b
BlockAt(t, h) == blocks[t][h + 1]

\* The attestations of a proof: a height, and the block whose merkle root it
\* commits to, which is the one at that height or, in a wrong proof, one below.
Attestation == {[height |-> Height(b) + i, root |-> b] :
                   b \in 2..Len(blocks), i \in {0, 1}}
Proofs == IF MaxAttestations = 1 THEN {{x} : x \in Attestation}
          ELSE {{x, y} : x, y \in Attestation}
=============================================================================

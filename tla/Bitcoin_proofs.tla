---------------------------- MODULE Bitcoin_proofs ----------------------------
(***************************************************************************)
(* Proofs about the Bitcoin verifiers of MCBitcoin, for every tree of      *)
(* blocks and all values of the constants: first what both rest on, the    *)
(* blocks; then the transport, the verifier that asks the operator's node, *)
(* and the one that asks the Esplora providers; at the end their           *)
(* composition in a process.                                               *)
(*                                                                         *)
(* A verifier reads the chain in several requests, between which it may be *)
(* reorganized.  The invariants say what an answer shows of the chain at   *)
(* the moment it was given, and what must have happened if it is no longer *)
(* so.                                                                     *)
(***************************************************************************)
EXTENDS MCBitcoin, FiniteSetTheorems, SequenceTheorems, TLAPS

-----------------------------------------------------------------------------
(* Numbers.                                                                *)

\* A set of numbers has a least one.
LEMMA LeastExists ==
    ASSUME NEW N \in SUBSET Nat, N # {}
    PROVE  \E n \in N : \A k \in N : n <= k
<1>1. PICK n \in N : \A k \in N : ~(<<k, n>> \in OpToRel(<, Nat))
  BY WFMin, NatLessThanWellFounded, Zenon
<1>2. \A k \in N : ~(k < n)
  BY <1>1, Zenon DEF OpToRel
<1> QED  BY <1>2

\* The lowest of numbers is one of them.
LEMMA LowestIs ==
    ASSUME NEW N \in SUBSET Nat, N # {}
    PROVE  Lowest(N) \in N /\ \A k \in N : Lowest(N) <= k
  BY LeastExists DEF Lowest

\* A set of numbers below a bound has a greatest one.
LEMMA GreatestExists ==
    ASSUME NEW K \in Nat, NEW N \in SUBSET (0..K), N # {}
    PROVE  \E n \in N : \A k \in N : k <= n
<1> DEFINE Far == {K - n : n \in N}
<1>0. \A n \in N : n \in Nat /\ n <= K
  OBVIOUS
<1>1. Far \in SUBSET Nat /\ Far # {}
  <2>1. \A n \in N : K - n \in Nat
    BY <1>0
  <2> QED  BY <2>1
<1>2. PICK d \in Far : \A e \in Far : d <= e
  BY <1>1, LeastExists
<1>3. PICK n \in N : d = K - n
  OBVIOUS
<1>4. \A k \in N : K - n <= K - k
  BY <1>2, <1>3
<1> QED  BY <1>0, <1>3, <1>4

-----------------------------------------------------------------------------
(* Trees of blocks.  A block's chain is that of every block on it, as far  *)
(* as that one.                                                            *)

Tree(T) ==
    /\ T \in Seq(Seq(Block))
    /\ Len(T) \in 1..MaxBlocks
    /\ \A b \in 1..Len(T) :
          /\ Len(T[b]) >= 1
          /\ b # 1 => Len(T[b]) >= 2
          /\ T[b][Len(T[b])] = b
          /\ \A i \in 1..Len(T[b]) :
                /\ T[b][i] \in 1..Len(T)
                /\ Len(T[T[b][i]]) = i
                /\ \A j \in 1..i : T[T[b][i]][j] = T[b][j]

\* Block b is on the chain of tip t.
OnChain(T, t, b) == \E i \in 1..Len(T[t]) : T[t][i] = b

\* What a tree says of one block.
LEMMA TreeBlock ==
    ASSUME NEW T, Tree(T), NEW b \in 1..Len(T)
    PROVE  /\ T[b] \in Seq(Block)
           /\ Len(T[b]) \in Nat
           /\ Len(T[b]) >= 1
           /\ b # 1 => Len(T[b]) >= 2
           /\ T[b][Len(T[b])] = b
           /\ b \in Nat
           /\ b <= MaxBlocks
  BY BlocksAssumption DEF Tree

\* The block at a height of a chain.
LEMMA TreeAt ==
    ASSUME NEW T, Tree(T), NEW t \in 1..Len(T), NEW i \in 1..Len(T[t])
    PROVE  /\ T[t][i] \in 1..Len(T)
           /\ Len(T[T[t][i]]) = i
           /\ OnChain(T, t, T[t][i])
           /\ \A j \in 1..i : T[T[t][i]][j] = T[t][j]
  BY DEF Tree, OnChain

\* A block is on its own chain.
LEMMA TreeSelf ==
    ASSUME NEW T, Tree(T), NEW b \in 1..Len(T)
    PROVE  OnChain(T, b, b)
  BY TreeBlock DEF OnChain

\* A block on a chain is there at its own height.
LEMMA TreeOn ==
    ASSUME NEW T, Tree(T), NEW t \in 1..Len(T), NEW b, OnChain(T, t, b)
    PROVE  /\ b \in 1..Len(T)
           /\ Len(T[b]) \in 1..Len(T[t])
           /\ T[t][Len(T[b])] = b
           /\ \A j \in 1..Len(T[b]) : T[b][j] = T[t][j]
<1>1. PICK i \in 1..Len(T[t]) : T[t][i] = b
  BY DEF OnChain
<1> QED  BY <1>1, TreeAt

\* What is on the chain of a block of a chain is on that chain.
LEMMA TreeTransitive ==
    ASSUME NEW T, Tree(T), NEW t \in 1..Len(T), NEW u, OnChain(T, t, u),
           NEW b, OnChain(T, u, b)
    PROVE  OnChain(T, t, b)
<1>1. /\ u \in 1..Len(T)
      /\ Len(T[u]) \in 1..Len(T[t])
      /\ \A j \in 1..Len(T[u]) : T[u][j] = T[t][j]
  BY TreeOn
<1>2. Len(T[b]) \in 1..Len(T[u]) /\ T[u][Len(T[b])] = b
  BY <1>1, TreeOn
<1>3. Len(T[t]) \in Nat
  BY TreeBlock
<1>4. PICK i : i = Len(T[b])
  OBVIOUS
<1>5. i \in 1..Len(T[t])
  BY <1>1, <1>2, <1>3, <1>4
<1>6. T[t][i] = b
  BY <1>1, <1>2, <1>4
<1> QED  BY <1>5, <1>6 DEF OnChain

\* Of two tips of one height, one on the chain of the other, there is one.
LEMMA TreeSameHeight ==
    ASSUME NEW T, Tree(T), NEW t \in 1..Len(T), NEW u, OnChain(T, t, u),
           Len(T[u]) = Len(T[t])
    PROVE  u = t
  BY TreeOn, TreeBlock

\* Of two blocks of a chain the lower is on the chain of the other.
LEMMA TreeLower ==
    ASSUME NEW T, Tree(T), NEW t \in 1..Len(T), NEW u, OnChain(T, t, u),
           NEW b, OnChain(T, t, b), Len(T[b]) <= Len(T[u])
    PROVE  OnChain(T, u, b)
<1>1. /\ u \in 1..Len(T)
      /\ \A j \in 1..Len(T[u]) : T[u][j] = T[t][j]
      /\ Len(T[b]) \in 1..Len(T[t])
      /\ T[t][Len(T[b])] = b
  BY TreeOn
<1>2. Len(T[u]) \in Nat /\ Len(T[t]) \in Nat
  BY <1>1, TreeBlock
<1>3. PICK i : i = Len(T[b])
  OBVIOUS
<1>4. i \in 1..Len(T[u])
  BY <1>1, <1>2, <1>3
<1>5. T[u][i] = b
  BY <1>1, <1>3, <1>4
<1> QED  BY <1>4, <1>5 DEF OnChain

\* The genesis block alone.
LEMMA TreeGenesis == Tree(<<<<1>>>>)
<1>1. <<1>> \in Seq(Block) /\ Len(<<1>>) = 1 /\ <<1>>[1] = 1
  BY BlocksAssumption DEF Block
<1>2. /\ <<<<1>>>> \in Seq(Seq(Block))
      /\ Len(<<<<1>>>>) = 1
      /\ <<<<1>>>>[1] = <<1>>
  BY <1>1
<1> QED  BY <1>1, <1>2, BlocksAssumption DEF Tree

\* A tree with one more block.
LEMMA TreeGrows ==
    ASSUME NEW T, Tree(T), NEW p \in 1..Len(T), Len(T) < MaxBlocks,
           NEW U, U = Append(T, Append(T[p], Len(T) + 1))
    PROVE  /\ Tree(U)
           /\ Len(U) = Len(T) + 1
           /\ \A b \in 1..Len(T) : U[b] = T[b]
<1>0. /\ T \in Seq(Seq(Block))
      /\ Len(T) \in Nat
      /\ Len(T) >= 1
      /\ MaxBlocks \in Nat
      /\ T[p] \in Seq(Block)
      /\ Len(T[p]) \in Nat
      /\ Len(T[p]) >= 1
  BY TreeBlock, BlocksAssumption DEF Tree
<1>n. PICK n \in Nat : n = Len(T) + 1
  BY <1>0
<1>m. PICK m \in Nat : m = Len(T[p])
  BY <1>0
<1>1. /\ Len(T) = n - 1
      /\ n \in 2..MaxBlocks
      /\ 1..Len(T) = 1..(n - 1)
      /\ m >= 1
  BY <1>0, <1>n, <1>m
<1>2. PICK c \in Seq(Block) : c = Append(T[p], n)
  <2>1. n \in Block
    BY <1>1 DEF Block
  <2> QED  BY <1>0, <2>1, AppendProperties
<1>l. /\ Len(c) = m + 1
      /\ c[m + 1] = n
      /\ \A i \in 1..m : c[i] = T[p][i]
  <2>1. n \in Block
    BY <1>1 DEF Block
  <2> QED  BY <1>0, <1>2, <1>m, <2>1, AppendProperties
<1>s. U = Append(T, c) /\ Len(T) + 1 = n
  BY <1>0, <1>2, <1>n
<1>3. /\ U \in Seq(Seq(Block))
      /\ Len(U) = n
      /\ U[n] = c
      /\ \A b \in 1..(n - 1) : U[b] = T[b]
  <2>1. /\ Append(T, c) \in Seq(Seq(Block))
        /\ Len(Append(T, c)) = Len(T) + 1
        /\ \A b \in 1..Len(T) : Append(T, c)[b] = T[b]
        /\ Append(T, c)[Len(T) + 1] = c
    BY <1>0, <1>2, AppendProperties
  <2> QED  BY <1>1, <1>s, <2>1
<1>4. ASSUME NEW b \in 1..(n - 1), NEW i \in 1..Len(T[b])
      PROVE  /\ U[b][i] \in 1..(n - 1)
             /\ Len(U[U[b][i]]) = i
             /\ \A j \in 1..i : U[U[b][i]][j] = U[b][j]
  <2>1. b \in 1..Len(T) /\ U[b] = T[b]
    BY <1>1, <1>3
  <2>2. PICK a : a = T[b][i]
    OBVIOUS
  <2>3. /\ a \in 1..Len(T)
        /\ Len(T[a]) = i
        /\ \A j \in 1..i : T[a][j] = T[b][j]
    BY <2>1, <2>2, TreeAt
  <2>4. U[a] = T[a] /\ a \in 1..(n - 1)
    BY <1>1, <1>3, <2>3
  <2> QED  BY <2>1, <2>2, <2>3, <2>4
<1>5. ASSUME NEW i \in 1..(m + 1)
      PROVE  /\ c[i] \in 1..n
             /\ Len(U[c[i]]) = i
             /\ \A j \in 1..i : U[c[i]][j] = c[j]
  <2>1. CASE i = m + 1
    <3>1. c[i] = n /\ U[c[i]] = c /\ n \in 1..n
      BY <1>1, <1>l, <1>3, <2>1
    <3>2. n \in 1..n
      BY <1>1
    <3> QED  BY <1>l, <2>1, <3>1, <3>2
  <2>2. CASE i # m + 1
    <3>1. i \in 1..m /\ c[i] = T[p][i]
      BY <1>l, <2>2
    <3>a. PICK a : a = T[p][i]
      OBVIOUS
    <3>2. /\ a \in 1..Len(T)
          /\ Len(T[a]) = i
          /\ \A j \in 1..i : T[a][j] = T[p][j]
      BY <1>m, <3>1, <3>a, TreeAt
    <3>3. \A j \in 1..i : c[j] = T[p][j]
      BY <1>l, <3>1
    <3>4. a \in 1..n /\ U[a] = T[a]
      BY <1>1, <1>3, <3>2
    <3> QED  BY <3>1, <3>2, <3>3, <3>4, <3>a
  <2> QED  BY <2>1, <2>2
<1>6. ASSUME NEW b \in 1..n
      PROVE  /\ Len(U[b]) >= 1
             /\ b # 1 => Len(U[b]) >= 2
             /\ U[b][Len(U[b])] = b
             /\ \A i \in 1..Len(U[b]) :
                   /\ U[b][i] \in 1..n
                   /\ Len(U[U[b][i]]) = i
                   /\ \A j \in 1..i : U[U[b][i]][j] = U[b][j]
  <2>1. CASE b = n
    <3>1. U[b] = c /\ Len(U[b]) = m + 1
      BY <1>l, <1>3, <2>1
    <3>2. \A i \in 1..Len(U[b]) : U[b][i] = c[i]
      BY <3>1
    <3>3. Len(U[b]) >= 2 /\ U[b][Len(U[b])] = b
      BY <1>1, <1>l, <2>1, <3>1
    <3>4. \A i \in 1..Len(U[b]) : i \in 1..(m + 1)
      BY <3>1
    <3>5. Len(U[b]) >= 1
      BY <3>1, <1>l, <1>1
    <3> QED  BY <1>5, <3>1, <3>3, <3>4, <3>5
  <2>2. CASE b # n
    <3>1. b \in 1..(n - 1) /\ U[b] = T[b]
      BY <1>3, <2>2
    <3>2. \A i \in 1..Len(T[b]) : U[b][i] \in 1..n
      <4>1. 1..(n - 1) \subseteq 1..n
        BY <1>1
      <4> QED  BY <1>4, <3>1, <4>1
    <3>3. /\ Len(T[b]) >= 1
          /\ b # 1 => Len(T[b]) >= 2
          /\ T[b][Len(T[b])] = b
      BY <1>1, <3>1, TreeBlock
    <3>4. \A i \in 1..Len(T[b]) :
             /\ Len(U[U[b][i]]) = i
             /\ \A j \in 1..i : U[U[b][i]][j] = U[b][j]
      BY <1>4, <3>1
    <3>5. Len(U[b]) = Len(T[b])
      BY <3>1
    <3> QED  BY <3>1, <3>2, <3>3, <3>4, <3>5
  <2> QED  BY <2>1, <2>2
<1>7. Len(U) \in 1..MaxBlocks
  BY <1>1, <1>3
<1>8. Tree(U)
  BY <1>3, <1>6, <1>7, ZenonT(30) DEF Tree
<1> QED  BY <1>1, <1>3, <1>8, <1>n

-----------------------------------------------------------------------------
(* Chains: heights, and the block a chain has at a height.                 *)

High(T, b) == Len(T[b]) - 1
AtHeight(T, t, h) == T[t][h + 1]

\* What holds of every chain of a tree.
ChainOf(T, t) ==
    /\ High(T, t) \in Nat
    /\ High(T, t) < MaxBlocks
    /\ t # 1 => High(T, t) >= 1
    /\ OnChain(T, t, t)
    /\ \A h \in 0..High(T, t) :
          /\ AtHeight(T, t, h) \in 1..Len(T)
          /\ High(T, AtHeight(T, t, h)) = h
          /\ OnChain(T, t, AtHeight(T, t, h))
    /\ \A b : OnChain(T, t, b) =>
          /\ b \in 1..Len(T)
          /\ High(T, b) \in 0..High(T, t)
          /\ AtHeight(T, t, High(T, b)) = b
    /\ \A u, b : OnChain(T, t, u) /\ OnChain(T, u, b) => OnChain(T, t, b)
    /\ \A u, b : /\ OnChain(T, t, u)
                 /\ OnChain(T, t, b)
                 /\ High(T, b) <= High(T, u)
                 => OnChain(T, u, b)

\* A chain is no longer than the tree is large.
LEMMA ChainLength ==
    ASSUME NEW T, Tree(T), NEW t \in 1..Len(T)
    PROVE  Len(T[t]) <= MaxBlocks
<1> DEFINE D == 1..Len(T[t])
<1>1. T[t] \in Seq(Block) /\ Len(T[t]) \in Nat /\ Len(T[t]) >= 1
  BY TreeBlock
<1>2. /\ IsFiniteSet(D)
      /\ Cardinality(D) = Len(T[t])
  <2>1. PICK n \in Nat : n = Len(T[t])
    BY <1>1
  <2>2. /\ IsFiniteSet(1..n)
        /\ Cardinality(1..n) = IF 1 > n THEN 0 ELSE n - 1 + 1
    BY FS_Interval
  <2> QED  BY <1>1, <2>1, <2>2
<1>3. /\ IsFiniteSet(Block)
      /\ Cardinality(Block) = MaxBlocks
  BY FS_Interval, BlocksAssumption DEF Block
<1> DEFINE f == [i \in D |-> T[t][i]]
<1>4. f \in Injection(D, Block)
  <2>1. f \in [D -> Block]
    BY <1>1
  <2>2. ASSUME NEW i \in D, NEW j \in D, f[i] = f[j] PROVE i = j
    <3>1. Len(T[T[t][i]]) = i /\ Len(T[T[t][j]]) = j
      BY TreeAt
    <3> QED  BY <2>2, <3>1
  <2> QED  BY <2>1, <2>2 DEF Injection, IsInjective
<1>5. Cardinality(D) <= Cardinality(Block)
  BY <1>2, <1>3, <1>4, FS_Injection
<1> QED  BY <1>2, <1>3, <1>5

\* Every chain of a tree.
LEMMA ChainHolds ==
    ASSUME NEW T, Tree(T), NEW t \in 1..Len(T)
    PROVE  ChainOf(T, t)
<1>1. /\ Len(T[t]) \in Nat /\ Len(T[t]) >= 1
      /\ t # 1 => Len(T[t]) >= 2
      /\ Len(T[t]) <= MaxBlocks
      /\ MaxBlocks \in Nat
  BY TreeBlock, ChainLength, BlocksAssumption
<1>2. /\ High(T, t) \in Nat
      /\ High(T, t) < MaxBlocks
      /\ t # 1 => High(T, t) >= 1
  BY <1>1 DEF High
<1>3. OnChain(T, t, t)
  BY TreeSelf
<1>4. ASSUME NEW h \in 0..High(T, t)
      PROVE  /\ AtHeight(T, t, h) \in 1..Len(T)
             /\ High(T, AtHeight(T, t, h)) = h
             /\ OnChain(T, t, AtHeight(T, t, h))
  <2>1. h \in Nat /\ h + 1 \in 1..Len(T[t])
    BY <1>1 DEF High
  <2>2. /\ T[t][h + 1] \in 1..Len(T)
        /\ Len(T[T[t][h + 1]]) = h + 1
        /\ OnChain(T, t, T[t][h + 1])
    BY <2>1, TreeAt
  <2> QED  BY <2>1, <2>2 DEF High, AtHeight
<1>5. ASSUME NEW b, OnChain(T, t, b)
      PROVE  /\ b \in 1..Len(T)
             /\ High(T, b) \in 0..High(T, t)
             /\ AtHeight(T, t, High(T, b)) = b
  <2>1. /\ b \in 1..Len(T)
        /\ Len(T[b]) \in 1..Len(T[t])
        /\ T[t][Len(T[b])] = b
    BY <1>5, TreeOn
  <2>2. Len(T[b]) \in Nat /\ Len(T[b]) - 1 + 1 = Len(T[b])
    BY <2>1, TreeBlock
  <2>3. High(T, b) \in 0..High(T, t)
    BY <1>1, <2>1, <2>2 DEF High
  <2> QED  BY <2>1, <2>2, <2>3 DEF High, AtHeight
<1>6. ASSUME NEW u, NEW b, OnChain(T, t, u), OnChain(T, u, b)
      PROVE  OnChain(T, t, b)
  BY <1>6, TreeTransitive
<1>7. ASSUME NEW u, NEW b, OnChain(T, t, u), OnChain(T, t, b),
             High(T, b) <= High(T, u)
      PROVE  OnChain(T, u, b)
  <2>1. u \in 1..Len(T) /\ b \in 1..Len(T)
    BY <1>5, <1>7
  <2>2. Len(T[u]) \in Nat /\ Len(T[b]) \in Nat
    BY <2>1, TreeBlock
  <2>3. Len(T[b]) <= Len(T[u])
    BY <1>7, <2>2 DEF High
  <2> QED  BY <1>7, <2>3, TreeLower
<1> QED  BY <1>2, <1>3, <1>4, <1>5, <1>6, <1>7 DEF ChainOf

-----------------------------------------------------------------------------
(* The transport.  A task that exists was looked up once, and only the     *)
(* address a lookup was pinned to is ever connected to.                    *)

Holding == {"resolve", "await", "connected"}
Holders == {q \in Request : requests[q].step \in Holding}

HostInv(h) ==
    /\ lookups[h] <= 1
    /\ tasks[h].state = "none" => lookups[h] = 0
    /\ tasks[h].state = "pinned" => tasks[h].address \in Public
    /\ used[h] # {} => tasks[h].state = "pinned" /\ used[h] = {tasks[h].address}

TransportInv ==
    /\ Transport!TypeOK
    /\ \A h \in Host : HostInv(h)

\* The transport counts as its proof does.
LEMMA TransportCardinality ==
    \A S : Transport!Cardinality(S) = Cardinality(S)
  BY DEF Transport!Cardinality, Cardinality

\* The slots are the free ones and those of the holders.
LEMMA SlotsCounted ==
    ASSUME TransportInv
    PROVE  /\ IsFiniteSet(Holders)
           /\ Cardinality(Holders) \in Nat
           /\ free \in Nat
           /\ free + Cardinality(Holders) = Slots
<1>1. IsFiniteSet(Holders)
  BY BackendsAssumption, FS_Subset DEF Holders
<1>2. Transport!Cardinality(Holders) = Cardinality(Holders)
  BY TransportCardinality
<1>3. free + Transport!Cardinality(Holders) = Slots /\ free \in 0..Slots
  BY DEF TransportInv, Transport!TypeOK, Holders, Holding
<1> QED  BY <1>1, <1>2, <1>3, FS_CardinalityType, BackendsAssumption

\* A request goes on to another step.
LEMMA RequestGoes ==
    ASSUME TransportInv, NEW q \in Request, NEW s \in Transport!Step,
           Transport!Go(q, s)
    PROVE  /\ requests' \in [Request -> [step : Transport!Step, host : Host]]
           /\ requests'[q].step = s
           /\ \A r \in Request : r # q => requests'[r] = requests[r]
<1>1. /\ requests \in [Request -> [step : Transport!Step, host : Host]]
      /\ requests' = [requests EXCEPT ![q].step = s]
  BY DEF TransportInv, Transport!TypeOK, Transport!Go
<1>2. PICK x : x = [requests[q] EXCEPT !.step = s]
  OBVIOUS
<1>3. x \in [step : Transport!Step, host : Host] /\ x.step = s
  BY <1>1, <1>2
<1>4. requests' = [requests EXCEPT ![q] = x]
  BY <1>1, <1>2
<1> QED  BY <1>1, <1>3, <1>4

\* The slots are counted still when a request takes one, keeps it, gives it
\* back or goes on without one.
LEMMA SlotsKept ==
    ASSUME TransportInv, NEW q \in Request,
           requests' \in [Request -> [step : Transport!Step, host : Host]],
           \A r \in Request : r # q => requests'[r] = requests[r],
           \/ /\ q \in Holders <=> requests'[q].step \in Holding
              /\ free' = free
           \/ /\ q \notin Holders
              /\ requests'[q].step \in Holding
              /\ free > 0
              /\ free' = free - 1
           \/ /\ q \in Holders
              /\ requests'[q].step \notin Holding
              /\ free' = free + 1
    PROVE  /\ free' \in 0..Slots
           /\ free' + Transport!Cardinality({r \in Request :
                 requests'[r].step \in {"resolve", "await", "connected"}}) = Slots
<1> DEFINE New == {r \in Request : requests'[r].step \in Holding}
<1>1. /\ IsFiniteSet(Holders)
      /\ Cardinality(Holders) \in Nat
      /\ free \in Nat
      /\ free + Cardinality(Holders) = Slots
      /\ Slots \in Nat
  BY SlotsCounted, BackendsAssumption
<1>2. \A r \in Request : r # q => (r \in New <=> r \in Holders)
  BY DEF Holders
<1>3. free' \in Nat /\ free' + Cardinality(New) = Slots /\ Cardinality(New) \in Nat
  <2>1. CASE (q \in Holders <=> requests'[q].step \in Holding) /\ free' = free
    <3>1. New = Holders
      BY <1>2, <2>1 DEF Holders
    <3> QED  BY <1>1, <2>1, <3>1
  <2>2. CASE /\ q \notin Holders
             /\ requests'[q].step \in Holding
             /\ free > 0
             /\ free' = free - 1
    <3>1. New = Holders \cup {q}
      BY <1>2, <2>2 DEF Holders
    <3>2. Cardinality(New) = Cardinality(Holders) + 1
      BY <1>1, <2>2, <3>1, FS_AddElement
    <3> QED  BY <1>1, <2>2, <3>2
  <2>3. CASE /\ q \in Holders
             /\ requests'[q].step \notin Holding
             /\ free' = free + 1
    <3>1. New = Holders \ {q}
      BY <1>2, <2>3 DEF Holders
    <3>2. /\ IsFiniteSet(New)
          /\ Cardinality(New) = Cardinality(Holders) - 1
      BY <1>1, <2>3, <3>1, FS_RemoveElement
    <3>3. Cardinality(New) \in Nat
      BY <3>2, FS_CardinalityType
    <3> QED  BY <1>1, <2>3, <3>2, <3>3
  <2> QED  BY <2>1, <2>2, <2>3
<1>4. Transport!Cardinality(New) = Cardinality(New)
  BY TransportCardinality
<1> QED  BY <1>1, <1>3, <1>4 DEF Holding

\* The hosts stay as they are.
LEMMA HostsStay ==
    ASSUME TransportInv, UNCHANGED <<tasks, lookups, used>>
    PROVE  /\ tasks' \in [Host -> [state : Transport!TaskState,
                                   address : Address \cup {None}]]
           /\ lookups' \in [Host -> Nat]
           /\ used' \in [Host -> SUBSET Address]
           /\ (\A h \in Host : HostInv(h))'
  BY DEF TransportInv, Transport!TypeOK, HostInv

\* One host's task, lookups and connections change.
LEMMA HostGoes ==
    ASSUME TransportInv, NEW h \in Host,
           NEW t \in [state : Transport!TaskState, address : Address \cup {None}],
           NEW n \in Nat, NEW U \in SUBSET Address,
           tasks' = [tasks EXCEPT ![h] = t],
           lookups' = [lookups EXCEPT ![h] = n],
           used' = [used EXCEPT ![h] = U],
           n <= 1, t.state = "none" => n = 0,
           t.state = "pinned" => t.address \in Public,
           U # {} => t.state = "pinned" /\ U = {t.address}
    PROVE  /\ tasks' \in [Host -> [state : Transport!TaskState,
                                   address : Address \cup {None}]]
           /\ lookups' \in [Host -> Nat]
           /\ used' \in [Host -> SUBSET Address]
           /\ (\A g \in Host : HostInv(g))'
<1>1. /\ tasks \in [Host -> [state : Transport!TaskState,
                             address : Address \cup {None}]]
      /\ lookups \in [Host -> Nat]
      /\ used \in [Host -> SUBSET Address]
  BY DEF TransportInv, Transport!TypeOK
<1>2. /\ tasks'[h] = t /\ lookups'[h] = n /\ used'[h] = U
      /\ \A g \in Host : g # h => /\ tasks'[g] = tasks[g]
                                  /\ lookups'[g] = lookups[g]
                                  /\ used'[g] = used[g]
  BY <1>1
<1>3. (\A g \in Host : HostInv(g))'
  BY <1>2 DEF TransportInv, HostInv
<1> QED  BY <1>1, <1>3

\* Every step of the transport keeps the invariant.
LEMMA TransportStep ==
    ASSUME TransportInv, [Transport!Next]_(Transport!vars)
    PROVE  TransportInv'
<1> USE DEF Transport!Step
<1>t. /\ dns \in [Host -> SUBSET Address]
      /\ requests \in [Request -> [step : Transport!Step, host : Host]]
      /\ served \subseteq Host
      /\ tasks \in [Host -> [state : Transport!TaskState,
                             address : Address \cup {None}]]
      /\ lookups \in [Host -> Nat]
      /\ used \in [Host -> SUBSET Address]
      /\ \A h \in Host : HostInv(h)
  BY DEF TransportInv, Transport!TypeOK
<1>h. ASSUME NEW h \in Host
      PROVE  /\ tasks = [tasks EXCEPT ![h] = tasks[h]]
             /\ lookups = [lookups EXCEPT ![h] = lookups[h]]
             /\ used = [used EXCEPT ![h] = used[h]]
  BY <1>t
<1>1. ASSUME NEW q \in Request, NEW h \in Host, Transport!get(q, h)
      PROVE  TransportInv'
  <2>1. /\ requests' \in [Request -> [step : Transport!Step, host : Host]]
        /\ requests'[q].step = "slot"
        /\ requests[q].step = "idle"
        /\ \A r \in Request : r # q => requests'[r] = requests[r]
    BY <1>1, <1>t DEF Transport!get, Transport!At
  <2>2. UNCHANGED <<dns, tasks, free, lookups, used, served>>
    BY <1>1 DEF Transport!get, Transport!world_vars
  <2>3. (q \in Holders <=> requests'[q].step \in Holding) /\ free' = free
    BY <2>1, <2>2 DEF Holders, Holding
  <2> QED  BY <1>t, <2>1, <2>2, <2>3, SlotsKept, HostsStay
           DEF TransportInv, Transport!TypeOK
<1>2. ASSUME NEW q \in Request, Transport!acquire(q)
      PROVE  TransportInv'
  <2>1. /\ requests' \in [Request -> [step : Transport!Step, host : Host]]
        /\ requests'[q].step = "resolve"
        /\ requests[q].step = "slot"
        /\ \A r \in Request : r # q => requests'[r] = requests[r]
    BY <1>2, RequestGoes DEF Transport!acquire, Transport!At
  <2>2. UNCHANGED <<dns, tasks, lookups, used, served>>
    BY <1>2 DEF Transport!acquire, Transport!world_vars
  <2>3. /\ q \notin Holders /\ requests'[q].step \in Holding
        /\ free > 0 /\ free' = free - 1
    BY <1>2, <2>1 DEF Holders, Holding, Transport!acquire
  <2> QED  BY <1>t, <2>1, <2>2, <2>3, SlotsKept, HostsStay
           DEF TransportInv, Transport!TypeOK
<1>3. ASSUME NEW q \in Request, Transport!pinned_addresses(q)
      PROVE  TransportInv'
  <2>h. PICK h \in Host : h = requests[q].host
    BY <1>t
  <2>1. /\ requests' \in [Request -> [step : Transport!Step, host : Host]]
        /\ requests'[q].step = "await"
        /\ requests[q].step = "resolve"
        /\ \A r \in Request : r # q => requests'[r] = requests[r]
    BY <1>3, RequestGoes DEF Transport!pinned_addresses, Transport!At
  <2>2. UNCHANGED <<dns, free, used, served>>
    BY <1>3 DEF Transport!pinned_addresses, Transport!world_vars
  <2>3. (q \in Holders <=> requests'[q].step \in Holding) /\ free' = free
    BY <2>1, <2>2 DEF Holders, Holding
  <2>4. /\ tasks' \in [Host -> [state : Transport!TaskState,
                                address : Address \cup {None}]]
        /\ lookups' \in [Host -> Nat]
        /\ used' \in [Host -> SUBSET Address]
        /\ (\A g \in Host : HostInv(g))'
    <3>1. CASE Transport!MustResolve(h)
      <4>1. /\ tasks[h].state = "none"
            /\ lookups[h] = 0
            /\ used[h] = {}
        BY <1>t, <3>1 DEF Transport!MustResolve, HostInv
      <4>2. /\ tasks' = [tasks EXCEPT ![h] = [state |-> "running",
                                              address |-> None]]
            /\ lookups' = [lookups EXCEPT ![h] = 1]
        BY <1>3, <2>h, <3>1, <4>1 DEF Transport!pinned_addresses
      <4>3. used' = [used EXCEPT ![h] = {}]
        BY <1>h, <2>2, <4>1
      <4>4. PICK t : t = [state |-> "running", address |-> None]
        OBVIOUS
      <4>5. /\ t \in [state : Transport!TaskState, address : Address \cup {None}]
            /\ t.state = "running"
        BY <4>4 DEF Transport!TaskState
      <4>6. /\ tasks' = [tasks EXCEPT ![h] = t]
            /\ {} \in SUBSET Address
            /\ 1 \in Nat /\ 1 <= 1
            /\ ~(t.state = "none") /\ ~(t.state = "pinned")
        BY <4>2, <4>4, <4>5
      <4> QED  BY <4>2, <4>3, <4>5, <4>6, HostGoes
    <3>2. CASE ~Transport!MustResolve(h)
      <4>1. UNCHANGED <<tasks, lookups>>
        BY <1>3, <2>h, <3>2 DEF Transport!pinned_addresses
      <4> QED  BY <2>2, <4>1, HostsStay
    <3> QED  BY <3>1, <3>2
  <2> QED  BY <1>t, <2>1, <2>2, <2>3, <2>4, SlotsKept
           DEF TransportInv, Transport!TypeOK
<1>4. ASSUME NEW q \in Request, Transport!connect(q)
      PROVE  TransportInv'
  <2>h. PICK h \in Host : h = requests[q].host
    BY <1>t
  <2>t. PICK t \in [state : Transport!TaskState, address : Address \cup {None}] :
           t = tasks[h]
    BY <1>t
  <2>1. requests[q].step = "await" /\ UNCHANGED <<dns, tasks, lookups, served>>
    BY <1>4 DEF Transport!connect, Transport!At, Transport!world_vars
  <2>2. CASE t.state = "pinned"
    <3>1. /\ requests' \in [Request -> [step : Transport!Step, host : Host]]
          /\ requests'[q].step = "connected"
          /\ \A r \in Request : r # q => requests'[r] = requests[r]
      BY <1>4, <2>2, <2>h, <2>t, RequestGoes
         DEF Transport!connect, Transport!TaskOf
    <3>2. /\ used' = [used EXCEPT ![h] = @ \cup {t.address}]
          /\ free' = free
      BY <1>4, <2>2, <2>h, <2>t DEF Transport!connect, Transport!TaskOf
    <3>3. t.address \in Public /\ (used[h] # {} => used[h] = {t.address})
      BY <1>t, <2>2, <2>t DEF HostInv
    <3>4. /\ used' = [used EXCEPT ![h] = {t.address}]
          /\ {t.address} \in SUBSET Address
      BY <3>2, <3>3, BackendsAssumption
    <3>5. (q \in Holders <=> requests'[q].step \in Holding) /\ free' = free
      BY <2>1, <3>1, <3>2 DEF Holders, Holding
    <3>6. /\ lookups[h] \in Nat
          /\ lookups[h] <= 1
          /\ tasks' = [tasks EXCEPT ![h] = t]
          /\ lookups' = [lookups EXCEPT ![h] = lookups[h]]
      BY <1>h, <1>t, <2>1, <2>t DEF HostInv
    <3>7. /\ tasks' \in [Host -> [state : Transport!TaskState,
                                address : Address \cup {None}]]
          /\ lookups' \in [Host -> Nat]
          /\ used' \in [Host -> SUBSET Address]
          /\ (\A g \in Host : HostInv(g))'
      BY <2>2, <3>3, <3>4, <3>6, HostGoes
    <3> QED  BY <1>t, <2>1, <3>1, <3>5, <3>7, SlotsKept
             DEF TransportInv, Transport!TypeOK
  <2>3. CASE t.state # "pinned"
    <3>1. Transport!Leave(q) /\ UNCHANGED used
      BY <1>4, <2>3, <2>h, <2>t DEF Transport!connect, Transport!TaskOf
    <3>2. /\ requests' \in [Request -> [step : Transport!Step, host : Host]]
          /\ requests'[q].step = "idle"
          /\ \A r \in Request : r # q => requests'[r] = requests[r]
          /\ free' = free + 1
      BY <3>1, RequestGoes DEF Transport!Leave
    <3>3. q \in Holders /\ requests'[q].step \notin Holding
      BY <2>1, <3>2 DEF Holders, Holding
    <3> QED  BY <1>t, <2>1, <3>1, <3>2, <3>3, SlotsKept, HostsStay
             DEF TransportInv, Transport!TypeOK
  <2> QED  BY <2>2, <2>3
<1>5. ASSUME NEW q \in Request, Transport!answer(q)
      PROVE  TransportInv'
  <2>1. /\ requests' \in [Request -> [step : Transport!Step, host : Host]]
        /\ requests'[q].step = "idle"
        /\ requests[q].step = "connected"
        /\ \A r \in Request : r # q => requests'[r] = requests[r]
        /\ free' = free + 1
    BY <1>5, RequestGoes DEF Transport!answer, Transport!At, Transport!Leave
  <2>2. UNCHANGED <<dns, tasks, lookups, used>> /\ served' \subseteq Host
    BY <1>5, <1>t DEF Transport!answer, Transport!world_vars
  <2>3. q \in Holders /\ requests'[q].step \notin Holding
    BY <2>1 DEF Holders, Holding
  <2> QED  BY <1>t, <2>1, <2>2, <2>3, SlotsKept, HostsStay
           DEF TransportInv, Transport!TypeOK
<1>6. ASSUME NEW q \in Request, Transport!unavailable(q)
      PROVE  TransportInv'
  <2>1. /\ requests' \in [Request -> [step : Transport!Step, host : Host]]
        /\ requests'[q].step = "idle"
        /\ requests[q].step \in {"connected", "await"}
        /\ \A r \in Request : r # q => requests'[r] = requests[r]
        /\ free' = free + 1
    BY <1>6, RequestGoes DEF Transport!unavailable, Transport!At, Transport!Leave
  <2>2. UNCHANGED <<dns, lookups, used, served>>
    BY <1>6 DEF Transport!unavailable, Transport!world_vars
  <2>3. q \in Holders /\ requests'[q].step \notin Holding
    BY <2>1 DEF Holders, Holding
  <2>4. UNCHANGED tasks
    <3>1. requests[q].host \in Host
      BY <1>t
    <3> QED  BY <1>6, <1>h, <3>1 DEF Transport!unavailable, Transport!Abandoned
  <2> QED  BY <1>t, <2>1, <2>2, <2>3, <2>4, SlotsKept, HostsStay
           DEF TransportInv, Transport!TypeOK
<1>s. ASSUME UNCHANGED <<requests, free>>
      PROVE  /\ free' \in 0..Slots
             /\ free' + Transport!Cardinality({r \in Request :
                 requests'[r].step \in {"resolve", "await", "connected"}}) = Slots
  BY <1>s DEF TransportInv, Transport!TypeOK
<1>7. ASSUME NEW h \in Host, Transport!resolve_public_addresses(h)
      PROVE  TransportInv'
  <2>1. UNCHANGED <<dns, requests, free, lookups, used, served>>
    BY <1>7 DEF Transport!resolve_public_addresses, Transport!world_vars
  <2>2. tasks[h].state = "running" /\ used[h] = {}
    BY <1>7, <1>t DEF Transport!resolve_public_addresses, HostInv
  <2>3. PICK t \in [state : Transport!TaskState, address : Address \cup {None}] :
           /\ tasks' = [tasks EXCEPT ![h] = t]
           /\ t.state # "none"
           /\ t.state = "pinned" => t.address \in Public
    <3>1. CASE Transport!Vetted(dns[h])
      <4>1. PICK a \in dns[h] :
               tasks' = [tasks EXCEPT ![h] = [state |-> "pinned", address |-> a]]
        BY <1>7, <3>1 DEF Transport!resolve_public_addresses
      <4>2. a \in Public /\ a \in Address
        BY <3>1, BackendsAssumption DEF Transport!Vetted
      <4>3. PICK t : t = [state |-> "pinned", address |-> a]
        OBVIOUS
      <4>4. /\ t \in [state : Transport!TaskState, address : Address \cup {None}]
            /\ t.state = "pinned" /\ t.address = a
        BY <4>2, <4>3 DEF Transport!TaskState
      <4> QED  BY <4>1, <4>2, <4>3, <4>4
    <3>2. CASE ~Transport!Vetted(dns[h])
      <4>1. tasks' = [tasks EXCEPT ![h].state = "failed"]
        BY <1>7, <3>2 DEF Transport!resolve_public_addresses
      <4>2. PICK t : t = [tasks[h] EXCEPT !.state = "failed"]
        OBVIOUS
      <4>3. /\ t \in [state : Transport!TaskState, address : Address \cup {None}]
            /\ t.state = "failed"
        BY <1>t, <4>2 DEF Transport!TaskState
      <4>4. tasks' = [tasks EXCEPT ![h] = t]
        BY <4>1, <4>2
      <4> QED  BY <4>3, <4>4
    <3> QED  BY <3>1, <3>2
  <2>4. /\ lookups[h] \in Nat
        /\ lookups[h] <= 1
        /\ {} \in SUBSET Address
        /\ lookups' = [lookups EXCEPT ![h] = lookups[h]]
        /\ used' = [used EXCEPT ![h] = {}]
    BY <1>h, <1>t, <2>1, <2>2 DEF HostInv
  <2>5. /\ tasks' \in [Host -> [state : Transport!TaskState,
                                address : Address \cup {None}]]
        /\ lookups' \in [Host -> Nat]
        /\ used' \in [Host -> SUBSET Address]
        /\ (\A g \in Host : HostInv(g))'
    BY <2>3, <2>4, HostGoes
  <2> QED  BY <1>s, <1>t, <2>1, <2>5 DEF TransportInv, Transport!TypeOK
<1>8. ASSUME Transport!dns_changes
      PROVE  TransportInv'
  <2>1. UNCHANGED <<tasks, requests, free, lookups, used, served>>
    BY <1>8 DEF Transport!dns_changes
  <2>2. dns' \in [Host -> SUBSET Address]
    BY <1>8, <1>t DEF Transport!dns_changes
  <2> QED  BY <1>s, <1>t, <2>1, <2>2, HostsStay DEF TransportInv, Transport!TypeOK
<1>9. ASSUME UNCHANGED Transport!vars
      PROVE  TransportInv'
  <2>1. UNCHANGED <<dns, tasks, requests, free, lookups, used, served>>
    BY <1>9 DEF Transport!vars
  <2> QED  BY <1>s, <1>t, <2>1, HostsStay DEF TransportInv, Transport!TypeOK
<1> QED  BY <1>1, <1>2, <1>3, <1>4, <1>5, <1>6, <1>7, <1>8, <1>9
         DEF Transport!Next

\* A process begins with no lookup.
LEMMA TransportInit == Transport!Init => TransportInv
<1> SUFFICES ASSUME Transport!Init PROVE TransportInv
  OBVIOUS
<1>1. /\ requests \in [Request -> [step : Transport!Step, host : Host]]
      /\ \A q \in Request : requests[q].step = "idle"
  BY DEF Transport!Init, Transport!Step
<1>2. {q \in Request :
          requests[q].step \in {"resolve", "await", "connected"}} = {}
  BY <1>1
<1>3. Transport!Cardinality({}) = 0
  BY TransportCardinality, FS_EmptySet
<1>4. [state |-> "none", address |-> None]
         \in [state : Transport!TaskState, address : Address \cup {None}]
  BY DEF Transport!TaskState
<1>5. Transport!TypeOK
  <2>1. /\ tasks \in [Host -> [state : Transport!TaskState,
                               address : Address \cup {None}]]
        /\ lookups \in [Host -> Nat]
        /\ used \in [Host -> SUBSET Address]
        /\ dns \in [Host -> SUBSET Address]
        /\ served \subseteq Host
    BY <1>4 DEF Transport!Init
  <2>2. free \in 0..Slots /\ free + 0 = Slots
    BY BackendsAssumption DEF Transport!Init
  <2> QED  BY <1>1, <1>2, <1>3, <2>1, <2>2 DEF Transport!TypeOK
<1>6. \A h \in Host : HostInv(h)
  BY DEF Transport!Init, HostInv
<1> QED  BY <1>5, <1>6 DEF TransportInv

\* What the invariant says of the lookups and of the addresses.
LEMMA TransportFollows ==
    ASSUME TransportInv
    PROVE  /\ Transport!TypeOK
           /\ Transport!OneLookup
           /\ Transport!OneAddress
<1>1. ASSUME NEW h \in Host
      PROVE  /\ lookups[h] <= 1
             /\ Transport!Cardinality(used[h]) <= 1
             /\ used[h] \subseteq Public
  <2>1. HostInv(h)
    BY DEF TransportInv
  <2>2. CASE used[h] = {}
    BY <2>1, <2>2, TransportCardinality, FS_EmptySet DEF HostInv
  <2>3. CASE used[h] = {tasks[h].address}
    <3>1. Cardinality({tasks[h].address}) = 1
      BY FS_Singleton
    <3> QED  BY <2>1, <2>3, <3>1, TransportCardinality DEF HostInv
  <2> QED  BY <2>1, <2>2, <2>3 DEF HostInv
<1> QED  BY <1>1 DEF TransportInv, Transport!OneLookup, Transport!OneAddress

\* For any hosts, requests, slots and answers of the name servers: a name is
\* looked up once, one public address is used, and every slot has one holder
\* (_resolution_tasks, shield, _pinned_addresses).
THEOREM NamesAreLookedUpOnce ==
    Transport!Spec => [](/\ Transport!TypeOK
                         /\ Transport!OneLookup
                         /\ Transport!OneAddress)
<1>1. Transport!Init => TransportInv
  BY TransportInit
<1>2. TransportInv /\ [Transport!Next]_(Transport!vars) => TransportInv'
  BY TransportStep
<1>3. TransportInv => /\ Transport!TypeOK
                      /\ Transport!OneLookup
                      /\ Transport!OneAddress
  BY TransportFollows
<1> QED  BY <1>1, <1>2, <1>3, PTL DEF Transport!Spec

\* Of every behaviour of the verifiers' process: the lookup is shared
\* (HttpxEsploraTransport).
THEOREM BitcoinLookupIsShared == MCSpec => []LookupIsShared
<1> DEFINE I == scenario = "transport" => TransportInv
<1>1. MCInit => I
  BY TransportInit DEF MCInit
<1>2. I /\ [MCNext]_<<vars, node_vars, transport_vars, scenario>> => I'
  <2> SUFFICES ASSUME scenario' = "transport", I,
                      [MCNext]_<<vars, node_vars, transport_vars, scenario>>
               PROVE  TransportInv'
    OBVIOUS
  <2>1. scenario = "transport" /\ [Transport!Next]_(Transport!vars)
    <3>1. CASE MCNext
      <4>1. scenario = "transport"
        BY <3>1 DEF MCNext
      <4>2. "transport" \notin DOMAIN Bound
        BY DEF Bound
      <4> QED  BY <3>1, <4>1, <4>2 DEF MCNext
    <3>2. CASE UNCHANGED <<vars, node_vars, transport_vars, scenario>>
      BY <3>2 DEF transport_vars, Transport!vars
    <3> QED  BY <3>1, <3>2
  <2> QED  BY <2>1, TransportStep
<1>3. I => LookupIsShared
  BY TransportFollows DEF LookupIsShared
<1> QED  BY <1>1, <1>2, <1>3, PTL DEF MCSpec

-----------------------------------------------------------------------------
(* The node's verifier.  A call that goes on has seen each attestation it  *)
(* is done with on the chain of the first snapshot, or the node has left   *)
(* that chain for good: it is reorganized at most once.                    *)

CurrentOf(c) ==
    CHOOSE x \in c.todo : \A y \in c.todo :
        x.height < y.height \/ (x.height = y.height /\ x.root <= y.root)

\* The depth of a height under the snapshot.
Deep(c, h) == Node!Height(c.snapshot) - h + 1

\* What the call knows of an attestation it is done with.
Covered(c, x) ==
    \/ x.height > Node!Height(c.snapshot) /\ 0 \in c.pending
    \/ /\ x.height <= Node!Height(c.snapshot)
       /\ Node!Height(x.root) = x.height
       /\ Deep(c, x.height) < MinimumConfirmations
             => Deep(c, x.height) \in c.pending
       /\ Deep(c, x.height) >= MinimumConfirmations
             => [height |-> x.height, block |-> x.root,
                 confirmations |-> Deep(c, x.height)] \in c.evidence

\* The node left the snapshot's chain.
Left(c) == node_reorgs >= 1 /\ ~Node!Holds(c.snapshot, node_best)

Evident(c, e) ==
    /\ e.block \in 1..Len(node_blocks)
    /\ Node!Height(e.block) = e.height
    /\ e.height <= Node!Height(c.snapshot)
    /\ e.confirmations = Deep(c, e.height)
    /\ e.confirmations >= MinimumConfirmations
    /\ [height |-> e.height, root |-> e.block] \in c.candidates
    /\ MaxReorgs <= 1 => Node!Holds(c.snapshot, e.block) \/ Left(c)

\* The call asks of one attestation.
Asking(c) ==
    /\ c.todo # {}
    /\ c.hash \in 1..Len(node_blocks)
    /\ Node!Height(c.hash) = CurrentOf(c).height
    /\ CurrentOf(c).height <= Node!Height(c.snapshot)
    /\ \E t \in node_held : /\ Node!Height(t) >= CurrentOf(c).height
                            /\ Node!BlockAt(t, CurrentOf(c).height) = c.hash

CallInv(c) ==
    /\ c \in Node!Call
    /\ c.candidates # {}
    /\ \A x \in c.candidates : x.root \in 1..Len(node_blocks)
    /\ c.todo \subseteq c.candidates
    /\ c.step = "snapshot" => /\ c.evidence = {}
                              /\ c.pending = {}
                              /\ c.todo = c.candidates
    /\ c.step # "snapshot" =>
          /\ c.snapshot \in 1..Len(node_blocks)
          /\ c.pending \subseteq 0..MaxBlocks
          /\ \A x \in c.candidates \ c.todo : Covered(c, x)
          /\ \A e \in c.evidence : Evident(c, e)
          /\ node_reorgs = 0 => Node!Holds(node_best, c.snapshot)
    /\ c.step \in {"header", "recheck"} => Asking(c)
    /\ c.step = "recheck" => CurrentOf(c).root = c.hash

ChainInv ==
    /\ Tree(node_blocks)
    /\ node_best \in 1..Len(node_blocks)
    /\ node_reorgs \in Nat
    /\ node_reorgs <= MaxReorgs
    /\ node_sound \in BOOLEAN
    /\ node_held \subseteq 1..Len(node_blocks)

NodeInv ==
    /\ ChainInv
    /\ node_call # None => /\ CallInv(node_call)
                           /\ node_result = None
                           /\ node_best \in node_held
    /\ node_result \in Node!Result \cup {None}
    /\ Node!CondemnedByTheChain

\* The node's words for the chains of the tree.
LEMMA NodeWords ==
    /\ \A b : Node!Height(b) = High(node_blocks, b)
    /\ \A t, b : Node!Holds(t, b) <=> OnChain(node_blocks, t, b)
    /\ \A t, h : Node!BlockAt(t, h) = AtHeight(node_blocks, t, h)
  BY DEF Node!Height, Node!Holds, Node!BlockAt, High, OnChain, AtHeight

\* The chains of the node.
LEMMA NodeChains ==
    ASSUME Tree(node_blocks), NEW t \in 1..Len(node_blocks)
    PROVE  /\ Node!Height(t) \in Nat
           /\ Node!Height(t) < MaxBlocks
           /\ Node!Holds(t, t)
           /\ \A h \in 0..Node!Height(t) :
                 /\ Node!BlockAt(t, h) \in 1..Len(node_blocks)
                 /\ Node!Height(Node!BlockAt(t, h)) = h
                 /\ Node!Holds(t, Node!BlockAt(t, h))
           /\ \A b : Node!Holds(t, b) =>
                 /\ b \in 1..Len(node_blocks)
                 /\ Node!Height(b) \in 0..Node!Height(t)
                 /\ Node!BlockAt(t, Node!Height(b)) = b
           /\ \A u, b : Node!Holds(t, u) /\ Node!Holds(u, b) => Node!Holds(t, b)
           /\ \A u, b : /\ Node!Holds(t, u)
                        /\ Node!Holds(t, b)
                        /\ Node!Height(b) <= Node!Height(u)
                        => Node!Holds(u, b)
  BY ChainHolds, NodeWords DEF ChainOf

\* An attestation that is next is one of those that are left.
LEMMA CurrentIsLeft ==
    ASSUME NEW c, c.todo \in SUBSET Node!Candidate, c.todo # {}
    PROVE  CurrentOf(c) \in c.todo
<1>1. \A x \in c.todo : x.height \in Nat /\ x.root \in Nat
  BY DEF Node!Candidate, Node!Block
<1> DEFINE H == {x.height : x \in c.todo}
<1>2. PICK h \in H : \A k \in H : h <= k
  <2>1. H \in SUBSET Nat /\ H # {}
    BY <1>1
  <2> QED  BY <2>1, LeastExists
<1> DEFINE R == {x.root : x \in {y \in c.todo : y.height = h}}
<1>3. PICK r \in R : \A k \in R : r <= k
  <2>1. R \in SUBSET Nat /\ R # {}
    BY <1>1, <1>2
  <2> QED  BY <2>1, LeastExists
<1>4. PICK x \in c.todo : x.height = h /\ x.root = r
  BY <1>3
<1>5. ASSUME NEW y \in c.todo
      PROVE  x.height < y.height \/ (x.height = y.height /\ x.root <= y.root)
  <2>1. x.height <= y.height
    BY <1>2, <1>4
  <2>2. x.height = y.height => x.root <= y.root
    BY <1>3, <1>4
  <2> QED  BY <1>1, <2>1, <2>2
<1> QED  BY <1>4, <1>5 DEF CurrentOf

\* A call keeps its invariant while the node stays.
LEMMA CallStays ==
    ASSUME NEW d, CallInv(d),
           UNCHANGED <<node_blocks, node_best, node_reorgs, node_sound, node_held>>
    PROVE  CallInv(d)'
  BY DEF CallInv, Asking, Evident, Left, Covered, Deep, CurrentOf, Node!Height,
         Node!Holds, Node!BlockAt

\* The tree is what it was when no block is mined.
LEMMA TreeStays ==
    ASSUME Tree(node_blocks), UNCHANGED node_blocks
    PROVE  Tree(node_blocks)'
  BY Zenon

\* The node's chain stays.
LEMMA NodeStays ==
    ASSUME ChainInv,
           UNCHANGED <<node_blocks, node_best, node_reorgs, node_sound, node_held>>
    PROVE  ChainInv'
  BY TreeStays DEF ChainInv

\* A call goes on.
LEMMA NodeGoes ==
    ASSUME NodeInv, node_call # None, NEW d, CallInv(d), Node!Goes(d)
    PROVE  NodeInv'
<1>1. /\ UNCHANGED <<node_blocks, node_best, node_reorgs, node_sound, node_held>>
      /\ node_result' = node_result
      /\ node_call' = d
  BY DEF Node!Goes, Node!chain_vars
<1>2. CallInv(d)'
  BY <1>1, CallStays
<1>3. CallInv(node_call)'
  BY <1>1, <1>2
<1>4. ChainInv' /\ Node!CondemnedByTheChain'
  BY <1>1, NodeStays
     DEF NodeInv, Node!CondemnedByTheChain, Node!Height, Node!BlockAt
<1> QED  BY <1>1, <1>3, <1>4 DEF NodeInv

\* A call ends with an answer that condemns no proof, or one the chain is
\* against.
LEMMA NodeEnds ==
    ASSUME NodeInv, node_call # None, NEW k, NEW h, NEW b, NEW n,
           Node!Ends(k, h, b, n),
           k \in {"verified", "pending", "invalid", "unavailable"},
           h \in Nat, b \in Node!Block \cup {None}, n \in Nat,
           k = "invalid" /\ node_sound =>
              \E x \in node_call.candidates, t \in node_held :
                 /\ Node!Height(t) >= x.height
                 /\ Node!BlockAt(t, x.height) # x.root
    PROVE  NodeInv'
<1>1. /\ UNCHANGED <<node_blocks, node_best, node_reorgs, node_sound, node_held>>
      /\ node_call' = None
      /\ node_result' = [kind |-> k, height |-> h, block |-> b,
                         confirmations |-> n,
                         candidates |-> node_call.candidates]
  BY DEF Node!Ends, Node!chain_vars
<1>2. node_call.candidates \in SUBSET Node!Candidate
  BY DEF NodeInv, CallInv, Node!Call
<1>3. PICK r : r = [kind |-> k, height |-> h, block |-> b,
                    confirmations |-> n, candidates |-> node_call.candidates]
  OBVIOUS
<1>4. /\ r \in Node!Result
      /\ r.kind = k
      /\ r.candidates = node_call.candidates
  BY <1>2, <1>3 DEF Node!Result
<1>5. ChainInv'
  BY <1>1, NodeStays DEF NodeInv
<1>6. Node!CondemnedByTheChain'
  BY <1>1, <1>3, <1>4
     DEF Node!CondemnedByTheChain, Node!Height, Node!BlockAt
<1> QED  BY <1>1, <1>3, <1>4, <1>5, <1>6 DEF NodeInv

\* A call fails, or is condemned by the answer of a node that is not sound.
LEMMA NodeFails ==
    ASSUME NodeInv, node_call # None,
           \/ Node!Fails("unavailable")
           \/ Node!Fails("invalid") /\ ~node_sound
    PROVE  NodeInv'
<1>1. \/ Node!Ends("unavailable", 0, None, 0)
      \/ Node!Ends("invalid", 0, None, 0) /\ ~node_sound
  BY DEF Node!Fails
<1> QED  BY <1>1, NodeEnds

\* A block is mined.
LEMMA NodeMines ==
    ASSUME NodeInv, NEW p \in 1..Len(node_blocks), Node!mine(p)
    PROVE  NodeInv'
<1>1. /\ node_call = None
      /\ node_result = None
      /\ Len(node_blocks) < MaxBlocks
      /\ node_blocks' = Append(node_blocks,
                               Append(node_blocks[p], Len(node_blocks) + 1))
      /\ UNCHANGED <<node_best, node_reorgs, node_sound, node_held, node_call,
                     node_result>>
  BY DEF Node!mine, Node!Grows
<1>2. PICK U : U = Append(node_blocks,
                          Append(node_blocks[p], Len(node_blocks) + 1))
  OBVIOUS
<1>3. Tree(U) /\ Len(U) = Len(node_blocks) + 1
  BY <1>1, <1>2, TreeGrows DEF NodeInv, ChainInv
<1>4. Len(node_blocks) \in Nat
  BY BlocksAssumption DEF NodeInv, ChainInv, Tree
<1>5. 1..Len(node_blocks) \subseteq 1..Len(U)
  BY <1>3, <1>4
<1>6. Tree(node_blocks)'
  BY <1>1, <1>2, <1>3, Zenon
<1>7. ChainInv'
  BY <1>1, <1>2, <1>5, <1>6 DEF NodeInv, ChainInv
<1> QED  BY <1>1, <1>7 DEF NodeInv, Node!CondemnedByTheChain

\* The node moves on or leaves its branch.
LEMMA NodeFollows ==
    ASSUME NodeInv, NEW b \in 1..Len(node_blocks), Node!follow(b)
    PROVE  NodeInv'
<1>1. /\ node_result = None
      /\ node_best' = b
      /\ UNCHANGED <<node_blocks, node_sound, node_call, node_result>>
      /\ \/ Node!Holds(b, node_best) /\ node_reorgs' = node_reorgs
         \/ node_reorgs < MaxReorgs /\ node_reorgs' = node_reorgs + 1
      /\ node_held' = IF node_call = None THEN node_held
                      ELSE node_held \cup {b}
  BY DEF Node!follow
<1>2. ChainInv /\ MaxReorgs \in Nat
  BY ConstantsAssumption DEF NodeInv
<1>3. ChainInv'
  BY <1>1, <1>2, TreeStays DEF ChainInv
<1>4. ASSUME node_call # None
      PROVE  CallInv(node_call)' /\ (node_best \in node_held)'
  <2>1. PICK c : c = node_call
    OBVIOUS
  <2>2. CallInv(c) /\ node_call' = c
    BY <1>1, <1>4, <2>1 DEF NodeInv
  <2>3. /\ \A x : Node!Height(x)' = Node!Height(x)
        /\ \A t, x : Node!Holds(t, x)' <=> Node!Holds(t, x)
        /\ \A t, x : Node!BlockAt(t, x)' = Node!BlockAt(t, x)
    BY <1>1 DEF Node!Height, Node!Holds, Node!BlockAt
  <2>4. ASSUME c.step # "snapshot"
        PROVE  /\ (node_reorgs = 0 => Node!Holds(node_best, c.snapshot))'
               /\ MaxReorgs <= 1 /\ Left(c) => Left(c)'
    <3>1. /\ c.snapshot \in 1..Len(node_blocks)
          /\ node_reorgs = 0 => Node!Holds(node_best, c.snapshot)
      BY <2>2, <2>4 DEF CallInv
    <3>2. node_reorgs' = 0 => Node!Holds(b, c.snapshot)
      BY <1>1, <1>2, <3>1, NodeChains DEF ChainInv
    <3>3. ASSUME MaxReorgs <= 1, Left(c)
          PROVE  node_reorgs' >= 1 /\ ~Node!Holds(c.snapshot, b)
      <4>1. Node!Holds(b, node_best) /\ node_reorgs' = node_reorgs
        BY <1>1, <1>2, <3>3 DEF Left, ChainInv
      <4> QED  BY <1>2, <3>1, <3>3, <4>1, NodeChains DEF Left, ChainInv
    <3> QED  BY <1>1, <2>3, <3>2, <3>3 DEF Left
  <2>5. node_held \subseteq node_held' /\ b \in node_held'
    BY <1>1, <1>4
  <2>6. CallInv(c)'
    <3>1. Len(node_blocks') = Len(node_blocks)
      BY <1>1
    <3>2. ASSUME c.step \in {"header", "recheck"} PROVE Asking(c)'
      <4>1. Asking(c)
        BY <2>2, <3>2 DEF CallInv
      <4> QED  BY <2>3, <2>5, <3>1, <4>1 DEF Asking, CurrentOf
    <3>3. \A x : Covered(c, x) => Covered(c, x)'
      BY <2>3 DEF Covered, Deep
    <3>4. ASSUME NEW e, Evident(c, e), c.step # "snapshot"
          PROVE  Evident(c, e)'
      BY <2>3, <2>4, <3>1, <3>4 DEF Evident, Deep
    <3>5. c.step = "recheck" => (CurrentOf(c).root = c.hash)'
      BY <2>2 DEF CallInv, CurrentOf
    <3> QED  BY <2>2, <2>4, <3>1, <3>2, <3>3, <3>4, <3>5, Zenon DEF CallInv
  <2> QED  BY <1>1, <2>2, <2>5, <2>6
<1> QED  BY <1>1, <1>3, <1>4 DEF NodeInv, Node!CondemnedByTheChain

\* The proofs a call is made with.
LEMMA NodeProofs ==
    ASSUME ChainInv, NEW S \in Node!Proofs
    PROVE  /\ S \in SUBSET Node!Candidate
           /\ S # {}
           /\ \A x \in S : x.root \in 1..Len(node_blocks)
<1>1. ASSUME NEW x \in Node!Attestation
      PROVE  x \in Node!Candidate /\ x.root \in 1..Len(node_blocks)
  <2>1. PICK b \in 2..Len(node_blocks), i \in {0, 1} :
           x = [height |-> Node!Height(b) + i, root |-> b]
    BY DEF Node!Attestation
  <2>2. /\ Len(node_blocks) \in Nat
        /\ Len(node_blocks) <= MaxBlocks
        /\ MaxBlocks \in Nat
    BY BlocksAssumption DEF ChainInv, Tree
  <2>3. b \in 1..Len(node_blocks) /\ b \in Node!Block
    BY <2>2 DEF Node!Block
  <2>4. Node!Height(b) \in Nat
    BY <2>3, NodeChains DEF ChainInv
  <2> QED  BY <2>1, <2>3, <2>4 DEF Node!Candidate
<1>2. /\ S # {}
      /\ S \in SUBSET Node!Attestation
  BY DEF Node!Proofs
<1> QED  BY <1>1, <1>2

\* The blocks that were mined are blocks.
LEMMA NodeBlocks ==
    ASSUME ChainInv
    PROVE  /\ 1..Len(node_blocks) \subseteq Node!Block
           /\ Node!Block \subseteq Nat
  BY BlocksAssumption DEF ChainInv, Tree, Node!Block

\* A call begins.
LEMMA NodeBegins ==
    ASSUME NodeInv, NEW S \in Node!Proofs, Node!verify_exact_digest(S)
    PROVE  NodeInv'
<1>1. PICK c : c = [candidates |-> S, todo |-> S, step |-> "snapshot",
                    snapshot |-> None, hash |-> None, evidence |-> {},
                    pending |-> {}]
  OBVIOUS
<1>2. /\ node_call' = c
      /\ node_held' = {node_best}
      /\ node_result = None
      /\ UNCHANGED <<node_blocks, node_best, node_reorgs, node_sound, node_result>>
  BY <1>1 DEF Node!verify_exact_digest, Node!chain_vars
<1>3. /\ S \in SUBSET Node!Candidate
      /\ S # {}
      /\ \A x \in S : x.root \in 1..Len(node_blocks)
  BY NodeProofs DEF NodeInv
<1>4. c \in Node!Call
  BY <1>1, <1>3 DEF Node!Call
<1>5. CallInv(c)'
  BY <1>1, <1>2, <1>3, <1>4 DEF CallInv
<1>6. ChainInv'
  BY <1>2, TreeStays DEF ChainInv, NodeInv
<1> QED  BY <1>2, <1>5, <1>6 DEF NodeInv, Node!CondemnedByTheChain

\* The first snapshot is taken.
LEMMA NodeSnapshot ==
    ASSUME NodeInv, Node!chain_snapshot
    PROVE  NodeInv'
<1>1. PICK c : c = node_call
  OBVIOUS
<1>2. /\ c # None
      /\ c.step = "snapshot"
      /\ CallInv(c)
      /\ ChainInv
  BY <1>1 DEF Node!chain_snapshot, Node!On, NodeInv
<1>3. PICK d : d = [c EXCEPT !.snapshot = node_best, !.step = "next"]
  OBVIOUS
<1>4. /\ node_best \in Node!Block
      /\ node_best \in 1..Len(node_blocks)
      /\ Node!Holds(node_best, node_best)
  BY <1>2, NodeChains, NodeBlocks DEF ChainInv
<1>5. /\ d \in Node!Call
      /\ d.snapshot = node_best
      /\ d.step = "next"
      /\ d.candidates = c.candidates
      /\ d.todo = c.candidates
      /\ d.evidence = {}
      /\ d.pending = {}
  BY <1>2, <1>3, <1>4 DEF CallInv, Node!Call
<1>6. CallInv(d)
  BY <1>2, <1>4, <1>5 DEF CallInv
<1> QED  BY <1>1, <1>2, <1>3, <1>6, NodeGoes DEF Node!chain_snapshot

\* What is known when the call takes up an attestation.
LEMMA NodeNext ==
    ASSUME NodeInv, Node!On("next"), node_call.todo # {}
    PROVE  \E c, x :
              /\ c = node_call
              /\ c # None
              /\ c.step = "next"
              /\ c \in Node!Call
              /\ CallInv(c)
              /\ x = Node!Current
              /\ x = CurrentOf(c)
              /\ x \in c.todo
              /\ x \in c.candidates
              /\ x \in Node!Candidate
              /\ c.snapshot \in 1..Len(node_blocks)
              /\ Node!Height(c.snapshot) \in Nat
              /\ Node!Height(c.snapshot) < MaxBlocks
<1>1. PICK c : c = node_call
  OBVIOUS
<1>2. c # None /\ c.step = "next" /\ CallInv(c) /\ c.todo # {}
  BY <1>1 DEF Node!On, NodeInv
<1>3. c \in Node!Call /\ c.todo \in SUBSET Node!Candidate
  BY <1>2 DEF CallInv, Node!Call
<1>4. CurrentOf(c) \in c.todo
  BY <1>2, <1>3, CurrentIsLeft
<1>5. Node!Current = CurrentOf(c)
  BY <1>1 DEF Node!Current, CurrentOf
<1>6. c.snapshot \in 1..Len(node_blocks) /\ c.todo \subseteq c.candidates
  BY <1>2 DEF CallInv
<1>7. /\ Node!Height(c.snapshot) \in Nat
      /\ Node!Height(c.snapshot) < MaxBlocks
  BY <1>6, NodeChains DEF NodeInv, ChainInv
<1> QED  BY <1>1, <1>2, <1>3, <1>4, <1>5, <1>6, <1>7

\* What is known of an attestation that is done with stays known.
LEMMA CoveredStays ==
    ASSUME NEW c, NEW d, NEW x, d.snapshot = c.snapshot,
           c.pending \subseteq d.pending, c.evidence \subseteq d.evidence,
           Covered(c, x)
    PROVE  Covered(d, x)
  BY DEF Covered, Deep

\* An attestation above the tip is done with.
LEMMA NodeAboveTip ==
    ASSUME NodeInv, Node!above_tip
    PROVE  NodeInv'
<1>0. Node!On("next") /\ node_call.todo # {}
  BY DEF Node!above_tip
<1>1. PICK c, x :
              /\ c = node_call
              /\ c # None
              /\ c.step = "next"
              /\ c \in Node!Call
              /\ CallInv(c)
              /\ x = Node!Current
              /\ x = CurrentOf(c)
              /\ x \in c.todo
              /\ x \in c.candidates
              /\ x \in Node!Candidate
              /\ c.snapshot \in 1..Len(node_blocks)
              /\ Node!Height(c.snapshot) \in Nat
              /\ Node!Height(c.snapshot) < MaxBlocks
  BY <1>0, NodeNext
<1>2. PICK d : d = [c EXCEPT !.todo = @ \ {x}, !.pending = @ \cup {0}]
  OBVIOUS
<1>3. /\ Node!Goes(d)
      /\ x.height > Node!Height(c.snapshot)
  BY <1>1, <1>2 DEF Node!above_tip, Node!AboveTip
<1>a. PICK P \in SUBSET Nat, D \in SUBSET Node!Candidate :
         P = c.pending \cup {0} /\ D = c.todo \ {x}
  <2>1. c.pending \in SUBSET Nat /\ c.todo \in SUBSET Node!Candidate
    BY <1>1 DEF Node!Call
  <2>2. c.pending \cup {0} \in SUBSET Nat
    BY <2>1
  <2>3. c.todo \ {x} \in SUBSET Node!Candidate
    BY <2>1
  <2> QED  BY <2>2, <2>3
<1>b. d = [c EXCEPT !.todo = D, !.pending = P]
  BY <1>1, <1>2, <1>a DEF Node!Call
<1>4. /\ d \in Node!Call
      /\ d.todo = c.todo \ {x}
      /\ d.pending = c.pending \cup {0}
      /\ d.candidates = c.candidates
      /\ d.evidence = c.evidence
      /\ d.snapshot = c.snapshot
      /\ d.step = "next"
  BY <1>1, <1>a, <1>b DEF Node!Call
<1>5. \A y \in d.candidates \ d.todo : Covered(d, y)
  <2>1. Covered(d, x)
    BY <1>3, <1>4 DEF Covered
  <2>2. \A y \in c.candidates \ c.todo : Covered(c, y)
    BY <1>1 DEF CallInv
  <2>3. \A y : Covered(c, y) => Covered(d, y)
    BY <1>4, CoveredStays
  <2> QED  BY <1>4, <2>1, <2>2, <2>3
<1>6. \A e \in d.evidence : Evident(d, e)
  BY <1>1, <1>4 DEF CallInv, Evident, Deep, Left
<1>7. d.pending \subseteq 0..MaxBlocks
  BY <1>1, <1>4, BlocksAssumption DEF CallInv
<1>8. CallInv(d)
  BY <1>1, <1>4, <1>5, <1>6, <1>7 DEF CallInv
<1> QED  BY <1>1, <1>3, <1>8, NodeGoes

\* The hash at an attested height.
LEMMA NodeHash ==
    ASSUME NodeInv, Node!getblockhash
    PROVE  NodeInv'
<1>0. Node!On("next") /\ node_call.todo # {}
  BY DEF Node!getblockhash
<1>1. PICK c, x :
              /\ c = node_call
              /\ c # None
              /\ c.step = "next"
              /\ c \in Node!Call
              /\ CallInv(c)
              /\ x = Node!Current
              /\ x = CurrentOf(c)
              /\ x \in c.todo
              /\ x \in c.candidates
              /\ x \in Node!Candidate
              /\ c.snapshot \in 1..Len(node_blocks)
              /\ Node!Height(c.snapshot) \in Nat
              /\ Node!Height(c.snapshot) < MaxBlocks
  BY <1>0, NodeNext
<1>2. CASE ~(x.height <= Node!Height(node_best))
  BY <1>1, <1>2, NodeFails DEF Node!getblockhash
<1>3. CASE x.height <= Node!Height(node_best)
  <2>1. PICK h : h = Node!BlockAt(node_best, x.height)
    OBVIOUS
  <2>2. PICK d : d = [c EXCEPT !.hash = h, !.step = "header"]
    OBVIOUS
  <2>3. Node!Goes(d) /\ x.height <= Node!Height(c.snapshot)
    BY <1>1, <1>3, <2>1, <2>2 DEF Node!getblockhash
  <2>4. /\ x.height \in Nat
        /\ node_best \in 1..Len(node_blocks)
        /\ node_best \in node_held
        /\ Node!Height(node_best) \in Nat
    BY <1>1, NodeChains DEF NodeInv, ChainInv, Node!Candidate
  <2>5. x.height \in 0..Node!Height(node_best)
    BY <1>3, <2>4
  <2>6. h \in 1..Len(node_blocks) /\ Node!Height(h) = x.height
    BY <2>1, <2>4, <2>5, NodeChains DEF NodeInv, ChainInv
  <2>7. h \in Node!Block
    BY <2>6, NodeBlocks DEF NodeInv
  <2>8. /\ d \in Node!Call
        /\ d.todo = c.todo
        /\ d.pending = c.pending
        /\ d.candidates = c.candidates
        /\ d.evidence = c.evidence
        /\ d.snapshot = c.snapshot
        /\ d.hash = h
        /\ d.step = "header"
    BY <1>1, <2>2, <2>7 DEF Node!Call
  <2>9. CurrentOf(d) = x
    BY <1>1, <2>8 DEF CurrentOf
  <2>10. Asking(d)
    BY <1>1, <1>3, <2>1, <2>3, <2>4, <2>6, <2>8, <2>9 DEF Asking
  <2>11. \A y \in d.candidates \ d.todo : Covered(d, y)
    BY <1>1, <2>8, CoveredStays DEF CallInv
  <2>12. \A e \in d.evidence : Evident(d, e)
    BY <1>1, <2>8 DEF CallInv, Evident, Deep, Left
  <2>13. CallInv(d)
    BY <1>1, <2>8, <2>10, <2>11, <2>12 DEF CallInv
  <2> QED  BY <1>1, <2>3, <2>13, NodeGoes
<1> QED  BY <1>2, <1>3

\* What is known when the call asks of a block.
LEMMA NodeAsking ==
    ASSUME NodeInv, Node!On("header") \/ Node!On("recheck")
    PROVE  \E c, x :
              /\ c = node_call
              /\ c # None
              /\ c.step \in {"header", "recheck"}
              /\ c \in Node!Call
              /\ CallInv(c)
              /\ Asking(c)
              /\ x = Node!Current
              /\ x = CurrentOf(c)
              /\ x \in c.todo
              /\ x \in c.candidates
              /\ x.height \in Nat
              /\ c.snapshot \in 1..Len(node_blocks)
              /\ Node!Height(c.snapshot) \in Nat
              /\ Node!Height(c.snapshot) < MaxBlocks
<1>1. PICK c : c = node_call
  OBVIOUS
<1>2. c # None /\ c.step \in {"header", "recheck"} /\ CallInv(c)
  BY <1>1 DEF Node!On, NodeInv
<1>3. c \in Node!Call /\ c.todo \in SUBSET Node!Candidate
  BY <1>2 DEF CallInv, Node!Call
<1>4. Asking(c)
  BY <1>2 DEF CallInv
<1>5. CurrentOf(c) \in c.todo
  BY <1>3, <1>4, CurrentIsLeft DEF Asking
<1>6. Node!Current = CurrentOf(c)
  BY <1>1 DEF Node!Current, CurrentOf
<1>7. c.snapshot \in 1..Len(node_blocks) /\ c.todo \subseteq c.candidates
  BY <1>2 DEF CallInv
<1>8. /\ Node!Height(c.snapshot) \in Nat
      /\ Node!Height(c.snapshot) < MaxBlocks
  BY <1>7, NodeChains DEF NodeInv, ChainInv
<1>9. CurrentOf(c).height \in Nat
  BY <1>3, <1>5 DEF Node!Candidate
<1> QED  BY <1>1, <1>2, <1>3, <1>4, <1>5, <1>6, <1>7, <1>8, <1>9

\* The header of the block at an attested height.
LEMMA NodeHeader ==
    ASSUME NodeInv, Node!getblockheader
    PROVE  NodeInv'
<1>0. Node!On("header")
  BY DEF Node!getblockheader
<1>1. PICK c, x :
              /\ c = node_call
              /\ c # None
              /\ c.step \in {"header", "recheck"}
              /\ c \in Node!Call
              /\ CallInv(c)
              /\ Asking(c)
              /\ x = Node!Current
              /\ x = CurrentOf(c)
              /\ x \in c.todo
              /\ x \in c.candidates
              /\ x.height \in Nat
              /\ c.snapshot \in 1..Len(node_blocks)
              /\ Node!Height(c.snapshot) \in Nat
              /\ Node!Height(c.snapshot) < MaxBlocks
  BY <1>0, NodeAsking
<1>2. CASE ~Node!CountAgrees
  BY <1>1, <1>2, NodeFails DEF Node!getblockheader
<1>3. CASE Node!CountAgrees /\ ~Node!Commits
  <2>1. Node!Ends("invalid", 0, None, 0)
    BY <1>3 DEF Node!getblockheader, Node!Fails
  <2>2. x.root # c.hash
    BY <1>1, <1>3 DEF Node!Commits
  <2>3. PICK t \in node_held : /\ Node!Height(t) >= x.height
                               /\ Node!BlockAt(t, x.height) = c.hash
    BY <1>1 DEF Asking
  <2> QED  BY <1>1, <2>1, <2>2, <2>3, NodeEnds
<1>4. CASE Node!CountAgrees /\ Node!Commits
  <2>1. PICK d : d = [c EXCEPT !.step = "recheck"]
    OBVIOUS
  <2>2. Node!Goes(d) /\ x.root = c.hash
    BY <1>1, <1>4, <2>1 DEF Node!getblockheader, Node!Commits
  <2>3. /\ d \in Node!Call
        /\ d.todo = c.todo
        /\ d.pending = c.pending
        /\ d.candidates = c.candidates
        /\ d.evidence = c.evidence
        /\ d.snapshot = c.snapshot
        /\ d.hash = c.hash
        /\ d.step = "recheck"
    BY <1>1, <2>1 DEF Node!Call
  <2>4. CurrentOf(d) = x
    BY <1>1, <2>3 DEF CurrentOf
  <2>5. Asking(d)
    BY <1>1, <2>3, <2>4 DEF Asking
  <2>6. \A y \in d.candidates \ d.todo : Covered(d, y)
    BY <1>1, <2>3, CoveredStays DEF CallInv
  <2>7. \A e \in d.evidence : Evident(d, e)
    BY <1>1, <2>3 DEF CallInv, Evident, Deep, Left
  <2>8. CallInv(d)
    BY <1>1, <2>2, <2>3, <2>4, <2>5, <2>6, <2>7 DEF CallInv
  <2> QED  BY <1>1, <2>2, <2>8, NodeGoes
<1> QED  BY <1>2, <1>3, <1>4

\* A block the node has on its chain is on that of the snapshot, or the node
\* has left that one.
LEMMA OnSnapshotOrLeft ==
    ASSUME NodeInv, NEW c, CallInv(c), c.step # "snapshot",
           NEW h, Node!Holds(node_best, h),
           Node!Height(h) <= Node!Height(c.snapshot)
    PROVE  Node!Holds(c.snapshot, h) \/ Left(c)
<1>1. /\ c.snapshot \in 1..Len(node_blocks)
      /\ node_best \in 1..Len(node_blocks)
      /\ node_reorgs \in Nat
      /\ Tree(node_blocks)
      /\ node_reorgs = 0 => Node!Holds(node_best, c.snapshot)
  BY DEF NodeInv, ChainInv, CallInv
<1>2. CASE node_reorgs = 0
  BY <1>1, <1>2, NodeChains
<1>3. CASE node_reorgs # 0 /\ Node!Holds(c.snapshot, node_best)
  BY <1>1, <1>3, NodeChains
<1>4. CASE node_reorgs # 0 /\ ~Node!Holds(c.snapshot, node_best)
  BY <1>1, <1>4 DEF Left
<1> QED  BY <1>2, <1>3, <1>4

\* The hash at that height once more.
LEMMA NodeRecheck ==
    ASSUME NodeInv, Node!recheck
    PROVE  NodeInv'
<1>0. Node!On("recheck")
  BY DEF Node!recheck
<1>1. PICK c, x :
              /\ c = node_call
              /\ c # None
              /\ c.step \in {"header", "recheck"}
              /\ c \in Node!Call
              /\ CallInv(c)
              /\ Asking(c)
              /\ x = Node!Current
              /\ x = CurrentOf(c)
              /\ x \in c.todo
              /\ x \in c.candidates
              /\ x.height \in Nat
              /\ c.snapshot \in 1..Len(node_blocks)
              /\ Node!Height(c.snapshot) \in Nat
              /\ Node!Height(c.snapshot) < MaxBlocks
  BY <1>0, NodeAsking
<1>2. CASE \/ x.height > Node!Height(node_best)
           \/ Node!BlockAt(node_best, x.height) # c.hash
  BY <1>1, <1>2, NodeFails DEF Node!recheck
<1>3. CASE /\ ~(x.height > Node!Height(node_best))
           /\ Node!BlockAt(node_best, x.height) = c.hash
  <2>1. PICK n : n = Deep(c, x.height)
    OBVIOUS
  <2>2. PICK e : e = [height |-> x.height, block |-> c.hash,
                      confirmations |-> n]
    OBVIOUS
  <2>3. PICK P, E :
          /\ P = IF n < MinimumConfirmations THEN c.pending \cup {n}
                 ELSE c.pending
          /\ E = IF n < MinimumConfirmations THEN c.evidence
                 ELSE c.evidence \cup {e}
    OBVIOUS
  <2>4. PICK D : D = c.todo \ {x}
    OBVIOUS
  <2>5. PICK d : d = [c EXCEPT !.todo = D, !.step = "next", !.hash = None,
                               !.pending = P, !.evidence = E]
    OBVIOUS
  <2>6. /\ x.root = c.hash
        /\ c.hash \in 1..Len(node_blocks)
        /\ Node!Height(c.hash) = x.height
        /\ x.height <= Node!Height(c.snapshot)
    BY <1>0, <1>1 DEF CallInv, Asking, Node!On
  <2>7. Node!Goes(d)
    <3>1. Node!Expected = n
      BY <1>1, <2>1 DEF Node!Expected, Deep
    <3> QED  BY <1>1, <1>3, <2>2, <2>3, <2>4, <2>5, <3>1 DEF Node!recheck
  <2>8. n \in 0..MaxBlocks /\ n \in Nat
    BY <1>1, <2>1, <2>6, BlocksAssumption DEF Deep
  <2>9. /\ P \in SUBSET Nat
        /\ D \in SUBSET Node!Candidate
        /\ E \in SUBSET Node!BlockEvidence
    <3>1. /\ c.pending \in SUBSET Nat
          /\ c.todo \in SUBSET Node!Candidate
          /\ c.evidence \in SUBSET Node!BlockEvidence
      BY <1>1 DEF Node!Call
    <3>2. e \in Node!BlockEvidence
      <4>1. c.hash \in Node!Block
        BY <2>6, NodeBlocks DEF NodeInv
      <4> QED  BY <1>1, <2>2, <2>8, <4>1 DEF Node!BlockEvidence
    <3>3. c.pending \cup {n} \in SUBSET Nat
      BY <2>8, <3>1
    <3>4. c.evidence \cup {e} \in SUBSET Node!BlockEvidence
      BY <3>1, <3>2
    <3> QED  BY <2>3, <2>4, <3>1, <3>3, <3>4
  <2>10. /\ d \in Node!Call
         /\ d.todo = D
         /\ d.pending = P
         /\ d.candidates = c.candidates
         /\ d.evidence = E
         /\ d.snapshot = c.snapshot
         /\ d.step = "next"
    BY <1>1, <2>5, <2>9 DEF Node!Call
  <2>11. c.pending \subseteq P /\ c.evidence \subseteq E
    BY <2>3
  <2>12. Covered(d, x)
    <3>1. n < MinimumConfirmations => n \in P
      BY <2>3
    <3>2. n >= MinimumConfirmations => e \in E
      BY <2>3, <2>8, ConstantsAssumption
    <3> QED  BY <2>1, <2>2, <2>6, <2>10, <3>1, <3>2 DEF Covered, Deep
  <2>13. \A y \in d.candidates \ d.todo : Covered(d, y)
    <3>1. \A y \in c.candidates \ c.todo : Covered(c, y)
      BY <1>1 DEF CallInv
    <3>2. \A y : Covered(c, y) => Covered(d, y)
      BY <2>10, <2>11, CoveredStays
    <3> QED  BY <2>4, <2>10, <2>12, <3>1, <3>2
  <2>14. ASSUME ~(n < MinimumConfirmations) PROVE Evident(d, e)
    <3>1. Node!Holds(node_best, c.hash)
      <4>1. /\ node_best \in 1..Len(node_blocks)
            /\ Node!Height(node_best) \in Nat
            /\ Tree(node_blocks)
        BY NodeChains DEF NodeInv, ChainInv
      <4>2. x.height \in 0..Node!Height(node_best)
        BY <1>1, <1>3, <4>1
      <4> QED  BY <1>3, <4>1, <4>2, NodeChains
    <3>2. Node!Holds(c.snapshot, c.hash) \/ Left(c)
      BY <1>0, <1>1, <2>6, <3>1, OnSnapshotOrLeft DEF Node!On
    <3>3. /\ e.block = c.hash
          /\ e.height = x.height
          /\ e.confirmations = n
      BY <2>2
    <3>4. [height |-> x.height, root |-> c.hash] \in c.candidates
      <4>1. x \in Node!Candidate
        BY <1>1 DEF Node!Call
      <4>2. x = [height |-> x.height, root |-> x.root]
        BY <4>1 DEF Node!Candidate
      <4> QED  BY <1>1, <2>6, <4>2
    <3>5. n >= MinimumConfirmations
      BY <2>8, <2>14, ConstantsAssumption
    <3> QED  BY <2>1, <2>6, <2>10, <3>2, <3>3, <3>4, <3>5
             DEF Evident, Left, Deep
  <2>15. \A f \in d.evidence : Evident(d, f)
    <3>1. \A f \in c.evidence : Evident(c, f)
      BY <1>1 DEF CallInv
    <3>2. \A f : Evident(c, f) => Evident(d, f)
      BY <2>10 DEF Evident, Deep, Left
    <3>3. CASE n < MinimumConfirmations
      BY <2>3, <2>10, <3>1, <3>2, <3>3
    <3>4. CASE ~(n < MinimumConfirmations)
      <4>1. \A f \in E : f \in c.evidence \/ f = e
        BY <2>3, <3>4
      <4> QED  BY <2>10, <2>14, <3>1, <3>2, <3>4, <4>1
    <3> QED  BY <3>3, <3>4
  <2>16. d.pending \subseteq 0..MaxBlocks
    <3>1. c.pending \subseteq 0..MaxBlocks
      BY <1>1 DEF CallInv
    <3> QED  BY <2>3, <2>8, <2>10, <3>1
  <2>17. d.todo \subseteq d.candidates
    BY <1>1, <2>4, <2>10 DEF CallInv
  <2>18. CallInv(d)
    BY <1>1, <2>10, <2>13, <2>15, <2>16, <2>17 DEF CallInv
  <2> QED  BY <1>1, <2>7, <2>18, NodeGoes
<1> QED  BY <1>2, <1>3

\* The greatest of some numbers is one of them.
LEMMA LargestIs ==
    ASSUME NEW K \in Nat, NEW N \in SUBSET (0..K), N # {}
    PROVE  Node!Largest(N) \in N /\ \A k \in N : k <= Node!Largest(N)
  BY GreatestExists DEF Node!Largest

\* What is known when every attestation was asked of.
LEMMA NodeDone ==
    ASSUME NodeInv, Node!final_snapshot
    PROVE  \E c :
              /\ c = node_call
              /\ c # None
              /\ CallInv(c)
              /\ c.step = "next"
              /\ c.todo = {}
              /\ c.candidates # {}
              /\ \A x \in c.candidates : x.height \in Nat /\ Covered(c, x)
              /\ c.snapshot \in 1..Len(node_blocks)
              /\ Node!Height(c.snapshot) \in Nat
              /\ Node!Height(c.snapshot) < MaxBlocks
              /\ c.pending \subseteq 0..MaxBlocks
<1>1. PICK c : c = node_call
  OBVIOUS
<1>2. c # None /\ c.step = "next" /\ CallInv(c) /\ c.todo = {}
  BY <1>1 DEF Node!final_snapshot, Node!On, NodeInv
<1>3. /\ c.snapshot \in 1..Len(node_blocks)
      /\ \A x \in c.candidates \ c.todo : Covered(c, x)
      /\ c.candidates # {}
      /\ c.pending \subseteq 0..MaxBlocks
  BY <1>2 DEF CallInv
<1>4. /\ Node!Height(c.snapshot) \in Nat
      /\ Node!Height(c.snapshot) < MaxBlocks
  BY <1>3, NodeChains DEF NodeInv, ChainInv
<1>5. c.candidates \in SUBSET Node!Candidate
  BY <1>2 DEF CallInv, Node!Call
<1>6. \A x \in c.candidates : x.height \in Nat
  BY <1>5 DEF Node!Candidate
<1> QED  BY <1>1, <1>2, <1>3, <1>4, <1>6

\* The evidence with the most confirmations.
LEMMA StrongestIs ==
    ASSUME NodeInv, NEW c, c = node_call, CallInv(c), c.step = "next",
           c.snapshot \in 1..Len(node_blocks), c.evidence # {}
    PROVE  /\ Node!Strongest \in c.evidence
           /\ \A f \in c.evidence :
                 Node!Strongest.confirmations >= f.confirmations
<1>1. \A e \in c.evidence : Evident(c, e) /\ e \in Node!BlockEvidence
  BY DEF CallInv, Node!Call
<1>2. /\ Node!Height(c.snapshot) \in Nat
      /\ Node!Height(c.snapshot) < MaxBlocks
      /\ MaxBlocks \in Nat
  BY NodeChains, BlocksAssumption DEF NodeInv, ChainInv
<1> DEFINE N == {e.confirmations : e \in c.evidence}
<1>3. ASSUME NEW e \in c.evidence
      PROVE  e.confirmations \in 0..MaxBlocks
  <2>1. e.height \in Nat /\ e.confirmations \in Nat
    BY <1>1 DEF Node!BlockEvidence
  <2>2. e.confirmations = Node!Height(c.snapshot) - e.height + 1
    BY <1>1 DEF Evident, Deep
  <2> QED  BY <1>2, <2>1, <2>2
<1>4. PICK n \in N : \A k \in N : k <= n
  <2>1. N \in SUBSET (0..MaxBlocks) /\ N # {}
    BY <1>3
  <2> QED  BY <1>2, <2>1, GreatestExists
<1>5. PICK e \in c.evidence : n = e.confirmations
  OBVIOUS
<1>6. \A f \in c.evidence : e.confirmations >= f.confirmations
  <2>1. \A f \in c.evidence : f.confirmations \in N
    OBVIOUS
  <2> QED  BY <1>3, <1>4, <1>5, <2>1
<1>7. \E g \in c.evidence :
         \A f \in c.evidence : g.confirmations >= f.confirmations
  BY <1>6
<1> QED  BY <1>7, Zenon DEF Node!Strongest

\* What the call ends with.
LEMMA NodeFinal ==
    ASSUME NodeInv, Node!final_snapshot
    PROVE  NodeInv'
<1>1. PICK c :
              /\ c = node_call
              /\ c # None
              /\ CallInv(c)
              /\ c.step = "next"
              /\ c.todo = {}
              /\ c.candidates # {}
              /\ \A x \in c.candidates : x.height \in Nat /\ Covered(c, x)
              /\ c.snapshot \in 1..Len(node_blocks)
              /\ Node!Height(c.snapshot) \in Nat
              /\ Node!Height(c.snapshot) < MaxBlocks
              /\ c.pending \subseteq 0..MaxBlocks
  BY NodeDone
<1>2. CASE ~Node!SameChain
  BY <1>1, <1>2, NodeFails DEF Node!final_snapshot
<1>3. CASE Node!SameChain /\ c.evidence = {}
  <2>1. Node!Ends("pending", 0, None, Node!Largest(c.pending))
    BY <1>1, <1>3 DEF Node!final_snapshot
  <2>2. c.pending # {}
    <3>1. PICK x \in c.candidates : x.height \in Nat /\ Covered(c, x)
      BY <1>1
    <3>2. Deep(c, x.height) \in Int /\ MinimumConfirmations \in Int
      BY <1>1, <3>1, ConstantsAssumption DEF Deep
    <3>3. \/ 0 \in c.pending
          \/ Deep(c, x.height) \in c.pending
      BY <1>3, <3>1, <3>2 DEF Covered
    <3> QED  BY <3>3
  <2>3. Node!Largest(c.pending) \in Nat
    <3>1. c.pending \in SUBSET (0..MaxBlocks) /\ MaxBlocks \in Nat
      BY <1>1, BlocksAssumption
    <3>2. Node!Largest(c.pending) \in c.pending
      BY <2>2, <3>1, LargestIs
    <3> QED  BY <3>1, <3>2
  <2> QED  BY <1>1, <2>1, <2>3, NodeEnds
<1>4. CASE Node!SameChain /\ c.evidence # {}
  <2>1. PICK e : e = Node!Strongest
    OBVIOUS
  <2>2. Node!Ends("verified", e.height, e.block, e.confirmations)
    BY <1>1, <1>4, <2>1 DEF Node!final_snapshot
  <2>3. e \in c.evidence
    BY <1>1, <1>4, <2>1, StrongestIs
  <2>4. e \in Node!BlockEvidence
    BY <1>1, <2>3 DEF CallInv, Node!Call
  <2>5. e.height \in Nat /\ e.block \in Node!Block /\ e.confirmations \in Nat
    BY <2>4 DEF Node!BlockEvidence
  <2> QED  BY <1>1, <2>2, <2>5, NodeEnds
<1> QED  BY <1>2, <1>3, <1>4

\* The depths of the attestations that agree with the snapshot.
LEMMA DepthsOf ==
    ASSUME NodeInv, NEW c, CallInv(c),
           c.snapshot \in 1..Len(node_blocks),
           \A x \in c.candidates : x.height \in Nat /\ Covered(c, x),
           NEW n \in Node!Depths(c.candidates, c.snapshot)
    PROVE  \E x \in c.candidates :
              /\ n = Deep(c, x.height)
              /\ n \in 0..MaxBlocks
              /\ n < MinimumConfirmations
                 \/ [height |-> x.height, block |-> x.root,
                     confirmations |-> n] \in c.evidence
<1>1. PICK x \in c.candidates :
         /\ Node!Height(x.root) = x.height
         /\ Node!Holds(c.snapshot, x.root)
         /\ n = Node!Height(c.snapshot) - x.height + 1
  BY DEF Node!Depths
<1>2. /\ Node!Height(c.snapshot) \in Nat
      /\ Node!Height(c.snapshot) < MaxBlocks
      /\ Node!Height(x.root) \in 0..Node!Height(c.snapshot)
      /\ MaxBlocks \in Nat
  BY <1>1, NodeChains, BlocksAssumption DEF NodeInv, ChainInv
<1>3. /\ n = Deep(c, x.height)
      /\ n \in 0..MaxBlocks
      /\ n \in Int
      /\ ~(x.height > Node!Height(c.snapshot))
  BY <1>1, <1>2 DEF Deep
<1>4. Covered(c, x)
  OBVIOUS
<1>5. MinimumConfirmations \in Int
  BY ConstantsAssumption
<1> QED  BY <1>3, <1>4, <1>5 DEF Covered

\* What is verified and what is pending is so of the chain the call ends on.
LEMMA NodeAnswers ==
    ASSUME NodeInv, Node!Next, MaxReorgs <= 1
    PROVE  Node!VerifiesTruly /\ Node!PendsTruly
<1> SUFFICES ASSUME node_result = None, node_result' # None,
                    node_result'.kind \in {"verified", "pending"}
             PROVE  Node!VerifiesTruly /\ Node!PendsTruly
  BY DEF Node!VerifiesTruly, Node!PendsTruly
<1>1. Node!final_snapshot
  <2>1. ASSUME NEW k \in {"unavailable", "invalid"}, Node!Fails(k)
        PROVE  FALSE
    BY <2>1 DEF Node!Fails, Node!Ends
  <2>2. ASSUME NEW d, Node!Goes(d) PROVE FALSE
    BY <2>2 DEF Node!Goes
  <2>3. ~Node!unavailable /\ ~Node!malformed /\ ~Node!chain_snapshot
    BY <2>1, <2>2 DEF Node!unavailable, Node!malformed, Node!chain_snapshot
  <2>4. ~Node!above_tip /\ ~Node!getblockhash
    BY <2>1, <2>2 DEF Node!above_tip, Node!AboveTip, Node!getblockhash
  <2>5. ~Node!getblockheader /\ ~Node!recheck
    BY <2>1, <2>2 DEF Node!getblockheader, Node!recheck
  <2>6. ~Node!Chain /\ \A S \in Node!Proofs : ~Node!verify_exact_digest(S)
    BY DEF Node!Chain, Node!mine, Node!follow, Node!verify_exact_digest
  <2> QED  BY <2>3, <2>4, <2>5, <2>6 DEF Node!Next, Node!Verifier
<1>2. PICK c :
              /\ c = node_call
              /\ c # None
              /\ CallInv(c)
              /\ c.step = "next"
              /\ c.todo = {}
              /\ c.candidates # {}
              /\ \A x \in c.candidates : x.height \in Nat /\ Covered(c, x)
              /\ c.snapshot \in 1..Len(node_blocks)
              /\ Node!Height(c.snapshot) \in Nat
              /\ Node!Height(c.snapshot) < MaxBlocks
              /\ c.pending \subseteq 0..MaxBlocks
  BY <1>1, NodeDone
<1>3. Node!SameChain
  BY <1>1 DEF Node!final_snapshot, Node!Fails, Node!Ends
<1>4. node_best = c.snapshot
  BY <1>2, <1>3 DEF Node!SameChain
<1>5. ASSUME NEW n \in Node!Depths(c.candidates, node_best)
      PROVE  \E x \in c.candidates :
                /\ n = Deep(c, x.height)
                /\ n \in 0..MaxBlocks
                /\ n < MinimumConfirmations
                   \/ [height |-> x.height, block |-> x.root,
                       confirmations |-> n] \in c.evidence
  BY <1>2, <1>4, <1>5, DepthsOf
<1>6. CASE c.evidence = {}
  <2>1. /\ node_result'.kind = "pending"
        /\ node_result'.candidates = c.candidates
    BY <1>1, <1>2, <1>3, <1>6 DEF Node!final_snapshot, Node!Ends
  <2> QED  BY <1>5, <1>6, <2>1 DEF Node!VerifiesTruly, Node!PendsTruly
<1>7. CASE c.evidence # {}
  <2>1. PICK e : e = Node!Strongest
    OBVIOUS
  <2>2. /\ node_result'.kind = "verified"
        /\ node_result'.height = e.height
        /\ node_result'.block = e.block
        /\ node_result'.confirmations = e.confirmations
        /\ node_result'.candidates = c.candidates
    BY <1>1, <1>2, <1>3, <1>7, <2>1 DEF Node!final_snapshot, Node!Ends
  <2>3. /\ e \in c.evidence
        /\ \A f \in c.evidence : e.confirmations >= f.confirmations
    BY <1>2, <1>7, <2>1, StrongestIs
  <2>4. Evident(c, e)
    BY <1>2, <2>3 DEF CallInv
  <2>5. Node!Holds(node_best, e.block)
    <3>1. Tree(node_blocks) /\ Node!Holds(c.snapshot, c.snapshot)
      BY <1>2, NodeChains DEF NodeInv, ChainInv
    <3> QED  BY <1>4, <2>4, <3>1 DEF Evident, Left
  <2>6. e.confirmations = Node!Height(node_best) - e.height + 1
    BY <1>4, <2>4 DEF Evident, Deep
  <2>7. PICK N : N = Node!Depths(c.candidates, node_best)
    OBVIOUS
  <2>8. e.confirmations \in N
    BY <2>4, <2>5, <2>6, <2>7 DEF Node!Depths, Evident
  <2>9. e.confirmations \in Nat /\ e.confirmations \in 0..MaxBlocks
    <3>1. PICK m : m = e.confirmations
      OBVIOUS
    <3>2. m \in 0..MaxBlocks
      BY <1>5, <2>7, <2>8, <3>1
    <3> QED  BY <3>1, <3>2, BlocksAssumption
  <2>10. ASSUME NEW n \in N PROVE n <= e.confirmations /\ n \in 0..MaxBlocks
    <3>1. PICK x \in c.candidates :
                /\ n = Deep(c, x.height)
                /\ n \in 0..MaxBlocks
                /\ n < MinimumConfirmations
                   \/ [height |-> x.height, block |-> x.root,
                       confirmations |-> n] \in c.evidence
      BY <1>5, <2>7
    <3>2. e.confirmations >= MinimumConfirmations
      BY <2>4 DEF Evident
    <3> QED  BY <2>3, <2>9, <3>1, <3>2, ConstantsAssumption
  <2>11. Node!Largest(N) = e.confirmations
    <3>1. N \in SUBSET (0..MaxBlocks) /\ N # {} /\ MaxBlocks \in Nat
      BY <2>8, <2>10, BlocksAssumption
    <3>2. Node!Largest(N) \in N /\ e.confirmations <= Node!Largest(N)
      BY <2>8, <3>1, LargestIs
    <3>3. Node!Largest(N) <= e.confirmations /\ Node!Largest(N) \in 0..MaxBlocks
      BY <2>10, <3>2
    <3> QED  BY <2>9, <3>2, <3>3
  <2> QED  BY <2>2, <2>5, <2>6, <2>7, <2>11
           DEF Node!VerifiesTruly, Node!PendsTruly
<1> QED  BY <1>6, <1>7

\* Every step of the node's verifier keeps the invariant.
LEMMA NodeStep ==
    ASSUME NodeInv, [Node!Next]_(Node!vars)
    PROVE  NodeInv'
<1>1. CASE UNCHANGED Node!vars
  <2>1. UNCHANGED <<node_blocks, node_best, node_reorgs, node_sound, node_held,
                    node_call, node_result>>
    BY <1>1 DEF Node!vars
  <2>2. PICK c : c = node_call
    OBVIOUS
  <2>3. CallInv(c) => CallInv(c)'
    BY <2>1, CallStays
  <2>4. ChainInv' /\ Node!CondemnedByTheChain'
    BY <2>1, NodeStays
       DEF NodeInv, Node!CondemnedByTheChain, Node!Height, Node!BlockAt
  <2> QED  BY <2>1, <2>2, <2>3, <2>4 DEF NodeInv
<1>2. CASE Node!Next
  <2>1. Node!unavailable \/ Node!malformed => NodeInv'
    BY NodeFails DEF Node!unavailable, Node!malformed, Node!Asks
  <2> QED  BY <1>2, <2>1, NodeMines, NodeFollows, NodeBegins, NodeSnapshot,
              NodeAboveTip, NodeHash, NodeHeader, NodeRecheck, NodeFinal
           DEF Node!Next, Node!Chain, Node!Verifier
<1> QED  BY <1>1, <1>2

\* The node begins at the genesis block.
LEMMA NodeInit == Node!Init => NodeInv
<1> SUFFICES ASSUME Node!Init PROVE NodeInv
  OBVIOUS
<1>1. /\ node_blocks = <<<<1>>>>
      /\ node_best = 1
      /\ node_reorgs = 0
      /\ node_sound \in BOOLEAN
      /\ node_held = {}
      /\ node_call = None
      /\ node_result = None
  BY DEF Node!Init, Node!GenesisOnly
<1>2. Tree(node_blocks) /\ Len(node_blocks) = 1
  BY <1>1, TreeGenesis
<1> QED  BY <1>1, <1>2, ConstantsAssumption
         DEF NodeInv, ChainInv, Node!CondemnedByTheChain

\* What the invariant says of the node's verifier.
LEMMA NodeInvGives ==
    ASSUME NodeInv
    PROVE  Node!TypeOK /\ Node!CondemnedByTheChain
<1>1. node_blocks \in Seq(Seq(Node!Block))
  BY DEF NodeInv, ChainInv, Tree, Block, Node!Block
<1>2. node_call \in Node!Call \cup {None}
  BY DEF NodeInv, CallInv
<1> QED  BY <1>1, <1>2 DEF NodeInv, ChainInv, Node!TypeOK

\* For any blocks, reorganizations and proofs: every local and answer has its
\* type, and a proof is condemned only when the node had another block at an
\* attested height during the call, or gave an answer no sound node gives
\* (verify_exact_digest).
THEOREM NodeCondemnsTruly ==
    Node!Spec => [](Node!TypeOK /\ Node!CondemnedByTheChain)
<1>1. Node!Init => NodeInv
  BY NodeInit
<1>2. NodeInv /\ [Node!Next]_(Node!vars) => NodeInv'
  BY NodeStep
<1>3. NodeInv => Node!TypeOK /\ Node!CondemnedByTheChain
  BY NodeInvGives
<1> QED  BY <1>1, <1>2, <1>3, PTL DEF Node!Spec

\* A node that is reorganized at most once: what its verifier answers is so of
\* the best chain when the call returns (both snapshots of
\* verify_exact_digest).
THEOREM NodeIsTrueNow ==
    ASSUME MaxReorgs <= 1
    PROVE  Node!Spec => Node!VerifiedIsTrueNow /\ Node!PendingIsTrueNow
<1>1. Node!Init => NodeInv
  BY NodeInit
<1>2. NodeInv /\ [Node!Next]_(Node!vars) => NodeInv'
  BY NodeStep
<1>3. NodeInv /\ [Node!Next]_(Node!vars)
         => /\ [Node!VerifiesTruly]_(Node!vars)
            /\ [Node!PendsTruly]_(Node!vars)
  BY NodeAnswers
<1> QED  BY <1>1, <1>2, <1>3, PTL
         DEF Node!Spec, Node!VerifiedIsTrueNow, Node!PendingIsTrueNow

\* A step of the process is one of the node's verifier or leaves it alone.
LEMMA NodeOfProcess ==
    [MCNext]_<<vars, node_vars, transport_vars, scenario>>
        => [Node!Next]_(Node!vars)
<1> SUFFICES ASSUME [MCNext]_<<vars, node_vars, transport_vars, scenario>>
             PROVE  [Node!Next]_(Node!vars)
  OBVIOUS
<1>1. Node!Next \/ UNCHANGED node_vars
  BY DEF MCNext
<1> QED  BY <1>1 DEF node_vars, Node!vars

\* Of every behaviour of the verifiers' process whose node is reorganized at
\* most once: what it answers is so when the call returns (verify_exact_digest).
THEOREM BitcoinNodeAnswersTruly ==
    ASSUME MaxReorgs <= 1
    PROVE  MCSpec => NodeAnswersTruly
<1>1. MCInit => NodeInv
  BY NodeInit DEF MCInit
<1>2. NodeInv /\ [MCNext]_<<vars, node_vars, transport_vars, scenario>>
         => NodeInv'
  BY NodeOfProcess, NodeStep
<1>3. NodeInv /\ [MCNext]_<<vars, node_vars, transport_vars, scenario>>
         => [Node!VerifiesTruly /\ Node!PendsTruly]_node_vars
  BY NodeOfProcess, NodeAnswers DEF node_vars, Node!vars
<1> QED  BY <1>1, <1>2, <1>3, PTL DEF MCSpec, NodeAnswersTruly

-----------------------------------------------------------------------------
(* The Esplora verifier.  An honest provider had the block when it gave    *)
(* its hash.  When its tip then counts blocks of another chain, it was     *)
(* reorganized in between; if its second answers are the same, it was      *)
(* reorganized twice, and for the last time: the second tip is true.       *)

\* Provider p had block b in a chain of height n during the call.
Witnessed(p, b, n) == \E t \in held[p] : Holds(t, b) /\ Height(t) >= n

\* What is known when provider p has answered n for the tip, after b.
Seen(p, b, n) ==
    \/ Witnessed(p, b, n)
    \/ reorgs[p] >= 2
    \/ reorgs[p] >= 1 /\ Height(best[p]) >= n /\ ~Holds(best[p], b)
    \/ n < Height(b)

\* The heights a call asks of.
Heights(c) == {x.height : x \in c.candidates}

\* The answers of any provider.
Asked(c, p) ==
    /\ c.hash[p] # None => c.hash[p] \in 1..Len(blocks)
    /\ c.status[p] # None => /\ c.status[p].header \in {c.hash[p], 1}
                             /\ c.status[p].height \in {Height(c.hash[p]), 0}

\* The answers of an honest provider.
Honest(c, p) ==
    /\ c.hash[p] # None =>
          /\ Holds(best[p], c.hash[p]) \/ reorgs[p] >= 1
          /\ Height(c.hash[p]) = c.height
          /\ \E t \in held[p] : /\ Height(t) >= c.height
                                /\ BlockAt(t, c.height) = c.hash[p]
    /\ c.status[p] # None =>
          /\ c.status[p].header = c.hash[p]
          /\ c.status[p].height = Height(c.hash[p])
          /\ c.status[p].canonical \/ reorgs[p] >= 1
    /\ c.tip[p] # None =>
          /\ c.tip[p] >= Height(c.hash[p]) \/ reorgs[p] >= 1
          /\ Seen(p, c.hash[p], c.tip[p])

\* The second answers of an honest provider, when snapshot s was the first.
Again(c, s, p) ==
    /\ Seen(p, s.block, s.tips[p])
    /\ c.hash[p] = s.block =>
          \/ Witnessed(p, s.block, s.tips[p])
          \/ reorgs[p] >= 2 /\ Holds(best[p], s.block)
    /\ c.hash[p] = s.block /\ c.tip[p] = s.tips[p] =>
          Witnessed(p, s.block, s.tips[p])

\* A snapshot that was deep enough.
DeepInv(c, s) ==
    /\ s.block \in 1..Len(blocks)
    /\ s.height = c.height
    /\ s.height = Height(s.block)
    /\ [height |-> s.height, root |-> s.block] \in c.candidates
    /\ Confirmations(s.height, s) >= MinimumConfirmations
    /\ MaxReorgs <= 2 => \A p \in Provider \ liars : Again(c, s, p)

\* A snapshot that was not.
PendingInv(c, s) ==
    /\ s.height \in Heights(c)
    /\ QuorumTip(s) >= s.height
    /\ Confirmations(s.height, s) < MinimumConfirmations

QuorumInv(c) ==
    /\ c \in Call
    /\ \A x \in c.candidates : x.height >= 1
    /\ c.height \in Heights(c)
    /\ c.todo \subseteq Heights(c)
    /\ \A s \in c.pending : PendingInv(c, s)
    /\ c.step = "hashes" =>
          \A p \in Provider : c.status[p] = None /\ c.tip[p] = None
    /\ c.step = "evidence" =>
          \A p, q \in Provider : c.hash[p] # None /\ c.hash[p] = c.hash[q]
    /\ \A p \in Provider : Asked(c, p)
    /\ \A p \in Provider \ liars : Honest(c, p)
    /\ c.expected # None =>
          IF c.expected \in c.pending
          THEN c.todo \subseteq {x.height : x \in c.pending}
          ELSE DeepInv(c, c.expected)

ViewsInv ==
    /\ Tree(blocks)
    /\ liars \subseteq Provider
    /\ best \in [Provider -> 1..Len(blocks)]
    /\ reorgs \in [Provider -> Nat]
    /\ \A p \in Provider : reorgs[p] <= MaxReorgs
    /\ held \in [Provider -> SUBSET (1..Len(blocks))]

VerdictInv ==
    /\ MaxReorgs <= 2 => VerifiedWasTrue
    /\ VerifiedIsAttested
    /\ CondemnedByTheChain

EsploraInv ==
    /\ ViewsInv
    /\ call # None => /\ QuorumInv(call)
                      /\ result = None
                      /\ \A p \in Provider : best[p] \in held[p]
    /\ result \in Result \cup {None}
    /\ VerdictInv

\* The words of the verifier for the chains of the tree.
LEMMA Words ==
    /\ \A b : Height(b) = High(blocks, b)
    /\ \A t, b : Holds(t, b) <=> OnChain(blocks, t, b)
    /\ \A t, h : BlockAt(t, h) = AtHeight(blocks, t, h)
  BY DEF Height, Holds, BlockAt, High, OnChain, AtHeight

\* The chains of the providers.
LEMMA Chains ==
    ASSUME Tree(blocks), NEW t \in 1..Len(blocks)
    PROVE  /\ Height(t) \in Nat
           /\ Height(t) < MaxBlocks
           /\ t # 1 => Height(t) >= 1
           /\ Holds(t, t)
           /\ \A h \in 0..Height(t) :
                 /\ BlockAt(t, h) \in 1..Len(blocks)
                 /\ Height(BlockAt(t, h)) = h
                 /\ Holds(t, BlockAt(t, h))
           /\ \A b : Holds(t, b) =>
                 /\ b \in 1..Len(blocks)
                 /\ Height(b) \in 0..Height(t)
                 /\ BlockAt(t, Height(b)) = b
           /\ \A u, b : Holds(t, u) /\ Holds(u, b) => Holds(t, b)
           /\ \A u, b : /\ Holds(t, u)
                        /\ Holds(t, b)
                        /\ Height(b) <= Height(u)
                        => Holds(u, b)
  BY ChainHolds, Words DEF ChainOf

\* The blocks that were mined are blocks, and numbers; None is not.
LEMMA Blocks ==
    ASSUME ViewsInv
    PROVE  /\ 1..Len(blocks) \subseteq Block
           /\ Block \subseteq Nat
           /\ None \notin Nat
           /\ None \notin Block
           /\ 1 \in 1..Len(blocks)
           /\ Len(blocks) \in Nat
<1>1. Len(blocks) \in 1..MaxBlocks /\ MaxBlocks \in Nat
  BY BlocksAssumption DEF ViewsInv, Tree
<1>2. None \notin Nat
  BY ConstantsAssumption
<1> QED  BY <1>1, <1>2 DEF Block

\* A call has its fields.
LEMMA CallFields ==
    ASSUME NEW c \in Call
    PROVE  /\ c.candidates \in SUBSET Candidate
           /\ c.todo \in SUBSET Nat
           /\ c.height \in Nat
           /\ c.pending \in SUBSET Snapshot
           /\ c.expected \in Snapshot \cup {None}
           /\ c.step \in {"hashes", "evidence"}
           /\ c.hash \in [Provider -> Block \cup {None}]
           /\ c.status \in [Provider -> StatusAnswer \cup {None}]
           /\ c.tip \in [Provider -> Nat \cup {None}]
  BY DEF Call

\* The views of the providers stay.
LEMMA ViewsStay ==
    ASSUME ViewsInv, UNCHANGED <<blocks, liars, best, reorgs, held>>
    PROVE  ViewsInv'
<1>1. Tree(blocks)'
  BY Zenon DEF ViewsInv
<1> QED  BY <1>1 DEF ViewsInv

\* What is known of the answers stays known while the providers stay.
LEMMA AnswersStay ==
    ASSUME UNCHANGED <<blocks, liars, best, reorgs, held>>, NEW c
    PROVE  /\ \A p : Asked(c, p) => Asked(c, p)'
           /\ \A p : Honest(c, p) => Honest(c, p)'
           /\ \A s, p : Again(c, s, p) => Again(c, s, p)'
           /\ \A s : DeepInv(c, s) => DeepInv(c, s)'
<1>1. /\ \A b : Height(b)' = Height(b)
      /\ \A t, b : Holds(t, b)' <=> Holds(t, b)
      /\ \A t, h : BlockAt(t, h)' = BlockAt(t, h)
  BY DEF Height, Holds, BlockAt
<1>2. \A p, b, n : Witnessed(p, b, n) => Witnessed(p, b, n)'
  BY <1>1 DEF Witnessed
<1>3. \A p, b, n : Seen(p, b, n) => Seen(p, b, n)'
  BY <1>1, <1>2 DEF Seen
<1>4. \A p : Asked(c, p) => Asked(c, p)'
  BY <1>1 DEF Asked
<1>5. \A p : Honest(c, p) => Honest(c, p)'
  BY <1>1, <1>3 DEF Honest
<1>6. \A s, p : Again(c, s, p) => Again(c, s, p)'
  BY <1>1, <1>2, <1>3 DEF Again
<1>7. \A s : DeepInv(c, s) => DeepInv(c, s)'
  BY <1>1, <1>6 DEF DeepInv, Confirmations, QuorumTip
<1> QED  BY <1>4, <1>5, <1>6, <1>7

\* A call keeps its invariant while the providers stay.
LEMMA QuorumStays ==
    ASSUME NEW c, QuorumInv(c),
           UNCHANGED <<blocks, liars, best, reorgs, held>>
    PROVE  QuorumInv(c)'
<1>1. /\ \A p : Asked(c, p) => Asked(c, p)'
      /\ \A p : Honest(c, p) => Honest(c, p)'
      /\ DeepInv(c, c.expected) => DeepInv(c, c.expected)'
  BY AnswersStay
<1> QED  BY <1>1 DEF QuorumInv, PendingInv, Heights, QuorumTip, Confirmations

\* An answer stays what it was.
LEMMA VerdictStays ==
    ASSUME VerdictInv,
           UNCHANGED <<blocks, liars, reorgs, held, result>>
    PROVE  VerdictInv'
  BY DEF VerdictInv, VerifiedWasTrue, VerifiedIsAttested, CondemnedByTheChain,
         Height, Holds, BlockAt

\* A call goes on.
LEMMA CallGoes ==
    ASSUME EsploraInv, call # None, NEW d, QuorumInv(d), Goes(d)
    PROVE  EsploraInv'
<1>1. /\ UNCHANGED <<blocks, liars, best, reorgs, held, result>>
      /\ call' = d
  BY DEF Goes, chain_vars
<1>2. QuorumInv(d)'
  BY <1>1, QuorumStays
<1>3. ViewsInv' /\ VerdictInv'
  BY <1>1, ViewsStay, VerdictStays DEF EsploraInv
<1> QED  BY <1>1, <1>2, <1>3 DEF EsploraInv

\* A call ends.
LEMMA CallEnds ==
    ASSUME EsploraInv, call # None, NEW k, NEW h, NEW b, NEW n,
           Ends(k, h, b, n),
           k \in {"verified", "pending", "invalid", "unavailable"},
           h \in Nat, b \in Block \cup {None}, n \in Nat,
           k = "verified" =>
              /\ b \in 1..Len(blocks)
              /\ Height(b) = h
              /\ [height |-> h, root |-> b] \in call.candidates
              /\ n >= MinimumConfirmations
              /\ MaxReorgs <= 2 =>
                    \A p \in Provider \ liars : Witnessed(p, b, h + n - 1),
           k = "invalid" /\ liars = {} =>
              \E p \in Provider :
                 \/ reorgs[p] > 0
                 \/ \E x \in call.candidates, t \in held[p] :
                       Height(t) >= x.height /\ BlockAt(t, x.height) # x.root
    PROVE  EsploraInv'
<1>1. /\ UNCHANGED <<blocks, liars, best, reorgs, held>>
      /\ call' = None
      /\ result' = [kind |-> k, height |-> h, block |-> b,
                    confirmations |-> n, candidates |-> call.candidates]
  BY DEF Ends, chain_vars
<1>2. call.candidates \in SUBSET Candidate
  BY CallFields DEF EsploraInv, QuorumInv
<1>3. PICK r : r = [kind |-> k, height |-> h, block |-> b,
                    confirmations |-> n, candidates |-> call.candidates]
  OBVIOUS
<1>4. /\ r \in Result
      /\ r.kind = k
      /\ r.height = h
      /\ r.block = b
      /\ r.confirmations = n
      /\ r.candidates = call.candidates
  BY <1>2, <1>3 DEF Result
<1>5. ViewsInv'
  BY <1>1, ViewsStay DEF EsploraInv
<1>6. result' = r
  BY <1>1, <1>3
<1>7. /\ \A x : Height(x)' = Height(x)
      /\ \A t, x : Holds(t, x)' <=> Holds(t, x)
      /\ \A t, x : BlockAt(t, x)' = BlockAt(t, x)
  BY <1>1 DEF Height, Holds, BlockAt
<1>8. MaxReorgs <= 2 => VerifiedWasTrue'
  <2> SUFFICES ASSUME MaxReorgs <= 2, k = "verified",
                      NEW p \in Provider \ liars
               PROVE  \E t \in held[p] :
                         /\ Holds(t, b)
                         /\ Height(b) = h
                         /\ Height(t) + 1 >= h + n
    BY <1>1, <1>4, <1>6, <1>7 DEF VerifiedWasTrue
  <2>1. PICK t \in held[p] : Holds(t, b) /\ Height(t) >= h + n - 1
    BY DEF Witnessed
  <2>2. Height(t) \in Nat
    <3>1. t \in 1..Len(blocks) /\ Tree(blocks)
      BY DEF EsploraInv, ViewsInv
    <3> QED  BY <3>1, Chains
  <2> QED  BY <2>1, <2>2
<1>9. VerifiedIsAttested'
  BY <1>1, <1>4, <1>6, <1>7 DEF VerifiedIsAttested
<1>10. CondemnedByTheChain'
  BY <1>1, <1>4, <1>6, <1>7 DEF CondemnedByTheChain
<1> QED  BY <1>1, <1>4, <1>5, <1>6, <1>8, <1>9, <1>10
         DEF EsploraInv, VerdictInv

\* A call fails without a verdict.
LEMMA CallFails ==
    ASSUME EsploraInv, call # None, Fails("unavailable")
    PROVE  EsploraInv'
<1>1. Ends("unavailable", 0, None, 0)
  BY DEF Fails
<1> QED  BY <1>1, CallEnds

\* A block is mined.
LEMMA Mines ==
    ASSUME EsploraInv, NEW b \in 1..Len(blocks), mine(b)
    PROVE  EsploraInv'
<1>1. /\ call = None
      /\ result = None
      /\ Len(blocks) < MaxBlocks
      /\ blocks' = Append(blocks, Append(blocks[b], Len(blocks) + 1))
      /\ UNCHANGED <<liars, best, reorgs, held, call, result>>
  BY DEF mine, Grows
<1>2. PICK U : U = Append(blocks, Append(blocks[b], Len(blocks) + 1))
  OBVIOUS
<1>3. Tree(U) /\ Len(U) = Len(blocks) + 1
  BY <1>1, <1>2, TreeGrows DEF EsploraInv, ViewsInv
<1>4. Len(blocks) \in Nat
  BY Blocks DEF EsploraInv
<1>5. 1..Len(blocks) \subseteq 1..Len(U)
  BY <1>3, <1>4
<1>6. Tree(blocks)'
  BY <1>1, <1>2, <1>3, Zenon
<1>7. ViewsInv'
  <2>1. /\ best \in [Provider -> 1..Len(U)]
        /\ held \in [Provider -> SUBSET (1..Len(U))]
    BY <1>5 DEF EsploraInv, ViewsInv
  <2> QED  BY <1>1, <1>2, <1>6, <2>1 DEF EsploraInv, ViewsInv
<1>8. VerdictInv'
  <2>1. None \notin Result /\ result' = None
    BY <1>1, ConstantsAssumption
  <2> QED  BY <2>1
           DEF VerdictInv, VerifiedWasTrue, VerifiedIsAttested,
               CondemnedByTheChain
<1> QED  BY <1>1, <1>7, <1>8 DEF EsploraInv

-----------------------------------------------------------------------------
(* A provider moves on or leaves its branch.                               *)

\* What any provider has done when one of them has moved.
Moved(p) ==
    /\ best[p] \in 1..Len(blocks)
    /\ best'[p] \in 1..Len(blocks)
    /\ reorgs[p] \in Nat
    /\ reorgs[p] <= MaxReorgs
    /\ held[p] \subseteq held'[p]
    /\ \/ Holds(best'[p], best[p]) /\ reorgs'[p] = reorgs[p]
       \/ reorgs[p] < MaxReorgs /\ reorgs'[p] = reorgs[p] + 1

\* A move of one provider is such a step of both.
LEMMA FollowMoves ==
    ASSUME EsploraInv, NEW p \in Provider, NEW b \in 1..Len(blocks),
           follow(p, b)
    PROVE  /\ result = None
           /\ UNCHANGED <<blocks, liars, call, result>>
           /\ ViewsInv'
           /\ \A q \in Provider : Moved(q)
           /\ call # None => \A q \in Provider : best'[q] \in held'[q]
<1>1. /\ result = None
      /\ UNCHANGED <<blocks, liars, call, result>>
      /\ best' = [best EXCEPT ![p] = b]
      /\ held' = [held EXCEPT ![p] = IF call = None THEN @ ELSE @ \cup {b}]
      /\ \/ Holds(b, best[p]) /\ reorgs' = reorgs
         \/ /\ reorgs[p] < MaxReorgs
            /\ reorgs' = [reorgs EXCEPT ![p] = @ + 1]
  BY DEF follow
<1>2. /\ Tree(blocks)
      /\ liars \subseteq Provider
      /\ best \in [Provider -> 1..Len(blocks)]
      /\ reorgs \in [Provider -> Nat]
      /\ \A q \in Provider : reorgs[q] <= MaxReorgs
      /\ held \in [Provider -> SUBSET (1..Len(blocks))]
      /\ MaxReorgs \in Nat
  BY ConstantsAssumption DEF EsploraInv, ViewsInv
<1>3. ASSUME NEW q \in Provider
      PROVE  Moved(q) /\ best'[q] \in 1..Len(blocks)
             /\ reorgs'[q] \in Nat /\ reorgs'[q] <= MaxReorgs
             /\ held'[q] \subseteq 1..Len(blocks)
  <2>1. Holds(best[q], best[q])
    BY <1>2, Chains
  <2>2. CASE q = p
    <3>1. best'[q] = b /\ held[q] \subseteq held'[q]
          /\ held'[q] \subseteq 1..Len(blocks)
      BY <1>1, <1>2, <2>2
    <3>2. \/ Holds(best'[q], best[q]) /\ reorgs'[q] = reorgs[q]
          \/ reorgs[q] < MaxReorgs /\ reorgs'[q] = reorgs[q] + 1
      BY <1>1, <1>2, <2>2, <3>1
    <3> QED  BY <1>2, <3>1, <3>2 DEF Moved
  <2>3. CASE q # p
    <3>1. /\ best'[q] = best[q]
          /\ held'[q] = held[q]
          /\ reorgs'[q] = reorgs[q]
      BY <1>1, <1>2, <2>3
    <3> QED  BY <1>2, <2>1, <3>1 DEF Moved
  <2> QED  BY <2>2, <2>3
<1>4. ViewsInv'
  <2>1. Tree(blocks)'
    BY <1>1, <1>2, Zenon
  <2>2. /\ best' \in [Provider -> 1..Len(blocks)]
        /\ reorgs' \in [Provider -> Nat]
        /\ held' \in [Provider -> SUBSET (1..Len(blocks))]
    <3>1. /\ DOMAIN best' = Provider /\ best' = [q \in Provider |-> best'[q]]
          /\ DOMAIN held' = Provider /\ held' = [q \in Provider |-> held'[q]]
          /\ reorgs' = [q \in Provider |-> reorgs'[q]]
      BY <1>1, <1>2
    <3> QED  BY <1>3, <3>1
  <2> QED  BY <1>1, <1>2, <1>3, <2>1, <2>2 DEF ViewsInv
<1>5. ASSUME call # None, NEW q \in Provider
      PROVE  best'[q] \in held'[q]
  <2>1. best[q] \in held[q]
    BY <1>5 DEF EsploraInv
  <2> QED  BY <1>1, <1>2, <1>5, <2>1
<1> QED  BY <1>1, <1>3, <1>4, <1>5

\* The words for chains mean the same while no block is mined.
LEMMA WordsStay ==
    ASSUME UNCHANGED blocks
    PROVE  /\ \A b : Height(b)' = Height(b)
           /\ \A t, b : Holds(t, b)' <=> Holds(t, b)
           /\ \A t, h : BlockAt(t, h)' = BlockAt(t, h)
  BY DEF Height, Holds, BlockAt

\* What a provider was a witness of, it stays a witness of.
LEMMA WitnessStays ==
    ASSUME NEW p, Moved(p), UNCHANGED blocks
    PROVE  \A b, n : Witnessed(p, b, n) => Witnessed(p, b, n)'
  BY WordsStay DEF Witnessed, Moved

\* A block stays on a provider's chain, or the provider leaves it.
LEMMA HoldsOrLeft ==
    ASSUME Tree(blocks), NEW p, Moved(p), NEW b, Holds(best[p], b)
    PROVE  \/ Holds(best'[p], b)
           \/ reorgs[p] < MaxReorgs /\ reorgs'[p] >= 1
<1>1. CASE Holds(best'[p], best[p])
  <2>1. PICK u \in 1..Len(blocks) : u = best'[p]
    BY DEF Moved
  <2>2. \A v, x : Holds(u, v) /\ Holds(v, x) => Holds(u, x)
    BY Chains
  <2> QED  BY <1>1, <2>1, <2>2
<1>2. CASE reorgs[p] < MaxReorgs /\ reorgs'[p] = reorgs[p] + 1
  BY <1>2 DEF Moved
<1> QED  BY <1>1, <1>2 DEF Moved

\* What was seen stays seen.
LEMMA SeenStays ==
    ASSUME Tree(blocks), NEW p, Moved(p), UNCHANGED blocks,
           NEW b \in 1..Len(blocks), NEW n \in Nat, Seen(p, b, n)
    PROVE  Seen(p, b, n)'
<1>1. /\ Height(b) \in Nat
      /\ Height(best[p]) \in Nat
      /\ Height(best'[p]) \in Nat
  BY Chains DEF Moved
<1>2. CASE Witnessed(p, b, n)
  BY <1>2, WitnessStays DEF Seen
<1>3. CASE reorgs[p] >= 2
  BY <1>3 DEF Seen, Moved
<1>4. CASE n < Height(b)
  BY <1>4, WordsStay DEF Seen
<1>5. CASE /\ reorgs[p] >= 1
           /\ Height(best[p]) >= n
           /\ ~Holds(best[p], b)
           /\ ~(n < Height(b))
  <2>1. CASE Holds(best'[p], best[p]) /\ reorgs'[p] = reorgs[p]
    <3>1. Height(best[p]) \in 0..Height(best'[p])
      BY <2>1, Chains DEF Moved
    <3>2. Height(best'[p]) >= n /\ Height(b) <= Height(best[p])
      BY <1>1, <1>5, <3>1
    <3>3. ~Holds(best'[p], b)
      BY <1>5, <2>1, <3>2, Chains DEF Moved
    <3>4. /\ reorgs'[p] >= 1
          /\ (Height(best[p]) >= n)'
          /\ (~Holds(best[p], b))'
      BY <1>5, <2>1, <3>2, <3>3, WordsStay
    <3> QED  BY <3>4 DEF Seen
  <2>2. CASE reorgs'[p] = reorgs[p] + 1
    BY <1>5, <2>2 DEF Seen, Moved
  <2> QED  BY <2>1, <2>2 DEF Moved
<1> QED  BY <1>2, <1>3, <1>4, <1>5 DEF Seen

\* An honest provider's answers stay what they are.
LEMMA HonestStays ==
    ASSUME ViewsInv, NEW p \in Provider, Moved(p), UNCHANGED blocks,
           NEW c \in Call, Asked(c, p), Honest(c, p),
           c.tip[p] # None => c.hash[p] # None
    PROVE  Honest(c, p)'
<1>1. Tree(blocks) /\ c.tip[p] \in Nat \cup {None}
  BY CallFields DEF ViewsInv
<1>2. ASSUME c.hash[p] # None
      PROVE  /\ Holds(best'[p], c.hash[p]) \/ reorgs'[p] >= 1
             /\ Height(c.hash[p]) = c.height
             /\ \E t \in held'[p] : /\ Height(t) >= c.height
                                    /\ BlockAt(t, c.height) = c.hash[p]
  <2>1. Holds(best'[p], c.hash[p]) \/ reorgs'[p] >= 1
    <3>1. CASE Holds(best[p], c.hash[p])
      BY <1>1, <3>1, HoldsOrLeft
    <3>2. CASE reorgs[p] >= 1
      BY <3>2 DEF Moved
    <3> QED  BY <1>2, <3>1, <3>2 DEF Honest
  <2> QED  BY <1>2, <2>1 DEF Honest, Moved
<1>3. reorgs[p] >= 1 => reorgs'[p] >= 1
  BY DEF Moved
<1>4. c.tip[p] # None => Seen(p, c.hash[p], c.tip[p])'
  BY <1>1, SeenStays DEF Honest, Asked
<1>5. c.hash[p] # None => (/\ Holds(best[p], c.hash[p]) \/ reorgs[p] >= 1
                           /\ Height(c.hash[p]) = c.height
                           /\ \E t \in held[p] :
                                 /\ Height(t) >= c.height
                                 /\ BlockAt(t, c.height) = c.hash[p])'
  BY <1>2, WordsStay
<1>6. c.status[p] # None => (/\ c.status[p].header = c.hash[p]
                             /\ c.status[p].height = Height(c.hash[p])
                             /\ c.status[p].canonical \/ reorgs[p] >= 1)'
  BY <1>3, WordsStay DEF Honest
<1>7. c.tip[p] # None =>
         (c.tip[p] >= Height(c.hash[p]) \/ reorgs[p] >= 1)'
  BY <1>3, WordsStay DEF Honest
<1> QED  BY <1>4, <1>5, <1>6, <1>7 DEF Honest

\* Its second answers stay what they are.
LEMMA AgainStays ==
    ASSUME ViewsInv, NEW p \in Provider, Moved(p), UNCHANGED blocks,
           NEW c, NEW s, s.block \in 1..Len(blocks), s.tips[p] \in Nat,
           MaxReorgs <= 2, Again(c, s, p)
    PROVE  Again(c, s, p)'
<1>1. Tree(blocks)
  BY DEF ViewsInv
<1>2. Seen(p, s.block, s.tips[p])'
  BY <1>1, SeenStays DEF Again
<1>3. Witnessed(p, s.block, s.tips[p]) => Witnessed(p, s.block, s.tips[p])'
  BY WitnessStays
<1>4. reorgs[p] >= 2 /\ Holds(best[p], s.block)
         => (reorgs[p] >= 2 /\ Holds(best[p], s.block))'
  <2> SUFFICES ASSUME reorgs[p] >= 2, Holds(best[p], s.block)
               PROVE  reorgs'[p] >= 2 /\ Holds(best'[p], s.block)
    BY WordsStay
  <2>1. ~(reorgs[p] < MaxReorgs) /\ reorgs'[p] >= 2
    BY ConstantsAssumption DEF Moved
  <2> QED  BY <1>1, <2>1, HoldsOrLeft
<1> QED  BY <1>2, <1>3, <1>4 DEF Again

\* The verifier does not notice.
LEMMA Follows ==
    ASSUME EsploraInv, NEW p \in Provider, NEW b \in 1..Len(blocks),
           follow(p, b)
    PROVE  EsploraInv'
<1>1. /\ result = None
      /\ UNCHANGED <<blocks, liars, call, result>>
      /\ ViewsInv'
      /\ \A q \in Provider : Moved(q)
      /\ call # None => \A q \in Provider : best'[q] \in held'[q]
  BY FollowMoves
<1>2. ASSUME call # None PROVE QuorumInv(call)'
  <2>1. PICK c : c = call
    OBVIOUS
  <2>2. c \in Call /\ QuorumInv(c) /\ call' = c /\ ViewsInv
    BY <1>1, <1>2, <2>1 DEF EsploraInv, QuorumInv
  <2>3. \A q \in Provider : Asked(c, q) => Asked(c, q)'
    BY <1>1, WordsStay DEF Asked
  <2>4. ASSUME NEW q \in Provider \ liars PROVE Honest(c, q)'
    <3>1. Asked(c, q) /\ Honest(c, q)
      BY <2>2 DEF QuorumInv
    <3>2. c.tip[q] # None => c.hash[q] # None
      <4>1. c.step \in {"hashes", "evidence"}
        BY <2>2, CallFields
      <4> QED  BY <2>2, <4>1 DEF QuorumInv
    <3> QED  BY <1>1, <2>2, <3>1, <3>2, HonestStays
  <2>5. ASSUME c.expected # None, c.expected \notin c.pending
        PROVE  DeepInv(c, c.expected)'
    <3>1. PICK s : s = c.expected
      OBVIOUS
    <3>2. s \in Snapshot /\ DeepInv(c, s)
      BY <2>2, <2>5, <3>1, CallFields DEF QuorumInv
    <3>3. \A q \in Provider : s.tips[q] \in Nat
      BY <3>2 DEF Snapshot, Tips
    <3>4. ASSUME MaxReorgs <= 2, NEW q \in Provider \ liars
          PROVE  Again(c, s, q)'
      BY <1>1, <2>2, <3>2, <3>3, <3>4, AgainStays DEF DeepInv
    <3>5. DeepInv(c, s)'
      BY <1>1, <3>2, <3>4, WordsStay DEF DeepInv, Confirmations, QuorumTip
    <3> QED  BY <3>1, <3>5
  <2>6. QuorumInv(c)'
    BY <1>1, <2>2, <2>3, <2>4, <2>5
       DEF QuorumInv, PendingInv, Heights, QuorumTip, Confirmations
  <2> QED  BY <2>2, <2>6
<1>3. VerdictInv'
  <2>1. None \notin Result /\ result' = None
    BY <1>1, ConstantsAssumption
  <2> QED  BY <2>1
           DEF VerdictInv, VerifiedWasTrue, VerifiedIsAttested,
               CondemnedByTheChain
<1> QED  BY <1>1, <1>2, <1>3 DEF EsploraInv

-----------------------------------------------------------------------------
(* A call begins, and asks the providers.                                  *)

\* There are providers.
LEMMA SomeProvider == Provider # {}
  BY ConstantsAssumption, FS_EmptySet

\* The quorum's tip is the lowest one.
LEMMA QuorumTipIs ==
    ASSUME NEW s \in Snapshot
    PROVE  /\ QuorumTip(s) \in Nat
           /\ s.tips \in [Provider -> Nat]
           /\ s.height \in Nat
           /\ \A p \in Provider : QuorumTip(s) <= s.tips[p]
           /\ \E p \in Provider : QuorumTip(s) = s.tips[p]
<1>1. s.tips \in [Provider -> Nat] /\ s.height \in Nat
  BY DEF Snapshot, Tips
<1> DEFINE N == {s.tips[p] : p \in Provider}
<1>2. N \in SUBSET Nat /\ N # {}
  BY <1>1, SomeProvider
<1>3. Lowest(N) \in N /\ \A k \in N : Lowest(N) <= k
  BY <1>2, LowestIs
<1> QED  BY <1>1, <1>2, <1>3 DEF QuorumTip

\* The attestations of a proof are above the genesis block.
LEMMA ProofsAre ==
    ASSUME ViewsInv, NEW S \in Proofs
    PROVE  /\ S \in SUBSET Candidate
           /\ S # {}
           /\ \A x \in S : x.height \in Nat /\ x.height >= 1
<1>1. ASSUME NEW x \in Attestation
      PROVE  x \in Candidate /\ x.height \in Nat /\ x.height >= 1
  <2>1. PICK b \in 2..Len(blocks), i \in {0, 1} :
           x = [height |-> Height(b) + i, root |-> b]
    BY DEF Attestation
  <2>2. b \in 1..Len(blocks) /\ b # 1 /\ b \in Block
    BY Blocks
  <2>3. Height(b) \in Nat /\ Height(b) >= 1
    BY <2>2, Chains DEF ViewsInv
  <2> QED  BY <2>1, <2>2, <2>3 DEF Candidate
<1>2. S \in SUBSET Attestation /\ S # {}
  BY DEF Proofs
<1> QED  BY <1>1, <1>2

\* A call that has no answers yet.
LEMMA FreshCall ==
    ASSUME ViewsInv, NEW d \in Call, d.step = "hashes",
           \A p \in Provider : d.hash[p] = None /\ d.status[p] = None
                               /\ d.tip[p] = None,
           \A x \in d.candidates : x.height >= 1,
           d.height \in Heights(d),
           d.todo \subseteq Heights(d),
           \A s \in d.pending : PendingInv(d, s),
           d.expected # None =>
              IF d.expected \in d.pending
              THEN d.todo \subseteq {x.height : x \in d.pending}
              ELSE DeepInv(d, d.expected)
    PROVE  QuorumInv(d)
<1>1. \A p \in Provider : Asked(d, p) /\ Honest(d, p)
  BY DEF Asked, Honest
<1> QED  BY <1>1 DEF QuorumInv

\* A call begins.
LEMMA Begins ==
    ASSUME EsploraInv, NEW S \in Proofs, verify_exact_digest(S)
    PROVE  EsploraInv'
<1>1. PICK H : H = {x.height : x \in S}
  OBVIOUS
<1>2. PICK N : N = [p \in Provider |-> None]
  OBVIOUS
<1>3. PICK d : d = [candidates |-> S, todo |-> H, height |-> Lowest(H),
                    pending |-> {}, expected |-> None, step |-> "hashes",
                    hash |-> N, status |-> N, tip |-> N]
  OBVIOUS
<1>4. /\ call' = d
      /\ held' = [p \in Provider |-> {best[p]}]
      /\ result = None
      /\ UNCHANGED <<blocks, liars, best, reorgs, result>>
  BY <1>1, <1>2, <1>3 DEF verify_exact_digest, chain_vars
<1>5. /\ S \in SUBSET Candidate
      /\ S # {}
      /\ \A x \in S : x.height \in Nat /\ x.height >= 1
  BY ProofsAre DEF EsploraInv
<1>6. H \in SUBSET Nat /\ H # {}
  BY <1>1, <1>5
<1>7. Lowest(H) \in H
  BY <1>6, LowestIs
<1>8. /\ N \in [Provider -> Block \cup {None}]
      /\ N \in [Provider -> StatusAnswer \cup {None}]
      /\ N \in [Provider -> Nat \cup {None}]
      /\ \A p \in Provider : N[p] = None
  BY <1>2
<1>9. d \in Call
  <2>1. Lowest(H) \in Nat
    BY <1>6, <1>7
  <2> QED  BY <1>3, <1>5, <1>6, <1>8, <2>1 DEF Call
<1>10. ViewsInv'
  <2>1. Tree(blocks)'
    BY <1>4, Zenon DEF EsploraInv, ViewsInv
  <2>2. held' \in [Provider -> SUBSET (1..Len(blocks))]
    BY <1>4 DEF EsploraInv, ViewsInv
  <2> QED  BY <1>4, <2>1, <2>2 DEF EsploraInv, ViewsInv
<1>11. QuorumInv(d)'
  <2>1. /\ d.candidates = S /\ d.todo = H /\ d.height = Lowest(H)
        /\ d.pending = {} /\ d.expected = None /\ d.step = "hashes"
        /\ d.hash = N /\ d.status = N /\ d.tip = N
    BY <1>3
  <2>2. \A p \in Provider : Asked(d, p)' /\ Honest(d, p)'
    BY <1>8, <2>1 DEF Asked, Honest
  <2> QED  BY <1>1, <1>4, <1>5, <1>7, <1>8, <1>9, <2>1, <2>2
           DEF QuorumInv, Heights
<1>12. VerdictInv'
  <2>1. None \notin Result /\ result' = None
    BY <1>4, ConstantsAssumption
  <2> QED  BY <2>1
           DEF VerdictInv, VerifiedWasTrue, VerifiedIsAttested,
               CondemnedByTheChain
<1>13. \A p \in Provider : best'[p] \in held'[p]
  BY <1>4
<1> QED  BY <1>4, <1>10, <1>11, <1>12, <1>13 DEF EsploraInv

\* What is known of the answers of a provider depends on them alone.
LEMMA SameAnswers ==
    ASSUME NEW c, NEW d, NEW q,
           d.hash[q] = c.hash[q], d.status[q] = c.status[q],
           d.tip[q] = c.tip[q], d.height = c.height
    PROVE  /\ Asked(c, q) => Asked(d, q)
           /\ Honest(c, q) => Honest(d, q)
           /\ \A s : Again(c, s, q) => Again(d, s, q)
  BY DEF Asked, Honest, Again

\* Provider p has answered: what is known of the call otherwise.
LEMMA OneAnswers ==
    ASSUME ViewsInv, NEW c, QuorumInv(c), NEW d \in Call, NEW p \in Provider,
           d.candidates = c.candidates, d.todo = c.todo, d.height = c.height,
           d.pending = c.pending, d.expected = c.expected, d.step = c.step,
           \A q \in Provider : q # p => /\ d.hash[q] = c.hash[q]
                                        /\ d.status[q] = c.status[q]
                                        /\ d.tip[q] = c.tip[q],
           d.step = "hashes" => d.status[p] = None /\ d.tip[p] = None,
           d.step = "evidence" => d.hash[p] = c.hash[p],
           Asked(d, p),
           p \notin liars => Honest(d, p),
           \A s \in Snapshot :
              p \notin liars /\ MaxReorgs <= 2 /\ DeepInv(c, s)
                 => Again(d, s, p)
    PROVE  QuorumInv(d)
<1>1. ASSUME NEW q \in Provider
      PROVE  Asked(d, q) /\ (q \notin liars => Honest(d, q))
  <2>1. CASE q = p
    BY <2>1
  <2>2. CASE q # p
    <3>1. Asked(c, q) /\ (q \notin liars => Honest(c, q))
      BY DEF QuorumInv
    <3> QED  BY <2>2, <3>1, SameAnswers
  <2> QED  BY <2>1, <2>2
<1>2. ASSUME NEW s \in Snapshot, DeepInv(c, s)
      PROVE  DeepInv(d, s)
  <2>1. ASSUME MaxReorgs <= 2, NEW q \in Provider \ liars
        PROVE  Again(d, s, q)
    <3>1. CASE q = p
      BY <1>2, <2>1, <3>1
    <3>2. CASE q # p
      BY <1>2, <2>1, <3>2, SameAnswers DEF DeepInv
    <3> QED  BY <3>1, <3>2
  <2> QED  BY <1>2, <2>1 DEF DeepInv
<1>3. d.expected # None /\ d.expected \notin d.pending
         => DeepInv(d, d.expected)
  BY <1>2, CallFields DEF QuorumInv
<1>4. /\ d.step = "hashes" =>
            \A q \in Provider : d.status[q] = None /\ d.tip[q] = None
      /\ d.step = "evidence" =>
            \A q, r \in Provider : d.hash[q] # None /\ d.hash[q] = d.hash[r]
  <2>1. d.step = "evidence" => \A q \in Provider : d.hash[q] = c.hash[q]
    OBVIOUS
  <2> QED  BY <2>1 DEF QuorumInv
<1>5. \A s \in d.pending : PendingInv(d, s)
  BY DEF QuorumInv, PendingInv, Heights
<1> QED  BY <1>1, <1>3, <1>4, <1>5 DEF QuorumInv, Heights

\* What is known of a call.
LEMMA CallKnown ==
    ASSUME EsploraInv, call # None
    PROVE  \E c : /\ c = call
                  /\ c # None
                  /\ c \in Call
                  /\ QuorumInv(c)
                  /\ ViewsInv
                  /\ Tree(blocks)
                  /\ \A p \in Provider : best[p] \in held[p]
                                         /\ best[p] \in 1..Len(blocks)
                  /\ c.height \in Nat
                  /\ c.height >= 1
                  /\ c.hash \in [Provider -> Block \cup {None}]
                  /\ c.status \in [Provider -> StatusAnswer \cup {None}]
                  /\ c.tip \in [Provider -> Nat \cup {None}]
<1>1. PICK c : c = call
  OBVIOUS
<1>2. c \in Call /\ QuorumInv(c) /\ ViewsInv
  BY <1>1 DEF EsploraInv, QuorumInv
<1>3. c.height \in Nat /\ c.height >= 1
  BY <1>2, CallFields DEF QuorumInv, Heights
<1>4. \A p \in Provider : best[p] \in held[p] /\ best[p] \in 1..Len(blocks)
  BY DEF EsploraInv, ViewsInv
<1>5. Tree(blocks)
  BY <1>2 DEF ViewsInv
<1> QED  BY <1>1, <1>2, <1>3, <1>4, <1>5, CallFields

\* A provider gives the hash of a block.
LEMMA HashAnswers ==
    ASSUME EsploraInv, NEW p \in Provider, block_hash(p)
    PROVE  EsploraInv'
<1>0. call # None
  BY DEF block_hash
<1>1. PICK c : /\ c = call
               /\ c # None
               /\ c \in Call
               /\ QuorumInv(c)
               /\ ViewsInv
               /\ Tree(blocks)
               /\ \A q \in Provider : best[q] \in held[q]
                                      /\ best[q] \in 1..Len(blocks)
               /\ c.height \in Nat
               /\ c.height >= 1
               /\ c.hash \in [Provider -> Block \cup {None}]
               /\ c.status \in [Provider -> StatusAnswer \cup {None}]
               /\ c.tip \in [Provider -> Nat \cup {None}]
  BY <1>0, CallKnown
<1>2. c.step = "hashes" /\ c.hash[p] = None
  BY <1>1 DEF block_hash
<1>3. PICK v \in 1..Len(blocks) :
         /\ Goes([c EXCEPT !.hash[p] = v])
         /\ p \notin liars =>
               /\ Holds(best[p], v)
               /\ Height(v) = c.height
               /\ c.height <= Height(best[p])
               /\ v = BlockAt(best[p], c.height)
  <2>1. CASE p \in liars
    BY <1>1, <2>1 DEF block_hash
  <2>2. CASE p \notin liars
    <3>1. /\ c.height <= Height(best[p])
          /\ Goes([c EXCEPT !.hash[p] = BlockAt(best[p], c.height)])
      BY <1>1, <2>2 DEF block_hash, HasHeight
    <3>2. Height(best[p]) \in Nat
      BY <1>1, Chains
    <3>3. c.height \in 0..Height(best[p])
      BY <1>1, <3>1, <3>2
    <3>4. /\ BlockAt(best[p], c.height) \in 1..Len(blocks)
          /\ Height(BlockAt(best[p], c.height)) = c.height
          /\ Holds(best[p], BlockAt(best[p], c.height))
      BY <1>1, <3>3, Chains
    <3> QED  BY <3>1, <3>4
  <2> QED  BY <2>1, <2>2
<1>4. PICK N : N = [c.hash EXCEPT ![p] = v]
  OBVIOUS
<1>5. PICK d : d = [c EXCEPT !.hash = N]
  OBVIOUS
<1>6. Goes(d)
  BY <1>1, <1>3, <1>4, <1>5
<1>7. /\ N \in [Provider -> Block \cup {None}]
      /\ N[p] = v
      /\ \A q \in Provider : q # p => N[q] = c.hash[q]
  BY <1>1, <1>3, <1>4, Blocks
<1>8. /\ d \in Call
      /\ d.candidates = c.candidates
      /\ d.todo = c.todo
      /\ d.height = c.height
      /\ d.pending = c.pending
      /\ d.expected = c.expected
      /\ d.step = c.step
      /\ d.hash = N
      /\ d.status = c.status
      /\ d.tip = c.tip
  BY <1>1, <1>5, <1>7 DEF Call
<1>9. d.step = "hashes" /\ d.status[p] = None /\ d.tip[p] = None
  BY <1>1, <1>2, <1>8 DEF QuorumInv
<1>10. Asked(d, p)
  BY <1>3, <1>7, <1>8, <1>9 DEF Asked
<1>11. p \notin liars => Honest(d, p)
  BY <1>1, <1>3, <1>7, <1>8, <1>9 DEF Honest
<1>12. ASSUME NEW s \in Snapshot, p \notin liars, MaxReorgs <= 2, DeepInv(c, s)
       PROVE  Again(d, s, p)
  <2>1. Seen(p, s.block, s.tips[p])
    BY <1>12 DEF DeepInv, Again
  <2>2. ~(s.tips[p] < Height(s.block))
    <3>1. /\ QuorumTip(s) \in Nat
          /\ s.tips[p] \in Nat
          /\ QuorumTip(s) <= s.tips[p]
          /\ s.height \in Nat
      BY QuorumTipIs
    <3>2. s.height = Height(s.block)
          /\ QuorumTip(s) - s.height + 1 >= MinimumConfirmations
      BY <1>12 DEF DeepInv, Confirmations
    <3> QED  BY <3>1, <3>2, ConstantsAssumption
  <2>3. s.tips[p] \in Nat /\ None \notin Nat
    BY QuorumTipIs, ConstantsAssumption
  <2>4. d.hash[p] = s.block =>
           \/ Witnessed(p, s.block, s.tips[p])
           \/ reorgs[p] >= 2 /\ Holds(best[p], s.block)
    BY <1>3, <1>7, <1>8, <1>12, <2>1, <2>2 DEF Seen
  <2> QED  BY <1>9, <2>1, <2>3, <2>4 DEF Again
<1>13. QuorumInv(d)
  BY <1>1, <1>2, <1>7, <1>8, <1>9, <1>10, <1>11, <1>12, OneAnswers
<1> QED  BY <1>1, <1>6, <1>13, CallGoes

\* A conflict that the chain or a lie accounts for.
LEMMA Conflicts ==
    ASSUME EsploraInv, call # None, Conflict,
           liars = {} =>
              \E p \in Provider :
                 \/ reorgs[p] > 0
                 \/ \E x \in call.candidates, t \in held[p] :
                       Height(t) >= x.height /\ BlockAt(t, x.height) # x.root
    PROVE  EsploraInv'
<1>1. CASE call.expected = None
  <2>1. Ends("invalid", 0, None, 0)
    BY <1>1 DEF Conflict, Fails
  <2> QED  BY <2>1, CallEnds
<1>2. CASE call.expected # None
  BY <1>2, CallFails DEF Conflict
<1> QED  BY <1>1, <1>2

\* The hashes agree or they do not.
LEMMA HashesMet ==
    ASSUME EsploraInv, hashes
    PROVE  EsploraInv'
<1>0. call # None
  BY DEF hashes, HashAnswered
<1>1. PICK c : /\ c = call
               /\ c # None
               /\ c \in Call
               /\ QuorumInv(c)
               /\ ViewsInv
               /\ Tree(blocks)
               /\ \A q \in Provider : best[q] \in held[q]
                                      /\ best[q] \in 1..Len(blocks)
               /\ c.height \in Nat
               /\ c.height >= 1
               /\ c.hash \in [Provider -> Block \cup {None}]
               /\ c.status \in [Provider -> StatusAnswer \cup {None}]
               /\ c.tip \in [Provider -> Nat \cup {None}]
  BY <1>0, CallKnown
<1>2. c.step = "hashes" /\ \A p \in Provider : c.hash[p] # None
  BY <1>1 DEF hashes, HashAnswered
<1>3. CASE HashesAgree
  <2>1. PICK d : d = [c EXCEPT !.step = "evidence"]
    OBVIOUS
  <2>2. Goes(d)
    BY <1>1, <1>3, <2>1 DEF hashes
  <2>3. /\ d \in Call
        /\ d.candidates = c.candidates
        /\ d.todo = c.todo
        /\ d.height = c.height
        /\ d.pending = c.pending
        /\ d.expected = c.expected
        /\ d.step = "evidence"
        /\ d.hash = c.hash
        /\ d.status = c.status
        /\ d.tip = c.tip
    BY <1>1, <2>1 DEF Call
  <2>4. \A p, q \in Provider : c.hash[p] = c.hash[q]
    BY <1>1, <1>3 DEF HashesAgree
  <2>5. \A q : /\ Asked(c, q) => Asked(d, q)
               /\ Honest(c, q) => Honest(d, q)
               /\ \A s : Again(c, s, q) => Again(d, s, q)
    BY <2>3, SameAnswers
  <2>6. \A s : DeepInv(c, s) => DeepInv(d, s)
    BY <2>3, <2>5 DEF DeepInv
  <2>7. \A s : PendingInv(c, s) => PendingInv(d, s)
    BY <2>3 DEF PendingInv, Heights
  <2>8. QuorumInv(d)
    BY <1>1, <1>2, <2>3, <2>4, <2>5, <2>6, <2>7 DEF QuorumInv, Heights
  <2> QED  BY <1>1, <2>2, <2>8, CallGoes
<1>4. CASE ~HashesAgree
  <2>1. Conflict
    BY <1>4 DEF hashes
  <2>2. ASSUME liars = {}
        PROVE  \E p \in Provider : \E x \in c.candidates, t \in held[p] :
                  Height(t) >= x.height /\ BlockAt(t, x.height) # x.root
    <3>1. PICK p \in Provider, q \in Provider : c.hash[p] # c.hash[q]
      BY <1>1, <1>4 DEF HashesAgree
    <3>2. PICK x \in c.candidates : x.height = c.height
      BY <1>1 DEF QuorumInv, Heights
    <3>3. /\ \E t \in held[p] : /\ Height(t) >= c.height
                                /\ BlockAt(t, c.height) = c.hash[p]
          /\ \E t \in held[q] : /\ Height(t) >= c.height
                                /\ BlockAt(t, c.height) = c.hash[q]
      BY <1>1, <1>2, <2>2 DEF QuorumInv, Honest
    <3> QED  BY <3>1, <3>2, <3>3
  <2> QED  BY <1>1, <2>1, <2>2, Conflicts
<1> QED  BY <1>3, <1>4

\* A liar is found out.
LEMMA WrongNetwork ==
    ASSUME EsploraInv, wrong_network
    PROVE  EsploraInv'
  BY Conflicts DEF wrong_network, HashAnswered

\* A provider gives header and status of the block.
LEMMA StatusAnswers ==
    ASSUME EsploraInv, NEW p \in Provider, block_status(p)
    PROVE  EsploraInv'
<1>0. call # None
  BY DEF block_status
<1>1. PICK c : /\ c = call
               /\ c # None
               /\ c \in Call
               /\ QuorumInv(c)
               /\ ViewsInv
               /\ Tree(blocks)
               /\ \A q \in Provider : best[q] \in held[q]
                                      /\ best[q] \in 1..Len(blocks)
               /\ c.height \in Nat
               /\ c.height >= 1
               /\ c.hash \in [Provider -> Block \cup {None}]
               /\ c.status \in [Provider -> StatusAnswer \cup {None}]
               /\ c.tip \in [Provider -> Nat \cup {None}]
  BY <1>0, CallKnown
<1>2. c.step = "evidence" /\ c.status[p] = None
  BY <1>1 DEF block_status
<1>3. PICK b : b = c.hash[p]
  OBVIOUS
<1>4. /\ b \in 1..Len(blocks) /\ b # None
      /\ b \in Block /\ 1 \in Block
      /\ Height(b) \in Nat
  <2>1. b # None
    BY <1>1, <1>2, <1>3 DEF QuorumInv
  <2>2. b \in 1..Len(blocks)
    BY <1>1, <1>3, <2>1 DEF QuorumInv, Asked
  <2> QED  BY <1>1, <2>1, <2>2, Blocks, Chains
<1>5. PICK a \in StatusAnswer :
         /\ Goes([c EXCEPT !.status[p] = a])
         /\ a.header \in {b, 1}
         /\ a.height \in {Height(b), 0}
         /\ p \notin liars => /\ a.header = b
                              /\ a.height = Height(b)
                              /\ a.canonical = Holds(best[p], b)
  <2>1. CASE p \in liars
    <3>1. PICK a \in [header : {b, 1}, height : {Height(b), 0},
                      canonical : BOOLEAN] : Goes([c EXCEPT !.status[p] = a])
      BY <1>1, <1>3, <2>1 DEF block_status
    <3>2. a \in StatusAnswer
      <4>1. {b, 1} \subseteq Block /\ {Height(b), 0} \subseteq Nat
        BY <1>4
      <4> QED  BY <4>1, Zenon DEF StatusAnswer
    <3>3. a.header \in {b, 1} /\ a.height \in {Height(b), 0}
      BY Zenon
    <3> QED  BY <2>1, <3>1, <3>2, <3>3
  <2>2. CASE p \notin liars
    <3>1. PICK k \in BOOLEAN : k = Holds(best[p], b)
      BY Zenon DEF Holds
    <3>2. PICK a : a = [header |-> b, height |-> Height(b), canonical |-> k]
      OBVIOUS
    <3>3. a \in StatusAnswer
      BY <1>4, <3>2, Zenon DEF StatusAnswer
    <3>4. a.header = b /\ a.height = Height(b) /\ a.canonical = k
      BY <3>2, Zenon
    <3>5. Goes([c EXCEPT !.status[p] = a])
      <4>1. Goes([c EXCEPT !.status[p] =
                    [header |-> b, height |-> Height(b),
                     canonical |-> Holds(best[p], b)]])
        BY <1>1, <1>3, <2>2, Zenon DEF block_status
      <4>2. a = [header |-> b, height |-> Height(b),
                 canonical |-> Holds(best[p], b)]
        BY <3>1, <3>2, Zenon
      <4> QED  BY <4>1, <4>2, Zenon
    <3> QED  BY <3>1, <3>3, <3>4, <3>5, Zenon
  <2> QED  BY <2>1, <2>2
<1>6. PICK N : N = [c.status EXCEPT ![p] = a]
  OBVIOUS
<1>7. PICK d : d = [c EXCEPT !.status = N]
  OBVIOUS
<1>8. Goes(d)
  BY <1>1, <1>5, <1>6, <1>7
<1>9. /\ N \in [Provider -> StatusAnswer \cup {None}]
      /\ N[p] = a
      /\ \A q \in Provider : q # p => N[q] = c.status[q]
  BY <1>1, <1>6
<1>10. /\ d \in Call
      /\ d.candidates = c.candidates
      /\ d.todo = c.todo
      /\ d.height = c.height
      /\ d.pending = c.pending
      /\ d.expected = c.expected
      /\ d.step = c.step
      /\ d.hash = c.hash
      /\ d.status = N
      /\ d.tip = c.tip
  BY <1>1, <1>7, <1>9 DEF Call
<1>11. Asked(d, p)
  BY <1>3, <1>4, <1>5, <1>9, <1>10 DEF Asked
<1>12. ASSUME p \notin liars PROVE Honest(d, p)
  <2>1. Honest(c, p)
    BY <1>1, <1>12 DEF QuorumInv
  <2>2. d.hash[p] = b /\ d.status[p] = a /\ d.tip[p] = c.tip[p]
    BY <1>3, <1>9, <1>10
  <2>3. a.canonical \/ reorgs[p] >= 1
    BY <1>3, <1>4, <1>5, <1>12, <2>1 DEF Honest
  <2> QED  BY <1>3, <1>5, <1>10, <1>12, <2>1, <2>2, <2>3 DEF Honest
<1>13. \A s : Again(c, s, p) => Again(d, s, p)
  BY <1>10 DEF Again
<1>14. ASSUME NEW s \in Snapshot, p \notin liars, MaxReorgs <= 2, DeepInv(c, s)
       PROVE  Again(d, s, p)
  BY <1>13, <1>14 DEF DeepInv
<1>15. d.step # "hashes"
  BY <1>2, <1>10
<1>16. QuorumInv(d)
  BY <1>1, <1>9, <1>10, <1>11, <1>12, <1>14, <1>15, OneAnswers
<1> QED  BY <1>1, <1>8, <1>16, CallGoes

\* A provider gives its tip.
LEMMA TipAnswers ==
    ASSUME EsploraInv, NEW p \in Provider, tip_height(p)
    PROVE  EsploraInv'
<1>0. call # None
  BY DEF tip_height
<1>1. PICK c : /\ c = call
               /\ c # None
               /\ c \in Call
               /\ QuorumInv(c)
               /\ ViewsInv
               /\ Tree(blocks)
               /\ \A q \in Provider : best[q] \in held[q]
                                      /\ best[q] \in 1..Len(blocks)
               /\ c.height \in Nat
               /\ c.height >= 1
               /\ c.hash \in [Provider -> Block \cup {None}]
               /\ c.status \in [Provider -> StatusAnswer \cup {None}]
               /\ c.tip \in [Provider -> Nat \cup {None}]
  BY <1>0, CallKnown
<1>2. c.step = "evidence"
  BY <1>1 DEF tip_height
<1>3. PICK n \in Nat :
         /\ Goes([c EXCEPT !.tip[p] = n])
         /\ p \notin liars => n = Height(best[p])
  <2>1. CASE p \in liars
    <3>1. PICK n \in 0..(Len(blocks) + MaxSkew) :
             Goes([c EXCEPT !.tip[p] = n])
      BY <1>1, <2>1 DEF tip_height
    <3> QED  BY <2>1, <3>1
  <2>2. CASE p \notin liars
    <3>1. Height(best[p]) \in Nat
      BY <1>1, Chains
    <3> QED  BY <1>1, <2>2, <3>1 DEF tip_height
  <2> QED  BY <2>1, <2>2
<1>4. PICK N : N = [c.tip EXCEPT ![p] = n]
  OBVIOUS
<1>5. PICK d : d = [c EXCEPT !.tip = N]
  OBVIOUS
<1>6. Goes(d)
  BY <1>1, <1>3, <1>4, <1>5
<1>7. /\ N \in [Provider -> Nat \cup {None}]
      /\ N[p] = n
      /\ \A q \in Provider : q # p => N[q] = c.tip[q]
  BY <1>1, <1>4
<1>8. /\ d \in Call
      /\ d.candidates = c.candidates
      /\ d.todo = c.todo
      /\ d.height = c.height
      /\ d.pending = c.pending
      /\ d.expected = c.expected
      /\ d.step = c.step
      /\ d.hash = c.hash
      /\ d.status = c.status
      /\ d.tip = N
  BY <1>1, <1>5, <1>7 DEF Call
<1>9. c.hash[p] # None /\ c.hash[p] \in 1..Len(blocks)
  BY <1>1, <1>2 DEF QuorumInv, Asked
<1>10. Asked(d, p)
  BY <1>1, <1>8 DEF QuorumInv, Asked
<1>11. ASSUME p \notin liars PROVE Honest(d, p)
  <2>1. Honest(c, p) /\ n = Height(best[p])
    BY <1>1, <1>3, <1>11 DEF QuorumInv
  <2>2. n >= Height(c.hash[p]) \/ reorgs[p] >= 1
    <3>1. CASE Holds(best[p], c.hash[p])
      <4>1. Height(c.hash[p]) \in 0..Height(best[p])
        BY <1>1, <3>1, Chains
      <4> QED  BY <2>1, <4>1
    <3> QED  BY <1>9, <2>1, <3>1 DEF Honest
  <2>3. Seen(p, c.hash[p], n)
    <3>1. CASE Holds(best[p], c.hash[p])
      BY <1>1, <1>3, <2>1, <3>1 DEF Seen, Witnessed
    <3>2. CASE ~Holds(best[p], c.hash[p])
      BY <1>3, <1>9, <2>1, <3>2 DEF Seen, Honest
    <3> QED  BY <3>1, <3>2
  <2> QED  BY <1>7, <1>8, <2>1, <2>2, <2>3 DEF Honest
<1>12. ASSUME NEW s \in Snapshot, p \notin liars, MaxReorgs <= 2, DeepInv(c, s)
       PROVE  Again(d, s, p)
  <2>1. Again(c, s, p)
    BY <1>12 DEF DeepInv
  <2>2. n = Height(best[p])
    BY <1>3, <1>12
  <2>3. ASSUME Holds(best[p], s.block), n = s.tips[p]
        PROVE  Witnessed(p, s.block, s.tips[p])
    <3>1. best[p] \in held[p] /\ Height(best[p]) >= s.tips[p]
      BY <1>1, <1>3, <2>2, <2>3
    <3> QED  BY <2>3, <3>1, Zenon DEF Witnessed
  <2>4. /\ d.hash[p] = c.hash[p]
        /\ d.tip[p] = n
    BY <1>7, <1>8
  <2>5. ASSUME d.hash[p] = s.block, d.tip[p] = s.tips[p]
        PROVE  Witnessed(p, s.block, s.tips[p])
    <3>1. CASE Holds(best[p], s.block)
      BY <2>3, <2>4, <2>5, <3>1
    <3>2. CASE ~Holds(best[p], s.block)
      BY <2>1, <2>4, <2>5, <3>2 DEF Again
    <3> QED  BY <3>1, <3>2
  <2> QED  BY <2>1, <2>4, <2>5 DEF Again
<1>13. d.step # "hashes"
  BY <1>2, <1>8
<1>14. QuorumInv(d)
  BY <1>1, <1>7, <1>8, <1>10, <1>11, <1>12, <1>13, OneAnswers
<1> QED  BY <1>1, <1>6, <1>14, CallGoes

-----------------------------------------------------------------------------
(* What the call makes of the answers.                                     *)

\* Two records with the same fields are one.
LEMMA RecordSame ==
    ASSUME NEW B, NEW a \in [header : Block, height : Nat, canonical : B],
           NEW b \in [header : Block, height : Nat, canonical : B],
           a.header = b.header, a.height = b.height,
           a.canonical = b.canonical
    PROVE  a = b
OBVIOUS

\* Two statuses with the same fields are one.
LEMMA StatusSame ==
    ASSUME NEW a \in StatusAnswer, NEW b \in StatusAnswer,
           a.header = b.header, a.height = b.height,
           a.canonical = b.canonical
    PROVE  a = b
BY RecordSame, Zenon DEF StatusAnswer

\* What the call has observed when the providers agree.
LEMMA ObservedIs ==
    ASSUME EsploraInv, Agreed
    PROVE  \E c, s :
              /\ c = call
              /\ c # None
              /\ c \in Call
              /\ QuorumInv(c)
              /\ ViewsInv
              /\ Tree(blocks)
              /\ c.height \in Nat
              /\ c.height >= 1
              /\ c.step = "evidence"
              /\ s = Observed
              /\ s \in Snapshot
              /\ s.block \in 1..Len(blocks)
              /\ s.block # None
              /\ s.height \in {Height(s.block), 0}
              /\ \A p \in Provider : /\ c.hash[p] = s.block
                                     /\ c.tip[p] = s.tips[p]
                                     /\ c.status[p] # None
                                     /\ c.tip[p] # None
                                     /\ c.status[p].header = s.header
                                     /\ c.status[p].height = s.height
                                     /\ c.status[p].canonical = s.canonical
<1>1. call # None
  BY DEF Agreed, Answered
<1>2. PICK c : /\ c = call
               /\ c # None
               /\ c \in Call
               /\ QuorumInv(c)
               /\ ViewsInv
               /\ Tree(blocks)
               /\ \A q \in Provider : best[q] \in held[q]
                                      /\ best[q] \in 1..Len(blocks)
               /\ c.height \in Nat
               /\ c.height >= 1
               /\ c.hash \in [Provider -> Block \cup {None}]
               /\ c.status \in [Provider -> StatusAnswer \cup {None}]
               /\ c.tip \in [Provider -> Nat \cup {None}]
  BY <1>1, CallKnown
<1>3. /\ c.step = "evidence"
      /\ \A p \in Provider : c.status[p] # None /\ c.tip[p] # None
      /\ \A p, q \in Provider : c.status[p] = c.status[q]
  BY <1>2 DEF Agreed, Answered, StatusesAgree
<1>4. PICK p : p = (CHOOSE q \in Provider : TRUE)
  OBVIOUS
<1>5. p \in Provider
  BY <1>4, SomeProvider
<1>6. \A q, r \in Provider : c.hash[q] # None /\ c.hash[q] = c.hash[r]
  BY <1>2, <1>3 DEF QuorumInv
<1>7. PICK a : a = c.status[p]
  OBVIOUS
<1>8. /\ a \in StatusAnswer
      /\ \A q \in Provider : c.status[q] = a
  BY <1>2, <1>3, <1>5, <1>7
<1>9. a.header \in Block /\ a.height \in Nat /\ a.canonical \in BOOLEAN
  BY <1>8, Zenon DEF StatusAnswer
<1>10. c.hash[p] \in Block /\ c.hash[p] \in 1..Len(blocks)
  BY <1>2, <1>5, <1>6 DEF QuorumInv, Asked
<1>11. c.tip \in Tips
  <2>1. \A q \in Provider : c.tip[q] \in Nat
    BY <1>2, <1>3
  <2>2. PICK t : t = c.tip
    OBVIOUS
  <2>3. \A q \in Provider : t[q] \in Nat
    BY <2>1, <2>2
  <2>5. t \in [Provider -> Nat \cup {None}]
    BY <1>2, <2>2
  <2>4. t \in [Provider -> Nat]
    BY <2>3, <2>5
  <2> QED  BY <2>2, <2>4 DEF Tips
<1>12. a.height \in {Height(c.hash[p]), 0}
  BY <1>2, <1>3, <1>5, <1>7 DEF QuorumInv, Asked
<1>13. PICK s : s = [block |-> c.hash[p], header |-> a.header,
                     height |-> a.height, canonical |-> a.canonical,
                     tips |-> c.tip]
  OBVIOUS
<1>14. s = Observed
  BY <1>2, <1>4, <1>7, <1>13, Zenon DEF Observed
<1>15. s \in Snapshot
  BY <1>9, <1>10, <1>11, <1>13, Zenon DEF Snapshot
<1>16. /\ s.block = c.hash[p]
       /\ s.header = a.header
       /\ s.height = a.height
       /\ s.canonical = a.canonical
       /\ s.tips = c.tip
  BY <1>13, Zenon
<1>17. \A q \in Provider : /\ c.hash[q] = s.block
                           /\ c.tip[q] = s.tips[q]
                           /\ c.status[q] # None
                           /\ c.tip[q] # None
                           /\ c.status[q].header = s.header
                           /\ c.status[q].height = s.height
                           /\ c.status[q].canonical = s.canonical
  BY <1>3, <1>5, <1>6, <1>8, <1>16, Zenon
<1>18. /\ s.block \in 1..Len(blocks)
       /\ s.block # None
       /\ s.height \in {Height(s.block), 0}
  BY <1>5, <1>6, <1>10, <1>12, <1>16
<1>19. c.step = "evidence"
  BY <1>3
<1>20. /\ c = call
       /\ c # None
       /\ c \in Call
       /\ QuorumInv(c)
       /\ ViewsInv
       /\ Tree(blocks)
       /\ c.height \in Nat
       /\ c.height >= 1
  BY <1>2
<1> WITNESS c, s
<1> QED  BY <1>14, <1>15, <1>17, <1>18, <1>19, <1>20, ZenonT(30)

\* A failure that is no verdict.
LEMMA Unavailable ==
    ASSUME EsploraInv, unavailable
    PROVE  EsploraInv'
BY CallFails DEF unavailable

\* The tips are too far apart.
LEMMA TipsApart ==
    ASSUME EsploraInv, tip_skew
    PROVE  EsploraInv'
BY CallFails DEF tip_skew, Answered

\* The second snapshot is another one.
LEMMA Races ==
    ASSUME EsploraInv, race
    PROVE  EsploraInv'
BY CallFails DEF race, Agreed, Answered

\* The statuses differ: with honest providers one was reorganized.
LEMMA StatusesConflict ==
    ASSUME EsploraInv, evidence_conflict
    PROVE  EsploraInv'
<1>0. call # None /\ Conflict
  BY DEF evidence_conflict, Answered
<1>1. PICK c : /\ c = call
               /\ c # None
               /\ c \in Call
               /\ QuorumInv(c)
               /\ ViewsInv
               /\ Tree(blocks)
               /\ \A q \in Provider : best[q] \in held[q]
                                      /\ best[q] \in 1..Len(blocks)
               /\ c.height \in Nat
               /\ c.height >= 1
               /\ c.hash \in [Provider -> Block \cup {None}]
               /\ c.status \in [Provider -> StatusAnswer \cup {None}]
               /\ c.tip \in [Provider -> Nat \cup {None}]
  BY <1>0, CallKnown
<1>2. ASSUME liars = {}
      PROVE  \E p \in Provider : reorgs[p] > 0
  <2>1. SUFFICES ASSUME \A p \in Provider : ~(reorgs[p] > 0)
                 PROVE  FALSE
    OBVIOUS
  <2>2. \A p \in Provider : ~(reorgs[p] >= 1)
    BY <1>1, <2>1 DEF ViewsInv
  <2>3. /\ c.step = "evidence"
        /\ \A p \in Provider : c.status[p] # None
        /\ \E p, q \in Provider : c.status[p] # c.status[q]
    BY <1>1 DEF evidence_conflict, Answered, StatusesAgree
  <2>4. \A p \in Provider : /\ c.status[p] \in StatusAnswer
                            /\ c.status[p].header = c.hash[p]
                            /\ c.status[p].height = Height(c.hash[p])
                            /\ c.status[p].canonical
    BY <1>1, <1>2, <2>2, <2>3 DEF QuorumInv, Honest
  <2>5. \A p, q \in Provider : c.hash[p] = c.hash[q]
    BY <1>1, <2>3 DEF QuorumInv
  <2>6. PICK p \in Provider, q \in Provider : c.status[p] # c.status[q]
    BY <2>3
  <2>7. c.status[p].canonical \in BOOLEAN /\ c.status[q].canonical \in BOOLEAN
    BY <2>4, Zenon DEF StatusAnswer
  <2>8. c.status[p].canonical = c.status[q].canonical
    BY <2>4, <2>7, Zenon
  <2>9. c.status[p].header = c.status[q].header
        /\ c.status[p].height = c.status[q].height
    BY <2>4, <2>5, Zenon
  <2> QED  BY <2>4, <2>6, <2>8, <2>9, StatusSame
<1> QED  BY <1>0, <1>1, <1>2, Conflicts

\* The block is not canonical, or the header is another: one was reorganized.
LEMMA NotCanonical ==
    ASSUME EsploraInv, noncanonical
    PROVE  EsploraInv'
<1>1. PICK c, s :
              /\ c = call
              /\ c # None
              /\ c \in Call
              /\ QuorumInv(c)
              /\ ViewsInv
              /\ Tree(blocks)
              /\ c.height \in Nat
              /\ c.height >= 1
              /\ c.step = "evidence"
              /\ s = Observed
              /\ s \in Snapshot
              /\ s.block \in 1..Len(blocks)
              /\ s.block # None
              /\ s.height \in {Height(s.block), 0}
              /\ \A p \in Provider : /\ c.hash[p] = s.block
                                     /\ c.tip[p] = s.tips[p]
                                     /\ c.status[p] # None
                                     /\ c.tip[p] # None
                                     /\ c.status[p].header = s.header
                                     /\ c.status[p].height = s.height
                                     /\ c.status[p].canonical = s.canonical
  BY ObservedIs DEF noncanonical, First
<1>2. ~Canonical(s) \/ ~HeaderMatches(s)
  BY <1>1 DEF noncanonical
<1>3. Ends("invalid", 0, None, 0)
  BY DEF noncanonical, Fails
<1>4. ASSUME liars = {}
      PROVE  \E p \in Provider : reorgs[p] > 0
  <2>1. SUFFICES ASSUME \A p \in Provider : ~(reorgs[p] > 0)
                 PROVE  FALSE
    OBVIOUS
  <2>2. \A p \in Provider : ~(reorgs[p] >= 1)
    BY <1>1, <2>1 DEF ViewsInv
  <2>3. \A p \in Provider : Honest(c, p)
    BY <1>1, <1>4 DEF QuorumInv
  <2>4. PICK p \in Provider : QuorumTip(s) = s.tips[p]
    BY <1>1, QuorumTipIs
  <2>5. /\ s.header = s.block
        /\ s.height = Height(s.block)
        /\ Height(s.block) = c.height
        /\ s.tips[p] >= Height(s.block)
    BY <1>1, <2>2, <2>3, <2>4 DEF Honest
  <2>6. s.canonical
    <3>1. c.status[p].canonical
      BY <1>1, <2>2, <2>3, <2>4 DEF Honest
    <3>2. c.status[p].canonical = s.canonical
      BY <1>1, <2>4, Zenon
    <3> QED  BY <3>1, <3>2, Zenon
  <2>7. QuorumTip(s) >= c.height
    BY <2>4, <2>5
  <2>8. s.height = c.height
    BY <2>5
  <2> QED  BY <1>1, <1>2, <2>5, <2>6, <2>7, <2>8, Zenon
              DEF Canonical, HeaderMatches
<1>5. None \in Block \cup {None} /\ 0 \in Nat
  OBVIOUS
<1> QED  BY <1>1, <1>3, <1>4, <1>5, CallEnds

\* A call with other heights left.
LEMMA TodoSet ==
    ASSUME NEW c \in Call, NEW T \in SUBSET Nat,
           NEW d, d = [c EXCEPT !.todo = T]
    PROVE  /\ d \in Call
           /\ d.todo = T
           /\ d.candidates = c.candidates
           /\ d.pending = c.pending
BY DEF Call

\* A call with one more pending snapshot.
LEMMA PendingSet ==
    ASSUME NEW c \in Call, NEW P \in SUBSET Snapshot,
           NEW d, d = [c EXCEPT !.pending = P]
    PROVE  /\ d \in Call
           /\ d.pending = P
           /\ d.candidates = c.candidates
           /\ d.todo = c.todo
           /\ d.height = c.height
BY DEF Call

\* A call that asks the providers anew.
LEMMA AsksIs ==
    ASSUME ViewsInv, NEW c \in Call, NEW h \in Nat,
           NEW x \in Snapshot \cup {None}, NEW d, d = Asks(c, h, x)
    PROVE  /\ d \in Call
           /\ d.step = "hashes"
           /\ d.height = h
           /\ d.expected = x
           /\ d.candidates = c.candidates
           /\ d.todo = c.todo
           /\ d.pending = c.pending
           /\ \A p \in Provider : /\ d.hash[p] = None
                                  /\ d.status[p] = None
                                  /\ d.tip[p] = None
<1>1. PICK N : N = [p \in Provider |-> None]
  OBVIOUS
<1>2. /\ N \in [Provider -> Block \cup {None}]
      /\ N \in [Provider -> StatusAnswer \cup {None}]
      /\ N \in [Provider -> Nat \cup {None}]
      /\ \A p \in Provider : N[p] = None
  BY <1>1
<1>3. d = [c EXCEPT !.height = h, !.expected = x, !.step = "hashes",
                    !.hash = N, !.status = N, !.tip = N]
  BY <1>1 DEF Asks
<1>4. d \in Call
  BY <1>2, <1>3, ZenonT(30) DEF Call
<1>5. /\ d.step = "hashes"
      /\ d.height = h
      /\ d.expected = x
      /\ d.hash = N
      /\ d.status = N
      /\ d.tip = N
      /\ d.candidates = c.candidates
      /\ d.todo = c.todo
      /\ d.pending = c.pending
  BY <1>3 DEF Call
<1> QED  BY <1>2, <1>4, <1>5

\* The least pending snapshot is one.
LEMMA LeastPending ==
    ASSUME NEW P \in SUBSET Snapshot, P # {}, NEW s,
           s = CHOOSE x \in P : \A y \in P : x.height <= y.height
    PROVE  s \in P
<1>1. \A x \in P : x.height \in Nat
  BY QuorumTipIs
<1>2. PICK N : N = {x.height : x \in P}
  OBVIOUS
<1>3. N \in SUBSET Nat /\ N # {}
  BY <1>1, <1>2
<1>4. PICK n \in N : \A k \in N : n <= k
  BY <1>3, LeastExists
<1>5. PICK x \in P : x.height = n
  BY <1>2, <1>4
<1>6. \A y \in P : x.height <= y.height
  BY <1>2, <1>4, <1>5
<1> QED  BY <1>5, <1>6

\* The next height, or the pending ones once more, or the end.
LEMMA NextHeights ==
    ASSUME EsploraInv, call # None, NEW d \in Call, NextHeight(d),
           d.candidates = call.candidates,
           \A x \in d.candidates : x.height >= 1,
           d.todo \subseteq Heights(d),
           \A s \in d.pending : PendingInv(d, s),
           d.pending = {} /\ liars = {} =>
              \E p \in Provider : \E x \in call.candidates, t \in held[p] :
                 Height(t) >= x.height /\ BlockAt(t, x.height) # x.root
    PROVE  EsploraInv'
<1>0. ViewsInv
  BY DEF EsploraInv
<1>1. PICK T : T = d.todo \ {d.height}
  OBVIOUS
<1>2. /\ T \in SUBSET Nat
      /\ T \subseteq Heights(d)
      /\ d.pending \in SUBSET Snapshot
  BY <1>1, CallFields
<1>3. CASE T # {}
  <2>1. PICK h : h = Lowest(T)
    OBVIOUS
  <2>2. h \in T /\ h \in Nat
    BY <1>2, <1>3, <2>1, LowestIs
  <2>3. PICK c : c = [d EXCEPT !.todo = T]
    OBVIOUS
  <2>4. /\ c \in Call
        /\ c.todo = T
        /\ c.candidates = d.candidates
        /\ c.pending = d.pending
    BY <1>2, <2>3, TodoSet, SMTT(30)
  <2>5. PICK e : e = Asks(c, h, None)
    OBVIOUS
  <2>6. /\ e \in Call
        /\ e.step = "hashes"
        /\ e.height = h
        /\ e.expected = None
        /\ e.candidates = d.candidates
        /\ e.todo = T
        /\ e.pending = d.pending
        /\ \A p \in Provider : e.hash[p] = None /\ e.status[p] = None
                               /\ e.tip[p] = None
    BY <1>0, <2>2, <2>4, <2>5, AsksIs
  <2>7. Goes(e)
    BY <1>1, <1>3, <2>1, <2>3, <2>5, Zenon DEF NextHeight
  <2>8. /\ e.height \in Heights(e)
        /\ e.todo \subseteq Heights(e)
        /\ \A s \in e.pending : PendingInv(e, s)
    BY <1>2, <2>2, <2>6 DEF Heights, PendingInv
  <2>9. QuorumInv(e)
    BY <1>0, <2>6, <2>8, FreshCall
  <2> QED  BY <2>7, <2>9, CallGoes
<1>4. CASE T = {} /\ d.pending = {}
  <2>1. Ends("invalid", 0, None, 0)
    BY <1>1, <1>4, Zenon DEF NextHeight, Fails
  <2>2. None \in Block \cup {None} /\ 0 \in Nat
    OBVIOUS
  <2> QED  BY <1>4, <2>1, <2>2, CallEnds
<1>5. CASE T = {} /\ d.pending # {}
  <2>1. PICK s : s = CHOOSE x \in d.pending :
                        \A y \in d.pending : x.height <= y.height
    OBVIOUS
  <2>2. s \in d.pending /\ s \in Snapshot
    BY <1>2, <1>5, <2>1, LeastPending
  <2>3. s.height \in Nat
    BY <2>2, QuorumTipIs
  <2>4. PICK U : U = {x.height : x \in d.pending}
    OBVIOUS
  <2>5. /\ U \in SUBSET Nat
        /\ U \subseteq Heights(d)
    <3>1. \A x \in d.pending : x.height \in Nat /\ x.height \in Heights(d)
      BY <1>2, QuorumTipIs DEF PendingInv
    <3> QED  BY <2>4, <3>1
  <2>6. PICK c : c = [d EXCEPT !.todo = U]
    OBVIOUS
  <2>7. /\ c \in Call
        /\ c.todo = U
        /\ c.candidates = d.candidates
        /\ c.pending = d.pending
    BY <2>5, <2>6, TodoSet
  <2>8. PICK e : e = Asks(c, s.height, s)
    OBVIOUS
  <2>9. /\ e \in Call
        /\ e.step = "hashes"
        /\ e.height = s.height
        /\ e.expected = s
        /\ e.candidates = d.candidates
        /\ e.todo = U
        /\ e.pending = d.pending
        /\ \A p \in Provider : e.hash[p] = None /\ e.status[p] = None
                               /\ e.tip[p] = None
    BY <1>0, <2>2, <2>3, <2>7, <2>8, AsksIs
  <2>10. Goes(e)
    BY <1>1, <1>5, <2>1, <2>4, <2>6, <2>8, Zenon DEF NextHeight
  <2>11. /\ e.height \in Heights(e)
         /\ e.todo \subseteq Heights(e)
         /\ \A x \in e.pending : PendingInv(e, x)
    BY <2>2, <2>5, <2>9 DEF Heights, PendingInv
  <2>12. QuorumInv(e)
    BY <1>0, <2>2, <2>4, <2>9, <2>11, FreshCall
  <2> QED  BY <2>10, <2>12, CallGoes
<1> QED  BY <1>3, <1>4, <1>5

\* The proof commits to another block than the one at the height.
LEMMA MerkleMismatch ==
    ASSUME EsploraInv, merkle_mismatch
    PROVE  EsploraInv'
<1>1. PICK c, s :
         /\ c = call
         /\ c # None
         /\ c \in Call
         /\ QuorumInv(c)
         /\ ViewsInv
         /\ Tree(blocks)
         /\ c.height \in Nat
         /\ c.height >= 1
         /\ c.step = "evidence"
         /\ s = Observed
         /\ s \in Snapshot
         /\ s.block \in 1..Len(blocks)
         /\ s.block # None
         /\ s.height \in {Height(s.block), 0}
         /\ \A p \in Provider : /\ c.hash[p] = s.block
                                /\ c.tip[p] = s.tips[p]
                                /\ c.status[p] # None
                                /\ c.tip[p] # None
                                /\ c.status[p].header = s.header
                                /\ c.status[p].height = s.height
                                /\ c.status[p].canonical = s.canonical
  BY ObservedIs DEF merkle_mismatch, First
<1>2. /\ s.height = c.height
      /\ s.height = Height(s.block)
      /\ s.header = s.block
      /\ QuorumTip(s) \in Nat
      /\ QuorumTip(s) >= s.height
      /\ [height |-> c.height, root |-> s.block] \notin c.candidates
  <2>1. Canonical(s) /\ HeaderMatches(s) /\ ~Commits(s)
    BY <1>1, Zenon DEF merkle_mismatch
  <2>2. s.height = call.height /\ QuorumTip(s) >= call.height
    BY <2>1, Zenon DEF Canonical
  <2>3. s.header = s.block
    BY <2>1, Zenon DEF HeaderMatches
  <2>4. QuorumTip(s) \in Nat
    BY <1>1, QuorumTipIs
  <2>5. s.height = c.height /\ c.height # 0 /\ QuorumTip(s) >= s.height
    BY <1>1, <2>2
  <2>6. s.height = Height(s.block)
    BY <1>1, <2>5
  <2> QED  BY <2>1, <2>3, <2>4, <2>5, <2>6, <1>1 DEF Commits
<1>3. /\ NextHeight(c)
      /\ c.candidates = call.candidates
      /\ \A x \in c.candidates : x.height >= 1
      /\ c.todo \subseteq Heights(c)
      /\ \A x \in c.pending : PendingInv(c, x)
  BY <1>1 DEF merkle_mismatch, QuorumInv
<1>4. ASSUME liars = {}
      PROVE  \E p \in Provider : \E x \in call.candidates, t \in held[p] :
                Height(t) >= x.height /\ BlockAt(t, x.height) # x.root
  <2>1. PICK p \in Provider : Honest(c, p)
    BY <1>1, <1>4, SomeProvider DEF QuorumInv
  <2>2. PICK t \in held[p] : /\ Height(t) >= c.height
                             /\ BlockAt(t, c.height) = s.block
    BY <1>1, <2>1 DEF Honest
  <2>3. PICK x \in c.candidates : x.height = c.height
    BY <1>1 DEF QuorumInv, Heights
  <2>4. x \in Candidate
    BY <1>1, <2>3, CallFields
  <2>5. x = [height |-> x.height, root |-> x.root]
    BY <2>4 DEF Candidate
  <2>6. x.root # s.block
    BY <1>2, <2>3, <2>5
  <2> QED  BY <1>1, <2>2, <2>3, <2>6
<1> QED  BY <1>1, <1>3, <1>4, NextHeights

\* One more snapshot is pending.
LEMMA NotDeepEnough ==
    ASSUME EsploraInv, not_deep_enough
    PROVE  EsploraInv'
<1>1. PICK c, s :
         /\ c = call
         /\ c # None
         /\ c \in Call
         /\ QuorumInv(c)
         /\ ViewsInv
         /\ Tree(blocks)
         /\ c.height \in Nat
         /\ c.height >= 1
         /\ c.step = "evidence"
         /\ s = Observed
         /\ s \in Snapshot
         /\ s.block \in 1..Len(blocks)
         /\ s.block # None
         /\ s.height \in {Height(s.block), 0}
         /\ \A p \in Provider : /\ c.hash[p] = s.block
                                /\ c.tip[p] = s.tips[p]
                                /\ c.status[p] # None
                                /\ c.tip[p] # None
                                /\ c.status[p].header = s.header
                                /\ c.status[p].height = s.height
                                /\ c.status[p].canonical = s.canonical
  BY ObservedIs DEF not_deep_enough, First
<1>2. /\ s.height = c.height
      /\ s.height = Height(s.block)
      /\ s.header = s.block
      /\ QuorumTip(s) \in Nat
      /\ QuorumTip(s) >= s.height
      /\ Confirmations(s.height, s) < MinimumConfirmations
  <2>1. Canonical(s) /\ HeaderMatches(s) /\ Confirmations(call.height, s) < MinimumConfirmations
    BY <1>1, Zenon DEF not_deep_enough
  <2>2. s.height = call.height /\ QuorumTip(s) >= call.height
    BY <2>1, Zenon DEF Canonical
  <2>3. s.header = s.block
    BY <2>1, Zenon DEF HeaderMatches
  <2>4. QuorumTip(s) \in Nat
    BY <1>1, QuorumTipIs
  <2>5. s.height = c.height /\ c.height # 0 /\ QuorumTip(s) >= s.height
    BY <1>1, <2>2
  <2>6. s.height = Height(s.block)
    BY <1>1, <2>5
  <2> QED  BY <2>1, <2>3, <2>4, <2>5, <2>6, <1>1
<1>3. PICK P : P = c.pending \cup {s}
  OBVIOUS
<1>4. P \in SUBSET Snapshot /\ P # {}
  BY <1>1, <1>3, CallFields
<1>5. PICK d : d = [c EXCEPT !.pending = P]
  OBVIOUS
<1>6. /\ d \in Call
      /\ d.pending = P
      /\ d.candidates = c.candidates
      /\ d.todo = c.todo
      /\ d.height = c.height
  <2>1. c \in Call
    BY <1>1
  <2> QED  BY <1>4, <1>5, <2>1, PendingSet
<1>7. NextHeight(d)
  BY <1>1, <1>3, <1>5, Zenon DEF not_deep_enough
<1>8. PendingInv(d, s)
  BY <1>1, <1>2, <1>6 DEF PendingInv, QuorumInv, Heights
<1>9. /\ \A x \in d.candidates : x.height >= 1
      /\ d.todo \subseteq Heights(d)
      /\ \A x \in c.pending : PendingInv(d, x)
  BY <1>1, <1>6 DEF QuorumInv, PendingInv, Heights
<1>10. \A x \in d.pending : PendingInv(d, x)
  BY <1>3, <1>6, <1>8, <1>9
<1> QED  BY <1>1, <1>4, <1>6, <1>7, <1>9, <1>10, NextHeights

\* A deep snapshot is asked for again.
LEMMA AsksAgain ==
    ASSUME EsploraInv, deep_enough
    PROVE  EsploraInv'
<1>1. PICK c, s :
         /\ c = call
         /\ c # None
         /\ c \in Call
         /\ QuorumInv(c)
         /\ ViewsInv
         /\ Tree(blocks)
         /\ c.height \in Nat
         /\ c.height >= 1
         /\ c.step = "evidence"
         /\ s = Observed
         /\ s \in Snapshot
         /\ s.block \in 1..Len(blocks)
         /\ s.block # None
         /\ s.height \in {Height(s.block), 0}
         /\ \A p \in Provider : /\ c.hash[p] = s.block
                                /\ c.tip[p] = s.tips[p]
                                /\ c.status[p] # None
                                /\ c.tip[p] # None
                                /\ c.status[p].header = s.header
                                /\ c.status[p].height = s.height
                                /\ c.status[p].canonical = s.canonical
  BY ObservedIs DEF deep_enough, First
<1>2. /\ s.height = c.height
      /\ s.height = Height(s.block)
      /\ s.header = s.block
      /\ QuorumTip(s) \in Nat
      /\ QuorumTip(s) >= s.height
      /\ [height |-> c.height, root |-> s.block] \in c.candidates
      /\ Confirmations(s.height, s) >= MinimumConfirmations
  <2>1. Canonical(s) /\ HeaderMatches(s) /\ Commits(s)
        /\ Confirmations(call.height, s) >= MinimumConfirmations
    BY <1>1, Zenon DEF deep_enough
  <2>2. s.height = call.height /\ QuorumTip(s) >= call.height
    BY <2>1, Zenon DEF Canonical
  <2>3. s.header = s.block
    BY <2>1, Zenon DEF HeaderMatches
  <2>4. QuorumTip(s) \in Nat
    BY <1>1, QuorumTipIs
  <2>5. s.height = c.height /\ c.height # 0 /\ QuorumTip(s) >= s.height
    BY <1>1, <2>2
  <2>6. s.height = Height(s.block)
    BY <1>1, <2>5
  <2> QED  BY <2>1, <2>3, <2>4, <2>5, <2>6, <1>1 DEF Commits
<1>3. PICK d : d = Asks(c, c.height, s)
  OBVIOUS
<1>4. /\ d \in Call
      /\ d.step = "hashes"
      /\ d.height = c.height
      /\ d.expected = s
      /\ d.candidates = c.candidates
      /\ d.todo = c.todo
      /\ d.pending = c.pending
      /\ \A p \in Provider : d.hash[p] = None /\ d.status[p] = None
                             /\ d.tip[p] = None
  BY <1>1, <1>3, AsksIs
<1>5. Goes(d)
  BY <1>1, <1>3, Zenon DEF deep_enough, DeepEnough
<1>6. \A p \in Provider \ liars : Again(d, s, p)
  <2>1. SUFFICES ASSUME NEW p \in Provider \ liars
                 PROVE  Again(d, s, p)
    OBVIOUS
  <2>2. Seen(p, s.block, s.tips[p])
    BY <1>1 DEF QuorumInv, Honest
  <2>3. d.hash[p] # s.block
    BY <1>1, <1>4
  <2> QED  BY <2>2, <2>3 DEF Again
<1>7. DeepInv(d, s)
  BY <1>1, <1>2, <1>4, <1>6 DEF DeepInv
<1>8. s \notin d.pending
  <2>1. \A x \in c.pending : Confirmations(x.height, x) < MinimumConfirmations
    BY <1>1 DEF QuorumInv, PendingInv
  <2>2. Confirmations(s.height, s) \in Nat /\ MinimumConfirmations \in Nat
    BY <1>1, <1>2, ConstantsAssumption DEF Confirmations
  <2> QED  BY <1>2, <1>4, <2>1, <2>2
<1>9. /\ \A x \in d.candidates : x.height >= 1
      /\ d.height \in Heights(d)
      /\ d.todo \subseteq Heights(d)
      /\ \A x \in d.pending : PendingInv(d, x)
  BY <1>1, <1>4 DEF QuorumInv, PendingInv, Heights
<1>10. QuorumInv(d)
  BY <1>1, <1>4, <1>7, <1>8, <1>9, FreshCall
<1> QED  BY <1>1, <1>5, <1>10, CallGoes

\* The same snapshot again.
LEMMA Stables ==
    ASSUME EsploraInv, stable
    PROVE  EsploraInv'
<1>1. PICK c, s :
         /\ c = call
         /\ c # None
         /\ c \in Call
         /\ QuorumInv(c)
         /\ ViewsInv
         /\ Tree(blocks)
         /\ c.height \in Nat
         /\ c.height >= 1
         /\ c.step = "evidence"
         /\ s = Observed
         /\ s \in Snapshot
         /\ s.block \in 1..Len(blocks)
         /\ s.block # None
         /\ s.height \in {Height(s.block), 0}
         /\ \A p \in Provider : /\ c.hash[p] = s.block
                                /\ c.tip[p] = s.tips[p]
                                /\ c.status[p] # None
                                /\ c.tip[p] # None
                                /\ c.status[p].header = s.header
                                /\ c.status[p].height = s.height
                                /\ c.status[p].canonical = s.canonical
  BY ObservedIs DEF stable
<1>2. /\ s = c.expected
      /\ s # None
      /\ c.pending \in SUBSET Snapshot
      /\ c.todo \in SUBSET Nat
      /\ c.candidates \in SUBSET Candidate
      /\ s.height \in Nat
      /\ \A x \in c.pending : PendingInv(c, x) /\ x.height \in Nat
      /\ \A x \in c.candidates : x.height >= 1
      /\ c.todo \subseteq Heights(c)
  <2>1. s = c.expected
    BY <1>1 DEF stable
  <2>2. s # None
    BY <1>1, ConstantsAssumption
  <2>3. /\ c.pending \in SUBSET Snapshot
        /\ c.todo \in SUBSET Nat
        /\ c.candidates \in SUBSET Candidate
    BY <1>1, CallFields
  <2>4. \A x \in c.pending : x.height \in Nat
    BY <2>3, QuorumTipIs
  <2>5. s.height \in Nat
    BY <1>1, QuorumTipIs
  <2> QED  BY <1>1, <2>1, <2>2, <2>3, <2>4, <2>5 DEF QuorumInv
<1>3. CASE s \notin c.pending
  <2>1. DeepInv(c, s)
    BY <1>1, <1>2, <1>3 DEF QuorumInv
  <2>2. Ends("verified", s.height, s.block, Confirmations(s.height, s))
    BY <1>1, <1>2, <1>3, Zenon DEF stable, Verify
  <2>3. PICK n : n = Confirmations(s.height, s)
    OBVIOUS
  <2>4. QuorumTip(s) \in Nat /\ \A p \in Provider : QuorumTip(s) <= s.tips[p]
                                                  /\ s.tips[p] \in Nat
    BY <1>1, QuorumTipIs
  <2>5. /\ n >= MinimumConfirmations
        /\ n = QuorumTip(s) - s.height + 1
        /\ s.height \in Nat
        /\ MinimumConfirmations \in Nat
        /\ MinimumConfirmations >= 1
    BY <1>2, <2>1, <2>3, ConstantsAssumption DEF DeepInv, Confirmations
  <2>6. n \in Nat /\ s.height + n - 1 = QuorumTip(s)
    BY <2>4, <2>5
  <2>7. ASSUME MaxReorgs <= 2, NEW p \in Provider \ liars
        PROVE  Witnessed(p, s.block, s.height + n - 1)
    <3>1. Again(c, s, p)
      BY <2>1, <2>7 DEF DeepInv
    <3>2. Witnessed(p, s.block, s.tips[p])
      BY <1>1, <3>1 DEF Again
    <3>3. PICK t \in held[p] : Holds(t, s.block) /\ Height(t) >= s.tips[p]
      BY <3>2 DEF Witnessed
    <3>4. Height(t) \in Nat
      <4>1. t \in 1..Len(blocks)
        BY <1>1, <3>3 DEF ViewsInv
      <4> QED  BY <1>1, <4>1, Chains
    <3>5. Height(t) >= s.height + n - 1
      BY <2>4, <2>6, <3>3, <3>4
    <3> QED  BY <3>3, <3>5 DEF Witnessed
  <2>8. /\ s.block \in 1..Len(blocks)
        /\ s.block \in Block \cup {None}
        /\ Height(s.block) = s.height
        /\ [height |-> s.height, root |-> s.block] \in call.candidates
    BY <1>1, <2>1, Blocks DEF DeepInv
  <2>9. Ends("verified", s.height, s.block, n)
    BY <2>2, <2>3
  <2> QED  BY <1>1, <1>2, <2>5, <2>6, <2>7, <2>8, <2>9, CallEnds
<1>4. CASE s \in c.pending
  <2>1. PICK T : T = c.todo \ {c.height}
    OBVIOUS
  <2>2. T \in SUBSET Nat /\ T \subseteq {x.height : x \in c.pending}
    BY <1>1, <1>2, <1>4, <2>1 DEF QuorumInv
  <2>3. CASE T = {}
    <3>1. PICK D : D = {Confirmations(x.height, x) : x \in c.pending}
      OBVIOUS
    <3>2. \A x \in c.pending :
             Confirmations(x.height, x) \in 0..MinimumConfirmations
      <4>1. SUFFICES ASSUME NEW x \in c.pending
                     PROVE  Confirmations(x.height, x)
                               \in 0..MinimumConfirmations
        OBVIOUS
      <4>2. /\ QuorumTip(x) \in Nat
            /\ x.height \in Nat
            /\ MinimumConfirmations \in Nat
        BY <1>2, QuorumTipIs, ConstantsAssumption
      <4> QED  BY <1>2, <4>2 DEF PendingInv, Confirmations
    <3>3. D \in SUBSET (0..MinimumConfirmations) /\ D # {}
      BY <1>4, <3>1, <3>2
    <3>4. MinimumConfirmations \in Nat
      BY ConstantsAssumption
    <3>5. PICK n : n = Highest(D)
      OBVIOUS
    <3>6. n \in D
      BY <3>3, <3>4, <3>5, GreatestExists DEF Highest
    <3>7. n \in Nat
      BY <3>3, <3>4, <3>6
    <3>8. Ends("pending", 0, None, n)
      BY <1>1, <1>2, <1>4, <2>1, <2>3, <3>1, <3>5, Zenon DEF stable
    <3>9. None \in Block \cup {None} /\ 0 \in Nat
      OBVIOUS
    <3> QED  BY <1>1, <3>7, <3>8, <3>9, CallEnds
  <2>4. CASE T # {}
    <3>1. PICK h : h = Lowest(T)
      OBVIOUS
    <3>2. h \in T /\ h \in Nat
      BY <2>2, <2>4, <3>1, LowestIs
    <3>3. PICK x : x = CHOOSE y \in c.pending : y.height = h
      OBVIOUS
    <3>4. x \in c.pending /\ x.height = h
      BY <2>2, <3>2, <3>3
    <3>5. PICK d : d = [c EXCEPT !.todo = T]
      OBVIOUS
    <3>6. /\ d \in Call
          /\ d.todo = T
          /\ d.candidates = c.candidates
          /\ d.pending = c.pending
      <4>1. c \in Call
        BY <1>1
      <4> QED  BY <2>2, <3>5, <4>1, TodoSet
    <3>7. PICK e : e = Asks(d, h, x)
      OBVIOUS
    <3>8. x \in Snapshot
      BY <1>2, <3>4
    <3>9. /\ e \in Call
          /\ e.step = "hashes"
          /\ e.height = h
          /\ e.expected = x
          /\ e.candidates = c.candidates
          /\ e.todo = T
          /\ e.pending = c.pending
          /\ \A p \in Provider : e.hash[p] = None /\ e.status[p] = None
                                 /\ e.tip[p] = None
      <4>1. ViewsInv
        BY <1>1
      <4> QED  BY <3>2, <3>6, <3>7, <3>8, <4>1, AsksIs
    <3>10. Goes(e)
      BY <1>1, <1>2, <1>4, <2>1, <2>4, <3>1, <3>3, <3>5, <3>7, Zenon
         DEF stable
    <3>11. /\ e.height \in Heights(e)
           /\ e.todo \subseteq Heights(e)
           /\ \A y \in e.pending : PendingInv(e, y)
           /\ \A y \in e.candidates : y.height >= 1
      BY <1>2, <2>1, <3>2, <3>9 DEF Heights, PendingInv
    <3>12. QuorumInv(e)
      BY <1>1, <2>2, <3>4, <3>9, <3>11, FreshCall
    <3> QED  BY <1>1, <3>10, <3>12, CallGoes
  <2> QED  BY <2>3, <2>4
<1> QED  BY <1>3, <1>4

\* Every step of the Esplora verifier keeps the invariant.
LEMMA EsploraStep ==
    ASSUME EsploraInv, [Next]_vars
    PROVE  EsploraInv'
<1>1. CASE UNCHANGED vars
  <2>1. UNCHANGED <<blocks, liars, best, reorgs, held, call, result>>
    BY <1>1 DEF vars
  <2>2. ViewsInv' /\ VerdictInv'
    BY <2>1, ViewsStay, VerdictStays DEF EsploraInv
  <2>3. PICK c : c = call
    OBVIOUS
  <2>4. QuorumInv(c) => QuorumInv(c)'
    BY <2>1, QuorumStays
  <2> QED  BY <2>1, <2>2, <2>3, <2>4 DEF EsploraInv
<1>2. CASE Chain
  BY <1>2, Mines, Follows DEF Chain
<1>3. CASE Begin
  BY <1>3, Begins DEF Begin
<1>4. CASE \E p \in Provider : Ask(p)
  BY <1>4, HashAnswers, StatusAnswers, TipAnswers DEF Ask
<1>5. CASE Decide
  BY <1>5, Unavailable, HashesMet, WrongNetwork, StatusesConflict, TipsApart,
     NotCanonical, MerkleMismatch, NotDeepEnough, AsksAgain, Races, Stables
     DEF Decide
<1> QED  BY <1>1, <1>2, <1>3, <1>4, <1>5 DEF Next

\* Both providers begin at the genesis block.
LEMMA EsploraInit == Init => EsploraInv
<1> SUFFICES ASSUME Init PROVE EsploraInv
  OBVIOUS
<1>1. /\ blocks = <<<<1>>>>
      /\ liars \subseteq Provider
      /\ best = [p \in Provider |-> 1]
      /\ reorgs = [p \in Provider |-> 0]
      /\ held = [p \in Provider |-> {}]
      /\ call = None
      /\ result = None
  BY DEF Init, GenesisOnly
<1>2. Tree(blocks) /\ Len(blocks) = 1
  BY <1>1, TreeGenesis
<1>3. ViewsInv
  BY <1>1, <1>2, ConstantsAssumption DEF ViewsInv
<1>4. VerdictInv
  BY <1>1 DEF VerdictInv, VerifiedWasTrue, VerifiedIsAttested,
              CondemnedByTheChain
<1> QED  BY <1>1, <1>3, <1>4 DEF EsploraInv

\* What the invariant says of the Esplora verifier.
LEMMA EsploraInvGives ==
    ASSUME EsploraInv
    PROVE  /\ TypeOK
           /\ VerifiedIsAttested
           /\ CondemnedByTheChain
           /\ MaxReorgs <= 2 => VerifiedWasTrue
<1>1. blocks \in Seq(Seq(Block))
  BY DEF EsploraInv, ViewsInv, Tree
<1>2. call \in Call \cup {None}
  BY DEF EsploraInv, QuorumInv
<1> QED  BY <1>1, <1>2 DEF EsploraInv, ViewsInv, VerdictInv, TypeOK

\* For any blocks, liars, reorganizations and proofs: every local and answer of
\* the call has its type; a verified block is one the proof commits to, at its
\* own height and deep enough; and with honest providers a proof is condemned
\* only when one of them had another block at an attested height during the call
\* or was reorganized (verify_exact_digest, _quorum_snapshot).
THEOREM EsploraJudgesByTheChain ==
    Spec => [](TypeOK /\ VerifiedIsAttested /\ CondemnedByTheChain)
<1>1. Init => EsploraInv
  BY EsploraInit
<1>2. EsploraInv /\ [Next]_vars => EsploraInv'
  BY EsploraStep
<1>3. EsploraInv => TypeOK /\ VerifiedIsAttested /\ CondemnedByTheChain
  BY EsploraInvGives
<1> QED  BY <1>1, <1>2, <1>3, PTL DEF Spec

\* Providers that are reorganized at most twice, whatever a liar answers: a
\* verified block is one that every honest provider had, at the depth that is
\* reported, at some moment of the call.  It is the second snapshot that shows
\* it (_require_stable_snapshot).
THEOREM EsploraVerifiedWasTrue ==
    ASSUME MaxReorgs <= 2
    PROVE  Spec => []VerifiedWasTrue
<1>1. Init => EsploraInv
  BY EsploraInit
<1>2. EsploraInv /\ [Next]_vars => EsploraInv'
  BY EsploraStep
<1>3. EsploraInv => VerifiedWasTrue
  BY EsploraInvGives
<1> QED  BY <1>1, <1>2, <1>3, PTL DEF Spec

-----------------------------------------------------------------------------
(* Both verifiers in a process.                                            *)

\* A step of the process is one of the Esplora verifier or leaves it alone.
LEMMA EsploraOfProcess ==
    [MCNext]_<<vars, node_vars, transport_vars, scenario>> => [Next]_vars
<1> SUFFICES ASSUME [MCNext]_<<vars, node_vars, transport_vars, scenario>>
             PROVE  [Next]_vars
  OBVIOUS
<1>1. Next \/ UNCHANGED vars
  BY DEF MCNext
<1> QED  BY <1>1

\* Of every behaviour of the verifiers' process whose providers are reorganized
\* at most twice: what either verifier verifies is true, and a proof is condemned
\* by the chain, by a liar, or by a node that is not sound (both
\* verify_exact_digest).
THEOREM BitcoinVerdictsAreTrue ==
    ASSUME MaxReorgs <= 2
    PROVE  MCSpec => []VerdictsAreTrue
<1>1. MCInit => EsploraInv /\ NodeInv
  BY EsploraInit, NodeInit DEF MCInit
<1>2. EsploraInv /\ [MCNext]_<<vars, node_vars, transport_vars, scenario>>
         => EsploraInv'
  BY EsploraOfProcess, EsploraStep
<1>3. NodeInv /\ [MCNext]_<<vars, node_vars, transport_vars, scenario>>
         => NodeInv'
  BY NodeOfProcess, NodeStep
<1>4. EsploraInv /\ NodeInv => VerdictsAreTrue
  BY EsploraInvGives, NodeInvGives DEF VerdictsAreTrue
<1> QED  BY <1>1, <1>2, <1>3, <1>4, PTL DEF MCSpec
=============================================================================

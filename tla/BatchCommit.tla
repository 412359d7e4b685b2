---------------------------- MODULE BatchCommit ----------------------------
(***************************************************************************)
(* batch_vector_commit (vector_com.c): the signer expands one GGM tree from *)
(* a seed, a chunk of nodes per call of the tree PRG, hashes the leaves a    *)
(* chunk at a time into prg_output, and scatters them into leaves[] and      *)
(* hashed_leaves[].                                                          *)
(*                                                                         *)
(* A block is named by what it was derived from.  The seed of the signer is  *)
(* 0 and the two outputs of the tree PRG on block v are Child(v, 0) and      *)
(* Child(v, 1), so a correctly built tree holds x at node x.  The leaf PRG   *)
(* on block v gives a leaf key and a commitment, both named v.               *)
(***************************************************************************)
EXTENDS BatchLayout

CONSTANTS
  TREE_CHUNK_SIZE,    \* nodes expanded per call of the tree PRG
  LEAF_CHUNK_SIZE     \* nodes expanded per call of the leaf PRG

(* static_assert(TREE_CHUNK_SIZE <= 32), TREE_CHUNK_SIZE a power of two, and *)
(* static_assert(VOLE_MIN_K >= TREE_CHUNK_SIZE_SHIFT): a chunk divides the   *)
(* length of every vector.  The code asserts nothing of LEAF_CHUNK_SIZE and  *)
(* BITS_PER_WITNESS, but every configuration satisfies the last two lines.   *)
ASSUME ChunkAssumption ==
  /\ TREE_CHUNK_SIZE \in {1, 2, 4, 8, 16, 32}
  /\ \E q \in 1 .. SHORT_LEN : SHORT_LEN = q * TREE_CHUNK_SIZE
  /\ LEAF_CHUNK_SIZE \in Nat \ {0}
  /\ \E q \in 1 .. SHORT_LEN : SHORT_LEN = q * LEAF_CHUNK_SIZE
  /\ BITS_PER_WITNESS >= 2

VARIABLES
  tree,                  \* the heap of seeds
  next_to_expand_from,   \* first node not yet expanded
  next_to_expand_to,     \* first node not yet written
  chunck_size,           \* the doubling chunk size of the first loop
  prg_output,            \* leaf PRG output of each leaf, in tree order
  leaf_i,                \* loop counter over the leaves
  leaves, hashed_leaves, \* the two outputs
  scatter,               \* <<vec_index, leaf_index>> of the output loop
  commit_pc

commitVars == <<tree, next_to_expand_from, next_to_expand_to, chunck_size,
                prg_output, leaf_i, leaves, hashed_leaves, scatter, commit_pc>>

Uninit == -1      \* memory nobody wrote
Zero   == -2      \* a block of zero bytes
Junk   == -3      \* any block that is not a block of the signer

Block == Nat \cup {Uninit, Zero, Junk}

(* The tree PRG: output b of block v.  What is derived from memory nobody    *)
(* wrote is as unpredictable as that memory.                                 *)
Prg(v, b) == IF v >= 0 THEN Child(v, b)
             ELSE IF v = Uninit THEN Uninit ELSE Junk

(* The leaf PRG: the key and commitment derived from block v.                *)
LeafPrg(v) == IF v = Zero THEN Junk ELSE v

ReadNode(t, x) == IF x \in Node THEN t[x] ELSE Uninit

(* expand_chunk with stretch 2: the n adjacent blocks at from become 2n      *)
(* adjacent blocks at to.                                                    *)
ExpandChunk(t, from, to, n) ==
  [x \in Node |-> IF to <= x /\ x < to + 2 * n
                  THEN Prg(ReadNode(t, from + (x - to) \div 2), (x - to) % 2)
                  ELSE t[x]]

(* expand_chunk with stretch 3 on the leaves: n blocks at heap node          *)
(* LEAVES - 1 + i fill entries i .. i+n-1 of prg_output.                     *)
ExpandLeaves(out, t, i, n) ==
  [k \in Slot |-> IF i <= k /\ k < i + n
                  THEN LeafPrg(ReadNode(t, LEAVES - 1 + k))
                  ELSE out[k]]

---------------------------------------------------------------------------
CommitInit ==
  /\ tree = [x \in Node |-> IF x = 0 THEN 0 ELSE Uninit]
  /\ next_to_expand_from = 0
  /\ next_to_expand_to = 1
  /\ chunck_size = 1
  /\ prg_output = [k \in Slot |-> Uninit]
  /\ leaf_i = 0
  /\ leaves = [k \in Slot |-> Uninit]
  /\ hashed_leaves = [k \in Slot |-> Uninit]
  /\ scatter = <<0, 0>>
  /\ commit_pc = "double"

Expand(n) ==
  /\ tree' = ExpandChunk(tree, next_to_expand_from, next_to_expand_to, n)
  /\ next_to_expand_from' = next_to_expand_from + n
  /\ next_to_expand_to' = next_to_expand_to + 2 * n

(* The first loop: the top of the tree, in chunks of 1, 2, 4, ... nodes.     *)
ExpandTop ==
  /\ commit_pc = "double"
  /\ chunck_size < TREE_CHUNK_SIZE
  /\ Expand(chunck_size)
  /\ chunck_size' = 2 * chunck_size
  /\ UNCHANGED <<prg_output, leaf_i, leaves, hashed_leaves, scatter, commit_pc>>

EndTop ==
  /\ commit_pc = "double"
  /\ chunck_size >= TREE_CHUNK_SIZE
  /\ commit_pc' = "tree"
  /\ UNCHANGED <<tree, next_to_expand_from, next_to_expand_to, chunck_size,
                 prg_output, leaf_i, leaves, hashed_leaves, scatter>>

(* The loop bounded by the first leaf instead of the end of the heap.        *)
RestExpanded_ToLeaves == next_to_expand_to >= LEAVES - TREE_CHUNK_SIZE

(* The end of the second loop.                                               *)
RestExpanded == next_to_expand_to >= NODES - TREE_CHUNK_SIZE

(* The second loop: the rest of the tree in full chunks.                     *)
ExpandRest ==
  /\ commit_pc = "tree"
  /\ ~RestExpanded
  /\ Expand(TREE_CHUNK_SIZE)
  /\ UNCHANGED <<chunck_size, prg_output, leaf_i, leaves, hashed_leaves,
                 scatter, commit_pc>>

(* What the second loop leaves over: to_do nodes, none when it is 0.  The    *)
(* code passes the number of nodes left to write as the number to expand.    *)
ToDo == IF NODES - next_to_expand_to > TREE_CHUNK_SIZE
        THEN TREE_CHUNK_SIZE
        ELSE NODES - next_to_expand_to

ExpandRemainder ==
  /\ commit_pc = "tree"
  /\ RestExpanded
  /\ IF ToDo # 0
     THEN Expand(ToDo)
     ELSE UNCHANGED <<tree, next_to_expand_from, next_to_expand_to>>
  /\ commit_pc' = "leaves"
  /\ UNCHANGED <<chunck_size, prg_output, leaf_i, leaves, hashed_leaves, scatter>>

(* The loop leaving the last chunk to the call after it.                     *)
AllHashed_LastChunkLeft == leaf_i >= LEAVES - LEAF_CHUNK_SIZE

(* The end of the loop over the leaves.                                      *)
AllHashed == leaf_i >= LEAVES

HashLeafChunk ==
  /\ commit_pc = "leaves"
  /\ ~AllHashed
  /\ prg_output' = ExpandLeaves(prg_output, tree, leaf_i, LEAF_CHUNK_SIZE)
  /\ leaf_i' = leaf_i + LEAF_CHUNK_SIZE
  /\ UNCHANGED <<tree, next_to_expand_from, next_to_expand_to, chunck_size,
                 leaves, hashed_leaves, scatter, commit_pc>>

(* The last chunk once more: it overlaps the chunks already hashed.          *)
HashLastChunk ==
  /\ commit_pc = "leaves"
  /\ AllHashed
  /\ prg_output' = ExpandLeaves(prg_output, tree, LEAVES - 1 - LEAF_CHUNK_SIZE,
                                LEAF_CHUNK_SIZE)
  /\ commit_pc' = "scatter"
  /\ UNCHANGED <<tree, next_to_expand_from, next_to_expand_to, chunck_size,
                 leaf_i, leaves, hashed_leaves, scatter>>

(* An output loop that runs one leaf too far.                                *)
NextLeaf_TooFar(vec, leaf) == IF leaf + 1 <= VecLen(vec) THEN <<vec, leaf + 1>>
                                                         ELSE <<vec + 1, 0>>

(* The successor of <<vec, leaf>> in the output loops over the vectors.      *)
NextLeaf(vec, leaf) == IF leaf + 1 < VecLen(vec) THEN <<vec, leaf + 1>>
                                                 ELSE <<vec + 1, 0>>

WriteOutput ==
  /\ commit_pc = "scatter"
  /\ scatter[1] < BITS_PER_WITNESS
  /\ LET vec  == scatter[1]
         leaf == scatter[2]
         out  == prg_output[PosInTree(vec, leaf) - LEAVES + 1]
     IN /\ leaves' = [leaves EXCEPT ![LeafPos(vec, leaf)] = out]
        /\ hashed_leaves' = [hashed_leaves EXCEPT ![HashPos(vec, leaf)] = out]
        /\ scatter' = NextLeaf(vec, leaf)
  /\ UNCHANGED <<tree, next_to_expand_from, next_to_expand_to, chunck_size,
                 prg_output, leaf_i, commit_pc>>

CommitReturn ==
  /\ commit_pc = "scatter"
  /\ scatter[1] = BITS_PER_WITNESS
  /\ commit_pc' = "done"
  /\ UNCHANGED <<tree, next_to_expand_from, next_to_expand_to, chunck_size,
                 prg_output, leaf_i, leaves, hashed_leaves, scatter>>

CommitNext ==
  \/ ExpandTop \/ EndTop \/ ExpandRest \/ ExpandRemainder
  \/ HashLeafChunk \/ HashLastChunk
  \/ WriteOutput \/ CommitReturn

CommitSpec == CommitInit /\ [][CommitNext]_commitVars

---------------------------------------------------------------------------
(* The heap and the arrays of batch_vector_commit stay in their types and    *)
(* its counters in their ranges: the next node to expand is an internal one  *)
(* or the first leaf, the next to write is in the heap or just past it, no   *)
(* chunk is larger than TREE_CHUNK_SIZE, the loop over the leaves ends       *)
(* exactly at LEAVES, and the output loop stays on a leaf, or just past the  *)
(* last one.                                                                 *)
CommitTypeOK ==
  /\ tree \in [Node -> Block]
  /\ next_to_expand_from \in 0 .. LEAVES - 1
  /\ next_to_expand_to \in 1 .. NODES
  /\ chunck_size \in 1 .. TREE_CHUNK_SIZE
  /\ prg_output \in [Slot -> Block]
  /\ leaf_i \in 0 .. LEAVES
  /\ leaves \in [Slot -> Block]
  /\ hashed_leaves \in [Slot -> Block]
  /\ \/ \E vec \in Vec : \E leaf \in Leaf(vec) : scatter = <<vec, leaf>>
     \/ scatter = <<BITS_PER_WITNESS, 0>>
  /\ commit_pc \in {"double", "tree", "leaves", "scatter", "done"}

(* batch_vector_commit writes every node of the heap inside the buffer, and  *)
(* node x holds the seed derived along its path from the root; when the last *)
(* chunk loop ends there is nothing left to do (lines 581-604).              *)
TreeCorrect ==
  /\ next_to_expand_to <= NODES
  /\ \A x \in Node : tree[x] = IF x < next_to_expand_to THEN x ELSE Uninit
  /\ commit_pc \in {"leaves", "scatter", "done"} => next_to_expand_to = NODES

(* When batch_vector_commit returns, every entry of leaves and hashed_leaves *)
(* is that of exactly the vector and leaf the macros say (lines 607-624).    *)
OutputsCorrect ==
  commit_pc = "done" =>
    /\ \A vec \in Vec : \A leaf \in Leaf(vec) :
         /\ leaves[LeafPos(vec, leaf)] = PosInTree(vec, leaf)
         /\ hashed_leaves[HashPos(vec, leaf)] = PosInTree(vec, leaf)
    /\ \A s \in Slot : leaves[s] # Uninit /\ hashed_leaves[s] # Uninit

(* No block of the commitment changes once it is written: chunks overlap     *)
(* only where they agree, and no two leaves share an output entry.           *)
WrittenOnce ==
  [][ /\ \A x \in Node : tree[x] # Uninit => tree'[x] = tree[x]
      /\ \A s \in Slot :
           /\ prg_output[s] # Uninit => prg_output'[s] = prg_output[s]
           /\ leaves[s] # Uninit => leaves'[s] = leaves[s]
           /\ hashed_leaves[s] # Uninit => hashed_leaves'[s] = hashed_leaves[s]
    ]_commitVars
============================================================================

----------------------------- MODULE TreeLayout -----------------------------
(***************************************************************************)
(* The vector commitment with one GGM tree a vector (vector_com.c, for the   *)
(* variants without the improved commitment).  The trees are interleaved:    *)
(* level by level, and inside a level tree after tree, so that node x has    *)
(* its children at 2x+T and 2x+T+1 when T trees share the memory.  The first *)
(* VOLES_MAX_K trees are one level taller than the others.                   *)
(*                                                                         *)
(* A block is named by the node of the signer's forest whose seed it is; the *)
(* leaf PRG on it gives a key and a commitment that go by the same name.     *)
(***************************************************************************)
EXTENDS PowersOfTwo

CONSTANTS
  BITS_PER_WITNESS,          \* number of vectors
  VOLES_MAX_K,               \* how many of them are long
  VOLE_MIN_K,                \* index bits of a short vector
  TREE_CHUNK_SIZE_SHIFT,     \* log2 of the nodes expanded at once
  LEAF_CHUNK_SIZE_SHIFT,     \* log2 of the leaves hashed at once
  PermuteInv(_),             \* vole_permute_key_index_inv
  PermuteIncrement(_),       \* vole_permute_inv_increment(_, 1)
  XorIndex(_, _)             \* bitwise exclusive or of two leaf indices

TREE_CHUNK_SIZE == Pow2[TREE_CHUNK_SIZE_SHIFT]
LEAF_CHUNK_SIZE == Pow2[LEAF_CHUNK_SIZE_SHIFT]
MAX_CHUNK_SIZE  == IF LEAF_CHUNK_SIZE > TREE_CHUNK_SIZE THEN LEAF_CHUNK_SIZE
                                                        ELSE TREE_CHUNK_SIZE

(* The shift is at most 5 and VOLE_MIN_K at least the shift by static_assert. *)
(* None demands the last two lines, which every parameter set satisfies:     *)
(* a short vector has a whole chunk of leaves, and there is a chunk of trees. *)
ASSUME TreeAssumption ==
  /\ BITS_PER_WITNESS \in Nat \ {0}
  /\ VOLES_MAX_K \in 0 .. BITS_PER_WITNESS - 1
  /\ VOLE_MIN_K \in Nat \ {0}
  /\ TREE_CHUNK_SIZE_SHIFT \in 0 .. 5
  /\ LEAF_CHUNK_SIZE_SHIFT \in Nat
  /\ VOLE_MIN_K >= TREE_CHUNK_SIZE_SHIFT
  /\ VOLE_MIN_K >= LEAF_CHUNK_SIZE_SHIFT
  /\ BITS_PER_WITNESS >= TREE_CHUNK_SIZE

VOLE_MAX_K  == IF VOLES_MAX_K = 0 THEN VOLE_MIN_K ELSE VOLE_MIN_K + 1
VOLES_MIN_K == BITS_PER_WITNESS - VOLES_MAX_K

Vec        == 0 .. BITS_PER_WITNESS - 1
Depth(vec) == IF vec < VOLES_MAX_K THEN VOLE_MAX_K ELSE VOLE_MIN_K
Leaf(vec)  == 0 .. Pow2[Depth(vec)] - 1

NONZERO_BITS_IN_CHALLENGE_3 == VOLES_MAX_K * VOLE_MAX_K + VOLES_MIN_K * VOLE_MIN_K

(* The trees of the signer, and the subtrees of the verifier: one per bit of *)
(* the challenge, since an opening has a key for every level of every tree.  *)
TREES_IN_FOREST(verifier) ==
  IF verifier THEN NONZERO_BITS_IN_CHALLENGE_3 ELSE BITS_PER_WITNESS

FIRST_CHILD(x, verifier) == 2 * x + TREES_IN_FOREST(verifier)

FIRST_DESCENDENT_DEPTH(x, d, verifier) ==
  (x + TREES_IN_FOREST(verifier)) * Pow2[d] - TREES_IN_FOREST(verifier)

VECTOR_COMMIT_LEAVES == VOLES_MIN_K * Pow2[VOLE_MIN_K] + VOLES_MAX_K * Pow2[VOLE_MAX_K]

(* The memory of the signer's forest and of the verifier's subtrees.         *)
ForestSize(verifier) ==
  IF verifier THEN NONZERO_BITS_IN_CHALLENGE_3 * (Pow2[VOLE_MAX_K] - 1)
              ELSE 2 * VECTOR_COMMIT_LEAVES - BITS_PER_WITNESS

Slot == 0 .. VECTOR_COMMIT_LEAVES - 1

Uninit == -1      \* memory nobody wrote
Zero   == -2      \* a block of zero bytes
Junk   == -3      \* any block that is not a block of the signer
Block  == Nat \cup {Uninit, Zero, Junk}

(* The tree PRG: output b of block v.                                        *)
Prg(v, b) == IF v >= 0 THEN FIRST_CHILD(v, FALSE) + b
             ELSE IF v = Uninit THEN Uninit ELSE Junk

(* The leaf PRG: the key and the commitment derived from block v.            *)
LeafPrg(v) == IF v = Zero THEN Junk ELSE v

(* The exclusive or, bit by bit.                                             *)
ASSUME XorAssumption ==
  \A x, y \in 0 .. Pow2[VOLE_MAX_K] - 1 :
    /\ XorIndex(x, y) \in 0 .. Pow2[VOLE_MAX_K] - 1
    /\ \A b \in 0 .. VOLE_MAX_K - 1 : Bit(XorIndex(x, y), b) <=> (Bit(x, b) # Bit(y, b))

(* The permutation of the keys as small_vole.h has it: the inverse permutes   *)
(* the indices of each vector, and the increment takes it from one index to  *)
(* the next, whatever the indices are exclusive-ored with before.            *)
ASSUME PermutationAssumption ==
  /\ PermuteInv(0) = 0
  /\ \A vec \in Vec :
       /\ \A x \in Leaf(vec) : PermuteInv(x) \in Leaf(vec)
       /\ \A x, y \in Leaf(vec) : PermuteInv(x) = PermuteInv(y) => x = y
       /\ \A x, d \in Leaf(vec) :
            x + 1 \in Leaf(vec) =>
              XorIndex(PermuteInv(XorIndex(x, d)), PermuteIncrement(x))
                = PermuteInv(XorIndex(x + 1, d))

---------------------------------------------------------------------------
(* Where the leaves of a vector start in the outputs, and the node of a leaf. *)
FirstLeaf(vec) == IF vec < VOLES_MAX_K
                  THEN vec * Pow2[VOLE_MAX_K]
                  ELSE VOLES_MAX_K * Pow2[VOLE_MAX_K]
                         + (vec - VOLES_MAX_K) * Pow2[VOLE_MIN_K]

LeafNode(vec, leaf) == FIRST_DESCENDENT_DEPTH(vec, Depth(vec), FALSE) + leaf
=============================================================================

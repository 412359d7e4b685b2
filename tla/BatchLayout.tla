---------------------------- MODULE BatchLayout ----------------------------
(***************************************************************************)
(* The index arithmetic of the batched all-but-one vector commitment       *)
(* (vector_com.h, vole_params.h).  BITS_PER_WITNESS vectors share one GGM   *)
(* tree, stored as a binary heap: the children of node x are 2x+1 and 2x+2. *)
(* The first VOLES_MAX_K vectors are long (LONG_LEN leaves), the others are  *)
(* short (SHORT_LEN leaves).  The leaves of the vectors are interleaved in   *)
(* the last LEAVES nodes of the heap, so that two vectors opened at nearby   *)
(* indices share most of their path to the root.                             *)
(***************************************************************************)
EXTENDS Integers

CONSTANTS
  BITS_PER_WITNESS,   \* number of vectors, one per small VOLE (tau)
  VOLES_MAX_K,        \* number of long vectors
  SHORT_LEN,          \* 1 << VOLE_MIN_K
  PermuteInv(_),      \* vole_permute_key_index_inv
  XorIndex(_, _)           \* bitwise exclusive or of two leaf indices

Vec == 0 .. BITS_PER_WITNESS - 1

VOLES_MIN_K == BITS_PER_WITNESS - VOLES_MAX_K

(* VOLE_MAX_K is VOLE_MIN_K + 1, or VOLE_MIN_K when tau divides the number   *)
(* of challenge bits, and then no vector is long.                            *)
LONG_LEN == IF VOLES_MAX_K = 0 THEN SHORT_LEN ELSE 2 * SHORT_LEN

VecLen(vec) == IF vec < VOLES_MAX_K THEN LONG_LEN ELSE SHORT_LEN

Leaf(vec) == 0 .. VecLen(vec) - 1

LEAVES == VOLES_MIN_K * SHORT_LEN + VOLES_MAX_K * LONG_LEN
NODES  == 2 * LEAVES - 1

Node == 0 .. NODES - 1
Slot == 0 .. LEAVES - 1          \* the entries of leaves[] and hashed_leaves[]

(* BATCH_VEC_POS_IN_TREE: level by level while every vector has a leaf, then *)
(* the second half of the long vectors only.                                 *)
PosInTree(vec, leaf) ==
  LEAVES - 1 + (IF leaf < SHORT_LEN
                THEN BITS_PER_WITNESS * leaf + vec
                ELSE VOLES_MIN_K * SHORT_LEN + VOLES_MAX_K * leaf + vec)

(* The offset of the short vectors counted from vector 0.                    *)
HashPos_ShortOffset(vec, leaf) ==
  IF vec < VOLES_MAX_K THEN vec * LONG_LEN + leaf ELSE vec * SHORT_LEN + leaf

(* BATCH_VEC_HASH_POS_IN_OUTPUT: vector after vector, the long ones first.   *)
HashPos(vec, leaf) ==
  IF vec < VOLES_MAX_K
  THEN vec * LONG_LEN + leaf
  ELSE VOLES_MAX_K * SHORT_LEN + vec * SHORT_LEN + leaf

(* BATCH_VEC_LEAF_POS_IN_OUTPUT: the same, the leaf index permuted as        *)
(* small_vole.c consumes its keys.                                           *)
LeafPos(vec, leaf) == HashPos(vec, PermuteInv(leaf))

Parent(x)     == (x - 1) \div 2
Child(x, b)   == 2 * x + 1 + b

---------------------------------------------------------------------------
ASSUME LayoutAssumption ==
  /\ BITS_PER_WITNESS \in Nat \ {0}
  /\ VOLES_MAX_K \in 0 .. BITS_PER_WITNESS - 1
  /\ SHORT_LEN \in Nat \ {0}

(* vole_permute_key_index_inv permutes the indices of a vector, keeps 0 in   *)
(* place, and exclusive or by an index of the vector is an involution on it. *)
ASSUME PermutationAssumption ==
  \A vec \in Vec :
    /\ \A x \in Leaf(vec) : PermuteInv(x) \in Leaf(vec)
    /\ \A x, y \in Leaf(vec) : PermuteInv(x) = PermuteInv(y) => x = y
    /\ \A y \in Leaf(vec) : \E x \in Leaf(vec) : PermuteInv(x) = y
    /\ PermuteInv(0) = 0
    /\ \A x, d \in Leaf(vec) : /\ XorIndex(x, d) \in Leaf(vec)
                               /\ XorIndex(XorIndex(x, d), d) = x
                               /\ XorIndex(x, d) = 0 <=> x = d
============================================================================

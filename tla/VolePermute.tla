---------------------------- MODULE VolePermute ----------------------------
(***************************************************************************)
(* The inverse of the key permutation of small_vole.h, which turns chunk     *)
(* numbers into Gray's code and keeps the position inside a chunk of         *)
(* VOLE_WIDTH keys.                                                          *)
(***************************************************************************)
EXTENDS Integers, Bitwise

CONSTANTS
  VOLE_WIDTH_SHIFT,   \* log2 of the keys processed at once
  VOLE_MAX_K          \* index bits of the longest vector

ASSUME PermuteAssumption ==
  /\ VOLE_WIDTH_SHIFT \in Nat
  /\ VOLE_MAX_K \in Nat \ {0}

VOLE_WIDTH == 2 ^ VOLE_WIDTH_SHIFT

(* x & -VOLE_WIDTH *)
ChunkPart(x) == x - (x % VOLE_WIDTH)

(* The loop of vole_permute_key_index_inv: one round per shift 1, 2, 4, ...  *)
RECURSIVE UnGray(_, _)
UnGray(j, shift) ==
  IF shift < VOLE_MAX_K - VOLE_WIDTH_SHIFT
  THEN UnGray(j ^^ shiftR(j, shift), 2 * shift)
  ELSE j

vole_permute_key_index_inv(i) == ChunkPart(UnGray(i, 1)) + (i % VOLE_WIDTH)

(* The masks 0x55555555 and 0xAAAAAAAA, as far as indices go.                *)
EvenBits == 357913941
OddBits  == 715827882

(* By how much the inverse changes from i to i + offset, a power of two.     *)
vole_permute_inv_increment(i, offset) ==
  LET diff_in == i ^^ (i + offset)
      even    == diff_in & (EvenBits | (VOLE_WIDTH - 1))
      odd     == diff_in & (OddBits | (VOLE_WIDTH - 1))
  IN IF odd > even THEN odd ELSE even
============================================================================

------------------------------ MODULE MCTreeVC ------------------------------
(***************************************************************************)
(* Small instances of TreeVC, with the permutation of small_vole.h.          *)
(***************************************************************************)
EXTENDS TreeVC, Bitwise

CONSTANT VOLE_WIDTH_SHIFT

P == INSTANCE VolePermute

(* Tables, which TLC works out once.                                         *)
Index          == 0 .. 2 ^ (VOLE_MAX_K + 1) - 1
InvTable       == [i \in Index |-> P!vole_permute_key_index_inv(i)]
IncrementTable == [i \in Index |-> P!vole_permute_inv_increment(i, 1)]
XorTable       == [x, y \in Index |-> x ^^ y]

MCPermuteInv(i)       == InvTable[i]
MCPermuteIncrement(i) == IncrementTable[i]
MCXorIndex(x, y)      == XorTable[x, y]

LastLeaf(vec) == 2 ^ Depth(vec) - 1
AtEnds    == {index \in [Vec -> {0, 2 ^ VOLE_MIN_K - 1, 2 ^ VOLE_MAX_K - 1}] :
                \A vec \in Vec : index[vec] \in {0, LastLeaf(vec)}}
AllFirst  == [vec \in Vec |-> 0]
AllLast   == [vec \in Vec |-> LastLeaf(vec)]

(* Each vector at its first or last leaf, or one of them at any and the others *)
(* all at the first or all at the last.                                      *)
MCChallenges ==
  AtEnds \cup UNION {{[others EXCEPT ![vec] = leaf] : leaf \in Leaf(vec)} :
                      vec \in Vec, others \in {AllFirst, AllLast}}
MCTampered == {AllFirst, AllLast}
=============================================================================

----------------------------- MODULE TreeCommit -----------------------------
(***************************************************************************)
(* vector_commit and vector_open (vector_com.c): the signer expands one tree  *)
(* a vector from roots that all derive from one seed, then opens each vector *)
(* at all indices but the one delta selects, with the sibling of every node  *)
(* on the path to the hidden leaf.                                           *)
(***************************************************************************)
EXTENDS TreeLayout, Sequences

VARIABLES
  forest, leaves, hashed_leaves, frame,
  calls,             \* calls of expand_roots still to be made, the next first
  commit_i,          \* the next root, then the next tree, to expand
  base,              \* where leaves and hashed_leaves point
  commit_pc,
  delta,             \* the challenge opened: an index for each vector
  opening,
  open_vec, open_d,  \* the vector and the level opened
  node, leaf_idx,    \* the path to the hidden leaf
  open_base,         \* where hashed_leaves points
  open_pos,          \* where opening points
  open_pc

S == INSTANCE TreeExpand WITH verifier <- FALSE

expandVars == <<forest, leaves, hashed_leaves, frame>>
commitVars == <<expandVars, calls, commit_i, base, commit_pc>>
openVars   == <<delta, opening, open_vec, open_d, node, leaf_idx, open_base, open_pos,
                open_pc>>

Root == 0 .. BITS_PER_WITNESS - 1
Remaining == BITS_PER_WITNESS % TREE_CHUNK_SIZE

CommitInit ==
  /\ forest = [x \in S!Node |-> IF x \in Root THEN x ELSE Uninit]
  /\ leaves = [s \in Slot |-> Uninit]
  /\ hashed_leaves = [s \in Slot |-> Uninit]
  /\ frame = S!NoFrame
  /\ calls = <<>>
  /\ commit_i = 0
  /\ base = 0
  /\ commit_pc = "roots"

(* Expand each tree to a chunk of nodes: a whole chunk of roots at a time.   *)
CallRoots ==
  /\ commit_pc = "roots" /\ calls = <<>>
  /\ commit_i + TREE_CHUNK_SIZE <= BITS_PER_WITNESS
  /\ calls' = <<[n |-> 0, i |-> commit_i, size |-> TREE_CHUNK_SIZE]>>
  /\ commit_i' = commit_i + TREE_CHUNK_SIZE
  /\ UNCHANGED <<expandVars, base, commit_pc>>

(* Then the roots that are left over.                                        *)
CallRemaining ==
  /\ commit_pc = "roots" /\ calls = <<>>
  /\ commit_i + TREE_CHUNK_SIZE > BITS_PER_WITNESS
  /\ calls' = IF Remaining = 0 THEN <<>>
              ELSE <<[n |-> 0, i |-> BITS_PER_WITNESS - Remaining, size |-> Remaining]>>
  /\ commit_i' = 0
  /\ commit_pc' = "trees"
  /\ UNCHANGED <<expandVars, base>>

(* The second of the two calls made on the first half of the children.       *)
NextRoots_FirstTwice(c) ==
  LET child == FIRST_CHILD(c.i, FALSE)
  IN <<[c EXCEPT !.n = @ + 1, !.i = child], [c EXCEPT !.n = @ + 1, !.i = child]>>

(* The two calls of expand_roots_n+1 that expand_roots_n makes.              *)
NextRoots(c) ==
  LET child == FIRST_CHILD(c.i, FALSE)
  IN <<[c EXCEPT !.n = @ + 1, !.i = child],
       [c EXCEPT !.n = @ + 1, !.i = child + c.size]>>

ExpandRoots ==
  /\ calls # <<>>
  /\ LET c == Head(calls)
     IN IF c.n >= TREE_CHUNK_SIZE_SHIFT
        THEN /\ calls' = Tail(calls)
             /\ UNCHANGED forest
        ELSE /\ forest' = S!ExpandChunk(c.i, c.size)
             /\ calls' = NextRoots(c) \o Tail(calls)
  /\ UNCHANGED <<leaves, hashed_leaves, frame, commit_i, base, commit_pc>>

(* Expand the next tree, now that it has a chunk of nodes.                   *)
CallTree ==
  /\ commit_pc = "trees" /\ calls = <<>> /\ ~frame.busy
  /\ commit_i < BITS_PER_WITNESS
  /\ S!ExpandTree(Depth(commit_i) - TREE_CHUNK_SIZE_SHIFT,
                  FIRST_DESCENDENT_DEPTH(commit_i, TREE_CHUNK_SIZE_SHIFT, FALSE),
                  0, 0, base)
  /\ base' = base + Pow2[Depth(commit_i)]
  /\ commit_i' = commit_i + 1
  /\ UNCHANGED <<forest, leaves, hashed_leaves, calls, commit_pc>>

CommitExpands == S!ExpandStep /\ UNCHANGED <<calls, commit_i, base, commit_pc>>

CommitReturn ==
  /\ commit_pc = "trees" /\ calls = <<>> /\ ~frame.busy
  /\ commit_i = BITS_PER_WITNESS
  /\ commit_pc' = "done"
  /\ UNCHANGED <<expandVars, calls, commit_i, base>>

CommitStep ==
  \/ CallRoots \/ CallRemaining \/ ExpandRoots
  \/ CallTree \/ CommitExpands \/ CommitReturn

---------------------------------------------------------------------------
(* A challenge is the index hidden in each vector, and says whether the bits  *)
(* beyond those of the vectors are zero.                                     *)
IsIndex(index) == DOMAIN index = Vec /\ \A vec \in Vec : index[vec] \in Leaf(vec)

(* For each vector a seed a level, and the commitment, two blocks long: both *)
(* go by the name of the commitment.                                         *)
OpeningSlot == 0 .. NONZERO_BITS_IN_CHALLENGE_3 + 2 * BITS_PER_WITNESS - 1

OpeningStart(vec) == vec * (VOLE_MIN_K + 2) + (IF vec < VOLES_MAX_K THEN vec
                                                                    ELSE VOLES_MAX_K)

OpenInit ==
  /\ delta = [index |-> [vec \in Vec |-> 0], topZero |-> TRUE]
  /\ opening = [s \in OpeningSlot |-> Uninit]
  /\ open_vec = 0 /\ open_d = 1 /\ node = 0 /\ leaf_idx = 0
  /\ open_base = 0 /\ open_pos = 0
  /\ open_pc = "idle"

(* vector_open does not look at the bits beyond those of the vectors.        *)
OpenCall(d) ==
  /\ open_pc = "idle"
  /\ delta' = d
  /\ node' = FIRST_CHILD(0, FALSE)
  /\ open_pc' = "open"
  /\ UNCHANGED <<opening, open_vec, open_d, leaf_idx, open_base, open_pos>>

(* Bit depth-d of the index, the highest first.                              *)
Hole == (delta.index[open_vec] \div Pow2[Depth(open_vec) - open_d]) % 2

(* The seed on the path instead of its sibling.                              *)
Sibling_OnPath == node + Hole

Sibling == node + (1 - Hole)

OpenLevel ==
  /\ open_pc = "open"
  /\ open_vec < BITS_PER_WITNESS
  /\ open_d <= Depth(open_vec)
  /\ opening' = [opening EXCEPT ![open_pos] = forest[Sibling]]
  /\ open_pos' = open_pos + 1
  /\ node' = FIRST_CHILD(node + Hole, FALSE)
  /\ leaf_idx' = 2 * leaf_idx + Hole
  /\ open_d' = open_d + 1
  /\ UNCHANGED <<delta, open_vec, open_base, open_pc>>

OpenCommitment ==
  /\ open_pc = "open"
  /\ open_vec < BITS_PER_WITNESS
  /\ open_d > Depth(open_vec)
  /\ LET com == hashed_leaves[open_base + leaf_idx]
     IN opening' = [opening EXCEPT ![open_pos] = com, ![open_pos + 1] = com]
  /\ open_pos' = open_pos + 2
  /\ open_base' = open_base + Pow2[Depth(open_vec)]
  /\ open_vec' = open_vec + 1
  /\ open_d' = 1
  /\ leaf_idx' = 0
  /\ node' = FIRST_CHILD(open_vec + 1, FALSE)
  /\ UNCHANGED <<delta, open_pc>>

OpenReturn ==
  /\ open_pc = "open"
  /\ open_vec = BITS_PER_WITNESS
  /\ open_pc' = "opened"
  /\ UNCHANGED <<delta, opening, open_vec, open_d, node, leaf_idx, open_base, open_pos>>

OpenStep == OpenLevel \/ OpenCommitment \/ OpenReturn

---------------------------------------------------------------------------
(* Whatever the order in which the recursive expansion of the roots and the  *)
(* walk of expand_tree visit the chunks, no seed is derived from memory that *)
(* is not yet written: each node gets the seed of its own path, and at the   *)
(* end all of them have one (vector_com.c:208-228, 261-301, 303-332).         *)
ForestCorrect ==
  /\ \A x \in S!Node : forest[x] \in {x, Uninit}
  /\ commit_pc = "done" => \A x \in S!Node : forest[x] = x

(* leaves is permuted as the voles need it, though the permuted index is only *)
(* carried along from leaf to leaf, and hashed_leaves is in order             *)
(* (vector_com.h:40-42, vector_com.c:230-259).                               *)
OutputsCorrect ==
  commit_pc = "done" =>
    \A vec \in Vec : \A leaf \in Leaf(vec) :
      /\ leaves[FirstLeaf(vec) + PermuteInv(leaf)] = LeafNode(vec, leaf)
      /\ hashed_leaves[FirstLeaf(vec) + leaf] = LeafNode(vec, leaf)

(* No seed of the opening is one from which the hidden leaf of a vector       *)
(* derives, whatever path the challenge asks for (vector_com.c:361-386).      *)
HiddenStaysHidden ==
  open_pc # "idle" =>
    LET path(vec) == {FIRST_DESCENDENT_DEPTH(vec, d, FALSE)
                        + delta.index[vec] \div Pow2[Depth(vec) - d] : d \in 0 .. Depth(vec)}
        hidden == UNION {path(vec) : vec \in Vec}
    IN \A v \in Vec : \A d \in 0 .. Depth(v) - 1 : opening[OpeningStart(v) + d] \notin hidden
=============================================================================

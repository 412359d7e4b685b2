----------------------------- MODULE TreeVerify -----------------------------
(***************************************************************************)
(* vector_verify (vector_com.c): the verifier expands the subtrees whose     *)
(* roots are in the opening, first all of them together as far as a chunk of *)
(* nodes, then one after the other, and hashes the leaves near the hidden    *)
(* one, too few for a chunk, together at the end of each vector.             *)
(***************************************************************************)
EXTENDS TreeCommit

VARIABLES
  v_delta, v_opening,              \* the inputs
  v_forest, v_leaves, v_hashed, v_frame,
  v_calls,                         \* calls of expand_verifier_subtrees to be made
  v_i, v_d,                        \* the loop over the subtrees, by depth
  v_tree, v_j,                     \* the loop over the trees and their levels
  v_root,                          \* the root of the subtree at level v_j
  last_chunk,                      \* the leaves around the hidden one
  v_base, v_src,                   \* where the outputs and the opening point
  verify_pc

V == INSTANCE TreeExpand WITH
  verifier <- TRUE, forest <- v_forest, leaves <- v_leaves,
  hashed_leaves <- v_hashed, frame <- v_frame

v_expandVars == <<v_forest, v_leaves, v_hashed, v_frame>>
v_input      == <<v_delta, v_opening>>
v_treeVars   == <<v_tree, v_j, v_root, last_chunk, v_base, v_src>>
verifyVars   == <<v_input, v_expandVars, v_calls, v_i, v_d, v_treeVars, verify_pc>>

EmptyChunk == [o \in 0 .. MAX_CHUNK_SIZE - 1 |-> Uninit]

VerifyInit ==
  /\ v_delta = [index |-> [vec \in Vec |-> 0], topZero |-> TRUE]
  /\ v_opening = [s \in OpeningSlot |-> Uninit]
  /\ v_forest = [x \in V!Node |-> Uninit]
  /\ v_leaves = [s \in Slot |-> Uninit]
  /\ v_hashed = [s \in Slot |-> Uninit]
  /\ v_frame = V!NoFrame
  /\ v_calls = <<>>
  /\ v_i = 0 /\ v_d = 0
  /\ v_tree = 0 /\ v_j = 0 /\ v_root = 0
  /\ last_chunk = EmptyChunk
  /\ v_base = 0 /\ v_src = 0
  /\ verify_pc = "idle"

(* Where key i of vector j is in the opening, without the step back to the   *)
(* first short vector.                                                       *)
KeyPlace_NoStepBack(i, j) ==
  IF j < VOLES_MAX_K THEN i + j * (VOLE_MAX_K + 2)
  ELSE i + VOLES_MAX_K * (VOLE_MAX_K + 2) + (j - VOLES_MAX_K) * (VOLE_MIN_K + 2)

(* src_idx: where the key of vector j that is copied in round i is.          *)
KeyPlace(i, j) ==
  IF j < VOLES_MAX_K THEN i + j * (VOLE_MAX_K + 2)
  ELSE i + VOLES_MAX_K * (VOLE_MAX_K + 2) - (VOLE_MAX_K - VOLE_MIN_K)
         + (j - VOLES_MAX_K) * (VOLE_MIN_K + 2)

(* reorder_verifier_keys: which block of the opening subtree x starts from,  *)
(* the highest subtrees first. A round copies a key of every vector, but the *)
(* rounds that the long vectors have in advance copy no keys of short ones.  *)
ReorderedKeys ==
  LET ahead == VOLE_MAX_K - VOLE_MIN_K
      nth(x) == IF x < ahead * VOLES_MAX_K THEN x ELSE x + ahead * VOLES_MIN_K
  IN [x \in 0 .. NONZERO_BITS_IN_CHALLENGE_3 - 1 |->
        KeyPlace(nth(x) \div BITS_PER_WITNESS, nth(x) % BITS_PER_WITNESS)]

VerifyCall(d, o) ==
  /\ verify_pc = "idle"
  /\ v_delta' = d
  /\ v_opening' = o
  /\ IF d.topZero
     THEN /\ v_forest' = [x \in V!Node |-> IF x \in DOMAIN ReorderedKeys
                                           THEN o[ReorderedKeys[x]] ELSE Uninit]
          /\ v_d' = TREE_CHUNK_SIZE_SHIFT
          /\ verify_pc' = "subtrees"
     ELSE /\ verify_pc' = "rejected"
          /\ UNCHANGED <<v_forest, v_d>>
  /\ UNCHANGED <<v_leaves, v_hashed, v_frame, v_calls, v_i, v_treeVars>>

---------------------------------------------------------------------------
(* The subtrees that are at least v_d levels high.                           *)
End == NONZERO_BITS_IN_CHALLENGE_3 - v_d * BITS_PER_WITNESS

Call(i) == [n |-> 0, size |-> TREE_CHUNK_SIZE, i |-> i, node |-> i]

CallWhole ==
  /\ verify_pc = "subtrees" /\ v_calls = <<>>
  /\ v_d > 0
  /\ v_i + TREE_CHUNK_SIZE <= End
  /\ v_calls' = <<Call(v_i)>>
  /\ v_i' = v_i + TREE_CHUNK_SIZE
  /\ UNCHANGED <<v_input, v_expandVars, v_d, v_treeVars, verify_pc>>

(* Going on where the depth ends, not at the next chunk.                     *)
CallPartial_ToEnd ==
  /\ verify_pc = "subtrees" /\ v_calls = <<>>
  /\ v_d > 0
  /\ v_i + TREE_CHUNK_SIZE > End
  /\ v_calls' = IF End % TREE_CHUNK_SIZE # 0 THEN <<Call(v_i)>> ELSE <<>>
  /\ v_i' = End
  /\ v_d' = v_d - 1
  /\ UNCHANGED <<v_input, v_expandVars, v_treeVars, verify_pc>>

(* The chunk in which some subtrees are v_d levels high and some are not.    *)
CallPartial ==
  /\ verify_pc = "subtrees" /\ v_calls = <<>>
  /\ v_d > 0
  /\ v_i + TREE_CHUNK_SIZE > End
  /\ IF End % TREE_CHUNK_SIZE # 0
     THEN /\ v_calls' = <<Call(v_i)>>
          /\ v_i' = v_i + TREE_CHUNK_SIZE
     ELSE UNCHANGED <<v_calls, v_i>>
  /\ v_d' = v_d - 1
  /\ UNCHANGED <<v_input, v_expandVars, v_treeVars, verify_pc>>

(* level_lim: the nodes of level n that have children.                       *)
LevelLimit(n) == (NONZERO_BITS_IN_CHALLENGE_3 - (n + 1) * BITS_PER_WITNESS) * Pow2[n]

Crosses(c) == c.i + c.size > LevelLimit(c.n)
NothingToDo(c) == c.n >= TREE_CHUNK_SIZE_SHIFT \/ c.i >= LevelLimit(c.n)

(* A call across the limit expands what is below it, and is the last.        *)
SizeExpanded(c) == IF Crosses(c) THEN LevelLimit(c.n) % TREE_CHUNK_SIZE ELSE c.size

(* The calls of the next level: chunks of TREE_CHUNK_SIZE as far as they go,  *)
(* and what is left over. A whole chunk makes two whole chunks.              *)
NextSubtrees(c) ==
  LET child == FIRST_CHILD(c.node, TRUE)
      first == [n |-> c.n + 1, size |-> TREE_CHUNK_SIZE, i |-> 2 * c.i, node |-> child]
      after(size) == [n |-> c.n + 1, size |-> size, i |-> 2 * c.i + TREE_CHUNK_SIZE,
                      node |-> child + TREE_CHUNK_SIZE]
      output == 2 * SizeExpanded(c)
  IN IF ~Crosses(c) THEN <<first, after(TREE_CHUNK_SIZE)>>
     ELSE IF output >= TREE_CHUNK_SIZE THEN <<first, after(output - TREE_CHUNK_SIZE)>>
     ELSE <<[first EXCEPT !.size = output]>>

(* expand_verifier_subtrees_n                                                *)
ExpandSubtrees ==
  /\ v_calls # <<>>
  /\ LET c == Head(v_calls)
     IN IF NothingToDo(c)
        THEN /\ v_calls' = Tail(v_calls)
             /\ UNCHANGED v_forest
        ELSE /\ v_forest' = V!ExpandChunk(c.node, SizeExpanded(c))
             /\ v_calls' = NextSubtrees(c) \o Tail(v_calls)
  /\ UNCHANGED <<v_input, v_leaves, v_hashed, v_frame, v_i, v_d, v_treeVars, verify_pc>>

---------------------------------------------------------------------------
FirstRoot(i) == i + (IF i < VOLES_MAX_K THEN 0 ELSE VOLES_MAX_K)

EndSubtrees ==
  /\ verify_pc = "subtrees" /\ v_calls = <<>>
  /\ v_d = 0
  /\ v_root' = FirstRoot(0)
  /\ verify_pc' = "level"
  /\ UNCHANGED <<v_input, v_expandVars, v_calls, v_i, v_d, v_tree, v_j, last_chunk,
                 v_base, v_src>>

Hidden == v_delta.index[v_tree]
Height == Depth(v_tree) - 1 - v_j

(* (this_delta & -pow_height) ^ pow_height: the first leaf of the subtree.   *)
LeafIndex == XorIndex(Hidden - (Hidden % Pow2[Height]), Pow2[Height])

(* Expand the subtree of the next level; its leaves are hashed if there are  *)
(* enough of them.                                                           *)
CallSubtree ==
  /\ verify_pc = "level"
  /\ v_tree < BITS_PER_WITNESS /\ v_j < Depth(v_tree)
  /\ IF Height >= TREE_CHUNK_SIZE_SHIFT
     THEN V!ExpandTree(Height - TREE_CHUNK_SIZE_SHIFT,
                       FIRST_DESCENDENT_DEPTH(v_root, TREE_CHUNK_SIZE_SHIFT, TRUE),
                       LeafIndex, Hidden, v_base)
     ELSE UNCHANGED v_frame
  /\ verify_pc' = "subtree"
  /\ UNCHANGED <<v_input, v_forest, v_leaves, v_hashed, v_calls, v_i, v_d, v_treeVars>>

VerifyExpands ==
  V!ExpandStep /\ UNCHANGED <<v_input, v_calls, v_i, v_d, v_treeVars, verify_pc>>

(* The leaves of a small subtree copied without regard to where they belong. *)
CopyPlace_FromZero == 0

CopyPlace == LeafIndex % MAX_CHUNK_SIZE

(* The leaves of a subtree smaller than a chunk are kept for later.          *)
KeepLeaves ==
  /\ verify_pc = "subtree" /\ ~v_frame.busy
  /\ last_chunk' =
       IF Pow2[Height] >= MAX_CHUNK_SIZE THEN last_chunk
       ELSE [o \in DOMAIN last_chunk |->
               IF o \in CopyPlace .. CopyPlace + Pow2[Height] - 1
               THEN v_forest[FIRST_DESCENDENT_DEPTH(v_root, Height, TRUE) + o - CopyPlace]
               ELSE last_chunk[o]]
  /\ v_root' = v_root + (IF v_tree < VOLES_MAX_K /\ v_j = 0 THEN VOLES_MAX_K
                                                            ELSE BITS_PER_WITNESS)
  /\ v_j' = v_j + 1
  /\ verify_pc' = "level"
  /\ UNCHANGED <<v_input, v_expandVars, v_calls, v_i, v_d, v_tree, v_base, v_src>>

(* The commitment as the caller of the verifier gets it from two blocks.     *)
Commitment(src) == IF v_opening[src] = v_opening[src + 1] THEN v_opening[src] ELSE Junk

(* All levels done: hash the chunk around the hidden leaf with a dummy in its *)
(* place, then put right what the dummy wrote.                               *)
FinishTree ==
  /\ verify_pc = "level"
  /\ v_tree < BITS_PER_WITNESS /\ v_j = Depth(v_tree)
  /\ LET start  == Hidden - (Hidden % MAX_CHUNK_SIZE)
         blocks == [last_chunk EXCEPT ![Hidden % MAX_CHUNK_SIZE] = Zero]
         out    == V!WriteLeaves(blocks, start, PermuteInv(XorIndex(start, Hidden)), v_base)
     IN /\ v_leaves' = [out.leaves EXCEPT ![v_base] = Zero]
        /\ v_hashed' = [out.hashed EXCEPT
                          ![v_base + Hidden] = Commitment(v_src + Depth(v_tree))]
  /\ v_base' = v_base + Pow2[Depth(v_tree)]
  /\ v_src' = v_src + Depth(v_tree) + 2
  /\ v_tree' = v_tree + 1
  /\ v_j' = 0
  /\ v_root' = FirstRoot(v_tree + 1)
  /\ last_chunk' = EmptyChunk
  /\ UNCHANGED <<v_input, v_forest, v_frame, v_calls, v_i, v_d, verify_pc>>

VerifyReturn ==
  /\ verify_pc = "level"
  /\ v_tree = BITS_PER_WITNESS
  /\ verify_pc' = "accepted"
  /\ UNCHANGED <<v_input, v_expandVars, v_calls, v_i, v_d, v_treeVars>>

VerifyStep ==
  \/ CallWhole \/ CallPartial \/ ExpandSubtrees \/ EndSubtrees
  \/ CallSubtree \/ VerifyExpands \/ KeepLeaves \/ FinishTree \/ VerifyReturn

---------------------------------------------------------------------------
(* The assertions made on the way to a chunk of each subtree: a call expands *)
(* some nodes, all calls before one that crosses the limit were on whole     *)
(* chunks, and the loop over the depths stops where the partial chunk starts *)
(* (vector_com.c:188, 401 and 496).                                          *)
AssertionsHold ==
  /\ \A n \in DOMAIN v_calls :
       LET c == v_calls[n]
       IN ~NothingToDo(c) =>
            /\ SizeExpanded(c) \in 1 .. TREE_CHUNK_SIZE
            /\ Crosses(c) => SizeExpanded(c) = LevelLimit(c.n) - c.i
  /\ verify_pc = "subtrees" /\ v_calls = <<>> /\ v_d > 0
       /\ v_i + TREE_CHUNK_SIZE > End /\ End % TREE_CHUNK_SIZE # 0 =>
         v_i = End - (End % TREE_CHUNK_SIZE)

(* The verifier hashes no leaf it has not derived from the opening, although *)
(* its chunk of leftovers and its subtrees start as uninitialised memory.     *)
OnlyWrittenRead ==
  /\ \A s \in Slot : s < v_base => v_leaves[s] # Uninit /\ v_hashed[s] # Uninit
  /\ verify_pc = "level" /\ v_tree < BITS_PER_WITNESS /\ v_j = Depth(v_tree) =>
       \A o \in DOMAIN last_chunk : last_chunk[o] = Uninit <=> o = Hidden % MAX_CHUNK_SIZE
=============================================================================

----------------------------- MODULE TreeExpand -----------------------------
(***************************************************************************)
(* expand_chunk, expand_tree and write_leaves (vector_com.c), used by the    *)
(* signer on its forest and by the verifier on its subtrees: a tree of which *)
(* a chunk of nodes is known is expanded depth first, a chunk at a time, and *)
(* every full chunk of leaves is hashed and written to the two outputs.      *)
(***************************************************************************)
EXTENDS TreeLayout

CONSTANT verifier           \* whose trees these are

VARIABLES
  forest,                   \* memory of the trees
  leaves, hashed_leaves,    \* the outputs
  frame                     \* the call of expand_tree in progress, if busy

Node == 0 .. ForestSize(verifier) - 1

(* n adjacent blocks become 2n adjacent blocks.                              *)
ExpandChunk(from, n) ==
  LET to == FIRST_CHILD(from, verifier)
  IN [x \in Node |-> IF x \in to .. to + 2 * n - 1
                     THEN Prg(forest[from + (x - to) \div 2], (x - to) % 2)
                     ELSE forest[x]]

(* The permuted indices taken one after the other.                           *)
NextPermuted_Successor(perm, leaf_idx) == perm + 1

(* The permuted index is carried along, not worked out again.                *)
NextPermuted(perm, leaf_idx) == XorIndex(perm, PermuteIncrement(leaf_idx))

(* write_leaves: the outputs after the MAX_CHUNK_SIZE leaves of blocks, the    *)
(* first of which has index start in a vector whose outputs start at base.   *)
WriteLeaves(blocks, start, perm, base) ==
  LET after[o \in 0 .. MAX_CHUNK_SIZE] ==
        IF o = 0 THEN [leaves |-> leaves, hashed |-> hashed_leaves, perm |-> perm]
        ELSE LET was == after[o - 1]
                 out == LeafPrg(blocks[o - 1])
             IN [leaves |-> [was.leaves EXCEPT ![base + was.perm] = out],
                 hashed |-> [was.hashed EXCEPT ![base + start + o - 1] = out],
                 perm   |-> NextPermuted(was.perm, start + o - 1)]
  IN after[MAX_CHUNK_SIZE]

---------------------------------------------------------------------------
NoFrame == [busy |-> FALSE, height |-> 0, root |-> 0, base |-> 0, chunk |-> 0, i |-> 0,
            ancestor |-> 0, d |-> 0, start |-> 0, perm |-> 0]

(* expand_tree of 2^height chunks below the one at root.                     *)
ExpandTree(height, root, start, delta, base) ==
  frame' = [busy |-> TRUE, height |-> height, root |-> root, base |-> base,
            chunk |-> 0, i |-> 0, ancestor |-> 0, d |-> 0,
            start |-> start, perm |-> PermuteInv(XorIndex(start, delta))]

Ratio == MAX_CHUNK_SIZE \div TREE_CHUNK_SIZE

MorePaths == frame.i < frame.chunk + Ratio /\ frame.i < Pow2[frame.height]

(* count_trailing_zeros(i | pow_height)                                      *)
AncestorHeight ==
  CHOOSE h \in 0 .. frame.height :
    /\ frame.i % Pow2[h] = 0
    /\ \A g \in h + 1 .. frame.height : frame.i % Pow2[g] # 0

(* The lowest ancestor of chunk i of the last level that is expanded already. *)
PickAncestor ==
  /\ frame.busy /\ frame.d = 0
  /\ MorePaths
  /\ LET h == AncestorHeight
     IN frame' = [frame EXCEPT
          !.ancestor = FIRST_DESCENDENT_DEPTH(frame.root, frame.height - h, verifier)
                         + TREE_CHUNK_SIZE * (frame.i \div Pow2[h]),
          !.d = h,
          !.i = @ + 1]
  /\ UNCHANGED <<forest, leaves, hashed_leaves>>

(* One level down towards chunk i.                                           *)
Descend ==
  /\ frame.busy /\ frame.d > 0
  /\ forest' = ExpandChunk(frame.ancestor, TREE_CHUNK_SIZE)
  /\ frame' = [frame EXCEPT !.ancestor = FIRST_CHILD(@, verifier), !.d = @ - 1]
  /\ UNCHANGED <<leaves, hashed_leaves>>

(* The leaf index advances by a chunk of the tree, whatever was written.     *)
EndChunk ==
  /\ frame.busy /\ frame.d = 0
  /\ ~MorePaths
  /\ LET first == frame.ancestor + TREE_CHUNK_SIZE - MAX_CHUNK_SIZE
         out   == WriteLeaves([o \in 0 .. MAX_CHUNK_SIZE - 1 |-> forest[first + o]],
                              frame.start, frame.perm, frame.base)
         full  == frame.chunk + Ratio <= Pow2[frame.height]
     IN /\ leaves' = IF full THEN out.leaves ELSE leaves
        /\ hashed_leaves' = IF full THEN out.hashed ELSE hashed_leaves
        /\ frame' = [frame EXCEPT
             !.perm  = IF full THEN out.perm ELSE @,
             !.chunk = @ + Ratio,
             !.i     = frame.chunk + Ratio,
             !.start = @ + TREE_CHUNK_SIZE,
             !.busy  = frame.chunk + Ratio < Pow2[frame.height]]
  /\ UNCHANGED forest

ExpandStep == PickAncestor \/ Descend \/ EndChunk
=============================================================================

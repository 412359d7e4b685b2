---------------------------- MODULE BatchVerify ----------------------------
(***************************************************************************)
(* batch_vector_verify (vector_com.c): the verifier rebuilds from an        *)
(* opening every leaf but the hidden ones, and all leaf commitments, taking  *)
(* those of the hidden leaves from the opening itself.                       *)
(***************************************************************************)
EXTENDS BatchOpen

VARIABLES
  v_delta, v_opening,     \* the inputs
  v_dont_reveal,
  v_tree,                 \* heap memory, not initialised
  v_leaves, v_hashed,     \* the outputs
  v_read,                 \* slots of the opening read so far
  v_i,                    \* the loop counter of the phase
  v_leaf,                 \* <<vec_index, leaf_index>> of the output loop
  v_allocated,            \* v_tree is allocated and not freed
  verify_pc

verifyVars == <<v_delta, v_opening, v_dont_reveal, v_tree, v_leaves, v_hashed,
                v_read, v_i, v_leaf, v_allocated, verify_pc>>

UninitSlots == [k \in Slot |-> Uninit]
UninitTree  == [x \in Node |-> Uninit]

VerifyInit ==
  /\ v_delta = [index |-> [vec \in Vec |-> 0], topZero |-> TRUE]
  /\ v_opening = EmptyOpening
  /\ v_dont_reveal = NoMarks
  /\ v_tree = UninitTree
  /\ v_leaves = UninitSlots
  /\ v_hashed = UninitSlots
  /\ v_read = 0
  /\ v_i = 0
  /\ v_leaf = <<0, 0>>
  /\ v_allocated = FALSE
  /\ verify_pc = "idle"

(* The call, on challenge d and opening o.  It allocates the tree first; a   *)
(* set top bit then returns at once, without freeing it.                     *)
VerifyCall(d, o) ==
  /\ verify_pc = "idle"
  /\ v_delta' = d
  /\ v_opening' = o
  /\ v_allocated' = TRUE
  /\ verify_pc' = IF d.topZero THEN "mark" ELSE "rejected"
  /\ UNCHANGED <<v_dont_reveal, v_tree, v_leaves, v_hashed, v_read, v_i, v_leaf>>

(* Mark the hidden leaf of vector v_i, take its commitment from the opening, *)
(* and set the leaf key at permuted index 0 to zero.                         *)
CopyCommitment ==
  /\ verify_pc = "mark"
  /\ v_i < BITS_PER_WITNESS
  /\ v_dont_reveal' = [v_dont_reveal EXCEPT ![HiddenPos(v_delta, v_i)] = TRUE]
  /\ v_hashed' = [v_hashed EXCEPT
                    ![HashPos(v_i, v_delta.index[v_i])] = v_opening[v_read]]
  /\ v_leaves' = [v_leaves EXCEPT ![LeafPos(v_i, 0)] = Zero]
  /\ v_read' = v_read + 1
  /\ v_i' = v_i + 1
  /\ UNCHANGED <<v_delta, v_opening, v_tree, v_leaf, v_allocated, verify_pc>>

StartUp ==
  /\ verify_pc = "mark"
  /\ v_i = BITS_PER_WITNESS
  /\ v_i' = LEAVES - 2
  /\ verify_pc' = "up"
  /\ UNCHANGED <<v_delta, v_opening, v_dont_reveal, v_tree, v_leaves, v_hashed,
                 v_read, v_leaf, v_allocated>>

(* Leave through the end label: the tree is freed.                           *)
Return(pc) == v_allocated' = FALSE /\ verify_pc' = pc

(* An opening that is used up leaves the seed as it is.                      *)
ReadSeed_Unchecked ==
  /\ verify_pc = "up"
  /\ v_i >= 0
  /\ v_dont_reveal' = Propagate(v_dont_reveal, v_i)
  /\ IF OneChildHidden(v_dont_reveal, v_i) /\ v_read < OpeningSize
     THEN /\ v_tree' = [v_tree EXCEPT
                          ![RevealedChild(v_dont_reveal, v_i)] = v_opening[v_read]]
          /\ v_read' = v_read + 1
     ELSE UNCHANGED <<v_tree, v_read>>
  /\ v_i' = v_i - 1
  /\ UNCHANGED <<v_delta, v_opening, v_leaves, v_hashed, v_leaf, v_allocated,
                 verify_pc>>

(* Walk up the heap: the seed of a revealed node with a hidden sibling comes *)
(* from the opening, which must not be used up.                              *)
ReadSeed ==
  /\ verify_pc = "up"
  /\ v_i >= 0
  /\ v_dont_reveal' = Propagate(v_dont_reveal, v_i)
  /\ IF ~OneChildHidden(v_dont_reveal, v_i)
     THEN /\ v_i' = v_i - 1
          /\ UNCHANGED <<v_tree, v_read, v_allocated, verify_pc>>
     ELSE IF v_read >= OpeningSize
     THEN /\ Return("rejected")
          /\ UNCHANGED <<v_tree, v_read, v_i>>
     ELSE /\ v_tree' = [v_tree EXCEPT
                          ![RevealedChild(v_dont_reveal, v_i)] = v_opening[v_read]]
          /\ v_read' = v_read + 1
          /\ v_i' = v_i - 1
          /\ UNCHANGED <<v_allocated, verify_pc>>
  /\ UNCHANGED <<v_delta, v_opening, v_leaves, v_hashed, v_leaf>>

(* The padding read but not compared.                                        *)
CheckPadding_Ignored ==
  /\ verify_pc = "up"
  /\ v_i < 0
  /\ v_read < OpeningSize
  /\ v_read' = v_read + 1
  /\ UNCHANGED <<v_delta, v_opening, v_dont_reveal, v_tree, v_leaves, v_hashed,
                 v_i, v_leaf, v_allocated, verify_pc>>

(* What is left of the opening must be zero.                                 *)
CheckPadding ==
  /\ verify_pc = "up"
  /\ v_i < 0
  /\ v_read < OpeningSize
  /\ v_read' = v_read + 1
  /\ IF v_opening[v_read] # Zero
     THEN Return("rejected")
     ELSE UNCHANGED <<v_allocated, verify_pc>>
  /\ UNCHANGED <<v_delta, v_opening, v_dont_reveal, v_tree, v_leaves, v_hashed,
                 v_i, v_leaf>>

StartDown ==
  /\ verify_pc = "up"
  /\ v_i < 0
  /\ v_read = OpeningSize
  /\ v_i' = 0
  /\ verify_pc' = "down"
  /\ UNCHANGED <<v_delta, v_opening, v_dont_reveal, v_tree, v_leaves, v_hashed,
                 v_read, v_leaf, v_allocated>>

(* Walk down the heap: expand every node that is not hidden.                 *)
ExpandRevealed ==
  /\ verify_pc = "down"
  /\ v_i < NODES - LEAVES
  /\ v_tree' = IF v_dont_reveal[v_i]
               THEN v_tree
               ELSE ExpandChunk(v_tree, v_i, Child(v_i, 0), 1)
  /\ v_i' = v_i + 1
  /\ UNCHANGED <<v_delta, v_opening, v_dont_reveal, v_leaves, v_hashed, v_read,
                 v_leaf, v_allocated, verify_pc>>

(* The leaf key stored at its own index, not relative to delta.              *)
WriteLeaf_NoXor ==
  /\ verify_pc = "down"
  /\ v_i = NODES - LEAVES
  /\ v_leaf[1] < BITS_PER_WITNESS
  /\ LET vec  == v_leaf[1]
         leaf == v_leaf[2]
         node == PosInTree(vec, leaf)
         out  == LeafPrg(v_tree[node])
     IN /\ IF v_dont_reveal[node]
           THEN UNCHANGED <<v_leaves, v_hashed>>
           ELSE /\ v_leaves' = [v_leaves EXCEPT ![LeafPos(vec, leaf)] = out]
                /\ v_hashed' = [v_hashed EXCEPT ![HashPos(vec, leaf)] = out]
        /\ v_leaf' = NextLeaf(vec, leaf)
  /\ UNCHANGED <<v_delta, v_opening, v_dont_reveal, v_tree, v_read, v_i,
                 v_allocated, verify_pc>>

(* write_leaf, for the leaves that are not hidden.                           *)
WriteLeaf ==
  /\ verify_pc = "down"
  /\ v_i = NODES - LEAVES
  /\ v_leaf[1] < BITS_PER_WITNESS
  /\ LET vec  == v_leaf[1]
         leaf == v_leaf[2]
         node == PosInTree(vec, leaf)
         out  == LeafPrg(v_tree[node])
     IN /\ IF v_dont_reveal[node]
           THEN UNCHANGED <<v_leaves, v_hashed>>
           ELSE /\ v_leaves' = [v_leaves EXCEPT
                       ![LeafPos(vec, XorIndex(leaf, v_delta.index[vec]))] = out]
                /\ v_hashed' = [v_hashed EXCEPT ![HashPos(vec, leaf)] = out]
        /\ v_leaf' = NextLeaf(vec, leaf)
  /\ UNCHANGED <<v_delta, v_opening, v_dont_reveal, v_tree, v_read, v_i,
                 v_allocated, verify_pc>>

VerifyReturn ==
  /\ verify_pc = "down"
  /\ v_i = NODES - LEAVES
  /\ v_leaf[1] = BITS_PER_WITNESS
  /\ Return("accepted")
  /\ UNCHANGED <<v_delta, v_opening, v_dont_reveal, v_tree, v_leaves, v_hashed,
                 v_read, v_i, v_leaf>>

VerifyStep ==
  \/ CopyCommitment \/ StartUp \/ ReadSeed \/ CheckPadding \/ StartDown
  \/ ExpandRevealed \/ WriteLeaf \/ VerifyReturn

---------------------------------------------------------------------------
(* The verifier: the input pointer stays in the opening, and the counter of   *)
(* each phase in its own range: over the vectors, from the last internal node *)
(* down to just below the root, and from the root to the first leaf.          *)
VerifyTypeOK ==
  /\ v_delta \in Delta
  /\ v_opening \in [OpeningSlot -> Block]
  /\ v_dont_reveal \in [Node -> BOOLEAN]
  /\ v_tree \in [Node -> Block]
  /\ v_leaves \in [Slot -> Block] /\ v_hashed \in [Slot -> Block]
  /\ v_read \in 0 .. OpeningSize
  /\ v_i \in CASE verify_pc = "mark" -> 0 .. BITS_PER_WITNESS
              [] verify_pc = "up"   -> -1 .. LEAVES - 2
              [] verify_pc = "down" -> 0 .. LEAVES - 1
              [] OTHER              -> -1 .. LEAVES - 1
  /\ \/ \E vec \in Vec : \E leaf \in Leaf(vec) : v_leaf = <<vec, leaf>>
     \/ v_leaf = <<BITS_PER_WITNESS, 0>>
  /\ v_allocated \in BOOLEAN
  /\ verify_pc \in {"idle", "mark", "up", "down", "accepted", "rejected"}

(* The verifier never expands a node or hashes a leaf it has not written.    *)
OnlyWrittenRead ==
  /\ verify_pc = "down" /\ v_i < NODES - LEAVES =>
       (v_dont_reveal[v_i] \/ v_tree[v_i] # Uninit)
  /\ verify_pc = "accepted" =>
       \A s \in Slot : v_leaves[s] # Uninit /\ v_hashed[s] # Uninit
============================================================================

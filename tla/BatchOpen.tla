----------------------------- MODULE BatchOpen -----------------------------
(***************************************************************************)
(* batch_vector_open (vector_com.c): the signer opens every vector at all   *)
(* leaves but one, the one delta selects.  It marks the hidden leaves and    *)
(* their ancestors, gives up when the opening would be too long, and         *)
(* otherwise writes the commitments of the hidden leaves, then, walking up   *)
(* the heap, the seed of every revealed node whose sibling is hidden.        *)
(***************************************************************************)
EXTENDS BatchCommit

CONSTANTS
  BATCH_VECTOR_OPENING_SEEDS_TRESHOLD,  \* seeds an opening has room for
  SIZE_T                                \* 2^64: size_t arithmetic wraps

ASSUME OpenAssumption ==
  /\ BATCH_VECTOR_OPENING_SEEDS_TRESHOLD \in Nat
  /\ SIZE_T \in Nat /\ SIZE_T > 2 * NODES

(* One slot per commitment (two blocks of bytes), then one per seed.         *)
OpeningSize == BITS_PER_WITNESS + BATCH_VECTOR_OPENING_SEEDS_TRESHOLD
OpeningSlot == 0 .. OpeningSize - 1
SeedSlot    == BITS_PER_WITNESS .. OpeningSize - 1

(* The challenge: the index hidden in each vector, and whether the bits no   *)
(* vector uses are zero.                                                     *)
Delta == [index : {d \in [Vec -> 0 .. LONG_LEN - 1] :
                     \A vec \in Vec : d[vec] \in Leaf(vec)},
          topZero : BOOLEAN]

VARIABLES
  delta,                  \* the challenge being opened
  dont_reveal,            \* marks of the nodes that stay hidden
  number_of_hidden_nodes,
  vec_index, pos,         \* loop over the vectors, climb towards the root
  opening,                \* output buffer
  written,                \* slots of it written so far
  node_i,                 \* loop over the internal nodes
  open_pc

openVars == <<delta, dont_reveal, number_of_hidden_nodes, vec_index, pos,
              opening, written, node_i, open_pc>>

HiddenPos(d, vec) == PosInTree(vec, d.index[vec])
NoMarks == [x \in Node |-> FALSE]
EmptyOpening == [s \in OpeningSlot |-> Uninit]

OpenInit ==
  /\ delta = [index |-> [vec \in Vec |-> 0], topZero |-> TRUE]
  /\ dont_reveal = NoMarks
  /\ number_of_hidden_nodes = 0
  /\ vec_index = 0
  /\ pos = 0
  /\ opening = EmptyOpening
  /\ written = 0
  /\ node_i = 0
  /\ open_pc = "idle"

(* The call, on a challenge d: refused at once when a top bit is set.        *)
OpenCall(d) ==
  /\ open_pc \in {"idle", "refused"}
  /\ delta' = d
  /\ dont_reveal' = NoMarks
  /\ number_of_hidden_nodes' = 0
  /\ vec_index' = 0
  /\ pos' = 0
  /\ written' = 0
  /\ open_pc' = IF d.topZero THEN "mark" ELSE "refused"
  /\ UNCHANGED <<opening, node_i>>

(* The leaf marked but not counted.                                          *)
MarkLeaf_Uncounted ==
  /\ open_pc = "mark"
  /\ vec_index < BITS_PER_WITNESS
  /\ pos' = HiddenPos(delta, vec_index)
  /\ dont_reveal' = [dont_reveal EXCEPT ![pos'] = TRUE]
  /\ open_pc' = "climb"
  /\ UNCHANGED <<delta, number_of_hidden_nodes, vec_index, opening, written,
                 node_i>>

(* Mark the leaf delta selects in the next vector.                           *)
MarkLeaf ==
  /\ open_pc = "mark"
  /\ vec_index < BITS_PER_WITNESS
  /\ pos' = HiddenPos(delta, vec_index)
  /\ dont_reveal' = [dont_reveal EXCEPT ![pos'] = TRUE]
  /\ number_of_hidden_nodes' = number_of_hidden_nodes + 1
  /\ open_pc' = "climb"
  /\ UNCHANGED <<delta, vec_index, opening, written, node_i>>

CanClimb == pos > 0 /\ ~dont_reveal[Parent(pos)]

(* Mark its ancestors, up to one that is marked already.                     *)
MarkParent ==
  /\ open_pc = "climb"
  /\ CanClimb
  /\ pos' = Parent(pos)
  /\ dont_reveal' = [dont_reveal EXCEPT ![pos'] = TRUE]
  /\ number_of_hidden_nodes' = number_of_hidden_nodes + 1
  /\ UNCHANGED <<delta, vec_index, opening, written, node_i, open_pc>>

EndClimb ==
  /\ open_pc = "climb"
  /\ ~CanClimb
  /\ vec_index' = vec_index + 1
  /\ open_pc' = "mark"
  /\ UNCHANGED <<delta, dont_reveal, number_of_hidden_nodes, pos, opening,
                 written, node_i>>

(* The number of seeds the opening needs, computed in size_t.                *)
SeedsNeeded == (number_of_hidden_nodes - 2 * BITS_PER_WITNESS + 1) % SIZE_T

RefuseTooLong ==
  /\ open_pc = "mark"
  /\ vec_index = BITS_PER_WITNESS
  /\ SeedsNeeded > BATCH_VECTOR_OPENING_SEEDS_TRESHOLD
  /\ open_pc' = "refused"
  /\ UNCHANGED <<delta, dont_reveal, number_of_hidden_nodes, vec_index, pos,
                 opening, written, node_i>>

WriteCommitments ==
  /\ open_pc = "mark"
  /\ vec_index = BITS_PER_WITNESS
  /\ SeedsNeeded <= BATCH_VECTOR_OPENING_SEEDS_TRESHOLD
  /\ opening' = [s \in OpeningSlot |->
                   IF s < BITS_PER_WITNESS
                   THEN hashed_leaves[HashPos(s, delta.index[s])]
                   ELSE opening[s]]
  /\ written' = BITS_PER_WITNESS
  /\ node_i' = NODES - LEAVES - 1
  /\ open_pc' = "reveal"
  /\ UNCHANGED <<delta, dont_reveal, number_of_hidden_nodes, vec_index, pos>>

(* Only the left child looked at.                                            *)
Propagate_LeftOnly(marks, i) == [marks EXCEPT ![i] = marks[Child(i, 0)]]

(* A mark array as the walk up the heap leaves it at node i.                 *)
Propagate(marks, i) ==
  [marks EXCEPT ![i] = marks[Child(i, 0)] \/ marks[Child(i, 1)]]

OneChildHidden(marks, i) == marks[Child(i, 0)] # marks[Child(i, 1)]

(* The hidden child taken for the revealed one.                              *)
RevealedChild_Hidden(marks, i) == Child(i, IF marks[Child(i, 0)] THEN 0 ELSE 1)

(* The child of i that is revealed when exactly one of them is.              *)
RevealedChild(marks, i) == Child(i, IF marks[Child(i, 0)] THEN 1 ELSE 0)

RevealNode ==
  /\ open_pc = "reveal"
  /\ node_i >= 0
  /\ dont_reveal' = Propagate(dont_reveal, node_i)
  /\ IF OneChildHidden(dont_reveal, node_i)
     THEN /\ opening' = [opening EXCEPT
                           ![written] = tree[RevealedChild(dont_reveal, node_i)]]
          /\ written' = written + 1
     ELSE UNCHANGED <<opening, written>>
  /\ node_i' = node_i - 1
  /\ UNCHANGED <<delta, number_of_hidden_nodes, vec_index, pos, open_pc>>

(* The rest of the opening is filled with zeros.                             *)
OpenReturn ==
  /\ open_pc = "reveal"
  /\ node_i < 0
  /\ opening' = [s \in OpeningSlot |-> IF s < written THEN opening[s] ELSE Zero]
  /\ open_pc' = "opened"
  /\ UNCHANGED <<delta, dont_reveal, number_of_hidden_nodes, vec_index, pos,
                 written, node_i>>

OpenStep ==
  \/ MarkLeaf \/ MarkParent \/ EndClimb
  \/ RefuseTooLong \/ WriteCommitments \/ RevealNode \/ OpenReturn

---------------------------------------------------------------------------
(* The opening: the count of hidden nodes never exceeds the nodes there are, *)
(* the climb stays in the heap and belongs to a vector, the walk up starts   *)
(* at the last internal node and ends just below the root, and the output    *)
(* pointer stays in the buffer.                                              *)
OpenTypeOK ==
  /\ delta \in Delta
  /\ dont_reveal \in [Node -> BOOLEAN]
  /\ number_of_hidden_nodes \in 0 .. NODES
  /\ vec_index \in 0 .. BITS_PER_WITNESS
  /\ open_pc = "climb" => vec_index < BITS_PER_WITNESS
  /\ pos \in Node
  /\ opening \in [OpeningSlot -> Block]
  /\ written \in 0 .. OpeningSize
  /\ node_i \in -1 .. LEAVES - 2
  /\ open_pc \in {"idle", "refused", "mark", "climb", "reveal", "opened"}

(* The size computed before the opening is written (line 755) is the number  *)
(* of seeds that get written, so the assertion of line 774 holds.            *)
SizePredicted ==
  /\ written <= OpeningSize
  /\ open_pc = "opened" => written - BITS_PER_WITNESS = SeedsNeeded

(* While it walks up the heap, the signer has revealed no seed from which a  *)
(* hidden leaf derives.                                                      *)
HiddenStaysHidden ==
  open_pc \in {"reveal", "opened"} =>
    \A s \in SeedSlot : \A vec \in Vec :
      LET derives[x \in Node] ==
            x = opening[s] \/ (x > 0 /\ derives[Parent(x)])
      IN opening[s] \in Node => ~derives[HiddenPos(delta, vec)]
============================================================================

------------------------------- MODULE TreeVC -------------------------------
(***************************************************************************)
(* The vector commitment with one tree a vector in use: the signer commits   *)
(* and opens at a challenge, and the verifier gets this opening, or for some *)
(* challenges something else.                                                *)
(***************************************************************************)
EXTENDS TreeVerify

CONSTANTS
  Challenges,       \* the indices that may be hidden
  Tampered          \* those for which the verifier may get something else

ASSUME ChallengeAssumption ==
  /\ \A index \in Challenges : index \in [Vec -> Nat] /\ IsIndex(index)
  /\ Tampered \subseteq Challenges

vars == <<commitVars, openVars, verifyVars>>

Altered(o) == {[o EXCEPT ![s] = b] : s \in OpeningSlot, b \in {Zero, Junk}}

Received ==
  {<<delta, opening>>}
    \cup (IF delta.index \in Tampered
          THEN ({delta} \X Altered(opening))
                 \cup ([index : Challenges, topZero : BOOLEAN] \X {opening})
          ELSE {})

Init == CommitInit /\ OpenInit /\ VerifyInit

SignerCommits == CommitStep /\ UNCHANGED <<openVars, verifyVars>>

(* vector_open is called for challenges without other bits only: either there *)
(* are none (faest.c:386-389), or force_vector_open has seen that they are 0. *)
SignerChallenged ==
  /\ commit_pc = "done" /\ open_pc = "idle"
  /\ \E index \in Challenges : OpenCall([index |-> index, topZero |-> TRUE])
  /\ UNCHANGED <<commitVars, verifyVars>>

SignerOpens == OpenStep /\ UNCHANGED <<commitVars, verifyVars>>

VerifierReceives ==
  /\ open_pc = "opened" /\ verify_pc = "idle"
  /\ \E r \in Received : VerifyCall(r[1], r[2])
  /\ UNCHANGED <<commitVars, openVars>>

VerifierVerifies == VerifyStep /\ UNCHANGED <<commitVars, openVars>>

(* Nothing else to do: every other state has a next step.                    *)
Over == verify_pc \in {"accepted", "rejected"} /\ UNCHANGED vars

Next ==
  \/ SignerCommits \/ SignerChallenged \/ SignerOpens
  \/ VerifierReceives \/ VerifierVerifies
  \/ Over

Spec == Init /\ [][Next]_vars

---------------------------------------------------------------------------
Faithful == v_delta = delta /\ v_opening = opening

KeyRecovered(vec, leaf) ==
  LET at == FirstLeaf(vec) + PermuteInv(XorIndex(leaf, v_delta.index[vec]))
  IN leaf # v_delta.index[vec] /\ v_leaves[at] = LeafNode(vec, leaf)

Keys == [vec \in Vec |-> {leaf \in Leaf(vec) : KeyRecovered(vec, leaf)}]

VC == INSTANCE VectorCommitment WITH
  Vectors  <- Vec,
  LeafOf   <- Leaf,
  signer   <- IF commit_pc # "done" THEN "committing"
              ELSE IF open_pc = "opened" THEN "opened" ELSE "ready",
  hidden   <- delta.index,
  faithful <- verify_pc # "idle" /\ Faithful,
  verdict  <- CASE verify_pc = "accepted" ->
                     [stage   |-> "accepted",
                      matches |-> v_hashed = hashed_leaves,
                      keys    |-> Keys]
                [] verify_pc = "rejected" -> [stage |-> "rejected"]
                [] OTHER                  -> [stage |-> "none"]

---------------------------------------------------------------------------
(* The trees, the outputs and the openings stay in their types, and the      *)
(* pointers in their buffers.                                                *)
TypeOK ==
  /\ forest \in [S!Node -> Block] /\ v_forest \in [V!Node -> Block]
  /\ {leaves, hashed_leaves, v_leaves, v_hashed} \subseteq [Slot -> Block]
  /\ {opening, v_opening} \subseteq [OpeningSlot -> Block]
  /\ IsIndex(delta.index) /\ IsIndex(v_delta.index)
  /\ {base, open_base, v_base} \subseteq 0 .. VECTOR_COMMIT_LEAVES
  /\ {open_pos, v_src} \subseteq 0 .. NONZERO_BITS_IN_CHALLENGE_3 + 2 * BITS_PER_WITNESS
  /\ frame.busy => frame.perm \in 0 .. Pow2[VOLE_MAX_K] - 1
  /\ v_frame.busy => v_frame.perm \in 0 .. Pow2[VOLE_MAX_K] - 1
  /\ commit_pc \in {"roots", "trees", "done"}
  /\ open_pc \in {"idle", "open", "opened"}
  /\ verify_pc \in {"idle", "subtrees", "level", "subtree", "accepted", "rejected"}

(* Both sides implement the same abstract vector commitment as the batched   *)
(* one.                                                                      *)
ImplementsVC == VC!Spec
=============================================================================

------------------------------ MODULE BatchVC ------------------------------
(***************************************************************************)
(* The batched vector commitment in use: the signer commits, is challenged   *)
(* until it opens (force_vector_open tries one challenge after another), and *)
(* the verifier runs on what it receives, the opening of the signer or, when *)
(* TAMPER, something else.                                                   *)
(***************************************************************************)
EXTENDS BatchVerify, FiniteSets

CONSTANT TAMPER          \* may the verifier receive anything but the opening?

ASSUME TamperAssumption == TAMPER \in BOOLEAN

vars == <<commitVars, openVars, verifyVars>>

Swap(o, s, t) == [o EXCEPT ![s] = o[t], ![t] = o[s]]

(* The opening with one block replaced or two seeds exchanged.               *)
Altered(o) ==
  { [o EXCEPT ![s] = b] : s \in OpeningSlot, b \in {Zero, Junk} }
    \cup { Swap(o, s, t) : s, t \in SeedSlot }

Received ==
  {<<delta, opening>>}
    \cup (IF TAMPER
          THEN ({delta} \X Altered(opening)) \cup (Delta \X {opening})
          ELSE {})

Init == CommitInit /\ OpenInit /\ VerifyInit

SignerCommits == CommitNext /\ UNCHANGED <<openVars, verifyVars>>

SignerChallenged ==
  /\ commit_pc = "done"
  /\ \E d \in Delta : OpenCall(d)
  /\ UNCHANGED <<commitVars, verifyVars>>

SignerOpens == OpenStep /\ UNCHANGED <<commitVars, verifyVars>>

VerifierReceives ==
  /\ open_pc = "opened"
  /\ \E r \in Received : VerifyCall(r[1], r[2])
  /\ UNCHANGED <<commitVars, openVars>>

VerifierVerifies == VerifyStep /\ UNCHANGED <<commitVars, openVars>>

Next ==
  \/ SignerCommits \/ SignerChallenged \/ SignerOpens
  \/ VerifierReceives \/ VerifierVerifies

Spec == Init /\ [][Next]_vars

---------------------------------------------------------------------------
(* The abstract state this state stands for.                                 *)
Faithful == v_delta = delta /\ v_opening = opening

KeyRecovered(vec, leaf) ==
  /\ leaf # v_delta.index[vec]
  /\ v_leaves[LeafPos(vec, XorIndex(leaf, v_delta.index[vec]))] = PosInTree(vec, leaf)

Keys == [vec \in Vec |-> {leaf \in Leaf(vec) : KeyRecovered(vec, leaf)}]

VC == INSTANCE VectorCommitment WITH
  Vectors  <- Vec,
  LeafOf   <- Leaf,
  signer   <- IF commit_pc # "done" THEN "committing"
              ELSE IF open_pc = "opened" THEN "opened" ELSE "ready",
  hidden   <- delta.index,
  faithful <- verify_pc # "idle" /\ Faithful,
  verdict  <- CASE verify_pc = "accepted" ->
                     [stage   |-> "accepted",
                      matches |-> v_hashed = hashed_leaves,
                      keys    |-> Keys]
                [] verify_pc = "rejected" -> [stage |-> "rejected"]
                [] OTHER                  -> [stage |-> "none"]

---------------------------------------------------------------------------
(* Every variable stays in its type, and every index, counter and pointer of *)
(* the signer, of the opening and of the verifier in the range of what it    *)
(* indexes or counts.                                                        *)
TypeOK == CommitTypeOK /\ OpenTypeOK /\ VerifyTypeOK

(* Both sides implement the abstract vector commitment.                      *)
ImplementsVC == VC!Spec
============================================================================

-------------------------- MODULE VectorCommitment --------------------------
(***************************************************************************)
(* What an all-but-one vector commitment promises, whatever tree it is made  *)
(* of.  The signer commits to vectors of leaf keys, then opens all of them    *)
(* but the one that delta selects in each vector, or refuses to.  A verifier  *)
(* that gets this delta and this opening accepts, learns every other key, and *)
(* rebuilds the commitments the signer made.  From anything else it rejects,  *)
(* or rebuilds other commitments; either way it learns no hidden key.         *)
(***************************************************************************)
CONSTANTS
  Vectors,       \* the vectors
  LeafOf(_)      \* the leaf indices of a vector

VARIABLES
  signer,        \* "committing", "ready" or "opened"
  hidden,        \* the leaf index hidden in each vector
  faithful,      \* the verifier got the opening the signer made
  verdict        \* none, rejected, or the view of the verifier

vcVars == <<signer, hidden, faithful, verdict>>

None     == [stage |-> "none"]
Rejected == [stage |-> "rejected"]
Accepted(matches, keys) ==
  [stage |-> "accepted", matches |-> matches, keys |-> keys]

AllBut(h) == [v \in Vectors |-> LeafOf(v) \ {h[v]}]

Init ==
  /\ signer = "committing"
  /\ \A v \in Vectors : hidden[v] \in LeafOf(v)
  /\ faithful = FALSE
  /\ verdict = None

Commit ==
  /\ signer = "committing"
  /\ signer' = "ready"
  /\ UNCHANGED <<hidden, faithful, verdict>>

(* The next challenge; the signer may refuse it and be asked another.        *)
Challenge ==
  /\ signer = "ready"
  /\ \A v \in Vectors : hidden'[v] \in LeafOf(v)
  /\ UNCHANGED <<signer, faithful, verdict>>

Open ==
  /\ signer = "ready"
  /\ signer' = "opened"
  /\ UNCHANGED <<hidden, faithful, verdict>>

Receive ==
  /\ signer = "opened"
  /\ verdict = None
  /\ faithful' \in BOOLEAN
  /\ UNCHANGED <<signer, hidden, verdict>>

(* What the verifier got may be something else and rejected at once.         *)
Reject ==
  /\ signer = "opened"
  /\ verdict = None
  /\ ~faithful
  /\ verdict' = Rejected
  /\ UNCHANGED <<signer, hidden, faithful>>

Accept ==
  /\ signer = "opened"
  /\ verdict = None
  /\ verdict'.stage = "accepted"
  /\ IF faithful
     THEN verdict' = Accepted(TRUE, AllBut(hidden))
     ELSE /\ ~verdict'.matches
          /\ \A v \in Vectors : verdict'.keys[v] \subseteq AllBut(hidden)[v]
  /\ UNCHANGED <<signer, hidden, faithful>>

Next == Commit \/ Challenge \/ Open \/ Receive \/ Reject \/ Accept

Spec == Init /\ [][Next]_vcVars
============================================================================

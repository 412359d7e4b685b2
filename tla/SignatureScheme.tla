-------------------------- MODULE SignatureScheme --------------------------
(***************************************************************************)
(* What faest_sign and faest_verify promise together: a verifier accepts a   *)
(* message exactly when it comes with a signature that was made for it, under *)
(* the key it was made with, unchanged.                                      *)
(***************************************************************************)
CONSTANT Messages   \* a message and the key that signs it

VARIABLES
  signed,      \* what faest_sign has returned a signature of
  presented,   \* what the verifier was asked about: one message, or none
  genuine,     \* it came with a signature faest_sign made for it
  verdict      \* "none", "valid" or "invalid"

schemeVars == <<signed, presented, genuine, verdict>>

Init ==
  /\ signed = {}
  /\ presented = {}
  /\ genuine = FALSE
  /\ verdict = "none"

Sign ==
  /\ \E m \in Messages : signed' = signed \cup {m}
  /\ UNCHANGED <<presented, genuine, verdict>>

Present ==
  /\ \E m \in Messages : presented' = {m}
  /\ genuine' \in BOOLEAN
  /\ genuine' => presented' \subseteq signed
  /\ verdict' = "none"
  /\ UNCHANGED signed

Verify ==
  /\ presented # {}
  /\ verdict = "none"
  /\ verdict' = IF genuine THEN "valid" ELSE "invalid"
  /\ UNCHANGED <<signed, presented, genuine>>

Forget ==
  /\ presented' = {}
  /\ genuine' = FALSE
  /\ verdict' = "none"
  /\ UNCHANGED signed

Next == Sign \/ Present \/ Verify \/ Forget

Spec == Init /\ [][Next]_schemeVars
============================================================================

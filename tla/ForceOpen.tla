----------------------------- MODULE ForceOpen -----------------------------
(***************************************************************************)
(* force_vector_open (vector_com.c): the signer hashes the transcript with   *)
(* one 32-bit counter after another, four at a time, until the hash is a     *)
(* challenge it can open: its unused bits are zero and, with the batched     *)
(* vector commitment, its opening is short enough.                           *)
(*                                                                         *)
(* The hash of a counter is named by that counter; what it comes to is the   *)
(* function "outcome", any function at all.                                  *)
(***************************************************************************)
EXTENDS Integers

CONSTANTS
  COUNTER_RANGE,                    \* 2^32
  USE_IMPROVED_VECTOR_COMMITMENTS,  \* batched commitments, or one tree a vector
  ZERO_BITS                         \* ZERO_BITS_IN_CHALLENGE_3 > 0

ASSUME ForceAssumption ==
  /\ COUNTER_RANGE \in Nat \ {0}
  /\ COUNTER_RANGE % 4 = 0
  /\ USE_IMPROVED_VECTOR_COMMITMENTS \in BOOLEAN
  /\ ZERO_BITS \in BOOLEAN

Counter == 0 .. COUNTER_RANGE - 1
Lane    == 0 .. 3

(* What can be wrong with a challenge in this configuration.                 *)
Obstacle ==
  (IF ZERO_BITS THEN {"top_bits"} ELSE {})
    \cup (IF USE_IMPROVED_VECTOR_COMMITMENTS THEN {"too_long"} ELSE {})

Outcome == Obstacle \cup {"opens"}

VARIABLES
  outcome,      \* what the hash of each counter comes to
  counter,      \* the next counter to hash, 32 bits
  outputs,      \* the counter each lane hashed
  j,            \* the lane being tried
  out_counter,  \* result: the counter of the challenge
  delta_out,    \* result: the challenge opened, named by its counter
  force_pc

forceVars == <<outcome, counter, outputs, j, out_counter, delta_out, force_pc>>

ForceInit ==
  /\ outcome \in [Counter -> Outcome]
  /\ counter = 0
  /\ outputs = [i \in Lane |-> 0]
  /\ j = 0
  /\ out_counter = 0
  /\ delta_out = 0
  /\ force_pc = "idle"

(* The call: f is what the transcript of this call makes of each counter.    *)
ForceCall(f) ==
  /\ outcome' = f
  /\ counter' = 0
  /\ out_counter' = 0
  /\ force_pc' = "batch"
  /\ UNCHANGED <<outputs, j, delta_out>>

(* Hash the next four counters; the counter wraps to 0 after the last.       *)
HashBatch ==
  /\ force_pc = "batch"
  /\ outputs' = [i \in Lane |-> (counter + i) % COUNTER_RANGE]
  /\ counter' = (counter + 4) % COUNTER_RANGE
  /\ j' = 0
  /\ force_pc' = "try"
  /\ UNCHANGED <<outcome, out_counter, delta_out>>

(* A bit that must be zero is set, or batch_vector_open refuses.             *)
TryNextLane ==
  /\ force_pc = "try"
  /\ j < 4
  /\ outcome[outputs[j]] \in Obstacle
  /\ j' = j + 1
  /\ UNCHANGED <<outcome, counter, outputs, out_counter, delta_out, force_pc>>

(* The counter of the lane after the one that opened.                        *)
LaneCounter_Next == (counter - 4 + j + 1) % COUNTER_RANGE

(* The same in a type that does not wrap.                                    *)
LaneCounter_Wide == counter - 4 + j

(* The counter that lane j hashed, in unsigned 32-bit arithmetic.            *)
LaneCounter == (counter - 4 + j) % COUNTER_RANGE

OpenLane ==
  /\ force_pc = "try"
  /\ j < 4
  /\ outcome[outputs[j]] = "opens"
  /\ out_counter' = LaneCounter
  /\ delta_out' = outputs[j]
  /\ force_pc' = "opened"
  /\ UNCHANGED <<outcome, counter, outputs, j>>

(* The loop stopping a batch before the counter wraps.                       *)
CountersLeft_OneBatchShort == counter + 4 < COUNTER_RANGE

(* while (counter != 0)                                                      *)
CountersLeft == counter # 0

EndBatch ==
  /\ force_pc = "try"
  /\ j = 4
  /\ force_pc' = IF CountersLeft THEN "batch" ELSE "exhausted"
  /\ UNCHANGED <<outcome, counter, outputs, j, out_counter, delta_out>>

ForceStep == HashBatch \/ TryNextLane \/ OpenLane \/ EndBatch

---------------------------------------------------------------------------
(* The two counters are 32-bit numbers and the lane one of four.             *)
ForceTypeOK ==
  /\ outcome \in [Counter -> Outcome]
  /\ counter \in Counter /\ out_counter \in Counter /\ delta_out \in Counter
  /\ outputs \in [Lane -> Counter]
  /\ j \in 0 .. 4
  /\ force_pc \in {"idle", "batch", "try", "opened", "exhausted"}

(* force_vector_open returns the least counter whose challenge it can open,  *)
(* with the challenge of that very counter, and gives up only when it tried   *)
(* every one of the 2^32 (lines 646-712).                                    *)
LeastCounter ==
  /\ force_pc = "opened" =>
       /\ delta_out = out_counter
       /\ outcome[out_counter] = "opens"
       /\ \A c \in Counter : c < out_counter => outcome[c] # "opens"
  /\ force_pc = "exhausted" => \A c \in Counter : outcome[c] # "opens"
============================================================================

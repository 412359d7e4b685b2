------------------------------ MODULE MCFaest ------------------------------
(***************************************************************************)
(* Small instances of Faest. Hashing comes to a challenge that opens in the   *)
(* first batch of four, only in the last, or never; or in any way at all.    *)
(***************************************************************************)
EXTENDS Faest

Opening_At(count) ==
  [c \in Counter |-> IF c >= count THEN "opens" ELSE CHOOSE o \in Obstacle : TRUE]

MCOutcomes == {Opening_At(count) : count \in {1, COUNTER_RANGE - 2, COUNTER_RANGE}}
MCAllOutcomes == [Counter -> {"too_long", "opens"}]
MCNoOutcomes == [Counter -> {"opens"}]
============================================================================

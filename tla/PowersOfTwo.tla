---------------------------- MODULE PowersOfTwo ----------------------------
(***************************************************************************)
(* Powers of two and the bits of an index, as the shifts and the divisions   *)
(* of the code make them.                                                    *)
(***************************************************************************)
EXTENDS Integers

(* 1 << n                                                                   *)
Pow2[n \in Nat] == IF n = 0 THEN 1 ELSE 2 * Pow2[n - 1]

(* (x >> b) & 1                                                             *)
Bit(x, b) == (x \div Pow2[b]) % 2 = 1
============================================================================

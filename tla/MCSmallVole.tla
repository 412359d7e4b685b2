---------------------------- MODULE MCSmallVole ----------------------------
(***************************************************************************)
(* Small instances of SmallVole, with the exclusive or of small_vole.h.      *)
(***************************************************************************)
EXTENDS SmallVole, Bitwise

(* A table, which TLC works out once.                                        *)
XorTable == [x, y \in Index(VOLE_MAX_K) |-> x ^^ y]

MCXorIndex(x, y) == XorTable[x, y]
============================================================================

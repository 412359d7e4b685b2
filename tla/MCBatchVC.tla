----------------------------- MODULE MCBatchVC -----------------------------
(***************************************************************************)
(* Small instances of BatchVC: the permutation and the exclusive or are the  *)
(* ones of small_vole.h.                                                     *)
(***************************************************************************)
EXTENDS BatchVC, VolePermute

MCPermuteInv(i) == vole_permute_key_index_inv(i)
MCXorIndex(x, y) == x ^^ y
============================================================================

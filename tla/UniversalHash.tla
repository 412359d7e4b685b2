---------------------------- MODULE UniversalHash ----------------------------
(***************************************************************************)
(* The polynomial hashers of universal_hash.h, with the key as an unknown: *)
(* a polynomial in the key is a set of monomials <<e, c, a>>, the e-th     *)
(* power of the key times the part a of the coefficient c, and what is     *)
(* equal here is equal for every key.  Vectors have one polynomial, which  *)
(* quicksilver.c asserts, so there is nothing to combine after hashing.    *)
(***************************************************************************)
EXTENDS Integers, Sequences, BitPolys

HASHER_KEY_POWS == 2
TimesKey(p, power) == {<<m[1] + power, m[2], m[3]>> : m \in p}

(* The powers of the key that are computed beforehand. *)
KeyPower(k) == k + 1

(* The first coefficients go with the powers that make the others come out *)
(* in whole rounds.                                                        *)
hasher_init_state(coefficients) ==
    [state |-> {}, pow |-> (coefficients + HASHER_KEY_POWS - 1) % HASHER_KEY_POWS]

(* With the powers used up the state is multiplied with the highest.       *)
(* Variant: with the one below.                                            *)
RenewLow(h) ==
    IF h.pow # -1 THEN h
    ELSE [state |-> TimesKey(h.state, KeyPower(HASHER_KEY_POWS - 2)), pow |-> HASHER_KEY_POWS - 1]
Renew(h) ==
    IF h.pow # -1 THEN h
    ELSE [state |-> TimesKey(h.state, KeyPower(HASHER_KEY_POWS - 1)), pow |-> HASHER_KEY_POWS - 1]

Summand(h, input) == IF h.pow > 0 THEN TimesKey(input, KeyPower(h.pow - 1)) ELSE input

hasher_update(h, input) ==
    LET r == Renew(h) IN [state |-> Xor(r.state, Summand(r, input)), pow |-> r.pow - 1]

(* The hasher with the short key multiplies every time. *)
hasher_gfsecpar_64_update(state, input) == Xor(TimesKey(state, 1), input)
===============================================================================

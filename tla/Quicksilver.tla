----------------------------- MODULE Quicksilver -----------------------------
(***************************************************************************)
(* The proof system of quicksilver.h and quicksilver.c.  The prover has a  *)
(* value and a mac for everything it computes, the verifier the mac plus   *)
(* delta times the value, and both hash the constraints.  Field elements   *)
(* are sets of positions, of a small field of the same kind; the keys of   *)
(* the hashes are unknowns (UniversalHash).                                *)
(***************************************************************************)
EXTENDS UniversalHash

CONSTANTS
    SECURITY_PARAM,     \* the degree of the field
    FieldLow,           \* its polynomial without the highest term
    BYTE                \* the bits that are taken together, in the code 8

Field == SUBSET (0 .. SECURITY_PARAM - 1)
ProductTable ==
    [x \in Field |-> [y \in Field |->
        XorOver(x, LAMBDA i : XorOver(y, LAMBDA j : PowerModulo(SECURITY_PARAM, FieldLow, i + j)))]]
Times(x, y) == ProductTable[x][y]
Shifted(x, n) == XorOver(x, LAMBDA i : PowerModulo(SECURITY_PARAM, FieldLow, i + n))

Prover(witness, macs, constraints) ==
    [verifier |-> FALSE, witness |-> witness, macs |-> macs,
     secparConst |-> hasher_init_state(constraints), secparLinear |-> hasher_init_state(constraints),
     const64 |-> {}, linear64 |-> {}]
Verifier(macs, constraints, delta) ==
    [verifier |-> TRUE, macs |-> macs, delta |-> delta, deltaSq |-> Times(delta, delta),
     secparConst |-> hasher_init_state(constraints), const64 |-> {}]

(* Only the prover has a value, and the evaluation at one.                 *)
WithValue(state, mac, value) ==
    IF state.verifier THEN [mac |-> mac] ELSE [mac |-> mac, value |-> value]
WithMac1(state, mac0, mac1) ==
    IF state.verifier THEN [mac0 |-> mac0] ELSE [mac0 |-> mac0, mac1 |-> mac1]

-------------------------------------------------------------------------------
quicksilver_get_witness_vec(state, index) ==
    WithValue(state, state.macs[index], IF index \in state.witness THEN {0} ELSE {})

quicksilver_add_gf2(state, x, y) == WithValue(state, Xor(x.mac, y.mac), Xor(x.value, y.value))
quicksilver_add_gfsecpar(state, x, y) == WithValue(state, Xor(x.mac, y.mac), Xor(x.value, y.value))
quicksilver_add_deg2(state, x, y) == WithMac1(state, Xor(x.mac0, y.mac0), Xor(x.mac1, y.mac1))

quicksilver_zero_gf2 == [mac |-> {}, value |-> {}]
quicksilver_zero_deg2 == [mac0 |-> {}, mac1 |-> {}]

quicksilver_one_gf2(state) == WithValue(state, IF state.verifier THEN state.delta ELSE {}, {0})
quicksilver_one_gfsecpar(state) == WithValue(state, IF state.verifier THEN state.delta ELSE {}, {0})
quicksilver_one_deg2(state) == WithMac1(state, IF state.verifier THEN state.deltaSq ELSE {}, {0})

quicksilver_const_gf2(state, c) ==
    WithValue(state, IF state.verifier THEN Times(c, state.delta) ELSE {}, c)
quicksilver_const_gfsecpar(state, c) ==
    WithValue(state, IF state.verifier THEN Times(state.delta, c) ELSE {}, c)
quicksilver_const_deg2(state, c) ==
    WithMac1(state, IF state.verifier THEN Times(state.deltaSq, c) ELSE {}, c)
quicksilver_const_deg2_gf2(state, c) ==
    WithMac1(state, IF state.verifier THEN Times(c, state.deltaSq) ELSE {}, c)

quicksilver_mul_const_gf2(state, x, c) == WithValue(state, Times(c, x.mac), x.value \cap c)
quicksilver_mul_const_gf2_gfsecpar(state, x, c) == WithValue(state, Times(c, x.mac), Times(x.value, c))
quicksilver_mul_const(state, x, c) == WithValue(state, Times(c, x.mac), Times(c, x.value))
quicksilver_mul_const_deg2_gf2(state, x, c) == WithMac1(state, Times(c, x.mac0), Times(c, x.mac1))
quicksilver_mul_const_deg2(state, x, c) == WithMac1(state, Times(c, x.mac0), Times(c, x.mac1))

(* The product at zero and, for the prover, at one.  Variant: the product  *)
(* of the values in place of the second.                                   *)
MulOfValues(state, x, y) == WithMac1(state, Times(x.mac, y.mac), Times(x.value, y.value))
quicksilver_mul(state, x, y) ==
    WithMac1(state, Times(x.mac, y.mac), Times(Xor(x.value, x.mac), Xor(y.value, y.mac)))

(* Bits together are an element. *)
Combined(bits, first, n, Part(_)) ==
    XorAll([k \in 1 .. n |-> Shifted(Part(bits[first + k - 1]), k - 1)])
quicksilver_combine_1_bit(state, bit) == WithValue(state, bit.mac, bit.value)
quicksilver_combine_secpar_bits(state, bits) ==
    WithValue(state, Combined(bits, 0, SECURITY_PARAM, LAMBDA b : b.mac),
              Combined(bits, 0, SECURITY_PARAM, LAMBDA b : b.value))
quicksilver_combine_secpar_bits_not_full(state, bits, n) ==
    WithValue(state, Combined(bits, SECURITY_PARAM, n, LAMBDA b : b.mac),
              Combined(bits, SECURITY_PARAM, n, LAMBDA b : b.value))
quicksilver_get_witness_secpar_bits(state, index) ==
    quicksilver_combine_secpar_bits(state,
        [k \in 0 .. SECURITY_PARAM - 1 |-> quicksilver_get_witness_vec(state, index + k)])
quicksilver_const_secpar_bits(state, s) ==
    quicksilver_combine_secpar_bits(state,
        [k \in 0 .. SECURITY_PARAM - 1 |-> quicksilver_const_gf2(state, IF k \in s THEN {0} ELSE {})])

(* The prover hashes the constant and the linear term of a constraint: the *)
(* linear one is the sum of both evaluations if the value is 0.            *)
Coefficient(x) == {<<0, 0, a>> : a \in x}
quicksilver_constraint(state, x) ==
    LET hashed == [state EXCEPT !.secparConst = hasher_update(@, Coefficient(x.mac0)),
                                !.const64 = hasher_gfsecpar_64_update(@, Coefficient(x.mac0))]
        lin_term == Coefficient(Xor(x.mac0, x.mac1))
    IN  IF state.verifier THEN hashed
        ELSE [hashed EXCEPT !.secparLinear = hasher_update(@, lin_term),
                            !.linear64 = hasher_gfsecpar_64_update(@, lin_term)]
quicksilver_inverse_constraint(state, x, y) ==
    quicksilver_constraint(state,
        quicksilver_add_deg2(state, quicksilver_mul(state, x, y), quicksilver_one_deg2(state)))

-------------------------------------------------------------------------------
(* Both hashes times their element of the challenge, and the mask.         *)
quicksilver_final(secpar, hash64, mask) ==
    Xor({<<"secpar", m>> : m \in secpar.state} \cup {<<"64", m>> : m \in hash64},
        {<<"mask", m>> : m \in mask})

(* The macs of the mask are added up in BYTE sums, every BYTE-th in one.   *)
Accumulator(macs, first, j) ==
    FoldLeft(LAMBDA acc, k : Xor(Shifted(acc, BYTE), macs[first + SECURITY_PARAM - k * BYTE + j]), {},
             [k \in 1 .. SECURITY_PARAM \div BYTE |-> k])
combine_mask_macs(macs, first) ==
    FoldLeft(LAMBDA total, j : Xor(Shifted(total, 1), Accumulator(macs, first, BYTE - j)), {},
             [j \in 1 .. BYTE |-> j])

quicksilver_prove(state, witness_bits) ==
    LET value_mask == {k \in 0 .. SECURITY_PARAM - 1 : witness_bits + k \in state.witness}
    IN  [check |-> quicksilver_final(state.secparConst, state.const64,
                                     Coefficient(combine_mask_macs(state.macs, witness_bits))),
         proof |-> quicksilver_final(state.secparLinear, state.linear64, Coefficient(value_mask))]

TimesElement(p, x) ==
    XorOver(p, LAMBDA t : {<<t[1], <<t[2][1], t[2][2], a>>>> : a \in Times({t[2][3]}, x)})
quicksilver_verify(state, witness_bits, proof) ==
    Xor(TimesElement(proof, state.delta),
        quicksilver_final(state.secparConst, state.const64,
                          Coefficient(combine_mask_macs(state.macs, witness_bits))))
===============================================================================

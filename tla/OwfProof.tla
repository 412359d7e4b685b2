------------------------------ MODULE OwfProof ------------------------------
(***************************************************************************)
(* The one-way function, its witness (faest.c) and the constraints that    *)
(* prover and verifier make of it (owf_proof.c).  The code is written out  *)
(* for 137, 193 and 257 bits; here the size is a constant, of which        *)
(* SECURITY_PARAM bits are in the low half of a constraint and the rest in *)
(* the high half.  The tables are constants and so are the powers that the *)
(* S-boxes compute, which BlockField is about.                             *)
(***************************************************************************)
EXTENDS Quicksilver

CONSTANTS
    OWF_BITS,               \* 137, 193, 257
    OwfLow,                 \* the field's polynomial without the highest term
    OWF_KEY_WITNESS_BITS,   \* the bits in whole bytes: 144, 200, 264
    rc,                     \* three round constants
    mat,                    \* three matrices, a set of columns for each row
    mat_2_inv,
    pow_mat,                \* the powers by 2^e1 and 2^e2
    mersenne_inverse        \* tables of the S-boxes

OWF_ROUNDS == 2
OWF_CONSTRAINTS_PER_ROUND == 2
OWF_NUM_CONSTRAINTS == OWF_CONSTRAINTS_PER_ROUND * OWF_ROUNDS
WITNESS_BITS == 2 * OWF_KEY_WITNESS_BITS
Bit == 0 .. OWF_BITS - 1
HighBits == OWF_BITS - SECURITY_PARAM

MatrixTimes(matrix, block) == {row \in Bit : Cardinality(matrix[row] \cap block) % 2 = 1}

(* Round one's output is the second half of the witness.                   *)
FirstSbox(sk) == mersenne_inverse[1][Xor(MatrixTimes(mat[1], sk), rc[1])]
faest_compute_witness(sk) ==
    LET second == Xor(MatrixTimes(mat[2], Xor(FirstSbox(sk), sk)), rc[2])
        output == Xor(Xor(MatrixTimes(mat[3], mersenne_inverse[2][second]), rc[3]), Xor(second, sk))
    IN  [witness |-> sk \cup Up(FirstSbox(sk), OWF_KEY_WITNESS_BITS), owf_output |-> output]

-------------------------------------------------------------------------------
(* The bits of y times x^shift, reduced from the top.  Variant: the lower  *)
(* term of the polynomial is left out.                                     *)
FoldDown(state, tmp, pos, targets) ==
    [k \in DOMAIN tmp |->
        IF k = pos THEN quicksilver_zero_gf2
        ELSE IF k \in {pos - OWF_BITS + t : t \in targets} THEN quicksilver_add_gf2(state, tmp[k], tmp[pos])
        ELSE tmp[k]]
ShiftReduced(state, y, shift, targets) ==
    FoldLeft(LAMBDA tmp, k : FoldDown(state, tmp, 2 * OWF_BITS - 1 - k, targets),
             [k \in 0 .. 2 * OWF_BITS - 2 |->
                IF k - shift \in Bit THEN quicksilver_add_gf2(state, quicksilver_zero_gf2, y[k - shift])
                ELSE quicksilver_zero_gf2],
             [k \in 1 .. OWF_BITS - 1 |-> k])
shift_reduce_once(state, y, shift) == ShiftReduced(state, y, shift, {0})
shift_reduce(state, y, shift) == ShiftReduced(state, y, shift, OwfLow)

(* x y + z = 0, as a constraint of the low and one of the high bits.       *)
Low(state, bits) == quicksilver_combine_secpar_bits(state, bits)
High(state, bits) == quicksilver_combine_secpar_bits_not_full(state, bits, HighBits)
SumOfProducts(state, x, parts, z) ==
    LET one == quicksilver_one_gfsecpar(state)
    IN  FoldLeft(LAMBDA acc, k :
                    quicksilver_add_deg2(state, acc,
                        quicksilver_mul(state, quicksilver_combine_1_bit(state, x[k - 1]), parts[k])),
                 quicksilver_add_deg2(state, quicksilver_zero_deg2, quicksilver_mul(state, z, one)),
                 [k \in 1 .. OWF_BITS |-> k])
LowConstraint(state, x, L, z) ==
    quicksilver_constraint(state,
        SumOfProducts(state, x, [k \in 1 .. OWF_BITS |-> Low(state, L[k])], Low(state, z)))
HighConstraint(state, x, L, z) ==
    quicksilver_constraint(state,
        SumOfProducts(state, x, [k \in 1 .. OWF_BITS |-> High(state, L[k])], High(state, z)))
BothConstraints(state, x, L, z) == HighConstraint(LowConstraint(state, x, L, z), x, L, z)
mul_constraint(state, x, y, z) ==
    BothConstraints(state, x, [k \in 1 .. OWF_BITS |-> shift_reduce(state, y, k - 1)], z)

load_bits(state, word) ==
    [k \in Bit |-> IF k \in word THEN quicksilver_one_gf2(state) ELSE quicksilver_zero_gf2]
AddBits(state, x, y) == [k \in Bit |-> quicksilver_add_gf2(state, x[k], y[k])]
MultiplyBits(state, matrix, x) ==
    [row \in Bit |->
        FoldLeft(LAMBDA acc, col : IF col - 1 \in matrix[row] THEN quicksilver_add_gf2(state, acc, x[col - 1]) ELSE acc,
                 quicksilver_zero_gf2, [k \in 1 .. OWF_BITS |-> k])]

(* The input of an S-box times its output is the power of the output.      *)
(* The output of the second one is computed back from the public key.      *)
enc_constraints(state, out) ==
    LET witness(first) == [k \in Bit |-> quicksilver_get_witness_vec(state, first + k)]
        sk_bits == witness(0)
        inv_output1 == witness(OWF_KEY_WITNESS_BITS)
        inv_input1 == AddBits(state, MultiplyBits(state, mat[1], sk_bits), load_bits(state, rc[1]))
        inv_input2 == AddBits(state, MultiplyBits(state, mat[2], AddBits(state, inv_output1, sk_bits)),
                              load_bits(state, rc[2]))
        matrix2_output == AddBits(state, inv_input2,
                              AddBits(state, load_bits(state, rc[3]),
                                  AddBits(state, sk_bits, load_bits(state, out))))
        inv_output2 == MultiplyBits(state, mat_2_inv, matrix2_output)
    IN  mul_constraint(
            mul_constraint(state, inv_input1, inv_output1, MultiplyBits(state, pow_mat[1], inv_output1)),
            inv_input2, inv_output2, MultiplyBits(state, pow_mat[2], inv_output2))

-------------------------------------------------------------------------------
(* A proof for a witness, with delta, macs of the prover, and mask bits.   *)
(* The macs of the verifier are what the correlation makes them.           *)
ProofOf(witness, macs, delta, out) ==
    LET correlated == [k \in DOMAIN macs |-> IF k \in witness THEN Xor(macs[k], delta) ELSE macs[k]]
        Verified(sent) ==
            [prover |-> sent.check,
             verifier |-> quicksilver_verify(
                 enc_constraints(Verifier(correlated, OWF_NUM_CONSTRAINTS, delta), out), WITNESS_BITS, sent.proof)]
    IN  Verified(quicksilver_prove(enc_constraints(Prover(witness, macs, OWF_NUM_CONSTRAINTS), out), WITNESS_BITS))
===============================================================================

---------------------------- MODULE MCAlgorithms ----------------------------
(***************************************************************************)
(* The run over the algorithms: those of MCPrimitives, the consistency     *)
(* check, and the proof of the one-way function.                           *)
(***************************************************************************)
EXTENDS MCPrimitives

(* The consistency check at the real sizes of the three parameter sets, in *)
(* units of 16 bits, with two columns.                                     *)
V(size) == INSTANCE VoleCheck WITH SECURITY_PARAM <- size[1], QUICKSILVER_ROWS <- size[2], COLS <- 2
CheckSizes == {<<8, 26>>, <<12, 37>>, <<16, 49>>}
CheckRows == CheckSizes \X [1 .. 2 -> {0, 1}]
Units(size) == 1 .. size[2] + size[1] + 1
CheckCols(size) == {<<"none">>, <<"proof">>} \cup {<<"column", c, k>> : c \in 1 .. 2, k \in Units(size)}

Unknowns(size, name) == [k \in Units(size) |-> {<<name, k>>}]
U(size) == Unknowns(size, "u")
Vs(size) == <<Unknowns(size, "v1"), Unknowns(size, "v2")>>
Qs(size, delta, fault) ==
    [c \in 1 .. 2 |-> [k \in Units(size) |->
        B!Xor(B!Xor(Vs(size)[c][k], IF delta[c] = 1 THEN U(size)[k] ELSE {}),
              IF fault = <<"column", c, k>> THEN {<<"fault", k>>} ELSE {})]]

(* A column is hashed to the polynomial whose coefficients are its blocks, *)
(* and its 64-bit words, padded with zeros at the end, each at the power   *)
(* of its distance from the end; and both hashers are used up, as they     *)
(* assert (universal_hash.h 86, 168; vole_check.c 48-113).                 *)
HashOf(size, n, name) ==
    LET blocks == ((size[2] + size[1] - 1) \div size[1]) * (size[1] \div n)
    IN  {<<blocks - 1 - ((k - 1) \div n), (k - 1) % n, <<name, k>>>> : k \in 1 .. size[2]}
HashIsPolynomial ==
    Evaluated("check") =>
        LET h == V(row[1])!HashColumn(U(row[1]))
        IN  /\ h.secpar.state = HashOf(row[1], row[1][1], "u") /\ h.secpar.pow = -1
            /\ h.word.state = HashOf(row[1], 4, "u") /\ h.word.pow = -1

(* The verifier hashes what the signer did if its columns and the proof    *)
(* are what they should be.  A single wrong unit anywhere in a column, the *)
(* mask included, and a wrong proof if any bit of delta is set, make a     *)
(* difference that no challenge but a few hide (vole_check.c 113-135).     *)
CheckExact ==
    Evaluated("check") =>
        LET size == row[1]
            delta == row[2]
            sender == V(size)!vole_check_sender(U(size), Vs(size))
            proof == IF col[1] = "proof" THEN B!Xor(sender.proof, {<<1, "wrong", None>>}) ELSE sender.proof
            agrees == V(size)!vole_check_receiver(Qs(size, delta, col), delta, proof) = sender.check
        IN  agrees <=> (col[1] = "none" \/ (col[1] = "proof" /\ delta = <<0, 0>>))

-------------------------------------------------------------------------------
(* The proof of the one-way function over GF(16), which stands for the     *)
(* fields of 128, 192 and 256 bits; the one-way function has one bit more, *)
(* as for 193 and 257 bits, or three, as for 137 there are nine.           *)
LowOfOwf(n) == IF n = 5 THEN {0, 2} ELSE {0, 1}
OwfPower(n, e) == B!PowerModulo(n, LowOfOwf(n), e)
Linear(x, Bit(_)) == B!XorOver(x, Bit)
Scaled(n, x, e) == Linear(x, LAMBDA i : OwfPower(n, i + e))
Divided(n, x) == B!Xor(B!Up(x \ {0}, -1), IF 0 \in x THEN B!Up({n} \cup (LowOfOwf(n) \ {0}), -1) ELSE {})
Times(n, x, y) == Linear(y, LAMBDA e : Scaled(n, x, e))
Squared(n, x) == Linear(x, LAMBDA i : OwfPower(n, 2 * i))
Powered(n, x, e) == IF e = 2 THEN Squared(n, Squared(n, x)) ELSE Squared(n, Squared(n, Squared(n, x)))
MatrixOf(n, Map(_)) == [r \in 0 .. n - 1 |-> {c \in 0 .. n - 1 : r \in Map({c})}]
(* y to the power 2^e - 1, and its inverse. *)
Mersenne(n, y, e) == LET y3 == Times(n, y, Squared(n, y)) IN IF e = 2 THEN y3 ELSE Times(n, y, Squared(n, y3))
Inverted(power) == [x \in DOMAIN power |-> CHOOSE y \in DOMAIN power : power[y] = x]
Sbox(n, e) == Inverted([y \in SUBSET (0 .. n - 1) |-> Mersenne(n, y, e)])
Table5 == <<Sbox(5, 2), Sbox(5, 3)>>
Table7 == <<Sbox(7, 2), Sbox(7, 3)>>
Table(n) == IF n = 5 THEN Table5 ELSE Table7
Matrices3(n) ==
    <<MatrixOf(n, LAMBDA x : Scaled(n, x, 3)), MatrixOf(n, LAMBDA x : Scaled(n, Squared(n, x), 7)),
      MatrixOf(n, LAMBDA x : Scaled(n, x, 1))>>
Constants(n) ==
    [mat |-> Matrices3(n), inv |-> MatrixOf(n, LAMBDA x : Divided(n, x)),
     pow |-> <<MatrixOf(n, LAMBDA x : Powered(n, x, 2)), MatrixOf(n, LAMBDA x : Powered(n, x, 3))>>]
Constants5 == Constants(5)
Constants7 == Constants(7)
K(n) == IF n = 5 THEN Constants5 ELSE Constants7

O(n) == INSTANCE OwfProof WITH
            SECURITY_PARAM <- 4, FieldLow <- {0, 1}, BYTE <- 2,
            OWF_BITS <- n, OwfLow <- LowOfOwf(n), OWF_KEY_WITNESS_BITS <- n + 1,
            rc <- <<{0}, {1, 2}, {0, 3}>>, mat <- K(n).mat, mat_2_inv <- K(n).inv,
            pow_mat <- K(n).pow, mersenne_inverse <- Table(n)

(* Values of the prover's side and the same with the verifier's macs.      *)
Pairs == {{}, {2}, {0, 3}} \X {{}, {0}, {1, 3}}
OperationRows == (SUBSET (0 .. 3)) \X Pairs
OperationCols == Pairs \X {{}, {0}, {1, 2}}
Q == INSTANCE Quicksilver WITH SECURITY_PARAM <- 4, FieldLow <- {0, 1}, BYTE <- 2

(* Whatever the prover computes from values and macs, the verifier computes *)
(* from its macs the polynomial at delta: mac + delta value, and for a     *)
(* product the polynomial that is mac0 at zero, mac1 at one, and has the   *)
(* product of the values as its highest coefficient (quicksilver.h 28-46,  *)
(* 113-339).                                                               *)
OperationsAgree ==
    Evaluated("operation") =>
        LET delta == row[1]
            c == col[2]
            bit == c \cap {0}
            p == Q!Prover({}, <<>>, 0)
            v == Q!Verifier(<<>>, 0, delta)
            Mine(x) == [mac |-> x[1], value |-> x[2]]
            Other(x) == [mac |-> Q!Xor(x[1], Q!Times(delta, x[2]))]
            Linear1(a, b) == b.mac = Q!Xor(a.mac, Q!Times(delta, a.value))
            Linear2(a, b, value) ==
                b.mac0 = Q!XorAll(<<a.mac0, Q!Times(delta, Q!XorAll(<<a.mac0, a.mac1, value>>)),
                                    Q!Times(Q!Times(delta, delta), value)>>)
            x == row[2]
            y == col[1]
            product == Q!Times(x[2], y[2])
            mulP == Q!quicksilver_mul(p, Mine(x), Mine(y))
            mulV == Q!quicksilver_mul(v, Other(x), Other(y))
        IN  /\ Linear1(Q!quicksilver_add_gfsecpar(p, Mine(x), Mine(y)), Q!quicksilver_add_gfsecpar(v, Other(x), Other(y)))
            /\ Linear1(Q!quicksilver_add_gf2(p, Mine(x), Mine(y)), Q!quicksilver_add_gf2(v, Other(x), Other(y)))
            /\ Linear1(Q!quicksilver_one_gf2(p), Q!quicksilver_one_gf2(v))
            /\ Linear1(Q!quicksilver_one_gfsecpar(p), Q!quicksilver_one_gfsecpar(v))
            /\ Linear1(Q!quicksilver_const_gf2(p, bit), Q!quicksilver_const_gf2(v, bit))
            /\ Linear1(Q!quicksilver_const_gfsecpar(p, c), Q!quicksilver_const_gfsecpar(v, c))
            /\ Linear1(Q!quicksilver_const_secpar_bits(p, c), Q!quicksilver_const_secpar_bits(v, c))
            /\ Q!quicksilver_const_secpar_bits(p, c).value = c
            /\ Linear1(Q!quicksilver_mul_const(p, Mine(x), c), Q!quicksilver_mul_const(v, Other(x), c))
            /\ x[2] \subseteq {0} =>
                 /\ Linear1(Q!quicksilver_mul_const_gf2(p, Mine(x), bit), Q!quicksilver_mul_const_gf2(v, Other(x), bit))
                 /\ Linear1(Q!quicksilver_mul_const_gf2_gfsecpar(p, Mine(x), c),
                            Q!quicksilver_mul_const_gf2_gfsecpar(v, Other(x), c))
            /\ Linear2(mulP, mulV, product)
            /\ Linear2(Q!quicksilver_one_deg2(p), Q!quicksilver_one_deg2(v), {0})
            /\ Linear2(Q!quicksilver_const_deg2_gf2(p, bit), Q!quicksilver_const_deg2_gf2(v, bit), bit)
            /\ Linear2(Q!quicksilver_mul_const_deg2(p, mulP, c), Q!quicksilver_mul_const_deg2(v, mulV, c),
                       Q!Times(c, product))
            /\ Linear2(Q!quicksilver_mul_const_deg2_gf2(p, mulP, bit), Q!quicksilver_mul_const_deg2_gf2(v, mulV, bit),
                       Q!Times(bit, product))
            /\ Linear2(Q!quicksilver_add_deg2(p, mulP, Q!quicksilver_const_deg2(p, c)),
                       Q!quicksilver_add_deg2(v, mulV, Q!quicksilver_const_deg2(v, c)), Q!Xor(product, c))

(* The signer's witness, or one in which a bit of the key or of the first  *)
(* S-box is wrong, or another public key.                                  *)
ProofRows == ({5} \X SUBSET (0 .. 4)) \cup ({7} \X {{}, {0}, {6}, {1, 2, 5}})
ProofCols(n) ==
    ({<<"none", 0>>, <<"key", n - 1>>} \cup {<<"sbox", k>> : k \in {0, n - 1}} \cup {<<"output", 1>>})
        \X {{}, {0}, {1, 3}}
Macs(n, seed) ==
    [k \in 0 .. 2 * (n + 1) + 3 |-> {b \in 0 .. 3 : ((k * k + 3 * k + seed + b * k) % 7) % 2 = 1}]

Halves(c) == <<B!Below(c, 4), B!Up(c \ B!Below(c, 4), -4)>>
ConstraintValues(n, sk, y1, out) ==
    LET x1 == B!Xor(Scaled(n, sk, 3), {0})
        x2 == B!Xor(Scaled(n, Squared(n, B!Xor(y1, sk)), 7), {1, 2})
        y2 == Divided(n, B!XorAll(<<x2, {0, 3}, sk, out>>))
        c1 == B!Xor(Times(n, x1, y1), Powered(n, y1, 2))
        c2 == B!Xor(Times(n, x2, y2), Powered(n, y2, 3))
    IN  Halves(c1) \o Halves(c2)

ConstraintHash(delta, values) ==
    LET factor == B!Xor(Q!Times(delta, delta), delta)
    IN  UNION {{<<h, <<4 - i, 0, a>>>> : h \in {"secpar", "64"}, a \in Q!Times(factor, values[i])} : i \in 1 .. 4}
DiffersBy(proof, hash) == proof.verifier = B!Xor(proof.prover, hash)
ProofMatches(n, witness, out, delta, hash, honest) ==
    /\ DiffersBy(O(n)!ProofOf(witness \cup {2 * n + 2, 2 * n + 5}, Macs(n, Cardinality(delta)), delta, out), hash)
    /\ honest => hash = {}
WitnessMatches(n, witness, out, delta, honest) ==
    LET sk == B!Below(witness, n)
        y1 == B!Up(witness \ sk, -(n + 1))
    IN  ProofMatches(n, witness, out, delta, ConstraintHash(delta, ConstraintValues(n, sk, y1, out)), honest)

(* The check of the verifier is that of the prover plus delta^2 + delta    *)
(* times the hash of what the constraints are: x y + y^(2^e) for both      *)
(* S-boxes, in a low and a high part, all with their own power of the key. *)
(* So a proof by the signer's witness is accepted, and another one is not  *)
(* unless its constraints hold too, whichever half of whichever of them    *)
(* does not (owf_proof.c, quicksilver.c, faest.c 93-218).                  *)
ProofExact ==
    Evaluated("proof") =>
        LET n == row[1]
            kind == col[1][1]
            at == {col[1][2]}
            honest == O(n)!faest_compute_witness(row[2])
            wrong == CASE kind = "key" -> at [] kind = "sbox" -> B!Up(at, n + 1) [] OTHER -> {}
            other == IF kind = "output" THEN at ELSE {}
        IN  WitnessMatches(n, B!Xor(honest.witness, wrong), B!Xor(honest.owf_output, other), col[2], kind = "none")

-------------------------------------------------------------------------------
Init == unit = "none" /\ row = None /\ col = None

Choose(name, rows) ==
    /\ unit = "none"
    /\ unit' = name
    /\ row' \in rows
    /\ col' = None

Cols ==
    CASE unit = "field" -> FieldCols(row[1])
      [] unit = "polynomial" -> PolyCols
      [] unit = "transpose" -> TransposeCols(row[1], row[2])
      [] unit = "power" -> {<<0, {}>>}
      [] unit = "counter" -> [1 .. 2 -> (0 .. 7) \X {0, 4, 6, 7}]
      [] unit = "stack" -> {W!Called(row[1], row[2], {136})}
      [] unit = "table" -> {<<0, {j}, j>> : j \in {1, 64, row[1].n - 1}}
      [] unit = "stream" -> Ivs
      [] unit = "check" -> CheckCols(row[1])
      [] unit = "operation" -> OperationCols
      [] unit = "proof" -> ProofCols(row[1])
      [] OTHER -> {<<"all">>}
Evaluate ==
    /\ unit # "none" /\ col = None
    /\ col' \in Cols
    /\ UNCHANGED <<unit, row>>

Next ==
    \/ Choose("field", FieldRows)
    \/ Choose("chain", Chains)
    \/ Choose("power", Sboxes)
    \/ Choose("stack", W!Layouts \X DigitStrings)
    \/ Choose("table", {<<t>> : t \in F!PowerTables})
    \/ Choose("polynomial", {<<i>> : i \in 0 .. 511})
    \/ Choose("memory", {<<i>> : i \in 0 .. 511})
    \/ Choose("embedding", {128, 192, 256} \X ((0 .. 15) \cup {63, 64, 127}))
    \/ Choose("transpose", TransposeRows)
    \/ Choose("register", Registers)
    \/ Choose("schedule", {<<4>>, <<6>>, <<8>>})
    \/ Choose("rotation", {<<"both">>})
    \/ Choose("counter", CounterRows)
    \/ Choose("stream", Streams)
    \/ Choose("check", CheckRows)
    \/ Choose("operation", OperationRows)
    \/ Choose("proof", ProofRows)
    \/ Evaluate
    \/ SquareOrMultiply
    \/ SquareAgain
    \/ PowerStep
Spec == Init /\ [][Next]_vars
===============================================================================

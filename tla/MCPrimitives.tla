---------------------------- MODULE MCPrimitives ----------------------------
(***************************************************************************)
(* The algorithms that keep no state of their own, each compared with what *)
(* it is to compute.  A state is an algorithm and an input of it, chosen   *)
(* in two steps; only squaring and multiplying takes more.                 *)
(*                                                                         *)
(* What is linear or bilinear is taken on single bits, which determine it: *)
(* every bit, against the bits at the edges of words and blocks.           *)
(***************************************************************************)
EXTENDS Integers, Sequences, FiniteSets

VARIABLES unit, row, col
vars == <<unit, row, col>>
None == <<>>
Evaluated(u) == unit = u /\ col # None

B == INSTANCE BitPolys
F == INSTANCE BlockField
P == INSTANCE Embeddings
T == INSTANCE Transpose
C == INSTANCE BlockPrg

(* The polynomials of the fields without their highest terms, by the       *)
(* comments of block_impl.h, polynomials_impl.h and owf_proof.c.           *)
Low(n) == CASE n = 64 -> {0, 1, 3, 4} [] n = 128 -> {0, 1, 2, 7} [] n = 192 -> {0, 1, 2, 7}
            [] n = 256 -> {0, 2, 5, 10} [] n = 137 -> {0, 21} [] n = 193 -> {0, 15} [] n = 257 -> {0, 12}
                                                              [] n = 8 -> {0, 1, 3, 4}
Power(n, e) == B!PowerModulo(n, Low(n), e)

-------------------------------------------------------------------------------
FieldRows == {r \in F!FieldSizes \X (0 .. 256) : r[2] < r[1]}
FieldCols(n) == {<<j>> : j \in {0, 1, 63, 64, n - 1}}
Matrix(n) == [r \in 0 .. n - 1 |-> {r, ((7 * r) + 3) % n}]

(* What the words of an operand may have beyond the field: cleared by the  *)
(* product or not looked at.  The square of 193 bits takes its operand as  *)
(* it is, and the last word of 137 bits is always masked.                  *)
Stray(n) == CASE n \in {137, 192} -> 192 .. 255 [] n \in {193, 257} -> n .. n + 62 [] OTHER -> {}
StraySqr(n) == IF n = 193 THEN {} ELSE Stray(n)
(* In memory that is all ones, the blocks of 137 bits at words 0 and 4 and  *)
(* what becomes of words 8 to 11.                                          *)
Memory137(i, j) == {i, 64 * 4 + j} \cup (192 .. 255) \cup (448 .. 511)
StoresRegisters137(i, j) ==
    LET before == Memory137(i, j) \cup (512 .. 1023)
        After(p) == Memory137(i, j) \cup B!Up(p, 512) \cup (768 .. 1023)
    IN  /\ F!block137_mul(before, 8, 0, 4) = After(Power(137, i + j))
        /\ F!block137_sqr(before, 8, 4) = After(Power(137, 2 * j))

PackingCorrect(n, block) ==
    LET packed == F!faest_pack_public_key(n, 0 .. 399, block)
        stray == n .. 8 * ((n + 7) \div 8) - 1
    IN  /\ F!faest_unpack_secret_key(n, packed, TRUE) = block
        /\ B!Below(F!faest_unpack_public_key(n, packed), n) = block
        /\ \A b \in stray : /\ F!faest_unpack_secret_key(n, block \cup {b}, TRUE) = "abort"
                           /\ F!faest_unpack_secret_key(n, block \cup {b}, FALSE) = block

(* Products, squares and matrix products are those of the six fields: a    *)
(* mistake in one word of a schoolbook product or one shift of a reduction *)
(* shows in a few pairs of bits (block_impl.h).  What the words or the     *)
(* registers of an operand have beyond the field does not get in, and with *)
(* 137 bits the word behind the result, and no other, is lost.  A packed   *)
(* key is unpacked to the same element, whatever is behind it in memory,   *)
(* and a secret key with a bit beyond the field stops the program (faest.c *)
(* 27-65).  Above bit 192 the product with a transposed matrix of 256 bits *)
(* is left out, which the code does not write.                             *)
FieldCorrect ==
    Evaluated("field") =>
        LET n == row[1]
            i == row[2]
            j == col[1]
            Written(p) == B!Below(p, IF n = 256 THEN 192 ELSE n)
        IN  /\ F!FieldMul(n, {i} \cup Stray(n), {j} \cup Stray(n)) = Power(n, i + j)
            /\ F!FieldSqr(n, {i} \cup StraySqr(n)) = Power(n, 2 * i)
            /\ n = 137 => StoresRegisters137(i, j)
            /\ F!MatrixTimes(n, {i, j}, Matrix(n))
                 = B!XorOver({i, j}, LAMBDA k : {r \in 0 .. n - 1 : k \in Matrix(n)[r]})
            /\ n \in F!ByBits => PackingCorrect(n, {i, j})
            /\ n \in F!ByWords =>
                 Written(F!TransposedTimes(n, {i, j}, Matrix(n)))
                   = Written(B!XorOver({i, j}, LAMBDA k : Matrix(n)[k]))

(* The chains of doublings and sums end at the exponent of the inverse and *)
(* of the inverse of a Mersenne power, and so does square-and-multiply     *)
(* with the digits that the S-boxes have: d (2^e - 1) = 1 modulo 2^n - 1,  *)
(* at the powers that the tables pow_mat of greatwall.c are for, with      *)
(* which the proof multiplies: their second rows are those of squaring e   *)
(* times, in columns at the edges of words.                                *)
Chains == {<<128, F!block128_inverse, F!block128_mersenne_inverse, 3>>,
           <<192, F!block192_inverse, F!block192_mersenne_inverse, 5>>,
           <<256, F!block256_inverse, F!block256_mersenne_inverse, 3>>}
Sboxes == {<<137, 70>>, <<137, 75>>, <<193, 87>>, <<193, 107>>, <<257, 114>>, <<257, 124>>}
InvertsPower(n, d, e) == F!Doubled(n, d, e) = F!Sum(n, d, {0})
InversesCorrect ==
    /\ Evaluated("chain") =>
        /\ row[2] = 1 .. row[1] - 1
        /\ InvertsPower(row[1], row[3], row[4])
    /\ Evaluated("power") /\ col[1] = row[1] => InvertsPower(row[1], col[2], row[2])
    /\ Evaluated("table") /\ col[1] = row[1].squarings => (1 \in col[2] <=> col[3] \in row[1].secondRow)

SquareOrMultiply ==
    /\ Evaluated("power") /\ col[1] < row[1]
    /\ col' = <<col[1] + 1, F!PowBinStep(row[1], F!InverseDigits(row[1], row[2]), col[2], col[1] + 1)>>
    /\ UNCHANGED <<unit, row>>

(* The power in memory, for every order in which a compiler may place what *)
(* it keeps there.                                                         *)
W == INSTANCE PowBin WITH frame <- col
DigitStrings == {<<>>, <<"0", "1">>, <<"1", "x", "0", "1">>}
Exponent(digits) ==
    B!FoldLeft(LAMBDA e, d : CASE d = "0" -> 2 * e [] d = "1" -> 2 * e + 1 [] OTHER -> e, 0, digits)

(* A call of block137_pow_bin that returns has computed the power: the     *)
(* words of zeros behind tmp and result never get into base or result.     *)
(* And it returns unless a pointer of its own, or what is checked or       *)
(* restored on return, is right behind one of these two, which the         *)
(* language does not forbid (block.h 10-13; block_impl.h 274-276,          *)
(* 308-352).                                                               *)
PowerReturned ==
    Evaluated("stack") =>
        LET at == col.at
        IN  /\ col.pc = "returned" => col.value = Power(137, 136 * Exponent(col.digits))
            /\ col.pc = "crashed" =>
                 \E l \in W!WordLocals \cap DOMAIN at : at[l] \in {at["tmp"] + 3, at["result"] + 3}

PowerStep ==
    /\ Evaluated("stack")
    /\ W!PowNext
    /\ UNCHANGED <<unit, row>>

SquareAgain ==
    /\ Evaluated("table") /\ col[1] < row[1].squarings
    /\ col' = <<col[1] + 1, F!FieldSqr(row[1].n, col[2]), col[3]>>
    /\ UNCHANGED <<unit, row>>

-------------------------------------------------------------------------------
PolyCols == {<<j>> : j \in {0, 1, 63, 64, 65, 127, 128, 191, 192, 255}}
Product(i, n, j, m) == IF i < n /\ j < m THEN {i + j} ELSE {}

(* Bit i of a register and of memory, where all other bits are set: what   *)
(* is loaded, stored and compared, with an ignored half that may differ.   *)
Around(i) == (0 .. 511) \ {i}
MemoryCorrect(i) ==
    LET Loads(loaded, size) == B!Below(loaded, size) = B!Below(Around(i), size)
        Stores(stored, size) == stored = IF i < size THEN Around(i) ELSE 0 .. 511
        all == 0 .. 511
    IN  /\ Loads(P!Poly64Load(Around(i)), 64) /\ Loads(P!Poly128Load(Around(i)), 128)
        /\ Loads(P!Poly192Load(Around(i)), 192) /\ Loads(P!Poly256Load(Around(i)), 256)
        /\ \A there \in {{}, 320 .. 383} : Loads(P!Poly320Load(Around(i), there), 320)
        /\ Loads(P!Poly384Load(Around(i)), 384) /\ Loads(P!Poly512Load(Around(i)), 512)
        /\ Loads(P!Poly64LoadDup(Around(i)), 64) /\ Loads(P!Poly128LoadDup(Around(i)), 128)
        /\ Loads(P!Poly192LoadDup(Around(i)), 192) /\ Loads(P!Poly256LoadDup(Around(i)), 256)
        /\ Stores(P!Poly64Store(all, Around(i)), 64) /\ Stores(P!Poly128Store(all, Around(i)), 128)
        /\ Stores(P!Poly192Store(all, Around(i)), 192) /\ Stores(P!Poly256Store(all, Around(i)), 256)
        /\ Stores(P!Poly320Store(all, Around(i)), 320) /\ Stores(P!Poly384Store(all, Around(i)), 384)
        /\ Stores(P!Poly512Store(all, Around(i)), 512)
        /\ P!Poly64Eq(Around(i), all) = (i >= 64) /\ P!Poly128Eq(Around(i), all) = (i >= 128)
        /\ P!Poly192Eq(Around(i), all) = (i >= 192) /\ P!Poly256Eq(Around(i), all) = (i >= 256)
        /\ P!Poly320Eq(Around(i), all) = (i >= 320) /\ P!Poly384Eq(Around(i), all) = (i >= 384)
        /\ P!Poly512Eq(Around(i), all) = FALSE
        /\ i >= 192 => P!Poly384From192({i}) = {}

(* Bit i, or a polynomial at place i and zeros elsewhere.                  *)
Bits8(n, bits) ==
    CASE n = 128 -> P!Poly128From8Poly1(bits) [] n = 192 -> P!Poly192From8Poly1(bits)
      [] n = 256 -> P!Poly256From8Poly1(bits)
Bits16(n, bits) ==
    CASE n = 128 -> P!Poly128From16Poly1(bits) [] n = 192 -> P!Poly192From16Poly1(bits)
      [] n = 256 -> P!Poly256From16Poly1(bits)
Bits(n, bits) ==
    CASE n = 128 -> P!Poly128From128Poly1(bits) [] n = 192 -> P!Poly192From192Poly1(bits)
      [] n = 256 -> P!Poly256From256Poly1(bits)
Polys8(n, polys) ==
    CASE n = 128 -> P!Poly128From8Poly128(polys) [] n = 192 -> P!Poly192From8Poly192(polys)
      [] n = 256 -> P!Poly256From8Poly256(polys)
Polys16(n, polys) ==
    CASE n = 128 -> P!Poly128From16Poly128(polys) [] n = 192 -> P!Poly192From16Poly192(polys)
      [] n = 256 -> P!Poly256From16Poly256(polys)
Polys(n, polys) ==
    CASE n = 128 -> P!Poly128From128Poly128(polys) [] n = 192 -> P!Poly192From192Poly192(polys)
      [] n = 256 -> P!Poly256From256Poly256(polys)
Polys64(n, polys) ==
    CASE n = 128 -> P!Poly128From8Poly64(polys) [] n = 192 -> P!Poly192From8Poly64(polys)
      [] n = 256 -> P!Poly256From8Poly64(polys)
PolyTimes(n, x, y) ==
    CASE n = 128 -> P!Poly128Times(x, y) [] n = 192 -> P!Poly192Times(x, y) [] n = 256 -> P!Poly256Times(x, y)
Placed(i, poly, count) == [k \in 0 .. count - 1 |-> IF k = i THEN poly ELSE {}]
Used(n, p) == B!Below(p, n)

(* The bits of GF(2^8) and, for 128 bits, of GF(2^16) are embedded so that *)
(* products are those of the small field, which multiplying with its root  *)
(* determines; and as many bits as the field has are the element itself.   *)
(* Elements in the place of bits are mapped likewise, and what a register  *)
(* has in an ignored half never gets in.  Left out, as the code differs:   *)
(* GF(2^16) in 192 and 256 bits, whose roots have a wrong byte each        *)
(* (polynomials.c 657, 705); and the ignored half of the first of eight    *)
(* short polynomials for 128 bits (polynomials_impl.h 1055).               *)
GF16Power(e) == B!PowerModulo(16, {0, 1, 3, 5}, e)
EmbeddingCorrect(n, i) ==
    /\ i < 8 =>
        /\ Used(n, PolyTimes(n, Bits8(n, {i}), Bits8(n, {1}))) = Bits8(n, Power(8, i + 1))
        /\ Used(n, Polys8(n, Placed(i, {n - 1}, 8))) = Used(n, PolyTimes(n, {n - 1}, Bits8(n, {i})))
        /\ Used(n, Polys64(n, Placed(i, {63}, 8))) = Used(n, PolyTimes(n, {63}, Bits8(n, {i})))
        /\ n > 128 \/ i > 0 => Used(n, Polys64(n, Placed(i, {64, 127}, 8))) = {}
        /\ n = 192 => Used(n, Polys8(n, Placed(i, {192, 255}, 8))) = {}
    /\ i < 16 /\ n = 128 => PolyTimes(n, Bits16(n, {i}), Bits16(n, {1})) = Bits16(n, GF16Power(i + 1))
    /\ i < 16 =>
        Used(n, Polys16(n, Placed(i, {n - 1}, 16))) = Used(n, PolyTimes(n, {n - 1}, Bits16(n, {i})))
    /\ Bits(n, {i, n - 1}) = {i, n - 1}
    /\ Used(n, Polys(n, Placed(i, {n - 1}, n))) = Power(n, i + n - 1)

(* Polynomials are multiplied and reduced by the vector instructions as on *)
(* paper, and the ignored upper half of the last block never reaches the   *)
(* part of a result that is used (polynomials_impl.h): every product of    *)
(* Karatsuba and Toom, every carry of a reduction, powers, embeddings of   *)
(* smaller fields, and what is loaded, stored and compared.                *)
PolynomialsCorrect ==
    /\ Evaluated("polynomial") =>
        LET i == row[1]
            j == col[1]
            In(n) == i < n
        IN  /\ In(128) /\ j < 128 =>
                 /\ P!Poly128Mul({i}, {j}) = {i + j}
                 /\ P!Poly64Mul({i}, {j}) = Product(i, 64, j, 64)
                 /\ P!Poly64x128Mul({i}, {j}) = Product(i, 64, j, 128)
            /\ In(128) =>
                 /\ P!Poly64x192Mul({i}, {j}) = Product(i, 64, j, 192)
                 /\ P!Poly64x256Mul({i}, {j}) = Product(i, 64, j, 256)
                 /\ B!Below(P!Poly128Reduce64({i}), 64) = Power(64, i)
            /\ In(64) => B!Below(P!Poly64MulA64Reduce64({i}), 64) = Power(64, i + 64)
            /\ In(256) =>
                 /\ P!Poly192Mul({i}, {j}) = Product(i, 192, j, 192)
                 /\ P!Poly256Mul({i}, {j}) = Product(i, 256, j, 256)
                 /\ P!Poly256Reduce128({i}) = Power(128, i)
                 /\ P!Poly192Reduce128({i}) = IF i < 192 THEN Power(128, i) ELSE {}
                 /\ B!Below(P!Poly256Reduce192({i}), 192) = Power(192, i)
            /\ In(384) =>
                 /\ B!Below(P!Poly384Reduce192({i}), 192) = Power(192, i)
                 /\ P!Poly320Reduce256({i}) = IF i < 320 THEN Power(256, i) ELSE {}
            /\ P!Poly512Reduce256({i}) = Power(256, i)
            /\ P!ShiftLeft1({i}, 4) = {i + 1} \ {512}
            /\ P!ShiftLeft8({i}, 4) = B!Below({i + 8}, 512)
            /\ P!PolyExp(i) = i
    /\ Evaluated("memory") => MemoryCorrect(row[1])
    /\ Evaluated("embedding") => EmbeddingCorrect(row[1], row[2])

-------------------------------------------------------------------------------
TransposeRows == {<<n, r>> : n \in {128, 192, 256}, r \in 0 .. 255 \cup {511}}
TransposeCols(n, r) ==
    {<<c>> : c \in IF r \in {100, 511} THEN 0 .. n - 1 ELSE {0, 1, 17, 100, 127}}

Matrices(rows, cols) == [k \in 1 .. rows * cols |-> k - 1]
Transposed(rows, cols) == [k \in 1 .. rows * cols |-> ((k - 1) % rows) * cols + (k - 1) \div rows]
Line(k, cols) == SubSeq(Matrices(4, cols), cols * (k - 1) + 1, cols * k)
Registers == {
    <<T!transpose3x8_8(Matrices(3, 8)), Transposed(3, 8)>>,
    <<T!transpose4x8_8(Matrices(4, 8)), Transposed(4, 8)>>,
    <<T!transpose2x8_8(Matrices(2, 8)), Transposed(2, 8)>>,
    <<T!transpose8x2_8(Matrices(8, 2)), Transposed(8, 2)>>,
    <<T!transpose2x8_16(Matrices(2, 8)), Transposed(2, 8)>>,
    <<T!transpose2x2_64(Matrices(2, 2)), Transposed(2, 2)>>,
    <<T!FlattenSeq(T!transpose4x4_32([k \in 1 .. 4 |-> Line(k, 4)])), Transposed(4, 4)>>,
    <<T!FlattenSeq(T!transpose4x2_32(SubSeq(Matrices(4, 2), 1, 4), SubSeq(Matrices(4, 2), 5, 8))), Transposed(4, 2)>>,
    <<[k \in 1 .. 64 |-> Cardinality({e \in 0 .. 63 : T!transpose8x8_1({e}) = {k - 1}})], [k \in 1 .. 64 |-> 1]>>}

(* Every bit of the matrix of macs is written once, at its column in its   *)
(* row, though the last stage writes out both columns of each pair and the *)
(* first one is chosen by indices rotated within and between chunks        *)
(* (transpose.c).  The small transpositions transpose; of the one of eight *)
(* by eight bits, which is not used, only that no bit is lost.             *)
TransposeCorrect ==
    /\ Evaluated("transpose") =>
         T!transpose_secpar(row[1], col[1], row[2]) = {row[2] * row[1] + col[1]}
    /\ Evaluated("register") => row[1] = row[2]

-------------------------------------------------------------------------------
(* The key schedule of the standard, word by word.                         *)
RoundConstant(k) == B!FoldSet(LAMBDA b, sum : sum + 2^b, 0, Power(8, k - 1))
Schedule(nk, count) ==
    B!FoldRuns(LAMBDA s, i :
                 LET t == CASE i % nk = 0 -> C!Use(s, C!RotSub, s.words[i], RoundConstant(i \div nk))
                            [] nk = 8 /\ i % nk = 4 -> C!Use(s, C!SubOnly, s.words[i], 0)
                            [] OTHER -> s
                     last == IF t = s THEN s.words[i] ELSE C!Sboxed(t)
                 IN  [t EXCEPT !.words = Append(@, B!Xor(s.words[i - nk + 1], last))],
               C!RijndaelInit(nk), [k \in 1 .. count - nk |-> nk + k - 1])
Schedules(nk) ==
    {<<C!AesKeygen(nk), Schedule(nk, 4 * (nk + 7))>>}
      \cup (IF nk = 6 THEN {<<C!rijndael192_keygen, Schedule(6, 78)>>} ELSE {})
      \cup (IF nk = 8 THEN {<<C!rijndael256_keygen, Schedule(8, 120)>>} ELSE {})

State(cols) == [b \in 1 .. 4 * cols |-> b]
RotatedRows(cols, by) ==
    [b \in 1 .. 4 * cols |-> (4 * (((b - 1) \div 4 + by[((b - 1) % 4) + 1]) % cols)) + ((b - 1) % 4) + 1]
Rotated256 == C!rijndael256_rotate_rows_undo_128(<<SubSeq(State(8), 1, 16), SubSeq(State(8), 17, 32)>>)
Rotated192 == C!rijndael192_rotate_rows_undo_128(C!cvt192_to_2x128(State(6)))

(* Blocks of a generator, by the standard and the schedule above; the keys  *)
(* of Even and Mansour are added again at the end for 128 and 256 bits     *)
(* only, and a hash is one string.                                         *)
Keys3 == [k \in 1 .. 3 |-> <<"key", k>>]
RoundsOf(start, name, words, size, rounds) ==
    LET Key(r) == <<name, SubSeq(words, size * r + 1, size * (r + 1))>>
    IN  <<start, <<"add", Key(0)>>>> \o [r \in 1 .. rounds - 1 |-> <<"round", Key(r)>>] \o <<<<"last", Key(rounds)>>>>
IvPlus(iv, c) == LET s == (64 * iv[1] + iv[2] + c) % 4096 IN <<s \div 64, s % 64>>
Words4 == Schedule(4, 44).words
Words6 == Schedule(6, 52).words
Words8 == Schedule(8, 60).words
Words66 == Schedule(6, 78).words
Words88 == Schedule(8, 120).words
AesWords(nk) == CASE nk = 4 -> Words4 [] nk = 6 -> Words6 [] nk = 8 -> Words8
StreamBlock(kind, nk, iv, k, b) ==
    LET whitened == {<<"counter", b>>, Keys3[k]}
        Fixed(words, size, rounds) == RoundsOf(whitened, "fixed", words, size, rounds)
        again == <<<<"add", Keys3[k]>>>>
    IN  CASE kind = "shake" -> <<<<Keys3[k], iv, 0>>, b>>
          [] kind = "aes" -> RoundsOf(IvPlus(iv, b), k, AesWords(nk), 4, nk + 6)
          [] kind = "fixed key" /\ nk = 4 -> Fixed(Words4, 4, 10) \o again
          [] kind = "fixed key" /\ nk = 6 -> Fixed(Words66, 6, 12)
          [] kind = "fixed key" /\ nk = 8 -> Fixed(Words88, 8, 14) \o again
Streams == ({"aes", "fixed key"} \X {4, 6, 8} \X {2, 3, 11}) \cup ({"shake"} \X {4, 6, 8} \X {3})
Ivs == {<<0, 0>>, <<2, 58>>, <<63, 62>>}
(* What the keys are expanded to is their streams, a word after the other.  *)
StreamsCut(kind, nk, stretch, iv) ==
    LET words == stretch * (nk \div 2)
        blockWords == IF kind = "aes" THEN 2 ELSE nk \div 2
        stream == [k \in 1 .. 3 |-> [b \in 0 .. words \div blockWords |-> StreamBlock(kind, nk, iv, k, b)]]
    IN  C!expand_chunk(kind, nk, Keys3, [k \in 1 .. 3 |-> iv], stretch)
          = [p \in 0 .. 3 * words - 1 |->
                <<stream[(p \div words) + 1][(p % words) \div blockWords], (p % words) % blockWords>>]

(* The key schedules, which have most of the next words before the S-box   *)
(* is done, give every word its terms and use the S-box on the right words *)
(* in order; the exchange of bytes completes the rotation that the         *)
(* instruction does; and counter blocks are the initialization vector plus *)
(* the counter, whether or not the low word overflows (aes_impl.c,         *)
(* aes_impl.h 54-75, 126-145, 231-267).  However the blocks of a generator *)
(* are cut into calls, with the schedule of the key made along with the    *)
(* first, every key is expanded to its own stream, complete and in order   *)
(* (prgs.h; vector_com.c 23-96).                                           *)
CounterRows == {r \in (0 .. 3) \X (1 .. 3) : r[1] + r[2] <= 4}
Plus(iv, c) == LET s == (8 * iv[1] + iv[2] + c) % 64 IN <<s \div 8, s % 8>>
CipherCorrect ==
    /\ Evaluated("schedule") => \A s \in Schedules(row[1]) : s[1].words = s[2].words /\ s[1].uses = s[2].uses
    /\ Evaluated("rotation") =>
        /\ C!ShiftRows(Rotated256[1]) \o C!ShiftRows(Rotated256[2]) = RotatedRows(8, <<0, 1, 3, 4>>)
        /\ <<C!ShiftRows(Rotated192[1]), C!ShiftRows(Rotated192[2])>>
             = C!cvt192_to_2x128(RotatedRows(6, <<0, 1, 2, 3>>))
    /\ Evaluated("stream") => StreamsCut(row[1], row[2], row[3], col)
    /\ Evaluated("counter") =>
        C!CounterBlocks(col, row[2], row[1], 8, 4)
          = [k \in 1 .. 2 * row[2] |-> Plus(col[((k - 1) \div row[2]) + 1], row[1] + ((k - 1) % row[2]))]

===============================================================================

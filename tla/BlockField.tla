------------------------------ MODULE BlockField ------------------------------
(***************************************************************************)
(* Arithmetic in the six binary fields of avx2/block_impl.h, whose         *)
(* elements are blocks of 128 to 257 bits in 64-bit words.  Powers are     *)
(* followed by their exponents: a chain of squarings and products is one   *)
(* of doublings and sums modulo 2^n - 1.                                   *)
(***************************************************************************)
EXTENDS BitPolys

ByWords == {128, 192, 256}
ByBits == {137, 193, 257}
FieldSizes == ByWords \cup ByBits

(* Carry-less products of words, by the rows of the schoolbook method.  The *)
(* last word of the 193 and 257-bit blocks has a single bit.               *)
Schoolbook(words, p, q) ==
    XorOver((0 .. words - 1) \X (0 .. words - 1),
            LAMBDA w : Up(Clmul(Word(p, w[1]), Word(q, w[2])), 64 * (w[1] + w[2])))
clmul_schoolbook128(p, q) == Schoolbook(2, p, q)
clmul_schoolbook137(p, q) == Schoolbook(3, p, q)
clmul_schoolbook192(p, q) == Schoolbook(3, p, q)
clmul_schoolbook193(p, q) == Schoolbook(4, Below(p, 193), Below(q, 193))
clmul_schoolbook256(p, q) == Schoolbook(4, p, q)
clmul_schoolbook257(p, q) == Schoolbook(5, Below(p, 257), Below(q, 257))

(* A word at a time from the top, each one added where x^n sends it.       *)
(* Variant: only the top word.                                             *)
FoldWord(low, n, t, w) ==
    Xor({e \in t : e \div 64 # w}, Up(Clmul(low, Word(t, w)), 64 * w - n))
FoldTopWord(t) == FoldWord({0, 1, 2, 7}, 128, t, 3)
reduce_clmul128(t) ==
    LET p == {0, 1, 2, 7} IN FoldWord(p, 128, FoldWord(p, 128, t, 3), 2)
reduce_clmul192(t) ==
    LET p == {0, 1, 2, 7} IN FoldWord(p, 192, FoldWord(p, 192, FoldWord(p, 192, t, 5), 4), 3)
reduce_clmul256(t) ==
    LET p == {0, 2, 5, 10}
        high == FoldWord(p, 256, FoldWord(p, 256, t, 7), 6)
    IN  FoldWord(p, 256, FoldWord(p, 256, high, 5), 4)

(* From the top bit down, for every bit that is set; by words, for TLC.   *)
RECURSIVE ReduceBits(_, _, _, _, _)
ReduceBits(n, k, b, last, t) ==
    CASE b < last -> t
      [] b >= last /\ b \in t -> ReduceBits(n, k, b - 1, last, Xor(t \ {b}, {b - n, b - n + k}))
      [] b >= last /\ b \notin t -> ReduceBits(n, k, b - 1, last, t)
ReduceWords(n, k, words, t) ==
    FoldLeft(LAMBDA s, w : ReduceBits(n, k, 64 * w + 63, Max({n, 64 * w}), s), t,
             [i \in 1 .. words - (n \div 64) |-> words - i])
reduce_clmul137(t) == Below(ReduceWords(137, 21, 6, t), 137)
reduce_clmul193(t) == ReduceWords(193, 15, 8, t)
reduce_clmul257(t) == ReduceWords(257, 12, 10, t)

(* Nibbles go through a table of squares and back to alternate bytes.  The *)
(* last word of an odd number of words is unpacked alone.                  *)
Spread(words, p) ==
    {16 * (e \div 8) + 8 * ((e % 8) \div 4) + 2 * (e % 4) : e \in Below(p, 64 * words)}
sqr128(p) == Spread(2, p)
sqr137(p) == Spread(3, p)
sqr192(p) == Spread(3, p)
sqr193(p) == Spread(4, p)
sqr256(p) == Spread(4, p)
sqr257(p) == Spread(5, p)

gf128mul(p, q) == reduce_clmul128(clmul_schoolbook128(p, q))
gf192mul(p, q) == reduce_clmul192(clmul_schoolbook192(p, q))
gf256mul(p, q) == reduce_clmul256(clmul_schoolbook256(p, q))
block193_mul(p, q) == Below(reduce_clmul193(clmul_schoolbook193(p, q)), 193)
block257_mul(p, q) == Below(reduce_clmul257(clmul_schoolbook257(Below(p, 257), Below(q, 257))), 257)
gf128sqr(p) == reduce_clmul128(sqr128(p))
gf192sqr(p) == reduce_clmul192(sqr192(p))
gf256sqr(p) == reduce_clmul256(sqr256(p))
block193_sqr(p) == Below(reduce_clmul193(sqr193(p)), 193)
block257_sqr(p) == Below(reduce_clmul257(sqr257(Below(p, 257))), 257)

(* A block of 137 bits has three words but goes through two registers,     *)
(* which have four: of a block in memory, here at a word, the word behind  *)
(* it is read as well, and zeros are written over what is there.           *)
LoadRegisters(memory, at) == {b - 64 * at : b \in {c \in memory : c \div 64 \in at .. at + 3}}
StoreRegisters(memory, at, p) ==
    {b \in memory : b \div 64 \notin at .. at + 3} \cup Up(p, 64 * at)
block137_mask(memory, at) == memory \ (64 * at + 137 .. 64 * at + 191)
block137_mul(memory, out, a, b) ==
    LET t == clmul_schoolbook137(LoadRegisters(memory, a), LoadRegisters(memory, b))
    IN  block137_mask(StoreRegisters(memory, out, reduce_clmul137(t)), out)
block137_sqr(memory, out, in) ==
    LET t == sqr137(LoadRegisters(memory, in))
    IN  block137_mask(StoreRegisters(memory, out, reduce_clmul137(t)), out)
Block137At(memory, at) == Below(LoadRegisters(memory, at), 192)
(* Of operands that are apart, each with the word behind it.               *)
Product137(p, q) == Block137At(block137_mul(p \cup Up(q, 256), 8, 0, 4), 8)
Square137(p) == Block137At(block137_sqr(p, 4, 0), 4)

FieldMul(n, p, q) ==
    CASE n = 128 -> gf128mul(p, q) [] n = 137 -> Product137(p, q)
      [] n = 192 -> gf192mul(p, q) [] n = 193 -> block193_mul(p, q)
      [] n = 256 -> gf256mul(p, q) [] n = 257 -> block257_mul(p, q)
FieldSqr(n, p) ==
    CASE n = 128 -> gf128sqr(p) [] n = 137 -> Square137(p)
      [] n = 192 -> gf192sqr(p) [] n = 193 -> block193_sqr(p)
      [] n = 256 -> gf256sqr(p) [] n = 257 -> block257_sqr(p)

(* A matrix is its rows; a row of the result is the parity of the bits in  *)
(* common.  For a transposed matrix the rows of the set bits are added; at *)
(* 256 bits only 24 of the 32 bytes are written back.                      *)
ParityOfRows(rows, p) == {r \in DOMAIN rows : Cardinality(rows[r] \cap p) % 2 = 1}
block128_multiply_with_GF2_matrix(p, matrix) == ParityOfRows(matrix, p)
block192_multiply_with_GF2_matrix(p, matrix) == ParityOfRows(matrix, p)
block256_multiply_with_GF2_matrix(p, matrix) == ParityOfRows(matrix, p)
block137_multiply_with_GF2_matrix(p, matrix) == ParityOfRows(matrix, Below(p, 137))
block193_multiply_with_GF2_matrix(p, matrix) == ParityOfRows(matrix, Below(p, 193))
block257_multiply_with_GF2_matrix(p, matrix) == ParityOfRows(matrix, Below(p, 257))
block128_multiply_with_transposed_GF2_matrix(p, matrix) == XorOver(p, LAMBDA r : matrix[r])
block192_multiply_with_transposed_GF2_matrix(p, matrix) == XorOver(p, LAMBDA r : matrix[r])
block256_multiply_with_transposed_GF2_matrix(p, matrix) ==
    Below(XorOver(p, LAMBDA r : matrix[r]), 192) \cup (p \ Below(p, 192))

MatrixTimes(n, p, matrix) ==
    CASE n = 128 -> block128_multiply_with_GF2_matrix(p, matrix)
      [] n = 137 -> block137_multiply_with_GF2_matrix(p, matrix)
      [] n = 192 -> block192_multiply_with_GF2_matrix(p, matrix)
      [] n = 193 -> block193_multiply_with_GF2_matrix(p, matrix)
      [] n = 256 -> block256_multiply_with_GF2_matrix(p, matrix)
      [] n = 257 -> block257_multiply_with_GF2_matrix(p, matrix)
TransposedTimes(n, p, matrix) ==
    CASE n = 128 -> block128_multiply_with_transposed_GF2_matrix(p, matrix)
      [] n = 192 -> block192_multiply_with_transposed_GF2_matrix(p, matrix)
      [] n = 256 -> block256_multiply_with_transposed_GF2_matrix(p, matrix)

(* Packed elements: the last byte has the bits that a whole number of      *)
(* bytes does not hold.  Other bits set there stop the program if it       *)
(* checks assertions and are cleared if it does not.                       *)
Loaded(n, bits, asserts) ==
    IF asserts /\ bits # Below(bits, n) THEN "abort" ELSE Below(bits, n)
block137_load_to_block(bits, asserts) == Loaded(137, Below(bits, 144), asserts)
block193_load_to_block(bits, asserts) == Loaded(193, Below(bits, 200), asserts)
block257_load_to_block(bits, asserts) == Loaded(257, Below(bits, 264), asserts)
(* Back to memory: only the bytes that an element has bits in. *)
Stored(memory, block, bits) == Below(block, bits) \cup (memory \ Below(memory, bits))
block137_store_from_block(memory, block) == Stored(memory, block, 144)
block193_store_from_block(memory, block) == Stored(memory, block, 200)
block257_store_from_block(memory, block) == Stored(memory, Below(block, 257), 264)
faest_pack_public_key(n, memory, block) ==
    CASE n = 137 -> block137_store_from_block(memory, block)
      [] n = 193 -> block193_store_from_block(memory, block)
      [] n = 257 -> block257_store_from_block(memory, block)
faest_unpack_secret_key(n, packed, asserts) ==
    CASE n = 137 -> block137_load_to_block(packed, asserts)
      [] n = 193 -> block193_load_to_block(packed, asserts)
      [] n = 257 -> block257_load_to_block(packed, asserts)
(* As many words as a block has, whatever is behind the key in memory. *)
faest_unpack_public_key(n, packed) == Below(packed, 64 * ((n + 63) \div 64))

-------------------------------------------------------------------------------
(* Exponents modulo 2^n - 1, as the sets of their one bits. *)
Doubled(n, d, times) == {(e + times) % n : e \in d}
RECURSIVE Sum(_, _, _)
Sum(n, c, d) == IF c \cap d = {} THEN c \cup d ELSE Sum(n, Xor(c, d), Doubled(n, c \cap d, 1))

(* x^(2^n - 2) by a chain of x^(2^u - 1): each is the last one squared u_q *)
(* times and multiplied by an earlier one.  Variant: by itself.            *)
ChainStepSame(n, lengths, bs, q) ==
    Append(bs, Sum(n, Doubled(n, Last(bs), lengths[q + 1]), Last(bs)))
ChainStep(n, lengths, bs, q) ==
    Append(bs, Sum(n, Doubled(n, Last(bs), lengths[q + 1]), bs[q + 1]))
InverseChain(n, lengths, earlier) ==
    Doubled(n, Last(FoldLeft(LAMBDA bs, q : ChainStep(n, lengths, bs, q), <<{0}>>, earlier)), 1)
block128_inverse ==
    InverseChain(128, <<1, 2, 3, 6, 12, 24, 48, 51, 63, 126, 127>>, <<0, 0, 2, 3, 4, 5, 2, 4, 8, 0>>)
block192_inverse ==
    InverseChain(192, <<1, 2, 3, 5, 10, 20, 23, 46, 92, 95, 190, 191>>, <<0, 0, 1, 3, 4, 2, 6, 7, 2, 9, 0>>)
block256_inverse ==
    InverseChain(256, <<1, 2, 3, 6, 12, 15, 30, 60, 120, 240, 255>>, <<0, 0, 2, 3, 2, 5, 6, 7, 8, 5>>)

(* The inverse of x^(2^e - 1): runs of a few bits, doubled in length.      *)
Repeated(n, d, times, by) == Sum(n, Doubled(n, d, times), by)
block128_mersenne_inverse ==
    LET run3 == Doubled(128, {0}, 2)
        run6 == Repeated(128, run3, 3, run3)
        run12 == Repeated(128, run6, 6, run6)
        run24 == Repeated(128, run12, 12, run12)
        run60 == Repeated(128, Repeated(128, run24, 24, run24), 12, run12)
        run63 == Repeated(128, run60, 3, run3)
        run126 == Repeated(128, run63, 63, run63)
    IN  Repeated(128, run126, 1, {0})
block192_mersenne_inverse ==
    LET run5 == Doubled(192, Repeated(192, {0}, 2, {0}), 1)
        run10 == Repeated(192, run5, 5, run5)
        run20 == Repeated(192, run10, 10, run10)
        run40 == Repeated(192, run20, 20, run20)
        run80 == Repeated(192, run40, 40, run40)
        run180 == Repeated(192, Repeated(192, run80, 80, run80), 20, run20)
        run190 == Repeated(192, run180, 10, run10)
    IN  Repeated(192, run190, 2, {0})
block256_mersenne_inverse ==
    LET run3 == Doubled(256, Repeated(256, {0}, 1, {0}), 1)
        run6 == Repeated(256, run3, 3, run3)
        run15 == Repeated(256, Repeated(256, run6, 6, run6), 3, run3)
        run30 == Repeated(256, run15, 15, run15)
        run60 == Repeated(256, run30, 30, run30)
        run120 == Repeated(256, run60, 60, run60)
        run255 == Repeated(256, Repeated(256, run120, 120, run120), 15, run15)
    IN  Repeated(256, run255, 1, {0})

(* Square and multiply over a string of digits. *)
PowBinStep(n, digits, d, k) ==
    IF n - k \in digits THEN Sum(n, Doubled(n, d, 1), {0}) ELSE Doubled(n, d, 1)

block137_mersenne_inverse1 == Digits(<<\hB6DB6D, \hB6DB6D, \h76DB6D, \h6DB6DB, \h6DB6DB, \h01B6DB>>)
block137_mersenne_inverse2 == Digits(<<\h6DBB6D, \hB6EDB7, \hDBB6DD, \h6DDB6E, \hB76DBB, \h01B6ED>>)
block193_mersenne_inverse1 ==
    Digits(<<\h524A49, \h929252, \h949492, \h24A4A4, \h292925, \h494949, \h524A4A, \h929252, 0>>)
block193_mersenne_inverse2 ==
    Digits(<<\h2AAAA9, \hA55555, \h54AAAA, \hAA9555, \h554AAA, \hAAA955, \h55552A, \hAAAAA5, 0>>)
block257_mersenne_inverse1 ==
    Digits(<<\hAAAAA9, \h55554A, \hAAA955, \h552AAA, \hA55555, \h2AAAAA,
             \h555555, \hAAAAA5, \h5554AA, \hAA9555, \h00AAAA>>)
block257_mersenne_inverse2 ==
    Digits(<<\hA954A9, \h4AA552, \h552A95, \hA954AA, \h4AA552, \h954A95,
             \hAA552A, \h52A954, \h954AA5, \hAA552A, \h00A954>>)
InverseDigits(n, e) ==
    CASE n = 137 /\ e = 70 -> block137_mersenne_inverse1 [] n = 137 /\ e = 75 -> block137_mersenne_inverse2
      [] n = 193 /\ e = 87 -> block193_mersenne_inverse1 [] n = 193 /\ e = 107 -> block193_mersenne_inverse2
      [] n = 257 /\ e = 114 -> block257_mersenne_inverse1 [] n = 257 /\ e = 124 -> block257_mersenne_inverse2

(* The tables of greatwall.c for the powers by 2^e, as the matrices with   *)
(* which the proof multiplies.  A table is how many times it squares; its  *)
(* second row is here as it is in the source, to compare.                  *)
PowerTable(n, squarings, row) == [n |-> n, squarings |-> squarings, secondRow |-> Digits(row)]
greatwall_pow_mat_137_70 ==
    PowerTable(137, 70, <<\h349060, \hA9A1FE, \hFE4FB4, \h7FE5BA, \h33378E, \h00CF55>>)
greatwall_pow_mat_137_75 ==
    PowerTable(137, 75, <<\h6A5E12, \h113408, \hE62DAB, \h2BD6EE, \h4881E5, \h000E54>>)
greatwall_pow_mat_193_87 ==
    PowerTable(193, 87, <<\hF0713E, \h955EB2, \h5883FD, \hAF2E34, \h954B69, \h037CA5, \h947717, \h8BCF1A,
                           \h000001>>)
greatwall_pow_mat_193_107 ==
    PowerTable(193, 107, <<\hA4C7B2, \h9EEF79, \hFAED88, \h1E37F6, \h4859C3, \hEBF97D, \h03E13A, \hAE52A8>>)
greatwall_pow_mat_257_114 ==
    PowerTable(257, 114, <<\h979070, \h700C43, \hE6AED1, \h6D3AB4, \h478EB8, \hAF74F1, \hCB79BD, \h3616D1,
                           \hF9ACCA, \hB31940, \h00860C>>)
greatwall_pow_mat_257_124 ==
    PowerTable(257, 124, <<\h270806, \hB52985, \hE5629E, \h91B6D1, \h0B89ED, \h6C337C, \hE84A63, \h023A23,
                           \hCC3E7A, \h776B42, \h01CF16>>)
PowerTables ==
    {greatwall_pow_mat_137_70, greatwall_pow_mat_137_75, greatwall_pow_mat_193_87,
     greatwall_pow_mat_193_107, greatwall_pow_mat_257_114, greatwall_pow_mat_257_124}
===============================================================================

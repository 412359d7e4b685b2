------------------------------ MODULE Embeddings ------------------------------
(***************************************************************************)
(* How the polynomials of Polynomials get in and out of memory, and how    *)
(* bits become elements: those of GF(2^8) and GF(2^16) by a root of their  *)
(* polynomial in the larger field, and as many bits as the field has.      *)
(* Memory is a set of one bits, as registers are.                          *)
(***************************************************************************)
EXTENDS Polynomials

(* The half that is ignored is zero after some loads, and in others        *)
(* whatever was there.                                                     *)
Poly64Load(s) == Below(s, 64)
Poly128Load(s) == Below(s, 128)
Poly192Load(s) == Below(s, 192)
Poly256Load(s) == Below(s, 256)
Poly320Load(s, there) == Below(s, 320) \cup (there \ Below(there, 320))
Poly384Load(s) == Below(s, 384)
Poly512Load(s) == Below(s, 512)
Poly64LoadDup(s) == Below(s, 64)
Poly128LoadDup(s) == Below(s, 128)
Poly192LoadDup(s) == Below(s, 192)
Poly256LoadDup(s) == Below(s, 256)

(* What is at d afterwards. *)
Poly64Store(d, x) == Below(x, 64) \cup (d \ Below(d, 64))
Poly128Store(d, x) == Below(x, 128) \cup (d \ Below(d, 128))
Poly192Store(d, x) == Below(x, 192) \cup (d \ Below(d, 192))
Poly256Store(d, x) == Below(x, 256) \cup (d \ Below(d, 256))
Poly320Store(d, x) == Below(x, 320) \cup (d \ Below(d, 320))
Poly384Store(d, x) == Below(x, 384) \cup (d \ Below(d, 384))
Poly512Store(d, x) == Below(x, 512) \cup (d \ Below(d, 512))

Poly64Eq(x, y) == Word(x, 0) = Word(y, 0)
Poly128Eq(x, y) == Block(x, 0) = Block(y, 0)
Poly192Eq(x, y) == Block(x, 0) = Block(y, 0) /\ Word(x, 2) = Word(y, 2)
Poly256Eq(x, y) == \A k \in 0 .. 1 : Block(x, k) = Block(y, k)
Poly320Eq(x, y) == (\A k \in 0 .. 1 : Block(x, k) = Block(y, k)) /\ Word(x, 4) = Word(y, 4)
Poly384Eq(x, y) == \A k \in 0 .. 2 : Block(x, k) = Block(y, k)
Poly512Eq(x, y) == \A k \in 0 .. 3 : Block(x, k) = Block(y, k)

Poly256From128(x) == x
Poly384From192(x) == Blocks(<<Block(x, 0), Word(Block(x, 1), 0)>>)
Poly320From256(x) == x
Poly512From256(x) == x

(* A bit fills its byte, which fills the mask. *)
Poly1SetAll(bit) == IF bit THEN 0 .. 7 ELSE {}
Poly1ToBitMask(x) == {8 * k + b : k \in 0 .. 15, b \in x}
Poly1Mul(x, y) == LET mask == Poly1ToBitMask(x) IN {e \in y : e % 128 \in mask}
PolyFrom1(x) == x \cap {0}

-------------------------------------------------------------------------------
(* Powers of a root from the first one, those of GF(2^8) all, of GF(2^16)  *)
(* the root itself, and the monomials.                                     *)
gf8_in_gf128 == <<
    Digits(<<\h60CE0D, \hE8AC55, \h1CA13F, \hA9979A, \h3D8555, \h000005>>),
    Digits(<<\h88AEE1, \h59CA34, \h84EC77, \h9CBFBB, \hF4B743, \h00004C>>),
    Digits(<<\h3946A8, \h02AE36, \hC6BFCF, \h7D51D2, \hAD604F, \h000035>>),
    Digits(<<\h2E9849, \h30483C, \hFE6B83, \h40A222, \hCB3646, \h00000D>>),
    Digits(<<\h1B82B4, \h49277B, \hA5252B, \h1A88DE, \h9810E1, \h000054>>),
    Digits(<<\h21FF22, \hF2EF25, \h75C72B, \h6C0C1F, \h81A568, \h0000D6>>),
    Digits(<<\h36F9BC, \h8E94E1, \hE07A7A, \h4FB78F, \h50311A, \h000009>>)>>
gf8_in_gf192 == <<
    Digits(<<\h389763, \hA3D56F, \hEACCC8, \h966EBD, \h65D76C, \h3662E6, \h140E6B, \h310BC8>>),
    Digits(<<\hF450BB, \h619E7C, \h26B233, \hD5633F, \hF61F19, \hDB347B, \h26D491, \hDA9337>>),
    Digits(<<\h398A0D, \h2C13F5, \h199C6D, \h06328D, \h32E377, \h4EF682, \h703C75, \h0C3B0D>>),
    Digits(<<\h2BF75D, \h747CBD, \h2EDD20, \h0058D2, \h5542AB, \h12517A, \h9C94BC, \h45EC51>>),
    Digits(<<\hCE2BF8, \h0CE28A, \h84D8D5, \h67DEBE, \h168CB7, \h704508, \h6A4BA6, \hD67D14>>),
    Digits(<<\hD5E1BA, \h9C76EE, \h48970F, \h5FD720, \hEAF7AE, \hEA43F3, \h5F696C, \h29A6BD>>),
    Digits(<<\h068571, \h5DC265, \hD3F594, \h3906E9, \h19FD62, \hC4B060, \h540F87, \hC77C56>>)>>
gf8_in_gf256 == <<
    Digits(<<\hDEFEE7, \h88420B, \h679697, \hA0474E, \hD68D38, \hE16ABE, \h45F8F1, \hDF2298, \hC95833, \hA8CF20, \h0004C9>>),
    Digits(<<\h2289C1, \hF52AD5, \h2FA95A, \h2C4207, \hA5C48D, \hB0EA2B, \h376C00, \hD14A0D, \h5B4AF1, \h4D699C, \h00064E>>),
    Digits(<<\h809D1D, \hB3833F, \h5755DA, \h533B0F, \h71831E, \hAC1017, \h3FAD3F, \hFB9657, \h11F68D, \hE3DB70, \h006195>>),
    Digits(<<\h1BCDD5, \h0519B0, \hF6DE01, \h1A30E3, \h275891, \hA03F75, \hB6489E, \h2A0778, \h768838, \h4FD64F, \h0056C2>>),
    Digits(<<\h8A30B6, \hF529E9, \h8298C2, \h40F184, \hC4DBD4, \hA9811B, \h947D49, \h2FBE09, \h574FFC, \h0B6D71, \h002227>>),
    Digits(<<\h44670B, \hAFB9DE, \hBC9E75, \h66F1AF, \hED66C6, \h1F7EAC, \h3FF299, \hF00125, \hFA29F3, \h372FD1, \h00C03D>>),
    Digits(<<\h32E88B, \hB698B3, \h0DBA43, \h25B86F, \h37C4D6, \h154552, \h2AF4E8, \h2F652B, \h6B7BB8, \hEA09D2, \h00133E>>)>>
gf16_in_gf128 == Digits(<<\h587405, \h65D84A, \hA4F1ED, \h85D1A9, \h518B1A, \h000010>>)
gf16_in_gf192 == Digits(<<\h9FA4A0, \hDC26F2, \hC2E59A, \h98515E, \h323F36, \hFC1D42, \h4B5F23, \h00054B>>)
gf16_in_gf256 ==
    Digits(<<\h81000F, \h6DA2F8, \hB1F47A, \h2E787A, \h8415E9, \hAC2A90, \hB4250E, \h3ACACB, \h3B179B, \h21E8EE, \h0013B5>>)
gf_in_gf128 == [k \in 1 .. 127 |-> {k}]
gf_in_gf192 == [k \in 1 .. 191 |-> {k}]
gf_in_gf256 == [k \in 1 .. 255 |-> {k}]

Poly128Times(x, y) == Poly256Reduce128(Poly128Mul(x, y))
Poly192Times(x, y) == Poly384Reduce192(Poly192Mul(x, y))
Poly256Times(x, y) == Poly512Reduce256(Poly256Mul(x, y))
(* The root and its powers up to the one before count. *)
RootChain(root, count, Times(_, _)) ==
    FoldRuns(LAMBDA powers, i : Append(powers, Times(Last(powers), root)), <<root>>,
             [i \in 1 .. count - 2 |-> i])

Roots128 == RootChain(gf16_in_gf128, 16, Poly128Times)
Roots192 == RootChain(gf16_in_gf192, 16, Poly192Times)
Roots256 == RootChain(gf16_in_gf256, 16, Poly256Times)
Alphas192 == RootChain(gf_in_gf192[1], 192, Poly192Times)
Alphas256 == RootChain(gf_in_gf256[1], 256, Poly256Times)

(* Bits at the powers. *)
SumOfBits(bits, powers) ==
    FoldRuns(LAMBDA out, i : Xor(out, Poly1Mul(Poly1SetAll(i \in bits), powers[i])),
             PolyFrom1(Poly1SetAll(0 \in bits)), [i \in DOMAIN powers |-> i])
Poly128From8Poly1(bits) == SumOfBits(bits, gf8_in_gf128)
Poly192From8Poly1(bits) == SumOfBits(bits, gf8_in_gf192)
Poly256From8Poly1(bits) == SumOfBits(bits, gf8_in_gf256)
Poly128From16Poly1(bits) == SumOfBits(bits, Roots128)
Poly192From16Poly1(bits) == SumOfBits(bits, Roots192)
Poly256From16Poly1(bits) == SumOfBits(bits, Roots256)
Poly128From128Poly1(bits) == SumOfBits(bits, gf_in_gf128)
Poly192From192Poly1(bits) == SumOfBits(bits, Alphas192)
Poly256From256Poly1(bits) == SumOfBits(bits, Alphas256)

(* Polynomials at the powers, the first of them widened; reduced once.     *)
SumOfPolys(polys, widened, powers, Mul(_, _)) ==
    FoldRuns(LAMBDA out, i : Xor(out, Mul(polys[i], powers[i])), widened, [i \in DOMAIN powers |-> i])
Poly128Sum(polys, powers) == Poly256Reduce128(SumOfPolys(polys, Poly256From128(polys[0]), powers, Poly128Mul))
Poly192Sum(polys, powers) == Poly384Reduce192(SumOfPolys(polys, Poly384From192(polys[0]), powers, Poly192Mul))
Poly256Sum(polys, powers) == Poly512Reduce256(SumOfPolys(polys, Poly512From256(polys[0]), powers, Poly256Mul))
Poly128From8Poly128(polys) == Poly128Sum(polys, gf8_in_gf128)
Poly192From8Poly192(polys) == Poly192Sum(polys, gf8_in_gf192)
Poly256From8Poly256(polys) == Poly256Sum(polys, gf8_in_gf256)
Poly128From16Poly128(polys) == Poly128Sum(polys, Roots128)
Poly192From16Poly192(polys) == Poly192Sum(polys, Roots192)
Poly256From16Poly256(polys) == Poly256Sum(polys, Roots256)
Poly128From128Poly128(polys) == Poly128Sum(polys, gf_in_gf128)
Poly192From192Poly192(polys) == Poly192Sum(polys, Alphas192)
Poly256From256Poly256(polys) == Poly256Sum(polys, Alphas256)

(* Short polynomials.  For 128 bits the first one keeps its ignored half.  *)
Poly128From8Poly64(polys) ==
    Poly192Reduce128(SumOfPolys(polys, Poly192From128(polys[0]), gf8_in_gf128, Poly64x128Mul))
Poly192From8Poly64(polys) ==
    Poly256Reduce192(SumOfPolys(polys, Poly256From128(Poly128From64(polys[0])), gf8_in_gf192, Poly64x192Mul))
Poly256From8Poly64(polys) ==
    Poly320Reduce256(SumOfPolys(polys, Poly320From256(Poly256From128(Poly128From64(polys[0]))), gf8_in_gf256,
                                Poly64x256Mul))
===============================================================================

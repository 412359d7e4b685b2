----------------------------- MODULE Polynomials -----------------------------
(***************************************************************************)
(* The polynomials of avx2/polynomials_impl.h, one to a vector (the only   *)
(* length that the proof system compiles with).  A polynomial of a         *)
(* degree below 64, 192 or 320 is held in whole 128-bit blocks, whose last *)
(* 64 bits are ignored and may hold anything: a register is the set of its *)
(* one bits, the ignored ones included.                                    *)
(***************************************************************************)
EXTENDS BitPolys

gf64_modulus == {0, 1, 3, 4}
gf128_modulus == {0, 1, 2, 7}
gf192_modulus == {0, 1, 2, 7}
gf256_modulus == {0, 2, 5, 10}

(* The sum of x^(64 i) p_i, a pair of coefficients to a block. *)
CombinePoly128s(ps) ==
    LET n == Len(ps)
        Out(i) == CASE i = 0 -> Xor(ps[1], ShiftLeft64(ps[2]))
                    [] i \in 1 .. n \div 2 - 1 -> Xor(ps[2 * i + 1], Mix64(ps[2 * i + 2], ps[2 * i]))
                    [] i = n \div 2 /\ n % 2 = 1 -> Xor(ps[n], ShiftRight64(ps[n - 1]))
                    [] OTHER -> ShiftRight64(ps[n])
    IN  Blocks([k \in 1 .. n \div 2 + 1 |-> Out(k - 1)])

KaratsubaOtherSum(x, y, xForSum, yForSum) ==
    LET x1CatY0 == Mix64(yForSum, xForSum)
    IN  <<LL(x, y), LH(Xor(xForSum, x1CatY0), Xor(yForSum, x1CatY0)), HH(x, y)>>

MiddleSummed(k) == <<k[1], XorAll(k), k[3]>>
KaratsubaUncombined(x, y) == MiddleSummed(KaratsubaOtherSum(x, y, x, y))

Poly128Mul(x, y) == CombinePoly128s(KaratsubaUncombined(x, y))

(* Evaluated at 0, at infinity, at 1 and at a root of a^2 + a + 1. *)
Interpolated(atZero, atInfinity, atOne, k) ==
    LET atRoot0 == Xor(k[1], k[3])
        atRoot1 == Xor(k[1], k[2])
    IN  CombinePoly128s(<<atZero,
                          XorAll(<<atRoot0, atOne, atInfinity>>),
                          XorAll(<<atRoot0, atOne, atRoot1>>),
                          XorAll(<<atZero, atOne, atRoot1>>),
                          atInfinity>>)
Poly192Mul(x, y) ==
    LET x0 == Block(x, 0)
        x1 == Block(x, 1)
        y0 == Block(y, 0)
        y1 == Block(y, 1)
        atZero == LL(x0, y0)
        atInfinity == LL(x1, y1)
        cat == Mix64(Xor(y0, y1), x0)
        atOne == LH(XorAll(<<x0, x1, cat>>), Xor(y0, cat))
    IN  Interpolated(atZero, atInfinity, atOne,
            KaratsubaOtherSum(Xor(x0, BroadcastLow64(x1)), Xor(y0, BroadcastLow64(y1)), x0, y0))

KaratsubaCombined(low, high, sum) ==
    LET middle == Xor(low[3], high[1])
    IN  CombinePoly128s(<<low[1],
                          low[2],
                          XorAll(<<sum[1], low[1], middle>>),
                          XorAll(<<sum[2], low[2], high[2]>>),
                          XorAll(<<sum[3], high[3], middle>>),
                          high[2],
                          high[3]>>)
Poly256Mul(x, y) ==
    KaratsubaCombined(KaratsubaUncombined(Block(x, 0), Block(y, 0)),
                      KaratsubaUncombined(Block(x, 1), Block(y, 1)),
                      KaratsubaUncombined(Xor(Block(x, 0), Block(x, 1)), Xor(Block(y, 0), Block(y, 1))))

Poly64Mul(x, y) == LL(x, y)
Poly64x128Mul(x, y) == CombinePoly128s(<<LL(x, y), LH(x, y)>>)
Poly64x192Mul(x, y) == CombinePoly128s(<<LL(x, y), LH(x, y), LL(x, Block(y, 1))>>)
Poly64x256Mul(x, y) ==
    CombinePoly128s(<<LL(x, y), LH(x, y), LL(x, Block(y, 1)), LH(x, Block(y, 1))>>)

Poly128Reduce64(x) ==
    LET high == LH(gf64_modulus, x)
    IN  XorAll(<<x, high, LH(gf64_modulus, high)>>)
Poly64MulA64Reduce64(x) ==
    LET high == LL(gf64_modulus, x)
    IN  Xor(high, LH(gf64_modulus, high))
Poly256Reduce128(x) ==
    LET carry == LH(gf128_modulus, Block(x, 1))
        high == Xor(Block(x, 1), ShiftRight64(carry))
    IN  XorAll(<<Block(x, 0), ShiftLeft64(carry), LL(gf128_modulus, high)>>)
Poly384Reduce192(x) ==
    LET carry == LL(gf192_modulus, Block(x, 2))
        high == Xor(Block(x, 1), LH(gf192_modulus, Block(x, 2)))
    IN  Blocks(<<XorAll(<<Block(x, 0), ShiftLeft64(carry), LH(gf192_modulus, high)>>),
                 Xor(high, ShiftRight64(carry))>>)
Poly512Reduce256(x) ==
    LET carries == CombinePoly128s(<<{}, LH(gf256_modulus, Block(x, 2)),
                                     LL(gf256_modulus, Block(x, 3)), LH(gf256_modulus, Block(x, 3))>>)
        folded == Xor(carries, Below(x, 384))
    IN  Below(Xor(folded, LL(gf256_modulus, Block(folded, 2))), 256)
(* The high half of the last block is ignored; in the variant it is not.   *)
ReduceWholeBlock(x) == Blocks(<<Xor(Block(x, 0), Clmul(gf256_modulus, Block(x, 2))), Block(x, 1)>>)
Poly192Reduce128(x) == Xor(Block(x, 0), LL(gf128_modulus, Block(x, 1)))
Poly256Reduce192(x) == Blocks(<<Xor(Block(x, 0), LH(gf192_modulus, Block(x, 1))), Block(x, 1)>>)
Poly320Reduce256(x) == Blocks(<<Xor(Block(x, 0), LL(gf256_modulus, Block(x, 2))), Block(x, 1)>>)

(* Widening sets what was ignored to zero, or keeps it where it stays      *)
(* ignored.                                                                *)
Poly128From64(x) == Word(x, 0)
Poly192From128(x) == x
Poly256From192(x) == Blocks(<<Block(x, 0), Word(Block(x, 1), 0)>>)

(* 32-bit lanes are shifted and their top bits moved to the next lane, of  *)
(* the next block after the last; bytes likewise.                          *)
ShiftLeft1(x, chunks) ==
    LET low == {e + 1 : e \in {f \in x : f % 32 # 31}}
        high == {e - 31 : e \in {f \in x : f % 32 = 31}}
    IN  Below(Xor(low, Up(high, 32)), 128 * chunks)
ShiftLeft8(x, chunks) == Below(Up(x, 8), 128 * chunks)

-------------------------------------------------------------------------------
(* Powers of an element, by their exponent: squares for the binary digits  *)
(* of the power, the first of which is not multiplied but copied.          *)
ExpStep(s, power, i) ==
    LET taken == (power \div i) % 2 = 1
    IN  [base |-> IF 2 * i <= power THEN 2 * s.base ELSE s.base,
         result |-> CASE taken /\ s.first -> s.base [] taken /\ ~s.first -> s.result + s.base [] OTHER -> s.result,
         first |-> s.first /\ ~taken]
RECURSIVE ExpLoop(_, _, _)
ExpLoop(s, power, i) == IF i <= power THEN ExpLoop(ExpStep(s, power, i), power, 2 * i) ELSE s
PolyExp(power) == ExpLoop([base |-> 1, result |-> 0, first |-> TRUE], power, 1).result
===============================================================================

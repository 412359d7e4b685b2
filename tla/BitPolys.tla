------------------------------- MODULE BitPolys -------------------------------
(***************************************************************************)
(* Polynomials over GF(2) as the code keeps them in machine words: a       *)
(* register is the set of the positions of its one bits, exclusive or is   *)
(* symmetric difference, and a carry-less product adds positions.  The     *)
(* operators on 128-bit blocks are those of clmul_block in block_impl.h.   *)
(***************************************************************************)
EXTENDS Integers, Sequences, FiniteSetsExt, SequencesExt

Xor(p, q) == (p \ q) \cup (q \ p)
(* What is in an odd number of the sets. *)
XorAll(ps) ==
    {e \in UNION {ps[k] : k \in DOMAIN ps} : Cardinality({k \in DOMAIN ps : e \in ps[k]}) % 2 = 1}
XorOver(S, Term(_)) == FoldSet(LAMBDA i, acc : Xor(acc, Term(i)), {}, S)
(* A long fold in runs of 16, each of which starts from a value that is    *)
(* there already: TLC needs less of its stack.                             *)
RunOf(seq, k) == SubSeq(seq, 16 * k - 15, Min({16 * k, Len(seq)}))
FoldRuns(op(_, _), base, seq) ==
    FoldLeft(LAMBDA acc, k : CHOOSE r \in {FoldLeft(op, a, RunOf(seq, k)) : a \in {acc}} : TRUE,
             base, [k \in 1 .. (Len(seq) + 15) \div 16 |-> k])

Up(p, n) == {e + n : e \in p}
Below(p, n) == {e \in p : e < n}
Piece(p, k, n) == {e - k * n : e \in {f \in p : f \div n = k}}
Word(p, k) == Piece(p, k, 64)
Block(p, k) == Piece(p, k, 128)
Blocks(bs) == UNION {Up(bs[k], 128 * (k - 1)) : k \in DOMAIN bs}

Clmul(p, q) == XorOver(p, LAMBDA i : Up(q, i))

LL(x, y) == Clmul(Word(x, 0), Word(y, 0))
LH(x, y) == Clmul(Word(x, 0), Word(y, 1))
HH(x, y) == Clmul(Word(x, 1), Word(y, 1))
ShiftLeft64(x) == Up(Word(x, 0), 64)
ShiftRight64(x) == Word(x, 1)
Mix64(x, y) == Word(y, 1) \cup Up(Word(x, 0), 64)
BroadcastLow64(x) == Word(x, 0) \cup ShiftLeft64(x)

(* A long constant, by limbs of 24 bits from the lowest. *)
Digits(limbs) ==
    {24 * (k - 1) + b : k \in DOMAIN limbs, b \in 0 .. 23}
      \cap {d \in 0 .. 24 * Len(limbs) - 1 : (limbs[d \div 24 + 1] \div 2^(d % 24)) % 2 = 1}

(* x^e modulo x^n + low: what every reduction of the code is compared     *)
(* with.                                                                   *)
RECURSIVE PowerModulo(_, _, _)
PowerModulo(n, low, e) ==
    IF e < n THEN {e} ELSE XorOver(low, LAMBDA k : PowerModulo(n, low, e - n + k))
===============================================================================

-------------------------- MODULE SmallVoleProofs --------------------------
(***************************************************************************)
(* The small-field vole, for every length of vectors and every number of      *)
(* keys processed at once: the reduction by halves, Gray's code and the       *)
(* permutation of the keys together make columns of the bits, and receiver    *)
(* and sender end with q = v + delta u.                                      *)
(***************************************************************************)
EXTENDS SmallVole, PowersOfTwoProofs, FiniteSetTheorems

---------------------------------------------------------------------------
(* Sums.                                                                     *)
LEMMA PlusAssoc ==
  ASSUME NEW a, NEW b, NEW d
  PROVE  /\ Plus(Plus(a, b), d) = Plus(a, Plus(b, d))
         /\ Plus(a, b) = Plus(b, a)
         /\ Plus(a, {}) = a /\ Plus({}, a) = a
BY DEF Plus

(* The sum of the blocks of a chunk at some places.                          *)
Sum(in, T) == UNION {in[p] : p \in T}

Apart(in) == \A p, q \in 0 .. VOLE_WIDTH - 1 : p # q => in[p] \cap in[q] = {}

LEMMA SumPlus ==
  ASSUME NEW in, Apart(in),
         NEW S \in SUBSET (0 .. VOLE_WIDTH - 1), NEW T \in SUBSET (0 .. VOLE_WIDTH - 1),
         S \cap T = {}
  PROVE  Plus(Sum(in, S), Sum(in, T)) = Sum(in, S \cup T)
<1>1. Sum(in, S) \cap Sum(in, T) = {}
  BY DEF Sum, Apart
<1>2. Sum(in, S \cup T) = Sum(in, S) \cup Sum(in, T)
  BY DEF Sum
<1> QED
  BY <1>1, <1>2 DEF Plus

---------------------------------------------------------------------------
(* xor_reduce.                                                               *)
All(g, s)     == g .. g + Pow2[s] - 1
With(g, s, b) == {p \in All(g, s) : Bit(p, b)}

(* After s stages each group of 2^s blocks begins with its sum and those of  *)
(* its s bits.                                                               *)
Reduced(in, out, s) ==
  \A g \in 0 .. VOLE_WIDTH - 1 : g % Pow2[s] = 0 =>
    /\ out[g] = Sum(in, All(g, s))
    /\ \A b \in 0 .. s - 1 : out[g + b + 1] = Sum(in, With(g, s, b))

LEMMA Widths ==
  /\ VOLE_WIDTH_SHIFT \in Nat /\ VOLE_WIDTH = Pow2[VOLE_WIDTH_SHIFT] /\ VOLE_WIDTH \in Nat \ {0}
  /\ VOLE_MAX_K \in Nat \ {0}
  /\ \A n \in K : n \in Nat \ {0} /\ VOLE_WIDTH_SHIFT <= n /\ n <= VOLE_MAX_K
  /\ \A n \in Nat : Pow2[n] \in Nat \ {0}
BY SmallVoleAssumption, Pow2Values DEF VOLE_WIDTH

LEMMA BelowPow2 ==
  ASSUME NEW n \in Nat
  PROVE  n < Pow2[n]
<1> DEFINE A == {j \in Nat : j < Pow2[j]}
<1>1. 0 \in A /\ A \in SUBSET Nat
  BY Pow2Values
<1>2. ASSUME NEW j \in A PROVE j + 1 \in A
  BY Pow2Values
<1> HIDE DEF A
<1>3. n \in A
  BY <1>1, <1>2, UpTo
<1> QED
  BY <1>3 DEF A

(* The groups of a stage are halves of the groups of the next.               *)
LEMMA Halves ==
  ASSUME NEW s \in Nat, s < VOLE_WIDTH_SHIFT,
         NEW g \in 0 .. VOLE_WIDTH - 1, g % Pow2[s + 1] = 0
  PROVE  /\ Pow2[s + 1] = Pow2[s] + Pow2[s] /\ Pow2[s] \in Nat \ {0}
         /\ g % Pow2[s] = 0 /\ (g + Pow2[s]) % Pow2[s] = 0
         /\ g + Pow2[s + 1] <= VOLE_WIDTH
         /\ \A b \in 0 .. s - 1 :
              With(g, s + 1, b) = With(g, s, b) \cup With(g + Pow2[s], s, b)
         /\ With(g, s + 1, s) = All(g + Pow2[s], s)
<1> DEFINE w == Pow2[s]
           x == Pow2[s + 1]
           q == g \div x
<1>1. w \in Nat \ {0} /\ x = 2 * w /\ x = w + w /\ x \in Nat \ {0}
  BY Pow2Values
<1>2. g \in Nat /\ q \in Nat /\ g = x * q
  <2>1. g \in Nat /\ g % x = 0
    OBVIOUS
  <2> HIDE DEF x
  <2>2. q \in Nat /\ g = q * x
    BY <1>1, <2>1, Quotient
  <2> HIDE DEF q
  <2> QED
    BY <1>1, <2>1, <2>2
<1>3. g % w = 0 /\ (g + w) % w = 0
  <2>1. g = w * (2 * q) + 0
    <3> HIDE DEF w, x, q
    <3> QED
      BY <1>1, <1>2
  <2>2. 2 * q \in Nat /\ 0 \in 0 .. w - 1
    BY <1>1, <1>2
  <2> HIDE DEF w, q
  <2>3. (w * (2 * q) + 0) % w = 0
    BY <1>1, <2>2, QuotientUnique
  <2>4. g % w = 0
    BY <2>1, <2>3
  <2> QED
    BY <1>1, <1>2, <2>4, NextMultiple
<1>4. g + x <= VOLE_WIDTH
  <2> DEFINE h == Pow2[VOLE_WIDTH_SHIFT - (s + 1)]
  <2>1. h \in Nat /\ VOLE_WIDTH = h * x
    <3>1. s + 1 \in 0 .. VOLE_WIDTH_SHIFT /\ VOLE_WIDTH_SHIFT \in Nat
      BY Widths
    <3> QED
      BY <3>1, Widths, Pow2Split
  <2> HIDE DEF h, x, q
  <2>2. h * x = x * h /\ x * q < x * h
    BY <1>1, <1>2, <2>1
  <2>3. q < h
    <3>1. SUFFICES ASSUME h <= q PROVE FALSE
      BY <1>2, <2>1
    <3>2. x * h <= x * q /\ x * h \in Nat /\ x * q \in Nat
      BY <1>1, <1>2, <2>1, <3>1, MulMonotone
    <3> QED
      BY <2>2, <3>2
  <2>4. x * q + x <= x * h
    BY <1>1, <1>2, <2>1, <2>3, MulMonotone
  <2> QED
    BY <1>2, <2>1, <2>2, <2>4
<1>5. All(g, s + 1) = All(g, s) \cup All(g + w, s)
  BY <1>1, <1>2 DEF All
<1>6. \A b \in 0 .. s - 1 : With(g, s + 1, b) = With(g, s, b) \cup With(g + w, s, b)
  BY <1>5 DEF With
<1>7. \A p \in 0 .. w - 1 : Bit(g + w + p, s) /\ ~Bit(g + p, s)
  <2> SUFFICES ASSUME NEW p \in 0 .. w - 1 PROVE Bit(g + w + p, s) /\ ~Bit(g + p, s)
    OBVIOUS
  <2> DEFINE y == 2 * q
             z == 2 * q + 1
  <2>1. y \in Nat /\ z \in Nat /\ y % 2 = 0 /\ z % 2 = 1
    BY <1>2
  <2>2. g + p = w * y + p /\ g + w + p = w * z + p
    <3> HIDE DEF w, x, q
    <3>1. x * q = w * (2 * q) /\ w * (2 * q + 1) = w * (2 * q) + w /\ w * (2 * q) \in Nat
      BY <1>1, <1>2
    <3>2. y = 2 * q /\ z = 2 * q + 1
      OBVIOUS
    <3> HIDE DEF y, z
    <3> QED
      BY <1>1, <1>2, <3>1, <3>2
  <2> HIDE DEF y, z, w
  <2>3. (w * y + p) \div w = y /\ (w * z + p) \div w = z
    BY <1>1, <2>1, QuotientUnique
  <2>4. (g + p) \div w = y /\ (g + w + p) \div w = z
    BY <2>2, <2>3
  <2> QED
    BY <2>1, <2>4 DEF Bit, w
<1>8. With(g, s + 1, s) = All(g + w, s)
  <2>1. ASSUME NEW r \in All(g + w, s) PROVE Bit(r, s)
    <3>0. g \in Nat /\ w \in Nat
      BY <1>1
    <3>1. r - (g + w) \in 0 .. w - 1 /\ r = g + w + (r - (g + w))
      BY <3>0, <2>1 DEF All
    <3> QED
      BY <3>1, <1>7
  <2>2. ASSUME NEW r \in All(g, s) PROVE ~Bit(r, s)
    <3>0. g \in Nat /\ w \in Nat
      BY <1>1
    <3>1. r - g \in 0 .. w - 1 /\ r = g + (r - g)
      BY <3>0, <2>2 DEF All
    <3> QED
      BY <3>1, <1>7
  <2> QED
    BY <1>5, <2>1, <2>2 DEF With
<1> QED
  BY <1>1, <1>3, <1>4, <1>6, <1>8

LEMMA StageReduces ==
  ASSUME NEW in, Apart(in), NEW out, DOMAIN out = 0 .. VOLE_WIDTH - 1,
         NEW s \in Nat, s < VOLE_WIDTH_SHIFT, Reduced(in, out, s)
  PROVE  /\ DOMAIN ReduceStage(out, s) = 0 .. VOLE_WIDTH - 1
         /\ Reduced(in, ReduceStage(out, s), s + 1)
<1> DEFINE next == ReduceStage(out, s)
<1>1. DOMAIN next = 0 .. VOLE_WIDTH - 1
  BY DEF ReduceStage
<1>2. ASSUME NEW g \in 0 .. VOLE_WIDTH - 1, g % Pow2[s + 1] = 0
      PROVE  /\ next[g] = Sum(in, All(g, s + 1))
             /\ \A b \in 0 .. s : next[g + b + 1] = Sum(in, With(g, s + 1, b))
  <2> DEFINE w == Pow2[s]
             x == Pow2[s + 1]
             h == g + w
  <2>1. /\ x = w + w /\ w \in Nat \ {0} /\ g % w = 0 /\ h % w = 0 /\ g + x <= VOLE_WIDTH
        /\ \A b \in 0 .. s - 1 : With(g, s + 1, b) = With(g, s, b) \cup With(h, s, b)
        /\ With(g, s + 1, s) = All(h, s)
    BY <1>2, Halves
  <2>2. s + 1 < x /\ s < w /\ x \in Nat \ {0}
    <3>1. s + 1 \in Nat
      OBVIOUS
    <3>2. x \in Nat \ {0}
      BY <3>1, Pow2Values
    <3>3. s + 1 < x /\ s < w
      BY <3>1, BelowPow2
    <3> QED
      BY <3>2, <3>3
  <2>3. VOLE_WIDTH \in Nat /\ g \in Nat /\ h \in 0 .. VOLE_WIDTH - 1
    BY <2>1, Widths
  <2>4. /\ out[g] = Sum(in, All(g, s)) /\ out[h] = Sum(in, All(h, s))
        /\ \A b \in 0 .. s - 1 : /\ out[g + b + 1] = Sum(in, With(g, s, b))
                                 /\ out[h + b + 1] = Sum(in, With(h, s, b))
    BY <2>1, <2>3 DEF Reduced
  <2>5. \A d \in 0 .. s + 1 : g + d \in 0 .. VOLE_WIDTH - 1 /\ (g + d) % x = d
    <3> SUFFICES ASSUME NEW d \in 0 .. s + 1
                 PROVE  g + d \in 0 .. VOLE_WIDTH - 1 /\ (g + d) % x = d
      OBVIOUS
    <3>1. d \in 0 .. x - 1
      BY <2>1, <2>2
    <3>2. g + d \in g .. g + x - 1
      BY <2>1, <2>3, <3>1
    <3>3. (g + d) % x = (g + d) - g
      BY <1>2, <2>2, <2>3, <3>2, Multiples
    <3> HIDE DEF x, w
    <3> QED
      BY <2>1, <2>3, <3>1, <3>3
  <2>6. All(g, s) \cup All(h, s) = All(g, s + 1) /\ All(g, s) \cap All(h, s) = {}
    BY <2>1, <2>3, SMTT(30) DEF All
  <2>7. All(g, s) \subseteq 0 .. VOLE_WIDTH - 1 /\ All(h, s) \subseteq 0 .. VOLE_WIDTH - 1
    <3>1. w \in Nat /\ VOLE_WIDTH \in Nat /\ g \in Nat /\ h = g + w /\ h + w <= VOLE_WIDTH
      BY <2>1, <2>3
    <3>2. All(g, s) = g .. g + w - 1 /\ All(h, s) = h .. h + w - 1
      BY DEF All
    <3> HIDE DEF w, h
    <3> QED
      BY <3>1, <3>2
  <2> HIDE DEF x, h
  <2>8. ASSUME NEW d \in 0 .. s + 1
        PROVE  next[g + d] = IF d <= s THEN Plus(out[g + d], out[h + d]) ELSE out[h]
    <3>1. g + d \in 0 .. VOLE_WIDTH - 1 /\ (g + d) % x = d
      BY <2>5
    <3>2. next[g + d] = CASE d <= s    -> Plus(out[g + d], out[g + d + w])
                          [] d = s + 1 -> out[g + d - d + w]
                          [] OTHER     -> out[g + d]
      BY <3>1 DEF ReduceStage, x
    <3>3. g + d + w = h + d /\ g + d - d + w = h
      BY <2>1, <2>3 DEF h
    <3>4. CASE d <= s
      <4>1. next[g + d] = Plus(out[g + d], out[g + d + w])
        BY <3>2, <3>4
      <4> QED
        BY <3>3, <3>4, <4>1
    <3>5. CASE d = s + 1
      <4>1. ~(d <= s)
        BY <3>5
      <4>2. next[g + d] = out[g + d - d + w]
        BY <3>2, <3>5, <4>1
      <4> QED
        BY <3>3, <4>1, <4>2
    <3> QED
      BY <3>4, <3>5
  <2> HIDE DEF next, w
  <2>9. next[g] = Sum(in, All(g, s + 1))
    <3>1. next[g + 0] = Plus(out[g + 0], out[h + 0]) /\ g + 0 = g /\ h + 0 = h
      BY <2>3, <2>8
    <3>2. next[g] = Plus(Sum(in, All(g, s)), Sum(in, All(h, s)))
      BY <2>4, <3>1
    <3> QED
      BY <2>6, <2>7, <3>2, SumPlus
  <2>10. ASSUME NEW b \in 0 .. s PROVE next[g + b + 1] = Sum(in, With(g, s + 1, b))
    <3>1. g + b + 1 = g + (b + 1) /\ h + b + 1 = h + (b + 1) /\ b + 1 \in 0 .. s + 1
      BY <2>3
    <3>2. CASE b = s
      <4>1. next[g + b + 1] = out[h]
        BY <2>8, <3>1, <3>2
      <4> QED
        BY <2>1, <2>4, <3>2, <4>1
    <3>3. CASE b # s
      <4>1. b \in 0 .. s - 1
        BY <3>3
      <4>2. next[g + b + 1] = Plus(out[g + b + 1], out[h + b + 1])
        BY <2>8, <3>1, <4>1
      <4>3. next[g + b + 1] = Plus(Sum(in, With(g, s, b)), Sum(in, With(h, s, b)))
        BY <2>4, <4>1, <4>2
      <4>4. /\ With(g, s, b) \subseteq All(g, s) /\ With(h, s, b) \subseteq All(h, s)
        BY DEF With
      <4>5. Plus(Sum(in, With(g, s, b)), Sum(in, With(h, s, b)))
              = Sum(in, With(g, s, b) \cup With(h, s, b))
        BY <2>6, <2>7, <4>4, SumPlus
      <4> QED
        BY <2>1, <4>1, <4>3, <4>5
    <3> QED
      BY <3>2, <3>3
  <2> QED
    BY <2>9, <2>10
<1>3. s + 1 - 1 = s
  OBVIOUS
<1> QED
  BY <1>1, <1>2, <1>3 DEF Reduced

(* The stages, as far as the n-th.                                           *)
IsReduction(g, in, n) ==
  g = [s \in 0 .. n |-> IF s = 0 THEN in ELSE ReduceStage(g[s - 1], s - 1)]

LEMMA ReductionExists ==
  ASSUME NEW in, NEW n \in Nat
  PROVE  \E g : IsReduction(g, in, n)
<1> DEFINE A == {j \in Nat : \E g : IsReduction(g, in, j)}
<1>1. 0 \in A
  <2>1. IsReduction([s \in 0 .. 0 |-> in], in, 0)
    BY DEF IsReduction
  <2> QED
    BY <2>1
<1>2. ASSUME NEW j \in A PROVE j + 1 \in A
  <2>1. PICK g : IsReduction(g, in, j)
    OBVIOUS
  <2> DEFINE W(f, s) == ReduceStage(f, s - 1)
             w == W(g[j], j + 1)
             f == [s \in 0 .. j + 1 |-> IF s = j + 1 THEN w ELSE g[s]]
  <2>2. j \in Nat /\ j + 1 \in Nat
    OBVIOUS
  <2>3. ASSUME NEW s \in 0 .. j PROVE g[s] = IF s = 0 THEN in ELSE W(g[s - 1], s)
    BY <2>1 DEF IsReduction
  <2> HIDE DEF W
  <2>4. ASSUME NEW s \in 0 .. j + 1 PROVE f[s] = IF s = 0 THEN in ELSE W(f[s - 1], s)
    <3>1. CASE s = j + 1
      <4>1. f[s] = w /\ s # 0 /\ s - 1 = j /\ j \in 0 .. j + 1 /\ j # j + 1
        BY <2>2, <3>1
      <4>2. f[s - 1] = g[j]
        BY <4>1
      <4> HIDE DEF f
      <4> QED
        BY <3>1, <4>1, <4>2
    <3>2. CASE s # j + 1
      <4>1. s \in 0 .. j /\ f[s] = g[s]
        BY <2>2, <3>2
      <4>2. s # 0 => s - 1 \in 0 .. j + 1 /\ s - 1 # j + 1 /\ f[s - 1] = g[s - 1]
        BY <2>2, <4>1
      <4> HIDE DEF f
      <4> QED
        BY <2>3, <4>1, <4>2
    <3> QED
      BY <3>1, <3>2
  <2>5. f = [s \in 0 .. j + 1 |-> f[s]]
    OBVIOUS
  <2> HIDE DEF f
  <2>6. f = [s \in 0 .. j + 1 |-> IF s = 0 THEN in ELSE W(f[s - 1], s)]
    BY <2>4, <2>5
  <2>7. IsReduction(f, in, j + 1)
    BY <2>6, Zenon DEF IsReduction, W
  <2> QED
    BY <2>2, <2>7
<1> HIDE DEF A
<1>3. A \in SUBSET Nat
  BY DEF A
<1>4. n \in A
  BY <1>1, <1>2, <1>3, UpTo
<1> QED
  BY <1>4 DEF A

(* What xor_reduce makes of a chunk: its sum, and for each bit of the places *)
(* the sum of those that have it (small_vole.c:19).                          *)
LEMMA ReduceValue ==
  ASSUME NEW in, Apart(in), DOMAIN in = 0 .. VOLE_WIDTH - 1
  PROVE  /\ xor_reduce(in)[0] = Sum(in, 0 .. VOLE_WIDTH - 1)
         /\ \A b \in 0 .. VOLE_WIDTH_SHIFT - 1 :
              xor_reduce(in)[b + 1] = Sum(in, {p \in 0 .. VOLE_WIDTH - 1 : Bit(p, b)})
<1> DEFINE n == VOLE_WIDTH_SHIFT
           G == CHOOSE g : IsReduction(g, in, n)
<1>1. n \in Nat
  BY Widths
<1>2. IsReduction(G, in, n)
  BY <1>1, ReductionExists
<1>3. xor_reduce(in) = G[n]
  BY DEF xor_reduce, IsReduction
<1> HIDE DEF G, n
<1> DEFINE A == {j \in Nat : j <= n => DOMAIN G[j] = 0 .. VOLE_WIDTH - 1 /\ Reduced(in, G[j], j)}
<1>4. 0 \in A /\ A \in SUBSET Nat
  <2>1. G[0] = in
    BY <1>1, <1>2 DEF IsReduction
  <2>2. Reduced(in, in, 0)
    <3> SUFFICES ASSUME NEW g \in 0 .. VOLE_WIDTH - 1 PROVE in[g] = Sum(in, All(g, 0))
      BY DEF Reduced
    <3>1. All(g, 0) = {g}
      BY Pow2Values DEF All
    <3> QED
      BY <3>1 DEF Sum
  <2> QED
    BY <2>1, <2>2
<1>5. ASSUME NEW j \in A PROVE j + 1 \in A
  <2> SUFFICES ASSUME j + 1 <= n
               PROVE  DOMAIN G[j + 1] = 0 .. VOLE_WIDTH - 1 /\ Reduced(in, G[j + 1], j + 1)
    OBVIOUS
  <2>1. j \in Nat /\ j < n /\ j + 1 \in 0 .. n /\ j + 1 # 0 /\ j + 1 - 1 = j
    BY <1>1
  <2>2. G[j + 1] = ReduceStage(G[j], j)
    <3>1. \A s \in 0 .. n : s # 0 => G[s] = ReduceStage(G[s - 1], s - 1)
      BY <1>2 DEF IsReduction
    <3>2. G[j + 1] = ReduceStage(G[j + 1 - 1], j + 1 - 1)
      BY <2>1, <3>1
    <3> QED
      BY <2>1, <3>2, Zenon
  <2>3. DOMAIN G[j] = 0 .. VOLE_WIDTH - 1 /\ Reduced(in, G[j], j)
    BY <1>1, <2>1
  <2> QED
    BY <2>1, <2>2, <2>3, StageReduces DEF n
<1> HIDE DEF A
<1>6. n \in A
  BY <1>1, <1>4, <1>5, UpTo
<1>7. Reduced(in, xor_reduce(in), n)
  BY <1>1, <1>3, <1>6 DEF A
<1>8. 0 \in 0 .. VOLE_WIDTH - 1 /\ 0 % Pow2[n] = 0 /\ Pow2[n] = VOLE_WIDTH
  BY Widths DEF n
<1>9. All(0, n) = 0 .. VOLE_WIDTH - 1
  BY <1>8, Widths DEF All
<1>10. \A b \in 0 .. n - 1 : 0 + b + 1 = b + 1
  BY <1>1
<1>11. \A b \in 0 .. n - 1 : With(0, n, b) = {p \in 0 .. VOLE_WIDTH - 1 : Bit(p, b)}
  BY <1>9 DEF With
<1>12. /\ xor_reduce(in)[0] = Sum(in, All(0, n))
       /\ \A b \in 0 .. n - 1 : xor_reduce(in)[0 + b + 1] = Sum(in, With(0, n, b))
  BY <1>7, <1>8 DEF Reduced
<1> QED
  BY <1>9, <1>10, <1>11, <1>12 DEF n

---------------------------------------------------------------------------
(* The permutation of the keys.                                              *)
Gray(n, b) == Bit(n, b) # Bit(n, b + 1)

LEMMA IndexDef ==
  ASSUME NEW n \in K
  PROVE  /\ n \in Nat \ {0} /\ VOLE_WIDTH_SHIFT <= n /\ n <= VOLE_MAX_K
         /\ Index(n) \subseteq Nat /\ 0 \in Index(n) /\ Index(n) \subseteq Index(VOLE_MAX_K)
         /\ \A x \in Nat : x \in Index(n) <=> x < Pow2[n]
         /\ \A x \in Index(n), b \in Nat : n <= b => ~Bit(x, b)
<1>1. n \in Nat \ {0} /\ VOLE_WIDTH_SHIFT <= n /\ n <= VOLE_MAX_K /\ VOLE_MAX_K \in Nat
  BY Widths
<1>2. Pow2[n] \in Nat \ {0} /\ Pow2[VOLE_MAX_K] \in Nat /\ Pow2[n] <= Pow2[VOLE_MAX_K]
  BY <1>1, Pow2Values, Pow2Monotone
<1>3. \A x \in Nat : x \in Index(n) <=> x < Pow2[n]
  BY <1>2 DEF Index
<1>4. Index(n) \subseteq Nat /\ 0 \in Index(n) /\ Index(n) \subseteq Index(VOLE_MAX_K)
  BY <1>2 DEF Index
<1>5. ASSUME NEW x \in Index(n), NEW b \in Nat, n <= b PROVE ~Bit(x, b)
  BY <1>1, <1>3, <1>4, <1>5, NoBits
<1> QED
  BY <1>1, <1>3, <1>4, <1>5

(* Indices with the same bits are the same.                                  *)
LEMMA SameBits ==
  ASSUME NEW n \in K, NEW x \in Index(n), NEW y \in Index(n),
         \A b \in 0 .. n - 1 : Bit(x, b) <=> Bit(y, b)
  PROVE  x = y
<1>1. x \in Nat /\ y \in Nat /\ x < Pow2[n] /\ y < Pow2[n] /\ n \in Nat
  BY IndexDef
<1>2. x \div Pow2[n] = 0 /\ y \div Pow2[n] = 0
  BY <1>1, NoBits
<1>3. x \div Pow2[0] = y \div Pow2[0]
  BY <1>1, <1>2, HighBits, 0 \in Nat
<1>4. Pow2[0] = 1 /\ x \div 1 = x /\ y \div 1 = y
  BY <1>1, Pow2Values
<1> QED
  BY <1>3, <1>4

(* Exclusive or stays among the indices of a vector.                         *)
LEMMA XorBits ==
  ASSUME NEW n \in K, NEW x \in Index(n), NEW y \in Index(n)
  PROVE  /\ XorIndex(x, y) \in Index(n)
         /\ \A b \in 0 .. n - 1 : Bit(XorIndex(x, y), b) <=> (Bit(x, b) # Bit(y, b))
<1> DEFINE z == XorIndex(x, y)
           m == VOLE_MAX_K
<1>1. /\ n \in Nat /\ n <= m /\ m \in Nat /\ x \in Index(m) /\ y \in Index(m)
      /\ x \in Nat /\ y \in Nat
  BY IndexDef, Widths
<1>2. z \in Index(m) /\ \A b \in 0 .. m - 1 : Bit(z, b) <=> (Bit(x, b) # Bit(y, b))
  BY <1>1, XorAssumption
<1>3. z \in Nat /\ z < Pow2[m]
  BY <1>1, <1>2, Pow2Values DEF Index
<1> HIDE DEF z, m
<1>4. \A b \in n .. m - 1 : ~Bit(x, b) /\ ~Bit(y, b)
  BY <1>1, IndexDef
<1>5. \A b \in n .. m - 1 : Bit(z, b) <=> Bit(0, b)
  <2> SUFFICES ASSUME NEW b \in n .. m - 1 PROVE Bit(z, b) <=> Bit(0, b)
    OBVIOUS
  <2>1. b \in Nat /\ b \in 0 .. m - 1 /\ 0 < Pow2[0] /\ 0 <= b
    BY <1>1, Pow2Values
  <2>2. ~Bit(0, b)
    BY <2>1, NoBits, 0 \in Nat
  <2>3. ~Bit(x, b) /\ ~Bit(y, b)
    BY <1>4
  <2>4. Bit(x, b) \in BOOLEAN /\ Bit(y, b) \in BOOLEAN
    BY DEF Bit
  <2>5. ~(Bit(x, b) # Bit(y, b))
    BY <2>3, <2>4, Zenon
  <2> QED
    BY <1>2, <2>1, <2>2, <2>5, Zenon
<1>6. z \div Pow2[m] = 0 /\ 0 \div Pow2[m] = 0 /\ 0 \div Pow2[n] = 0
  <2>1. 0 < Pow2[0] /\ 0 <= m /\ 0 <= n
    BY <1>1, Pow2Values
  <2> QED
    BY <1>1, <1>3, <2>1, NoBits, 0 \in Nat
<1>7. z \div Pow2[n] = 0
  BY <1>1, <1>3, <1>5, <1>6, HighBits, 0 \in Nat
<1>8. z < Pow2[n]
  BY <1>1, <1>3, <1>7, BelowPower
<1> QED
  BY <1>1, <1>2, <1>3, <1>8, IndexDef DEF z

(* The number of the chunk becomes Gray's code (small_vole.h:39-40).          *)
LEMMA PermutedBits ==
  ASSUME NEW n \in K, NEW x \in Index(n)
  PROVE  /\ vole_permute_key_index(x) \in Index(n)
         /\ \A b \in 0 .. n - 1 : Bit(vole_permute_key_index(x), b)
                                    <=> IF b < VOLE_WIDTH_SHIFT THEN Bit(x, b) ELSE Gray(x, b)
<1> DEFINE w == VOLE_WIDTH
           s == VOLE_WIDTH_SHIFT
           h == x \div 2
           y == h - (h % w)
           q == h \div w
<1>1. /\ w \in Nat \ {0} /\ s \in Nat /\ w = Pow2[s] /\ n \in Nat /\ x \in Nat /\ x < Pow2[n]
  BY Widths, IndexDef
<1>2. h \in Nat /\ h <= x
  BY <1>1
<1>3. q \in Nat /\ h % w \in 0 .. w - 1 /\ h = w * q + (h % w)
  <2>1. h \in Nat /\ w \in Nat \ {0}
    BY <1>1, <1>2
  <2> HIDE DEF h, w
  <2> QED
    BY <2>1
<1>4. w * q \in Nat /\ y = w * q + 0
  <2>1. h \in Nat /\ w \in Nat \ {0} /\ q \in Nat /\ h = w * q + (h % w) /\ h % w \in 0 .. w - 1
    BY <1>1, <1>2, <1>3
  <2> HIDE DEF h, w, q
  <2> QED
    BY <2>1
<1>5. y \in Nat /\ y \div w = q /\ y % w = 0 /\ y <= x
  <2> HIDE DEF h, w, q
  <2>1. y \in Nat /\ y <= x
    BY <1>1, <1>2, <1>3
  <2>2. (w * q + 0) \div w = q /\ (w * q + 0) % w = 0
    <3>1. w \in Nat \ {0} /\ q \in Nat /\ 0 \in 0 .. w - 1
      BY <1>1, <1>3
    <3> QED
      BY <3>1, QuotientUnique
  <2> HIDE DEF y
  <2> QED
    BY <1>4, <2>1, <2>2
<1>6. y \in Index(n)
  <2>1. y \in Nat /\ y < Pow2[n]
    <3> HIDE DEF y
    <3> QED
      BY <1>1, <1>5, Pow2Values
  <2> HIDE DEF y
  <2> QED
    BY <2>1, IndexDef
<1> HIDE DEF y, q, w
<1>7. ASSUME NEW b \in 0 .. n - 1 PROVE Bit(y, b) <=> b >= s /\ Bit(x, b + 1)
  <2>1. b \in Nat
    OBVIOUS
  <2>2. CASE b >= s
    <3>1. y \div Pow2[s] = h \div Pow2[s]
      BY <1>1, <1>5 DEF q
    <3> HIDE DEF h
    <3>2. Bit(y, b) <=> Bit(h, b)
      BY <1>1, <1>2, <1>5, <2>1, <2>2, <3>1, SameQuotient
    <3>3. Bit(h, b) <=> Bit(x, b + 1)
      BY <1>1, <2>1, ShiftedBits DEF h
    <3> QED
      BY <2>2, <3>2, <3>3
  <2>3. CASE ~(b >= s)
    <3>1. b < s
      BY <1>1, <2>1, <2>3
    <3>2. y % Pow2[s] = 0 /\ 0 \in 0 .. Pow2[s] - 1 /\ y + 0 = y
      BY <1>1, <1>5
    <3>3. Bit(y + 0, b) <=> Bit(0, b)
      BY <1>1, <1>5, <2>1, <3>1, <3>2, ChunkBits
    <3>4. ~Bit(0, b)
      <4>1. 0 < Pow2[0] /\ 0 <= b
        BY <2>1, Pow2Values
      <4> QED
        BY <2>1, <4>1, NoBits, 0 \in Nat
    <3> QED
      BY <2>3, <3>2, <3>3, <3>4
  <2> QED
    BY <2>2, <2>3
<1>8. vole_permute_key_index(x) = XorIndex(x, y)
  BY DEF vole_permute_key_index, y, w
<1>9. /\ XorIndex(x, y) \in Index(n)
      /\ \A b \in 0 .. n - 1 : Bit(XorIndex(x, y), b) <=> (Bit(x, b) # Bit(y, b))
  BY <1>6, XorBits
<1>10. ASSUME NEW b \in 0 .. n - 1
       PROVE  (Bit(x, b) # Bit(y, b)) <=> IF b < s THEN Bit(x, b) ELSE Gray(x, b)
  <2>1. b < s <=> ~(b >= s)
    BY <1>1
  <2>2. Bit(x, b) \in BOOLEAN /\ Bit(y, b) \in BOOLEAN /\ Bit(x, b + 1) \in BOOLEAN
    BY DEF Bit
  <2> QED
    BY <1>7, <2>1, <2>2, Zenon DEF Gray
<1> QED
  BY <1>8, <1>9, <1>10

(* Gray's code tells its number, so no two keys change places.               *)
LEMMA PermuteInjective ==
  ASSUME NEW n \in K, NEW x \in Index(n), NEW y \in Index(n),
         vole_permute_key_index(x) = vole_permute_key_index(y)
  PROVE  x = y
<1> DEFINE s == VOLE_WIDTH_SHIFT
           A == {j \in Nat : j <= n => \A b \in n - j .. n : Bit(x, b) <=> Bit(y, b)}
<1>1. n \in Nat /\ s \in Nat
  BY IndexDef, Widths
<1>2. \A b \in 0 .. n - 1 : (IF b < s THEN Bit(x, b) ELSE Gray(x, b))
                              <=> (IF b < s THEN Bit(y, b) ELSE Gray(y, b))
  BY PermutedBits
<1>3. ~Bit(x, n) /\ ~Bit(y, n)
  BY <1>1, IndexDef
<1>4. 0 \in A /\ A \in SUBSET Nat
  <2>1. \A b \in n - 0 .. n : b = n
    BY <1>1
  <2> QED
    BY <1>3, <2>1
<1>5. ASSUME NEW j \in A PROVE j + 1 \in A
  <2> SUFFICES ASSUME j + 1 <= n, NEW b \in n - (j + 1) .. n PROVE Bit(x, b) <=> Bit(y, b)
    OBVIOUS
  <2>1. \A d \in n - j .. n : Bit(x, d) <=> Bit(y, d)
    BY <1>1
  <2>2. CASE b \in n - j .. n
    BY <2>1, <2>2
  <2>3. CASE ~(b \in n - j .. n)
    <3>1. b \in 0 .. n - 1 /\ b + 1 \in n - j .. n
      BY <1>1, <2>3
    <3>2. Bit(x, b + 1) <=> Bit(y, b + 1)
      BY <2>1, <3>1
    <3>3. \A z : \A d : Bit(z, d) \in BOOLEAN
      BY DEF Bit
    <3>4. (IF b < s THEN Bit(x, b) ELSE Gray(x, b)) <=> (IF b < s THEN Bit(y, b) ELSE Gray(y, b))
      BY <1>2, <3>1
    <3>5. CASE b < s
      BY <3>4, <3>5
    <3>6. CASE ~(b < s)
      <4>1. (Bit(x, b) # Bit(x, b + 1)) <=> (Bit(y, b) # Bit(y, b + 1))
        BY <3>4, <3>6 DEF Gray
      <4> QED
        BY <3>2, <3>3, <4>1, Zenon
    <3> QED
      BY <3>5, <3>6
  <2> QED
    BY <2>2, <2>3
<1> HIDE DEF A
<1>6. n \in A
  BY <1>1, <1>4, <1>5, UpTo
<1>7. \A b \in 0 .. n - 1 : Bit(x, b) <=> Bit(y, b)
  <2>1. n - n = 0 /\ n <= n
    BY <1>1
  <2>2. \A b \in 0 .. n : Bit(x, b) <=> Bit(y, b)
    BY <1>6, <2>1 DEF A
  <2> QED
    BY <1>1, <2>2
<1> QED
  BY <1>7, SameBits

LEMMA XorInjective ==
  ASSUME NEW n \in K, NEW x \in Index(n), NEW y \in Index(n), NEW d \in Index(n)
  PROVE  /\ XorIndex(x, d) = XorIndex(y, d) => x = y
         /\ XorIndex(XorIndex(x, d), d) = x
         /\ XorIndex(0, d) = d
<1> DEFINE m == n - 1
<1>1. \A z : \A b : Bit(z, b) \in BOOLEAN
  BY DEF Bit
<1>2. ASSUME XorIndex(x, d) = XorIndex(y, d) PROVE x = y
  <2>1. ASSUME NEW b \in 0 .. n - 1 PROVE Bit(x, b) <=> Bit(y, b)
    <3>1. (Bit(x, b) # Bit(d, b)) <=> (Bit(y, b) # Bit(d, b))
      BY <1>2, XorBits, Zenon
    <3> QED
      BY <1>1, <3>1, Zenon
  <2> QED
    BY <2>1, SameBits
<1>3. XorIndex(XorIndex(x, d), d) = x
  <2> DEFINE z == XorIndex(x, d)
             t == XorIndex(z, d)
  <2>1. z \in Index(n)
    BY XorBits
  <2>2. t \in Index(n)
    BY <2>1, XorBits
  <2>3. ASSUME NEW b \in 0 .. n - 1 PROVE Bit(t, b) <=> Bit(x, b)
    <3>1. Bit(z, b) <=> (Bit(x, b) # Bit(d, b))
      BY XorBits
    <3>2. Bit(t, b) <=> (Bit(z, b) # Bit(d, b))
      BY <2>1, XorBits
    <3> HIDE DEF t, z
    <3> QED
      BY <1>1, <3>1, <3>2, Zenon
  <2> HIDE DEF t
  <2> QED
    BY <2>2, <2>3, SameBits DEF t
<1>4. XorIndex(0, d) = d
  <2> DEFINE z == XorIndex(0, d)
  <2>1. 0 \in Index(n) /\ n \in Nat
    BY IndexDef
  <2>2. z \in Index(n)
    BY <2>1, XorBits
  <2>3. ASSUME NEW b \in 0 .. n - 1 PROVE Bit(z, b) <=> Bit(d, b)
    <3>1. Bit(z, b) <=> (Bit(0, b) # Bit(d, b))
      BY <2>1, XorBits
    <3>2. ~Bit(0, b)
      <4>1. 0 < Pow2[0] /\ 0 <= b /\ b \in Nat
        BY <2>1, Pow2Values
      <4> QED
        BY <4>1, NoBits, 0 \in Nat
    <3> HIDE DEF z
    <3> QED
      BY <1>1, <3>1, <3>2, Zenon
  <2> HIDE DEF z
  <2> QED
    BY <2>2, <2>3, SameBits DEF z
<1> QED
  BY <1>2, <1>3, <1>4

(* The index whose key is the n-th that the sender, or the receiver, sums.    *)
SenderIndex   == [n \in Index(k) |-> vole_permute_key_index(n)]
ReceiverIndex == [n \in Index(k) |-> XorIndex(vole_permute_key_index(n), delta)]

LEMMA Indices ==
  ASSUME k \in K, delta \in Index(k)
  PROVE  /\ SenderIndex \in [Index(k) -> Index(k)]
         /\ ReceiverIndex \in [Index(k) -> Index(k)]
         /\ \A x, y \in Index(k) : SenderIndex[x] = SenderIndex[y] => x = y
         /\ \A x, y \in Index(k) : ReceiverIndex[x] = ReceiverIndex[y] => x = y
         /\ \A y \in Index(k) : \E x \in Index(k) : SenderIndex[x] = y
         /\ SenderKey = [n \in Index(k) |-> {SenderIndex[n]}]
         /\ ReceiverKey = [n \in Index(k) |-> {ReceiverIndex[n]}]
         /\ \A x \in Index(k) : ReceiverIndex[x] = XorIndex(SenderIndex[x], delta)
<1>1. SenderIndex \in [Index(k) -> Index(k)]
  BY PermutedBits DEF SenderIndex
<1>2. \A x \in Index(k) : ReceiverIndex[x] = XorIndex(SenderIndex[x], delta)
  BY DEF SenderIndex, ReceiverIndex
<1>3. ReceiverIndex \in [Index(k) -> Index(k)]
  <2>1. \A x \in Index(k) : ReceiverIndex[x] \in Index(k)
    BY <1>1, <1>2, XorBits
  <2> QED
    BY <2>1 DEF ReceiverIndex
<1>4. \A x, y \in Index(k) : SenderIndex[x] = SenderIndex[y] => x = y
  BY PermuteInjective DEF SenderIndex
<1>5. \A x, y \in Index(k) : ReceiverIndex[x] = ReceiverIndex[y] => x = y
  BY <1>1, <1>2, <1>4, XorInjective
<1>6. \A y \in Index(k) : \E x \in Index(k) : SenderIndex[x] = y
  <2>1. PICK g : g = SenderIndex
    OBVIOUS
  <2> QED
    BY <1>1, <1>4, <2>1, IndexDef, OneToOneOnto DEF Index
<1>7. /\ SenderKey = [n \in Index(k) |-> {SenderIndex[n]}]
      /\ ReceiverKey = [n \in Index(k) |-> {ReceiverIndex[n]}]
  BY DEF SenderKey, ReceiverKey, SenderIndex, ReceiverIndex
<1> QED
  BY <1>1, <1>2, <1>3, <1>4, <1>5, <1>6, <1>7

---------------------------------------------------------------------------
(* Gray's code from chunk to chunk.  After the last chunk it is back at 0.   *)
Code(n, m, b) == m < Pow2[n] /\ Gray(m, b)

LEMMA JustBefore ==
  ASSUME NEW w \in Nat \ {0}, NEW p \in Nat, w <= p, NEW q \in Nat \ {0}
  PROVE  (p * q - w) \div p = q - 1
<1>1. q - 1 \in Nat /\ p - w \in 0 .. p - 1 /\ p \in Nat \ {0}
  OBVIOUS
<1>2. p * q = p * (q - 1) + p /\ p * (q - 1) \in Nat
  OBVIOUS
<1> DEFINE x == p * q
           y == p * (q - 1)
           r == p - w
<1>3. x - w = y + r
  <2>1. x = y + p /\ y \in Nat /\ p \in Nat /\ w \in Nat /\ r = p - w
    BY <1>2
  <2> HIDE DEF x, y, r
  <2> QED
    BY <2>1
<1>4. (p * (q - 1) + r) \div p = q - 1
  <2> DEFINE d == q - 1
  <2>1. d \in Nat /\ r \in 0 .. p - 1
    BY <1>1
  <2> HIDE DEF d, r
  <2> QED
    BY <1>1, <2>1, QuotientUnique
<1> QED
  BY <1>3, <1>4

LEMMA NoBitsOfZero ==
  ASSUME NEW b \in Nat
  PROVE  ~Bit(0, b)
<1>1. 0 < Pow2[0] /\ 0 <= b
  BY Pow2Values
<1> QED
  BY <1>1, NoBits, 0 \in Nat

(* From one chunk to the next the bits up to the output column change.       *)
LEMMA CountBits ==
  ASSUME NEW m \in Nat \ {0}, m % VOLE_WIDTH = 0, NEW col \in Nat, col >= VOLE_WIDTH_SHIFT,
         \A low \in 0 .. col - 1 : ~Bit(m, low), NEW b \in VOLE_WIDTH_SHIFT .. col
  PROVE  /\ m - VOLE_WIDTH \in Nat
         /\ m \div Pow2[b] \in Nat \ {0}
         /\ (m - VOLE_WIDTH) \div Pow2[b] = (m \div Pow2[b]) - 1
         /\ Bit(m - VOLE_WIDTH, b) <=> ~Bit(m, b)
<1> DEFINE w == VOLE_WIDTH
           s == VOLE_WIDTH_SHIFT
           p == Pow2[b]
           q == m \div p
<1>1. w \in Nat \ {0} /\ s \in Nat /\ w = Pow2[s] /\ p \in Nat \ {0} /\ b \in Nat /\ s <= b
  BY Widths
<1>2. w <= p
  BY <1>1, Pow2Monotone
<1>3. m = p * q
  <2>1. \A d \in s .. b - 1 : ~Bit(m, d)
    BY <1>1
  <2>2. m % Pow2[s] = 0
    BY <1>1
  <2> QED
    BY <1>1, <2>1, <2>2, MultipleBits
<1>4. q \in Nat
  BY <1>1, Bits
<1> HIDE DEF w, p, q
<1>5. q # 0
  BY <1>1, <1>3
<1>6. (p * q - w) \div p = q - 1
  BY <1>1, <1>2, <1>4, <1>5, JustBefore
<1>7. (m - w) \div p = q - 1
  BY <1>3, <1>6
<1>8. m - w \in Nat
  <2>1. p * 1 <= p * q /\ p * q \in Nat /\ p * 1 = p
    BY <1>1, <1>4, <1>5, MulMonotone
  <2> QED
    BY <1>1, <1>2, <1>3, <2>1
<1>9. (q - 1) % 2 = 1 <=> ~(q % 2 = 1)
  BY <1>4, <1>5
<1> QED
  BY <1>4, <1>5, <1>7, <1>8, <1>9 DEF Bit, p, q, w

LEMMA GrayStep ==
  ASSUME NEW n \in K, VOLE_WIDTH_SHIFT < n, NEW j \in Nat, j % VOLE_WIDTH = 0,
         j + VOLE_WIDTH <= Pow2[n], NEW col \in 0 .. n - 1,
         Bit(j + VOLE_WIDTH, col) \/ col = n - 1,
         \A low \in 0 .. col - 1 : ~Bit(j + VOLE_WIDTH, low)
  PROVE  /\ col >= VOLE_WIDTH_SHIFT
         /\ \A b \in VOLE_WIDTH_SHIFT .. n - 1 :
              Code(n, j + VOLE_WIDTH, b) <=> (Code(n, j, b) # (b = col))
<1> DEFINE w == VOLE_WIDTH
           s == VOLE_WIDTH_SHIFT
           m == j + w
<1>1. /\ w \in Nat \ {0} /\ s \in Nat /\ w = Pow2[s] /\ n \in Nat \ {0} /\ s < n
      /\ Pow2[n] \in Nat
  BY Widths
<1>2. m \in Nat \ {0} /\ m % w = 0 /\ m - w = j
  <2>1. j % w = 0
    OBVIOUS
  <2> HIDE DEF w
  <2>2. m \in Nat \ {0} /\ m - w = j
    BY <1>1
  <2>3. (j + w) % w = 0
    BY <1>1, <2>1, NextMultiple
  <2> QED
    BY <2>2, <2>3
<1> HIDE DEF m
<1>3. \A z : \A b : Bit(z, b) \in BOOLEAN
  BY DEF Bit
<1>4. ASSUME NEW low \in 0 .. s - 1 PROVE ~Bit(m, low)
  <2>1. low \in Nat /\ low < s /\ m % Pow2[s] = 0 /\ 0 \in 0 .. Pow2[s] - 1 /\ m + 0 = m
    BY <1>1, <1>2
  <2>2. Bit(m + 0, low) <=> Bit(0, low)
    BY <1>1, <1>2, <2>1, ChunkBits
  <2> QED
    BY <2>1, <2>2, NoBitsOfZero
<1>5. col \in Nat /\ col >= s
  <2>1. CASE col = n - 1
    BY <1>1, <2>1
  <2>2. CASE Bit(m, col)
    BY <1>1, <1>4, <2>2
  <2> QED
    BY <2>1, <2>2 DEF m
<1>6. \A low \in 0 .. col - 1 : ~Bit(m, low)
  BY DEF m
<1>7. \A b \in s .. col : /\ m \div Pow2[b] \in Nat \ {0}
                          /\ j \div Pow2[b] = (m \div Pow2[b]) - 1
                          /\ Bit(j, b) <=> ~Bit(m, b)
  <2> SUFFICES ASSUME NEW b \in s .. col
               PROVE  /\ m \div Pow2[b] \in Nat \ {0}
                      /\ j \div Pow2[b] = (m \div Pow2[b]) - 1
                      /\ Bit(j, b) <=> ~Bit(m, b)
    OBVIOUS
  <2>1. /\ m \div Pow2[b] \in Nat \ {0}
        /\ (m - w) \div Pow2[b] = (m \div Pow2[b]) - 1
        /\ Bit(m - w, b) <=> ~Bit(m, b)
    BY <1>2, <1>5, <1>6, CountBits
  <2> QED
    BY <1>2, <2>1
<1> HIDE DEF w
<1>8. m <= Pow2[n] /\ j < m
  BY <1>1 DEF m, w
<1>9. CASE m < Pow2[n]
  <2>1. Bit(m, col)
    <3> SUFFICES ASSUME ~Bit(m, col) PROVE FALSE
      OBVIOUS
    <3>1. col = n - 1
      BY DEF m, w
    <3>2. \A b \in 0 .. n - 1 : ~Bit(m, b)
      BY <1>1, <1>6, <3>1
    <3>3. m \in Index(n) /\ 0 \in Index(n)
      BY <1>2, <1>9, IndexDef
    <3>4. \A b \in 0 .. n - 1 : Bit(m, b) <=> Bit(0, b)
      BY <1>1, <3>2, NoBitsOfZero
    <3>5. m = 0
      BY <3>3, <3>4, SameBits
    <3> QED
      BY <1>2, <3>5
  <2>2. j \div Pow2[col + 1] = m \div Pow2[col + 1]
    <3> DEFINE q == m \div Pow2[col]
    <3>1. q \in Nat \ {0} /\ j \div Pow2[col] = q - 1 /\ col \in s .. col
      BY <1>1, <1>5, <1>7
    <3>2. q % 2 = 1
      BY <2>1 DEF Bit
    <3>3. /\ m \div Pow2[col + 1] = q \div 2
          /\ j \div Pow2[col + 1] = (j \div Pow2[col]) \div 2
      BY <1>2, <1>5, Bits
    <3> HIDE DEF q
    <3>4. (q - 1) \div 2 = q \div 2
      BY <3>1, <3>2
    <3> QED
      BY <3>1, <3>3, <3>4
  <2>3. ASSUME NEW b \in s .. n PROVE Bit(j, b) <=> (Bit(m, b) # (b <= col))
    <3>1. CASE b <= col
      <4>1. Bit(j, b) <=> ~Bit(m, b)
        BY <1>1, <1>5, <1>7, <3>1
      <4>2. (b <= col) = TRUE
        BY <3>1
      <4> QED
        BY <1>3, <4>1, <4>2, Zenon
    <3>2. CASE ~(b <= col)
      <4>1. col + 1 \in Nat /\ b \in Nat /\ col + 1 <= b
        BY <1>1, <1>5, <3>2
      <4>2. Bit(j, b) <=> Bit(m, b)
        BY <1>2, <2>2, <4>1, SameQuotient
      <4>3. (b <= col) = FALSE
        BY <3>2, <4>1, <1>5
      <4> QED
        BY <1>3, <4>2, <4>3, Zenon
    <3> QED
      BY <3>1, <3>2
  <2>4. ASSUME NEW b \in s .. n - 1 PROVE Code(n, m, b) <=> (Code(n, j, b) # (b = col))
    <3>1. b \in s .. n /\ b + 1 \in s .. n
      BY <1>1
    <3>2. /\ Bit(j, b) <=> (Bit(m, b) # (b <= col))
          /\ Bit(j, b + 1) <=> (Bit(m, b + 1) # (b + 1 <= col))
      BY <2>3, <3>1
    <3>3. ((b <= col) # (b + 1 <= col)) <=> b = col
      BY <1>1, <1>5
    <3>4. (b <= col) \in BOOLEAN /\ (b + 1 <= col) \in BOOLEAN /\ (b = col) \in BOOLEAN
      BY <1>1, <1>5
    <3>5. Gray(m, b) <=> (Gray(j, b) # (b = col))
      BY <1>3, <3>2, <3>3, <3>4, Zenon DEF Gray
    <3>6. j < Pow2[n]
      BY <1>1, <1>2, <1>8, <1>9
    <3>7. (Code(n, j, b) <=> Gray(j, b)) /\ (Code(n, m, b) <=> Gray(m, b))
      BY <1>9, <3>6 DEF Code
    <3>8. Gray(j, b) \in BOOLEAN /\ Code(n, j, b) \in BOOLEAN
      BY DEF Gray, Code
    <3> QED
      BY <3>4, <3>5, <3>7, <3>8, Zenon
  <2> QED
    BY <1>5, <2>4 DEF m, w
<1>10. CASE m = Pow2[n]
  <2>1. ASSUME NEW b \in 0 .. n - 1 PROVE ~Bit(m, b)
    <3> DEFINE h == Pow2[n - (b + 1)]
               p == Pow2[b]
    <3>1. b + 1 \in 0 .. n /\ n \in Nat /\ b \in Nat
      BY <1>1
    <3>2. Pow2[n] = h * Pow2[b + 1] /\ h \in Nat /\ p \in Nat \ {0} /\ Pow2[b + 1] = 2 * p
      BY <3>1, Pow2Split, Pow2Values
    <3> HIDE DEF h, p
    <3>3. m = p * (2 * h) + 0
      BY <1>10, <3>2
    <3>4. (p * (2 * h) + 0) \div p = 2 * h
      BY <3>2, QuotientUnique, 2 * h \in Nat, 0 \in 0 .. p - 1
    <3>5. (2 * h) % 2 = 0
      BY <3>2
    <3> QED
      BY <3>3, <3>4, <3>5 DEF Bit, p
  <2>2. col = n - 1
    BY <2>1 DEF m, w
  <2>3. ASSUME NEW b \in s .. n - 1 PROVE Bit(j, b)
    BY <1>1, <1>7, <2>1, <2>2, <2>3
  <2>4. ~Bit(j, n)
    BY <1>1, <1>8, <1>10, NoBits
  <2>5. ASSUME NEW b \in s .. n - 1 PROVE Code(n, j, b) <=> b = col
    <3>1. Bit(j, b) /\ j < Pow2[n]
      BY <1>8, <1>10, <2>3
    <3>2. CASE b = n - 1
      <4>1. b + 1 = n
        BY <1>1, <3>2
      <4>2. ~Bit(j, b + 1)
        BY <2>4, <4>1
      <4> QED
        BY <1>3, <2>2, <3>1, <3>2, <4>2, Zenon DEF Code, Gray
    <3>3. CASE b # n - 1
      <4>1. b + 1 \in s .. n - 1
        BY <1>1, <3>3
      <4>2. Bit(j, b + 1)
        BY <2>3, <4>1
      <4> QED
        BY <1>3, <2>2, <3>1, <3>3, <4>2, Zenon DEF Code, Gray
    <3> QED
      BY <3>2, <3>3
  <2>6. \A b : ~Code(n, m, b)
    BY <1>1, <1>10 DEF Code
  <2>7. ASSUME NEW b \in s .. n - 1 PROVE Code(n, m, b) <=> (Code(n, j, b) # (b = col))
    <3>1. Code(n, j, b) \in BOOLEAN /\ (b = col) \in BOOLEAN
      BY DEF Code
    <3> QED
      BY <2>5, <2>6, <3>1, Zenon
  <2> QED
    BY <1>5, <2>7 DEF m, w
<1> QED
  BY <1>1, <1>2, <1>8, <1>9, <1>10

---------------------------------------------------------------------------
(* A chunk more.                                                             *)
Image(f, T) == {f[n] : n \in T}

(* The keys before the m-th whose key belongs to column b: in a low column     *)
(* those with the bit, in a high one those that have not Gray's bit of m, the  *)
(* part of Gray's code that is still to come.                                *)
Members(n, lo, m, b) ==
  IF b < VOLE_WIDTH_SHIFT THEN {x \in 0 .. m - 1 : Bit(x, b)}
                          ELSE {x \in lo .. m - 1 : Gray(x, b) # Code(n, m, b)}

(* After m keys the accumulator is the sum of the keys from lo on, and each    *)
(* column that of its members, on top of what it began with.                  *)
Summed(n, f, lo, base, m, a, w) ==
  /\ a = Image(f, lo .. m - 1)
  /\ w = [b \in 0 .. n - 1 |-> w[b]]
  /\ \A b \in 0 .. n - 1 : w[b] = Plus(base[b], Image(f, Members(n, lo, m, b)))

LEMMA ImagePlus ==
  ASSUME NEW f, \A x, y \in DOMAIN f : f[x] = f[y] => x = y,
         NEW S \in SUBSET DOMAIN f, NEW T \in SUBSET DOMAIN f
  PROVE  Plus(Image(f, S), Image(f, T)) = Image(f, Plus(S, T))
BY DEF Plus, Image

Shift(j, T)   == {j + p : p \in T}
WithBit(T, b) == {p \in T : Bit(p, b)}

(* The bits above the chunk's are those of the chunk's number.               *)
LEMMA ChunkGray ==
  ASSUME NEW j \in Nat, j % VOLE_WIDTH = 0, NEW p \in 0 .. VOLE_WIDTH - 1,
         NEW b \in Nat
  PROVE  /\ b < VOLE_WIDTH_SHIFT => (Bit(j + p, b) <=> Bit(p, b))
         /\ b >= VOLE_WIDTH_SHIFT => (Gray(j + p, b) <=> Gray(j, b))
<1>1. VOLE_WIDTH_SHIFT \in Nat /\ VOLE_WIDTH = Pow2[VOLE_WIDTH_SHIFT]
  BY Widths
<1>2. j % Pow2[VOLE_WIDTH_SHIFT] = 0 /\ p \in 0 .. Pow2[VOLE_WIDTH_SHIFT] - 1
  BY <1>1
<1>3. /\ b < VOLE_WIDTH_SHIFT => (Bit(j + p, b) <=> Bit(p, b))
      /\ b >= VOLE_WIDTH_SHIFT => (Bit(j + p, b) <=> Bit(j, b))
  BY <1>1, <1>2, ChunkBits
<1>4. b >= VOLE_WIDTH_SHIFT => (Bit(j + p, b + 1) <=> Bit(j, b + 1))
  BY <1>1, <1>2, ChunkBits
<1>5. \A x : \A d : Bit(x, d) \in BOOLEAN
  BY DEF Bit
<1> QED
  BY <1>3, <1>4, <1>5, Zenon DEF Gray

LEMMA MembersStep ==
  ASSUME NEW n \in K, VOLE_WIDTH_SHIFT < n, NEW j \in Nat, j % VOLE_WIDTH = 0,
         j + VOLE_WIDTH <= Pow2[n], NEW lo \in Nat, lo <= j,
         NEW b \in 0 .. n - 1, NEW col \in 0 .. n - 1,
         Bit(j + VOLE_WIDTH, col) \/ col = n - 1,
         \A low \in 0 .. col - 1 : ~Bit(j + VOLE_WIDTH, low)
  PROVE  Members(n, lo, j + VOLE_WIDTH, b) =
           IF b < VOLE_WIDTH_SHIFT
           THEN Plus(Members(n, lo, j, b),
                     Shift(j, WithBit(0 .. VOLE_WIDTH - 1, b)))
           ELSE IF b = col THEN Plus(Members(n, lo, j, b), lo .. j + VOLE_WIDTH - 1)
                           ELSE Members(n, lo, j, b)
<1> DEFINE w == VOLE_WIDTH
           m == j + w
<1>1. /\ w \in Nat \ {0} /\ VOLE_WIDTH_SHIFT \in Nat /\ n \in Nat \ {0} /\ b \in Nat
      /\ Pow2[n] \in Nat
  BY Widths
<1>2. \A x : \A d : Bit(x, d) \in BOOLEAN /\ Gray(x, d) \in BOOLEAN /\ Code(n, x, d) \in BOOLEAN
  BY DEF Bit, Gray, Code
<1>3. \A x \in j .. m - 1 : x - j \in 0 .. w - 1 /\ x = j + (x - j)
  <2> HIDE DEF w
  <2> QED
    BY <1>1
<1>4. CASE b < VOLE_WIDTH_SHIFT
  <2>1. \A x \in j .. m - 1 : Bit(x, b) <=> Bit(x - j, b)
    <3> SUFFICES ASSUME NEW x \in j .. m - 1 PROVE Bit(x, b) <=> Bit(x - j, b)
      OBVIOUS
    <3>1. Bit(j + (x - j), b) <=> Bit(x - j, b)
      BY <1>1, <1>3, <1>4, ChunkGray
    <3> QED
      BY <1>3, <3>1
  <2> DEFINE A == {x \in 0 .. j - 1 : Bit(x, b)}
             B == Shift(j, WithBit(0 .. w - 1, b))
  <2>2. B = {x \in j .. m - 1 : Bit(x, b)}
    <3>1. \A p \in 0 .. w - 1 : j + p \in j .. m - 1 /\ (j + p) - j = p
      <4> HIDE DEF w
      <4> QED
        BY <1>1
    <3> HIDE DEF w, m
    <3> QED
      BY <1>3, <2>1, <3>1 DEF Shift, WithBit
  <2> HIDE DEF B
  <2>3. Plus(A, B) = {x \in 0 .. m - 1 : Bit(x, b)}
    <3>1. m \in Nat /\ j <= m
      <4> HIDE DEF w
      <4> QED
        BY <1>1
    <3> HIDE DEF m
    <3> QED
      BY <2>2, <3>1 DEF Plus
  <2>4. Members(n, lo, j, b) = A /\ Members(n, lo, m, b) = {x \in 0 .. m - 1 : Bit(x, b)}
    BY <1>4 DEF Members
  <2> QED
    BY <1>4, <2>3, <2>4 DEF B, w, m
<1>5. CASE ~(b < VOLE_WIDTH_SHIFT)
  <2>1. b \in VOLE_WIDTH_SHIFT .. n - 1
    BY <1>1, <1>5
  <2>2. Code(n, m, b) <=> (Code(n, j, b) # (b = col))
    BY <2>1, GrayStep
  <2>3. \A x \in j .. m - 1 : Gray(x, b) <=> Code(n, j, b)
    <3> SUFFICES ASSUME NEW x \in j .. m - 1 PROVE Gray(x, b) <=> Code(n, j, b)
      OBVIOUS
    <3>1. PICK p \in 0 .. w - 1 : x = j + p
      BY <1>3
    <3>2. b >= VOLE_WIDTH_SHIFT /\ j < Pow2[n]
      BY <1>1, <1>5
    <3>3. Gray(j + p, b) <=> Gray(j, b)
      BY <1>1, <3>2, ChunkGray
    <3> QED
      BY <3>1, <3>2, <3>3 DEF Code
  <2> DEFINE A == {x \in lo .. j - 1 : Gray(x, b) # Code(n, j, b)}
             B == {x \in lo .. m - 1 : Gray(x, b) # Code(n, m, b)}
  <2>4. Members(n, lo, j, b) = A /\ Members(n, lo, m, b) = B
    BY <1>5 DEF Members
  <2>5. m \in Nat /\ j <= m
    <3> HIDE DEF w
    <3> QED
      BY <1>1
  <2> HIDE DEF m
  <2>6. CASE b = col
    <3>1. Code(n, m, b) <=> ~Code(n, j, b)
      BY <1>2, <2>2, <2>6, Zenon
    <3>2. \A x : (Gray(x, b) # Code(n, m, b)) <=> ~(Gray(x, b) # Code(n, j, b))
      BY <1>2, <3>1, Zenon
    <3>3. \A x \in j .. m - 1 : ~(Gray(x, b) # Code(n, j, b))
      BY <1>2, <2>3, Zenon
    <3>4. Plus(A, lo .. m - 1) = B
      BY <2>5, <3>2, <3>3 DEF Plus
    <3>5. Members(n, lo, m, b) = Plus(Members(n, lo, j, b), lo .. m - 1)
      BY <2>4, <3>4, Zenon
    <3>6. m - 1 = j + VOLE_WIDTH - 1
      BY <1>1 DEF m
    <3>7. Members(n, lo, j + VOLE_WIDTH, b) = Plus(Members(n, lo, j, b), lo .. j + VOLE_WIDTH - 1)
      BY <3>5, <3>6, Zenon DEF m, w
    <3> QED
      BY <1>5, <2>6, <3>7, Zenon
  <2>7. CASE b # col
    <3>1. (b = col) = FALSE
      BY <2>7
    <3>2. Code(n, m, b) <=> Code(n, j, b)
      BY <1>2, <2>2, <3>1, Zenon
    <3>3. \A x \in j .. m - 1 : ~(Gray(x, b) # Code(n, m, b))
      BY <1>2, <2>3, <3>2, Zenon
    <3>4. \A x : (Gray(x, b) # Code(n, m, b)) <=> (Gray(x, b) # Code(n, j, b))
      BY <1>2, <3>2, Zenon
    <3>5. A = B
      BY <2>5, <3>3, <3>4
    <3> HIDE DEF A, B
    <3> QED
      BY <1>5, <2>4, <2>7, <3>5 DEF m, w
  <2> QED
    BY <2>6, <2>7
<1> QED
  BY <1>4, <1>5

OneToOne(n, f) == /\ f \in [Index(n) -> Index(n)]
                  /\ \A x, y \in Index(n) : f[x] = f[y] => x = y

IsChunk(f, T, in) ==
  /\ DOMAIN in = 0 .. VOLE_WIDTH - 1
  /\ \A p \in 0 .. VOLE_WIDTH - 1 : in[p] = IF p \in T THEN {f[i + p]} ELSE {}

(* The chunk as it is read, and what its blocks add up to.                    *)
LEMMA ChunkSums ==
  ASSUME NEW n \in K, NEW f, OneToOne(n, f),
         i \in Nat, i + VOLE_WIDTH <= Pow2[n],
         NEW in, NEW T \in SUBSET (0 .. VOLE_WIDTH - 1), IsChunk(f, T, in)
  PROVE  /\ xor_reduce(in)[0] = Image(f, Shift(i, T))
         /\ \A b \in 0 .. VOLE_WIDTH_SHIFT - 1 :
              xor_reduce(in)[b + 1] = Image(f, Shift(i, WithBit(T, b)))
<1>1. VOLE_WIDTH \in Nat \ {0} /\ Pow2[n] \in Nat /\ n \in Nat
  BY Widths
<1>2. \A p \in 0 .. VOLE_WIDTH - 1 : i + p \in Index(n)
  <2> DEFINE w == VOLE_WIDTH
             e == Pow2[n]
  <2>1. w \in Nat /\ e \in Nat /\ i + w <= e
    BY <1>1
  <2> HIDE DEF w, e
  <2>2. \A p \in 0 .. w - 1 : i + p \in 0 .. e - 1
    BY <2>1
  <2> QED
    BY <2>2 DEF w, e, Index
<1>3. Apart(in)
  <2> SUFFICES ASSUME NEW p \in 0 .. VOLE_WIDTH - 1, NEW q \in 0 .. VOLE_WIDTH - 1, p # q
               PROVE  in[p] \cap in[q] = {}
    BY DEF Apart
  <2>1. f[i + p] # f[i + q]
    <3>1. i + p # i + q
      OBVIOUS
    <3> QED
      BY <1>2, <3>1 DEF OneToOne
  <2> QED
    BY <2>1 DEF IsChunk
<1>4. ASSUME NEW P \in SUBSET (0 .. VOLE_WIDTH - 1)
      PROVE  Sum(in, P) = Image(f, Shift(i, P \cap T))
  BY DEF Sum, Image, Shift, IsChunk
<1>5. /\ xor_reduce(in)[0] = Sum(in, 0 .. VOLE_WIDTH - 1)
      /\ \A b \in 0 .. VOLE_WIDTH_SHIFT - 1 :
           xor_reduce(in)[b + 1] = Sum(in, WithBit(0 .. VOLE_WIDTH - 1, b))
  BY <1>3, ReduceValue DEF WithBit, IsChunk
<1>6. /\ (0 .. VOLE_WIDTH - 1) \cap T = T
      /\ \A b : WithBit(0 .. VOLE_WIDTH - 1, b) \cap T = WithBit(T, b)
      /\ \A b : WithBit(0 .. VOLE_WIDTH - 1, b) \in SUBSET (0 .. VOLE_WIDTH - 1)
  BY DEF WithBit
<1>7. xor_reduce(in)[0] = Image(f, Shift(i, T))
  <2>1. Sum(in, 0 .. VOLE_WIDTH - 1) = Image(f, Shift(i, (0 .. VOLE_WIDTH - 1) \cap T))
    BY <1>4
  <2> QED
    BY <1>5, <1>6, <2>1
<1>8. ASSUME NEW b \in 0 .. VOLE_WIDTH_SHIFT - 1
      PROVE  xor_reduce(in)[b + 1] = Image(f, Shift(i, WithBit(T, b)))
  <2> DEFINE P == WithBit(0 .. VOLE_WIDTH - 1, b)
  <2>1. Sum(in, P) = Image(f, Shift(i, P \cap T))
    BY <1>4, <1>6
  <2>2. xor_reduce(in)[b + 1] = Sum(in, P) /\ P \cap T = WithBit(T, b)
    BY <1>5, <1>6
  <2> HIDE DEF P
  <2> QED
    BY <2>1, <2>2
<1> QED
  BY <1>7, <1>8

(* The output column is the lowest bit of the next chunk's first index.      *)
LEMMA OutputColIs ==
  ASSUME k \in K
  PROVE  /\ OutputCol \in 0 .. k - 1
         /\ Bit(i + VOLE_WIDTH, OutputCol) \/ OutputCol = k - 1
         /\ \A low \in 0 .. OutputCol - 1 : ~Bit(i + VOLE_WIDTH, low)
<1> DEFINE A == {b \in 0 .. k - 1 : Bit(i + VOLE_WIDTH, b) \/ b = k - 1}
<1>1. k \in Nat \ {0}
  BY Widths
<1>2. A \in SUBSET Nat /\ k - 1 \in A
  BY <1>1
<1>3. PICK b \in A : \A x \in A : b <= x
  <2> HIDE DEF A
  <2> QED
    BY <1>2, LeastElement
<1>4. b \in 0 .. k - 1 /\ (Bit(i + VOLE_WIDTH, b) \/ b = k - 1)
  OBVIOUS
<1>5. ASSUME NEW low \in 0 .. b - 1 PROVE ~Bit(i + VOLE_WIDTH, low)
  <2>1. low \in 0 .. k - 1 /\ ~(b <= low)
    BY <1>1, <1>4
  <2> QED
    BY <1>3, <2>1
<1> QED
  BY <1>4, <1>5 DEF OutputCol

(* A whole chunk keeps the sums.                                             *)
LEMMA WholeChunk ==
  ASSUME k \in K, VOLE_WIDTH_SHIFT < k,
         NEW f, OneToOne(k, f),
         i \in Nat, i % VOLE_WIDTH = 0, i + VOLE_WIDTH <= Pow2[k],
         NEW lo \in Nat, lo <= i, NEW base,
         Summed(k, f, lo, base, i, accum, vq),
         AddChunk(Chunk([n \in Index(k) |-> {f[n]}]), TRUE)
  PROVE  Summed(k, f, lo, base, i + VOLE_WIDTH, accum', vq')
<1> DEFINE w == VOLE_WIDTH
           m == i + w
           chunk == Chunk([n \in Index(k) |-> {f[n]}])
           sum == xor_reduce(chunk)
           col == OutputCol
           low == [b \in DOMAIN vq |->
                     IF b < VOLE_WIDTH_SHIFT THEN Plus(vq[b], sum[b + 1]) ELSE vq[b]]
<1>0. \A S, T \in SUBSET Index(k) : Plus(Image(f, S), Image(f, T)) = Image(f, Plus(S, T))
  BY ImagePlus DEF OneToOne
<1>1. /\ w \in Nat \ {0} /\ VOLE_WIDTH_SHIFT \in Nat /\ k \in Nat \ {0} /\ Pow2[k] \in Nat
  BY Widths
<1>2. accum' = Plus(accum, sum[0]) /\ vq' = [low EXCEPT ![col] = Plus(@, accum')]
  BY DEF AddChunk
<1>3. /\ col \in 0 .. k - 1
      /\ Bit(i + VOLE_WIDTH, col) \/ col = k - 1
      /\ \A b \in 0 .. col - 1 : ~Bit(i + VOLE_WIDTH, b)
  BY OutputColIs
<1>4. /\ sum[0] = Image(f, Shift(i, 0 .. w - 1))
      /\ \A b \in 0 .. VOLE_WIDTH_SHIFT - 1 :
           sum[b + 1] = Image(f, Shift(i, WithBit(0 .. w - 1, b)))
  <2>1. DOMAIN chunk = 0 .. w - 1
    BY DEF Chunk
  <2>2. \A p \in 0 .. w - 1 : i + p \in Index(k)
    <3> DEFINE e == Pow2[k]
    <3>1. e \in Nat /\ w \in Nat /\ i + w <= e
      BY <1>1
    <3> HIDE DEF w, e
    <3>2. \A p \in 0 .. w - 1 : i + p \in 0 .. e - 1
      BY <3>1
    <3> QED
      BY <3>2 DEF e, Index
  <2>3. \A p \in 0 .. w - 1 : chunk[p] = IF p \in 0 .. w - 1 THEN {f[i + p]} ELSE {}
    BY <2>2 DEF Chunk
  <2> HIDE DEF chunk
  <2> DEFINE T == 0 .. w - 1
  <2>4. T \in SUBSET (0 .. VOLE_WIDTH - 1)
    OBVIOUS
  <2> HIDE DEF T
  <2>5. IsChunk(f, T, chunk)
    BY <2>1, <2>3 DEF T, IsChunk
  <2>7. /\ xor_reduce(chunk)[0] = Image(f, Shift(i, T))
        /\ \A b \in 0 .. VOLE_WIDTH_SHIFT - 1 :
             xor_reduce(chunk)[b + 1] = Image(f, Shift(i, WithBit(T, b)))
    BY <2>4, <2>5, ChunkSums
  <2> QED
    BY <2>7 DEF T
<1> HIDE DEF sum, col, chunk
<1>5. /\ accum = Image(f, lo .. i - 1)
      /\ vq = [b \in 0 .. k - 1 |-> vq[b]]
      /\ \A b \in 0 .. k - 1 : vq[b] = Plus(base[b], Image(f, Members(k, lo, i, b)))
  BY DEF Summed
<1>6. /\ m \in Nat /\ i <= m /\ m <= Pow2[k]
      /\ Shift(i, 0 .. w - 1) = i .. m - 1
  <2>1. m \in Nat /\ i <= m /\ m <= Pow2[k]
    BY <1>1
  <2>2. Shift(i, 0 .. w - 1) \subseteq i .. m - 1
    <3>1. w \in Nat
      BY <1>1
    <3> HIDE DEF w
    <3> QED
      BY <3>1 DEF Shift
  <2>3. ASSUME NEW x \in i .. m - 1 PROVE x \in Shift(i, 0 .. w - 1)
    <3>1. w \in Nat
      BY <1>1
    <3> HIDE DEF w
    <3>2. x - i \in 0 .. w - 1 /\ i + (x - i) = x
      BY <3>1
    <3> QED
      BY <3>2 DEF Shift
  <2> QED
    BY <2>1, <2>2, <2>3
<1> HIDE DEF m, w
<1>7. lo .. m - 1 \subseteq Index(k) /\ 0 .. m - 1 \subseteq Index(k)
  BY <1>1, <1>6 DEF Index
<1>8. accum' = Image(f, lo .. m - 1)
  <2>1. sum[0] = Image(f, i .. m - 1)
    BY <1>4, <1>6
  <2>2. lo .. i - 1 \in SUBSET Index(k) /\ i .. m - 1 \in SUBSET Index(k)
    BY <1>6, <1>7
  <2>3. Plus(Image(f, lo .. i - 1), Image(f, i .. m - 1))
          = Image(f, Plus(lo .. i - 1, i .. m - 1))
    BY <1>0, <2>2
  <2>4. Plus(lo .. i - 1, i .. m - 1) = lo .. m - 1
    BY <1>6 DEF Plus
  <2> QED
    BY <1>2, <1>5, <2>1, <2>3, <2>4
<1>9. ASSUME NEW b \in 0 .. k - 1
      PROVE  Members(k, lo, i, b) \in SUBSET Index(k)
  BY <1>6, <1>7 DEF Members
<1>10. ASSUME NEW b \in 0 .. k - 1
       PROVE  vq'[b] = Plus(base[b], Image(f, Members(k, lo, m, b)))
  <2> DEFINE M == Members(k, lo, i, b)
             new == Shift(i, WithBit(0 .. w - 1, b))
  <2>0. vq'[b] = IF b = col THEN Plus(low[b], accum') ELSE low[b]
    BY <1>2, <1>5
  <2>1. Members(k, lo, m, b) =
          IF b < VOLE_WIDTH_SHIFT THEN Plus(M, new)
          ELSE IF b = col THEN Plus(M, lo .. m - 1) ELSE M
    <3>1. m - 1 = i + VOLE_WIDTH - 1
      BY <1>1 DEF m, w
    <3>2. Members(k, lo, i + VOLE_WIDTH, b) =
            IF b < VOLE_WIDTH_SHIFT THEN Plus(M, Shift(i, WithBit(0 .. VOLE_WIDTH - 1, b)))
            ELSE IF b = col THEN Plus(M, lo .. i + VOLE_WIDTH - 1) ELSE M
      BY <1>3, MembersStep
    <3> HIDE DEF M
    <3> QED
      BY <3>1, <3>2, Zenon DEF m, w
  <2>2. M \in SUBSET Index(k) /\ lo .. m - 1 \in SUBSET Index(k)
    BY <1>7, <1>9
  <2>3. new \in SUBSET Index(k)
    <3>1. new \subseteq Shift(i, 0 .. w - 1)
      BY DEF Shift, WithBit
    <3>2. i .. m - 1 \subseteq Index(k)
      BY <1>6, <1>7
    <3> QED
      BY <1>6, <3>1, <3>2
  <2>4. vq[b] = Plus(base[b], Image(f, M))
    BY <1>5
  <2>5. col >= VOLE_WIDTH_SHIFT
    BY <1>3, GrayStep
  <2> HIDE DEF M, new
  <2>6. CASE b < VOLE_WIDTH_SHIFT
    <3>1. b # col /\ b \in 0 .. VOLE_WIDTH_SHIFT - 1
      BY <1>1, <1>3, <2>5, <2>6
    <3>2. vq'[b] = Plus(vq[b], sum[b + 1])
      BY <1>5, <2>0, <2>6, <3>1
    <3>3. sum[b + 1] = Image(f, new)
      BY <1>4, <3>1 DEF new
    <3>4. Plus(Image(f, M), Image(f, new)) = Image(f, Plus(M, new))
      BY <1>0, <2>2, <2>3
    <3>5. Plus(Plus(base[b], Image(f, M)), Image(f, new))
            = Plus(base[b], Plus(Image(f, M), Image(f, new)))
      BY PlusAssoc
    <3> QED
      BY <2>1, <2>4, <2>6, <3>2, <3>3, <3>4, <3>5
  <2>7. CASE ~(b < VOLE_WIDTH_SHIFT) /\ b = col
    <3>1. vq'[b] = Plus(vq[b], accum')
      BY <1>5, <2>0, <2>7
    <3>2. Plus(Image(f, M), Image(f, lo .. m - 1)) = Image(f, Plus(M, lo .. m - 1))
      BY <1>0, <2>2
    <3>3. Plus(Plus(base[b], Image(f, M)), Image(f, lo .. m - 1))
            = Plus(base[b], Plus(Image(f, M), Image(f, lo .. m - 1)))
      BY PlusAssoc
    <3>4. Members(k, lo, m, b) = Plus(M, lo .. m - 1)
      BY <2>1, <2>7
    <3> QED
      BY <1>8, <2>4, <3>1, <3>2, <3>3, <3>4
  <2>8. CASE ~(b < VOLE_WIDTH_SHIFT) /\ b # col
    <3>1. vq'[b] = vq[b]
      BY <1>5, <2>0, <2>8
    <3> QED
      BY <2>1, <2>4, <2>8, <3>1
  <2> QED
    BY <2>6, <2>7, <2>8
<1>11. vq' = [b \in 0 .. k - 1 |-> vq'[b]]
  BY <1>2, <1>5
<1> QED
  BY <1>8, <1>10, <1>11 DEF Summed, m, w

---------------------------------------------------------------------------
(* The inductive invariant: what is summed up so far, of the sender's keys     *)
(* and then of the receiver's, which leaves its first chunk out.              *)
SenderU == IF chosen THEN {U} ELSE Index(k)
SenderC == IF chosen THEN Plus({U}, Index(k)) ELSE {}
Columns(n) == [b \in 0 .. n - 1 |-> {x \in Index(n) : Bit(x, b)}]

IInv ==
  /\ k \in K /\ delta \in Index(k) /\ chosen \in BOOLEAN
  /\ i \in Nat /\ i % VOLE_WIDTH = 0 /\ i <= Pow2[k]
  /\ pc \in {"sender", "first", "receiver", "done"}
  /\ pc = "sender" => /\ Summed(k, SenderIndex, 0, Zero, i, accum, vq)
                      /\ u = {} /\ c = {} /\ v = Zero
  /\ pc # "sender" => v = Columns(k) /\ u = SenderU /\ c = SenderC
  /\ pc = "first" => i = 0 /\ accum = {} /\ vq = Corrected(c)
  /\ pc \in {"receiver", "done"} =>
       /\ VOLE_WIDTH <= i
       /\ Summed(k, ReceiverIndex, VOLE_WIDTH, Corrected(c), i, accum, vq)
  /\ pc = "done" => i = Pow2[k]

(* The receiver's first chunk, whose first key it has not got.               *)
LEMMA FirstChunkSummed ==
  ASSUME k \in K, VOLE_WIDTH_SHIFT < k, delta \in Index(k),
         i = 0, accum = {}, vq = Corrected(c), AddChunk(FirstChunk, FALSE)
  PROVE  Summed(k, ReceiverIndex, VOLE_WIDTH, Corrected(c), VOLE_WIDTH, accum', vq')
<1> DEFINE w == VOLE_WIDTH
           f == ReceiverIndex
           T == 1 .. w - 1
           sum == xor_reduce(FirstChunk)
           base == Corrected(c)
<1>1. /\ w \in Nat \ {0} /\ VOLE_WIDTH_SHIFT \in Nat /\ k \in Nat \ {0} /\ Pow2[k] \in Nat
  BY Widths
<1>2. accum' = {} /\ vq' = [b \in DOMAIN vq |->
        IF b < VOLE_WIDTH_SHIFT THEN Plus(vq[b], sum[b + 1]) ELSE vq[b]]
  BY DEF AddChunk
<1>3. i \in Nat /\ w <= Pow2[k] /\ i + VOLE_WIDTH <= Pow2[k]
  <2>1. Pow2[VOLE_WIDTH_SHIFT] <= Pow2[k]
    BY <1>1, Pow2Monotone
  <2> QED
    BY <1>1, <2>1, Widths
<1>4. OneToOne(k, f) /\ ReceiverKey = [n \in Index(k) |-> {f[n]}]
  BY Indices DEF OneToOne
<1>5. IsChunk(f, T, FirstChunk)
  <2>1. \A p \in 0 .. w - 1 : i + p \in Index(k) /\ i + p = p
    <3> DEFINE e == Pow2[k]
    <3>1. \A p \in 0 .. w - 1 : p \in 0 .. e - 1 /\ i + p = p
      BY <1>1, <1>3
    <3> HIDE DEF e
    <3> QED
      BY <3>1 DEF Index, e
  <2> HIDE DEF f
  <2>2. \A p \in 0 .. w - 1 : Chunk(ReceiverKey)[p] = {f[i + p]}
    BY <1>4, <2>1 DEF Chunk
  <2>3. DOMAIN Chunk(ReceiverKey) = 0 .. w - 1
    BY DEF Chunk
  <2>4. \A p \in 0 .. w - 1 : p \in T <=> p # 0
    BY <1>1
  <2> HIDE DEF T
  <2> QED
    BY <2>2, <2>3, <2>4 DEF IsChunk, FirstChunk
<1>6. T \in SUBSET (0 .. VOLE_WIDTH - 1)
  BY <1>1
<1> HIDE DEF T, f
<1>7. \A b \in 0 .. VOLE_WIDTH_SHIFT - 1 : sum[b + 1] = Image(f, Shift(i, WithBit(T, b)))
  BY <1>3, <1>4, <1>5, <1>6, ChunkSums
<1> HIDE DEF sum
<1>8. vq = [b \in 0 .. k - 1 |-> base[b]] /\ base = vq
  BY DEF Corrected
<1> HIDE DEF base
<1>9. ASSUME NEW b \in 0 .. k - 1
      PROVE  vq'[b] = Plus(base[b], Image(f, Members(k, w, w, b)))
  <2>1. CASE b < VOLE_WIDTH_SHIFT
    <3>1. ~Bit(0, b)
      BY NoBitsOfZero
    <3>2. Members(k, w, w, b) = {x \in 0 .. w - 1 : Bit(x, b)}
      BY <2>1 DEF Members
    <3>3. Shift(i, WithBit(T, b)) = {x \in 0 .. w - 1 : Bit(x, b)}
      <4>1. 0 .. w - 1 = T \cup {0} /\ \A x \in T : i + x = x
        BY <1>1 DEF T
      <4> HIDE DEF w
      <4> QED
        BY <3>1, <4>1 DEF Shift, WithBit
    <3>4. b \in 0 .. VOLE_WIDTH_SHIFT - 1
      BY <1>1, <2>1
    <3>5. vq'[b] = Plus(vq[b], sum[b + 1])
      BY <1>2, <1>8, <2>1
    <3> QED
      BY <1>7, <1>8, <3>2, <3>3, <3>4, <3>5
  <2>2. CASE ~(b < VOLE_WIDTH_SHIFT)
    <3>1. Members(k, w, w, b) = {}
      BY <1>1, <2>2 DEF Members
    <3>2. Image(f, {}) = {}
      BY DEF Image
    <3>3. vq'[b] = vq[b]
      BY <1>2, <1>8, <2>2
    <3> QED
      BY <1>8, <3>1, <3>2, <3>3, PlusAssoc
  <2> QED
    BY <2>1, <2>2
<1>10. vq' = [b \in 0 .. k - 1 |-> vq'[b]]
  BY <1>2, <1>8
<1>11. accum' = Image(f, w .. w - 1)
  BY <1>1, <1>2 DEF Image
<1> QED
  BY <1>9, <1>10, <1>11 DEF Summed, f, base, w

(* At the end of the vector Gray's code is back at 0: the members of column b *)
(* are the keys with bit b set before they were exchanged by delta.           *)
LEMMA LastMembers ==
  ASSUME k \in K, VOLE_WIDTH_SHIFT < k, delta \in Index(k), NEW lo \in {0, VOLE_WIDTH},
         NEW b \in 0 .. k - 1
  PROVE  Members(k, lo, Pow2[k], b) = {x \in Index(k) : Bit(SenderIndex[x], b)}
<1> DEFINE s == VOLE_WIDTH_SHIFT
           w == VOLE_WIDTH
           e == Pow2[k]
<1>1. /\ w \in Nat \ {0} /\ s \in Nat /\ k \in Nat \ {0} /\ e \in Nat /\ w = Pow2[s] /\ b \in Nat
      /\ Index(k) = 0 .. e - 1
  BY Widths DEF Index
<1>2. \A x \in Index(k) : Bit(SenderIndex[x], b) <=> IF b < s THEN Bit(x, b) ELSE Gray(x, b)
  BY PermutedBits DEF SenderIndex
<1>3. CASE b < s
  BY <1>1, <1>2, <1>3 DEF Members
<1>4. CASE ~(b < s)
  <2>1. ~Code(k, e, b)
    BY <1>1 DEF Code
  <2>2. \A x : Gray(x, b) \in BOOLEAN /\ Code(k, x, b) \in BOOLEAN
    BY DEF Gray, Code
  <2>3. \A x : (Gray(x, b) # Code(k, e, b)) <=> Gray(x, b)
    BY <2>1, <2>2, Zenon
  <2>4. ASSUME NEW x \in Index(k), ~(lo <= x) PROVE ~Gray(x, b)
    <3>1. x \in Nat /\ x < Pow2[s]
      BY <1>1, <2>4
    <3>2. s <= b /\ s <= b + 1 /\ b + 1 \in Nat
      BY <1>1, <1>4
    <3>3. ~Bit(x, b) /\ ~Bit(x, b + 1)
      BY <1>1, <3>1, <3>2, NoBits
    <3> QED
      BY <3>3 DEF Gray, Bit
  <2>5. Members(k, lo, e, b) = {x \in lo .. e - 1 : Gray(x, b)}
    BY <1>4, <2>3 DEF Members
  <2>6. {x \in lo .. e - 1 : Gray(x, b)} = {x \in Index(k) : Gray(x, b)}
    <3>1. \A x \in Index(k) : lo <= x => x \in lo .. e - 1
      BY <1>1
    <3>2. \A x \in lo .. e - 1 : x \in Index(k)
      BY <1>1
    <3> HIDE DEF e
    <3> QED
      BY <2>4, <3>1, <3>2
  <2> QED
    BY <1>2, <1>4, <2>5, <2>6
<1> QED
  BY <1>3, <1>4

(* What the sender ends with.                                                *)
LEMMA SenderEnds ==
  ASSUME k \in K, VOLE_WIDTH_SHIFT < k, delta \in Index(k), i = Pow2[k],
         Summed(k, SenderIndex, 0, Zero, i, accum, vq)
  PROVE  accum = Index(k) /\ vq = Columns(k)
<1> DEFINE f == SenderIndex
<1>1. f \in [Index(k) -> Index(k)] /\ \A y \in Index(k) : \E x \in Index(k) : f[x] = y
  BY Indices
<1>2. k \in Nat /\ 0 .. i - 1 = Index(k)
  BY Widths DEF Index
<1>3. accum = Image(f, Index(k))
  BY <1>2 DEF Summed
<1>4. accum = Index(k)
  <2> HIDE DEF f
  <2> QED
    BY <1>1, <1>3 DEF Image
<1>5. ASSUME NEW b \in 0 .. k - 1 PROVE vq[b] = {x \in Index(k) : Bit(x, b)}
  <2>1. vq[b] = Plus(Zero[b], Image(f, Members(k, 0, Pow2[k], b)))
    BY DEF Summed
  <2>2. Zero[b] = {}
    BY DEF Zero
  <2>3. Members(k, 0, Pow2[k], b) = {x \in Index(k) : Bit(f[x], b)}
    BY LastMembers
  <2> HIDE DEF f
  <2>4. Image(f, {x \in Index(k) : Bit(f[x], b)}) = {x \in Index(k) : Bit(x, b)}
    BY <1>1 DEF Image
  <2> QED
    BY <2>1, <2>2, <2>3, <2>4, PlusAssoc
<1>6. vq = [b \in 0 .. k - 1 |-> vq[b]]
  BY DEF Summed
<1> QED
  BY <1>4, <1>5, <1>6 DEF Columns

LEMMA ExclusiveOr ==
  ASSUME NEW p \in BOOLEAN, NEW q \in BOOLEAN, NEW r \in BOOLEAN, p <=> (q # r)
  PROVE  q <=> (p # r)
<1>1. CASE r = TRUE
  BY <1>1, Zenon
<1>2. CASE r = FALSE
  BY <1>2, Zenon
<1> QED
  BY <1>1, <1>2, Zenon

(* What the receiver ends with.                                              *)
LEMMA ReceiverEnds ==
  ASSUME k \in K, VOLE_WIDTH_SHIFT < k, delta \in Index(k), i = Pow2[k], NEW base,
         Summed(k, ReceiverIndex, VOLE_WIDTH, base, i, accum, vq), NEW b \in 0 .. k - 1
  PROVE  vq[b] = Plus(base[b], {y \in Index(k) : Bit(y, b) # Bit(delta, b)})
<1> DEFINE g == SenderIndex
           f == ReceiverIndex
<1>1. /\ g \in [Index(k) -> Index(k)] /\ f \in [Index(k) -> Index(k)]
      /\ \A x \in Index(k) : f[x] = XorIndex(g[x], delta)
      /\ \A y \in Index(k) : \E x \in Index(k) : f[x] = y
  <2>1. f \in [Index(k) -> Index(k)] /\ \A x, y \in Index(k) : f[x] = f[y] => x = y
    BY Indices
  <2>2. \A y \in Index(k) : \E x \in Index(k) : f[x] = y
    <3>1. PICK h : h = f
      OBVIOUS
    <3> HIDE DEF f
    <3> QED
      BY <2>1, <3>1, IndexDef, OneToOneOnto DEF Index
  <2> HIDE DEF f, g
  <2> QED
    BY <2>1, <2>2, Indices DEF f, g
<1>2. vq[b] = Plus(base[b], Image(f, Members(k, VOLE_WIDTH, Pow2[k], b)))
  BY DEF Summed
<1>3. Members(k, VOLE_WIDTH, Pow2[k], b) = {x \in Index(k) : Bit(g[x], b)}
  BY LastMembers
<1> HIDE DEF f, g
<1>4. \A z : Bit(z, b) \in BOOLEAN
  BY DEF Bit
<1>5. ASSUME NEW x \in Index(k) PROVE Bit(g[x], b) <=> (Bit(f[x], b) # Bit(delta, b))
  <2>1. Bit(XorIndex(g[x], delta), b) <=> (Bit(g[x], b) # Bit(delta, b))
    BY <1>1, XorBits
  <2>2. Bit(f[x], b) <=> (Bit(g[x], b) # Bit(delta, b))
    BY <1>1, <2>1
  <2> QED
    BY <1>4, <2>2, ExclusiveOr
<1>6. {x \in Index(k) : Bit(g[x], b)} = {x \in Index(k) : Bit(f[x], b) # Bit(delta, b)}
  BY <1>5
<1>7. Image(f, {x \in Index(k) : Bit(f[x], b) # Bit(delta, b)})
        = {y \in Index(k) : Bit(y, b) # Bit(delta, b)}
  BY <1>1 DEF Image
<1> QED
  BY <1>2, <1>3, <1>6, <1>7

(* A chunk fits while the vector is not at its end.                          *)
LEMMA ChunkFits ==
  ASSUME k \in K, i \in Nat, i % VOLE_WIDTH = 0, i < Pow2[k]
  PROVE  i + VOLE_WIDTH \in Nat /\ (i + VOLE_WIDTH) % VOLE_WIDTH = 0 /\ i + VOLE_WIDTH <= Pow2[k]
<1> DEFINE w == VOLE_WIDTH
           h == Pow2[k - VOLE_WIDTH_SHIFT]
           q == i \div w
<1>1. w \in Nat \ {0} /\ VOLE_WIDTH_SHIFT \in 0 .. k /\ k \in Nat /\ w = Pow2[VOLE_WIDTH_SHIFT]
  BY Widths
<1>2. Pow2[k] = h * w /\ h \in Nat
  BY <1>1, Pow2Split
<1>3. i % w = 0
  OBVIOUS
<1> HIDE DEF w, h
<1>4. i + w \in Nat /\ (i + w) % w = 0
  BY <1>1, <1>3, NextMultiple
<1>5. q \in Nat /\ i = q * w
  BY <1>1, <1>3, Quotient
<1> HIDE DEF q
<1>6. q < h
  <2>1. SUFFICES ASSUME h <= q PROVE FALSE
    BY <1>2, <1>5
  <2>2. w * h <= w * q /\ w * h \in Nat /\ w * q \in Nat
    BY <1>1, <1>2, <1>5, <2>1, MulMonotone
  <2> QED
    BY <1>1, <1>2, <1>5, <2>2
<1>7. w * q + w <= w * h
  BY <1>1, <1>2, <1>5, <1>6, MulMonotone
<1>8. w * q = q * w /\ w * h = h * w
  BY <1>1, <1>2, <1>5
<1>9. i + w <= Pow2[k]
  BY <1>2, <1>5, <1>7, <1>8
<1> QED
  BY <1>4, <1>9 DEF w

LEMMA IInvStart ==
  Init => IInv
<1> SUFFICES ASSUME Init PROVE IInv
  OBVIOUS
<1>1. /\ k \in K /\ delta \in Index(k) /\ chosen \in BOOLEAN /\ i = 0 /\ accum = {} /\ vq = Zero
      /\ pc = "sender" /\ u = {} /\ c = {} /\ v = Zero
  BY DEF Init
<1>2. k \in Nat \ {0} /\ Pow2[k] \in Nat /\ VOLE_WIDTH \in Nat \ {0} /\ 0 % VOLE_WIDTH = 0
  BY <1>1, Widths
<1>3. Summed(k, SenderIndex, 0, Zero, i, accum, vq)
  <2>1. accum = Image(SenderIndex, 0 .. i - 1)
    BY <1>1 DEF Image
  <2>2. ASSUME NEW b \in 0 .. k - 1
        PROVE  vq[b] = Plus(Zero[b], Image(SenderIndex, Members(k, 0, i, b)))
    <3>1. Members(k, 0, i, b) = {}
      BY <1>1 DEF Members
    <3>2. Image(SenderIndex, {}) = {} /\ Zero[b] = {}
      BY DEF Image, Zero
    <3> QED
      BY <1>1, <3>1, <3>2, PlusAssoc
  <2>3. vq = [b \in 0 .. k - 1 |-> vq[b]]
    BY <1>1 DEF Zero
  <2> QED
    BY <2>1, <2>2, <2>3 DEF Summed
<1> QED
  BY <1>1, <1>2, <1>3 DEF IInv

LEMMA IInvStep ==
  ASSUME \A n \in K : VOLE_WIDTH_SHIFT < n, IInv, [Next]_vars
  PROVE  IInv'
<1>1. /\ k \in K /\ delta \in Index(k) /\ chosen \in BOOLEAN
      /\ i \in Nat /\ i % VOLE_WIDTH = 0 /\ i <= Pow2[k]
      /\ VOLE_WIDTH_SHIFT < k
      /\ VOLE_WIDTH \in Nat \ {0} /\ Pow2[k] \in Nat \ {0} /\ k \in Nat \ {0}
  BY Widths DEF IInv
<1>2. OneToOne(k, SenderIndex) /\ OneToOne(k, ReceiverIndex)
  BY <1>1, Indices DEF OneToOne
<1>3. /\ SenderKey = [n \in Index(k) |-> {SenderIndex[n]}]
      /\ ReceiverKey = [n \in Index(k) |-> {ReceiverIndex[n]}]
  BY <1>1, Indices
<1>4. CASE SenderChunk
  <2>1. /\ pc = "sender" /\ i < Pow2[k] /\ AddChunk(Chunk(SenderKey), TRUE)
        /\ i' = i + VOLE_WIDTH /\ UNCHANGED <<k, delta, chosen, u, c, v, pc>>
    BY <1>4 DEF SenderChunk
  <2>2. i' \in Nat /\ i' % VOLE_WIDTH = 0 /\ i' <= Pow2[k]
    BY <1>1, <2>1, ChunkFits
  <2>3. Summed(k, SenderIndex, 0, Zero, i, accum, vq) /\ u = {} /\ c = {} /\ v = Zero
    BY <2>1 DEF IInv
  <2>4. Summed(k, SenderIndex, 0, Zero, i', accum', vq')
    <3>1. 0 \in Nat /\ 0 <= i /\ i + VOLE_WIDTH <= Pow2[k]
      BY <1>1, <2>1, ChunkFits
    <3>2. AddChunk(Chunk([n \in Index(k) |-> {SenderIndex[n]}]), TRUE)
      BY <1>3, <2>1
    <3>3. Summed(k, SenderIndex, 0, Zero, i + VOLE_WIDTH, accum', vq')
      BY <1>1, <1>2, <2>3, <3>1, <3>2, WholeChunk
    <3> QED
      BY <2>1, <3>3
  <2>5. SenderIndex' = SenderIndex /\ Zero' = Zero
    BY <2>1 DEF SenderIndex, Zero
  <2> QED
    BY <1>1, <2>1, <2>2, <2>3, <2>4, <2>5 DEF IInv
<1>5. CASE SenderReturn
  <2>1. /\ pc = "sender" /\ i = Pow2[k] /\ v' = vq
        /\ u' = IF chosen THEN {U} ELSE accum
        /\ c' = IF chosen THEN Plus({U}, accum) ELSE {}
        /\ i' = 0 /\ accum' = {} /\ vq' = Corrected(c') /\ pc' = "first"
        /\ UNCHANGED <<k, delta, chosen>>
    BY <1>5 DEF SenderReturn
  <2>2. accum = Index(k) /\ vq = Columns(k)
    <3>1. Summed(k, SenderIndex, 0, Zero, i, accum, vq)
      BY <2>1 DEF IInv
    <3> QED
      BY <1>1, <2>1, <3>1, SenderEnds
  <2>3. v' = Columns(k)' /\ u' = SenderU' /\ c' = SenderC'
    BY <2>1, <2>2 DEF Columns, SenderU, SenderC
  <2>4. Corrected(c)' = Corrected(c')
    BY <2>1 DEF Corrected
  <2>5. 0 % VOLE_WIDTH = 0
    BY <1>1
  <2> QED
    BY <1>1, <2>1, <2>3, <2>4, <2>5 DEF IInv
<1>6. CASE ReceiverFirst
  <2>1. /\ pc = "first" /\ AddChunk(FirstChunk, FALSE) /\ i' = VOLE_WIDTH
        /\ pc' = "receiver" /\ UNCHANGED <<k, delta, chosen, u, c, v>>
    BY <1>6 DEF ReceiverFirst
  <2>2. i = 0 /\ accum = {} /\ vq = Corrected(c) /\ v = Columns(k) /\ u = SenderU /\ c = SenderC
    BY <2>1 DEF IInv
  <2>3. Summed(k, ReceiverIndex, VOLE_WIDTH, Corrected(c), VOLE_WIDTH, accum', vq')
    BY <1>1, <2>1, <2>2, FirstChunkSummed
  <2>4. i' \in Nat /\ i' % VOLE_WIDTH = 0 /\ i' <= Pow2[k]
    <3>1. 0 < Pow2[k]
      BY <1>1
    <3> QED
      BY <1>1, <2>1, <2>2, <3>1, ChunkFits
  <2>5. /\ ReceiverIndex' = ReceiverIndex /\ Corrected(c)' = Corrected(c)
        /\ Columns(k)' = Columns(k) /\ SenderU' = SenderU /\ SenderC' = SenderC
    BY <2>1 DEF ReceiverIndex, Corrected, Columns, SenderU, SenderC
  <2> QED
    BY <1>1, <2>1, <2>2, <2>3, <2>4, <2>5 DEF IInv
<1>7. CASE ReceiverChunk
  <2>1. /\ pc = "receiver" /\ i < Pow2[k] /\ AddChunk(Chunk(ReceiverKey), TRUE)
        /\ i' = i + VOLE_WIDTH /\ UNCHANGED <<k, delta, chosen, u, c, v, pc>>
    BY <1>7 DEF ReceiverChunk
  <2>2. i' \in Nat /\ i' % VOLE_WIDTH = 0 /\ i' <= Pow2[k] /\ i + VOLE_WIDTH <= Pow2[k]
    BY <1>1, <2>1, ChunkFits
  <2>3. /\ VOLE_WIDTH <= i
        /\ Summed(k, ReceiverIndex, VOLE_WIDTH, Corrected(c), i, accum, vq)
        /\ v = Columns(k) /\ u = SenderU /\ c = SenderC
    BY <2>1 DEF IInv
  <2>4. Summed(k, ReceiverIndex, VOLE_WIDTH, Corrected(c), i', accum', vq')
    <3>1. VOLE_WIDTH \in Nat
      BY <1>1
    <3>2. AddChunk(Chunk([n \in Index(k) |-> {ReceiverIndex[n]}]), TRUE)
      BY <1>3, <2>1
    <3>3. Summed(k, ReceiverIndex, VOLE_WIDTH, Corrected(c), i + VOLE_WIDTH, accum', vq')
      BY <1>1, <1>2, <2>2, <2>3, <3>1, <3>2, WholeChunk
    <3> QED
      BY <2>1, <3>3
  <2>5. /\ ReceiverIndex' = ReceiverIndex /\ Corrected(c)' = Corrected(c)
        /\ Columns(k)' = Columns(k) /\ SenderU' = SenderU /\ SenderC' = SenderC
    BY <2>1 DEF ReceiverIndex, Corrected, Columns, SenderU, SenderC
  <2>6. VOLE_WIDTH <= i'
    BY <1>1, <2>1, <2>3
  <2> QED
    BY <1>1, <2>1, <2>2, <2>3, <2>4, <2>5, <2>6 DEF IInv
<1>8. CASE ReceiverReturn \/ UNCHANGED vars
  <2>1. /\ UNCHANGED <<k, delta, chosen, i, accum, vq, u, c, v>>
        /\ pc' = pc \/ (pc = "receiver" /\ i = Pow2[k] /\ pc' = "done")
    BY <1>8 DEF ReceiverReturn, vars
  <2>2. /\ SenderIndex' = SenderIndex /\ ReceiverIndex' = ReceiverIndex
        /\ Corrected(c)' = Corrected(c) /\ Zero' = Zero
        /\ Columns(k)' = Columns(k) /\ SenderU' = SenderU /\ SenderC' = SenderC
    BY <2>1 DEF SenderIndex, ReceiverIndex, Corrected, Zero, Columns, SenderU, SenderC
  <2> QED
    BY <1>1, <2>1, <2>2 DEF IInv
<1> QED
  BY <1>4, <1>5, <1>6, <1>7, <1>8 DEF Next

LEMMA IInvAlways ==
  ASSUME \A n \in K : VOLE_WIDTH_SHIFT < n
  PROVE  Spec => []IInv
<1>1. Init => IInv
  BY IInvStart
<1>2. IInv /\ [Next]_vars => IInv'
  BY IInvStep
<1> QED
  BY <1>1, <1>2, PTL DEF Spec

---------------------------------------------------------------------------
(* What the sender returns is the syndrome of the Hamming code, for every      *)
(* length of a vector and every number of keys processed at once: column b is  *)
(* the sum of the keys whose index has bit b set, and u and the correction     *)
(* add up to the sum of all of them.  The vector must be longer than a chunk:  *)
(* one of a single chunk has no column for Gray's code (small_vole.c:32-58).   *)
THEOREM SenderColumns ==
  ASSUME \A n \in K : VOLE_WIDTH_SHIFT < n
  PROVE  Spec => []ColumnsAreBits
<1>1. IInv => ColumnsAreBits
  <2> SUFFICES ASSUME IInv, pc # "sender"
               PROVE  /\ \A b \in 0 .. k - 1 : v[b] = {x \in Index(k) : Bit(x, b)}
                      /\ Plus(u, c) = Index(k)
    BY DEF ColumnsAreBits
  <2>1. v = Columns(k) /\ u = SenderU /\ c = SenderC /\ chosen \in BOOLEAN
    BY DEF IInv
  <2>2. Plus({U}, Plus({U}, Index(k))) = Index(k) /\ Plus(Index(k), {}) = Index(k)
    BY DEF Plus
  <2>3. Plus(u, c) = Index(k)
    BY <2>1, <2>2 DEF SenderU, SenderC
  <2>4. \A b \in 0 .. k - 1 : v[b] = {x \in Index(k) : Bit(x, b)}
    BY <2>1 DEF Columns
  <2> QED
    BY <2>3, <2>4
<1> QED
  BY <1>1, IInvAlways, PTL

(* The columns of receiver and sender differ by delta u, though the receiver   *)
(* has not the key of index delta and leaves the first chunk out of the        *)
(* accumulator (small_vole.c:106-129): for every delta, with u chosen or not.   *)
THEOREM ReceiverCorrelation ==
  ASSUME \A n \in K : VOLE_WIDTH_SHIFT < n
  PROVE  Spec => []VoleCorrelation
<1>1. IInv => VoleCorrelation
  <2> SUFFICES ASSUME IInv, pc = "done", NEW b \in 0 .. k - 1
               PROVE  vq[b] = IF Bit(delta, b) THEN Plus(v[b], u) ELSE v[b]
    BY DEF VoleCorrelation
  <2> DEFINE vb == {x \in Index(k) : Bit(x, b)}
             qb == {y \in Index(k) : Bit(y, b) # Bit(delta, b)}
  <2>1. /\ k \in K /\ delta \in Index(k) /\ i = Pow2[k] /\ VOLE_WIDTH_SHIFT < k
        /\ Summed(k, ReceiverIndex, VOLE_WIDTH, Corrected(c), i, accum, vq)
        /\ v = Columns(k) /\ u = SenderU /\ c = SenderC /\ chosen \in BOOLEAN
    BY DEF IInv
  <2>2. v[b] = vb
    BY <2>1 DEF Columns
  <2>3. vq[b] = Plus(Corrected(c)[b], qb)
    BY <2>1, ReceiverEnds
  <2>4. Corrected(c)[b] = IF chosen /\ Bit(delta, b) THEN c ELSE {}
    BY DEF Corrected
  <2>5. \A y : Bit(y, b) \in BOOLEAN
    BY DEF Bit
  <2>6. CASE ~Bit(delta, b)
    <3>1. \A y : (Bit(y, b) # Bit(delta, b)) <=> Bit(y, b)
      BY <2>5, <2>6, Zenon
    <3>2. qb = vb
      BY <3>1
    <3> HIDE DEF qb, vb
    <3> QED
      BY <2>2, <2>3, <2>4, <2>6, <3>2, PlusAssoc
  <2>7. CASE Bit(delta, b)
    <3>1. \A y : (Bit(y, b) # Bit(delta, b)) <=> ~Bit(y, b)
      BY <2>5, <2>7, Zenon
    <3>2. qb = Index(k) \ vb /\ vb \subseteq Index(k)
      BY <3>1
    <3> HIDE DEF qb, vb
    <3>3. qb = Plus(Index(k), vb)
      BY <3>2 DEF Plus
    <3>4. CASE chosen
      <4>1. vq[b] = Plus(Plus({U}, Index(k)), Plus(Index(k), vb)) /\ u = {U}
        BY <2>1, <2>3, <2>4, <2>7, <3>3, <3>4 DEF SenderU, SenderC
      <4>2. Plus(Plus({U}, Index(k)), Plus(Index(k), vb)) = Plus(vb, {U})
        BY DEF Plus
      <4> QED
        BY <2>2, <2>7, <4>1, <4>2
    <3>5. CASE ~chosen
      <4>1. vq[b] = Plus({}, Plus(Index(k), vb)) /\ u = Index(k)
        BY <2>1, <2>3, <2>4, <3>3, <3>5 DEF SenderU
      <4>2. Plus({}, Plus(Index(k), vb)) = Plus(vb, Index(k))
        BY PlusAssoc
      <4> QED
        BY <2>2, <2>7, <4>1, <4>2
    <3> QED
      BY <3>4, <3>5
  <2> QED
    BY <2>6, <2>7
<1> QED
  BY <1>1, IInvAlways, PTL

(* The indices stay inside the vector, and every sum is one of keys of the     *)
(* longest vector and the chosen u.                                          *)
THEOREM Types ==
  ASSUME \A n \in K : VOLE_WIDTH_SHIFT < n
  PROVE  Spec => []TypeOK
<1>1. ASSUME NEW a \in Block, NEW b \in Block PROVE Plus(a, b) \in Block
  BY DEF Plus, Block
<1>2. ASSUME IInv PROVE TypeOK
  <2>1. /\ k \in K /\ delta \in Index(k) /\ chosen \in BOOLEAN /\ i \in Nat /\ i <= Pow2[k]
        /\ pc \in {"sender", "first", "receiver", "done"} /\ k \in Nat
        /\ VOLE_WIDTH \in Nat /\ Pow2[k] \in Nat
    BY <1>2, Widths DEF IInv
  <2>2. /\ Index(k) \subseteq Index(VOLE_MAX_K)
        /\ {} \in Block /\ {U} \in Block /\ \A T \in SUBSET Index(k) : T \in Block
    BY <2>1, IndexDef DEF Block
  <2>3. ASSUME NEW f, f \in [Index(k) -> Index(k)], NEW lo \in Nat, NEW base,
               \A b \in 0 .. k - 1 : base[b] \in Block,
               Summed(k, f, lo, base, i, accum, vq)
        PROVE  accum \in Block /\ vq \in [0 .. k - 1 -> Block]
    <3>1. lo .. i - 1 \subseteq Index(k) /\ 0 .. i - 1 \subseteq Index(k)
      BY <2>1 DEF Index
    <3>2. \A T \in SUBSET Index(k) : Image(f, T) \in SUBSET Index(k)
      BY <2>3 DEF Image
    <3>3. ASSUME NEW b \in 0 .. k - 1 PROVE vq[b] \in Block
      <4>1. Members(k, lo, i, b) \in SUBSET Index(k)
        BY <3>1 DEF Members
      <4>2. Image(f, Members(k, lo, i, b)) \in Block
        BY <2>2, <3>2, <4>1
      <4> QED
        BY <1>1, <2>3, <4>2 DEF Summed
    <3>4. vq = [b \in 0 .. k - 1 |-> vq[b]]
      BY <2>3 DEF Summed
    <3>5. accum \in Block
      BY <2>2, <2>3, <3>1, <3>2 DEF Summed
    <3> HIDE DEF Block
    <3> QED
      BY <3>3, <3>4, <3>5
  <2>4. SenderU \in Block /\ SenderC \in Block
    <3>1. Plus({U}, Index(k)) \in Block
      BY <1>1, <2>2
    <3> QED
      BY <2>2, <3>1 DEF SenderU, SenderC
  <2>5. Columns(k) \in [0 .. k - 1 -> Block]
    BY <2>2 DEF Columns
  <2>6. SenderIndex \in [Index(k) -> Index(k)] /\ ReceiverIndex \in [Index(k) -> Index(k)]
    BY <2>1, Indices
  <2>7. CASE pc = "sender"
    <3>1. Summed(k, SenderIndex, 0, Zero, i, accum, vq) /\ \A b \in 0 .. k - 1 : Zero[b] \in Block
      BY <1>2, <2>2, <2>7 DEF IInv, Zero
    <3>2. accum \in Block /\ vq \in [0 .. k - 1 -> Block]
      BY <2>3, <2>6, <3>1
    <3>3. u = {} /\ c = {} /\ v = Zero /\ Zero \in [0 .. k - 1 -> Block]
      BY <1>2, <2>2, <2>7 DEF IInv, Zero
    <3> HIDE DEF Block
    <3> QED
      BY <2>1, <2>2, <3>2, <3>3 DEF TypeOK
  <2>8. CASE pc # "sender"
    <3>1. v = Columns(k) /\ u = SenderU /\ c = SenderC
      BY <1>2, <2>8 DEF IInv
    <3>2. Corrected(c) \in [0 .. k - 1 -> Block] /\ \A b \in 0 .. k - 1 : Corrected(c)[b] \in Block
      BY <2>2, <2>4, <3>1 DEF Corrected
    <3>3. accum \in Block /\ vq \in [0 .. k - 1 -> Block]
      <4>1. CASE pc = "first"
        BY <1>2, <2>2, <3>2, <4>1 DEF IInv
      <4>2. CASE pc \in {"receiver", "done"}
        <5>1. Summed(k, ReceiverIndex, VOLE_WIDTH, Corrected(c), i, accum, vq)
          BY <1>2, <4>2 DEF IInv
        <5> QED
          BY <2>1, <2>3, <2>6, <3>2, <5>1
      <4> QED
        BY <2>1, <2>8, <4>1, <4>2
    <3> HIDE DEF Block
    <3> QED
      BY <2>1, <2>4, <2>5, <3>1, <3>3 DEF TypeOK
  <2> QED
    BY <2>7, <2>8
<1> QED
  BY <1>2, IInvAlways, PTL
============================================================================

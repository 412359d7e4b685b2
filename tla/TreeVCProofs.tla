---------------------------- MODULE TreeVCProofs ----------------------------
(***************************************************************************)
(* The vector commitment with one tree a vector, for every number and length *)
(* of vectors and both chunk sizes: the order in which the signer expands    *)
(* the trees, what an opening reveals, and the assertions the verifier makes *)
(* while it grows its subtrees to a chunk each.                              *)
(***************************************************************************)
EXTENDS TreeVC, PowersOfTwoProofs, FiniteSetTheorems, SequenceTheorems

---------------------------------------------------------------------------
(* The shape of the trees.                                                   *)
FD(x, d) == FIRST_DESCENDENT_DEPTH(x, d, FALSE)

LEMMA FirstDef ==
  \A x, d : FD(x, d) = (x + BITS_PER_WITNESS) * Pow2[d] - BITS_PER_WITNESS
BY DEF FD, FIRST_DESCENDENT_DEPTH, TREES_IN_FOREST

LEMMA FirstValue ==
  ASSUME NEW x \in Nat, NEW d \in Nat
  PROVE  /\ FD(x, d) = (x + BITS_PER_WITNESS) * Pow2[d] - BITS_PER_WITNESS
         /\ FD(x, d) \in Nat
         /\ FD(x, 0) = x
         /\ x <= FD(x, d)
         /\ FIRST_CHILD(x, FALSE) = 2 * x + BITS_PER_WITNESS
         /\ FD(x, d + 1) = 2 * FD(x, d) + BITS_PER_WITNESS
<1>1. /\ BITS_PER_WITNESS \in Nat /\ Pow2[d] \in Nat \ {0} /\ Pow2[0] = 1
      /\ Pow2[d + 1] = 2 * Pow2[d]
  BY TreeAssumption, Pow2Values
<1>2. \A e : FD(x, e) = (x + BITS_PER_WITNESS) * Pow2[e] - BITS_PER_WITNESS
  BY FirstDef
<1>3. (x + BITS_PER_WITNESS) * 1 <= (x + BITS_PER_WITNESS) * Pow2[d]
  BY <1>1, MulMonotone
<1>4. (x + BITS_PER_WITNESS) * Pow2[d] \in Nat
  BY <1>1
<1>5. (x + BITS_PER_WITNESS) * (2 * Pow2[d]) = 2 * ((x + BITS_PER_WITNESS) * Pow2[d])
  BY <1>1
<1>6. FIRST_CHILD(x, FALSE) = 2 * x + BITS_PER_WITNESS
  BY DEF FIRST_CHILD, TREES_IN_FOREST
<1>7. FD(x, d) \in Nat /\ x <= FD(x, d)
  BY <1>1, <1>2, <1>3, <1>4
<1>8. FD(x, 0) = x
  BY <1>1, <1>2
<1>9. FD(x, d + 1) = 2 * FD(x, d) + BITS_PER_WITNESS
  <2> DEFINE all == (x + BITS_PER_WITNESS) * Pow2[d]
  <2>1. FD(x, d + 1) = 2 * all - BITS_PER_WITNESS
    BY <1>1, <1>2, <1>5
  <2>2. FD(x, d) = all - BITS_PER_WITNESS /\ all \in Nat
    BY <1>2, <1>4
  <2> HIDE DEF all
  <2> QED
    BY <1>1, <2>1, <2>2
<1> QED
  BY <1>2, <1>6, <1>7, <1>8, <1>9

LEMMA FirstNat ==
  \A x, d \in Nat : FD(x, d) \in Nat
BY FirstValue

LEMMA FirstSum ==
  ASSUME NEW x \in Nat, NEW y \in Nat, NEW d \in Nat
  PROVE  /\ FD(x + y, d) = FD(x, d) + y * Pow2[d]
         /\ FD(x, d) <= FD(x + y, d)
         /\ FD(BITS_PER_WITNESS, d) = FD(0, d + 1)
<1>1. BITS_PER_WITNESS \in Nat /\ Pow2[d] \in Nat \ {0} /\ Pow2[d + 1] = 2 * Pow2[d]
  BY TreeAssumption, Pow2Values
<1>2. (x + y + BITS_PER_WITNESS) * Pow2[d] = (x + BITS_PER_WITNESS) * Pow2[d] + y * Pow2[d]
  BY <1>1
<1>3. y * Pow2[d] \in Nat /\ (x + BITS_PER_WITNESS) * Pow2[d] \in Nat
  BY <1>1
<1>4. (BITS_PER_WITNESS + BITS_PER_WITNESS) * Pow2[d] = (0 + BITS_PER_WITNESS) * (2 * Pow2[d])
  BY <1>1
<1>5. FD(x + y, d) = (x + y + BITS_PER_WITNESS) * Pow2[d] - BITS_PER_WITNESS
  BY FirstDef
<1>6. FD(x + y, d) = FD(x, d) + y * Pow2[d] /\ FD(x, d) \in Nat
  <2>1. FD(x, d) = (x + BITS_PER_WITNESS) * Pow2[d] - BITS_PER_WITNESS /\ FD(x, d) \in Nat
    BY FirstValue
  <2>2. BITS_PER_WITNESS \in Nat /\ y * Pow2[d] \in Nat /\ (x + BITS_PER_WITNESS) * Pow2[d] \in Nat
    BY <1>1
  <2> QED
    BY <2>1, <2>2, <1>2, <1>5
<1>7. FD(BITS_PER_WITNESS, d) = FD(0, d + 1)
  <2>1. FD(0, d + 1) = (0 + BITS_PER_WITNESS) * (2 * Pow2[d]) - BITS_PER_WITNESS
    BY <1>1, FirstDef
  <2>2. FD(BITS_PER_WITNESS, d) = (BITS_PER_WITNESS + BITS_PER_WITNESS) * Pow2[d] - BITS_PER_WITNESS
    BY FirstDef
  <2> QED
    BY <1>4, <2>1, <2>2
<1> QED
  BY <1>3, <1>6, <1>7

LEMMA FirstSucc ==
  ASSUME NEW x \in Nat, NEW d \in Nat
  PROVE  FD(x + 1, d) = FD(x, d) + Pow2[d]
<1>1. BITS_PER_WITNESS \in Nat /\ Pow2[d] \in Nat
  BY TreeAssumption, Pow2Values
<1>2. (x + 1 + BITS_PER_WITNESS) * Pow2[d] = (x + BITS_PER_WITNESS) * Pow2[d] + Pow2[d]
  BY <1>1
<1>3. FD(x + 1, d) = (x + 1 + BITS_PER_WITNESS) * Pow2[d] - BITS_PER_WITNESS
  BY FirstDef
<1>4. FD(x, d) = (x + BITS_PER_WITNESS) * Pow2[d] - BITS_PER_WITNESS
  BY FirstDef
<1>5. (x + BITS_PER_WITNESS) * Pow2[d] \in Nat
  BY <1>1
<1> QED
  BY <1>1, <1>2, <1>3, <1>4, <1>5

LEMMA FirstMonotone ==
  ASSUME NEW x \in Nat, NEW y \in Nat, NEW d \in Nat, x <= y
  PROVE  FD(x, d) <= FD(y, d)
<1>1. y - x \in Nat /\ y = x + (y - x)
  OBVIOUS
<1> QED
  BY <1>1, FirstSum

LEMMA FirstFirst ==
  ASSUME NEW x \in Nat, NEW a \in Nat, NEW b \in Nat
  PROVE  FD(FD(x, a), b) = FD(x, a + b)
<1>1. /\ BITS_PER_WITNESS \in Nat /\ Pow2[a] \in Nat /\ Pow2[b] \in Nat
      /\ a + b \in Nat
  BY TreeAssumption, Pow2Values
<1>0. Pow2[a + b] = Pow2[a] * Pow2[b]
  BY Pow2Sum
<1>2. /\ FD(x, a) = (x + BITS_PER_WITNESS) * Pow2[a] - BITS_PER_WITNESS
      /\ FD(x, a) \in Nat
      /\ FD(x, a + b) = (x + BITS_PER_WITNESS) * Pow2[a + b] - BITS_PER_WITNESS
  BY <1>1, FirstValue
<1>3. FD(FD(x, a), b) = (FD(x, a) + BITS_PER_WITNESS) * Pow2[b] - BITS_PER_WITNESS
  BY <1>2, FirstValue
<1>4. (x + BITS_PER_WITNESS) * Pow2[a] \in Nat
  BY <1>1
<1>5. FD(x, a) + BITS_PER_WITNESS = (x + BITS_PER_WITNESS) * Pow2[a]
  BY <1>1, <1>2, <1>4
<1>6. \A m, n, o \in Nat : (m * n) * o = m * (n * o)
  OBVIOUS
<1> QED
  BY <1>0, <1>1, <1>2, <1>3, <1>5, <1>6

LEMMA FirstOfChild ==
  ASSUME NEW x \in Nat, NEW d \in Nat
  PROVE  /\ FIRST_CHILD(x, FALSE) \in Nat
         /\ FIRST_CHILD(x, FALSE) = FD(x, 1)
         /\ FD(FIRST_CHILD(x, FALSE), d) = FD(x, d + 1)
<1>1. FIRST_CHILD(x, FALSE) = FD(x, 1) /\ FD(x, 1) \in Nat
  <2>1. BITS_PER_WITNESS \in Nat /\ 0 \in Nat /\ 0 + 1 = 1
    BY TreeAssumption
  <2>2. FIRST_CHILD(x, FALSE) = 2 * x + BITS_PER_WITNESS /\ FD(x, 0) = x
    BY <2>1, FirstValue
  <2>3. FD(x, 1) = (x + BITS_PER_WITNESS) * Pow2[1] - BITS_PER_WITNESS
    BY FirstDef
  <2>4. Pow2[1] = 2
    BY <2>1, Pow2Values
  <2>5. (x + BITS_PER_WITNESS) * 2 = 2 * x + BITS_PER_WITNESS + BITS_PER_WITNESS
    BY <2>1
  <2>6. FD(x, 1) = (x + BITS_PER_WITNESS) * 2 - BITS_PER_WITNESS
    BY <2>3, <2>4
  <2>7. FD(x, 1) = 2 * x + BITS_PER_WITNESS
    BY <2>1, <2>5, <2>6
  <2>8. 2 * x + BITS_PER_WITNESS \in Nat
    BY <2>1
  <2> QED
    BY <2>2, <2>7, <2>8, Zenon
<1>2. FD(FD(x, 1), d) = FD(x, 1 + d) /\ 1 + d = d + 1
  BY FirstFirst
<1> QED
  BY <1>1, <1>2

(* The operators of TreeExpand are those of TreeLayout.                      *)
LEMMA SamePow2 == S!Pow2 = Pow2
BY DEF Pow2, S!Pow2

LEMMA SameLayout ==
  /\ S!TREE_CHUNK_SIZE = TREE_CHUNK_SIZE
  /\ S!MAX_CHUNK_SIZE = MAX_CHUNK_SIZE
  /\ \A x : S!FIRST_CHILD(x, FALSE) = FIRST_CHILD(x, FALSE)
  /\ \A x, d : S!FIRST_DESCENDENT_DEPTH(x, d, FALSE) = FIRST_DESCENDENT_DEPTH(x, d, FALSE)
  /\ \A x, b : S!Prg(x, b) = Prg(x, b)
  /\ \A x : S!LeafPrg(x) = LeafPrg(x)
<1> USE SamePow2
<1>1. S!TREE_CHUNK_SIZE = TREE_CHUNK_SIZE /\ S!MAX_CHUNK_SIZE = MAX_CHUNK_SIZE
  BY DEF TREE_CHUNK_SIZE, S!TREE_CHUNK_SIZE, LEAF_CHUNK_SIZE, S!LEAF_CHUNK_SIZE,
         MAX_CHUNK_SIZE, S!MAX_CHUNK_SIZE
<1>2. \A x : S!FIRST_CHILD(x, FALSE) = FIRST_CHILD(x, FALSE)
  BY DEF FIRST_CHILD, S!FIRST_CHILD, TREES_IN_FOREST, S!TREES_IN_FOREST
<1>3. \A x, d : S!FIRST_DESCENDENT_DEPTH(x, d, FALSE) = FIRST_DESCENDENT_DEPTH(x, d, FALSE)
  BY DEF FIRST_DESCENDENT_DEPTH, S!FIRST_DESCENDENT_DEPTH, TREES_IN_FOREST, S!TREES_IN_FOREST
<1>4. \A x, b : S!Prg(x, b) = Prg(x, b)
  BY <1>2 DEF Prg, S!Prg, Uninit, S!Uninit, Junk, S!Junk
<1>5. \A x : S!LeafPrg(x) = LeafPrg(x)
  BY DEF LeafPrg, S!LeafPrg, Zero, S!Zero, Junk, S!Junk
<1> QED
  BY <1>1, <1>2, <1>3, <1>4, <1>5

(* How the sizes of vole_params.h relate.                                    *)
LEMMA TreeSizes ==
  /\ BITS_PER_WITNESS \in Nat \ {0} /\ VOLES_MAX_K \in Nat /\ VOLES_MAX_K < BITS_PER_WITNESS
  /\ VOLE_MIN_K \in Nat \ {0} /\ VOLE_MAX_K \in Nat \ {0}
  /\ VOLES_MAX_K = 0 => VOLE_MAX_K = VOLE_MIN_K
  /\ VOLES_MAX_K # 0 => VOLE_MAX_K = VOLE_MIN_K + 1
  /\ TREE_CHUNK_SIZE_SHIFT \in Nat /\ TREE_CHUNK_SIZE_SHIFT <= VOLE_MIN_K
  /\ TREE_CHUNK_SIZE = Pow2[TREE_CHUNK_SIZE_SHIFT] /\ TREE_CHUNK_SIZE \in Nat \ {0}
  /\ LEAF_CHUNK_SIZE \in Nat \ {0}
  /\ MAX_CHUNK_SIZE \in Nat \ {0} /\ MAX_CHUNK_SIZE >= TREE_CHUNK_SIZE
  /\ BITS_PER_WITNESS >= TREE_CHUNK_SIZE
BY TreeAssumption, Pow2Values DEF VOLE_MAX_K, TREE_CHUNK_SIZE, LEAF_CHUNK_SIZE, MAX_CHUNK_SIZE

LEMMA DepthRange ==
  ASSUME NEW v \in Vec
  PROVE  /\ Depth(v) \in Nat \ {0} /\ v \in Nat /\ v < BITS_PER_WITNESS
         /\ TREE_CHUNK_SIZE_SHIFT <= Depth(v) /\ VOLE_MIN_K <= Depth(v)
         /\ Depth(v) <= VOLE_MIN_K + 1
         /\ v < VOLES_MAX_K <=> Depth(v) = VOLE_MIN_K + 1
BY TreeSizes DEF Depth, Vec

---------------------------------------------------------------------------
(* The exclusive or of the indices of a vector.                              *)
LEMMA SameBits ==
  ASSUME NEW n \in Nat, NEW x \in 0 .. Pow2[n] - 1, NEW y \in 0 .. Pow2[n] - 1,
         \A b \in 0 .. n - 1 : Bit(x, b) <=> Bit(y, b)
  PROVE  x = y
<1>1. Pow2[n] \in Nat /\ Pow2[0] = 1
  BY Pow2Values
<1>2. x \in Nat /\ y \in Nat /\ x < Pow2[n] /\ y < Pow2[n]
  BY <1>1
<1>3. x \div Pow2[n] = 0 /\ y \div Pow2[n] = 0
  BY <1>2, NoBits, n <= n
<1>4. x \div Pow2[0] = y \div Pow2[0]
  BY <1>2, <1>3, HighBits, 0 <= n, 0 \in Nat
<1>5. \A z \in Nat : z \div 1 = z
  OBVIOUS
<1> QED
  BY <1>1, <1>2, <1>4, <1>5

LEMMA XorBits ==
  ASSUME NEW x \in 0 .. Pow2[VOLE_MAX_K] - 1, NEW y \in 0 .. Pow2[VOLE_MAX_K] - 1,
         NEW n \in 0 .. VOLE_MAX_K, x < Pow2[n], y < Pow2[n]
  PROVE  /\ XorIndex(x, y) \in 0 .. Pow2[n] - 1
         /\ \A b \in 0 .. n - 1 : Bit(XorIndex(x, y), b) <=> (Bit(x, b) # Bit(y, b))
<1> DEFINE z == XorIndex(x, y)
           m == VOLE_MAX_K
<1>1. m \in Nat /\ n \in Nat /\ n <= m /\ Pow2[m] \in Nat /\ Pow2[n] \in Nat \ {0}
  BY TreeSizes, Pow2Values
<1>2. z \in 0 .. Pow2[m] - 1 /\ \A b \in 0 .. m - 1 : Bit(z, b) <=> (Bit(x, b) # Bit(y, b))
  BY XorAssumption
<1> HIDE DEF z, m
<1>3. x \in Nat /\ y \in Nat /\ z \in Nat /\ z < Pow2[m]
  BY <1>1, <1>2
<1>4. ASSUME NEW b \in n .. m - 1 PROVE Bit(z, b) <=> Bit(0, b)
  <2>1. b \in Nat /\ b \in 0 .. m - 1 /\ 0 < Pow2[n] /\ n <= b
    BY <1>1
  <2>2. ~Bit(x, b) /\ ~Bit(y, b) /\ ~Bit(0, b)
    BY <1>1, <1>3, <2>1, NoBits, 0 \in Nat
  <2>3. Bit(z, b) <=> (Bit(x, b) # Bit(y, b))
    BY <1>2, <2>1
  <2>4. \A a : Bit(a, b) \in BOOLEAN
    BY DEF Bit
  <2> QED
    BY <2>2, <2>3, <2>4, Zenon
<1>5. z \div Pow2[m] = 0 /\ 0 \div Pow2[m] = 0
  <2>1. 0 < Pow2[m] /\ m <= m
    BY <1>1, Pow2Values
  <2> QED
    BY <1>1, <1>3, <2>1, NoBits, 0 \in Nat
<1>6. z \div Pow2[n] = 0 \div Pow2[n]
  BY <1>1, <1>3, <1>4, <1>5, HighBits, 0 \in Nat
<1>7. 0 \div Pow2[n] = 0
  BY <1>1, NoBits, 0 \in Nat, 0 < Pow2[n], n <= n
<1>8. z < Pow2[n]
  BY <1>1, <1>3, <1>6, <1>7, BelowPower
<1> QED
  BY <1>1, <1>2, <1>3, <1>8 DEF z

LEMMA LeafRange ==
  ASSUME NEW v \in Vec
  PROVE  /\ Depth(v) \in 0 .. VOLE_MAX_K /\ Depth(v) \in Nat
         /\ Leaf(v) = 0 .. Pow2[Depth(v)] - 1 /\ Pow2[Depth(v)] \in Nat \ {0}
         /\ 0 \in Leaf(v)
         /\ \A x \in Leaf(v) : /\ x \in Nat /\ x < Pow2[Depth(v)]
                               /\ x \in 0 .. Pow2[VOLE_MAX_K] - 1
<1>1. Depth(v) \in 0 .. VOLE_MAX_K /\ Depth(v) \in Nat /\ VOLE_MAX_K \in Nat
      /\ Depth(v) <= VOLE_MAX_K
  BY TreeSizes DEF Depth, Vec
<1>2. Pow2[Depth(v)] \in Nat \ {0} /\ Pow2[VOLE_MAX_K] \in Nat
      /\ Pow2[Depth(v)] <= Pow2[VOLE_MAX_K]
  BY <1>1, Pow2Values, Pow2Monotone
<1> QED
  BY <1>1, <1>2 DEF Leaf

LEMMA XorLeaf ==
  ASSUME NEW v \in Vec, NEW x \in Leaf(v), NEW d \in Leaf(v)
  PROVE  /\ XorIndex(x, d) \in Leaf(v)
         /\ XorIndex(XorIndex(x, d), d) = x
         /\ XorIndex(x, 0) = x
         /\ XorIndex(d, d) = 0
<1> DEFINE n == Depth(v)
           I == 0 .. Pow2[n] - 1
<1>1. n \in 0 .. VOLE_MAX_K /\ n \in Nat /\ Leaf(v) = I /\ 0 \in I
  BY LeafRange
<1>2. ASSUME NEW a \in I, NEW c \in I
      PROVE  /\ XorIndex(a, c) \in I
             /\ \A b \in 0 .. n - 1 : Bit(XorIndex(a, c), b) <=> (Bit(a, b) # Bit(c, b))
  <2>1. a \in Leaf(v) /\ c \in Leaf(v)
    BY <1>1
  <2>2. /\ a \in 0 .. Pow2[VOLE_MAX_K] - 1 /\ c \in 0 .. Pow2[VOLE_MAX_K] - 1
        /\ a < Pow2[n] /\ c < Pow2[n]
    BY <2>1, LeafRange
  <2> HIDE DEF n
  <2> QED
    BY <1>1, <2>2, XorBits
<1>3. \A a, b : Bit(a, b) \in BOOLEAN
  BY DEF Bit
<1>4. x \in I /\ d \in I
  BY <1>1
<1>5. XorIndex(x, d) \in I
  BY <1>2, <1>4
<1>6. \A b \in 0 .. n - 1 : ~Bit(0, b)
  <2> SUFFICES ASSUME NEW b \in 0 .. n - 1 PROVE ~Bit(0, b)
    OBVIOUS
  <2>1. 0 < Pow2[0] /\ 0 <= b /\ b \in Nat
    BY <1>1, Pow2Values
  <2> QED
    BY <2>1, NoBits, 0 \in Nat
<1> HIDE DEF I
<1>7. XorIndex(XorIndex(x, d), d) = x
  <2> DEFINE z == XorIndex(x, d)
             t == XorIndex(z, d)
  <2>1. z \in I /\ t \in I
    BY <1>2, <1>4, <1>5
  <2>2. ASSUME NEW b \in 0 .. n - 1 PROVE Bit(t, b) <=> Bit(x, b)
    <3>1. Bit(z, b) <=> (Bit(x, b) # Bit(d, b))
      BY <1>2, <1>4
    <3>2. Bit(t, b) <=> (Bit(z, b) # Bit(d, b))
      BY <1>2, <1>4, <2>1
    <3> HIDE DEF t, z
    <3> QED
      BY <1>3, <3>1, <3>2, Zenon
  <2> HIDE DEF t, n
  <2> QED
    BY <1>1, <1>4, <2>1, <2>2, SameBits DEF t, I
<1>8. XorIndex(x, 0) = x
  <2> DEFINE t == XorIndex(x, 0)
  <2>1. t \in I
    BY <1>1, <1>2, <1>4
  <2>2. ASSUME NEW b \in 0 .. n - 1 PROVE Bit(t, b) <=> Bit(x, b)
    <3>1. Bit(t, b) <=> (Bit(x, b) # Bit(0, b))
      BY <1>1, <1>2, <1>4
    <3> HIDE DEF t
    <3> QED
      BY <1>3, <1>6, <3>1, Zenon
  <2> HIDE DEF t, n
  <2> QED
    BY <1>1, <1>4, <2>1, <2>2, SameBits DEF t, I
<1>9. XorIndex(d, d) = 0
  <2> DEFINE t == XorIndex(d, d)
  <2>1. t \in I
    BY <1>1, <1>2, <1>4
  <2>2. ASSUME NEW b \in 0 .. n - 1 PROVE Bit(t, b) <=> Bit(0, b)
    <3>1. Bit(t, b) <=> (Bit(d, b) # Bit(d, b))
      BY <1>1, <1>2, <1>4
    <3> HIDE DEF t
    <3> QED
      BY <1>3, <1>6, <3>1, Zenon
  <2> HIDE DEF t, n
  <2> QED
    BY <1>1, <1>4, <2>1, <2>2, SameBits DEF t, I
<1> QED
  BY <1>1, <1>5, <1>7, <1>8, <1>9

(* The forest ends where its last long tree does.                            *)
LEMMA ForestEnd ==
  /\ ForestSize(FALSE) = FD(VOLES_MAX_K, VOLE_MIN_K + 1)
  /\ ForestSize(FALSE) \in Nat
  /\ S!Node = 0 .. FD(VOLES_MAX_K, VOLE_MIN_K + 1) - 1
<1> DEFINE t == BITS_PER_WITNESS
           m == VOLES_MAX_K
           p == Pow2[VOLE_MIN_K]
<1>1. /\ t \in Nat /\ m \in Nat /\ m < t /\ p \in Nat /\ VOLE_MIN_K + 1 \in Nat
      /\ Pow2[VOLE_MIN_K + 1] = 2 * p
  BY TreeSizes, Pow2Values
<1>2. FD(m, VOLE_MIN_K + 1) = (m + t) * (2 * p) - t /\ FD(m, VOLE_MIN_K + 1) \in Nat
  <2>1. FD(m, VOLE_MIN_K + 1) = (m + t) * Pow2[VOLE_MIN_K + 1] - t
        /\ FD(m, VOLE_MIN_K + 1) \in Nat
    BY <1>1, FirstValue
  <2> QED
    BY <1>1, <2>1
<1>3. VECTOR_COMMIT_LEAVES = (m + t) * p
  <2>1. CASE m = 0
    BY <1>1, <2>1, TreeSizes DEF VECTOR_COMMIT_LEAVES, VOLES_MIN_K
  <2>2. CASE m # 0
    <3>1. VECTOR_COMMIT_LEAVES = (t - m) * p + m * (2 * p)
      BY <1>1, <2>2, TreeSizes DEF VECTOR_COMMIT_LEAVES, VOLES_MIN_K
    <3>2. (t - m) * p + m * (2 * p) = (m + t) * p
      BY <1>1
    <3> QED
      BY <3>1, <3>2
  <2> QED
    BY <2>1, <2>2
<1>4. 2 * ((m + t) * p) = (m + t) * (2 * p)
  BY <1>1
<1>5. ForestSize(FALSE) = FD(m, VOLE_MIN_K + 1)
  BY <1>2, <1>3, <1>4 DEF ForestSize
<1>6. S!ForestSize(FALSE) = ForestSize(FALSE)
  BY SamePow2 DEF ForestSize, S!ForestSize, VECTOR_COMMIT_LEAVES, S!VECTOR_COMMIT_LEAVES,
     VOLES_MIN_K, S!VOLES_MIN_K, VOLE_MAX_K, S!VOLE_MAX_K
<1> QED
  BY <1>2, <1>5, <1>6 DEF S!Node

---------------------------------------------------------------------------
(* What holds of the forest at every step.  A block is written once, with    *)
(* the seed of its own node.                                                 *)
IsForest(f) ==
  /\ f = [x \in S!Node |-> f[x]]
  /\ \A x \in S!Node : f[x] \in {x, Uninit}

Known(f, nodes) == \A x \in nodes : x \in S!Node /\ f[x] = x

(* The descendants, d levels down, of n nodes from x.                        *)
Span(x, n, d) == FD(x, d) .. FD(x + n, d) - 1

(* A call of expand_roots is on nodes that are known.  It accounts for those *)
(* of their descendants that are no more than TREE_CHUNK_SIZE_SHIFT levels   *)
(* below a root.                                                             *)
Below(c) == {x \in Nat : \E k \in 1 .. TREE_CHUNK_SIZE_SHIFT - c.n : x \in Span(c.i, c.size, k)}

PendingCall == [n : Nat, i : Nat, size : Nat \ {0}]

CallOK(f, c) ==
  /\ c = [n |-> c.n, i |-> c.i, size |-> c.size]
  /\ c.n \in 0 .. TREE_CHUNK_SIZE_SHIFT
  /\ c.i \in Nat /\ c.size \in Nat \ {0}
  /\ c.i + c.size <= FD(0, c.n + 1)
  /\ Known(f, c.i .. c.i + c.size - 1)

(* The roots for which expand_roots was not called yet.                      *)
LaterRoots(pc, i) == [n |-> 0, i |-> i, size |-> IF pc = "roots" THEN BITS_PER_WITNESS - i ELSE 0]

TopLevels == 0 .. FD(0, TREE_CHUNK_SIZE_SHIFT + 1) - 1

RootsInv(f, cs, pc, i) ==
  /\ Known(f, Root)
  /\ \A m \in DOMAIN cs : CallOK(f, cs[m])
  /\ \A x \in TopLevels :
       \/ x \in S!Node /\ f[x] = x
       \/ \E m \in DOMAIN cs : x \in Below(cs[m])
       \/ x \in Below(LaterRoots(pc, i))

(* The trees that are expanded as far as their leaves.                       *)
TreesInv(f, n) == \A v \in Vec : v < n => \A d \in 0 .. Depth(v) : Known(f, Span(v, 1, d))

(* Chunk q of level e of the subtrees that expand_tree works on.             *)
ChunkAt(v, e, q) == FD(v, TREE_CHUNK_SIZE_SHIFT + e) + TREE_CHUNK_SIZE * q

WalkHeight(v) == Depth(v) - TREE_CHUNK_SIZE_SHIFT

(* A chunk has been expanded when the walk has come to the first chunk of    *)
(* leaves below it, and this time as far down as the chunk.                  *)
Expanded(fr, v, e, q) ==
  /\ q * Pow2[WalkHeight(v) - e] < fr.i
  /\ q * Pow2[WalkHeight(v) - e] = fr.i - 1 => e < WalkHeight(v) - fr.d

IsFrame(fr) ==
  fr = [busy |-> fr.busy, height |-> fr.height, root |-> fr.root, base |-> fr.base,
        chunk |-> fr.chunk, i |-> fr.i, ancestor |-> fr.ancestor, d |-> fr.d,
        start |-> fr.start, perm |-> fr.perm]

WalkInv(f, fr, v) ==
  /\ fr.height = WalkHeight(v) /\ fr.root = FD(v, TREE_CHUNK_SIZE_SHIFT)
  /\ fr.i \in 0 .. Pow2[WalkHeight(v)] /\ fr.d \in 0 .. WalkHeight(v)
  /\ fr.chunk \in 0 .. fr.i /\ fr.i <= fr.chunk + S!Ratio /\ fr.chunk < Pow2[WalkHeight(v)]
  /\ fr.d > 0 => fr.i > 0
  /\ \A e \in 0 .. WalkHeight(v) - 1 : \A q \in 0 .. Pow2[e] - 1 :
       Expanded(fr, v, e, q) => Known(f, Span(ChunkAt(v, e, q), TREE_CHUNK_SIZE, 1))
  /\ fr.i > 0 =>
       \E q \in 0 .. Pow2[WalkHeight(v) - fr.d] - 1 :
         /\ fr.i - 1 = q * Pow2[fr.d]
         /\ fr.ancestor = ChunkAt(v, WalkHeight(v) - fr.d, q)
         /\ Known(f, fr.ancestor .. fr.ancestor + TREE_CHUNK_SIZE - 1)

ForestInv ==
  /\ IsForest(forest)
  /\ IsFrame(frame) /\ frame.busy \in BOOLEAN
  /\ calls \in Seq(PendingCall)
  /\ RootsInv(forest, calls, commit_pc, commit_i)
  /\ commit_pc \in {"roots", "trees", "done"}
  /\ commit_i \in 0 .. BITS_PER_WITNESS
  /\ commit_pc = "roots" => commit_i % TREE_CHUNK_SIZE = 0 /\ ~frame.busy
  /\ commit_pc # "roots" =>
       TreesInv(forest, IF frame.busy THEN commit_i - 1 ELSE commit_i)
  /\ commit_pc = "done" => commit_i = BITS_PER_WITNESS /\ calls = <<>> /\ ~frame.busy
  /\ commit_pc # "roots" /\ calls # <<>> => commit_i = 0 /\ ~frame.busy
  /\ frame.busy => commit_i > 0 /\ WalkInv(forest, frame, commit_i - 1)

---------------------------------------------------------------------------
LEMMA FirstDeeper ==
  ASSUME NEW x \in Nat, NEW d \in Nat, NEW e \in Nat, d <= e
  PROVE  FD(x, d) <= FD(x, e)
<1>1. e - d \in Nat /\ d + (e - d) = e
  OBVIOUS
<1>2. FD(x, d) \in Nat
  BY FirstNat
<1>3. FD(FD(x, d), e - d) = FD(x, d + (e - d))
  BY <1>1, FirstFirst, Zenon
<1>4. FD(x, d) <= FD(FD(x, d), e - d)
  BY <1>1, <1>2, FirstValue, Zenon
<1> QED
  BY <1>1, <1>3, <1>4

(* Every level of every tree is in the forest.                               *)
LEMMA InForest ==
  ASSUME NEW v \in Vec, NEW d \in 0 .. Depth(v)
  PROVE  /\ FD(v + 1, d) <= ForestSize(FALSE)
         /\ FD(v + 1, d) = FD(v, d) + Pow2[d]
         /\ FD(v, d) \in Nat /\ FD(v + 1, d) \in Nat /\ Pow2[d] \in Nat \ {0} /\ d \in Nat
         /\ Span(v, 1, d) \subseteq S!Node
<1> DEFINE m == VOLES_MAX_K
           k == VOLE_MIN_K + 1
           end == FD(m, k)
<1>1. /\ v \in Nat /\ v + 1 \in Nat /\ v + 1 <= BITS_PER_WITNESS /\ d \in Nat /\ d <= k
      /\ m \in Nat /\ k \in Nat /\ BITS_PER_WITNESS \in Nat /\ 0 \in Nat /\ 1 \in Nat
      /\ VOLE_MIN_K \in Nat
  BY DepthRange, TreeSizes
<1>2. FD(v, d) \in Nat /\ FD(v + 1, d) \in Nat /\ end \in Nat /\ Pow2[d] \in Nat \ {0}
  BY <1>1, FirstNat, Pow2Values
<1>3. FD(v + 1, d) = FD(v, d) + Pow2[d]
  BY <1>1, FirstSucc
<1>4. FD(v + 1, d) <= end
  <2>1. CASE d <= VOLE_MIN_K
    <3>1. FD(v + 1, d) <= FD(BITS_PER_WITNESS, d)
      BY <1>1, FirstMonotone
    <3>2. FD(BITS_PER_WITNESS, d) = FD(0, d + 1)
      BY <1>1, FirstSum
    <3>3. FD(0, d + 1) <= FD(0, k)
      BY <1>1, <2>1, FirstDeeper
    <3>4. FD(0, k) <= FD(m, k)
      BY <1>1, FirstMonotone
    <3>5. FD(0, d + 1) \in Nat /\ FD(0, k) \in Nat
      <4>1. d + 1 \in Nat
        BY <1>1
      <4> QED
        BY <1>1, <4>1, FirstNat, Zenon
    <3> HIDE DEF k
    <3> QED
      BY <1>2, <3>1, <3>2, <3>3, <3>4, <3>5
  <2>2. CASE ~(d <= VOLE_MIN_K)
    <3>1. d = k /\ v + 1 <= m
      BY <1>1, <2>2, DepthRange
    <3> QED
      BY <1>1, <3>1, FirstMonotone
  <2> QED
    BY <2>1, <2>2
<1>5. ForestSize(FALSE) = end /\ S!Node = 0 .. end - 1
  BY ForestEnd
<1> HIDE DEF end
<1>6. Span(v, 1, d) \subseteq S!Node
  BY <1>2, <1>4, <1>5 DEF Span
<1> QED
  BY <1>1, <1>2, <1>3, <1>4, <1>5, <1>6

LEMMA ChunkShape ==
  ASSUME NEW v \in Vec, NEW e \in Nat, NEW q \in Nat
  PROVE  /\ ChunkAt(v, e, q) \in Nat
         /\ ChunkAt(v, e, q) + TREE_CHUNK_SIZE = ChunkAt(v, e, q + 1)
         /\ FIRST_CHILD(ChunkAt(v, e, q), FALSE) = ChunkAt(v, e + 1, 2 * q)
         /\ FD(ChunkAt(v, e, q), 1) = ChunkAt(v, e + 1, 2 * q)
<1> DEFINE k == TREE_CHUNK_SIZE_SHIFT
           c == TREE_CHUNK_SIZE
           from == FD(v, k + e)
           t == BITS_PER_WITNESS
<1>0. v \in Nat /\ k \in Nat /\ c \in Nat \ {0} /\ t \in Nat
  BY DepthRange, TreeSizes
<1>1. k + e \in Nat /\ from \in Nat /\ k + (e + 1) = (k + e) + 1
  <2>1. k + e \in Nat /\ k + (e + 1) = (k + e) + 1
    BY <1>0
  <2>2. from \in Nat
    BY <1>0, <2>1, FirstNat, Zenon
  <2> QED
    BY <2>1, <2>2
<1>2. c * q \in Nat /\ c * (q + 1) = c * q + c /\ c * (2 * q) = 2 * (c * q)
  BY <1>0
<1>3. FD(v, (k + e) + 1) = 2 * from + t
  BY <1>0, <1>1, FirstValue, Zenon
<1> HIDE DEF from, k
<1>4. ChunkAt(v, e, q) = from + c * q /\ ChunkAt(v, e, q) \in Nat
  BY <1>1, <1>2 DEF ChunkAt, from, k
<1>5. ChunkAt(v, e, q) + c = ChunkAt(v, e, q + 1)
  BY <1>0, <1>1, <1>2, <1>4 DEF ChunkAt, from, k
<1>6. ChunkAt(v, e + 1, 2 * q) = 2 * from + t + 2 * (c * q)
  BY <1>1, <1>2, <1>3 DEF ChunkAt, k
<1>7. FIRST_CHILD(ChunkAt(v, e, q), FALSE) = 2 * ChunkAt(v, e, q) + t
      /\ FIRST_CHILD(ChunkAt(v, e, q), FALSE) = FD(ChunkAt(v, e, q), 1)
  <2>1. \A x \in Nat : FIRST_CHILD(x, FALSE) = 2 * x + t /\ FIRST_CHILD(x, FALSE) = FD(x, 1)
    <3> SUFFICES ASSUME NEW x \in Nat
                 PROVE  FIRST_CHILD(x, FALSE) = 2 * x + t /\ FIRST_CHILD(x, FALSE) = FD(x, 1)
      OBVIOUS
    <3>1. 0 \in Nat
      OBVIOUS
    <3> QED
      BY <3>1, FirstValue, FirstOfChild
  <2> QED
    BY <1>4, <2>1
<1>8. 2 * ChunkAt(v, e, q) + t = 2 * from + t + 2 * (c * q)
  BY <1>0, <1>1, <1>2, <1>4
<1> QED
  BY <1>4, <1>5, <1>6, <1>7, <1>8

LEMMA ChunkChildren ==
  ASSUME NEW v \in Vec, NEW e \in Nat, NEW q \in Nat
  PROVE  /\ Span(ChunkAt(v, e, q), TREE_CHUNK_SIZE, 1)
              = ChunkAt(v, e + 1, 2 * q) .. ChunkAt(v, e + 1, 2 * q + 2) - 1
         /\ FD(ChunkAt(v, e, q) + TREE_CHUNK_SIZE, 1) = ChunkAt(v, e + 1, 2 * q + 2)
<1>1. ChunkAt(v, e, q) + TREE_CHUNK_SIZE = ChunkAt(v, e, q + 1)
      /\ FD(ChunkAt(v, e, q), 1) = ChunkAt(v, e + 1, 2 * q)
  BY ChunkShape
<1>2. q + 1 \in Nat /\ 2 * (q + 1) = 2 * q + 2
  OBVIOUS
<1>3. FD(ChunkAt(v, e, q + 1), 1) = ChunkAt(v, e + 1, 2 * (q + 1))
  BY <1>2, ChunkShape
<1> QED
  BY <1>1, <1>2, <1>3 DEF Span

(* Chunk q of level e is in the tree.                                        *)
LEMMA ChunkInTree ==
  ASSUME NEW v \in Vec, NEW e \in 0 .. WalkHeight(v), NEW q \in Nat, q <= Pow2[e]
  PROVE  /\ ChunkAt(v, e, q) <= FD(v + 1, TREE_CHUNK_SIZE_SHIFT + e)
         /\ FD(v + 1, TREE_CHUNK_SIZE_SHIFT + e) = ChunkAt(v, e, Pow2[e])
         /\ FD(v + 1, TREE_CHUNK_SIZE_SHIFT + e) \in Nat
         /\ FD(v + 1, TREE_CHUNK_SIZE_SHIFT + e) <= ForestSize(FALSE)
<1> DEFINE k == TREE_CHUNK_SIZE_SHIFT
           c == TREE_CHUNK_SIZE
<1>1. /\ k \in Nat /\ c = Pow2[k] /\ c \in Nat \ {0} /\ Depth(v) \in Nat /\ e \in Nat
      /\ k + e \in 0 .. Depth(v)
  BY DepthRange, TreeSizes DEF WalkHeight
<1>2. /\ FD(v + 1, k + e) <= ForestSize(FALSE) /\ FD(v + 1, k + e) \in Nat
      /\ FD(v + 1, k + e) = FD(v, k + e) + Pow2[k + e] /\ FD(v, k + e) \in Nat
  BY <1>1, InForest
<1>3. Pow2[k + e] = c * Pow2[e]
  BY <1>1, Pow2Sum
<1>4. Pow2[e] \in Nat
  BY <1>1, Pow2Values
<1>5. c * q <= c * Pow2[e] /\ c * q \in Nat /\ c * Pow2[e] \in Nat
  BY <1>1, <1>4, MulMonotone
<1> DEFINE end == FD(v + 1, k + e)
<1>6. ChunkAt(v, e, q) = FD(v, k + e) + c * q /\ ChunkAt(v, e, Pow2[e]) = FD(v, k + e) + c * Pow2[e]
  BY DEF ChunkAt
<1>7. end = FD(v, k + e) + c * Pow2[e] /\ end \in Nat /\ end <= ForestSize(FALSE)
  BY <1>2, <1>3
<1> HIDE DEF end
<1>8. ChunkAt(v, e, q) <= end /\ end = ChunkAt(v, e, Pow2[e])
  BY <1>2, <1>5, <1>6, <1>7
<1> QED
  BY <1>7, <1>8 DEF end

---------------------------------------------------------------------------
(* What a step may do to the forest: write blocks that were not known.       *)
Grows(f, g) == \A x \in S!Node : f[x] = x => g[x] = x

LEMMA KnownGrows ==
  ASSUME NEW f, NEW g, Grows(f, g)
  PROVE  /\ \A nodes : Known(f, nodes) => Known(g, nodes)
         /\ \A c : CallOK(f, c) => CallOK(g, c)
         /\ \A cs, pc, i : RootsInv(f, cs, pc, i) => RootsInv(g, cs, pc, i)
         /\ \A n : TreesInv(f, n) => TreesInv(g, n)
         /\ \A fr, v : WalkInv(f, fr, v) => WalkInv(g, fr, v)
<1>1. \A nodes : Known(f, nodes) => Known(g, nodes)
  BY DEF Grows, Known
<1>2. \A c : CallOK(f, c) => CallOK(g, c)
  BY <1>1 DEF CallOK
<1>3. \A cs, pc, i : RootsInv(f, cs, pc, i) => RootsInv(g, cs, pc, i)
  BY <1>1, <1>2 DEF RootsInv, Grows
<1>4. \A n : TreesInv(f, n) => TreesInv(g, n)
  BY <1>1 DEF TreesInv
<1>5. \A fr, v : WalkInv(f, fr, v) => WalkInv(g, fr, v)
  <2> SUFFICES ASSUME NEW fr, NEW v, WalkInv(f, fr, v) PROVE WalkInv(g, fr, v)
    OBVIOUS
  <2>1. \A e \in 0 .. WalkHeight(v) - 1 : \A q \in 0 .. Pow2[e] - 1 :
          Expanded(fr, v, e, q) => Known(g, Span(ChunkAt(v, e, q), TREE_CHUNK_SIZE, 1))
    BY <1>1, Zenon DEF WalkInv
  <2>2. fr.i > 0 =>
          \E q \in 0 .. Pow2[WalkHeight(v) - fr.d] - 1 :
            /\ fr.i - 1 = q * Pow2[fr.d]
            /\ fr.ancestor = ChunkAt(v, WalkHeight(v) - fr.d, q)
            /\ Known(g, fr.ancestor .. fr.ancestor + TREE_CHUNK_SIZE - 1)
    BY <1>1, Zenon DEF WalkInv
  <2> QED
    BY <2>1, <2>2, Zenon DEF WalkInv
<1> QED
  BY <1>1, <1>2, <1>3, <1>4, <1>5

(* expand_chunk gives the children of known nodes their seeds.               *)
LEMMA ExpandKnown ==
  ASSUME IsForest(forest), NEW from \in Nat, NEW n \in Nat \ {0},
         Known(forest, from .. from + n - 1), FD(from + n, 1) <= ForestSize(FALSE)
  PROVE  /\ IsForest(S!ExpandChunk(from, n))
         /\ Grows(forest, S!ExpandChunk(from, n))
         /\ Known(S!ExpandChunk(from, n), Span(from, n, 1))
<1> DEFINE t  == BITS_PER_WITNESS
           to == 2 * from + t
           g  == S!ExpandChunk(from, n)
           new == to .. to + 2 * n - 1
<1>1. t \in Nat /\ to \in Nat /\ from + n \in Nat
  BY TreeSizes
<1>2. /\ FIRST_CHILD(from, FALSE) = to /\ FD(from, 1) = to
      /\ FD(from + n, 1) = 2 * (from + n) + t
  <2>1. ASSUME NEW x \in Nat PROVE FIRST_CHILD(x, FALSE) = 2 * x + t /\ FD(x, 1) = 2 * x + t
    <3>1. 0 \in Nat
      OBVIOUS
    <3>2. FIRST_CHILD(x, FALSE) = 2 * x + t /\ FIRST_CHILD(x, FALSE) = FD(x, 1)
      BY <3>1, FirstValue, FirstOfChild
    <3> QED
      BY <3>2, Zenon
  <2> QED
    BY <1>1, <2>1
<1>3. S!Node = 0 .. ForestSize(FALSE) - 1 /\ ForestSize(FALSE) \in Nat
  BY ForestEnd
<1> DEFINE end == FD(from + n, 1)
<1>10. end = to + 2 * n /\ end - 1 = to + 2 * n - 1
  <2>1. 2 * (from + n) + t = to + 2 * n
    BY <1>1
  <2>2. end = to + 2 * n
    BY <1>2, <2>1, Zenon
  <2> HIDE DEF end
  <2>3. end - 1 = to + 2 * n - 1
    BY <1>1, <2>2
  <2> QED
    BY <2>2, <2>3
<1>11. end <= ForestSize(FALSE)
  OBVIOUS
<1>4. Span(from, n, 1) = new
  BY <1>2, <1>10, Zenon DEF Span
<1> HIDE DEF end
<1>5. new \subseteq S!Node
  <2> SUFFICES ASSUME NEW x \in new PROVE x \in S!Node
    OBVIOUS
  <2> DEFINE size == ForestSize(FALSE)
  <2>1. size \in Nat /\ S!Node = 0 .. size - 1 /\ end <= size
    BY <1>3, <1>11
  <2> HIDE DEF size
  <2>2. x \in Nat /\ x < end
    BY <1>1, <1>10
  <2> QED
    BY <2>1, <2>2, <1>10, <1>1
<1>6. g = [x \in S!Node |-> IF x \in new THEN Prg(forest[from + (x - to) \div 2], (x - to) % 2)
                                         ELSE forest[x]]
  BY <1>2, SameLayout, Zenon DEF S!ExpandChunk
<1>7. ASSUME NEW x \in new
      PROVE  g[x] = x
  <2> DEFINE p == from + (x - to) \div 2
             b == (x - to) % 2
  <2>1. p \in from .. from + n - 1 /\ 2 * p + t + b = x /\ p >= 0 /\ p \in Nat
    BY <1>1
  <2>2. forest[p] = p
    BY <2>1 DEF Known
  <2>3. g[x] = Prg(p, b)
    BY <1>5, <1>6, <2>2
  <2> HIDE DEF p, b
  <2>4. FIRST_CHILD(p, FALSE) = 2 * p + t
    BY <2>1, FirstValue, 0 \in Nat
  <2> QED
    BY <2>1, <2>3, <2>4 DEF Prg
<1>8. ASSUME NEW x \in S!Node, x \notin new
      PROVE  g[x] = forest[x]
  BY <1>6, <1>8
<1>9. g = [x \in S!Node |-> g[x]]
  BY <1>6
<1> HIDE DEF g, new
<1> QED
  BY <1>4, <1>5, <1>7, <1>8, <1>9 DEF IsForest, Grows, Known, g

---------------------------------------------------------------------------
(* The calls of expand_roots.                                                *)
LEMMA SpanChildren ==
  ASSUME NEW x \in Nat, NEW n \in Nat, NEW k \in Nat
  PROVE  /\ FIRST_CHILD(x, FALSE) + 2 * n = FIRST_CHILD(x + n, FALSE)
         /\ FD(FIRST_CHILD(x, FALSE) + 2 * n, k) = FD(x + n, k + 1)
         /\ Span(FIRST_CHILD(x, FALSE), 2 * n, k) = Span(x, n, k + 1)
<1>1. x + n \in Nat /\ BITS_PER_WITNESS \in Nat
  BY TreeSizes
<1>2. ASSUME NEW y \in Nat
      PROVE  /\ FIRST_CHILD(y, FALSE) = 2 * y + BITS_PER_WITNESS
             /\ FD(FIRST_CHILD(y, FALSE), k) = FD(y, k + 1)
  BY FirstValue, FirstOfChild
<1>3. FIRST_CHILD(x, FALSE) = 2 * x + BITS_PER_WITNESS
      /\ FIRST_CHILD(x + n, FALSE) = 2 * (x + n) + BITS_PER_WITNESS
  BY <1>1, <1>2
<1>4. FIRST_CHILD(x, FALSE) + 2 * n = FIRST_CHILD(x + n, FALSE)
  <2> DEFINE a == FIRST_CHILD(x, FALSE)
             b == FIRST_CHILD(x + n, FALSE)
  <2>1. a = 2 * x + BITS_PER_WITNESS /\ b = 2 * (x + n) + BITS_PER_WITNESS
    BY <1>3
  <2> HIDE DEF a, b
  <2>2. a + 2 * n = b
    BY <1>1, <2>1
  <2> QED
    BY <2>2 DEF a, b
<1>5. FD(FIRST_CHILD(x, FALSE), k) = FD(x, k + 1)
      /\ FD(FIRST_CHILD(x + n, FALSE), k) = FD(x + n, k + 1)
  BY <1>1, <1>2, Zenon
<1> QED
  BY <1>4, <1>5, Zenon DEF Span

(* The descendants of adjacent nodes are adjacent.                           *)
LEMMA SpanSplit ==
  ASSUME NEW x \in Nat, NEW n \in Nat, NEW m \in Nat, NEW k \in Nat
  PROVE  \A y \in Span(x, n + m, k) : y \in Span(x, n, k) \/ y \in Span(x + n, m, k)
<1>1. /\ FD(x, k) \in Nat /\ x + n \in Nat /\ x + n + m \in Nat /\ x + (n + m) = x + n + m
  BY FirstNat
<1>2. FD(x + n, k) \in Nat /\ FD(x + n + m, k) \in Nat
  BY <1>1, FirstNat, Zenon
<1>3. Span(x, n + m, k) = FD(x, k) .. FD(x + n + m, k) - 1
  BY <1>1, Zenon DEF Span
<1> DEFINE a == FD(x, k)
           b == FD(x + n, k)
           c == FD(x + n + m, k)
<1>4. Span(x, n, k) = a .. b - 1 /\ Span(x + n, m, k) = b .. c - 1
  BY Zenon DEF Span
<1>5. a \in Nat /\ b \in Nat /\ c \in Nat /\ Span(x, n + m, k) = a .. c - 1
  BY <1>1, <1>2, <1>3
<1> HIDE DEF a, b, c
<1> QED
  BY <1>4, <1>5

LEMMA CallExcept ==
  \A c, n, x : c = [n |-> c.n, i |-> c.i, size |-> c.size] =>
    [c EXCEPT !.n = n, !.i = x] = [n |-> n, i |-> x, size |-> c.size]
<1> SUFFICES ASSUME NEW c, NEW n, NEW x, NEW r, c = [n |-> c.n, i |-> c.i, size |-> c.size],
                    r = [c EXCEPT !.n = n, !.i = x]
             PROVE  r = [n |-> n, i |-> x, size |-> c.size]
  OBVIOUS
<1> QED
  OBVIOUS

(* A call that is made expands its nodes, and leaves what is further down to *)
(* the two calls it makes.                                                   *)
LEMMA CallExpands ==
  ASSUME IsForest(forest), NEW c, CallOK(forest, c), c.n < TREE_CHUNK_SIZE_SHIFT
  PROVE  LET f    == S!ExpandChunk(c.i, c.size)
             next == NextRoots(c)
         IN /\ IsForest(f) /\ Grows(forest, f)
            /\ next = <<next[1], next[2]>>
            /\ CallOK(f, next[1]) /\ CallOK(f, next[2])
            /\ \A x \in Below(c) : \/ x \in S!Node /\ f[x] = x
                                   \/ x \in Below(next[1]) \/ x \in Below(next[2])
<1> DEFINE f     == S!ExpandChunk(c.i, c.size)
           child == FIRST_CHILD(c.i, FALSE)
           c1    == [n |-> c.n + 1, i |-> child, size |-> c.size]
           c2    == [n |-> c.n + 1, i |-> child + c.size, size |-> c.size]
           k     == TREE_CHUNK_SIZE_SHIFT
<1>1. /\ c.n \in Nat /\ c.n + 1 <= k /\ c.i \in Nat /\ c.size \in Nat \ {0} /\ k \in Nat
      /\ c = [n |-> c.n, i |-> c.i, size |-> c.size]
      /\ c.i + c.size <= FD(0, c.n + 1) /\ FD(0, c.n + 1) \in Nat /\ c.i + c.size \in Nat
      /\ Known(forest, c.i .. c.i + c.size - 1)
  <2>1. /\ c.n \in Nat /\ c.n + 1 <= k /\ c.i \in Nat /\ c.size \in Nat \ {0} /\ k \in Nat
        /\ c = [n |-> c.n, i |-> c.i, size |-> c.size]
        /\ c.i + c.size <= FD(0, c.n + 1)
        /\ Known(forest, c.i .. c.i + c.size - 1)
    BY TreeSizes DEF CallOK
  <2>2. c.n + 1 \in Nat /\ 0 \in Nat /\ c.i + c.size \in Nat
    BY <2>1
  <2>3. FD(0, c.n + 1) \in Nat
    BY <2>2, FirstNat, Zenon
  <2> QED
    BY <2>1, <2>2, <2>3
<1>2. NextRoots(c) = <<c1, c2>>
  <2>1. \A n, i, size :
          NextRoots([n |-> n, i |-> i, size |-> size]) =
            <<[n |-> n + 1, i |-> FIRST_CHILD(i, FALSE), size |-> size],
              [n |-> n + 1, i |-> FIRST_CHILD(i, FALSE) + size, size |-> size]>>
    <3> SUFFICES ASSUME NEW n, NEW i, NEW size
                 PROVE  NextRoots([n |-> n, i |-> i, size |-> size]) =
                          <<[n |-> n + 1, i |-> FIRST_CHILD(i, FALSE), size |-> size],
                            [n |-> n + 1, i |-> FIRST_CHILD(i, FALSE) + size, size |-> size]>>
      OBVIOUS
    <3> DEFINE r == [n |-> n, i |-> i, size |-> size]
    <3>1. r.i = i /\ r.size = size /\ r.n = n /\ r = [n |-> r.n, i |-> r.i, size |-> r.size]
      OBVIOUS
    <3>2. \A x : [r EXCEPT !.n = @ + 1, !.i = x] = [n |-> n + 1, i |-> x, size |-> size]
      <4> HIDE DEF r
      <4>1. \A x : [r EXCEPT !.n = r.n + 1, !.i = x] = [n |-> r.n + 1, i |-> x, size |-> r.size]
        BY <3>1, CallExcept, Zenon
      <4> QED
        BY <3>1, <4>1, Zenon
    <3> HIDE DEF r
    <3>3. NextRoots(r) = <<[n |-> n + 1, i |-> FIRST_CHILD(i, FALSE), size |-> size],
                           [n |-> n + 1, i |-> FIRST_CHILD(i, FALSE) + size, size |-> size]>>
      BY <3>1, <3>2 DEF NextRoots
    <3> QED
      BY <3>3 DEF r
  <2> QED
    BY <1>1, <2>1, Zenon
<1>3. child \in Nat /\ child + 2 * c.size = FIRST_CHILD(c.i + c.size, FALSE)
      /\ FD(c.i + c.size, 1) = FIRST_CHILD(c.i + c.size, FALSE)
  <2>1. \A y \in Nat : FIRST_CHILD(y, FALSE) \in Nat /\ FIRST_CHILD(y, FALSE) = FD(y, 1)
    BY FirstOfChild, 0 \in Nat
  <2> QED
    BY <1>1, <2>1, SpanChildren, 0 \in Nat, Zenon
<1> DEFINE end == FD(c.i + c.size, 1)
           lim == FD(0, c.n + 1)
           lim2 == FD(0, c.n + 1 + 1)
<1>4. end <= ForestSize(FALSE) /\ end <= lim2 /\ end = child + 2 * c.size
  <2>1. /\ lim \in Nat /\ lim2 \in Nat /\ c.n + 1 + 1 \in Nat
        /\ lim2 = 2 * lim + BITS_PER_WITNESS
    <3>1. c.n + 1 \in Nat /\ c.n + 1 + 1 \in Nat /\ 0 \in Nat
      BY <1>1
    <3>2. lim2 = 2 * lim + BITS_PER_WITNESS
      BY <3>1, FirstValue, Zenon
    <3>3. lim \in Nat /\ lim2 \in Nat
      BY <3>1, FirstNat, Zenon
    <3> QED
      BY <3>1, <3>2, <3>3
  <2>2. end = 2 * (c.i + c.size) + BITS_PER_WITNESS
    <3>1. FIRST_CHILD(c.i + c.size, FALSE) = 2 * (c.i + c.size) + BITS_PER_WITNESS
      BY <1>1, FirstValue, 0 \in Nat, Zenon
    <3> QED
      BY <1>3, <3>1, Zenon
  <2>3. end <= lim2
    <3>1. c.i + c.size <= lim
      BY <1>1
    <3> DEFINE sum == c.i + c.size
    <3>2. sum <= lim /\ sum \in Nat /\ end = 2 * sum + BITS_PER_WITNESS
      BY <1>1, <2>2
    <3>3. BITS_PER_WITNESS \in Nat
      BY TreeSizes
    <3> HIDE DEF end, lim, lim2, sum
    <3> QED
      BY <2>1, <3>2, <3>3
  <2>4. lim2 <= ForestSize(FALSE)
    <3> DEFINE d == VOLE_MIN_K + 1
    <3>1. c.n + 1 + 1 \in Nat /\ d \in Nat /\ c.n + 1 + 1 <= d /\ VOLES_MAX_K \in Nat /\ 0 <= VOLES_MAX_K
          /\ 0 \in Nat
      <4>1. /\ TREE_CHUNK_SIZE_SHIFT \in Nat /\ VOLE_MIN_K \in Nat /\ VOLES_MAX_K \in Nat
            /\ TREE_CHUNK_SIZE_SHIFT <= VOLE_MIN_K
        BY TreeSizes
      <4>2. c.n \in Nat /\ c.n < TREE_CHUNK_SIZE_SHIFT
        BY <1>1
      <4> QED
        BY <4>1, <4>2
    <3>2. lim2 <= FD(0, d)
      BY <3>1, FirstDeeper, Zenon
    <3>3. FD(0, d) <= FD(VOLES_MAX_K, d)
      BY <3>1, FirstMonotone, Zenon
    <3>4. FD(0, d) \in Nat /\ FD(VOLES_MAX_K, d) \in Nat
      BY <3>1, FirstNat, Zenon
    <3>5. ForestSize(FALSE) = FD(VOLES_MAX_K, d)
      BY ForestEnd
    <3> DEFINE a == FD(0, d)
               b == FD(VOLES_MAX_K, d)
    <3>6. lim2 \in Nat /\ a \in Nat /\ b \in Nat /\ lim2 <= a /\ a <= b /\ ForestSize(FALSE) = b
      BY <2>1, <3>2, <3>3, <3>4, <3>5
    <3> HIDE DEF lim2, a, b
    <3>7. lim2 <= b
      BY <3>6
    <3> QED
      BY <3>6, <3>7
  <2>5. ForestSize(FALSE) \in Nat /\ end \in Nat
    <3>1. \A a, b \in Nat : 2 * a + b \in Nat
      OBVIOUS
    <3>2. end \in Nat
      BY <1>1, <2>2, <3>1, TreeSizes, Zenon
    <3> QED
      BY <3>2, ForestEnd
  <2>6. end = child + 2 * c.size
    BY <1>3
  <2> DEFINE size == ForestSize(FALSE)
  <2>7. lim2 \in Nat /\ size \in Nat /\ end \in Nat /\ end <= lim2 /\ lim2 <= size
    BY <2>1, <2>3, <2>4, <2>5
  <2>8. end <= size
    <3> HIDE DEF end, lim, lim2, size
    <3> QED
      BY <2>7
  <2> QED
    BY <2>3, <2>6, <2>8, Zenon
<1>5. IsForest(f) /\ Grows(forest, f) /\ Known(f, Span(c.i, c.size, 1))
  BY <1>1, <1>4, ExpandKnown
<1>6. Span(c.i, c.size, 1) = child .. child + 2 * c.size - 1
  <2>1. child = FD(c.i, 1)
    BY <1>1, FirstOfChild, 0 \in Nat
  <2> QED
    <3>1. FD(c.i + c.size, 1) = child + 2 * c.size
      BY <1>4
    <3>2. FD(c.i + c.size, 1) - 1 = child + 2 * c.size - 1
      <4> DEFINE a == FD(c.i + c.size, 1)
                 size == c.size
      <4>1. a = child + 2 * size /\ child \in Nat /\ size \in Nat
        BY <1>1, <1>3, <3>1
      <4> HIDE DEF a, size, child
      <4>2. a - 1 = child + 2 * size - 1
        BY <4>1
      <4> QED
        BY <4>2 DEF a, size
    <3> QED
      BY <2>1, <3>2, Zenon DEF Span
<1> HIDE DEF f, child, end
<1>7. Known(f, child .. child + c.size - 1) /\ Known(f, child + c.size .. child + c.size + c.size - 1)
  <2> DEFINE size == c.size
  <2>1. size \in Nat /\ child \in Nat /\ Known(f, child .. child + 2 * size - 1)
    BY <1>1, <1>3, <1>5, <1>6, Zenon
  <2> HIDE DEF size
  <2>2. Known(f, child .. child + size - 1) /\ Known(f, child + size .. child + size + size - 1)
    BY <2>1 DEF Known
  <2> QED
    BY <2>2 DEF size
<1>8. CallOK(f, c1) /\ CallOK(f, c2)
  <2>1. child + c.size <= lim2 /\ child + c.size + c.size <= lim2
    <3>1. lim2 \in Nat
      <4>1. c.n + 1 + 1 \in Nat /\ 0 \in Nat
        BY <1>1
      <4> QED
        BY <4>1, FirstNat, Zenon
    <3> HIDE DEF lim2
    <3> QED
      BY <1>1, <1>3, <1>4, <3>1
  <2>2. c.n + 1 \in 0 .. k /\ child + c.size \in Nat
    BY <1>1, <1>3
  <2> QED
    BY <1>1, <1>3, <1>7, <2>1, <2>2 DEF CallOK
<1>9. ASSUME NEW x \in Below(c)
      PROVE  \/ x \in S!Node /\ f[x] = x
             \/ x \in Below(c1) \/ x \in Below(c2)
  <2>1. PICK j \in 1 .. k - c.n : x \in Span(c.i, c.size, j)
    BY DEF Below
  <2>2. x \in Nat
    BY DEF Below
  <2>3. CASE j = 1
    BY <1>5, <2>1, <2>3 DEF Known
  <2>4. CASE j # 1
    <3>1. j - 1 \in 1 .. k - (c.n + 1) /\ j - 1 \in Nat /\ j - 1 + 1 = j
      BY <1>1, <2>1, <2>4
    <3>2. Span(child, 2 * c.size, j - 1) = Span(c.i, c.size, j)
      <4>1. Span(child, 2 * c.size, j - 1) = Span(c.i, c.size, j - 1 + 1)
        BY <1>1, <3>1, SpanChildren, ZenonT(60) DEF child
      <4> QED
        BY <3>1, <4>1
    <3>3. 2 * c.size = c.size + c.size
      BY <1>1
    <3>4. x \in Span(child, c.size, j - 1) \/ x \in Span(child + c.size, c.size, j - 1)
      <4>1. x \in Span(child, c.size + c.size, j - 1)
        BY <2>1, <3>2, <3>3, Zenon
      <4>2. c.size \in Nat
        BY <1>1
      <4> QED
        BY <1>3, <3>1, <4>1, <4>2, SpanSplit, Zenon
    <3>5. c1.n = c.n + 1 /\ c2.n = c.n + 1 /\ c1.i = child /\ c2.i = child + c.size
          /\ c1.size = c.size /\ c2.size = c.size
      OBVIOUS
    <3> HIDE DEF c1, c2
    <3> QED
      BY <2>2, <3>1, <3>4, <3>5 DEF Below
  <2> QED
    BY <2>3, <2>4
<1> HIDE DEF c1, c2
<1>10. NextRoots(c)[1] = c1 /\ NextRoots(c)[2] = c2
  BY <1>2
<1> QED
  BY <1>2, <1>5, <1>8, <1>9, <1>10 DEF f

LEMMA NoneBelow ==
  ASSUME NEW i \in Nat, NEW x
  PROVE  x \notin Below([n |-> 0, i |-> i, size |-> 0])
<1> SUFFICES ASSUME x \in Below([n |-> 0, i |-> i, size |-> 0]) PROVE FALSE
  OBVIOUS
<1>1. PICK k \in 1 .. TREE_CHUNK_SIZE_SHIFT : x \in Span(i, 0, k) /\ x \in Nat
  BY TreeSizes DEF Below
<1>2. k \in Nat /\ i + 0 = i
  BY TreeSizes
<1>3. FD(i, k) \in Nat
  BY <1>2, FirstNat, Zenon
<1>4. Span(i, 0, k) = FD(i, k) .. FD(i, k) - 1
  BY <1>2 DEF Span
<1> QED
  BY <1>1, <1>3, <1>4

LEMMA BelowSplit ==
  ASSUME NEW i \in Nat, NEW n \in Nat, NEW m \in Nat,
         NEW x \in Below([n |-> 0, i |-> i, size |-> n + m])
  PROVE  \/ x \in Below([n |-> 0, i |-> i, size |-> n])
         \/ x \in Below([n |-> 0, i |-> i + n, size |-> m])
<1>1. PICK k \in 1 .. TREE_CHUNK_SIZE_SHIFT : x \in Span(i, n + m, k) /\ x \in Nat
  BY TreeSizes DEF Below
<1>2. k \in Nat
  BY TreeSizes
<1>3. x \in Span(i, n, k) \/ x \in Span(i + n, m, k)
  BY <1>1, <1>2, SpanSplit, Zenon
<1>4. k \in 1 .. TREE_CHUNK_SIZE_SHIFT - 0
  BY <1>1, TreeSizes
<1> QED
  BY <1>1, <1>3, <1>4 DEF Below

(* With no call left, the top levels of the trees are known.                 *)
LEMMA TopKnown ==
  ASSUME NEW f, NEW i \in Nat, NEW pc, pc # "roots", RootsInv(f, <<>>, pc, i)
  PROVE  Known(f, TopLevels)
<1>1. LaterRoots(pc, i) = [n |-> 0, i |-> i, size |-> 0]
  BY DEF LaterRoots
<1>2. \A x : x \notin Below(LaterRoots(pc, i))
  BY <1>1, NoneBelow, Zenon
<1> QED
  BY <1>2 DEF RootsInv, Known

LEMMA RootsFit ==
  ASSUME NEW f, Known(f, Root), NEW i \in Nat, NEW n \in Nat \ {0}, i + n <= BITS_PER_WITNESS
  PROVE  CallOK(f, [n |-> 0, i |-> i, size |-> n])
<1>1. FD(0, 0 + 1) = BITS_PER_WITNESS /\ BITS_PER_WITNESS \in Nat
  <2>1. FD(0, 0 + 1) = FD(BITS_PER_WITNESS, 0) /\ BITS_PER_WITNESS \in Nat
    BY TreeSizes, FirstSum, 0 \in Nat
  <2>2. FD(BITS_PER_WITNESS, 0) = BITS_PER_WITNESS
    BY <2>1, FirstValue, 0 \in Nat
  <2> QED
    BY <2>1, <2>2
<1>2. Known(f, i .. i + n - 1)
  BY <1>1 DEF Known, Root
<1>3. 0 \in 0 .. TREE_CHUNK_SIZE_SHIFT
  BY TreeSizes
<1> QED
  BY <1>1, <1>2, <1>3 DEF CallOK

LEMMA CallRootsKeeps ==
  ASSUME NEW f, NEW i \in Nat, NEW n \in Nat \ {0}, i + n <= BITS_PER_WITNESS,
         RootsInv(f, <<>>, "roots", i)
  PROVE  RootsInv(f, <<[n |-> 0, i |-> i, size |-> n]>>, "roots", i + n)
<1> DEFINE c == [n |-> 0, i |-> i, size |-> n]
           rest == BITS_PER_WITNESS - (i + n)
<1>1. rest \in Nat /\ n \in Nat /\ BITS_PER_WITNESS - i = n + rest
  BY TreeSizes
<1>2. /\ LaterRoots("roots", i) = [n |-> 0, i |-> i, size |-> n + rest]
      /\ LaterRoots("roots", i + n) = [n |-> 0, i |-> i + n, size |-> rest]
  BY <1>1 DEF LaterRoots
<1> HIDE DEF rest
<1>3. \A x \in Below(LaterRoots("roots", i)) : x \in Below(c) \/ x \in Below(LaterRoots("roots", i + n))
  BY <1>1, <1>2, BelowSplit
<1>4. CallOK(f, c)
  BY RootsFit DEF RootsInv
<1>5. DOMAIN <<c>> = {1} /\ <<c>>[1] = c
  OBVIOUS
<1> HIDE DEF c
<1> QED
  BY <1>3, <1>4, <1>5 DEF RootsInv, c

LEMMA CallRemainingKeeps ==
  ASSUME NEW f, NEW i \in 0 .. BITS_PER_WITNESS, RootsInv(f, <<>>, "roots", i)
  PROVE  /\ i = BITS_PER_WITNESS => RootsInv(f, <<>>, "trees", 0)
         /\ i < BITS_PER_WITNESS =>
              RootsInv(f, <<[n |-> 0, i |-> i, size |-> BITS_PER_WITNESS - i]>>, "trees", 0)
<1> DEFINE n == BITS_PER_WITNESS - i
           c == [n |-> 0, i |-> i, size |-> n]
<1>1. i \in Nat /\ n \in Nat /\ BITS_PER_WITNESS \in Nat
  BY TreeSizes
<1>2. LaterRoots("roots", i) = c
  BY DEF LaterRoots
<1>3. ASSUME i = BITS_PER_WITNESS PROVE RootsInv(f, <<>>, "trees", 0)
  <2>1. n = 0
    BY <1>1, <1>3
  <2>2. LaterRoots("roots", i) = [n |-> 0, i |-> i, size |-> 0]
    BY <1>2, <2>1
  <2>3. \A x : x \notin Below(LaterRoots("roots", i))
    BY <1>1, <2>2, NoneBelow, Zenon
  <2> QED
    BY <2>3 DEF RootsInv
<1>4. ASSUME i < BITS_PER_WITNESS PROVE RootsInv(f, <<c>>, "trees", 0)
  <2>1. n \in Nat \ {0} /\ i + n <= BITS_PER_WITNESS
    BY <1>1, <1>4
  <2>2. CallOK(f, c)
    BY <1>1, <2>1, RootsFit DEF RootsInv
  <2>3. DOMAIN <<c>> = {1} /\ <<c>>[1] = c
    OBVIOUS
  <2> HIDE DEF c
  <2> QED
    BY <1>2, <2>2, <2>3 DEF RootsInv
<1> QED
  BY <1>3, <1>4

(* A call leaves the stack, and perhaps two others take its place.           *)
LEMMA StackTail ==
  ASSUME NEW s \in Seq(PendingCall), s # <<>>
  PROVE  /\ Head(s) \in PendingCall /\ Tail(s) \in Seq(PendingCall)
         /\ Head(s) = s[1] /\ 1 \in DOMAIN s
         /\ \A m \in DOMAIN Tail(s) : \E j \in DOMAIN s : Tail(s)[m] = s[j]
         /\ \A j \in DOMAIN s : s[j] = Head(s) \/ \E m \in DOMAIN Tail(s) : Tail(s)[m] = s[j]
<1>1. /\ Head(s) \in PendingCall /\ Tail(s) \in Seq(PendingCall) /\ Len(Tail(s)) = Len(s) - 1
      /\ \A m \in 1 .. Len(Tail(s)) : Tail(s)[m] = s[m + 1]
  BY HeadTailProperties
<1>2. DOMAIN s = 1 .. Len(s) /\ Len(s) \in Nat \ {0} /\ Head(s) = s[1]
  OBVIOUS
<1>3. DOMAIN Tail(s) = 1 .. Len(s) - 1
  BY <1>1
<1>4. \A m \in DOMAIN Tail(s) : m + 1 \in DOMAIN s
  BY <1>2, <1>3
<1>5. ASSUME NEW j \in DOMAIN s, j # 1 PROVE j - 1 \in DOMAIN Tail(s) /\ Tail(s)[j - 1] = s[j]
  BY <1>1, <1>2, <1>3, <1>5
<1> DEFINE rest == Tail(s)
<1>6. \A m \in DOMAIN rest : m + 1 \in DOMAIN s /\ rest[m] = s[m + 1]
  BY <1>1, <1>3, <1>4
<1>7. \A j \in DOMAIN s : j # 1 => j - 1 \in DOMAIN rest /\ rest[j - 1] = s[j]
  BY <1>5
<1>8. /\ Head(s) \in PendingCall /\ rest \in Seq(PendingCall)
      /\ Head(s) = s[1] /\ 1 \in DOMAIN s
  BY <1>1, <1>2
<1> HIDE DEF rest
<1>9. /\ \A m \in DOMAIN rest : \E j \in DOMAIN s : rest[m] = s[j]
      /\ \A j \in DOMAIN s : s[j] = Head(s) \/ \E m \in DOMAIN rest : rest[m] = s[j]
  BY <1>6, <1>7, <1>8, Zenon
<1> QED
  BY <1>8, <1>9 DEF rest

IsPush(r, a, b, s) ==
  /\ r \in Seq(PendingCall)
  /\ \A m \in DOMAIN r : r[m] = a \/ r[m] = b \/ \E j \in DOMAIN s : r[m] = s[j]
  /\ \E m \in DOMAIN r : r[m] = a
  /\ \E m \in DOMAIN r : r[m] = b
  /\ \A j \in DOMAIN s : \E m \in DOMAIN r : r[m] = s[j]

LEMMA StackPush ==
  \A s \in Seq(PendingCall), a, b \in PendingCall : IsPush(<<a, b>> \o s, a, b, s)
<1> SUFFICES ASSUME NEW s \in Seq(PendingCall), NEW a \in PendingCall, NEW b \in PendingCall,
                    NEW r, r = <<a, b>> \o s
             PROVE  IsPush(r, a, b, s)
  OBVIOUS
<1>1. <<a, b>> \in Seq(PendingCall) /\ Len(<<a, b>>) = 2 /\ <<a, b>>[1] = a /\ <<a, b>>[2] = b
  OBVIOUS
<1>2. /\ r \in Seq(PendingCall) /\ Len(r) = 2 + Len(s)
      /\ \A m \in 1 .. 2 + Len(s) : r[m] = IF m <= 2 THEN <<a, b>>[m] ELSE s[m - 2]
  BY <1>1, ConcatProperties
<1>3. Len(s) \in Nat /\ DOMAIN s = 1 .. Len(s) /\ DOMAIN r = 1 .. 2 + Len(s)
  BY <1>2
<1>4. 1 \in DOMAIN r /\ 2 \in DOMAIN r /\ r[1] = a /\ r[2] = b
  BY <1>1, <1>2, <1>3
<1>5. ASSUME NEW j \in DOMAIN s PROVE j + 2 \in DOMAIN r /\ r[j + 2] = s[j]
  BY <1>2, <1>3
<1>6. ASSUME NEW m \in DOMAIN r PROVE r[m] = a \/ r[m] = b \/ \E j \in DOMAIN s : r[m] = s[j]
  <2>1. CASE m <= 2
    <3>1. m = 1 \/ m = 2
      BY <1>3, <2>1
    <3> QED
      BY <1>4, <3>1
  <2>2. CASE ~(m <= 2)
    BY <1>2, <1>3, <2>2
  <2> QED
    BY <2>1, <2>2
<1> QED
  BY <1>2, <1>4, <1>5, <1>6 DEF IsPush

LEMMA ExpandRootsKeeps ==
  ASSUME IsForest(forest), calls \in Seq(PendingCall), RootsInv(forest, calls, commit_pc, commit_i),
         ExpandRoots
  PROVE  /\ IsForest(forest') /\ Grows(forest, forest')
         /\ calls' \in Seq(PendingCall)
         /\ RootsInv(forest', calls', commit_pc, commit_i)
<1> DEFINE c == Head(calls)
           rest == Tail(calls)
<1>1. calls # <<>>
  BY DEF ExpandRoots
<1>2. /\ c \in PendingCall /\ rest \in Seq(PendingCall)
      /\ \A m \in DOMAIN rest : \E j \in DOMAIN calls : rest[m] = calls[j]
      /\ \A j \in DOMAIN calls : calls[j] = c \/ \E m \in DOMAIN rest : rest[m] = calls[j]
      /\ CallOK(forest, c)
  <2>1. c = calls[1] /\ 1 \in DOMAIN calls
    BY <1>1, StackTail
  <2>2. CallOK(forest, c)
    BY <2>1 DEF RootsInv
  <2> QED
    BY <1>1, <2>2, StackTail
<1>3. CASE c.n >= TREE_CHUNK_SIZE_SHIFT
  <2>1. calls' = rest /\ forest' = forest
    BY <1>3 DEF ExpandRoots
  <2> HIDE DEF c, rest
  <2>2. \A x : x \notin Below(c)
    BY <1>2, <1>3, TreeSizes, SMTT(30) DEF Below, CallOK
  <2>3. RootsInv(forest, rest, commit_pc, commit_i)
    BY <1>2, <2>2 DEF RootsInv
  <2>4. IsForest(forest') /\ Grows(forest, forest')
    BY <2>1 DEF Grows
  <2> QED
    BY <1>2, <2>1, <2>3, <2>4
<1>4. CASE ~(c.n >= TREE_CHUNK_SIZE_SHIFT)
  <2> DEFINE f == S!ExpandChunk(c.i, c.size)
             a == NextRoots(c)[1]
             b == NextRoots(c)[2]
  <2>1. c.n < TREE_CHUNK_SIZE_SHIFT
    BY <1>2, <1>4, TreeSizes DEF CallOK
  <2>2. forest' = f /\ calls' = NextRoots(c) \o rest
    BY <1>4 DEF ExpandRoots
  <2>3. /\ IsForest(f) /\ Grows(forest, f)
        /\ NextRoots(c) = <<a, b>>
        /\ CallOK(f, a) /\ CallOK(f, b)
        /\ \A x \in Below(c) : (x \in S!Node /\ f[x] = x) \/ x \in Below(a) \/ x \in Below(b)
    BY <1>2, <2>1, CallExpands
  <2> HIDE DEF f, a, b, c, rest
  <2>11. PICK s : s = <<a, b>> \o rest
    OBVIOUS
  <2>4. calls' = s
    BY <2>2, <2>3, <2>11
  <2>5. \A d : CallOK(f, d) => d \in PendingCall
    BY TreeSizes DEF CallOK, PendingCall
  <2>6. /\ s \in Seq(PendingCall)
        /\ \A m \in DOMAIN s : s[m] = a \/ s[m] = b \/ \E j \in DOMAIN rest : s[m] = rest[j]
        /\ \E m \in DOMAIN s : s[m] = a
        /\ \E m \in DOMAIN s : s[m] = b
        /\ \A j \in DOMAIN rest : \E m \in DOMAIN s : s[m] = rest[j]
    <3>1. a \in PendingCall /\ b \in PendingCall /\ rest \in Seq(PendingCall)
      BY <1>2, <2>3, <2>5
    <3>2. IsPush(<<a, b>> \o rest, a, b, rest)
      BY <3>1, StackPush
    <3>3. IsPush(s, a, b, rest)
      BY <2>11, <3>2
    <3> QED
      BY <3>3 DEF IsPush
  <2>7. RootsInv(f, calls, commit_pc, commit_i)
    BY <2>3, KnownGrows
  <2>8. \A m \in DOMAIN s : CallOK(f, s[m])
    BY <1>2, <2>3, <2>6, <2>7 DEF RootsInv
  <2>9. ASSUME NEW x \in TopLevels
        PROVE  \/ x \in S!Node /\ f[x] = x
               \/ \E m \in DOMAIN s : x \in Below(s[m])
               \/ x \in Below(LaterRoots(commit_pc, commit_i))
    <3>1. CASE \E j \in DOMAIN calls : x \in Below(calls[j])
      <4>1. PICK j \in DOMAIN calls : x \in Below(calls[j])
        BY <3>1
      <4>2. CASE calls[j] = c
        BY <2>3, <2>6, <4>1, <4>2, Zenon
      <4>3. CASE \E m \in DOMAIN rest : rest[m] = calls[j]
        BY <2>6, <4>1, <4>3, Zenon
      <4> QED
        BY <1>2, <4>2, <4>3
    <3>2. CASE ~\E j \in DOMAIN calls : x \in Below(calls[j])
      BY <2>7, <3>2 DEF RootsInv
    <3> QED
      BY <3>1, <3>2
  <2>10. RootsInv(f, s, commit_pc, commit_i)
    BY <2>7, <2>8, <2>9 DEF RootsInv
  <2> QED
    BY <2>2, <2>3, <2>4, <2>6, <2>10
<1> QED
  BY <1>3, <1>4

---------------------------------------------------------------------------

(* The walk of expand_tree.                                                  *)
LEMMA AncestorExists ==
  ASSUME NEW n \in Nat, NEW i \in Nat
  PROVE  \E h \in 0 .. n : i % Pow2[h] = 0 /\ \A g \in h + 1 .. n : i % Pow2[g] # 0
<1> DEFINE A == {a \in 0 .. n : i % Pow2[n - a] = 0}
<1>1. n \in A /\ A \in SUBSET Nat
  <2>1. n - n = 0 /\ n \in 0 .. n /\ i % 1 = 0
    OBVIOUS
  <2> QED
    BY <2>1, Pow2Values
<1>2. PICK a \in A : \A b \in A : a <= b
  <2> HIDE DEF A
  <2> QED
    BY <1>1, LeastElement
<1>3. n - a \in 0 .. n /\ i % Pow2[n - a] = 0
  OBVIOUS
<1>4. ASSUME NEW g \in n - a + 1 .. n PROVE i % Pow2[g] # 0
  <2>1. n - g \in 0 .. n /\ n - (n - g) = g /\ ~(a <= n - g)
    OBVIOUS
  <2> QED
    BY <1>2, <2>1
<1> QED
  BY <1>3, <1>4

LEMMA WalkRatio == S!Ratio \in Nat \ {0}
<1>1. \A a \in Nat, b \in Nat \ {0} : a >= b => a \div b \in Nat \ {0}
  <2> SUFFICES ASSUME NEW a \in Nat, NEW b \in Nat \ {0}, a >= b PROVE a \div b \in Nat \ {0}
    OBVIOUS
  <2> DEFINE q == a \div b
  <2>1. q \in Nat /\ a = b * q + (a % b) /\ a % b < b
    OBVIOUS
  <2> HIDE DEF q
  <2>2. q # 0
    BY <2>1
  <2> QED
    BY <2>1, <2>2 DEF q
<1> QED
  BY <1>1, SameLayout, TreeSizes DEF S!Ratio

LEMMA WalkSizes ==
  ASSUME NEW v \in Vec
  PROVE  /\ WalkHeight(v) \in Nat /\ TREE_CHUNK_SIZE_SHIFT + WalkHeight(v) = Depth(v)
         /\ Depth(v) - TREE_CHUNK_SIZE_SHIFT = WalkHeight(v)
         /\ v \in Nat /\ TREE_CHUNK_SIZE_SHIFT \in Nat /\ TREE_CHUNK_SIZE \in Nat \ {0}
BY DepthRange, TreeSizes DEF WalkHeight

(* Before the walk, the chunk at the root of each tree is known.             *)
LEMMA TopChunk ==
  ASSUME NEW v \in Vec, NEW f, Known(f, TopLevels)
  PROVE  /\ \A d \in 0 .. TREE_CHUNK_SIZE_SHIFT : Known(f, Span(v, 1, d))
         /\ Known(f, ChunkAt(v, 0, 0) .. ChunkAt(v, 0, 0) + TREE_CHUNK_SIZE - 1)
<1> DEFINE k == TREE_CHUNK_SIZE_SHIFT
<1>1. /\ v \in Nat /\ k \in Nat /\ BITS_PER_WITNESS \in Nat /\ v + 1 \in Nat
      /\ v + 1 <= BITS_PER_WITNESS /\ 0 \in Nat
  BY DepthRange, TreeSizes
<1>2. ASSUME NEW d \in 0 .. k
      PROVE  Known(f, Span(v, 1, d))
  <2> DEFINE a == FD(v, d)
             b == FD(v + 1, d)
             c == FD(0, d + 1)
             e == FD(0, k + 1)
  <2>1. d \in Nat /\ d + 1 \in Nat /\ k + 1 \in Nat /\ d + 1 <= k + 1
    BY <1>1
  <2>2. a \in Nat /\ b \in Nat /\ c \in Nat /\ e \in Nat
    BY <1>1, <2>1, FirstNat, Zenon
  <2>3. b <= c
    <3>1. FD(v + 1, d) <= FD(BITS_PER_WITNESS, d)
      BY <1>1, <2>1, FirstMonotone, Zenon
    <3>2. FD(BITS_PER_WITNESS, d) = FD(0, d + 1)
      BY <1>1, <2>1, FirstSum, Zenon
    <3> QED
      BY <3>1, <3>2, Zenon
  <2>4. c <= e
    BY <1>1, <2>1, FirstDeeper, Zenon
  <2>5. Span(v, 1, d) = a .. b - 1 /\ TopLevels = 0 .. e - 1
    BY DEF Span, TopLevels
  <2> HIDE DEF a, b, c, e
  <2>6. a .. b - 1 \subseteq 0 .. e - 1
    BY <2>2, <2>3, <2>4
  <2> QED
    BY <2>5, <2>6 DEF Known
<1>3. Span(v, 1, k) = ChunkAt(v, 0, 0) .. ChunkAt(v, 0, 0) + TREE_CHUNK_SIZE - 1
  <2> DEFINE a == FD(v, k)
             b == FD(v + 1, k)
  <2>1. b = a + TREE_CHUNK_SIZE /\ a \in Nat /\ TREE_CHUNK_SIZE \in Nat
    BY <1>1, FirstSucc, FirstNat, TreeSizes
  <2>2. Span(v, 1, k) = a .. b - 1
    BY DEF Span
  <2>3. ChunkAt(v, 0, 0) = a
    <3>1. k + 0 = k /\ TREE_CHUNK_SIZE * 0 = 0
      BY <1>1, <2>1
    <3>2. ChunkAt(v, 0, 0) = FD(v, k) + 0
      BY <3>1 DEF ChunkAt
    <3> HIDE DEF k
    <3> QED
      BY <3>2, <2>1
  <2> HIDE DEF a, b
  <2>4. b - 1 = a + TREE_CHUNK_SIZE - 1
    BY <2>1
  <2> QED
    BY <2>2, <2>3, <2>4, Zenon
<1>4. k \in 0 .. k
  BY <1>1
<1>5. Known(f, Span(v, 1, k))
  BY <1>2, <1>4, Zenon
<1> QED
  BY <1>2, <1>3, <1>5, Zenon
(* The chunk at which a path starts is known: an ancestor of all the chunks   *)
(* above it was the ancestor of an earlier path.                             *)
LEMMA StartKnown ==
  ASSUME NEW f, NEW fr, NEW v \in Vec, Known(f, TopLevels), WalkInv(f, fr, v), fr.d = 0,
         fr.i < Pow2[WalkHeight(v)],
         NEW h \in 0 .. WalkHeight(v), fr.i % Pow2[h] = 0,
         \A g \in h + 1 .. WalkHeight(v) : fr.i % Pow2[g] # 0,
         NEW q \in Nat, fr.i = q * Pow2[h]
  PROVE  /\ q \in 0 .. Pow2[WalkHeight(v) - h] - 1
         /\ LET a == ChunkAt(v, WalkHeight(v) - h, q)
            IN Known(f, a .. a + TREE_CHUNK_SIZE - 1)
<1> DEFINE n == WalkHeight(v)
           e == n - h
           p == Pow2[h]
           i == fr.i
<1>1. /\ n \in Nat /\ e \in 0 .. n /\ e \in Nat /\ h \in Nat /\ p \in Nat \ {0}
      /\ Pow2[e] \in Nat \ {0} /\ Pow2[n] = Pow2[e] * p
  BY WalkSizes, Pow2Split
<1>2. i \in Nat /\ i = q * p
  BY WalkSizes, Pow2Values DEF WalkInv
<1>3. q \in 0 .. Pow2[e] - 1
  <2> DEFINE pe == Pow2[e]
  <2>1. ~(pe <= q)
    <3>1. SUFFICES ASSUME pe <= q PROVE FALSE
      OBVIOUS
    <3>2. pe \in Nat /\ p \in Nat /\ q * p < pe * p
      BY <1>1, <1>2
    <3> HIDE DEF pe, p
    <3>3. p * pe <= p * q
      BY <3>1, <3>2, MulMonotone
    <3> QED
      BY <3>2, <3>3
  <2> HIDE DEF pe, p
  <2> QED
    BY <1>1, <2>1 DEF pe
<1>4. CASE e = 0
  <2>1. q = 0
    BY <1>3, <1>4, Pow2Values
  <2> QED
    BY <1>3, <1>4, <2>1, TopChunk
<1>5. CASE e # 0
  <2>1. e - 1 \in 0 .. n - 1 /\ e - 1 \in Nat /\ e - 1 + 1 = e /\ n - (e - 1) = h + 1
        /\ h + 1 \in h + 1 .. n
    BY <1>1, <1>5
  <2>2. Pow2[h + 1] = 2 * p /\ Pow2[e] = 2 * Pow2[e - 1] /\ Pow2[e - 1] \in Nat
    <3>1. Pow2[e - 1 + 1] = 2 * Pow2[e - 1]
      BY <2>1, Pow2Values, Zenon
    <3> QED
      BY <1>1, <2>1, <3>1, Pow2Values
  <2>3. PICK r \in Nat : q = 2 * r + 1
    <3>1. q % 2 \in 0 .. 1 /\ q \div 2 \in Nat /\ q = 2 * (q \div 2) + (q % 2)
      OBVIOUS
    <3>2. CASE q % 2 = 0
      <4> DEFINE r == q \div 2
      <4>1. r \in Nat /\ q = 2 * r
        BY <3>1, <3>2
      <4> HIDE DEF r
      <4>2. i = r * (2 * p)
        BY <1>1, <1>2, <4>1
      <4>3. (r * (2 * p)) % (2 * p) = 0
        <5> DEFINE c == 2 * p
        <5>1. c \in Nat \ {0}
          BY <1>1
        <5> HIDE DEF c
        <5>2. (r * c) % c = 0
          BY <4>1, <5>1, 0 \in Nat, Quotient
        <5> QED
          BY <5>2 DEF c
      <4>4. fr.i % Pow2[h + 1] # 0
        BY <2>1
      <4> QED
        BY <2>2, <4>2, <4>3, <4>4
    <3>3. CASE q % 2 = 1
      BY <3>1, <3>3
    <3> QED
      BY <3>1, <3>2, <3>3
  <2>4. r \in 0 .. Pow2[e - 1] - 1
    BY <1>3, <2>2, <2>3
  <2>5. Expanded(fr, v, e - 1, r)
    <3>1. r * Pow2[n - (e - 1)] < i
      <4>1. r * (2 * p) + p = q * p
        BY <1>1, <2>3
      <4>2. r * (2 * p) \in Nat
        BY <1>1
      <4>3. r * (2 * p) < i
        BY <1>1, <1>2, <4>1, <4>2
      <4> QED
        BY <2>1, <2>2, <4>3
    <3>2. e - 1 < n - fr.d
      BY <1>1, <1>5
    <3> QED
      BY <3>1, <3>2 DEF Expanded
  <2>6. Known(f, Span(ChunkAt(v, e - 1, r), TREE_CHUNK_SIZE, 1))
    BY <2>1, <2>4, <2>5 DEF WalkInv
  <2>7. Span(ChunkAt(v, e - 1, r), TREE_CHUNK_SIZE, 1)
          = ChunkAt(v, e, 2 * r) .. ChunkAt(v, e, 2 * r + 2) - 1
    <3>1. Span(ChunkAt(v, e - 1, r), TREE_CHUNK_SIZE, 1)
            = ChunkAt(v, e - 1 + 1, 2 * r) .. ChunkAt(v, e - 1 + 1, 2 * r + 2) - 1
      BY <2>1, ChunkChildren
    <3> QED
      BY <2>1, <3>1
  <2>8. /\ ChunkAt(v, e, 2 * r) \in Nat
        /\ ChunkAt(v, e, 2 * r) + TREE_CHUNK_SIZE = ChunkAt(v, e, q)
        /\ ChunkAt(v, e, q) + TREE_CHUNK_SIZE = ChunkAt(v, e, 2 * r + 2)
    <3>1. 2 * r \in Nat /\ 2 * r + 1 = q /\ q + 1 = 2 * r + 2
      BY <2>3
    <3>2. /\ ChunkAt(v, e, 2 * r) \in Nat
          /\ ChunkAt(v, e, 2 * r) + TREE_CHUNK_SIZE = ChunkAt(v, e, 2 * r + 1)
      BY <1>1, <3>1, ChunkShape, Zenon
    <3>3. ChunkAt(v, e, q) + TREE_CHUNK_SIZE = ChunkAt(v, e, q + 1)
      BY <1>1, ChunkShape, Zenon
    <3> QED
      BY <3>1, <3>2, <3>3
  <2> DEFINE a == ChunkAt(v, e, 2 * r)
             b == ChunkAt(v, e, q)
             d == ChunkAt(v, e, 2 * r + 2)
             c == TREE_CHUNK_SIZE
  <2>9. a \in Nat /\ b = a + c /\ d = b + c /\ c \in Nat /\ Known(f, a .. d - 1)
    BY <2>6, <2>7, <2>8, TreeSizes
  <2> HIDE DEF a, b, c, d
  <2>10. Known(f, b .. b + c - 1)
    BY <2>9 DEF Known
  <2> QED
    BY <1>3, <2>10 DEF b, c
<1> QED
  BY <1>4, <1>5

LEMMA PickKeeps ==
  ASSUME NEW v \in Vec, Known(forest, TopLevels), IsFrame(frame), WalkInv(forest, frame, v),
         S!PickAncestor
  PROVE  /\ IsFrame(frame') /\ frame'.busy = frame.busy /\ WalkInv(forest, frame', v)
         /\ forest' = forest
<1> DEFINE n  == WalkHeight(v)
           fr == frame'
           i  == frame.i
           h  == S!AncestorHeight
           q  == i \div Pow2[h]
           a  == ChunkAt(v, n - h, q)
<1>1. /\ frame.d = 0 /\ i < frame.chunk + S!Ratio /\ i < Pow2[n] /\ forest' = forest
      /\ frame.height = n /\ frame.root = FD(v, TREE_CHUNK_SIZE_SHIFT)
      /\ frame' = [frame EXCEPT
           !.ancestor = S!FIRST_DESCENDENT_DEPTH(frame.root, frame.height - h, FALSE)
                          + S!TREE_CHUNK_SIZE * (i \div S!Pow2[h]),
           !.d = h, !.i = frame.i + 1]
  BY SamePow2 DEF S!PickAncestor, S!MorePaths, WalkInv
<1>2. n \in Nat /\ v \in Nat /\ i \in Nat /\ frame.chunk \in Nat /\ frame.chunk <= i
      /\ i \in 0 .. Pow2[n] /\ Pow2[n] \in Nat /\ S!Ratio \in Nat /\ frame.chunk < Pow2[n]
      /\ TREE_CHUNK_SIZE_SHIFT \in Nat
  <2>1. n \in Nat /\ v \in Nat /\ Pow2[n] \in Nat /\ S!Ratio \in Nat /\ TREE_CHUNK_SIZE_SHIFT \in Nat
    BY WalkSizes, WalkRatio, Pow2Values
  <2> QED
    BY <2>1 DEF WalkInv
<1>3. /\ h \in 0 .. n /\ i % Pow2[h] = 0
      /\ \A g \in h + 1 .. n : i % Pow2[g] # 0
  <2>1. \E x \in 0 .. n : i % Pow2[x] = 0 /\ \A g \in x + 1 .. n : i % Pow2[g] # 0
    BY <1>2, AncestorExists, Zenon
  <2>2. h = CHOOSE x \in 0 .. n : i % Pow2[x] = 0 /\ \A g \in x + 1 .. n : i % Pow2[g] # 0
    BY <1>1, SamePow2, Zenon DEF S!AncestorHeight
  <2> HIDE DEF h
  <2> QED
    BY <2>1, <2>2, Zenon
<1> HIDE DEF h
<1>4. q \in Nat /\ i = q * Pow2[h] /\ h \in Nat /\ n - h \in Nat
  <2>1. Pow2[h] \in Nat \ {0} /\ h \in Nat /\ n - h \in Nat
    BY <1>2, <1>3, Pow2Values
  <2> QED
    BY <1>2, <1>3, <2>1, Quotient
<1>5. frame.root = FD(v, TREE_CHUNK_SIZE_SHIFT)
      /\ S!FIRST_DESCENDENT_DEPTH(frame.root, n - h, FALSE) = FD(v, TREE_CHUNK_SIZE_SHIFT + (n - h))
  <2>1. FD(FD(v, TREE_CHUNK_SIZE_SHIFT), n - h) = FD(v, TREE_CHUNK_SIZE_SHIFT + (n - h))
    <3> DEFINE m == n - h
    <3>1. m \in Nat
      BY <1>4
    <3> HIDE DEF m
    <3>2. FD(FD(v, TREE_CHUNK_SIZE_SHIFT), m) = FD(v, TREE_CHUNK_SIZE_SHIFT + m)
      BY <1>2, <3>1, FirstFirst
    <3> QED
      BY <3>2 DEF m
  <2> QED
    BY <1>1, <2>1, SameLayout, Zenon DEF FD
<1>6. fr = [frame EXCEPT !.ancestor = a, !.d = h, !.i = i + 1]
  BY <1>1, <1>5, SameLayout, SamePow2, Zenon DEF ChunkAt
<1> HIDE DEF q, a
<1>7. fr = [busy |-> frame.busy, height |-> n, root |-> frame.root, base |-> frame.base,
            chunk |-> frame.chunk, i |-> i + 1, ancestor |-> a, d |-> h,
            start |-> frame.start, perm |-> frame.perm]
  <2> DEFINE j == i + 1
  <2>1. fr = [frame EXCEPT !.ancestor = a, !.d = h, !.i = j]
    BY <1>6
  <2> HIDE DEF j, i, fr
  <2>2. PICK r : r = fr
    OBVIOUS
  <2>3. r = [frame EXCEPT !.ancestor = a, !.d = h, !.i = j]
    BY <2>1, <2>2, Zenon
  <2>4. r = [busy |-> frame.busy, height |-> frame.height, root |-> frame.root,
             base |-> frame.base, chunk |-> frame.chunk, i |-> j, ancestor |-> a, d |-> h,
             start |-> frame.start, perm |-> frame.perm]
    BY <2>3 DEF IsFrame
  <2> QED
    BY <1>1, <2>2, <2>4, Zenon DEF j
<1>8. /\ fr.busy = frame.busy /\ fr.height = n /\ fr.root = frame.root /\ fr.chunk = frame.chunk
      /\ fr.i = i + 1 /\ fr.ancestor = a /\ fr.d = h /\ IsFrame(fr)
  BY <1>7 DEF IsFrame
<1> HIDE DEF fr
<1>9. q \in 0 .. Pow2[n - h] - 1 /\ Known(forest, a .. a + TREE_CHUNK_SIZE - 1)
  <2> HIDE DEF n, i
  <2> QED
    BY <1>1, <1>3, <1>4, StartKnown DEF n, i, a
<1>10. ASSUME NEW e \in 0 .. n - 1, NEW r \in 0 .. Pow2[e] - 1, Expanded(fr, v, e, r)
       PROVE  Known(forest, Span(ChunkAt(v, e, r), TREE_CHUNK_SIZE, 1))
  <2> DEFINE p == Pow2[n - e]
  <2>1. r * p < i + 1 /\ (r * p = i => e < n - h)
    BY <1>2, <1>8, <1>10 DEF Expanded
  <2>2. p \in Nat \ {0} /\ r \in Nat /\ n - e \in Nat
    BY <1>2, Pow2Values
  <2>3. r * p # i
    <3>1. SUFFICES ASSUME r * p = i PROVE FALSE
      OBVIOUS
    <3>2. n - e \in h + 1 .. n
      BY <1>2, <1>3, <2>1, <3>1
    <3>3. (r * p) % p = 0
      BY <2>2, Quotient
    <3> QED
      BY <1>3, <3>1, <3>2, <3>3
  <2>4. Expanded(frame, v, e, r)
    <3>1. r * p \in Nat
      BY <2>2
    <3>2. r * p < i
      BY <1>2, <2>1, <2>3, <3>1
    <3>3. e < n - frame.d
      BY <1>1, <1>2
    <3> QED
      BY <3>2, <3>3 DEF Expanded
  <2> QED
    BY <2>4 DEF WalkInv
<1>11. /\ fr.i \in 0 .. Pow2[n] /\ fr.d \in 0 .. n /\ fr.chunk \in 0 .. fr.i
       /\ fr.i <= fr.chunk + S!Ratio /\ fr.chunk < Pow2[n]
       /\ fr.d > 0 => fr.i > 0
  BY <1>1, <1>2, <1>3, <1>8
<1>12. /\ fr.i - 1 = q * Pow2[fr.d] /\ fr.ancestor = ChunkAt(v, n - fr.d, q)
       /\ q \in 0 .. Pow2[n - fr.d] - 1
       /\ Known(forest, fr.ancestor .. fr.ancestor + TREE_CHUNK_SIZE - 1)
  BY <1>2, <1>4, <1>8, <1>9 DEF a
<1>13. WalkInv(forest, fr, v)
  BY <1>1, <1>8, <1>10, <1>11, <1>12 DEF WalkInv
<1> QED
  BY <1>1, <1>8, <1>13 DEF fr
(* The chunk is expanded into the two of its children.                       *)
LEMMA DescendKeeps ==
  ASSUME NEW v \in Vec, IsForest(forest), IsFrame(frame), WalkInv(forest, frame, v), S!Descend
  PROVE  /\ IsFrame(frame') /\ frame'.busy = frame.busy /\ WalkInv(forest', frame', v)
         /\ IsForest(forest') /\ Grows(forest, forest')
<1> DEFINE n  == WalkHeight(v)
           fr == frame'
           d  == frame.d
           e  == n - d
           g  == S!ExpandChunk(frame.ancestor, TREE_CHUNK_SIZE)
<1>1. /\ d > 0 /\ forest' = g
      /\ frame' = [frame EXCEPT !.ancestor = FIRST_CHILD(frame.ancestor, FALSE), !.d = d - 1]
  BY SameLayout DEF S!Descend
<1>2. /\ n \in Nat /\ v \in Nat /\ TREE_CHUNK_SIZE \in Nat \ {0} /\ S!Ratio \in Nat
      /\ Pow2[n] \in Nat
  BY WalkSizes, WalkRatio, Pow2Values
<1>3. /\ frame.height = n /\ frame.root = FD(v, TREE_CHUNK_SIZE_SHIFT)
      /\ frame.i \in 0 .. Pow2[n] /\ d \in 1 .. n /\ frame.i > 0
      /\ frame.chunk \in 0 .. frame.i /\ frame.i <= frame.chunk + S!Ratio
      /\ frame.chunk < Pow2[n]
  BY <1>1, <1>2 DEF WalkInv
<1>4. PICK q \in 0 .. Pow2[e] - 1 :
        /\ frame.i - 1 = q * Pow2[d]
        /\ frame.ancestor = ChunkAt(v, e, q)
        /\ Known(forest, frame.ancestor .. frame.ancestor + TREE_CHUNK_SIZE - 1)
  BY <1>3 DEF WalkInv
<1>5. /\ d \in Nat /\ d - 1 \in 0 .. n - 1 /\ e \in Nat /\ e + 1 \in 0 .. n /\ e \in 0 .. n - 1
      /\ n - (d - 1) = e + 1 /\ q \in Nat /\ e + 1 \in Nat /\ e + 1 \in 0 .. WalkHeight(v)
  <2>1. e \in Nat
    BY <1>2, <1>3
  <2>2. Pow2[e] \in Nat
    BY <2>1, Pow2Values
  <2> QED
    BY <1>2, <1>3, <2>1, <2>2
<1>6. /\ Pow2[e] \in Nat \ {0} /\ Pow2[d] \in Nat \ {0}
      /\ Pow2[e + 1] = 2 * Pow2[e] /\ Pow2[d] = 2 * Pow2[d - 1] /\ Pow2[d - 1] \in Nat
  <2>1. d - 1 \in Nat /\ d - 1 + 1 = d
    BY <1>5
  <2>2. Pow2[d - 1 + 1] = 2 * Pow2[d - 1]
    BY <2>1, Pow2Values, Zenon
  <2> QED
    BY <1>5, <2>1, <2>2, Pow2Values
<1> DEFINE from == ChunkAt(v, e, q)
           to   == ChunkAt(v, e + 1, 2 * q)
           end  == ChunkAt(v, e + 1, 2 * q + 2)
<1>7. /\ from \in Nat /\ FIRST_CHILD(from, FALSE) = to
      /\ Span(from, TREE_CHUNK_SIZE, 1) = to .. end - 1
      /\ FD(from + TREE_CHUNK_SIZE, 1) = end
  BY <1>5, ChunkShape, ChunkChildren, Zenon
<1>8. end <= ForestSize(FALSE)
  <2> DEFINE r    == 2 * q + 2
             last == FD(v + 1, TREE_CHUNK_SIZE_SHIFT + (e + 1))
             size == ForestSize(FALSE)
  <2>1. r \in Nat /\ r <= Pow2[e + 1]
    BY <1>5, <1>6
  <2>2. ChunkAt(v, e + 1, r) <= last /\ last \in Nat /\ last <= size
    <3> HIDE DEF r, e
    <3> QED
      BY <1>5, <2>1, ChunkInTree, Zenon
  <2>3. size \in Nat /\ ChunkAt(v, e + 1, r) \in Nat
    <3> HIDE DEF r, e
    <3> QED
      BY <1>5, <2>1, ChunkShape, ForestEnd, Zenon
  <2> HIDE DEF last, size, r
  <2>4. ChunkAt(v, e + 1, r) <= size
    BY <2>2, <2>3
  <2> QED
    BY <2>4 DEF size, r
<1>9. IsForest(g) /\ Grows(forest, g) /\ Known(g, Span(from, TREE_CHUNK_SIZE, 1))
  <2>1. FD(from + TREE_CHUNK_SIZE, 1) <= ForestSize(FALSE)
    BY <1>7, <1>8, Zenon
  <2>2. g = S!ExpandChunk(from, TREE_CHUNK_SIZE) /\ Known(forest, from .. from + TREE_CHUNK_SIZE - 1)
    BY <1>4, Zenon
  <2> HIDE DEF from
  <2> QED
    BY <1>2, <1>7, <2>1, <2>2, ExpandKnown
<1>10. to + TREE_CHUNK_SIZE <= end /\ to \in Nat /\ end \in Nat
  <2> DEFINE r == 2 * q
  <2>1. r \in Nat /\ r + 1 \in Nat /\ r + 1 + 1 = 2 * q + 2
    BY <1>5
  <2> HIDE DEF r
  <2>2. /\ ChunkAt(v, e + 1, r) \in Nat
        /\ ChunkAt(v, e + 1, r) + TREE_CHUNK_SIZE = ChunkAt(v, e + 1, r + 1)
        /\ ChunkAt(v, e + 1, r + 1) + TREE_CHUNK_SIZE = ChunkAt(v, e + 1, r + 1 + 1)
    BY <1>5, <2>1, ChunkShape, Zenon
  <2> DEFINE a == ChunkAt(v, e + 1, r)
             b == ChunkAt(v, e + 1, r + 1)
             c == ChunkAt(v, e + 1, r + 1 + 1)
  <2>3. a \in Nat /\ a + TREE_CHUNK_SIZE = b /\ b + TREE_CHUNK_SIZE = c /\ to = a /\ end = c
    BY <2>1, <2>2 DEF r
  <2> HIDE DEF a, b, c, to, end
  <2> QED
    BY <1>2, <2>3
<1>11. fr = [busy |-> frame.busy, height |-> n, root |-> frame.root, base |-> frame.base,
             chunk |-> frame.chunk, i |-> frame.i, ancestor |-> to, d |-> d - 1,
             start |-> frame.start, perm |-> frame.perm]
  <2> DEFINE j == d - 1
  <2>1. fr = [frame EXCEPT !.ancestor = to, !.d = j]
    BY <1>1, <1>4, <1>7
  <2> HIDE DEF j, d, fr, to
  <2>2. PICK r : r = fr
    OBVIOUS
  <2>3. r = [frame EXCEPT !.ancestor = to, !.d = j]
    BY <2>1, <2>2, Zenon
  <2>4. r = [busy |-> frame.busy, height |-> frame.height, root |-> frame.root,
             base |-> frame.base, chunk |-> frame.chunk, i |-> frame.i, ancestor |-> to, d |-> j,
             start |-> frame.start, perm |-> frame.perm]
    BY <2>3 DEF IsFrame
  <2> QED
    BY <1>3, <2>2, <2>4, Zenon DEF j
<1> HIDE DEF from, to, end, g
<1>12. /\ fr.busy = frame.busy /\ fr.height = n /\ fr.root = frame.root /\ fr.chunk = frame.chunk
       /\ fr.i = frame.i /\ fr.ancestor = to /\ fr.d = d - 1 /\ IsFrame(fr)
  BY <1>11 DEF IsFrame
<1> HIDE DEF fr
<1>13. ASSUME NEW e2 \in 0 .. n - 1, NEW r \in 0 .. Pow2[e2] - 1, Expanded(fr, v, e2, r)
       PROVE  Known(g, Span(ChunkAt(v, e2, r), TREE_CHUNK_SIZE, 1))
  <2> DEFINE p == Pow2[n - e2]
  <2>1. r * p < frame.i /\ (r * p = frame.i - 1 => e2 < n - (d - 1))
    BY <1>12, <1>13 DEF Expanded
  <2>2. e2 \in Nat
    BY <1>2
  <2>3. p \in Nat /\ r \in Nat /\ Pow2[e2] \in Nat
    BY <1>2, <2>2, Pow2Values
  <2>4. CASE e2 = e /\ r * p = frame.i - 1
    <3>1. n - e2 = d
      BY <1>2, <1>3, <2>4
    <3>2. r * Pow2[d] = q * Pow2[d]
      BY <1>4, <2>4, <3>1
    <3> DEFINE w == Pow2[d]
    <3>3. w \in Nat /\ 0 < w /\ w * r + 0 = w * q + 0
      <4>1. w \in Nat \ {0} /\ r * w = q * w
        BY <1>6, <3>2
      <4> HIDE DEF w
      <4> QED
        BY <1>5, <2>3, <4>1
    <3> HIDE DEF w
    <3>4. r = q
      BY <1>5, <2>3, <3>3, MulAddInjective, 0 \in Nat
    <3> QED
      BY <1>9, <2>4, <3>4 DEF from
  <2>5. CASE ~(e2 = e /\ r * p = frame.i - 1)
    <3>1. Expanded(frame, v, e2, r)
      BY <1>2, <1>3, <2>1, <2>2, <2>5 DEF Expanded
    <3>2. Known(forest, Span(ChunkAt(v, e2, r), TREE_CHUNK_SIZE, 1))
      BY <3>1 DEF WalkInv
    <3> QED
      BY <1>9, <3>2, KnownGrows
  <2> QED
    BY <2>4, <2>5
<1>14. /\ fr.i \in 0 .. Pow2[n] /\ fr.d \in 0 .. n /\ fr.chunk \in 0 .. fr.i
       /\ fr.i <= fr.chunk + S!Ratio /\ fr.chunk < Pow2[n]
       /\ fr.d > 0 => fr.i > 0
  BY <1>2, <1>3, <1>12
<1>15. /\ fr.i - 1 = (2 * q) * Pow2[fr.d] /\ fr.ancestor = ChunkAt(v, n - fr.d, 2 * q)
       /\ 2 * q \in 0 .. Pow2[n - fr.d] - 1
       /\ Known(g, fr.ancestor .. fr.ancestor + TREE_CHUNK_SIZE - 1)
  <2>1. fr.ancestor = ChunkAt(v, n - fr.d, 2 * q) /\ n - fr.d = e + 1
    BY <1>5, <1>12 DEF to
  <2>2. 2 * q \in 0 .. Pow2[n - fr.d] - 1
    BY <1>5, <1>6, <2>1
  <2>3. fr.i - 1 = (2 * q) * Pow2[fr.d]
    <3>1. q * (2 * Pow2[d - 1]) = (2 * q) * Pow2[d - 1]
      BY <1>5, <1>6
    <3> QED
      BY <1>4, <1>6, <1>12, <3>1
  <2>4. Known(g, to .. to + TREE_CHUNK_SIZE - 1)
    BY <1>2, <1>7, <1>9, <1>10 DEF Known
  <2> QED
    BY <1>12, <2>1, <2>2, <2>3, <2>4
<1>16. WalkInv(g, fr, v)
  BY <1>3, <1>12, <1>13, <1>14, <1>15 DEF WalkInv
<1> QED
  BY <1>1, <1>9, <1>12, <1>16 DEF fr, g
(* A tree is known when the chunks above its leaves are expanded.            *)
LEMMA TreeKnown ==
  ASSUME NEW f, NEW v \in Vec, Known(f, TopLevels),
         \A e \in 0 .. WalkHeight(v) - 1 : \A q \in 0 .. Pow2[e] - 1 :
           Known(f, Span(ChunkAt(v, e, q), TREE_CHUNK_SIZE, 1)),
         NEW d \in 0 .. Depth(v)
  PROVE  Known(f, Span(v, 1, d))
<1> DEFINE k == TREE_CHUNK_SIZE_SHIFT
           c == TREE_CHUNK_SIZE
           n == WalkHeight(v)
<1>1. n \in Nat /\ k + n = Depth(v) /\ v \in Nat /\ k \in Nat /\ c \in Nat \ {0}
  BY WalkSizes
<1>2. CASE d <= k
  BY <1>1, <1>2, TopChunk
<1>3. CASE ~(d <= k)
  <2> DEFINE e == d - k - 1
             a == FD(v, d)
             b == FD(v + 1, d)
             p == Pow2[e]
  <2>1. e \in 0 .. n - 1 /\ e \in Nat /\ e + 1 \in Nat /\ k + (e + 1) = d /\ p \in Nat
    <3>1. e \in 0 .. n - 1 /\ e \in Nat /\ e + 1 \in Nat /\ k + (e + 1) = d
      BY <1>1, <1>3
    <3> QED
      BY <3>1, Pow2Values
  <2>2. a \in Nat /\ b = a + c * (2 * p)
    <3>1. b = a + Pow2[d] /\ a \in Nat /\ b \in Nat
      BY InForest
    <3>2. Pow2[d] = c * Pow2[e + 1]
      <4>1. Pow2[k + (e + 1)] = Pow2[k] * Pow2[e + 1]
        <5> HIDE DEF e
        <5> QED
          BY <1>1, <2>1, Pow2Sum
      <4> QED
        BY <2>1, <4>1, TreeSizes
    <3>3. Pow2[e + 1] = 2 * p
      BY <2>1, Pow2Values, Zenon
    <3> QED
      BY <3>1, <3>2, <3>3, Zenon
  <2>3. Span(v, 1, d) = a .. b - 1
    BY DEF Span
  <2>4. ASSUME NEW x \in a .. b - 1 PROVE x \in S!Node /\ f[x] = x
    <3> DEFINE y == x - a
               w == c + c
               q == y \div w
               r == y % w
    <3> HIDE DEF a, b, e, p
    <3>1. y \in Nat /\ w \in Nat \ {0} /\ y < c * (2 * p)
      BY <1>1, <2>1, <2>2, <2>4
    <3> HIDE DEF y, w
    <3>2. q \in Nat /\ r \in Nat /\ r < w /\ y = w * q + r
      BY <3>1
    <3> HIDE DEF q, r
    <3>3. w * q = c * (2 * q) /\ c * (2 * p) = w * p /\ w * q + w = c * (2 * q + 2)
      BY <1>1, <2>1, <3>2 DEF w
    <3>4. w * q \in Nat /\ w * p \in Nat
      BY <2>1, <3>1, <3>2
    <3>5. q < p
      <4>1. SUFFICES ASSUME p <= q PROVE FALSE
        BY <2>1, <3>2
      <4>2. w * p <= w * q
        BY <2>1, <3>1, <3>2, <4>1, MulMonotone
      <4> QED
        BY <3>1, <3>2, <3>3, <3>4, <4>2
    <3>6. Known(f, Span(ChunkAt(v, e, q), c, 1))
      BY <2>1, <3>2, <3>5 DEF p
    <3>7. Span(ChunkAt(v, e, q), c, 1) = ChunkAt(v, e + 1, 2 * q) .. ChunkAt(v, e + 1, 2 * q + 2) - 1
      BY <2>1, <3>2, ChunkChildren
    <3>8. ChunkAt(v, e + 1, 2 * q) = a + c * (2 * q) /\ ChunkAt(v, e + 1, 2 * q + 2) = a + c * (2 * q + 2)
      BY <2>1, Zenon DEF ChunkAt, a
    <3> DEFINE lo == ChunkAt(v, e + 1, 2 * q)
               hi == ChunkAt(v, e + 1, 2 * q + 2)
    <3>9. lo = a + w * q /\ hi = a + (w * q + w) /\ Known(f, lo .. hi - 1)
      BY <3>3, <3>6, <3>7, <3>8, Zenon
    <3> HIDE DEF lo, hi
    <3>10. x = a + (w * q + r) /\ x \in Nat
      BY <2>2, <2>4, <3>2 DEF y
    <3>11. x \in lo .. hi - 1
      BY <2>2, <3>1, <3>2, <3>4, <3>9, <3>10
    <3> QED
      BY <3>9, <3>11 DEF Known
  <2> QED
    BY <2>3, <2>4 DEF Known
<1> QED
  BY <1>2, <1>3

(* The next chunk of the output starts where the paths of this one end.      *)
LEMMA EndKeeps ==
  ASSUME NEW v \in Vec, Known(forest, TopLevels), IsFrame(frame), WalkInv(forest, frame, v),
         S!EndChunk
  PROVE  /\ forest' = forest /\ IsFrame(frame') /\ frame'.busy \in BOOLEAN
         /\ frame'.busy => WalkInv(forest, frame', v)
         /\ ~frame'.busy => \A d \in 0 .. Depth(v) : Known(forest, Span(v, 1, d))
<1> DEFINE n  == WalkHeight(v)
           fr == frame'
           j  == frame.chunk + S!Ratio
<1>1. PICK perm, start :
        frame' = [frame EXCEPT !.perm = perm, !.chunk = j, !.i = j, !.start = start,
                               !.busy = j < Pow2[n]]
  BY SamePow2 DEF S!EndChunk, WalkInv
<1>2. /\ forest' = forest /\ frame.d = 0 /\ frame.height = n
      /\ ~(frame.i < j /\ frame.i < Pow2[n])
  BY SamePow2 DEF S!EndChunk, S!MorePaths, WalkInv
<1>3. /\ n \in Nat /\ Pow2[n] \in Nat /\ S!Ratio \in Nat \ {0}
  BY WalkSizes, WalkRatio, Pow2Values
<1>4. /\ frame.i \in 0 .. Pow2[n] /\ frame.chunk \in 0 .. frame.i /\ frame.i <= j
      /\ frame.chunk < Pow2[n] /\ frame.root = FD(v, TREE_CHUNK_SIZE_SHIFT)
  BY DEF WalkInv
<1>5. fr = [busy |-> j < Pow2[n], height |-> n, root |-> frame.root, base |-> frame.base,
            chunk |-> j, i |-> j, ancestor |-> frame.ancestor, d |-> 0,
            start |-> start, perm |-> perm]
  <2> HIDE DEF j, fr
  <2> DEFINE more == j < Pow2[n]
  <2>1. fr = [frame EXCEPT !.perm = perm, !.chunk = j, !.i = j, !.start = start, !.busy = more]
    BY <1>1 DEF fr
  <2> HIDE DEF more
  <2>2. PICK r : r = fr
    OBVIOUS
  <2>3. r = [frame EXCEPT !.perm = perm, !.chunk = j, !.i = j, !.start = start, !.busy = more]
    BY <2>1, <2>2, Zenon
  <2>4. r = [busy |-> more, height |-> frame.height, root |-> frame.root,
             base |-> frame.base, chunk |-> j, i |-> j, ancestor |-> frame.ancestor, d |-> frame.d,
             start |-> start, perm |-> perm]
    BY <2>3 DEF IsFrame
  <2> QED
    BY <1>2, <2>2, <2>4, Zenon DEF more
<1>6. /\ fr.busy = (j < Pow2[n]) /\ fr.height = n /\ fr.root = frame.root /\ fr.chunk = j
      /\ fr.i = j /\ fr.ancestor = frame.ancestor /\ fr.d = 0 /\ IsFrame(fr)
  BY <1>5 DEF IsFrame
<1> HIDE DEF fr
<1>7. ASSUME fr.busy PROVE WalkInv(forest, fr, v)
  <2>1. j < Pow2[n]
    BY <1>6, <1>7
  <2>2. frame.i = j
    BY <1>2, <1>3, <1>4, <2>1
  <2> HIDE DEF j
  <2>3. \A e, q : Expanded(fr, v, e, q) => Expanded(frame, v, e, q)
    BY <1>2, <1>6, <2>2 DEF Expanded
  <2>4. fr.chunk \in 0 .. fr.i /\ fr.i <= fr.chunk + S!Ratio
    BY <1>3, <1>4, <1>6, <2>2
  <2>5. fr.i = frame.i /\ fr.d = frame.d /\ fr.ancestor = frame.ancestor
    BY <1>2, <1>6, <2>2
  <2> QED
    BY <1>4, <1>6, <2>1, <2>3, <2>4, <2>5 DEF WalkInv
<1>8. ASSUME ~fr.busy, NEW d \in 0 .. Depth(v)
      PROVE  Known(forest, Span(v, 1, d))
  <2>1. ~(j < Pow2[n])
    BY <1>6, <1>8
  <2>2. frame.i = Pow2[n]
    BY <1>2, <1>3, <1>4, <2>1
  <2>3. ASSUME NEW e \in 0 .. n - 1, NEW q \in 0 .. Pow2[e] - 1
        PROVE  Known(forest, Span(ChunkAt(v, e, q), TREE_CHUNK_SIZE, 1))
    <3> DEFINE a == Pow2[e]
               b == Pow2[n - e]
    <3>1. e \in 0 .. n /\ e \in Nat /\ e < n - frame.d
      BY <1>2, <1>3
    <3>2. a \in Nat /\ b \in Nat \ {0} /\ Pow2[n] = b * a
      BY <1>3, <3>1, Pow2Split
    <3> HIDE DEF a, b
    <3>3. q < a /\ q \in Nat
      BY <3>2 DEF a
    <3>4. q * b < b * a
      <4>1. b * q + b <= b * a /\ b * q \in Nat /\ b * a \in Nat
        BY <3>2, <3>3, MulMonotone
      <4>2. q * b = b * q
        BY <3>2, <3>3
      <4> QED
        BY <3>2, <4>1, <4>2
    <3>5. Expanded(frame, v, e, q)
      BY <2>2, <3>1, <3>2, <3>4 DEF Expanded, b
    <3> QED
      BY <3>5 DEF WalkInv
  <2> QED
    BY <2>3, TreeKnown
<1>9. fr.busy \in BOOLEAN
  <2>1. \A a, b \in Nat : (a < b) \in BOOLEAN
    OBVIOUS
  <2>2. j \in Nat
    BY <1>3, <1>4
  <2> QED
    BY <1>3, <1>6, <2>1, <2>2, Zenon
<1> QED
  BY <1>2, <1>6, <1>7, <1>8, <1>9 DEF fr
---------------------------------------------------------------------------
(* A node is on the level before the first one that starts after it.         *)
LEMMA LevelOf ==
  ASSUME NEW n \in Nat, NEW x \in Nat, x < FD(0, n + 1)
  PROVE  \E k \in 0 .. n : FD(0, k) <= x /\ x < FD(0, k + 1)
<1> DEFINE A == {k \in Nat : x < FD(0, k + 1)}
<1>1. n \in A /\ A \in SUBSET Nat
  OBVIOUS
<1>2. PICK k \in A : \A j \in A : k <= j
  <2> HIDE DEF A
  <2> QED
    BY <1>1, LeastElement
<1>3. k \in Nat /\ k \in 0 .. n /\ x < FD(0, k + 1)
  BY <1>1, <1>2
<1>4. FD(0, k) <= x
  <2>1. CASE k = 0
    <3>1. FD(0, 0) = 0
      BY FirstValue, 0 \in Nat
    <3> QED
      BY <1>3, <2>1, <3>1
  <2>2. CASE k # 0
    <3>1. k - 1 \in Nat /\ k - 1 + 1 = k /\ ~(k <= k - 1)
      BY <1>3, <2>2
    <3>2. ~(x < FD(0, k - 1 + 1))
      BY <1>2, <3>1
    <3> DEFINE a == FD(0, k)
    <3>3. a \in Nat /\ ~(x < a)
      BY <1>3, <3>1, <3>2, FirstNat, 0 \in Nat
    <3> HIDE DEF a
    <3>4. a <= x
      BY <3>3
    <3> QED
      BY <3>4 DEF a
  <2> QED
    BY <2>1, <2>2
<1> QED
  BY <1>3, <1>4

(* Every node of the forest is on a level of one of the trees.               *)
LEMMA NodeOfTree ==
  ASSUME NEW x \in S!Node
  PROVE  \E v \in Vec : \E d \in 0 .. Depth(v) : x \in Span(v, 1, d)
<1> DEFINE m == VOLES_MAX_K
           n == VOLE_MIN_K
           t == BITS_PER_WITNESS
           end == FD(m, n + 1)
<1>1. m \in Nat /\ n \in Nat /\ t \in Nat /\ m < t /\ n + 1 \in Nat /\ n + 1 + 1 \in Nat /\ 0 \in Nat
  BY TreeSizes
<1>2. end \in Nat /\ x \in Nat /\ x < end
  <2>1. end \in Nat /\ S!Node = 0 .. end - 1
    BY <1>1, ForestEnd, FirstNat, Zenon
  <2> HIDE DEF end
  <2> QED
    BY <2>1
<1>3. end <= FD(t, n + 1)
  BY <1>1, FirstMonotone
<1>4. FD(t, n + 1) = FD(0, n + 1 + 1) /\ FD(t, n + 1) \in Nat
  BY <1>1, FirstSum, FirstNat, Zenon
<1>5. x < FD(0, n + 1 + 1)
  <2> DEFINE a == FD(t, n + 1)
  <2>1. a \in Nat /\ end <= a /\ FD(0, n + 1 + 1) = a
    BY <1>3, <1>4
  <2> HIDE DEF a, end
  <2>2. x < a
    BY <1>2, <2>1
  <2> QED
    BY <2>1, <2>2
<1>6. PICK d \in 0 .. n + 1 : FD(0, d) <= x /\ x < FD(0, d + 1)
  BY <1>1, <1>2, <1>5, LevelOf, Zenon
<1> DEFINE c == Pow2[d]
           lo == FD(0, d)
           v == (x - lo) \div c
           r == (x - lo) % c
<1>7. d \in Nat /\ lo \in Nat /\ lo <= x /\ c \in Nat \ {0}
  <2>1. d \in Nat
    BY <1>1
  <2> QED
    BY <1>1, <1>6, <2>1, FirstNat, Pow2Values
<1>8. v \in Nat /\ r \in Nat /\ r < c /\ x = lo + (c * v + r)
  <2> HIDE DEF c, lo
  <2> DEFINE y == x - lo
  <2>1. y \in Nat /\ x = lo + y
    BY <1>2, <1>7
  <2> HIDE DEF y
  <2> DEFINE q == y \div c
             s == y % c
  <2>2. q \in Nat /\ s \in Nat /\ s < c /\ y = c * q + s
    BY <1>7, <2>1
  <2> HIDE DEF q, s
  <2>3. v = q /\ r = s
    BY DEF q, s, y
  <2> HIDE DEF v, r
  <2> QED
    BY <2>1, <2>2, <2>3
<1> HIDE DEF v, r
<1>9. FD(v, d) = lo + v * c /\ FD(v + 1, d) = FD(v, d) + c
  <2>1. FD(0 + v, d) = FD(0, d) + v * Pow2[d]
    <3>1. 0 \in Nat /\ v \in Nat /\ d \in Nat
      BY <1>7, <1>8
    <3> QED
      BY <3>1, FirstSum
  <2>2. 0 + v = v
    BY <1>8
  <2> QED
    BY <1>7, <1>8, <2>1, <2>2, FirstSucc
<1>10. x \in Span(v, 1, d) /\ FD(v, d) <= x
  <2> DEFINE a == FD(v, d)
             b == FD(v + 1, d)
  <2>1. a = lo + v * c /\ b = a + c /\ v * c \in Nat /\ v * c = c * v
    BY <1>7, <1>8, <1>9
  <2>2. Span(v, 1, d) = a .. b - 1
    BY DEF Span
  <2> HIDE DEF a, b, c, lo
  <2>3. x \in a .. b - 1 /\ a <= x
    BY <1>7, <1>8, <2>1
  <2> QED
    BY <2>2, <2>3 DEF a
<1>11. ASSUME NEW u \in Nat, x < FD(u, d) PROVE v < u
  <2>1. SUFFICES ASSUME u <= v PROVE FALSE
    BY <1>8
  <2>2. FD(u, d) <= FD(v, d) /\ FD(u, d) \in Nat /\ FD(v, d) \in Nat
    BY <1>7, <1>8, <2>1, FirstMonotone, FirstNat
  <2> DEFINE a == FD(v, d)
             b == FD(u, d)
  <2>3. b <= a /\ a \in Nat /\ b \in Nat /\ a <= x /\ x < b
    BY <1>10, <1>11, <2>2
  <2> HIDE DEF a, b
  <2> QED
    BY <1>2, <2>3
<1>12. v < t
  <2>1. FD(t, d) = FD(0, d + 1)
    BY <1>1, <1>7, FirstSum
  <2>2. x < FD(t, d)
    BY <1>6, <2>1, Zenon
  <2> QED
    BY <1>1, <1>11, <2>2
<1>13. v \in Vec
  BY <1>1, <1>8, <1>12 DEF Vec
<1>14. d <= Depth(v)
  <2>1. CASE d <= n
    BY <1>1, <1>7, <1>13, <2>1, DepthRange
  <2>2. CASE ~(d <= n)
    <3>1. d = n + 1
      BY <1>1, <2>2
    <3>2. v < m
      BY <1>1, <1>2, <1>11, <3>1
    <3> QED
      BY <1>1, <1>13, <3>1, <3>2, DepthRange
  <2> QED
    BY <2>1, <2>2
<1>15. d \in 0 .. Depth(v)
  BY <1>7, <1>13, <1>14, DepthRange
<1> QED
  BY <1>10, <1>13, <1>15

---------------------------------------------------------------------------
(* The steps of the signer's commitment.                                     *)
LEMMA NoCallLeft ==
  ASSUME NEW f, Known(f, Root), Known(f, TopLevels), NEW pc, NEW i
  PROVE  RootsInv(f, <<>>, pc, i)
BY DEF RootsInv, Known

LEMMA ForestInit ==
  ASSUME CommitInit
  PROVE  ForestInv
<1>1. /\ forest = [x \in S!Node |-> IF x \in Root THEN x ELSE Uninit]
      /\ frame = S!NoFrame /\ calls = <<>> /\ commit_i = 0 /\ commit_pc = "roots"
  BY DEF CommitInit
<1>2. IsForest(forest) /\ \A x \in S!Node : x \in Root => forest[x] = x
  BY <1>1 DEF IsForest
<1>3. IsFrame(frame) /\ frame.busy \in BOOLEAN /\ ~frame.busy
  BY <1>1 DEF IsFrame, S!NoFrame
<1>4. calls \in Seq(PendingCall)
  BY <1>1
<1> DEFINE t == BITS_PER_WITNESS
           k == TREE_CHUNK_SIZE_SHIFT
<1>5. t \in Nat \ {0} /\ k \in Nat /\ 0 \in Nat /\ 0 % TREE_CHUNK_SIZE = 0 /\ k + 1 \in Nat
  <2>1. \A c \in Nat \ {0} : 0 % c = 0
    OBVIOUS
  <2> QED
    BY <2>1, TreeSizes
<1>6. ASSUME NEW d \in Nat PROVE FD(0, d + 1) = FD(t, d) /\ FD(t, d) \in Nat
  BY <1>5, FirstSum, FirstNat
<1>7. Known(forest, Root)
  <2>1. Root \subseteq S!Node
    <3> SUFFICES ASSUME NEW x \in Root PROVE x \in S!Node
      OBVIOUS
    <3>1. x \in Vec /\ x \in Nat
      BY <1>5 DEF Root, Vec
    <3>2. Span(x, 1, 0) \subseteq S!Node
      <4>1. 0 \in 0 .. Depth(x)
        BY <3>1, DepthRange
      <4> QED
        BY <3>1, <4>1, InForest
    <3>3. FD(x, 0) = x /\ FD(x + 1, 0) = x + 1
      BY <3>1, FirstValue, x + 1 \in Nat, 0 \in Nat
    <3>4. x \in Span(x, 1, 0)
      <4>1. Span(x, 1, 0) = x .. (x + 1) - 1
        BY <3>3 DEF Span
      <4> QED
        BY <3>1, <4>1
    <3> QED
      BY <3>2, <3>4
  <2> QED
    BY <1>2, <2>1 DEF Known
<1>8. ASSUME NEW x \in TopLevels, x \notin Root PROVE x \in Below(LaterRoots("roots", 0))
  <2>1. x \in Nat /\ x < FD(0, k + 1)
    <3> DEFINE a == FD(0, k + 1)
    <3>1. a \in Nat /\ x \in 0 .. a - 1
      BY <1>5, FirstNat, Zenon DEF TopLevels
    <3> HIDE DEF a
    <3>2. x \in Nat /\ x < a
      BY <3>1
    <3> QED
      BY <3>2 DEF a
  <2>2. PICK d \in 0 .. k : FD(0, d) <= x /\ x < FD(0, d + 1)
    BY <1>5, <2>1, LevelOf
  <2>3. d \in Nat /\ FD(0, d + 1) = FD(t, d) /\ FD(t, d) \in Nat /\ FD(0, d) \in Nat
    <3>1. d \in Nat
      BY <1>5
    <3> QED
      BY <1>5, <1>6, <3>1, FirstNat
  <2>4. d # 0
    <3>1. SUFFICES ASSUME d = 0 PROVE FALSE
      OBVIOUS
    <3>2. FD(t, 0) = t
      BY <1>5, FirstValue
    <3> QED
      BY <1>8, <2>1, <2>2, <2>3, <3>1, <3>2 DEF Root
  <2>5. x \in Span(0, t, d)
    <3> DEFINE a == FD(0, d)
               b == FD(t, d)
    <3>1. a \in Nat /\ b \in Nat /\ a <= x /\ x < b /\ Span(0, t, d) = a .. b - 1
      BY <1>5, <2>2, <2>3 DEF Span
    <3> HIDE DEF a, b
    <3> QED
      BY <2>1, <3>1
  <2>6. LaterRoots("roots", 0) = [n |-> 0, i |-> 0, size |-> t]
    BY <1>5 DEF LaterRoots
  <2>7. d \in 1 .. k - 0
    BY <1>5, <2>4
  <2> QED
    BY <2>1, <2>5, <2>6, <2>7 DEF Below
<1>9. RootsInv(forest, calls, commit_pc, commit_i)
  BY <1>1, <1>7, <1>8 DEF RootsInv, Known
<1>10. commit_i \in 0 .. t /\ commit_pc = "roots" /\ calls = <<>> /\ commit_i % TREE_CHUNK_SIZE = 0
  BY <1>1, <1>5
<1> QED
  BY <1>2, <1>3, <1>4, <1>9, <1>10 DEF ForestInv
LEMMA CallTreeKeeps ==
  ASSUME ForestInv, CallTree
  PROVE  ForestInv'
<1> DEFINE v == commit_i
           n == WalkHeight(v)
<1>1. /\ commit_pc = "trees" /\ calls = <<>> /\ ~frame.busy /\ v < BITS_PER_WITNESS
      /\ frame' = [busy |-> TRUE, height |-> n, root |-> FD(v, TREE_CHUNK_SIZE_SHIFT),
                   base |-> base, chunk |-> 0, i |-> 0, ancestor |-> 0, d |-> 0,
                   start |-> 0, perm |-> PermuteInv(XorIndex(0, 0))]
      /\ commit_i' = v + 1 /\ forest' = forest /\ calls' = calls /\ commit_pc' = commit_pc
  BY DEF CallTree, S!ExpandTree, FD, WalkHeight
<1>2. v \in 0 .. BITS_PER_WITNESS /\ BITS_PER_WITNESS \in Nat
  BY TreeSizes DEF ForestInv
<1>3. v \in Vec /\ v \in Nat /\ n \in Nat /\ Pow2[n] \in Nat \ {0} /\ S!Ratio \in Nat
  <2>1. v \in Vec
    BY <1>1, <1>2 DEF Vec
  <2> QED
    BY <2>1, WalkSizes, WalkRatio, Pow2Values
<1>4. /\ frame'.busy /\ IsFrame(frame') /\ frame'.height = n /\ frame'.busy \in BOOLEAN
      /\ frame'.root = FD(v, TREE_CHUNK_SIZE_SHIFT)
      /\ frame'.chunk = 0 /\ frame'.i = 0 /\ frame'.d = 0
  BY <1>1 DEF IsFrame
<1>5. WalkInv(forest, frame', v)
  <2>1. ASSUME NEW e \in 0 .. n - 1, NEW q \in 0 .. Pow2[e] - 1 PROVE ~Expanded(frame', v, e, q)
    <3>1. e \in Nat /\ n - e \in Nat
      BY <1>3
    <3>2. Pow2[n - e] \in Nat /\ Pow2[e] \in Nat
      BY <3>1, Pow2Values
    <3>3. q * Pow2[n - e] \in Nat
      BY <3>2
    <3> QED
      BY <1>4, <3>3 DEF Expanded
  <2>2. 0 \in 0 .. n /\ 0 \in 0 .. Pow2[n] /\ 0 <= 0 + S!Ratio /\ 0 < Pow2[n] /\ 0 \in 0 .. 0
        /\ ~(0 > 0)
    BY <1>3
  <2> QED
    BY <1>4, <2>1, <2>2 DEF WalkInv
<1>6. Known(forest, Root) /\ Known(forest, TopLevels)
  BY <1>1, <1>3, TopKnown DEF ForestInv, RootsInv
<1>7. RootsInv(forest', calls', commit_pc', commit_i')
  BY <1>1, <1>6, NoCallLeft
<1>8. /\ commit_i' - 1 = v /\ commit_i' \in 0 .. BITS_PER_WITNESS /\ commit_i' > 0
  BY <1>1, <1>2
<1>9. TreesInv(forest', IF frame'.busy THEN commit_i' - 1 ELSE commit_i')
  BY <1>1, <1>4, <1>8 DEF ForestInv
<1>10. IsForest(forest') /\ calls' \in Seq(PendingCall)
  BY <1>1 DEF ForestInv
<1>11. commit_pc' = "trees" /\ calls' = <<>> /\ WalkInv(forest', frame', commit_i' - 1)
  BY <1>1, <1>5, <1>8
<1> QED
  BY <1>4, <1>7, <1>8, <1>9, <1>10, <1>11 DEF ForestInv

LEMMA ExpandStepKeeps ==
  ASSUME ForestInv, CommitExpands
  PROVE  ForestInv'
<1> DEFINE v == commit_i - 1
<1>1. /\ S!ExpandStep /\ frame.busy
      /\ calls' = calls /\ commit_i' = commit_i /\ commit_pc' = commit_pc
  BY DEF CommitExpands, S!ExpandStep, S!PickAncestor, S!Descend, S!EndChunk
<1>2. /\ IsForest(forest) /\ IsFrame(frame) /\ calls \in Seq(PendingCall)
      /\ RootsInv(forest, calls, commit_pc, commit_i)
      /\ commit_i \in 0 .. BITS_PER_WITNESS /\ commit_i > 0
      /\ WalkInv(forest, frame, v)
      /\ commit_pc = "trees" /\ calls = <<>> /\ TreesInv(forest, v)
  BY <1>1 DEF ForestInv
<1>3. v \in Vec /\ commit_i \in Nat /\ v \in Nat /\ v + 1 = commit_i
  BY <1>2, TreeSizes DEF Vec
<1>4. Known(forest, Root) /\ Known(forest, TopLevels)
  BY <1>2, <1>3, TopKnown DEF RootsInv
<1>5. /\ IsForest(forest') /\ Grows(forest, forest') /\ IsFrame(frame') /\ frame'.busy \in BOOLEAN
      /\ frame'.busy => WalkInv(forest', frame', v)
      /\ ~frame'.busy => \A d \in 0 .. Depth(v) : Known(forest', Span(v, 1, d))
  <2> HIDE DEF v
  <2>1. CASE S!PickAncestor
    BY <1>1, <1>2, <1>3, <1>4, <2>1, PickKeeps DEF Grows, ForestInv
  <2>2. CASE S!Descend
    BY <1>1, <1>2, <1>3, <2>2, DescendKeeps DEF ForestInv
  <2>3. CASE S!EndChunk
    BY <1>2, <1>3, <1>4, <2>3, EndKeeps DEF Grows
  <2> QED
    BY <1>1, <2>1, <2>2, <2>3 DEF S!ExpandStep
<1>6. RootsInv(forest', calls', commit_pc', commit_i') /\ TreesInv(forest', v)
  BY <1>1, <1>2, <1>5, KnownGrows
<1>7. ASSUME ~frame'.busy PROVE TreesInv(forest', commit_i)
  <2> HIDE DEF v
  <2>1. \A d \in 0 .. Depth(v) : Known(forest', Span(v, 1, d))
    BY <1>5, <1>7
  <2>2. \A u \in Vec : u < commit_i => u < v \/ u = v
    BY <1>3 DEF Vec
  <2> QED
    BY <1>6, <2>1, <2>2 DEF TreesInv
<1>8. TreesInv(forest', IF frame'.busy THEN commit_i' - 1 ELSE commit_i')
  BY <1>1, <1>6, <1>7
<1>9. frame'.busy => commit_i' > 0 /\ WalkInv(forest', frame', commit_i' - 1)
  BY <1>1, <1>2, <1>5
<1>10. commit_pc' = "trees" /\ calls' = <<>> /\ calls' \in Seq(PendingCall)
       /\ commit_i' \in 0 .. BITS_PER_WITNESS
  BY <1>1, <1>2
<1> QED
  BY <1>5, <1>6, <1>8, <1>9, <1>10 DEF ForestInv

LEMMA ForestStep ==
  ASSUME ForestInv, CommitStep
  PROVE  ForestInv'
<1> DEFINE c == TREE_CHUNK_SIZE
           t == BITS_PER_WITNESS
<1>1. c \in Nat \ {0} /\ t \in Nat \ {0} /\ commit_i \in Nat /\ commit_i <= t
  BY TreeSizes DEF ForestInv
<1>2. CASE CallRoots
  <2> DEFINE a == [n |-> 0, i |-> commit_i, size |-> c]
  <2>1. /\ commit_pc = "roots" /\ calls = <<>> /\ commit_i + c <= t
        /\ calls' = <<a>> /\ commit_i' = commit_i + c
        /\ forest' = forest /\ frame' = frame /\ commit_pc' = commit_pc
    BY <1>2 DEF CallRoots, expandVars
  <2>2. RootsInv(forest, <<a>>, "roots", commit_i + c)
    BY <1>1, <2>1, CallRootsKeeps DEF ForestInv
  <2>3. (commit_i + c) % c = 0 /\ commit_i + c \in 0 .. t
    BY <1>1, <2>1, Multiples DEF ForestInv
  <2>4. <<a>> \in Seq(PendingCall)
    <3>1. a \in PendingCall
      BY <1>1 DEF PendingCall
    <3> HIDE DEF a
    <3> QED
      BY <3>1
  <2> HIDE DEF a
  <2>5. /\ RootsInv(forest', calls', commit_pc', commit_i') /\ calls' \in Seq(PendingCall)
        /\ commit_pc' = "roots" /\ commit_i' % c = 0 /\ commit_i' \in 0 .. t
    BY <2>1, <2>2, <2>3, <2>4
  <2>6. IsForest(forest') /\ IsFrame(frame') /\ frame'.busy \in BOOLEAN /\ ~frame'.busy
    BY <2>1 DEF ForestInv
  <2> QED
    BY <2>5, <2>6 DEF ForestInv
<1>3. CASE CallRemaining
  <2> DEFINE r == t - commit_i
             a == [n |-> 0, i |-> commit_i, size |-> r]
  <2>1. /\ commit_pc = "roots" /\ calls = <<>> /\ commit_i + c > t
        /\ calls' = (IF Remaining = 0 THEN <<>>
                     ELSE <<[n |-> 0, i |-> t - Remaining, size |-> Remaining]>>)
        /\ commit_i' = 0 /\ commit_pc' = "trees"
        /\ forest' = forest /\ frame' = frame
    BY <1>3 DEF CallRemaining, expandVars
  <2>2. Remaining = r /\ r \in Nat /\ t - r = commit_i
    <3>1. t \in commit_i .. commit_i + c - 1
      BY <1>1, <2>1
    <3>2. t % c = t - commit_i
      BY <1>1, <2>1, <3>1, Multiples DEF ForestInv
    <3> QED
      BY <1>1, <3>2 DEF Remaining
  <2>3. commit_i \in 0 .. t /\ RootsInv(forest, <<>>, "roots", commit_i)
    BY <2>1 DEF ForestInv
  <2>4. RootsInv(forest', calls', "trees", 0) /\ calls' \in Seq(PendingCall)
    <3>1. CASE r = 0
      <4>1. calls' = <<>> /\ commit_i = t
        BY <1>1, <2>1, <2>2, <3>1
      <4>2. RootsInv(forest, <<>>, "trees", 0)
        BY <2>3, <4>1, CallRemainingKeeps
      <4> QED
        BY <2>1, <4>1, <4>2
    <3>2. CASE r # 0
      <4>1. calls' = <<a>> /\ commit_i < t
        BY <1>1, <2>1, <2>2, <3>2
      <4>2. RootsInv(forest, <<a>>, "trees", 0)
        BY <2>3, <4>1, CallRemainingKeeps
      <4>3. a \in PendingCall
        BY <1>1, <2>2, <3>2 DEF PendingCall
      <4> HIDE DEF a
      <4> QED
        BY <2>1, <4>1, <4>2, <4>3
    <3> QED
      BY <3>1, <3>2
  <2>5. TreesInv(forest', 0)
    <3>1. \A v \in Vec : ~(v < 0)
      BY DEF Vec
    <3> QED
      BY <3>1 DEF TreesInv
  <2>6. IsForest(forest') /\ IsFrame(frame') /\ frame'.busy \in BOOLEAN /\ ~frame'.busy
    BY <2>1 DEF ForestInv
  <2>7. commit_i' = 0 /\ commit_pc' = "trees" /\ 0 \in 0 .. t
    BY <1>1, <2>1
  <2> QED
    BY <2>4, <2>5, <2>6, <2>7 DEF ForestInv
<1>4. CASE ExpandRoots
  <2>1. /\ calls # <<>> /\ frame' = frame /\ commit_i' = commit_i /\ commit_pc' = commit_pc
    BY <1>4 DEF ExpandRoots
  <2>2. /\ IsForest(forest') /\ Grows(forest, forest') /\ calls' \in Seq(PendingCall)
        /\ RootsInv(forest', calls', commit_pc, commit_i)
    BY <1>4, ExpandRootsKeeps DEF ForestInv
  <2>3. ~frame.busy /\ (commit_pc # "roots" => commit_i = 0 /\ TreesInv(forest', commit_i))
        /\ commit_pc # "done" /\ IsFrame(frame)
    <3>1. ~frame.busy /\ (commit_pc # "roots" => commit_i = 0 /\ TreesInv(forest, commit_i))
          /\ commit_pc # "done" /\ IsFrame(frame)
      BY <2>1 DEF ForestInv
    <3> QED
      BY <2>2, <3>1, KnownGrows
  <2>4. /\ commit_pc \in {"roots", "trees", "done"} /\ commit_i \in 0 .. t
        /\ commit_pc = "roots" => commit_i % c = 0
        /\ frame.busy \in BOOLEAN
    BY DEF ForestInv
  <2> QED
    BY <2>1, <2>2, <2>3, <2>4 DEF ForestInv
<1>5. CASE CallTree
  BY <1>5, CallTreeKeeps
<1>6. CASE CommitExpands
  BY <1>6, ExpandStepKeeps
<1>7. CASE CommitReturn
  <2>1. /\ commit_pc = "trees" /\ calls = <<>> /\ ~frame.busy /\ commit_i = t
        /\ commit_pc' = "done" /\ forest' = forest /\ frame' = frame
        /\ calls' = calls /\ commit_i' = commit_i
    BY <1>7 DEF CommitReturn, expandVars
  <2>2. Known(forest, Root) /\ Known(forest, TopLevels)
    BY <1>1, <2>1, TopKnown DEF ForestInv, RootsInv
  <2>3. RootsInv(forest', calls', commit_pc', commit_i')
    BY <2>1, <2>2, NoCallLeft
  <2> QED
    BY <2>1, <2>3 DEF ForestInv
<1> QED
  BY <1>2, <1>3, <1>4, <1>5, <1>6, <1>7 DEF CommitStep

LEMMA ForestUnchanged ==
  ASSUME ForestInv, UNCHANGED commitVars
  PROVE  ForestInv'
BY DEF ForestInv, commitVars, expandVars

LEMMA ForestKnown ==
  ASSUME ForestInv
  PROVE  /\ ForestCorrect
         /\ commit_pc = "done" => Known(forest, S!Node)
<1>1. ASSUME commit_pc = "done", NEW x \in S!Node
      PROVE  forest[x] = x
  <2>1. TreesInv(forest, BITS_PER_WITNESS)
    BY <1>1 DEF ForestInv
  <2>2. PICK v \in Vec : \E d \in 0 .. Depth(v) : x \in Span(v, 1, d)
    BY NodeOfTree
  <2>3. v < BITS_PER_WITNESS
    BY DepthRange
  <2> QED
    BY <2>1, <2>2, <2>3 DEF TreesInv, Known
<1> QED
  BY <1>1 DEF ForestCorrect, ForestInv, IsForest, Known

(* No seed is derived from memory that is not yet written, in whatever order *)
(* expand_roots and expand_tree visit the chunks, and when vector_commit     *)
(* returns every node of every tree has the seed of its own path             *)
(* (vector_com.c:208-228, 261-301, 303-332).                                 *)
LEMMA ForestInvariant == Spec => []ForestInv
<1>1. Init => ForestInv
  BY ForestInit DEF Init
<1>2. ForestInv /\ [Next]_vars => ForestInv'
  <2> SUFFICES ASSUME ForestInv, [Next]_vars PROVE ForestInv'
    OBVIOUS
  <2>1. CASE SignerCommits
    BY <2>1, ForestStep DEF SignerCommits
  <2>2. CASE ~SignerCommits
    <3>1. UNCHANGED commitVars
      BY <2>2 DEF Next, vars, SignerChallenged, SignerOpens, VerifierReceives, VerifierVerifies,
                  Over
    <3> QED
      BY <3>1, ForestUnchanged
  <2> QED
    BY <2>1, <2>2
<1> QED
  BY <1>1, <1>2, PTL DEF Spec

THEOREM ForestExpanded == Spec => []ForestCorrect
<1>1. ForestInv => ForestCorrect
  BY ForestKnown
<1> QED
  BY <1>1, ForestInvariant, PTL
---------------------------------------------------------------------------
(* What an opening reveals.  The node at depth d on the path to the hidden    *)
(* leaf of a vector, and the one beside it.                                  *)
PathIndex(index, v, d) == index[v] \div Pow2[Depth(v) - d]
PathNode(index, v, d)  == FD(v, d) + PathIndex(index, v, d)
Beside(index, v, d)    ==
  FD(v, d) + 2 * (PathIndex(index, v, d) \div 2) + (1 - (PathIndex(index, v, d) % 2))

OpenInv ==
  /\ opening = [s \in OpeningSlot |-> opening[s]]
  /\ open_pc = "idle" =>
       /\ open_vec = 0 /\ open_d = 1 /\ open_pos = 0
       /\ \A s \in OpeningSlot : opening[s] = Uninit
  /\ open_pc # "idle" =>
       /\ commit_pc = "done" /\ IsIndex(delta.index)
       /\ \A v \in Vec : \A d \in 0 .. Depth(v) - 1 :
            opening[OpeningStart(v) + d] \in {Uninit, Beside(delta.index, v, d + 1)}
  /\ open_pc = "open" /\ open_vec # BITS_PER_WITNESS =>
       /\ open_vec \in Vec
       /\ open_d \in 1 .. Depth(open_vec) + 1
       /\ open_pos = OpeningStart(open_vec) + (open_d - 1)
       /\ node = FIRST_CHILD(PathNode(delta.index, open_vec, open_d - 1), FALSE)

(* The part of a vector in the opening ends where that of the next begins.   *)
LEMMA OpeningParts ==
  ASSUME NEW v \in Nat, v <= BITS_PER_WITNESS
  PROVE  /\ OpeningStart(v) \in Nat
         /\ v \in Vec => OpeningStart(v + 1) = OpeningStart(v) + Depth(v) + 2
         /\ OpeningStart(v) <= NONZERO_BITS_IN_CHALLENGE_3 + 2 * BITS_PER_WITNESS
         /\ \A u \in Nat : u <= v => OpeningStart(u) <= OpeningStart(v)
<1> DEFINE t == BITS_PER_WITNESS
           m == VOLES_MAX_K
           n == VOLE_MIN_K
           c == n + 2
           over(u) == IF u < m THEN u ELSE m
<1>1. /\ t \in Nat /\ m \in Nat /\ m < t /\ n \in Nat /\ c \in Nat
  BY TreeSizes
<1>2. ASSUME NEW u \in Nat PROVE OpeningStart(u) = c * u + over(u) /\ c * u \in Nat /\ over(u) \in Nat
  <2>1. u * c = c * u /\ c * u \in Nat /\ over(u) \in Nat
    BY <1>1
  <2> QED
    BY <2>1 DEF OpeningStart
<1>3. OpeningStart(v) \in Nat
  BY <1>2
<1>4. ASSUME NEW u \in Nat, u <= v PROVE OpeningStart(u) <= OpeningStart(v)
  <2>1. c * u <= c * v
    BY <1>1, <1>4, MulMonotone
  <2>2. over(u) <= over(v)
    BY <1>1, <1>4
  <2>3. /\ OpeningStart(u) = c * u + over(u) /\ c * u \in Nat /\ over(u) \in Nat
        /\ OpeningStart(v) = c * v + over(v) /\ c * v \in Nat /\ over(v) \in Nat
    BY <1>2
  <2> HIDE DEF over, c
  <2> QED
    BY <2>1, <2>2, <2>3
<1>5. ASSUME v \in Vec PROVE OpeningStart(v + 1) = OpeningStart(v) + Depth(v) + 2
  <2>1. OpeningStart(v) = c * v + over(v) /\ OpeningStart(v + 1) = c * (v + 1) + over(v + 1)
    <3> HIDE DEF c, over
    <3>1. v + 1 \in Nat
      OBVIOUS
    <3> QED
      BY <1>2, <3>1
  <2>2. c * (v + 1) = c * v + c
    BY <1>1
  <2>3. n + over(v + 1) = over(v) + Depth(v)
    <3>1. Depth(v) \in Nat /\ n <= Depth(v) /\ Depth(v) <= n + 1 /\ (v < m <=> Depth(v) = n + 1)
      BY <1>5, DepthRange
    <3> QED
      BY <1>1, <3>1
  <2>4. c * v \in Nat /\ Depth(v) \in Nat /\ over(v) \in Nat /\ over(v + 1) \in Nat
    BY <1>1, <1>5, DepthRange
  <2> HIDE DEF over
  <2>5. OpeningStart(v + 1) = (c * v + over(v)) + Depth(v) + 2
    <3> DEFINE w == c * v
    <3>1. w \in Nat /\ OpeningStart(v + 1) = w + c + over(v + 1)
      BY <2>1, <2>2, <2>4
    <3> HIDE DEF w
    <3>2. OpeningStart(v + 1) = w + over(v) + Depth(v) + 2
      BY <1>1, <2>3, <2>4, <3>1
    <3> QED
      BY <3>2 DEF w
  <2> QED
    BY <2>1, <2>5
<1>6. OpeningStart(v) <= NONZERO_BITS_IN_CHALLENGE_3 + 2 * t
  <2> DEFINE total == NONZERO_BITS_IN_CHALLENGE_3 + 2 * t
  <2>1. total = c * t + m
    <3>1. CASE m = 0
      BY <1>1, <3>1, TreeSizes DEF NONZERO_BITS_IN_CHALLENGE_3, VOLES_MIN_K
    <3>2. CASE m # 0
      <4>1. NONZERO_BITS_IN_CHALLENGE_3 = m * (n + 1) + (t - m) * n
        BY <3>2, TreeSizes DEF NONZERO_BITS_IN_CHALLENGE_3, VOLES_MIN_K
      <4>2. m * (n + 1) + (t - m) * n = n * t + m
        BY <1>1
      <4>3. c * t = n * t + 2 * t /\ n * t \in Nat
        BY <1>1
      <4> QED
        BY <1>1, <4>1, <4>2, <4>3
    <3> QED
      BY <3>1, <3>2
  <2>2. c * v <= c * t /\ c * t \in Nat /\ over(v) <= m
    BY <1>1, MulMonotone
  <2>3. OpeningStart(v) = c * v + over(v) /\ c * v \in Nat /\ over(v) \in Nat
    BY <1>2
  <2> HIDE DEF over, c, total
  <2> QED
    BY <1>1, <2>1, <2>2, <2>3 DEF total
<1> QED
  BY <1>3, <1>4, <1>5, <1>6

(* Each seed of the opening has a place of its own, and the commitments too. *)
LEMMA OpeningPlaces ==
  ASSUME NEW u \in Vec, NEW d \in 0 .. Depth(u) + 1
  PROVE  /\ OpeningStart(u) + d \in OpeningSlot
         /\ \A v \in Vec : \A e \in 0 .. Depth(v) + 1 :
              OpeningStart(u) + d = OpeningStart(v) + e => u = v /\ d = e
<1> DEFINE total == NONZERO_BITS_IN_CHALLENGE_3 + 2 * BITS_PER_WITNESS
<1>1. ASSUME NEW v \in Vec
      PROVE  /\ v \in Nat /\ Depth(v) \in Nat /\ v + 1 \in Nat
             /\ OpeningStart(v) \in Nat /\ OpeningStart(v + 1) = OpeningStart(v) + Depth(v) + 2
             /\ OpeningStart(v + 1) <= total
             /\ \A w \in Vec : v < w => OpeningStart(v + 1) <= OpeningStart(w)
  <2>1. /\ v \in Nat /\ Depth(v) \in Nat /\ v + 1 \in Nat /\ v + 1 <= BITS_PER_WITNESS
        /\ v <= BITS_PER_WITNESS
    BY DepthRange, TreeSizes
  <2>2. OpeningStart(v) \in Nat /\ OpeningStart(v + 1) = OpeningStart(v) + Depth(v) + 2
    BY <2>1, OpeningParts
  <2>3. OpeningStart(v + 1) <= total
    BY <2>1, OpeningParts
  <2>4. ASSUME NEW w \in Vec, v < w PROVE OpeningStart(v + 1) <= OpeningStart(w)
    <3>1. w \in Nat /\ w <= BITS_PER_WITNESS /\ v + 1 <= w
      BY <2>1, <2>4, DepthRange, TreeSizes
    <3> QED
      BY <2>1, <3>1, OpeningParts
  <2> QED
    BY <2>1, <2>2, <2>3, <2>4
<1>2. total \in Nat /\ NONZERO_BITS_IN_CHALLENGE_3 \in Nat /\ BITS_PER_WITNESS \in Nat
  <2>1. VOLES_MAX_K * VOLE_MAX_K \in Nat /\ VOLES_MIN_K * VOLE_MIN_K \in Nat /\ BITS_PER_WITNESS \in Nat
    BY TreeSizes DEF VOLES_MIN_K
  <2> QED
    BY <2>1 DEF NONZERO_BITS_IN_CHALLENGE_3
<1>3. OpeningSlot = 0 .. total - 1
  <2>1. NONZERO_BITS_IN_CHALLENGE_3 + 2 * BITS_PER_WITNESS - 1 = total - 1
    BY <1>2
  <2> QED
    BY <2>1 DEF OpeningSlot
<1> HIDE DEF total
<1>4. OpeningStart(u) + d \in OpeningSlot
  <2>1. OpeningStart(u) \in Nat /\ Depth(u) \in Nat /\ OpeningStart(u) + Depth(u) + 2 <= total
    BY <1>1
  <2> QED
    BY <1>2, <1>3, <2>1
<1>5. ASSUME NEW v \in Vec, NEW e \in 0 .. Depth(v) + 1, OpeningStart(u) + d = OpeningStart(v) + e
      PROVE  u = v /\ d = e
  <2> DEFINE a == OpeningStart(u)
             b == OpeningStart(v)
  <2>1. /\ a \in Nat /\ b \in Nat /\ u \in Nat /\ v \in Nat /\ Depth(u) \in Nat /\ Depth(v) \in Nat
        /\ u < v => a + Depth(u) + 2 <= b
        /\ v < u => b + Depth(v) + 2 <= a
        /\ u = v => a = b
        /\ a + d = b + e
    <3>1. u < v => OpeningStart(u + 1) <= b
      BY <1>1
    <3>2. v < u => OpeningStart(v + 1) <= a
      BY <1>1
    <3>3. OpeningStart(u + 1) = a + Depth(u) + 2 /\ OpeningStart(v + 1) = b + Depth(v) + 2
      BY <1>1
    <3> QED
      BY <1>1, <1>5, <3>1, <3>2, <3>3
  <2> HIDE DEF a, b
  <2>2. ~(u < v) /\ ~(v < u)
    BY <2>1
  <2> QED
    BY <2>1, <2>2
<1> QED
  BY <1>4, <1>5

(* The nodes of the trees are different.                                     *)
LEMMA NodesDiffer ==
  ASSUME NEW u \in Vec, NEW d \in 0 .. Depth(u), NEW i \in Nat, i < Pow2[d],
         NEW v \in Vec, NEW e \in 0 .. Depth(v), NEW j \in Nat, j < Pow2[e],
         FD(u, d) + i = FD(v, e) + j
  PROVE  u = v /\ d = e /\ i = j
<1>1. ASSUME NEW x \in Vec, NEW a \in 0 .. Depth(x), NEW y \in Vec, NEW b \in 0 .. Depth(y)
      PROVE  /\ FD(x, a) \in Nat /\ Pow2[a] \in Nat /\ x \in Nat /\ a \in Nat
             /\ a < b => FD(x, a) + Pow2[a] <= FD(y, b)
             /\ a = b /\ x < y => FD(x, a) + Pow2[a] <= FD(y, b)
  <2>1. /\ FD(x + 1, a) = FD(x, a) + Pow2[a] /\ FD(x, a) \in Nat /\ Pow2[a] \in Nat
        /\ FD(x + 1, a) \in Nat /\ FD(y, b) \in Nat /\ a \in Nat /\ b \in Nat
    BY InForest
  <2>2. /\ x \in Nat /\ y \in Nat /\ x + 1 \in Nat /\ BITS_PER_WITNESS \in Nat
        /\ x + 1 <= BITS_PER_WITNESS /\ 0 \in Nat /\ 0 <= y
    BY DepthRange, TreeSizes
  <2>3. ASSUME a < b PROVE FD(x + 1, a) <= FD(y, b)
    <3>1. a + 1 \in Nat /\ a + 1 <= b
      BY <2>1, <2>3
    <3> DEFINE p == FD(x + 1, a)
               q == FD(BITS_PER_WITNESS, a)
               r == FD(0, b)
               s == FD(y, b)
    <3>2. p <= q
      BY <2>1, <2>2, FirstMonotone
    <3>3. q = FD(0, a + 1) /\ FD(0, a + 1) <= r
      BY <2>1, <2>2, <3>1, FirstSum, FirstDeeper
    <3>4. r <= s
      BY <2>1, <2>2, FirstMonotone
    <3>5. p \in Nat /\ q \in Nat /\ r \in Nat /\ s \in Nat /\ q <= r
      BY <2>1, <2>2, <3>3, FirstNat
    <3> HIDE DEF p, q, r, s
    <3>6. p <= s
      BY <3>2, <3>4, <3>5
    <3> QED
      BY <3>6 DEF p, s
  <2>4. ASSUME a = b, x < y PROVE FD(x + 1, a) <= FD(y, b)
    <3>1. x + 1 <= y
      BY <2>2, <2>4
    <3> QED
      BY <2>1, <2>2, <2>4, <3>1, FirstMonotone
  <2> QED
    BY <2>1, <2>2, <2>3, <2>4
<1> DEFINE a == FD(u, d)
           b == FD(v, e)
<1>2. /\ a \in Nat /\ b \in Nat /\ Pow2[d] \in Nat /\ Pow2[e] \in Nat /\ u \in Nat /\ v \in Nat
      /\ d \in Nat /\ e \in Nat
      /\ (d < e \/ (d = e /\ u < v)) => a + Pow2[d] <= b
      /\ (e < d \/ (d = e /\ v < u)) => b + Pow2[e] <= a
      /\ a + i = b + j
      /\ (u = v /\ d = e) => a = b
  BY <1>1
<1> HIDE DEF a, b
<1>3. ~(d < e) /\ ~(e < d)
  BY <1>2
<1>4. d = e
  BY <1>2, <1>3
<1>5. ~(u < v) /\ ~(v < u)
  BY <1>2, <1>4
<1> QED
  BY <1>2, <1>4, <1>5

(* Along the path to the hidden leaf.                                        *)
LEMMA Path ==
  ASSUME NEW index, IsIndex(index), NEW v \in Vec
  PROVE  /\ PathIndex(index, v, 0) = 0
         /\ \A d \in 0 .. Depth(v) : PathIndex(index, v, d) \in Nat /\ PathIndex(index, v, d) < Pow2[d]
         /\ \A d \in 0 .. Depth(v) - 1 :
              PathIndex(index, v, d + 1) = 2 * PathIndex(index, v, d) + (PathIndex(index, v, d + 1) % 2)
<1> DEFINE n == Depth(v)
           i == index[v]
<1>1. n \in Nat /\ i \in Nat /\ i < Pow2[n] /\ Pow2[n] \in Nat
  <2>1. n \in Nat
    BY DepthRange
  <2>2. Pow2[n] \in Nat /\ i \in 0 .. Pow2[n] - 1
    BY <2>1, Pow2Values DEF IsIndex, Leaf
  <2> HIDE DEF i
  <2> QED
    BY <2>1, <2>2
<1>2. ASSUME NEW d \in 0 .. n
      PROVE  PathIndex(index, v, d) \in Nat /\ PathIndex(index, v, d) < Pow2[d]
  <2> DEFINE p == Pow2[n - d]
             c == Pow2[d]
  <2>1. Pow2[n] = p * c /\ p \in Nat \ {0} /\ c \in Nat /\ p * c = c * p
    BY <1>1, Pow2Split
  <2> HIDE DEF p, c, i, n
  <2>2. i < c * p
    BY <1>1, <2>1
  <2>3. i \div p \in Nat /\ i \div p < c
    BY <1>1, <2>1, <2>2, Halve
  <2> QED
    BY <2>3 DEF p, c, i, n, PathIndex
<1>3. PathIndex(index, v, 0) = 0
  <2>1. 0 \in 0 .. n
    BY <1>1
  <2> QED
    BY <1>2, <2>1, Pow2Values
<1>4. ASSUME NEW d \in 0 .. n - 1
      PROVE  PathIndex(index, v, d + 1) = 2 * PathIndex(index, v, d) + (PathIndex(index, v, d + 1) % 2)
  <2> DEFINE p == Pow2[n - (d + 1)]
  <2>1. n - (d + 1) \in Nat /\ n - (d + 1) + 1 = n - d
    BY <1>1
  <2>2. p \in Nat \ {0} /\ Pow2[n - d] = 2 * p
    <3>1. Pow2[n - (d + 1) + 1] = 2 * p
      BY <2>1, Pow2Values, Zenon
    <3> QED
      BY <2>1, <3>1, Pow2Values
  <2> HIDE DEF p, i, n
  <2>3. i \div p = 2 * (i \div (2 * p)) + ((i \div p) % 2)
    BY <1>1, <2>2, Halve
  <2>4. PathIndex(index, v, d + 1) = i \div p /\ PathIndex(index, v, d) = i \div (2 * p)
    BY <2>2 DEF PathIndex, p, i, n
  <2> QED
    BY <2>3, <2>4
<1> QED
  BY <1>2, <1>3, <1>4

LEMMA PathChild ==
  ASSUME NEW index, IsIndex(index), NEW v \in Vec, NEW e \in 0 .. Depth(v) - 1
  PROVE  LET from == FIRST_CHILD(PathNode(index, v, e), FALSE)
             bit  == PathIndex(index, v, e + 1) % 2
         IN /\ bit \in 0 .. 1
            /\ from \in Nat
            /\ from + bit = PathNode(index, v, e + 1)
            /\ from + (1 - bit) = Beside(index, v, e + 1)
            /\ Beside(index, v, e + 1) \in Nat
            /\ \E j \in Nat : /\ j < Pow2[e + 1] /\ Beside(index, v, e + 1) = FD(v, e + 1) + j
                              /\ j # PathIndex(index, v, e + 1)
<1> DEFINE a == PathIndex(index, v, e)
           b == PathIndex(index, v, e + 1)
           x == FD(v, e)
           y == FD(v, e + 1)
           t == BITS_PER_WITNESS
           from == FIRST_CHILD(PathNode(index, v, e), FALSE)
           c == Pow2[e]
           bit == b % 2
<1>1. /\ v \in Nat /\ Depth(v) \in Nat /\ e \in 0 .. Depth(v) /\ e + 1 \in 0 .. Depth(v)
      /\ e \in Nat /\ e + 1 \in Nat /\ t \in Nat
  <2>1. v \in Nat /\ Depth(v) \in Nat /\ t \in Nat
    BY DepthRange, TreeSizes
  <2> QED
    BY <2>1
<1>2. a \in Nat /\ b \in Nat /\ a < c /\ b < Pow2[e + 1] /\ b = 2 * a + bit
  BY <1>1, Path
<1>3. x \in Nat /\ y \in Nat /\ y = 2 * x + t /\ c \in Nat /\ Pow2[e + 1] = 2 * c
  BY <1>1, FirstValue, FirstNat, Pow2Values
<1>4. from = 2 * (x + a) + t
  <2> DEFINE z == PathNode(index, v, e)
  <2>1. z = x + a
    BY DEF PathNode
  <2>2. z \in Nat
    BY <1>2, <1>3, <2>1
  <2> HIDE DEF z, x, a
  <2>3. FIRST_CHILD(z, FALSE) = 2 * z + t
    BY <2>2, FirstValue, 0 \in Nat
  <2> QED
    BY <2>1, <2>3 DEF z
<1>5. PathNode(index, v, e + 1) = y + b /\ Beside(index, v, e + 1) = y + 2 * (b \div 2) + (1 - bit)
  BY DEF PathNode, Beside
<1> HIDE DEF a, b, x, y, from, c
<1>6. bit \in 0 .. 1 /\ b \div 2 = a
  BY <1>2
<1>7. from = y + 2 * a /\ from \in Nat /\ from + bit = PathNode(index, v, e + 1)
  BY <1>1, <1>2, <1>3, <1>4, <1>5, <1>6
<1>8. Beside(index, v, e + 1) = y + (2 * a + (1 - bit)) /\ 2 * a + (1 - bit) \in Nat
      /\ 2 * a + (1 - bit) < 2 * c /\ 2 * a + (1 - bit) # b /\ Beside(index, v, e + 1) \in Nat
      /\ from + (1 - bit) = Beside(index, v, e + 1)
  BY <1>2, <1>3, <1>5, <1>6, <1>7
<1> QED
  BY <1>3, <1>6, <1>7, <1>8 DEF from, b, y

LEMMA PathStart ==
  ASSUME NEW index, IsIndex(index), NEW v \in Vec
  PROVE  PathNode(index, v, 0) = v
<1>1. v \in Nat /\ PathIndex(index, v, 0) = 0 /\ FD(v, 0) = v
  BY DepthRange, Path, FirstValue, 0 \in Nat
<1> QED
  BY <1>1 DEF PathNode

(* The nodes beside a path are on no path.                                   *)
LEMMA BesideHidden ==
  ASSUME NEW index, IsIndex(index), NEW v \in Vec, NEW d \in 0 .. Depth(v) - 1,
         NEW u \in Vec, NEW e \in 0 .. Depth(u)
  PROVE  Beside(index, v, d + 1) # PathNode(index, u, e)
<1>1. SUFFICES ASSUME Beside(index, v, d + 1) = PathNode(index, u, e) PROVE FALSE
  OBVIOUS
<1> DEFINE g == d + 1
<1>2. g \in 0 .. Depth(v)
  BY DepthRange
<1>3. PICK j \in Nat : j < Pow2[g] /\ Beside(index, v, g) = FD(v, g) + j /\ j # PathIndex(index, v, g)
  BY PathChild
<1> HIDE DEF g
<1>4. PathIndex(index, u, e) \in Nat /\ PathIndex(index, u, e) < Pow2[e]
  BY Path
<1>5. FD(v, g) + j = FD(u, e) + PathIndex(index, u, e)
  BY <1>1, <1>3 DEF PathNode, g
<1>6. v = u /\ g = e /\ j = PathIndex(index, u, e)
  BY <1>2, <1>3, <1>4, <1>5, NodesDiffer
<1> QED
  BY <1>3, <1>6
(* The steps of vector_open.                                                 *)
Seeds(o, index) ==
  \A v \in Vec : \A d \in 0 .. Depth(v) - 1 :
    o[OpeningStart(v) + d] \in {Uninit, Beside(index, v, d + 1)}

LEMMA SeedPlace ==
  ASSUME NEW v \in Vec, NEW d \in 0 .. Depth(v) - 1
  PROVE  /\ d \in 0 .. Depth(v) + 1 /\ Depth(v) \in 0 .. Depth(v) + 1
         /\ Depth(v) + 1 \in 0 .. Depth(v) + 1 /\ d # Depth(v) /\ d # Depth(v) + 1
         /\ OpeningStart(v) + d \in OpeningSlot
<1>1. Depth(v) \in Nat
  BY DepthRange
<1>2. d \in 0 .. Depth(v) + 1
  BY <1>1
<1> QED
  BY <1>1, <1>2, OpeningPlaces

(* Each level adds to the opening the seed beside the path.                   *)
LEMMA OpenLevelWrites ==
  ASSUME ForestInv, OpenInv, OpenLevel
  PROVE  LET v     == open_vec
             e     == open_d - 1
             index == delta.index
         IN /\ open_pc = "open" /\ open_pc' = "open" /\ delta' = delta /\ open_vec' = v
            /\ open_pos' = open_pos + 1 /\ open_d' = open_d + 1
            /\ v \in Vec /\ open_pos = OpeningStart(v) + e
            /\ IsIndex(index) /\ Seeds(opening, index)
            /\ Depth(v) \in Nat /\ e \in 0 .. Depth(v) - 1 /\ e \in Nat /\ open_d' - 1 = e + 1
            /\ OpeningStart(v) \in Nat
            /\ opening' = [s \in OpeningSlot |-> opening'[s]]
            /\ \A s \in OpeningSlot :
                 opening'[s] = IF s = OpeningStart(v) + e THEN Beside(index, v, e + 1) ELSE opening[s]
            /\ Hole = PathIndex(index, v, e + 1) % 2
            /\ node' = FIRST_CHILD(PathNode(index, v, e + 1), FALSE)
<1> DEFINE v == open_vec
           e == open_d - 1
           index == delta.index
           from == FIRST_CHILD(PathNode(index, v, e), FALSE)
<1>1. /\ open_pc = "open" /\ open_vec < BITS_PER_WITNESS /\ open_d <= Depth(v)
      /\ opening' = [opening EXCEPT ![open_pos] = forest[Sibling]]
      /\ open_pos' = open_pos + 1 /\ node' = FIRST_CHILD(node + Hole, FALSE)
      /\ open_d' = open_d + 1 /\ open_vec' = open_vec /\ open_pc' = open_pc /\ delta' = delta
  BY DEF OpenLevel
<1>2. open_vec # BITS_PER_WITNESS
  BY <1>1, TreeSizes
<1>3. /\ v \in Vec /\ open_d \in 1 .. Depth(v) + 1 /\ open_pos = OpeningStart(v) + e
      /\ node = from /\ IsIndex(index) /\ Seeds(opening, index) /\ commit_pc = "done"
      /\ opening = [s \in OpeningSlot |-> opening[s]]
  BY <1>1, <1>2 DEF OpenInv, Seeds
<1>4. /\ Depth(v) \in Nat /\ e \in 0 .. Depth(v) - 1 /\ e + 1 = open_d /\ open_d \in 0 .. Depth(v)
      /\ open_d' - 1 = e + 1 /\ OpeningStart(v) \in Nat /\ e \in Nat
  <2>1. Depth(v) \in Nat /\ v \in Nat /\ v <= BITS_PER_WITNESS
    BY <1>3, DepthRange, TreeSizes
  <2>2. OpeningStart(v) \in Nat
    BY <2>1, OpeningParts
  <2> QED
    BY <1>1, <1>3, <2>1, <2>2
<1>5. Hole = PathIndex(index, v, e + 1) % 2
  BY <1>4 DEF Hole, PathIndex
<1>6. /\ from + Hole = PathNode(index, v, e + 1)
      /\ from + (1 - Hole) = Beside(index, v, e + 1)
      /\ \E j \in Nat : j < Pow2[e + 1] /\ Beside(index, v, e + 1) = FD(v, e + 1) + j
  BY <1>3, <1>4, <1>5, PathChild
<1> DEFINE b == Beside(index, v, e + 1)
<1>7. Sibling = b /\ forest[b] = b
  <2>1. Sibling = b
    BY <1>3, <1>6 DEF Sibling
  <2>2. PICK j \in Nat : j < Pow2[e + 1] /\ b = FD(v, e + 1) + j
    BY <1>6
  <2>3. e + 1 \in 0 .. Depth(v)
    BY <1>4
  <2> DEFINE lo == FD(v, e + 1)
             hi == FD(v + 1, e + 1)
             w  == Pow2[e + 1]
  <2>4. lo \in Nat /\ hi = lo + w /\ w \in Nat /\ Span(v, 1, e + 1) \subseteq S!Node
    BY <1>3, <2>3, InForest
  <2>5. Span(v, 1, e + 1) = lo .. hi - 1 /\ b = lo + j /\ j < w
    BY <2>2 DEF Span
  <2> HIDE DEF lo, hi, w, b
  <2>6. b \in lo .. hi - 1
    BY <2>2, <2>4, <2>5
  <2>7. b \in S!Node
    BY <2>4, <2>5, <2>6
  <2>8. Known(forest, S!Node)
    BY <1>3, ForestKnown
  <2> QED
    BY <2>1, <2>7, <2>8 DEF Known
<1> HIDE DEF b
<1>8. opening' = [s \in OpeningSlot |-> opening'[s]]
      /\ \A s \in OpeningSlot : opening'[s] = IF s = OpeningStart(v) + e THEN b ELSE opening[s]
  BY <1>1, <1>3, <1>7
<1> QED
  BY <1>1, <1>3, <1>4, <1>5, <1>6, <1>8 DEF b

LEMMA OpenLevelKeeps ==
  ASSUME ForestInv, OpenInv, OpenLevel
  PROVE  /\ open_pc = "open" /\ open_pc' = "open" /\ delta' = delta
         /\ opening' = [s \in OpeningSlot |-> opening'[s]]
         /\ Seeds(opening', delta.index)
         /\ open_vec' \in Vec /\ open_d' \in 1 .. Depth(open_vec') + 1
         /\ open_pos' = OpeningStart(open_vec') + (open_d' - 1)
         /\ node' = FIRST_CHILD(PathNode(delta.index, open_vec', open_d' - 1), FALSE)
<1> DEFINE v == open_vec
           e == open_d - 1
           index == delta.index
           b == Beside(index, v, e + 1)
<1>1. /\ open_pc = "open" /\ open_pc' = "open" /\ delta' = delta /\ open_vec' = v
      /\ open_pos' = open_pos + 1 /\ open_d' = open_d + 1
      /\ v \in Vec /\ open_pos = OpeningStart(v) + e
      /\ IsIndex(index) /\ Seeds(opening, index)
      /\ Depth(v) \in Nat /\ e \in 0 .. Depth(v) - 1 /\ e \in Nat /\ open_d' - 1 = e + 1
      /\ OpeningStart(v) \in Nat
      /\ node' = FIRST_CHILD(PathNode(index, v, e + 1), FALSE)
  BY OpenLevelWrites
<1>2. opening' = [s \in OpeningSlot |-> opening'[s]]
      /\ \A s \in OpeningSlot : opening'[s] = IF s = OpeningStart(v) + e THEN b ELSE opening[s]
  BY OpenLevelWrites
<1>3. Seeds(opening', index)
  <2> SUFFICES ASSUME NEW u \in Vec, NEW d \in 0 .. Depth(u) - 1
               PROVE  opening'[OpeningStart(u) + d] \in {Uninit, Beside(index, u, d + 1)}
    BY DEF Seeds
  <2>1. OpeningStart(u) + d \in OpeningSlot /\ d \in 0 .. Depth(u) + 1
    BY SeedPlace
  <2>2. CASE OpeningStart(u) + d = OpeningStart(v) + e
    <3>1. e \in 0 .. Depth(v) + 1
      BY <1>1
    <3>2. u = v /\ d = e
      BY <1>1, <2>1, <2>2, <3>1, OpeningPlaces
    <3> QED
      BY <1>2, <2>1, <2>2, <3>2 DEF b
  <2>3. CASE OpeningStart(u) + d # OpeningStart(v) + e
    BY <1>1, <1>2, <2>1, <2>3 DEF Seeds
  <2> QED
    BY <2>2, <2>3
<1>4. open_pos' = OpeningStart(v) + (open_d' - 1) /\ open_d' \in 1 .. Depth(v) + 1
  BY <1>1
<1>5. node' = FIRST_CHILD(PathNode(index, v, open_d' - 1), FALSE)
  BY <1>1
<1> QED
  BY <1>1, <1>2, <1>3, <1>4, <1>5

(* The commitment goes twice behind the seeds of a vector.                    *)
LEMMA OpenCommitmentWrites ==
  ASSUME OpenInv, OpenCommitment
  PROVE  LET v     == open_vec
             n     == Depth(v)
             com   == hashed_leaves[open_base + leaf_idx]
             index == delta.index
         IN /\ open_pc = "open" /\ open_pc' = "open" /\ delta' = delta
            /\ open_vec < BITS_PER_WITNESS /\ open_vec' = v + 1 /\ open_d' = 1
            /\ open_pos' = open_pos + 2 /\ node' = FIRST_CHILD(v + 1, FALSE)
            /\ v \in Vec /\ v \in Nat /\ n \in Nat /\ open_d = n + 1
            /\ open_pos = OpeningStart(v) + n /\ open_pos + 1 = OpeningStart(v) + (n + 1)
            /\ n \in 0 .. n + 1 /\ n + 1 \in 0 .. n + 1
            /\ OpeningStart(v) \in Nat /\ OpeningStart(v + 1) = open_pos + 2
            /\ IsIndex(index) /\ Seeds(opening, index)
            /\ opening' = [s \in OpeningSlot |-> opening'[s]]
            /\ \A s \in OpeningSlot :
                 opening'[s] = IF s = OpeningStart(v) + n \/ s = OpeningStart(v) + (n + 1) THEN com
                               ELSE opening[s]
<1> DEFINE v == open_vec
           n == Depth(v)
           index == delta.index
           com == hashed_leaves[open_base + leaf_idx]
<1>1. /\ open_pc = "open" /\ open_vec < BITS_PER_WITNESS /\ open_d > n
      /\ opening' = [opening EXCEPT ![open_pos] = com, ![open_pos + 1] = com]
      /\ open_pos' = open_pos + 2 /\ node' = FIRST_CHILD(open_vec + 1, FALSE)
      /\ open_d' = 1 /\ open_vec' = open_vec + 1 /\ open_pc' = open_pc /\ delta' = delta
  BY DEF OpenCommitment
<1> HIDE DEF com
<1>2. open_vec # BITS_PER_WITNESS
  BY <1>1, TreeSizes
<1>3. /\ v \in Vec /\ open_d \in 1 .. n + 1 /\ open_pos = OpeningStart(v) + (open_d - 1)
      /\ IsIndex(index) /\ Seeds(opening, index)
      /\ opening = [s \in OpeningSlot |-> opening[s]]
  BY <1>1, <1>2 DEF OpenInv, Seeds
<1>4. /\ n \in Nat /\ v \in Nat /\ OpeningStart(v) \in Nat /\ open_pos = OpeningStart(v) + n
      /\ open_pos + 1 = OpeningStart(v) + (n + 1)
      /\ n \in 0 .. n + 1 /\ n + 1 \in 0 .. n + 1
      /\ OpeningStart(v + 1) = open_pos + 2
  <2>1. n \in Nat /\ v \in Nat /\ v <= BITS_PER_WITNESS
    BY <1>3, DepthRange, TreeSizes
  <2>2. OpeningStart(v) \in Nat /\ OpeningStart(v + 1) = OpeningStart(v) + n + 2
    BY <1>3, <2>1, OpeningParts
  <2>3. open_pos = OpeningStart(v) + n
    BY <1>1, <1>3, <2>1, <2>2
  <2> HIDE DEF n
  <2> QED
    BY <2>1, <2>2, <2>3
<1>5. opening' = [s \in OpeningSlot |-> opening'[s]]
      /\ \A s \in OpeningSlot :
           opening'[s] = IF s = OpeningStart(v) + n \/ s = OpeningStart(v) + (n + 1) THEN com
                         ELSE opening[s]
  <2>1. \A s \in OpeningSlot :
          opening'[s] = IF s = open_pos \/ s = open_pos + 1 THEN com ELSE opening[s]
    BY <1>1, <1>3
  <2>2. opening' = [s \in OpeningSlot |-> opening'[s]]
    BY <1>1, <1>3
  <2> QED
    BY <1>4, <2>1, <2>2
<1>6. open_d = n + 1
  BY <1>1, <1>3, <1>4
<1> QED
  BY <1>1, <1>3, <1>4, <1>5, <1>6 DEF com

LEMMA OpenCommitmentKeeps ==
  ASSUME OpenInv, OpenCommitment
  PROVE  /\ open_pc = "open" /\ open_pc' = "open" /\ delta' = delta
         /\ opening' = [s \in OpeningSlot |-> opening'[s]]
         /\ Seeds(opening', delta.index)
         /\ open_vec' # BITS_PER_WITNESS =>
              /\ open_vec' \in Vec /\ open_d' \in 1 .. Depth(open_vec') + 1
              /\ open_pos' = OpeningStart(open_vec') + (open_d' - 1)
              /\ node' = FIRST_CHILD(PathNode(delta.index, open_vec', open_d' - 1), FALSE)
<1> DEFINE v == open_vec
           n == Depth(v)
           index == delta.index
<1>1. /\ open_pc = "open" /\ open_pc' = "open" /\ delta' = delta
      /\ open_vec < BITS_PER_WITNESS /\ open_vec' = v + 1 /\ open_d' = 1
      /\ open_pos' = open_pos + 2 /\ node' = FIRST_CHILD(v + 1, FALSE)
      /\ v \in Vec /\ v \in Nat /\ n \in Nat
      /\ open_pos = OpeningStart(v) + n /\ OpeningStart(v + 1) = open_pos + 2
      /\ n \in 0 .. n + 1 /\ n + 1 \in 0 .. n + 1 /\ OpeningStart(v) \in Nat
      /\ IsIndex(index) /\ Seeds(opening, index)
  BY OpenCommitmentWrites
<1>2. opening' = [s \in OpeningSlot |-> opening'[s]]
      /\ \A s \in OpeningSlot : s # OpeningStart(v) + n /\ s # OpeningStart(v) + (n + 1) =>
           opening'[s] = opening[s]
  BY OpenCommitmentWrites
<1>3. Seeds(opening', index)
  <2> SUFFICES ASSUME NEW u \in Vec, NEW d \in 0 .. Depth(u) - 1
               PROVE  opening'[OpeningStart(u) + d] \in {Uninit, Beside(index, u, d + 1)}
    BY DEF Seeds
  <2>1. /\ OpeningStart(u) + d \in OpeningSlot /\ d \in 0 .. Depth(u) + 1
        /\ d # Depth(u) /\ d # Depth(u) + 1
    BY SeedPlace
  <2>2. OpeningStart(u) + d # OpeningStart(v) + n /\ OpeningStart(u) + d # OpeningStart(v) + (n + 1)
    BY <1>1, <2>1, OpeningPlaces
  <2>3. opening'[OpeningStart(u) + d] = opening[OpeningStart(u) + d]
    BY <1>2, <2>1, <2>2
  <2> QED
    BY <1>1, <2>3 DEF Seeds
<1>4. ASSUME open_vec' # BITS_PER_WITNESS
      PROVE  /\ open_vec' \in Vec /\ open_d' \in 1 .. Depth(open_vec') + 1
             /\ open_pos' = OpeningStart(open_vec') + (open_d' - 1)
             /\ node' = FIRST_CHILD(PathNode(index, open_vec', open_d' - 1), FALSE)
  <2>1. v + 1 \in Vec /\ open_vec' = v + 1
    <3>1. v + 1 # BITS_PER_WITNESS /\ v < BITS_PER_WITNESS /\ open_vec' = v + 1
      BY <1>1, <1>4
    <3> QED
      BY <1>1, <3>1, TreeSizes DEF Vec
  <2> DEFINE u == v + 1
  <2>2. u \in Vec /\ u = open_vec'
    BY <2>1
  <2> HIDE DEF u
  <2>3. Depth(u) \in Nat /\ PathNode(index, u, 0) = u
    BY <1>1, <2>2, DepthRange, PathStart
  <2>4. open_d' \in 1 .. Depth(u) + 1 /\ open_d' - 1 = 0
    BY <1>1, <2>3
  <2>5. open_pos' = OpeningStart(u) + 0
    <3>1. OpeningStart(u) = open_pos + 2 /\ OpeningStart(u) \in Nat
      BY <1>1 DEF u
    <3> QED
      BY <1>1, <3>1
  <2>6. node' = FIRST_CHILD(u, FALSE)
    BY <1>1 DEF u
  <2> QED
    BY <2>2, <2>3, <2>4, <2>5, <2>6
<1> QED
  BY <1>1, <1>2, <1>3, <1>4

LEMMA OpenCallKeeps ==
  ASSUME OpenInv, commit_pc = "done", open_pc = "idle", NEW index, IsIndex(index),
         OpenCall([index |-> index, topZero |-> TRUE]), commit_pc' = commit_pc
  PROVE  OpenInv'
<1>1. /\ delta' = [index |-> index, topZero |-> TRUE] /\ node' = FIRST_CHILD(0, FALSE)
      /\ open_pc' = "open" /\ opening' = opening /\ open_vec' = open_vec /\ open_d' = open_d
      /\ open_pos' = open_pos
  BY DEF OpenCall
<1>2. /\ open_vec = 0 /\ open_d = 1 /\ open_pos = 0
      /\ opening = [s \in OpeningSlot |-> opening[s]]
      /\ \A s \in OpeningSlot : opening[s] = Uninit
  BY DEF OpenInv
<1>3. delta'.index = index
  BY <1>1
<1>4. Seeds(opening', index)
  BY <1>1, <1>2, SeedPlace DEF Seeds
<1>5. 0 \in Vec /\ Depth(0) \in Nat
  <2>1. 0 \in Vec
    BY TreeSizes DEF Vec
  <2> QED
    BY <2>1, DepthRange
<1>6. PathNode(index, 0, 0) = 0
  BY <1>5, PathStart
<1>7. OpeningStart(0) = 0
  BY TreeSizes DEF OpeningStart
<1>8. /\ open_vec' \in Vec /\ open_d' \in 1 .. Depth(open_vec') + 1
      /\ open_pos' = OpeningStart(open_vec') + (open_d' - 1)
      /\ node' = FIRST_CHILD(PathNode(index, open_vec', open_d' - 1), FALSE)
  <2>1. 1 - 1 = 0 /\ 1 \in 1 .. Depth(0) + 1 /\ 0 + 0 = 0
    BY <1>5
  <2>2. open_vec' = 0 /\ open_d' = 1 /\ open_pos' = 0 /\ open_d' - 1 = 0
    BY <1>1, <1>2
  <2>3. open_pos' = OpeningStart(open_vec') + (open_d' - 1)
    BY <1>7, <2>1, <2>2
  <2>4. node' = FIRST_CHILD(PathNode(index, open_vec', open_d' - 1), FALSE)
    BY <1>1, <1>6, <2>2, Zenon
  <2> QED
    BY <1>5, <2>1, <2>2, <2>3, <2>4
<1> QED
  BY <1>1, <1>2, <1>3, <1>4, <1>8 DEF OpenInv, Seeds
LEMMA OpenSteps ==
  ASSUME ForestInv, OpenInv, [Next]_vars
  PROVE  OpenInv'
<1>1. CASE SignerCommits
  <2>1. UNCHANGED openVars /\ commit_pc # "done"
    <3>1. UNCHANGED openVars /\ CommitStep
      BY <1>1 DEF SignerCommits
    <3>2. commit_pc # "done"
      BY <3>1 DEF CommitStep, CallRoots, CallRemaining, ExpandRoots, CallTree, CommitExpands,
         CommitReturn, S!ExpandStep, S!PickAncestor, S!Descend, S!EndChunk, ForestInv
    <3> QED
      BY <3>1, <3>2
  <2> QED
    BY <2>1 DEF OpenInv, openVars
<1>2. CASE SignerChallenged
  <2>1. PICK index \in Challenges : OpenCall([index |-> index, topZero |-> TRUE])
    BY <1>2 DEF SignerChallenged
  <2>2. IsIndex(index) /\ commit_pc = "done" /\ open_pc = "idle" /\ commit_pc' = commit_pc
    BY <1>2, ChallengeAssumption DEF SignerChallenged, commitVars
  <2> QED
    BY <2>1, <2>2, OpenCallKeeps
<1>3. CASE SignerOpens
  <2>1. OpenStep /\ commit_pc' = commit_pc
    BY <1>3 DEF SignerOpens, commitVars
  <2>2. CASE OpenLevel
    <3>1. commit_pc = "done" /\ IsIndex(delta.index)
      BY <2>2 DEF OpenLevel, OpenInv
    <3>2. /\ open_pc = "open" /\ open_pc' = "open" /\ delta' = delta
          /\ opening' = [s \in OpeningSlot |-> opening'[s]]
          /\ Seeds(opening', delta.index)
          /\ open_vec' \in Vec /\ open_d' \in 1 .. Depth(open_vec') + 1
          /\ open_pos' = OpeningStart(open_vec') + (open_d' - 1)
          /\ node' = FIRST_CHILD(PathNode(delta.index, open_vec', open_d' - 1), FALSE)
      BY <2>2, OpenLevelKeeps
    <3> QED
      BY <2>1, <3>1, <3>2 DEF OpenInv, Seeds
  <2>3. CASE OpenCommitment
    <3>1. commit_pc = "done" /\ IsIndex(delta.index)
      BY <2>3 DEF OpenCommitment, OpenInv
    <3>2. /\ open_pc = "open" /\ open_pc' = "open" /\ delta' = delta
          /\ opening' = [s \in OpeningSlot |-> opening'[s]]
          /\ Seeds(opening', delta.index)
          /\ open_vec' # BITS_PER_WITNESS =>
               /\ open_vec' \in Vec /\ open_d' \in 1 .. Depth(open_vec') + 1
               /\ open_pos' = OpeningStart(open_vec') + (open_d' - 1)
               /\ node' = FIRST_CHILD(PathNode(delta.index, open_vec', open_d' - 1), FALSE)
      BY <2>3, OpenCommitmentKeeps
    <3> QED
      BY <2>1, <3>1, <3>2 DEF OpenInv, Seeds
  <2>4. CASE OpenReturn
    BY <2>1, <2>4 DEF OpenReturn, OpenInv
  <2> QED
    BY <2>1, <2>2, <2>3, <2>4 DEF OpenStep
<1>4. CASE ~(SignerCommits \/ SignerChallenged \/ SignerOpens)
  <2>1. UNCHANGED openVars /\ UNCHANGED commitVars
    BY <1>4 DEF Next, vars, VerifierReceives, VerifierVerifies, Over
  <2> QED
    BY <2>1 DEF OpenInv, openVars, commitVars
<1> QED
  BY <1>1, <1>2, <1>3, <1>4

LEMMA OpenInvariant == Spec => []OpenInv
<1>1. Init => OpenInv
  <2> SUFFICES ASSUME OpenInit PROVE OpenInv
    BY DEF Init
  <2> QED
    BY DEF OpenInit, OpenInv
<1>2. ForestInv /\ OpenInv /\ [Next]_vars => OpenInv'
  BY OpenSteps
<1> QED
  BY <1>1, <1>2, ForestInvariant, PTL DEF Spec

(* No seed of the opening is one from which the hidden leaf of a vector      *)
(* derives, whatever the challenge (vector_com.c:361-386).                   *)
THEOREM HiddenPathsStayHidden == Spec => []HiddenStaysHidden
<1>1. ASSUME OpenInv PROVE HiddenStaysHidden
  <2> SUFFICES ASSUME open_pc # "idle", NEW v \in Vec, NEW d \in 0 .. Depth(v) - 1,
                      NEW u \in Vec, NEW e \in 0 .. Depth(u),
                      opening[OpeningStart(v) + d] =
                        FIRST_DESCENDENT_DEPTH(u, e, FALSE) + delta.index[u] \div Pow2[Depth(u) - e]
               PROVE  FALSE
    BY DEF HiddenStaysHidden
  <2>1. IsIndex(delta.index) /\ opening[OpeningStart(v) + d] \in {Uninit, Beside(delta.index, v, d + 1)}
    BY <1>1 DEF OpenInv
  <2>2. opening[OpeningStart(v) + d] = PathNode(delta.index, u, e)
    BY DEF PathNode, PathIndex, FD
  <2>3. PathNode(delta.index, u, e) \in Nat
    <3>1. PathIndex(delta.index, u, e) \in Nat /\ FD(u, e) \in Nat
      BY <2>1, Path, InForest
    <3> QED
      BY <3>1 DEF PathNode
  <2>4. Beside(delta.index, v, d + 1) # PathNode(delta.index, u, e)
    BY <2>1, BesideHidden
  <2>5. \A x \in Nat : x # Uninit
    BY DEF Uninit
  <2> HIDE DEF Uninit
  <2> DEFINE o == opening[OpeningStart(v) + d]
             a == PathNode(delta.index, u, e)
             b == Beside(delta.index, v, d + 1)
  <2>6. o \in {Uninit, b} /\ o = a /\ a \in Nat /\ b # a
    BY <2>1, <2>2, <2>3, <2>4
  <2> HIDE DEF o, a, b
  <2> QED
    BY <2>5, <2>6
<1> QED
  BY <1>1, OpenInvariant, PTL
---------------------------------------------------------------------------
(* The outputs, when a chunk of leaves is no wider than a chunk of nodes.     *)
Outputs(l, h, v, n) ==
  \A leaf \in Leaf(v) : leaf < n =>
    /\ l[FirstLeaf(v) + PermuteInv(leaf)] = LeafNode(v, leaf)
    /\ h[FirstLeaf(v) + leaf] = LeafNode(v, leaf)

(* The leaves of the trees that are expanded are in the outputs, and those of *)
(* the one in progress up to the chunk the walk is at.                       *)
OutputsInv ==
  /\ leaves = [s \in Slot |-> leaves[s]]
  /\ hashed_leaves = [s \in Slot |-> hashed_leaves[s]]
  /\ commit_pc = "roots" => base = 0
  /\ commit_pc # "roots" => base = FirstLeaf(commit_i)
  /\ commit_pc # "roots" =>
       \A v \in Vec : v < (IF frame.busy THEN commit_i - 1 ELSE commit_i) =>
         Outputs(leaves, hashed_leaves, v, Pow2[Depth(v)])
  /\ frame.busy =>
       /\ frame.base = FirstLeaf(commit_i - 1)
       /\ frame.start = TREE_CHUNK_SIZE * frame.chunk
       /\ frame.perm = PermuteInv(frame.start)
       /\ Outputs(leaves, hashed_leaves, commit_i - 1, frame.start)

(* Where the outputs of each vector are.                                     *)
LEMMA LeafParts ==
  ASSUME NEW v \in Nat, v <= BITS_PER_WITNESS
  PROVE  /\ FirstLeaf(v) \in Nat
         /\ v \in Vec => FirstLeaf(v + 1) = FirstLeaf(v) + Pow2[Depth(v)]
         /\ FirstLeaf(v) <= VECTOR_COMMIT_LEAVES /\ VECTOR_COMMIT_LEAVES \in Nat
         /\ \A u \in Nat : u <= v => FirstLeaf(u) <= FirstLeaf(v)
<1> DEFINE t == BITS_PER_WITNESS
           m == VOLES_MAX_K
           a == Pow2[VOLE_MAX_K]
           b == Pow2[VOLE_MIN_K]
<1>1. /\ t \in Nat /\ m \in Nat /\ m < t /\ a \in Nat /\ b \in Nat /\ a * m \in Nat
  <2>1. t \in Nat /\ m \in Nat /\ m < t /\ a \in Nat /\ b \in Nat
    BY TreeSizes, Pow2Values
  <2> HIDE DEF a, b, t, m
  <2> QED
    BY <2>1
<1>2. ASSUME NEW u \in Nat
      PROVE  /\ u < m => FirstLeaf(u) = a * u
             /\ m <= u => FirstLeaf(u) = a * m + b * (u - m) /\ u - m \in Nat
             /\ FirstLeaf(u) \in Nat
  <2>1. u * a = a * u /\ m * a = a * m /\ a * u \in Nat
    BY <1>1
  <2>2. m <= u => (u - m) * b = b * (u - m) /\ b * (u - m) \in Nat /\ u - m \in Nat
    BY <1>1
  <2>3. /\ u < m => FirstLeaf(u) = u * a
        /\ m <= u => FirstLeaf(u) = m * a + (u - m) * b
    BY <1>1 DEF FirstLeaf
  <2> HIDE DEF a, b, m
  <2> QED
    BY <1>1, <2>1, <2>2, <2>3
<1>3. ASSUME NEW u \in Nat, u <= v PROVE FirstLeaf(u) <= FirstLeaf(v)
  <2> HIDE DEF a, b
  <2>1. CASE v < m
    <3>1. a * u <= a * v
      BY <1>1, <1>3, MulMonotone
    <3>2. u < m
      BY <1>1, <1>3, <2>1
    <3> QED
      BY <1>2, <2>1, <3>1, <3>2
  <2>2. CASE ~(v < m) /\ u < m
    <3>1. a * u <= a * m /\ a * u \in Nat
      BY <1>1, <2>2, MulMonotone
    <3>2. b * (v - m) \in Nat /\ FirstLeaf(v) = a * m + b * (v - m) /\ FirstLeaf(u) = a * u
      <4>1. v - m \in Nat /\ m <= v
        BY <1>1, <2>2
      <4>2. b * (v - m) \in Nat
        BY <1>1, <4>1, MulMonotone
      <4> QED
        BY <1>2, <2>2, <4>1, <4>2
    <3> DEFINE x == b * (v - m)
               y == a * u
               z == a * m
    <3>3. x \in Nat /\ y \in Nat /\ z \in Nat /\ y <= z /\ FirstLeaf(v) = z + x /\ FirstLeaf(u) = y
      BY <1>1, <3>1, <3>2
    <3> HIDE DEF x, y, z
    <3> QED
      BY <3>3
  <2>3. CASE ~(u < m)
    <3>1. u - m \in Nat /\ v - m \in Nat /\ u - m <= v - m /\ m <= u /\ m <= v
      BY <1>1, <1>3, <2>3
    <3> DEFINE x == b * (v - m)
               y == b * (u - m)
               z == a * m
    <3>2. x \in Nat /\ y \in Nat /\ z \in Nat /\ y <= x
      BY <1>1, <3>1, MulMonotone
    <3>3. FirstLeaf(v) = z + x /\ FirstLeaf(u) = z + y
      BY <1>2, <3>1
    <3> HIDE DEF x, y, z
    <3> QED
      BY <3>2, <3>3
  <2> QED
    BY <2>1, <2>2, <2>3
<1>4. ASSUME v \in Vec PROVE FirstLeaf(v + 1) = FirstLeaf(v) + Pow2[Depth(v)]
  <2>1. v < m => Depth(v) = VOLE_MAX_K
    BY DEF Depth
  <2>2. ~(v < m) => Depth(v) = VOLE_MIN_K
    BY DEF Depth
  <2> HIDE DEF a, b
  <2>3. CASE v < m
    <3>1. a * (v + 1) = a * v + a
      BY <1>1
    <3>2. FirstLeaf(v + 1) = a * (v + 1)
      <4>1. CASE v + 1 < m
        BY <1>2, <4>1
      <4>2. CASE ~(v + 1 < m)
        <5>1. v + 1 = m /\ m - m = 0 /\ m <= m
          BY <1>1, <2>3, <4>2
        <5>2. b * 0 = 0
          BY <1>1
        <5>3. FirstLeaf(m) = a * m + 0
          BY <1>1, <1>2, <5>1, <5>2
        <5> QED
          BY <1>1, <5>1, <5>3
      <4> QED
        BY <4>1, <4>2
    <3> QED
      BY <1>2, <2>1, <2>3, <3>1, <3>2 DEF a
  <2>4. CASE ~(v < m)
    <3>1. m <= v /\ m <= v + 1 /\ v - m \in Nat /\ (v + 1) - m = (v - m) + 1
      BY <1>1, <2>4
    <3>2. b * ((v - m) + 1) = b * (v - m) + b /\ b * (v - m) \in Nat
      BY <1>1, <3>1
    <3>3. FirstLeaf(v) = a * m + b * (v - m)
      BY <1>2, <3>1
    <3>4. FirstLeaf(v + 1) = a * m + b * ((v + 1) - m)
      <4>1. v + 1 \in Nat
        OBVIOUS
      <4> QED
        BY <1>2, <3>1, <4>1
    <3> DEFINE x == b * (v - m)
               z == a * m
    <3>5. x \in Nat /\ z \in Nat /\ FirstLeaf(v) = z + x /\ FirstLeaf(v + 1) = z + (x + b)
      BY <1>1, <3>1, <3>2, <3>3, <3>4
    <3> HIDE DEF x, z
    <3>6. FirstLeaf(v + 1) = FirstLeaf(v) + b
      BY <1>1, <3>5
    <3> QED
      BY <2>2, <2>4, <3>6 DEF b
  <2> QED
    BY <2>3, <2>4
<1>5. FirstLeaf(t) = VECTOR_COMMIT_LEAVES
  <2>1. FirstLeaf(t) = m * a + (t - m) * b
    BY <1>1 DEF FirstLeaf
  <2>2. VECTOR_COMMIT_LEAVES = (t - m) * b + m * a
    BY DEF VECTOR_COMMIT_LEAVES, VOLES_MIN_K
  <2>3. (t - m) * b \in Nat /\ m * a \in Nat
    <3>1. t - m \in Nat
      BY <1>1
    <3> HIDE DEF a, b, t, m
    <3> QED
      BY <1>1, <3>1
  <2> HIDE DEF a, b
  <2> DEFINE x == (t - m) * b
             y == m * a
  <2>4. FirstLeaf(t) = y + x /\ VECTOR_COMMIT_LEAVES = x + y /\ x \in Nat /\ y \in Nat
    BY <2>1, <2>2, <2>3
  <2> HIDE DEF x, y
  <2> QED
    BY <2>4
<1>6. FirstLeaf(v) <= VECTOR_COMMIT_LEAVES /\ VECTOR_COMMIT_LEAVES \in Nat
  <2>1. FirstLeaf(v) <= FirstLeaf(t)
    <3>1. v < m \/ ~(v < m)
      OBVIOUS
    <3> DEFINE d == t - v
    <3>2. CASE v < m
      <4> DEFINE x == a * v
                 y == a * m
                 z == b * (t - m)
      <4>1. t - m \in Nat /\ m <= t
        BY <1>1
      <4>2. x \in Nat /\ y \in Nat /\ z \in Nat /\ x <= y
        <5> HIDE DEF a, b
        <5> QED
          BY <1>1, <3>2, <4>1, MulMonotone
      <4>3. FirstLeaf(v) = x /\ FirstLeaf(t) = y + z
        BY <1>1, <1>2, <3>2, <4>1
      <4> HIDE DEF x, y, z
      <4> QED
        BY <4>2, <4>3
    <3>3. CASE ~(v < m)
      <4> DEFINE x == b * (v - m)
                 y == a * m
                 z == b * (t - m)
      <4>1. t - m \in Nat /\ m <= t /\ v - m \in Nat /\ v - m <= t - m /\ m <= v
        BY <1>1, <3>3
      <4>2. x \in Nat /\ y \in Nat /\ z \in Nat /\ x <= z
        <5> HIDE DEF a, b
        <5> QED
          BY <1>1, <4>1, MulMonotone
      <4>3. FirstLeaf(v) = y + x /\ FirstLeaf(t) = y + z
        BY <1>1, <1>2, <4>1
      <4> HIDE DEF x, y, z
      <4> QED
        BY <4>2, <4>3
    <3> QED
      BY <3>2, <3>3
  <2> QED
    BY <1>1, <1>2, <1>5, <2>1
<1> QED
  BY <1>2, <1>3, <1>4, <1>6

(* Each leaf has a place of its own in either output.                        *)
LEMMA LeafPlaces ==
  ASSUME NEW u \in Vec, NEW i \in Leaf(u)
  PROVE  /\ FirstLeaf(u) + i \in Slot
         /\ \A v \in Vec : \A j \in Leaf(v) :
              FirstLeaf(u) + i = FirstLeaf(v) + j => u = v /\ i = j
<1> DEFINE total == VECTOR_COMMIT_LEAVES
<1>1. ASSUME NEW v \in Vec
      PROVE  /\ v \in Nat /\ Pow2[Depth(v)] \in Nat /\ Leaf(v) = 0 .. Pow2[Depth(v)] - 1
             /\ FirstLeaf(v) \in Nat /\ FirstLeaf(v) + Pow2[Depth(v)] <= total
             /\ total \in Nat
             /\ \A w \in Vec : v < w => FirstLeaf(v) + Pow2[Depth(v)] <= FirstLeaf(w)
  <2>1. /\ v \in Nat /\ v + 1 \in Nat /\ v + 1 <= BITS_PER_WITNESS /\ v <= BITS_PER_WITNESS
        /\ Depth(v) \in Nat
    BY DepthRange, TreeSizes
  <2>2. /\ FirstLeaf(v) \in Nat /\ FirstLeaf(v + 1) = FirstLeaf(v) + Pow2[Depth(v)]
        /\ total \in Nat
    BY <2>1, LeafParts
  <2>3. FirstLeaf(v + 1) <= total
    BY <2>1, LeafParts
  <2>4. ASSUME NEW w \in Vec, v < w PROVE FirstLeaf(v + 1) <= FirstLeaf(w)
    <3>1. w \in Nat /\ w <= BITS_PER_WITNESS /\ v + 1 <= w
      BY <2>1, <2>4, DepthRange, TreeSizes
    <3> QED
      BY <2>1, <3>1, LeafParts
  <2> QED
    BY <2>1, <2>2, <2>3, <2>4, Pow2Values DEF Leaf
<1>2. Slot = 0 .. total - 1
  BY DEF Slot
<1> HIDE DEF total
<1>3. FirstLeaf(u) + i \in Slot
  <2> DEFINE p == Pow2[Depth(u)]
             a == FirstLeaf(u)
  <2>1. p \in Nat /\ i \in 0 .. p - 1 /\ a \in Nat /\ a + p <= total /\ total \in Nat
    BY <1>1
  <2> HIDE DEF p, a
  <2>2. a + i \in 0 .. total - 1
    BY <2>1
  <2> QED
    BY <1>2, <2>2 DEF a
<1>4. ASSUME NEW v \in Vec, NEW j \in Leaf(v), FirstLeaf(u) + i = FirstLeaf(v) + j
      PROVE  u = v /\ i = j
  <2> DEFINE p == Pow2[Depth(u)]
             q == Pow2[Depth(v)]
             a == FirstLeaf(u)
             b == FirstLeaf(v)
  <2>1. /\ p \in Nat /\ q \in Nat /\ a \in Nat /\ b \in Nat /\ u \in Nat /\ v \in Nat
        /\ i \in 0 .. p - 1 /\ j \in 0 .. q - 1
        /\ u < v => a + p <= b
        /\ v < u => b + q <= a
        /\ u = v => a = b
        /\ a + i = b + j
    BY <1>1, <1>4
  <2> HIDE DEF p, q, a, b
  <2>2. ~(u < v) /\ ~(v < u)
    BY <2>1
  <2> QED
    BY <2>1, <2>2
<1> QED
  BY <1>3, <1>4
(* What write_leaves does leaf after leaf.                                   *)
WriteOne(was, block, at, start, o) ==
  [leaves |-> [was.leaves EXCEPT ![at + was.perm] = S!LeafPrg(block)],
   hashed |-> [was.hashed EXCEPT ![at + start + o - 1] = S!LeafPrg(block)],
   perm   |-> XorIndex(was.perm, PermuteIncrement(start + o - 1))]

IsWrite(g, n, l, h, blocks, start, perm, at) ==
  g = [o \in 0 .. n |->
         IF o = 0 THEN [leaves |-> l, hashed |-> h, perm |-> perm]
         ELSE WriteOne(g[o - 1], blocks[o - 1], at, start, o)]

LEMMA WriteExists ==
  ASSUME NEW n \in Nat, NEW l, NEW h, NEW blocks, NEW start, NEW perm, NEW at
  PROVE  \E g : IsWrite(g, n, l, h, blocks, start, perm, at)
<1> DEFINE A == {j \in Nat : \E g : IsWrite(g, j, l, h, blocks, start, perm, at)}
           first == [leaves |-> l, hashed |-> h, perm |-> perm]
<1>1. 0 \in A
  <2>1. IsWrite([k \in 0 .. 0 |-> first], 0, l, h, blocks, start, perm, at)
    BY DEF IsWrite
  <2> QED
    BY <2>1
<1>2. ASSUME NEW j \in A PROVE j + 1 \in A
  <2>1. PICK g : IsWrite(g, j, l, h, blocks, start, perm, at)
    OBVIOUS
  <2> DEFINE W(f, k) == WriteOne(f, blocks[k - 1], at, start, k)
             w == W(g[j], j + 1)
             f == [k \in 0 .. j + 1 |-> IF k = j + 1 THEN w ELSE g[k]]
  <2>2. j \in Nat /\ j + 1 \in Nat
    OBVIOUS
  <2>3. ASSUME NEW k \in 0 .. j PROVE g[k] = IF k = 0 THEN first ELSE W(g[k - 1], k)
    BY <2>1 DEF IsWrite
  <2> HIDE DEF W, first
  <2>4. ASSUME NEW k \in 0 .. j + 1 PROVE f[k] = IF k = 0 THEN first ELSE W(f[k - 1], k)
    <3>1. CASE k = j + 1
      <4>1. f[k] = w /\ k # 0 /\ k - 1 = j /\ j \in 0 .. j + 1 /\ j # j + 1
        BY <2>2, <3>1
      <4>2. f[k - 1] = g[j]
        BY <4>1
      <4> HIDE DEF f
      <4> QED
        BY <3>1, <4>1, <4>2
    <3>2. CASE k # j + 1
      <4>1. k \in 0 .. j /\ f[k] = g[k]
        BY <2>2, <3>2
      <4>2. k # 0 => k - 1 \in 0 .. j + 1 /\ k - 1 # j + 1 /\ f[k - 1] = g[k - 1]
        BY <2>2, <4>1
      <4> HIDE DEF f
      <4> QED
        BY <2>3, <4>1, <4>2
    <3> QED
      BY <3>1, <3>2
  <2>5. f = [k \in 0 .. j + 1 |-> f[k]]
    OBVIOUS
  <2> HIDE DEF f
  <2>6. f = [k \in 0 .. j + 1 |-> IF k = 0 THEN first ELSE W(f[k - 1], k)]
    BY <2>4, <2>5
  <2>7. IsWrite(f, j + 1, l, h, blocks, start, perm, at)
    BY <2>6, Zenon DEF IsWrite, W, first
  <2> QED
    BY <2>2, <2>7
<1> HIDE DEF A
<1>3. A \in SUBSET Nat
  BY DEF A
<1>4. n \in A
  BY <1>1, <1>2, <1>3, UpTo
<1> QED
  BY <1>4 DEF A

LEMMA WriteValue ==
  ASSUME NEW blocks, NEW start, NEW perm, NEW at
  PROVE  \E g : /\ IsWrite(g, MAX_CHUNK_SIZE, leaves, hashed_leaves, blocks, start, perm, at)
                /\ S!WriteLeaves(blocks, start, perm, at) = g[MAX_CHUNK_SIZE]
<1> DEFINE n == S!MAX_CHUNK_SIZE
           G == CHOOSE g : IsWrite(g, n, leaves, hashed_leaves, blocks, start, perm, at)
<1>1. n = MAX_CHUNK_SIZE /\ n \in Nat
  BY SameLayout, TreeSizes
<1>2. IsWrite(G, n, leaves, hashed_leaves, blocks, start, perm, at)
  BY <1>1, WriteExists
<1>3. S!WriteLeaves(blocks, start, perm, at) = G[n]
  BY DEF S!WriteLeaves, S!NextPermuted, IsWrite, WriteOne
<1> HIDE DEF G, n
<1> QED
  BY <1>1, <1>2, <1>3

(* A leaf is written to its places, and no other leaf of any vector is.      *)
Written(r, v, x) ==
  /\ r.leaves = [s \in Slot |-> r.leaves[s]]
  /\ r.hashed = [s \in Slot |-> r.hashed[s]]
  /\ x \in Leaf(v) => r.perm = PermuteInv(x)
  /\ Outputs(r.leaves, r.hashed, v, x)

OthersKept(l, h, r, v) ==
  \A u \in Vec : u # v => \A leaf \in Leaf(u) :
    /\ r.leaves[FirstLeaf(u) + PermuteInv(leaf)] = l[FirstLeaf(u) + PermuteInv(leaf)]
    /\ r.hashed[FirstLeaf(u) + leaf] = h[FirstLeaf(u) + leaf]

LEMMA LeafBlock ==
  ASSUME NEW v \in Vec, NEW x \in Leaf(v)
  PROVE  /\ x \in Nat /\ LeafNode(v, x) \in Nat /\ S!LeafPrg(LeafNode(v, x)) = LeafNode(v, x)
         /\ PermuteInv(x) \in Leaf(v)
         /\ \A y \in Leaf(v) : PermuteInv(x) = PermuteInv(y) => x = y
<1>1. x \in Nat
  <2>1. Pow2[Depth(v)] \in Nat
    BY DepthRange, Pow2Values
  <2> QED
    BY <2>1 DEF Leaf
<1>2. LeafNode(v, x) \in Nat
  <2>1. FD(v, Depth(v)) \in Nat
    BY DepthRange, FirstNat
  <2> DEFINE a == FD(v, Depth(v))
  <2>2. LeafNode(v, x) = a + x /\ a \in Nat
    BY <2>1, Zenon DEF LeafNode, FD
  <2> HIDE DEF a
  <2> QED
    BY <1>1, <2>2
<1>3. S!LeafPrg(LeafNode(v, x)) = LeafNode(v, x)
  <2>1. \A y \in Nat : LeafPrg(y) = y
    BY DEF LeafPrg, Zero
  <2> QED
    BY <1>2, <2>1, SameLayout
<1> QED
  BY <1>1, <1>2, <1>3, PermutationAssumption

LEMMA PermutedNext ==
  ASSUME NEW v \in Vec, NEW x \in Leaf(v), x + 1 \in Leaf(v)
  PROVE  XorIndex(PermuteInv(x), PermuteIncrement(x)) = PermuteInv(x + 1)
<1>1. 0 \in Leaf(v)
  <2>1. Pow2[Depth(v)] \in Nat \ {0}
    BY DepthRange, Pow2Values
  <2> QED
    BY <2>1 DEF Leaf
<1>2. XorIndex(x, 0) = x /\ XorIndex(x + 1, 0) = x + 1
  BY <1>1, XorLeaf
<1>3. XorIndex(PermuteInv(XorIndex(x, 0)), PermuteIncrement(x)) = PermuteInv(XorIndex(x + 1, 0))
  BY <1>1, PermutationAssumption
<1> QED
  BY <1>2, <1>3, Zenon

LEMMA WriteStep ==
  ASSUME NEW v \in Vec, NEW x \in Leaf(v), NEW r, NEW l, NEW h, NEW start \in Nat, NEW o \in Nat,
         start + o - 1 = x, Written(r, v, x), OthersKept(l, h, r, v)
  PROVE  /\ Written(WriteOne(r, LeafNode(v, x), FirstLeaf(v), start, o), v, x + 1)
         /\ OthersKept(l, h, WriteOne(r, LeafNode(v, x), FirstLeaf(v), start, o), v)
<1> DEFINE b == LeafNode(v, x)
           a == FirstLeaf(v) + PermuteInv(x)
           c == FirstLeaf(v) + x
           w == WriteOne(r, b, FirstLeaf(v), start, o)
<1>1. /\ x \in Nat /\ S!LeafPrg(b) = b /\ PermuteInv(x) \in Leaf(v)
      /\ \A y \in Leaf(v) : PermuteInv(x) = PermuteInv(y) => x = y
  BY LeafBlock
<1>2. FirstLeaf(v) + start + o - 1 = c
  <2>1. v \in Nat /\ v <= BITS_PER_WITNESS
    BY DepthRange, TreeSizes
  <2>2. FirstLeaf(v) \in Nat
    BY <2>1, LeafParts
  <2> QED
    BY <2>2
<1>3. r.perm = PermuteInv(x)
  BY DEF Written
<1>4. w = [leaves |-> [r.leaves EXCEPT ![a] = b], hashed |-> [r.hashed EXCEPT ![c] = b],
           perm |-> XorIndex(PermuteInv(x), PermuteIncrement(x))]
  BY <1>1, <1>2, <1>3, Zenon DEF WriteOne
<1>5. /\ w.leaves = [r.leaves EXCEPT ![a] = b]
      /\ w.hashed = [r.hashed EXCEPT ![c] = b]
      /\ w.perm = XorIndex(PermuteInv(x), PermuteIncrement(x))
  BY <1>4
<1> HIDE DEF w, a, b, c
<1>6. x + 1 \in Leaf(v) => w.perm = PermuteInv(x + 1)
  BY <1>5, PermutedNext
<1>7. /\ w.leaves = [s \in Slot |-> w.leaves[s]]
      /\ w.hashed = [s \in Slot |-> w.hashed[s]]
      /\ \A s \in Slot : w.leaves[s] = (IF s = a THEN b ELSE r.leaves[s])
      /\ \A s \in Slot : w.hashed[s] = (IF s = c THEN b ELSE r.hashed[s])
  BY <1>5 DEF Written
<1>8. ASSUME NEW u \in Vec, NEW y \in Leaf(u)
      PROVE  /\ FirstLeaf(u) + PermuteInv(y) \in Slot /\ FirstLeaf(u) + y \in Slot
             /\ FirstLeaf(u) + PermuteInv(y) = a => u = v /\ y = x
             /\ FirstLeaf(u) + y = c => u = v /\ y = x
  <2>1. PermuteInv(y) \in Leaf(u)
    BY LeafBlock
  <2>2. /\ FirstLeaf(u) + PermuteInv(y) \in Slot
        /\ FirstLeaf(u) + PermuteInv(y) = a => u = v /\ PermuteInv(y) = PermuteInv(x)
    BY <1>1, <2>1, LeafPlaces DEF a
  <2>3. FirstLeaf(u) + y \in Slot /\ (FirstLeaf(u) + y = c => u = v /\ y = x)
    BY LeafPlaces DEF c
  <2> QED
    BY <1>1, <2>2, <2>3
<1>9. ASSUME NEW y \in Leaf(v), y < x + 1
      PROVE  /\ w.leaves[FirstLeaf(v) + PermuteInv(y)] = LeafNode(v, y)
             /\ w.hashed[FirstLeaf(v) + y] = LeafNode(v, y)
  <2>1. CASE y = x
    BY <1>7, <1>8, <2>1 DEF a, b, c
  <2>2. CASE y # x
    <3>1. y < x
      <4>1. y \in Nat
        BY LeafBlock
      <4> QED
        BY <1>1, <1>9, <2>2, <4>1
    <3>2. /\ r.leaves[FirstLeaf(v) + PermuteInv(y)] = LeafNode(v, y)
          /\ r.hashed[FirstLeaf(v) + y] = LeafNode(v, y)
      BY <3>1 DEF Written, Outputs
    <3> QED
      BY <1>7, <1>8, <2>2, <3>2
  <2> QED
    BY <2>1, <2>2
<1>10. Written(w, v, x + 1)
  BY <1>6, <1>7, <1>9 DEF Written, Outputs
<1>11. OthersKept(l, h, w, v)
  <2> SUFFICES ASSUME NEW u \in Vec, u # v, NEW y \in Leaf(u)
               PROVE  /\ w.leaves[FirstLeaf(u) + PermuteInv(y)] = l[FirstLeaf(u) + PermuteInv(y)]
                      /\ w.hashed[FirstLeaf(u) + y] = h[FirstLeaf(u) + y]
    BY DEF OthersKept
  <2>1. /\ r.leaves[FirstLeaf(u) + PermuteInv(y)] = l[FirstLeaf(u) + PermuteInv(y)]
        /\ r.hashed[FirstLeaf(u) + y] = h[FirstLeaf(u) + y]
    BY DEF OthersKept
  <2> QED
    BY <1>7, <1>8, <2>1
<1> QED
  BY <1>10, <1>11 DEF w, b

LEMMA WriteAll ==
  ASSUME NEW v \in Vec, NEW n \in Nat, NEW start \in Nat, start + n <= Pow2[Depth(v)],
         NEW l, NEW h, NEW blocks, NEW g,
         IsWrite(g, n, l, h, blocks, start, PermuteInv(start), FirstLeaf(v)),
         \A o \in 0 .. n - 1 : blocks[o] = LeafNode(v, start + o),
         l = [s \in Slot |-> l[s]], h = [s \in Slot |-> h[s]], Outputs(l, h, v, start)
  PROVE  Written(g[n], v, start + n) /\ OthersKept(l, h, g[n], v)
<1> DEFINE OK(k) == Written(g[k], v, start + k) /\ OthersKept(l, h, g[k], v)
           A == {k \in Nat : OK(k)}
           first == [leaves |-> l, hashed |-> h, perm |-> PermuteInv(start)]
           W(k) == WriteOne(g[k - 1], blocks[k - 1], FirstLeaf(v), start, k)
<1>1. ASSUME NEW k \in 0 .. n PROVE g[k] = IF k = 0 THEN first ELSE W(k)
  <2> HIDE DEF first, W
  <2>1. g = [j \in 0 .. n |-> IF j = 0 THEN first ELSE W(j)]
    BY Zenon DEF IsWrite, first, W
  <2> QED
    BY <2>1
<1>2. 0 \in A
  <2>1. g[0] = first /\ 0 \in Nat /\ start + 0 = start
    BY <1>1
  <2>2. first.leaves = l /\ first.hashed = h /\ first.perm = PermuteInv(start)
    OBVIOUS
  <2> HIDE DEF first
  <2>3. Written(first, v, start) /\ OthersKept(l, h, first, v)
    BY <2>2 DEF Written, OthersKept
  <2>4. OK(0)
    BY <2>1, <2>3, Zenon
  <2> HIDE DEF OK
  <2> QED
    BY <2>4
<1>3. ASSUME NEW k \in A, k < n PROVE k + 1 \in A
  <2> DEFINE x == start + k
             j == k + 1
  <2>1. k \in Nat /\ Written(g[k], v, x) /\ OthersKept(l, h, g[k], v)
    OBVIOUS
  <2>2. j \in Nat /\ j \in 0 .. n /\ j # 0 /\ j - 1 = k /\ k \in 0 .. n - 1 /\ start + j - 1 = x
        /\ start + j = x + 1
    BY <1>3, <2>1
  <2>3. x \in Leaf(v)
    <3> DEFINE p == Pow2[Depth(v)]
    <3>1. p \in Nat /\ start + n <= p
      BY DepthRange, Pow2Values
    <3> HIDE DEF p
    <3>2. x \in 0 .. p - 1
      BY <1>3, <2>1, <3>1
    <3> QED
      BY <3>2 DEF Leaf, p
  <2>4. g[j] = WriteOne(g[k], LeafNode(v, x), FirstLeaf(v), start, j)
    <3>1. g[j] = W(j) /\ blocks[k] = LeafNode(v, x)
      BY <1>1, <2>2
    <3> HIDE DEF j, x
    <3> QED
      BY <2>2, <3>1, Zenon
  <2> HIDE DEF x, j
  <2>5. Written(g[j], v, x + 1) /\ OthersKept(l, h, g[j], v)
    <3> DEFINE f == g[k]
               w == WriteOne(f, LeafNode(v, x), FirstLeaf(v), start, j)
    <3>1. Written(f, v, x) /\ OthersKept(l, h, f, v)
      BY <2>1
    <3> HIDE DEF f
    <3>2. Written(w, v, x + 1) /\ OthersKept(l, h, w, v)
      BY <2>2, <2>3, <3>1, WriteStep
    <3> QED
      BY <2>4, <3>2, Zenon DEF f
  <2>6. OK(j)
    BY <2>2, <2>5, Zenon
  <2> HIDE DEF OK
  <2> QED
    BY <2>2, <2>6 DEF j
<1> HIDE DEF A
<1>4. A \in SUBSET Nat
  BY DEF A
<1>5. n \in A
  BY <1>2, <1>3, <1>4, UpTo
<1> QED
  BY <1>5 DEF A

(* With chunks of leaves no wider than those of nodes, each chunk that the   *)
(* walk comes to is one of leaves.                                           *)
LEMMA ChunkSizes ==
  ASSUME LEAF_CHUNK_SIZE_SHIFT <= TREE_CHUNK_SIZE_SHIFT
  PROVE  MAX_CHUNK_SIZE = TREE_CHUNK_SIZE /\ S!Ratio = 1
<1>1. LEAF_CHUNK_SIZE <= TREE_CHUNK_SIZE
  <2>1. LEAF_CHUNK_SIZE_SHIFT \in Nat /\ TREE_CHUNK_SIZE_SHIFT \in Nat
    BY TreeAssumption
  <2>2. Pow2[LEAF_CHUNK_SIZE_SHIFT] <= Pow2[TREE_CHUNK_SIZE_SHIFT]
    BY <2>1, Pow2Monotone
  <2> QED
    BY <2>2 DEF LEAF_CHUNK_SIZE, TREE_CHUNK_SIZE
<1>2. LEAF_CHUNK_SIZE \in Nat /\ TREE_CHUNK_SIZE \in Nat \ {0}
  BY TreeSizes
<1>3. MAX_CHUNK_SIZE = TREE_CHUNK_SIZE
  BY <1>1, <1>2 DEF MAX_CHUNK_SIZE
<1>4. \A a \in Nat \ {0} : a \div a = 1
  <2> SUFFICES ASSUME NEW a \in Nat \ {0} PROVE a \div a = 1
    OBVIOUS
  <2> DEFINE q == a \div a
  <2>1. q \in Nat /\ a = a * q + (a % a) /\ a % a = 0
    OBVIOUS
  <2> HIDE DEF q
  <2>2. a * q = a
    BY <2>1
  <2>3. q = 1
    BY <2>1, <2>2
  <2> QED
    BY <2>3 DEF q
<1> QED
  BY <1>2, <1>3, <1>4, SameLayout DEF S!Ratio

LEMMA EndOutputs ==
  ASSUME LEAF_CHUNK_SIZE_SHIFT <= TREE_CHUNK_SIZE_SHIFT,
         ForestInv, OutputsInv, S!EndChunk, frame.busy, NEW v \in Vec, v = commit_i - 1
  PROVE  /\ leaves' = [s \in Slot |-> leaves'[s]] /\ hashed_leaves' = [s \in Slot |-> hashed_leaves'[s]]
         /\ OthersKept(leaves, hashed_leaves, [leaves |-> leaves', hashed |-> hashed_leaves'], v)
         /\ frame'.busy =>
              /\ frame'.base = frame.base
              /\ frame'.start = TREE_CHUNK_SIZE * frame'.chunk
              /\ frame'.perm = PermuteInv(frame'.start)
              /\ Outputs(leaves', hashed_leaves', v, frame'.start)
         /\ ~frame'.busy => Outputs(leaves', hashed_leaves', v, Pow2[Depth(v)])
<1> DEFINE n   == WalkHeight(v)
           c   == frame.chunk
           w   == TREE_CHUNK_SIZE
           p   == Pow2[n]
           z   == Pow2[Depth(v)]
           a   == FD(v, Depth(v))
           at  == S!WriteLeaves([o \in 0 .. w - 1 |-> forest[frame.ancestor + o]],
                                frame.start, frame.perm, frame.base)
<1>1. /\ IsForest(forest) /\ IsFrame(frame) /\ WalkInv(forest, frame, v)
      /\ frame.base = FirstLeaf(v) /\ frame.start = w * c /\ frame.perm = PermuteInv(frame.start)
      /\ Outputs(leaves, hashed_leaves, v, frame.start)
      /\ leaves = [s \in Slot |-> leaves[s]]
      /\ hashed_leaves = [s \in Slot |-> hashed_leaves[s]]
  BY DEF ForestInv, OutputsInv
<1>2. /\ n \in Nat /\ TREE_CHUNK_SIZE_SHIFT + n = Depth(v) /\ w \in Nat \ {0} /\ p \in Nat
      /\ TREE_CHUNK_SIZE_SHIFT \in Nat /\ z = w * p /\ z \in Nat /\ a \in Nat
  <2>1. n \in Nat /\ TREE_CHUNK_SIZE_SHIFT + n = Depth(v) /\ TREE_CHUNK_SIZE_SHIFT \in Nat
        /\ v \in Nat
    BY WalkSizes
  <2>2. Pow2[TREE_CHUNK_SIZE_SHIFT + n] = Pow2[TREE_CHUNK_SIZE_SHIFT] * Pow2[n]
    <3> HIDE DEF n
    <3> QED
      BY <2>1, Pow2Sum
  <2>3. Pow2[n] \in Nat /\ Pow2[Depth(v)] \in Nat /\ FD(v, Depth(v)) \in Nat
    BY <2>1, DepthRange, Pow2Values, FirstNat
  <2> QED
    BY <2>1, <2>2, <2>3, TreeSizes
<1>3. MAX_CHUNK_SIZE = w /\ S!Ratio = 1 /\ S!MAX_CHUNK_SIZE = w /\ S!TREE_CHUNK_SIZE = w
  BY ChunkSizes, SameLayout
<1>4. /\ frame.height = n /\ frame.d = 0
      /\ frame.i \in 0 .. p /\ c \in 0 .. frame.i /\ frame.i <= c + 1 /\ c < p
      /\ ~(frame.i < c + 1 /\ frame.i < p)
  <2>1. frame.d = 0 /\ ~(frame.i < frame.chunk + S!Ratio /\ frame.i < S!Pow2[frame.height])
    BY DEF S!EndChunk, S!MorePaths
  <2>2. /\ frame.height = n /\ frame.i \in 0 .. p /\ c \in 0 .. frame.i
        /\ frame.i <= c + S!Ratio /\ c < p
    BY <1>1 DEF WalkInv
  <2>3. S!Pow2[frame.height] = p
    BY <2>2, SamePow2, Zenon
  <2> HIDE DEF n, p, c
  <2> QED
    BY <1>3, <2>1, <2>2, <2>3 DEF c
<1>5. c \in Nat /\ frame.i = c + 1 /\ frame.i - 1 = c /\ frame.i > 0 /\ c + 1 <= p
  <2> HIDE DEF c, p
  <2> QED
    BY <1>2, <1>4
<1>6. frame.ancestor = a + w * c /\ Known(forest, frame.ancestor .. frame.ancestor + w - 1)
  <2>1. PICK q \in 0 .. Pow2[n - 0] - 1 :
          /\ c = q * Pow2[0]
          /\ frame.ancestor = ChunkAt(v, n - 0, q)
          /\ Known(forest, frame.ancestor .. frame.ancestor + w - 1)
    BY <1>1, <1>4, <1>5 DEF WalkInv
  <2>2. n - 0 = n /\ Pow2[0] = 1 /\ q \in Nat
    <3>1. n - 0 = n /\ Pow2[0] = 1
      BY <1>2, Pow2Values
    <3>2. Pow2[n - 0] \in Nat
      BY <1>2, <3>1
    <3> QED
      BY <3>1, <3>2
  <2>3. q = c
    BY <2>1, <2>2
  <2>4. ChunkAt(v, n, c) = a + w * c
    BY <1>2, Zenon DEF ChunkAt
  <2> QED
    BY <2>1, <2>2, <2>3, <2>4, Zenon
<1> DEFINE s == w * c
           blocks == [o \in 0 .. w - 1 |-> forest[frame.ancestor + o]]
<1>7. /\ s \in Nat /\ s + w = w * (c + 1) /\ s + w <= z
      /\ c + 1 < p => s + w < z
  <2>1. w * (c + 1) = s + w /\ s \in Nat
    BY <1>2, <1>5
  <2>2. w * (c + 1) <= w * p
    BY <1>2, <1>5, MulMonotone
  <2>3. c + 1 < p => w * (c + 1) + w <= w * p
    BY <1>2, <1>5, MulMonotone
  <2> HIDE DEF s, z, p
  <2> DEFINE y == w * (c + 1)
  <2>4. y = s + w /\ s \in Nat /\ w \in Nat \ {0} /\ y <= z /\ (c + 1 < p => y + w <= z) /\ z \in Nat
    BY <1>2, <2>1, <2>2, <2>3
  <2> HIDE DEF y
  <2>5. s + w <= z /\ (c + 1 < p => s + w < z)
    BY <2>4
  <2> QED
    BY <2>1, <2>5
<1>13. /\ a \in Nat /\ s \in Nat /\ w \in Nat \ {0} /\ s + w <= Pow2[Depth(v)]
       /\ frame.ancestor = a + s
  BY <1>2, <1>6, <1>7, Zenon
<1>8. ASSUME NEW o \in 0 .. w - 1 PROVE blocks[o] = LeafNode(v, s + o)
  <2> HIDE DEF a, s, w
  <2>1. blocks[o] = forest[frame.ancestor + o]
    BY <1>8
  <2>2. frame.ancestor + o \in frame.ancestor .. frame.ancestor + w - 1 /\ frame.ancestor = a + s
    <3>1. frame.ancestor \in Nat
      BY <1>13
    <3> QED
      BY <1>13, <3>1
  <2>3. forest[frame.ancestor + o] = frame.ancestor + o
    BY <1>6, <2>2 DEF Known
  <2>4. frame.ancestor + o = a + (s + o)
    <3>1. a \in Nat /\ s \in Nat /\ o \in Nat
      <4>1. w \in Nat /\ o \in 0 .. w - 1
        BY <1>2
      <4> QED
        BY <1>13, <4>1
    <3> QED
      BY <2>2, <3>1
  <2>5. LeafNode(v, s + o) = a + (s + o)
    BY Zenon DEF LeafNode, a, FD
  <2> QED
    BY <2>1, <2>3, <2>4, <2>5
<1>9. PICK g : /\ IsWrite(g, w, leaves, hashed_leaves, blocks, s, PermuteInv(s), FirstLeaf(v))
               /\ S!WriteLeaves(blocks, s, PermuteInv(s), FirstLeaf(v)) = g[w]
  <2> HIDE DEF blocks, s
  <2> QED
    BY <1>3, WriteValue
<1>10. Written(g[w], v, s + w) /\ OthersKept(leaves, hashed_leaves, g[w], v)
  <2> HIDE DEF blocks, s
  <2>1. Outputs(leaves, hashed_leaves, v, s)
    BY <1>1 DEF s
  <2> QED
    <3>1. w \in Nat /\ s \in Nat /\ s + w <= Pow2[Depth(v)]
      BY <1>13
    <3>2. \A o \in 0 .. w - 1 : blocks[o] = LeafNode(v, s + o)
      BY <1>8
    <3>3. leaves = [x \in Slot |-> leaves[x]] /\ hashed_leaves = [x \in Slot |-> hashed_leaves[x]]
      BY <1>1
    <3> HIDE DEF w
    <3> QED
      BY <1>9, <2>1, <3>1, <3>2, <3>3, WriteAll
<1> HIDE DEF blocks
<1> DEFINE out == g[w]
<1>11. /\ leaves' = out.leaves /\ hashed_leaves' = out.hashed
       /\ frame' = [frame EXCEPT !.perm = out.perm, !.chunk = c + 1, !.i = c + 1,
                                 !.start = frame.start + w, !.busy = c + 1 < p]
  <2> DEFINE first == frame.ancestor + S!TREE_CHUNK_SIZE - S!MAX_CHUNK_SIZE
             got   == [o \in 0 .. S!MAX_CHUNK_SIZE - 1 |-> forest[first + o]]
             wrote == S!WriteLeaves(got, frame.start, frame.perm, frame.base)
             full  == c + S!Ratio <= S!Pow2[frame.height]
  <2>1. /\ leaves' = IF full THEN wrote.leaves ELSE leaves
        /\ hashed_leaves' = IF full THEN wrote.hashed ELSE hashed_leaves
        /\ frame' = [frame EXCEPT !.perm = IF full THEN wrote.perm ELSE frame.perm,
                                  !.chunk = c + S!Ratio, !.i = c + S!Ratio,
                                  !.start = frame.start + S!TREE_CHUNK_SIZE,
                                  !.busy = c + S!Ratio < S!Pow2[frame.height]]
    BY DEF S!EndChunk
  <2>2. first = frame.ancestor
    <3>1. frame.ancestor \in Nat
      <4> DEFINE y == w * c
      <4>1. y \in Nat /\ a \in Nat /\ frame.ancestor = a + y
        BY <1>2, <1>5, <1>6
      <4> HIDE DEF a, y
      <4> QED
        BY <4>1
    <3>2. \A x \in Nat, y \in Nat : x + y - y = x
      OBVIOUS
    <3> QED
      BY <1>2, <1>3, <3>1, <3>2
  <2>3. got = blocks
    <3> HIDE DEF first
    <3> QED
      BY <1>3, <2>2, Zenon DEF blocks
  <2>4. wrote = out
    <3> HIDE DEF got
    <3>1. frame.start = s /\ frame.perm = PermuteInv(s) /\ frame.base = FirstLeaf(v)
      BY <1>1
    <3> HIDE DEF s
    <3> QED
      BY <1>9, <2>3, <3>1, Zenon
  <2>5. S!Pow2[frame.height] = p /\ c + S!Ratio = c + 1
    BY <1>3, <1>4, SamePow2, Zenon
  <2> HIDE DEF wrote
  <2>6. full
    BY <1>5, <2>5, Zenon
  <2> HIDE DEF full, out
  <2>7. leaves' = out.leaves /\ hashed_leaves' = out.hashed
    BY <2>1, <2>4, <2>6
  <2>8. (IF full THEN wrote.perm ELSE frame.perm) = out.perm
    BY <2>4, <2>6
  <2> QED
    BY <1>3, <2>1, <2>5, <2>7, <2>8, Zenon
<1>12. /\ frame'.busy = (c + 1 < p) /\ frame'.base = frame.base /\ frame'.chunk = c + 1
       /\ frame'.start = s + w /\ frame'.perm = out.perm
  <2> DEFINE j == c + 1
             more == j < p
             next == s + w
             fr == frame'
  <2>1. fr = [frame EXCEPT !.perm = out.perm, !.chunk = j, !.i = j, !.start = next, !.busy = more]
    BY <1>1, <1>11, Zenon
  <2> HIDE DEF j, more, next, fr, out
  <2>2. PICK r : r = fr
    OBVIOUS
  <2>3. r = [frame EXCEPT !.perm = out.perm, !.chunk = j, !.i = j, !.start = next, !.busy = more]
    BY <2>1, <2>2, Zenon
  <2>4. r = [busy |-> more, height |-> frame.height, root |-> frame.root,
             base |-> frame.base, chunk |-> j, i |-> j, ancestor |-> frame.ancestor, d |-> frame.d,
             start |-> next, perm |-> out.perm]
    BY <1>1, <2>3 DEF IsFrame
  <2>5. r.busy = more /\ r.base = frame.base /\ r.chunk = j /\ r.start = next /\ r.perm = out.perm
    BY <2>4
  <2> QED
    BY <2>2, <2>5, Zenon DEF j, more, next, fr
<1> HIDE DEF out
<1>14. /\ leaves' = [x \in Slot |-> leaves'[x]] /\ hashed_leaves' = [x \in Slot |-> hashed_leaves'[x]]
       /\ s + w \in Leaf(v) => out.perm = PermuteInv(s + w)
       /\ Outputs(leaves', hashed_leaves', v, s + w)
  <2>1. Written(out, v, s + w)
    BY <1>10, Zenon DEF out
  <2> HIDE DEF s, w
  <2> QED
    BY <1>11, <2>1, Zenon DEF Written
<1>15. OthersKept(leaves, hashed_leaves, [leaves |-> leaves', hashed |-> hashed_leaves'], v)
  <2>1. OthersKept(leaves, hashed_leaves, out, v)
    BY <1>10, Zenon DEF out
  <2> QED
    BY <1>11, <2>1 DEF OthersKept
<1>16. ASSUME frame'.busy
       PROVE  /\ frame'.start = w * frame'.chunk
              /\ frame'.perm = PermuteInv(frame'.start)
  <2>1. c + 1 < p /\ s + w < z
    BY <1>7, <1>12, <1>16, Zenon
  <2> DEFINE x == s + w
  <2>2. x \in Nat /\ x < z /\ z \in Nat
    <3>1. w \in Nat
      BY <1>13
    <3> HIDE DEF s, w
    <3>2. s + w \in Nat
      BY <1>13, <3>1
    <3> QED
      BY <1>2, <2>1, <3>2, Zenon
  <2>3. x \in Leaf(v)
    <3> HIDE DEF x
    <3> QED
      BY <2>2 DEF Leaf
  <2> QED
    BY <1>7, <1>12, <1>14, <2>3, Zenon
<1>17. ASSUME ~frame'.busy PROVE s + w = z
  <2>1. c + 1 = p
    <3>1. p \in Nat /\ c \in Nat /\ c + 1 <= p /\ ~(c + 1 < p)
      BY <1>2, <1>5, <1>12, <1>17, Zenon
    <3> HIDE DEF p, c
    <3> QED
      BY <3>1
  <2> QED
    BY <1>2, <1>7, <2>1, Zenon
<1> QED
  BY <1>12, <1>14, <1>15, <1>16, <1>17, Zenon

LEMMA EndOutputsKeeps ==
  ASSUME LEAF_CHUNK_SIZE_SHIFT <= TREE_CHUNK_SIZE_SHIFT, ForestInv, OutputsInv,
         CommitExpands, S!EndChunk
  PROVE  OutputsInv'
<1> DEFINE v == commit_i - 1
           r == [leaves |-> leaves', hashed |-> hashed_leaves']
<1>1. /\ frame.busy /\ commit_i' = commit_i /\ commit_pc' = commit_pc /\ base' = base
      /\ commit_pc # "roots" /\ commit_i \in Nat
  <2>1. frame.busy /\ commit_i' = commit_i /\ commit_pc' = commit_pc /\ base' = base
    BY DEF CommitExpands, S!EndChunk
  <2> QED
    BY <2>1, TreeSizes DEF ForestInv
<1>2. v \in Vec /\ frame'.busy \in BOOLEAN
  <2>1. v \in Vec /\ v \in Nat
    BY <1>1, TreeSizes DEF ForestInv, Vec
  <2>2. ForestInv'
    BY ExpandStepKeeps
  <2> QED
    BY <2>1, <2>2 DEF ForestInv
<1>3. /\ leaves' = [s \in Slot |-> leaves'[s]] /\ hashed_leaves' = [s \in Slot |-> hashed_leaves'[s]]
      /\ OthersKept(leaves, hashed_leaves, r, v)
      /\ frame'.busy =>
           /\ frame'.base = frame.base
           /\ frame'.start = TREE_CHUNK_SIZE * frame'.chunk
           /\ frame'.perm = PermuteInv(frame'.start)
           /\ Outputs(leaves', hashed_leaves', v, frame'.start)
      /\ ~frame'.busy => Outputs(leaves', hashed_leaves', v, Pow2[Depth(v)])
  <2> DEFINE w == v
  <2>1. w \in Vec /\ w = commit_i - 1
    BY <1>2
  <2> HIDE DEF w
  <2>2. /\ leaves' = [s \in Slot |-> leaves'[s]] /\ hashed_leaves' = [s \in Slot |-> hashed_leaves'[s]]
        /\ OthersKept(leaves, hashed_leaves, r, w)
        /\ frame'.busy =>
             /\ frame'.base = frame.base
             /\ frame'.start = TREE_CHUNK_SIZE * frame'.chunk
             /\ frame'.perm = PermuteInv(frame'.start)
             /\ Outputs(leaves', hashed_leaves', w, frame'.start)
        /\ ~frame'.busy => Outputs(leaves', hashed_leaves', w, Pow2[Depth(w)])
    BY <1>1, <2>1, EndOutputs, Zenon
  <2> QED
    BY <2>2 DEF w
<1>4. ASSUME NEW u \in Vec, u < v PROVE Outputs(leaves', hashed_leaves', u, Pow2[Depth(u)])
  <2>1. u # v
    <3>1. u \in Nat /\ v \in Nat
      BY <1>2 DEF Vec
    <3> QED
      BY <1>4, <3>1
  <2>2. Outputs(leaves, hashed_leaves, u, Pow2[Depth(u)])
    BY <1>1, <1>4 DEF OutputsInv
  <2>3. r.leaves = leaves' /\ r.hashed = hashed_leaves'
    OBVIOUS
  <2> HIDE DEF r, v
  <2> QED
    BY <1>3, <2>1, <2>2, <2>3 DEF OthersKept, Outputs
<1>5. ASSUME NEW u \in Vec, u < (IF frame'.busy THEN commit_i - 1 ELSE commit_i)
      PROVE  Outputs(leaves', hashed_leaves', u, Pow2[Depth(u)])
  <2>1. CASE u = v /\ ~frame'.busy
    BY <1>3, <2>1, Zenon
  <2>2. CASE ~(u = v /\ ~frame'.busy)
    <3>1. u < v
      <4>1. u \in Nat /\ v \in Nat /\ commit_i = v + 1
        BY <1>1, <1>2 DEF Vec
      <4> QED
        BY <1>2, <1>5, <2>2, <4>1
    <3> QED
      BY <1>4, <3>1
  <2> QED
    BY <2>1, <2>2
<1>6. base' = FirstLeaf(commit_i') /\ frame.base = FirstLeaf(v)
  BY <1>1 DEF OutputsInv
<1> QED
  BY <1>1, <1>3, <1>5, <1>6 DEF OutputsInv

LEMMA CallTreeOutputs ==
  ASSUME ForestInv, OutputsInv, CallTree
  PROVE  OutputsInv'
<1> DEFINE v == commit_i
<1>1. /\ commit_pc = "trees" /\ ~frame.busy /\ v < BITS_PER_WITNESS
      /\ frame' = [busy |-> TRUE, height |-> Depth(commit_i) - TREE_CHUNK_SIZE_SHIFT,
                   root |-> FIRST_DESCENDENT_DEPTH(commit_i, TREE_CHUNK_SIZE_SHIFT, FALSE),
                   base |-> base, chunk |-> 0, i |-> 0, ancestor |-> 0, d |-> 0,
                   start |-> 0, perm |-> PermuteInv(XorIndex(0, 0))]
      /\ commit_i' = v + 1 /\ base' = base + Pow2[Depth(v)] /\ commit_pc' = commit_pc
      /\ leaves' = leaves /\ hashed_leaves' = hashed_leaves
  BY DEF CallTree, S!ExpandTree
<1>2. v \in Vec /\ v \in Nat /\ v <= BITS_PER_WITNESS
  <2>1. v \in 0 .. BITS_PER_WITNESS /\ BITS_PER_WITNESS \in Nat
    BY TreeSizes DEF ForestInv
  <2> QED
    BY <1>1, <2>1 DEF Vec
<1>3. base = FirstLeaf(v) /\ base' = FirstLeaf(v + 1)
  <2>1. base = FirstLeaf(v)
    BY <1>1 DEF OutputsInv
  <2> QED
    BY <1>1, <1>2, <2>1, LeafParts
<1>4. /\ frame'.busy /\ frame'.base = base /\ frame'.start = 0 /\ frame'.chunk = 0
      /\ frame'.perm = PermuteInv(XorIndex(0, 0))
  BY <1>1
<1>5. XorIndex(0, 0) = 0
  <2>1. 0 \in Leaf(v)
    <3>1. Pow2[Depth(v)] \in Nat \ {0}
      BY <1>2, DepthRange, Pow2Values
    <3> QED
      BY <3>1 DEF Leaf
  <2> QED
    BY <1>2, <2>1, XorLeaf
<1>6. TREE_CHUNK_SIZE * 0 = 0
  BY TreeSizes
<1>7. Outputs(leaves, hashed_leaves, v, 0)
  <2>1. \A leaf \in Leaf(v) : leaf \in Nat
    BY <1>2, LeafBlock
  <2>2. \A leaf \in Nat : ~(leaf < 0)
    OBVIOUS
  <2> QED
    BY <2>1, <2>2 DEF Outputs
<1>8. commit_i' - 1 = v
  BY <1>1, <1>2
<1>9. \A u \in Vec : u < v => Outputs(leaves, hashed_leaves, u, Pow2[Depth(u)])
  BY <1>1 DEF OutputsInv
<1>10. leaves = [s \in Slot |-> leaves[s]] /\ hashed_leaves = [s \in Slot |-> hashed_leaves[s]]
  BY DEF OutputsInv
<1>11. commit_pc' # "roots"
  BY <1>1
<1> HIDE DEF v
<1>12. /\ base' = FirstLeaf(commit_i') /\ frame'.base = FirstLeaf(commit_i' - 1)
       /\ frame'.start = TREE_CHUNK_SIZE * frame'.chunk /\ frame'.perm = PermuteInv(frame'.start)
       /\ Outputs(leaves', hashed_leaves', commit_i' - 1, frame'.start)
  BY <1>1, <1>3, <1>4, <1>5, <1>6, <1>7, <1>8, Zenon
<1>13. leaves' = [s \in Slot |-> leaves'[s]] /\ hashed_leaves' = [s \in Slot |-> hashed_leaves'[s]]
  BY <1>1, <1>10
<1>14. \A u \in Vec : u < (IF frame'.busy THEN commit_i' - 1 ELSE commit_i') =>
         Outputs(leaves', hashed_leaves', u, Pow2[Depth(u)])
  BY <1>1, <1>4, <1>8, <1>9, Zenon
<1> QED
  BY <1>11, <1>12, <1>13, <1>14, Zenon DEF OutputsInv

(* On the way to a chunk of leaves the frame keeps what the outputs need.    *)
LEMMA WalkOutputs ==
  ASSUME ForestInv, OutputsInv, CommitExpands, S!PickAncestor \/ S!Descend
  PROVE  OutputsInv'
<1>1. IsFrame(frame)
  BY DEF ForestInv
<1>2. /\ frame'.busy = frame.busy /\ frame'.base = frame.base /\ frame'.chunk = frame.chunk
      /\ frame'.start = frame.start /\ frame'.perm = frame.perm
  <2>1. CASE S!PickAncestor
    <3>1. PICK a, d, i : frame' = [frame EXCEPT !.ancestor = a, !.d = d, !.i = i]
      BY <2>1 DEF S!PickAncestor
    <3>2. PICK r : r = frame'
      OBVIOUS
    <3>3. r = [frame EXCEPT !.ancestor = a, !.d = d, !.i = i]
      BY <3>1, <3>2, Zenon
    <3>4. /\ r.busy = frame.busy /\ r.base = frame.base /\ r.chunk = frame.chunk
          /\ r.start = frame.start /\ r.perm = frame.perm
      BY <1>1, <3>3 DEF IsFrame
    <3> QED
      BY <3>2, <3>4, Zenon
  <2>2. CASE S!Descend
    <3>1. PICK a, d : frame' = [frame EXCEPT !.ancestor = a, !.d = d]
      BY <2>2 DEF S!Descend
    <3>2. PICK r : r = frame'
      OBVIOUS
    <3>3. r = [frame EXCEPT !.ancestor = a, !.d = d]
      BY <3>1, <3>2, Zenon
    <3>4. /\ r.busy = frame.busy /\ r.base = frame.base /\ r.chunk = frame.chunk
          /\ r.start = frame.start /\ r.perm = frame.perm
      BY <1>1, <3>3 DEF IsFrame
    <3> QED
      BY <3>2, <3>4, Zenon
  <2> QED
    BY <2>1, <2>2
<1>3. /\ leaves' = leaves /\ hashed_leaves' = hashed_leaves /\ commit_i' = commit_i
      /\ base' = base /\ commit_pc' = commit_pc
  BY DEF CommitExpands, S!PickAncestor, S!Descend
<1> QED
  BY <1>2, <1>3 DEF OutputsInv

LEMMA OutputsStep ==
  ASSUME LEAF_CHUNK_SIZE_SHIFT <= TREE_CHUNK_SIZE_SHIFT, ForestInv, OutputsInv, CommitStep
  PROVE  OutputsInv'
<1>1. CASE CallRoots
  <2>1. /\ commit_pc = "roots" /\ UNCHANGED <<expandVars, base, commit_pc>> /\ ~frame.busy
    BY <1>1 DEF CallRoots, ForestInv
  <2> QED
    BY <2>1 DEF OutputsInv, expandVars
<1>2. CASE CallRemaining
  <2>1. /\ commit_pc = "roots" /\ UNCHANGED <<expandVars, base>> /\ ~frame.busy
        /\ commit_i' = 0 /\ commit_pc' = "trees" /\ base = 0
    BY <1>2 DEF CallRemaining, ForestInv, OutputsInv
  <2>2. FirstLeaf(0) = 0
    <3> DEFINE a == Pow2[VOLE_MAX_K]
               b == Pow2[VOLE_MIN_K]
    <3>1. a \in Nat /\ b \in Nat /\ VOLES_MAX_K \in Nat
      BY TreeSizes, Pow2Values
    <3>2. FirstLeaf(0) = IF 0 < VOLES_MAX_K THEN 0 * a ELSE VOLES_MAX_K * a + (0 - VOLES_MAX_K) * b
      BY DEF FirstLeaf
    <3> HIDE DEF a, b
    <3>3. CASE 0 < VOLES_MAX_K
      BY <3>1, <3>2, <3>3
    <3>4. CASE ~(0 < VOLES_MAX_K)
      <4>1. VOLES_MAX_K = 0 /\ 0 * a = 0 /\ 0 * b = 0 /\ 0 - 0 = 0
        BY <3>1, <3>4
      <4> QED
        BY <3>2, <3>4, <4>1
    <3> QED
      BY <3>3, <3>4
  <2>3. \A v \in Vec : ~(v < 0)
    BY DEF Vec
  <2> QED
    BY <2>1, <2>2, <2>3 DEF OutputsInv, expandVars
<1>3. CASE ExpandRoots
  <2>1. UNCHANGED <<leaves, hashed_leaves, frame, commit_i, base, commit_pc>>
    BY <1>3 DEF ExpandRoots
  <2> QED
    BY <2>1 DEF OutputsInv
<1>4. CASE CallTree
  BY <1>4, CallTreeOutputs
<1>5. CASE CommitExpands
  BY <1>5, EndOutputsKeeps, WalkOutputs DEF CommitExpands, S!ExpandStep
<1>6. CASE CommitReturn
  <2>1. /\ UNCHANGED <<expandVars, commit_i, base>> /\ ~frame.busy
        /\ commit_pc = "trees" /\ commit_pc' = "done"
    BY <1>6 DEF CommitReturn
  <2> QED
    BY <2>1 DEF OutputsInv, expandVars
<1> QED
  BY <1>1, <1>2, <1>3, <1>4, <1>5, <1>6 DEF CommitStep

LEMMA OutputsStart == ASSUME CommitInit PROVE OutputsInv
<1>1. /\ leaves = [s \in Slot |-> Uninit] /\ hashed_leaves = [s \in Slot |-> Uninit]
      /\ frame = S!NoFrame /\ base = 0 /\ commit_pc = "roots"
  BY DEF CommitInit
<1>2. ~frame.busy
  BY <1>1 DEF S!NoFrame
<1> QED
  BY <1>1, <1>2 DEF OutputsInv

LEMMA OutputsDone ==
  ASSUME ForestInv, OutputsInv
  PROVE  OutputsCorrect
<1> SUFFICES ASSUME commit_pc = "done", NEW vec \in Vec, NEW leaf \in Leaf(vec)
             PROVE  /\ leaves[FirstLeaf(vec) + PermuteInv(leaf)] = LeafNode(vec, leaf)
                    /\ hashed_leaves[FirstLeaf(vec) + leaf] = LeafNode(vec, leaf)
  BY DEF OutputsCorrect
<1>1. commit_i = BITS_PER_WITNESS /\ ~frame.busy
  BY DEF ForestInv
<1>2. vec < BITS_PER_WITNESS
  BY DepthRange
<1>3. Outputs(leaves, hashed_leaves, vec, Pow2[Depth(vec)])
  BY <1>1, <1>2 DEF OutputsInv
<1>4. leaf < Pow2[Depth(vec)]
  <2>1. Pow2[Depth(vec)] \in Nat
    BY DepthRange, Pow2Values
  <2> QED
    BY <2>1 DEF Leaf
<1> QED
  BY <1>3, <1>4 DEF Outputs

LEMMA OutputsInvariant ==
  ASSUME LEAF_CHUNK_SIZE_SHIFT <= TREE_CHUNK_SIZE_SHIFT
  PROVE  Spec => []OutputsInv
<1>1. Init => OutputsInv
  BY OutputsStart DEF Init
<1>2. ForestInv /\ OutputsInv /\ [Next]_vars => OutputsInv'
  <2> SUFFICES ASSUME ForestInv, OutputsInv, [Next]_vars PROVE OutputsInv'
    OBVIOUS
  <2>1. CASE SignerCommits
    BY <2>1, OutputsStep DEF SignerCommits
  <2>2. CASE ~SignerCommits
    <3>1. UNCHANGED commitVars
      BY <2>2 DEF Next, vars, SignerChallenged, SignerOpens, VerifierReceives, VerifierVerifies,
                  Over
    <3> QED
      BY <3>1 DEF OutputsInv, commitVars, expandVars
  <2> QED
    BY <2>1, <2>2
<1> QED
  BY <1>1, <1>2, ForestInvariant, PTL DEF Spec

(* vector_commit leaves the key and the commitment of each leaf in the place  *)
(* that the voles look for them in, though the walk of the chunks does not    *)
(* work out the permuted index but carries it along: as long as a chunk of    *)
(* leaves is no wider than one of nodes (vector_com.h:40-42,                  *)
(* vector_com.c:230-259, 261-301).                                           *)
THEOREM OutputsPlaced ==
  ASSUME LEAF_CHUNK_SIZE_SHIFT <= TREE_CHUNK_SIZE_SHIFT
  PROVE  Spec => []OutputsCorrect
<1>1. ForestInv /\ OutputsInv => OutputsCorrect
  BY OutputsDone
<1> QED
  BY <1>1, ForestInvariant, OutputsInvariant, PTL

---------------------------------------------------------------------------
(* The calls by which the verifier grows its subtrees to a chunk each.  A     *)
(* call on less than a whole chunk comes from one across the limit, and      *)
(* finds that its nodes have no children.                                    *)
GoodCall ==
  {c \in [n : Nat, size : Nat, i : Nat, node : Nat] :
     c.i % TREE_CHUNK_SIZE = 0 /\ (c.size = TREE_CHUNK_SIZE \/ NothingToDo(c))}

(* The loop over the depths never passes the end of the present one.         *)
SubtreeInv ==
  /\ v_calls \in Seq(GoodCall)
  /\ v_d \in 0 .. TREE_CHUNK_SIZE_SHIFT
  /\ v_i \in Nat /\ v_i % TREE_CHUNK_SIZE = 0
  /\ verify_pc = "idle" => v_i = 0 /\ v_calls = <<>>
  /\ verify_pc = "subtrees" => v_i <= End

LEMMA SubtreeSizes ==
  /\ TREE_CHUNK_SIZE \in Nat \ {0} /\ TREE_CHUNK_SIZE_SHIFT \in Nat
  /\ BITS_PER_WITNESS \in Nat /\ BITS_PER_WITNESS >= TREE_CHUNK_SIZE
  /\ NONZERO_BITS_IN_CHALLENGE_3 \in Nat
  /\ BITS_PER_WITNESS * TREE_CHUNK_SIZE_SHIFT <= NONZERO_BITS_IN_CHALLENGE_3
<1> DEFINE t == BITS_PER_WITNESS
           m == VOLES_MAX_K
           n == VOLE_MIN_K
           k == TREE_CHUNK_SIZE_SHIFT
<1>1. /\ t \in Nat /\ m \in Nat /\ m < t /\ n \in Nat /\ k \in Nat /\ k <= n
  BY TreeSizes
<1>2. NONZERO_BITS_IN_CHALLENGE_3 = t * n + m
  <2>1. CASE m = 0
    BY <1>1, <2>1, TreeSizes DEF NONZERO_BITS_IN_CHALLENGE_3, VOLES_MIN_K
  <2>2. CASE m # 0
    <3>1. NONZERO_BITS_IN_CHALLENGE_3 = m * (n + 1) + (t - m) * n
      BY <2>2, TreeSizes DEF NONZERO_BITS_IN_CHALLENGE_3, VOLES_MIN_K
    <3>2. m * (n + 1) + (t - m) * n = t * n + m
      BY <1>1
    <3> QED
      BY <3>1, <3>2
  <2> QED
    BY <2>1, <2>2
<1>3. t * k <= t * n /\ t * k \in Nat /\ t * n \in Nat
  BY <1>1, MulMonotone
<1> DEFINE x == t * k
           y == t * n
<1>4. x \in Nat /\ y \in Nat /\ x <= y /\ NONZERO_BITS_IN_CHALLENGE_3 = y + m /\ m \in Nat
  BY <1>1, <1>2, <1>3
<1> HIDE DEF x, y, m
<1>5. NONZERO_BITS_IN_CHALLENGE_3 \in Nat /\ x <= NONZERO_BITS_IN_CHALLENGE_3
  BY <1>4
<1> QED
  BY <1>5, TreeSizes DEF x

(* The ends of the depths.                                                   *)
Limit(d) == NONZERO_BITS_IN_CHALLENGE_3 - d * BITS_PER_WITNESS

LEMMA Limits ==
  /\ \A d \in 0 .. TREE_CHUNK_SIZE_SHIFT : Limit(d) \in Nat
  /\ \A d \in Nat : Limit(d) \in Int /\ Limit(d) = Limit(d + 1) + BITS_PER_WITNESS
<1> DEFINE t == BITS_PER_WITNESS
           k == TREE_CHUNK_SIZE_SHIFT
           size == NONZERO_BITS_IN_CHALLENGE_3
<1>1. t \in Nat /\ k \in Nat /\ size \in Nat /\ t * k <= size
  BY SubtreeSizes
<1>2. ASSUME NEW d \in 0 .. k PROVE Limit(d) \in Nat
  <2>1. d \in Nat /\ d <= k
    BY <1>1
  <2>2. t * d \in Nat /\ t * d <= t * k /\ t * k \in Nat /\ d * t = t * d
    BY <1>1, <2>1, MulMonotone
  <2> DEFINE x == t * d
             y == t * k
  <2>3. x \in Nat /\ y \in Nat /\ x <= y /\ y <= size /\ size \in Nat /\ Limit(d) = size - x
    BY <1>1, <2>2 DEF Limit
  <2> HIDE DEF x, y, size
  <2> QED
    BY <2>3
<1>3. ASSUME NEW d \in Nat PROVE Limit(d) \in Int /\ Limit(d) = Limit(d + 1) + t
  <2>1. (d + 1) * t = d * t + t /\ d * t \in Nat
    BY <1>1
  <2> DEFINE x == d * t
  <2>2. x \in Nat /\ Limit(d) = size - x /\ Limit(d + 1) = size - (x + t)
    BY <2>1 DEF Limit
  <2> HIDE DEF x, size, t
  <2> QED
    BY <1>1, <2>2
<1> QED
  BY <1>2, <1>3

LEMMA LevelLimits ==
  ASSUME NEW n \in Nat
  PROVE  /\ LevelLimit(n) \in Int
         /\ n < TREE_CHUNK_SIZE_SHIFT => LevelLimit(n) \in Nat
         /\ LevelLimit(n + 1) + 2 * TREE_CHUNK_SIZE <= 2 * LevelLimit(n)
<1> DEFINE p == Pow2[n]
           b == BITS_PER_WITNESS
           x == Limit(n + 1)
           y == Limit(n + 2)
<1>1. p \in Nat \ {0} /\ Pow2[n + 1] = 2 * p /\ b \in Nat /\ b >= TREE_CHUNK_SIZE
      /\ TREE_CHUNK_SIZE \in Nat
  BY Pow2Values, SubtreeSizes
<1>2. x \in Int /\ y \in Int /\ x = y + b
  <2>1. n + 1 \in Nat /\ n + 2 \in Nat /\ (n + 1) + 1 = n + 2
    OBVIOUS
  <2>2. Limit(n + 1) = Limit((n + 1) + 1) + b /\ Limit(n + 1) \in Int /\ Limit(n + 2) \in Int
    BY <2>1, Limits
  <2> QED
    BY <2>1, <2>2
<1>3. LevelLimit(n) = x * p /\ LevelLimit(n + 1) = y * (2 * p)
  <2>1. LevelLimit(n) = x * p
    BY DEF LevelLimit, Limit
  <2>2. LevelLimit(n + 1) = Limit((n + 1) + 1) * Pow2[n + 1]
    BY DEF LevelLimit, Limit
  <2>3. (n + 1) + 1 = n + 2
    OBVIOUS
  <2> HIDE DEF p
  <2> QED
    BY <1>1, <2>1, <2>2, <2>3
<1>4. n < TREE_CHUNK_SIZE_SHIFT => x \in Nat
  <2>1. n < TREE_CHUNK_SIZE_SHIFT => n + 1 \in 0 .. TREE_CHUNK_SIZE_SHIFT
    BY SubtreeSizes
  <2> QED
    BY <2>1, Limits
<1> HIDE DEF p, x, y, b
<1>5. x * p \in Int /\ (x \in Nat => x * p \in Nat)
  BY <1>1, <1>2
<1>6. 2 * (x * p) = y * (2 * p) + 2 * (b * p)
  BY <1>1, <1>2
<1>7. b * p \in Nat /\ b * p >= b
  <2>1. b * 1 <= b * p /\ b * 1 = b /\ b * p \in Nat
    BY <1>1, MulMonotone
  <2> QED
    BY <2>1
<1>8. y * (2 * p) \in Int
  BY <1>1, <1>2
<1> DEFINE u == x * p
           w == y * (2 * p)
           z == b * p
<1>9. /\ u \in Int /\ w \in Int /\ z \in Nat /\ 2 * u = w + 2 * z /\ z >= b
      /\ LevelLimit(n) = u /\ LevelLimit(n + 1) = w
  BY <1>3, <1>5, <1>6, <1>7, <1>8
<1>10. n < TREE_CHUNK_SIZE_SHIFT => u \in Nat
  BY <1>4, <1>5
<1> HIDE DEF u, w, z
<1>11. w + 2 * TREE_CHUNK_SIZE <= 2 * u
  BY <1>1, <1>9
<1> QED
  BY <1>9, <1>10, <1>11

(* The record of a call.                                                     *)
Child(n, size, i, x) == [n |-> n, size |-> size, i |-> i, node |-> x]

LEMMA GoodChild ==
  ASSUME NEW n \in Nat, NEW size \in Nat, NEW i \in Nat, NEW x \in Nat,
         i % TREE_CHUNK_SIZE = 0,
         size = TREE_CHUNK_SIZE \/ n >= TREE_CHUNK_SIZE_SHIFT \/ i >= LevelLimit(n)
  PROVE  Child(n, size, i, x) \in GoodCall
<1> DEFINE c == Child(n, size, i, x)
<1>1. c \in [n : Nat, size : Nat, i : Nat, node : Nat]
      /\ c.n = n /\ c.size = size /\ c.i = i
  BY DEF Child
<1> HIDE DEF c
<1>2. c \in GoodCall
  BY <1>1 DEF GoodCall, NothingToDo
<1> QED
  BY <1>2 DEF c

(* The three assertions of expand_verifier_subtrees_n.                       *)
LEMMA GoodSize ==
  ASSUME NEW c \in GoodCall, ~NothingToDo(c)
  PROVE  /\ c.n \in Nat /\ c.i \in Nat /\ c.node \in Nat /\ c.size = TREE_CHUNK_SIZE
         /\ c.i % TREE_CHUNK_SIZE = 0
         /\ SizeExpanded(c) \in 1 .. TREE_CHUNK_SIZE
         /\ Crosses(c) => /\ SizeExpanded(c) = LevelLimit(c.n) - c.i
                          /\ 2 * c.i >= LevelLimit(c.n + 1)
         /\ ~Crosses(c) => SizeExpanded(c) = TREE_CHUNK_SIZE
<1> DEFINE w == TREE_CHUNK_SIZE
           l == LevelLimit(c.n)
           n == c.n
           i == c.i
<1>1. /\ n \in Nat /\ i \in Nat /\ c.node \in Nat /\ c.size = w /\ i % w = 0
      /\ n < TREE_CHUNK_SIZE_SHIFT /\ i < l /\ l \in Nat /\ w \in Nat \ {0}
  <2>1. n \in Nat /\ i \in Nat /\ c.node \in Nat /\ c.size = w /\ i % w = 0
    BY DEF GoodCall
  <2>2. l \in Int
    BY <2>1, LevelLimits
  <2>3. n < TREE_CHUNK_SIZE_SHIFT /\ i < l
    BY <2>1, <2>2, SubtreeSizes DEF NothingToDo
  <2> QED
    BY <2>1, <2>3, LevelLimits, SubtreeSizes
<1>2. Crosses(c) <=> i + w > l
  BY <1>1 DEF Crosses
<1>3. SizeExpanded(c) = IF Crosses(c) THEN l % w ELSE w
  BY <1>1 DEF SizeExpanded
<1>4. LevelLimit(n + 1) + 2 * w <= 2 * l /\ LevelLimit(n + 1) \in Int
  BY <1>1, LevelLimits, n + 1 \in Nat
<1> DEFINE next == LevelLimit(n + 1)
<1> HIDE DEF l, w, n, i, next
<1>5. ASSUME Crosses(c) PROVE l % w = l - i /\ l - i \in 1 .. w /\ 2 * i >= next
  <2>1. l \in i .. i + w - 1
    BY <1>1, <1>2, <1>5
  <2>2. l % w = l - i
    BY <1>1, <2>1, Multiples
  <2> QED
    BY <1>1, <1>4, <2>1, <2>2 DEF next
<1>6. ASSUME ~Crosses(c) PROVE SizeExpanded(c) = w /\ w \in 1 .. w
  BY <1>1, <1>3, <1>6
<1> QED
  BY <1>1, <1>3, <1>5, <1>6 DEF l, w, n, i, next

LEMMA GoodNext ==
  ASSUME NEW c \in GoodCall, ~NothingToDo(c)
  PROVE  NextSubtrees(c) \in Seq(GoodCall)
<1> DEFINE w == TREE_CHUNK_SIZE
           n == c.n + 1
           i == 2 * c.i
           child == FIRST_CHILD(c.node, TRUE)
           output == 2 * SizeExpanded(c)
<1>1. /\ w \in Nat \ {0} /\ n \in Nat /\ i \in Nat /\ i + w \in Nat /\ child \in Nat
      /\ child + w \in Nat /\ output \in Nat
      /\ i % w = 0 /\ (i + w) % w = 0
      /\ Crosses(c) => i >= LevelLimit(n)
  <2>1. /\ c.n \in Nat /\ c.i \in Nat /\ c.node \in Nat /\ c.i % w = 0 /\ w \in Nat \ {0}
        /\ SizeExpanded(c) \in 1 .. w
        /\ Crosses(c) => i >= LevelLimit(n)
    BY GoodSize, SubtreeSizes
  <2>2. child \in Nat
    <3>1. child = 2 * c.node + NONZERO_BITS_IN_CHALLENGE_3
      BY DEF FIRST_CHILD, TREES_IN_FOREST
    <3> HIDE DEF child
    <3> QED
      BY <2>1, <3>1, SubtreeSizes
  <2>3. i % w = 0
    <3> DEFINE q == c.i \div w
    <3>1. q \in Nat /\ c.i = q * w
      BY <2>1, Quotient
    <3> HIDE DEF q
    <3> DEFINE r == 2 * q
    <3>2. i = r * w /\ r \in Nat
      BY <2>1, <3>1
    <3> HIDE DEF i, r, w
    <3>3. (r * w) % w = 0
      BY <2>1, <3>2, Quotient
    <3> QED
      BY <3>2, <3>3
  <2>4. i \in Nat /\ output \in Nat /\ n \in Nat
    BY <2>1
  <2>5. (i + w) % w = 0
    <3> HIDE DEF i, w
    <3> QED
      BY <2>1, <2>3, <2>4, Multiples
  <2> HIDE DEF child, i, n, w, output
  <2>6. i + w \in Nat /\ child + w \in Nat
    BY <2>1, <2>2, <2>4
  <2> QED
    BY <2>1, <2>2, <2>3, <2>4, <2>5, <2>6
<1>2. NextSubtrees(c) =
        IF ~Crosses(c) THEN <<Child(n, w, i, child), Child(n, w, i + w, child + w)>>
        ELSE IF output >= w THEN <<Child(n, w, i, child), Child(n, output - w, i + w, child + w)>>
        ELSE <<Child(n, output, i, child)>>
  <2>1. [Child(n, w, i, child) EXCEPT !.size = output] = Child(n, output, i, child)
    <3> HIDE DEF n, w, i, child, output
    <3>1. PICK r : r = Child(n, w, i, child)
      OBVIOUS
    <3>2. r = [n |-> n, size |-> w, i |-> i, node |-> child]
      BY <3>1 DEF Child
    <3>3. [r EXCEPT !.size = output] = [n |-> n, size |-> output, i |-> i, node |-> child]
      BY <3>2
    <3> QED
      BY <3>1, <3>3, Zenon DEF Child
  <2> QED
    BY <2>1, Zenon DEF NextSubtrees, Child
<1> HIDE DEF w, n, i, child, output
<1>3. Child(n, w, i, child) \in GoodCall /\ Child(n, w, i + w, child + w) \in GoodCall
  BY <1>1, GoodChild DEF w
<1>4. ASSUME Crosses(c)
      PROVE  /\ output >= w => Child(n, output - w, i + w, child + w) \in GoodCall
             /\ Child(n, output, i, child) \in GoodCall
  <2>1. i >= LevelLimit(n) /\ LevelLimit(n) \in Int
    BY <1>1, <1>4, LevelLimits
  <2>2. i + w >= LevelLimit(n)
    BY <1>1, <2>1
  <2>3. output >= w => output - w \in Nat
    BY <1>1
  <2> DEFINE size == output - w
             i2 == i + w
             child2 == child + w
  <2>4. i2 \in Nat /\ child2 \in Nat /\ i2 >= LevelLimit(n) /\ i2 % TREE_CHUNK_SIZE = 0
        /\ i % TREE_CHUNK_SIZE = 0
    BY <1>1, <2>2 DEF w
  <2>5. output >= w => size \in Nat
    BY <2>3
  <2> HIDE DEF size, i2, child2
  <2>6. output >= w => Child(n, size, i2, child2) \in GoodCall
    BY <1>1, <2>4, <2>5, GoodChild
  <2>7. Child(n, output, i, child) \in GoodCall
    BY <1>1, <2>1, <2>4, GoodChild
  <2> QED
    BY <2>6, <2>7 DEF size, i2, child2
<1>5. \A a, b \in GoodCall : <<a>> \in Seq(GoodCall) /\ <<a, b>> \in Seq(GoodCall)
  OBVIOUS
<1> QED
  BY <1>2, <1>3, <1>4, <1>5, Zenon

LEMMA GoodStart ==
  ASSUME NEW i \in Nat, i % TREE_CHUNK_SIZE = 0
  PROVE  <<Call(i)>> \in Seq(GoodCall)
<1>1. Call(i) = Child(0, TREE_CHUNK_SIZE, i, i)
  BY DEF Call, Child
<1>2. Child(0, TREE_CHUNK_SIZE, i, i) \in GoodCall
  BY GoodChild, SubtreeSizes, 0 \in Nat
<1>3. \A a \in GoodCall : <<a>> \in Seq(GoodCall)
  OBVIOUS
<1> QED
  BY <1>1, <1>2, <1>3, Zenon

(* Where the loop over the depths is when a whole chunk is too much: at the   *)
(* end of the depth, or at the start of the chunk that crosses it.           *)
LEMMA PartialChunk ==
  ASSUME SubtreeInv, verify_pc = "subtrees", v_d > 0, v_i + TREE_CHUNK_SIZE > End
  PROVE  /\ End \in Nat /\ End % TREE_CHUNK_SIZE = End - v_i
         /\ v_i <= Limit(v_d - 1)
         /\ v_i + TREE_CHUNK_SIZE <= Limit(v_d - 1) \/ End % TREE_CHUNK_SIZE = 0
<1>1. /\ v_d \in 0 .. TREE_CHUNK_SIZE_SHIFT /\ v_i \in Nat /\ v_i % TREE_CHUNK_SIZE = 0
      /\ v_i <= End /\ v_d \in Nat /\ v_d - 1 \in Nat
      /\ TREE_CHUNK_SIZE \in Nat \ {0} /\ BITS_PER_WITNESS \in Nat
      /\ BITS_PER_WITNESS >= TREE_CHUNK_SIZE
  BY SubtreeSizes DEF SubtreeInv
<1>2. End = Limit(v_d) /\ End \in Nat
  BY <1>1, Limits DEF End, Limit
<1>3. Limit(v_d - 1) = End + BITS_PER_WITNESS
  <2>1. (v_d - 1) + 1 = v_d
    BY <1>1
  <2> DEFINE e == v_d - 1
  <2>2. e \in Nat /\ e + 1 = v_d
    BY <1>1, <2>1
  <2> HIDE DEF e
  <2>3. Limit(e) = Limit(v_d) + BITS_PER_WITNESS
    BY <2>2, Limits
  <2> QED
    BY <1>2, <2>3 DEF e
<1> DEFINE end == End
<1>4. end \in v_i .. v_i + TREE_CHUNK_SIZE - 1
  <2>1. end \in Nat /\ v_i <= end /\ v_i + TREE_CHUNK_SIZE > end
    BY <1>1, <1>2
  <2> HIDE DEF end
  <2> QED
    BY <1>1, <2>1
<1>5. end % TREE_CHUNK_SIZE = end - v_i
  <2> HIDE DEF end
  <2> QED
    BY <1>1, <1>4, Multiples
<1>6. v_i <= end + BITS_PER_WITNESS /\ v_i + TREE_CHUNK_SIZE <= end + BITS_PER_WITNESS
  <2>1. end \in Nat /\ v_i <= end
    BY <1>1, <1>2
  <2> HIDE DEF end
  <2> QED
    BY <1>1, <2>1
<1> QED
  BY <1>2, <1>3, <1>5, <1>6, Zenon DEF end

LEMMA SubtreeStep ==
  ASSUME SubtreeInv, VerifyStep
  PROVE  SubtreeInv'
<1>1. CASE CallWhole
  <2>1. /\ verify_pc = "subtrees" /\ v_i + TREE_CHUNK_SIZE <= End
        /\ v_calls' = <<Call(v_i)>> /\ v_i' = v_i + TREE_CHUNK_SIZE
        /\ v_d' = v_d /\ verify_pc' = verify_pc
    BY <1>1 DEF CallWhole
  <2>2. v_i \in Nat /\ v_i % TREE_CHUNK_SIZE = 0 /\ TREE_CHUNK_SIZE \in Nat \ {0}
    BY SubtreeSizes DEF SubtreeInv
  <2>3. v_calls' \in Seq(GoodCall)
    BY <2>1, <2>2, GoodStart, Zenon
  <2>4. v_i' \in Nat /\ v_i' % TREE_CHUNK_SIZE = 0
    BY <2>1, <2>2, NextMultiple, Zenon
  <2>5. End' = End
    BY <2>1 DEF End
  <2>6. verify_pc' # "idle" /\ v_i' <= End' /\ v_d' \in 0 .. TREE_CHUNK_SIZE_SHIFT
    BY <2>1, <2>5 DEF SubtreeInv
  <2> QED
    BY <2>3, <2>4, <2>6 DEF SubtreeInv
<1>2. CASE CallPartial
  <2>1. /\ verify_pc = "subtrees" /\ v_d > 0 /\ v_i + TREE_CHUNK_SIZE > End /\ v_calls = <<>>
        /\ End % TREE_CHUNK_SIZE # 0 => v_calls' = <<Call(v_i)>> /\ v_i' = v_i + TREE_CHUNK_SIZE
        /\ End % TREE_CHUNK_SIZE = 0 => v_calls' = v_calls /\ v_i' = v_i
        /\ v_d' = v_d - 1 /\ verify_pc' = verify_pc
    BY <1>2 DEF CallPartial
  <2>2. v_i \in Nat /\ v_i % TREE_CHUNK_SIZE = 0 /\ TREE_CHUNK_SIZE \in Nat \ {0}
        /\ TREE_CHUNK_SIZE_SHIFT \in Nat /\ v_d \in 0 .. TREE_CHUNK_SIZE_SHIFT
    BY SubtreeSizes DEF SubtreeInv
  <2>3. /\ v_i <= Limit(v_d - 1)
        /\ v_i + TREE_CHUNK_SIZE <= Limit(v_d - 1) \/ End % TREE_CHUNK_SIZE = 0
    BY <2>1, PartialChunk
  <2>4. End' = Limit(v_d - 1)
    BY <2>1 DEF End, Limit
  <2>5. v_calls' \in Seq(GoodCall)
    <3>1. <<>> \in Seq(GoodCall)
      OBVIOUS
    <3> QED
      BY <2>1, <2>2, <3>1, GoodStart, Zenon
  <2>6. v_i + TREE_CHUNK_SIZE \in Nat /\ (v_i + TREE_CHUNK_SIZE) % TREE_CHUNK_SIZE = 0
    BY <2>2, NextMultiple, Zenon
  <2>7. v_i' \in Nat /\ v_i' % TREE_CHUNK_SIZE = 0 /\ v_i' <= End'
    BY <2>1, <2>2, <2>3, <2>4, <2>6, Zenon
  <2>8. verify_pc' # "idle" /\ v_d' \in 0 .. TREE_CHUNK_SIZE_SHIFT
    BY <2>1, <2>2
  <2> QED
    BY <2>5, <2>7, <2>8 DEF SubtreeInv
<1>3. CASE ExpandSubtrees
  <2>1. /\ v_calls # <<>> /\ v_i' = v_i /\ v_d' = v_d /\ verify_pc' = verify_pc
        /\ v_calls' = IF NothingToDo(Head(v_calls)) THEN Tail(v_calls)
                      ELSE NextSubtrees(Head(v_calls)) \o Tail(v_calls)
    BY <1>3 DEF ExpandSubtrees
  <2>2. v_calls \in Seq(GoodCall)
    BY DEF SubtreeInv
  <2>3. Head(v_calls) \in GoodCall /\ Tail(v_calls) \in Seq(GoodCall)
    BY <2>1, <2>2, HeadTailProperties
  <2>4. v_calls' \in Seq(GoodCall)
    <3>1. CASE NothingToDo(Head(v_calls))
      BY <2>1, <2>3, <3>1
    <3>2. CASE ~NothingToDo(Head(v_calls))
      <4> DEFINE a == NextSubtrees(Head(v_calls))
                 b == Tail(v_calls)
      <4>1. a \in Seq(GoodCall) /\ b \in Seq(GoodCall) /\ v_calls' = a \o b
        BY <2>1, <2>3, <3>2, GoodNext
      <4> HIDE DEF a, b
      <4>2. a \o b \in Seq(GoodCall)
        BY <4>1, ConcatProperties
      <4> QED
        BY <4>1, <4>2, Zenon
    <3> QED
      BY <3>1, <3>2
  <2>5. verify_pc # "idle"
    BY <2>1 DEF SubtreeInv
  <2>6. End' = End
    BY <2>1 DEF End
  <2> QED
    BY <2>1, <2>4, <2>5, <2>6 DEF SubtreeInv
<1>4. CASE EndSubtrees \/ CallSubtree \/ VerifyExpands \/ KeepLeaves \/ FinishTree \/ VerifyReturn
  <2>1. /\ v_calls' = v_calls /\ v_i' = v_i /\ v_d' = v_d
    BY <1>4 DEF EndSubtrees, CallSubtree, VerifyExpands, KeepLeaves, FinishTree, VerifyReturn
  <2>2. verify_pc' = verify_pc \/ verify_pc' \notin {"idle", "subtrees"}
    BY <1>4 DEF EndSubtrees, CallSubtree, VerifyExpands, KeepLeaves, FinishTree, VerifyReturn
  <2>3. End' = End
    BY <2>1 DEF End
  <2> QED
    BY <2>1, <2>2, <2>3 DEF SubtreeInv
<1> QED
  BY <1>1, <1>2, <1>3, <1>4 DEF VerifyStep

LEMMA SubtreesAsserted ==
  ASSUME SubtreeInv
  PROVE  AssertionsHold
<1>1. ASSUME NEW m \in DOMAIN v_calls, ~NothingToDo(v_calls[m])
      PROVE  /\ SizeExpanded(v_calls[m]) \in 1 .. TREE_CHUNK_SIZE
             /\ Crosses(v_calls[m]) =>
                  SizeExpanded(v_calls[m]) = LevelLimit(v_calls[m].n) - v_calls[m].i
  <2>1. v_calls[m] \in GoodCall
    BY DEF SubtreeInv
  <2> QED
    BY <1>1, <2>1, GoodSize
<1>2. ASSUME verify_pc = "subtrees", v_d > 0, v_i + TREE_CHUNK_SIZE > End
      PROVE  v_i = End - (End % TREE_CHUNK_SIZE)
  <2> DEFINE end == End
             r == end % TREE_CHUNK_SIZE
  <2>1. end \in Nat /\ r = end - v_i /\ v_i \in Nat
    BY <1>2, PartialChunk DEF SubtreeInv
  <2> HIDE DEF end, r
  <2>2. v_i = end - r
    BY <2>1
  <2> QED
    BY <2>2 DEF end, r
<1> QED
  BY <1>1, <1>2 DEF AssertionsHold

LEMMA SubtreeInvariant == Spec => []SubtreeInv
<1>1. Init => SubtreeInv
  <2> SUFFICES ASSUME VerifyInit PROVE SubtreeInv
    BY DEF Init
  <2>1. v_calls = <<>> /\ v_i = 0 /\ v_d = 0 /\ verify_pc = "idle"
    BY DEF VerifyInit
  <2>2. 0 % TREE_CHUNK_SIZE = 0 /\ 0 \in 0 .. TREE_CHUNK_SIZE_SHIFT
    <3>1. \A c \in Nat \ {0} : 0 % c = 0
      OBVIOUS
    <3> QED
      BY <3>1, SubtreeSizes
  <2>3. <<>> \in Seq(GoodCall)
    OBVIOUS
  <2> QED
    BY <2>1, <2>2, <2>3 DEF SubtreeInv
<1>2. SubtreeInv /\ [Next]_vars => SubtreeInv'
  <2> SUFFICES ASSUME SubtreeInv, [Next]_vars PROVE SubtreeInv'
    OBVIOUS
  <2>1. CASE VerifierVerifies
    BY <2>1, SubtreeStep DEF VerifierVerifies
  <2>2. CASE VerifierReceives
    <3>1. PICK d, o : VerifyCall(d, o)
      BY <2>2 DEF VerifierReceives
    <3>2. /\ verify_pc = "idle" /\ v_calls' = v_calls /\ v_i' = v_i
          /\ \/ verify_pc' = "subtrees" /\ v_d' = TREE_CHUNK_SIZE_SHIFT
             \/ verify_pc' = "rejected" /\ v_d' = v_d
      BY <3>1 DEF VerifyCall
    <3>3. v_i = 0 /\ Limit(TREE_CHUNK_SIZE_SHIFT) \in Nat /\ TREE_CHUNK_SIZE_SHIFT \in Nat
      BY <3>2, Limits, SubtreeSizes DEF SubtreeInv
    <3>4. v_d' = TREE_CHUNK_SIZE_SHIFT => End' = Limit(TREE_CHUNK_SIZE_SHIFT)
      BY DEF End, Limit
    <3>5. verify_pc' = "subtrees" => v_i' <= End'
      BY <3>2, <3>3, <3>4
    <3>6. v_d' \in 0 .. TREE_CHUNK_SIZE_SHIFT
      BY <3>2, <3>3 DEF SubtreeInv
    <3> QED
      BY <3>2, <3>5, <3>6 DEF SubtreeInv
  <2>3. CASE ~(VerifierVerifies \/ VerifierReceives)
    <3>1. UNCHANGED verifyVars
      BY <2>3 DEF Next, vars, SignerCommits, SignerChallenged, SignerOpens, Over
    <3>2. UNCHANGED <<v_calls, v_i, v_d, verify_pc>>
      BY <3>1 DEF verifyVars
    <3>3. End' = End
      BY <3>2 DEF End
    <3> QED
      BY <3>2, <3>3 DEF SubtreeInv
  <2> QED
    BY <2>1, <2>2, <2>3
<1> QED
  BY <1>1, <1>2, PTL DEF Spec

(* The assertions of vector_verify hold on the way to a chunk of each         *)
(* subtree, whatever is in the opening: a call that crosses the limit of its *)
(* level starts less than a chunk below it, and all later calls of that      *)
(* recursion are beyond the limit of theirs (vector_com.c:188, 401 and 496). *)
THEOREM SubtreeAssertions == Spec => []AssertionsHold
<1>1. SubtreeInv => AssertionsHold
  BY SubtreesAsserted
<1> QED
  BY <1>1, SubtreeInvariant, PTL
=============================================================================

--------------------------- MODULE BatchVCProofs ---------------------------
(***************************************************************************)
(* The batched vector commitment in use, for every number and length of     *)
(* vectors, every chunk size, every opening size, every challenge and every  *)
(* tampering.  In four parts: what is proved of the commitment carries over,  *)
(* and all state keeps its type; the size of the opening is predicted         *)
(* exactly, and no seed that is revealed leads to a hidden leaf; the verifier *)
(* reads no memory nobody wrote; and both sides together implement the        *)
(* abstract vector commitment.                                             *)
(***************************************************************************)
EXTENDS BatchVC, PowersOfTwoProofs, FiniteSetTheorems

---------------------------------------------------------------------------
(* The index arithmetic of vector_com.h.                                     *)
(* The sizes are natural numbers, and there is a leaf.                       *)
LEMMA LayoutSizes ==
  /\ VOLES_MIN_K \in Nat \ {0}
  /\ LONG_LEN \in Nat \ {0}
  /\ LONG_LEN >= SHORT_LEN
  /\ LEAVES \in Nat \ {0}
  /\ LEAVES >= SHORT_LEN
  /\ NODES \in Nat \ {0}
<1> USE LayoutAssumption
<1>1. VOLES_MIN_K \in Nat \ {0}
  BY DEF VOLES_MIN_K
<1>2. LONG_LEN \in Nat \ {0} /\ LONG_LEN >= SHORT_LEN
  BY DEF LONG_LEN
<1>3. \A a \in Nat \ {0}, b \in Nat \ {0} : a * b \in Nat \ {0} /\ a * b >= b
  OBVIOUS
<1>4. VOLES_MIN_K * SHORT_LEN \in Nat \ {0} /\ VOLES_MIN_K * SHORT_LEN >= SHORT_LEN
  BY <1>1, <1>3
<1>5. \A a \in Nat, b \in Nat : a * b \in Nat
  OBVIOUS
<1>6. VOLES_MAX_K * LONG_LEN \in Nat
  BY <1>2, <1>5
<1>7. LEAVES \in Nat \ {0} /\ LEAVES >= SHORT_LEN
  BY <1>4, <1>6 DEF LEAVES
<1> QED
  BY <1>1, <1>2, <1>7 DEF NODES

(* A chunk size that divides the short length divides the number of leaves.  *)
LEMMA LeavesMultiple ==
  ASSUME NEW c \in Nat \ {0}, NEW q \in Nat, SHORT_LEN = q * c
  PROVE  \E r \in Nat : LEAVES = r * c
<1> USE LayoutAssumption
<1> DEFINE vectors == VOLES_MIN_K + (IF VOLES_MAX_K = 0 THEN 0 ELSE 2 * VOLES_MAX_K)
<1>1. VOLES_MIN_K \in Nat /\ VOLES_MAX_K \in Nat
  BY DEF VOLES_MIN_K
<1>2. vectors \in Nat
  BY <1>1
<1>3. LEAVES = vectors * SHORT_LEN
  <2>1. CASE VOLES_MAX_K = 0
    <3>1. VOLES_MAX_K * LONG_LEN = 0
      BY <2>1 DEF LONG_LEN
    <3> QED
      BY <1>1, <2>1, <3>1 DEF LEAVES
  <2>2. CASE VOLES_MAX_K # 0
    <3>1. LONG_LEN = 2 * SHORT_LEN
      BY <2>2 DEF LONG_LEN
    <3>2. \A a, b, s \in Nat : a * s + b * (2 * s) = (a + 2 * b) * s
      OBVIOUS
    <3> QED
      BY <1>1, <2>2, <3>1, <3>2 DEF LEAVES
  <2> QED
    BY <2>1, <2>2
<1>4. \A a, b, d \in Nat : a * (b * d) = (a * b) * d /\ a * b \in Nat
  OBVIOUS
<1> HIDE DEF vectors
<1>5. LEAVES = (vectors * q) * c /\ vectors * q \in Nat
  BY <1>2, <1>3, <1>4
<1> QED
  BY <1>5

---------------------------------------------------------------------------
(* How the sizes of vector_com.h relate.                                     *)
LEMMA LeavesSum ==
  /\ VOLES_MAX_K \in Nat /\ BITS_PER_WITNESS \in Nat \ {0}
  /\ VOLES_MAX_K < BITS_PER_WITNESS
  /\ SHORT_LEN \in Nat \ {0}
  /\ VOLES_MAX_K * LONG_LEN = VOLES_MAX_K * SHORT_LEN + VOLES_MAX_K * SHORT_LEN
  /\ VOLES_MIN_K * SHORT_LEN + VOLES_MAX_K * SHORT_LEN = BITS_PER_WITNESS * SHORT_LEN
  /\ LEAVES = BITS_PER_WITNESS * SHORT_LEN + VOLES_MAX_K * SHORT_LEN
<1> DEFINE m == VOLES_MAX_K
           s == SHORT_LEN
           t == BITS_PER_WITNESS
<1>1. m \in Nat /\ t \in Nat \ {0} /\ s \in Nat \ {0} /\ m < t
  BY LayoutAssumption
<1>2. m * s \in Nat /\ t * s \in Nat
  BY <1>1
<1>3. m * LONG_LEN = m * s + m * s
  <2>1. CASE m = 0
    BY <1>1, <2>1 DEF LONG_LEN
  <2>2. CASE m # 0
    BY <1>1, <2>2 DEF LONG_LEN
  <2> QED
    BY <2>1, <2>2
<1>4. VOLES_MIN_K * s + m * s = t * s
  BY <1>1 DEF VOLES_MIN_K
<1>5. VOLES_MIN_K * s \in Nat
  BY <1>1 DEF VOLES_MIN_K
<1> QED
  BY <1>1, <1>2, <1>3, <1>4, <1>5 DEF LEAVES

(* A leaf is among the first SHORT_LEN of its vector, or the vector is long. *)
LEMMA LeafCases ==
  ASSUME NEW vec \in Vec, NEW leaf \in Leaf(vec)
  PROVE  /\ vec \in Nat /\ vec < BITS_PER_WITNESS /\ leaf \in Nat
         /\ vec < VOLES_MAX_K => LONG_LEN = 2 * SHORT_LEN /\ leaf < LONG_LEN
         /\ ~(vec < VOLES_MAX_K) => leaf < SHORT_LEN
         /\ ~(leaf < SHORT_LEN) => vec < VOLES_MAX_K
<1> USE LayoutAssumption
<1>1. vec \in Nat /\ vec < BITS_PER_WITNESS
  BY DEF Vec
<1>2. VecLen(vec) \in Nat
  BY LayoutSizes DEF VecLen
<1>3. leaf \in Nat /\ leaf < VecLen(vec)
  BY <1>2 DEF Leaf
<1>4. vec < VOLES_MAX_K => VOLES_MAX_K # 0
  BY <1>1
<1> QED
  BY <1>1, <1>3, <1>4 DEF VecLen, LONG_LEN

(* BATCH_VEC_POS_IN_TREE puts a leaf among the last LEAVES nodes.            *)
LEMMA PosInTreeRange ==
  ASSUME NEW vec \in Vec, NEW leaf \in Leaf(vec)
  PROVE  /\ PosInTree(vec, leaf) \in Node
         /\ PosInTree(vec, leaf) - LEAVES + 1 \in Slot
<1> DEFINE t == BITS_PER_WITNESS
           m == VOLES_MAX_K
           s == SHORT_LEN
           off == PosInTree(vec, leaf) - LEAVES + 1
<1>1. /\ vec \in Nat /\ vec < t /\ leaf \in Nat /\ t \in Nat /\ m \in Nat /\ s \in Nat
      /\ m <= t /\ LEAVES = t * s + m * s /\ LEAVES \in Nat
      /\ VOLES_MIN_K * s + m * s = t * s /\ VOLES_MIN_K * s \in Nat
  BY LeafCases, LeavesSum, LayoutSizes
<1>2. m * s \in Nat /\ t * s \in Nat
  BY <1>1
<1>3. CASE leaf < s
  <2>1. t * leaf + t <= t * s /\ t * leaf \in Nat
    BY <1>1, <1>3, MulMonotone
  <2>2. off = t * leaf + vec
    BY <1>1, <1>3, <2>1 DEF PosInTree
  <2>3. off \in Nat /\ off < LEAVES
    BY <1>1, <1>2, <2>1, <2>2
  <2> QED
    BY <1>1, <2>1, <2>2, <2>3, <1>3 DEF PosInTree, Slot, Node, NODES
<1>4. CASE ~(leaf < s)
  <2>1. vec < m /\ leaf < LONG_LEN /\ LONG_LEN = 2 * s
    BY <1>4, LeafCases
  <2>2. m * leaf + m <= m * LONG_LEN /\ m * leaf \in Nat
    BY <1>1, <2>1, MulMonotone
  <2>3. m * LONG_LEN = m * s + m * s
    BY LeavesSum
  <2>4. off = VOLES_MIN_K * s + m * leaf + vec
    BY <1>1, <1>4, <2>2 DEF PosInTree
  <2>5. off \in Nat /\ off < LEAVES
    BY <1>1, <1>2, <2>1, <2>2, <2>3, <2>4
  <2> QED
    BY <1>1, <2>2, <2>4, <2>5, <1>4 DEF PosInTree, Slot, Node, NODES
<1> QED
  BY <1>3, <1>4

(* Two leaves never share a node of the heap.                                *)
LEMMA PosInTreeInjective ==
  ASSUME NEW v \in Vec, NEW x \in Leaf(v), NEW w \in Vec, NEW y \in Leaf(w),
         PosInTree(v, x) = PosInTree(w, y)
  PROVE  v = w /\ x = y
<1> DEFINE t == BITS_PER_WITNESS
           m == VOLES_MAX_K
           s == SHORT_LEN
           off(a, b) == IF b < s THEN t * b + a ELSE VOLES_MIN_K * s + m * b + a
<1>1. /\ v \in Nat /\ v < t /\ x \in Nat /\ w \in Nat /\ w < t /\ y \in Nat
      /\ t \in Nat /\ m \in Nat /\ s \in Nat /\ LEAVES \in Nat
      /\ VOLES_MIN_K * s + m * s = t * s /\ VOLES_MIN_K * s \in Nat
      /\ ~(x < s) => v < m
      /\ ~(y < s) => w < m
  BY LeafCases, LeavesSum, LayoutSizes
<1>2. t * x \in Nat /\ t * y \in Nat /\ m * x \in Nat /\ m * y \in Nat /\ m * s \in Nat
      /\ t * s \in Nat
  BY <1>1
<1>3. off(v, x) = off(w, y)
  BY <1>1, <1>2 DEF PosInTree
<1>4. CASE x < s /\ y < s
  BY <1>1, <1>3, <1>4, MulAddInjective
<1>5. CASE ~(x < s) /\ ~(y < s)
  <2>1. m * x + v = m * y + w
    BY <1>1, <1>2, <1>3, <1>5
  <2> QED
    BY <1>1, <1>5, <2>1, MulAddInjective
<1>6. CASE x < s /\ ~(y < s)
  <2>1. t * x + t <= t * s /\ m * s <= m * y
    BY <1>1, <1>6, MulMonotone
  <2> QED
    BY <1>1, <1>2, <1>3, <1>6, <2>1
<1>7. CASE ~(x < s) /\ y < s
  <2>1. t * y + t <= t * s /\ m * s <= m * x
    BY <1>1, <1>7, MulMonotone
  <2> QED
    BY <1>1, <1>2, <1>3, <1>7, <2>1
<1> QED
  BY <1>4, <1>5, <1>6, <1>7

(* Every one of the last LEAVES nodes of the heap is a leaf of a vector.     *)
LEMMA PosInTreeOnto ==
  ASSUME NEW node \in Node, node >= LEAVES - 1
  PROVE  \E vec \in Vec : \E leaf \in Leaf(vec) : PosInTree(vec, leaf) = node
<1> DEFINE t == BITS_PER_WITNESS
           m == VOLES_MAX_K
           s == SHORT_LEN
           off == node - LEAVES + 1
<1>1. /\ m \in Nat /\ t \in Nat \ {0} /\ s \in Nat \ {0} /\ LONG_LEN \in Nat /\ m < t
      /\ LEAVES = t * s + m * s /\ LEAVES \in Nat /\ LONG_LEN >= s
      /\ VOLES_MIN_K * s + m * s = t * s /\ VOLES_MIN_K * s \in Nat
      /\ m * s \in Nat /\ t * s \in Nat
  BY LeavesSum, LayoutSizes
<1>2. off \in Nat /\ off < LEAVES /\ node = LEAVES - 1 + off
  BY <1>1 DEF Node, NODES
<1> HIDE DEF off
<1>3. CASE off < t * s
  <2> DEFINE leaf == off \div t
             vec == off % t
  <2>1. vec \in Nat /\ leaf \in Nat /\ vec < t /\ off = t * leaf + vec
    BY <1>1, <1>2
  <2> HIDE DEF vec, leaf
  <2>2. leaf < s
    <3>1. SUFFICES ASSUME s <= leaf PROVE FALSE
      BY <1>1, <2>1
    <3>2. t * s <= t * leaf /\ t * leaf \in Nat
      BY <1>1, <2>1, <3>1, MulMonotone
    <3> QED
      BY <1>1, <1>3, <2>1, <3>2
  <2>3. vec \in Vec /\ leaf \in Leaf(vec)
    BY <1>1, <2>1, <2>2 DEF Vec, Leaf, VecLen
  <2>4. PosInTree(vec, leaf) = node
    BY <1>2, <2>1, <2>2 DEF PosInTree
  <2> QED
    BY <2>3, <2>4
<1>4. CASE ~(off < t * s)
  <2> DEFINE rest == off - VOLES_MIN_K * s
             leaf == rest \div m
             vec == rest % m
  <2>1. rest \in Nat /\ m * s <= rest /\ rest < m * s + m * s
    BY <1>1, <1>2, <1>4
  <2>2. m # 0 /\ LONG_LEN = 2 * s
    <3>1. m # 0
      BY <1>1, <2>1
    <3> QED
      BY <3>1 DEF LONG_LEN
  <2> HIDE DEF rest
  <2>3. vec \in Nat /\ leaf \in Nat /\ vec < m /\ rest = m * leaf + vec
    BY <1>1, <2>1, <2>2
  <2> HIDE DEF vec, leaf
  <2>4. ~(leaf < s)
    <3>1. SUFFICES ASSUME leaf < s PROVE FALSE
      OBVIOUS
    <3>2. m * leaf + m <= m * s /\ m * leaf \in Nat
      BY <1>1, <2>3, <3>1, MulMonotone
    <3> QED
      BY <1>1, <2>1, <2>3, <3>2
  <2>5. leaf < LONG_LEN
    <3>1. SUFFICES ASSUME LONG_LEN <= leaf PROVE FALSE
      BY <1>1, <2>3
    <3>2. m * LONG_LEN <= m * leaf /\ m * leaf \in Nat
      BY <1>1, <2>3, <3>1, MulMonotone
    <3>3. m * LONG_LEN = m * s + m * s
      BY LeavesSum
    <3> QED
      BY <1>1, <2>1, <2>3, <3>2, <3>3
  <2>6. vec \in Vec /\ leaf \in Leaf(vec)
    BY <1>1, <2>3, <2>5 DEF Vec, Leaf, VecLen
  <2>7. m * leaf \in Nat /\ off = VOLES_MIN_K * s + m * leaf + vec
    BY <1>1, <1>2, <2>3 DEF rest
  <2>8. PosInTree(vec, leaf) = node
    BY <1>1, <1>2, <2>4, <2>7 DEF PosInTree
  <2> QED
    BY <2>6, <2>8
<1> QED
  BY <1>3, <1>4

(* BATCH_VEC_HASH_POS_IN_OUTPUT: the long vectors come first, then the short. *)
LEMMA HashPosCases ==
  ASSUME NEW vec \in Vec, NEW leaf \in Leaf(vec)
  PROVE  /\ vec < VOLES_MAX_K =>
              /\ HashPos(vec, leaf) = LONG_LEN * vec + leaf
              /\ LONG_LEN * vec + LONG_LEN <= LONG_LEN * VOLES_MAX_K
         /\ ~(vec < VOLES_MAX_K) =>
              /\ HashPos(vec, leaf) = VOLES_MAX_K * SHORT_LEN + (SHORT_LEN * vec + leaf)
              /\ SHORT_LEN * VOLES_MAX_K <= SHORT_LEN * vec
              /\ SHORT_LEN * vec + SHORT_LEN <= SHORT_LEN * BITS_PER_WITNESS
<1>1. /\ vec \in Nat /\ vec < BITS_PER_WITNESS /\ leaf \in Nat /\ LONG_LEN \in Nat
      /\ SHORT_LEN \in Nat /\ VOLES_MAX_K \in Nat /\ BITS_PER_WITNESS \in Nat
  BY LeafCases, LeavesSum, LayoutSizes
<1>2. CASE vec < VOLES_MAX_K
  <2>1. LONG_LEN * vec + LONG_LEN <= LONG_LEN * VOLES_MAX_K
    BY <1>1, <1>2, MulMonotone
  <2>2. LONG_LEN * vec = vec * LONG_LEN
    BY <1>1
  <2> QED
    BY <1>2, <2>1, <2>2 DEF HashPos
<1>3. CASE ~(vec < VOLES_MAX_K)
  <2>1. SHORT_LEN * vec + SHORT_LEN <= SHORT_LEN * BITS_PER_WITNESS
    BY <1>1, MulMonotone
  <2>2. SHORT_LEN * VOLES_MAX_K <= SHORT_LEN * vec
    BY <1>1, <1>3, MulMonotone
  <2>3. /\ SHORT_LEN * vec = vec * SHORT_LEN /\ SHORT_LEN * vec \in Nat
        /\ VOLES_MAX_K * SHORT_LEN \in Nat
    BY <1>1
  <2> QED
    BY <1>1, <1>3, <2>1, <2>2, <2>3 DEF HashPos
<1> QED
  BY <1>2, <1>3

LEMMA HashPosRange ==
  ASSUME NEW vec \in Vec, NEW leaf \in Leaf(vec)
  PROVE  HashPos(vec, leaf) \in Slot
<1> DEFINE t == BITS_PER_WITNESS
           m == VOLES_MAX_K
           s == SHORT_LEN
<1>1. /\ vec \in Nat /\ leaf \in Nat /\ t \in Nat /\ m \in Nat /\ s \in Nat /\ LONG_LEN \in Nat
      /\ vec < m => leaf < LONG_LEN
      /\ ~(vec < m) => leaf < s
      /\ LEAVES = t * s + m * s /\ LEAVES \in Nat
      /\ m * LONG_LEN = m * s + m * s /\ m <= t
  BY LeafCases, LeavesSum, LayoutSizes
<1>2. /\ m * s \in Nat /\ t * s \in Nat /\ s * m = m * s /\ s * t = t * s
      /\ LONG_LEN * m = m * LONG_LEN /\ LONG_LEN * vec \in Nat /\ s * vec \in Nat
  BY <1>1
<1>3. m * s <= t * s
  BY <1>1, <1>2, MulMonotone
<1>4. CASE vec < m
  BY <1>1, <1>2, <1>3, <1>4, HashPosCases DEF Slot
<1>5. CASE ~(vec < m)
  BY <1>1, <1>2, <1>3, <1>5, HashPosCases DEF Slot
<1> QED
  BY <1>4, <1>5

(* Two leaves never share an entry of hashed_leaves.                         *)
LEMMA HashPosInjective ==
  ASSUME NEW v \in Vec, NEW x \in Leaf(v), NEW w \in Vec, NEW y \in Leaf(w),
         HashPos(v, x) = HashPos(w, y)
  PROVE  v = w /\ x = y
<1> DEFINE m == VOLES_MAX_K
           s == SHORT_LEN
           long == LONG_LEN
<1>1. /\ v \in Nat /\ x \in Nat /\ w \in Nat /\ y \in Nat
      /\ m \in Nat /\ s \in Nat /\ long \in Nat
      /\ v < m => x < long
      /\ ~(v < m) => x < s
      /\ w < m => y < long
      /\ ~(w < m) => y < s
      /\ m * long = m * s + m * s
  BY LeafCases, LeavesSum, LayoutSizes
<1>2. /\ m * s \in Nat /\ s * m = m * s /\ long * m = m * long
      /\ long * v \in Nat /\ s * v \in Nat /\ long * w \in Nat /\ s * w \in Nat
  BY <1>1
<1>3. CASE v < m /\ w < m
  <2>1. long * v + x = long * w + y
    BY <1>3, HashPosCases
  <2> QED
    BY <1>1, <1>3, <2>1, MulAddInjective
<1>4. CASE ~(v < m) /\ ~(w < m)
  <2>1. s * v + x = s * w + y
    BY <1>1, <1>2, <1>4, HashPosCases
  <2> QED
    BY <1>1, <1>4, <2>1, MulAddInjective
<1>5. CASE v < m /\ ~(w < m)
  BY <1>1, <1>2, <1>5, HashPosCases
<1>6. CASE ~(v < m) /\ w < m
  BY <1>1, <1>2, <1>6, HashPosCases
<1> QED
  BY <1>3, <1>4, <1>5, <1>6

(* Every entry of hashed_leaves belongs to a leaf.                           *)
LEMMA HashPosOnto ==
  ASSUME NEW slot \in Slot
  PROVE  \E vec \in Vec : \E leaf \in Leaf(vec) : HashPos(vec, leaf) = slot
<1> DEFINE t == BITS_PER_WITNESS
           m == VOLES_MAX_K
           s == SHORT_LEN
           long == LONG_LEN
<1>1. /\ m \in Nat /\ t \in Nat /\ s \in Nat \ {0} /\ long \in Nat \ {0} /\ m < t
      /\ LEAVES = t * s + m * s /\ LEAVES \in Nat
      /\ m * long = m * s + m * s
  BY LeavesSum, LayoutSizes
<1>2. slot \in Nat /\ slot < LEAVES /\ m * s \in Nat /\ t * s \in Nat
  BY <1>1 DEF Slot
<1>3. CASE slot < m * long
  <2> DEFINE vec == slot \div long
             leaf == slot % long
  <2>1. vec \in Nat /\ leaf \in Nat /\ leaf < long /\ slot = long * vec + leaf
    BY <1>1, <1>2
  <2> HIDE DEF vec, leaf
  <2>2. vec < m
    <3>1. SUFFICES ASSUME m <= vec PROVE FALSE
      BY <1>1, <2>1
    <3>2. long * m <= long * vec
      BY <1>1, <2>1, <3>1, MulMonotone
    <3>3. long * m = m * long /\ long * vec \in Nat
      BY <1>1, <2>1
    <3> QED
      BY <1>1, <1>2, <1>3, <2>1, <3>2, <3>3
  <2>3. vec \in Vec /\ leaf \in Leaf(vec)
    BY <1>1, <2>1, <2>2 DEF Vec, Leaf, VecLen
  <2>4. HashPos(vec, leaf) = slot
    BY <2>1, <2>2, <2>3, HashPosCases
  <2> QED
    BY <2>3, <2>4
<1>4. CASE ~(slot < m * long)
  <2> DEFINE rest == slot - m * s
             vec == rest \div s
             leaf == rest % s
  <2>1. rest \in Nat /\ m * s <= rest /\ rest < t * s
    BY <1>1, <1>2, <1>4
  <2> HIDE DEF rest
  <2>2. vec \in Nat /\ leaf \in Nat /\ leaf < s /\ rest = s * vec + leaf
    BY <1>1, <2>1
  <2> HIDE DEF vec, leaf
  <2>3. vec < t
    <3>1. SUFFICES ASSUME t <= vec PROVE FALSE
      BY <1>1, <2>2
    <3>2. s * t <= s * vec /\ s * t = t * s /\ s * vec \in Nat
      BY <1>1, <2>2, <3>1, MulMonotone
    <3> QED
      BY <1>2, <2>1, <2>2, <3>2
  <2>4. ~(vec < m)
    <3>1. SUFFICES ASSUME vec < m PROVE FALSE
      OBVIOUS
    <3>2. s * vec + s <= s * m /\ s * m = m * s /\ s * vec \in Nat
      BY <1>1, <2>2, <3>1, MulMonotone
    <3> QED
      BY <1>1, <1>2, <2>1, <2>2, <3>2
  <2>5. vec \in Vec /\ leaf \in Leaf(vec)
    BY <1>1, <2>2, <2>3, <2>4 DEF Vec, Leaf, VecLen
  <2>6. HashPos(vec, leaf) = m * s + rest
    BY <2>2, <2>4, <2>5, HashPosCases
  <2>7. m * s + rest = slot
    BY <1>2 DEF rest
  <2> QED
    BY <2>5, <2>6, <2>7
<1> QED
  BY <1>3, <1>4

(* The same of BATCH_VEC_LEAF_POS_IN_OUTPUT: each leaf has an entry of leaves *)
(* of its own, and they fill it.                                             *)
LEMMA LeafPosBijective ==
  /\ \A vec \in Vec : \A leaf \in Leaf(vec) : LeafPos(vec, leaf) \in Slot
  /\ \A v, w \in Vec : \A x \in Leaf(v), y \in Leaf(w) :
       LeafPos(v, x) = LeafPos(w, y) => v = w /\ x = y
  /\ \A slot \in Slot : \E vec \in Vec : \E leaf \in Leaf(vec) : LeafPos(vec, leaf) = slot
<1>1. \A vec \in Vec : \A leaf \in Leaf(vec) : PermuteInv(leaf) \in Leaf(vec)
  BY PermutationAssumption
<1>2. \A vec \in Vec : \A leaf \in Leaf(vec) : LeafPos(vec, leaf) \in Slot
  BY <1>1, HashPosRange DEF LeafPos
<1>3. ASSUME NEW v \in Vec, NEW w \in Vec, NEW x \in Leaf(v), NEW y \in Leaf(w),
             LeafPos(v, x) = LeafPos(w, y)
      PROVE  v = w /\ x = y
  <2>1. v = w /\ PermuteInv(x) = PermuteInv(y)
    BY <1>1, <1>3, HashPosInjective DEF LeafPos
  <2> QED
    BY <2>1, PermutationAssumption
<1>4. ASSUME NEW slot \in Slot
      PROVE  \E vec \in Vec : \E leaf \in Leaf(vec) : LeafPos(vec, leaf) = slot
  <2>1. PICK vec \in Vec : \E y \in Leaf(vec) : HashPos(vec, y) = slot
    BY HashPosOnto
  <2>2. PICK y \in Leaf(vec) : HashPos(vec, y) = slot
    BY <2>1
  <2>3. PICK x \in Leaf(vec) : PermuteInv(x) = y
    BY PermutationAssumption
  <2> QED
    BY <2>2, <2>3 DEF LeafPos
<1> QED
  BY <1>2, <1>3, <1>4

---------------------------------------------------------------------------
(* Where the two indices of the expansion stand: next_to_expand_to is the     *)
(* first child of next_to_expand_from, the first loop has expanded one node   *)
(* less than the next chunk, and from then on whole chunks are expanded.      *)
Indexing ==
  /\ next_to_expand_to = 2 * next_to_expand_from + 1
  /\ next_to_expand_from + 1 <= LEAVES
  /\ commit_pc = "double" =>
       /\ chunck_size \in {1, 2, 4, 8, 16, 32}
       /\ chunck_size <= TREE_CHUNK_SIZE
       /\ next_to_expand_from + 1 = chunck_size
  /\ commit_pc = "tree" =>
       \E q \in Nat \ {0} : next_to_expand_from + 1 = q * TREE_CHUNK_SIZE
  /\ commit_pc \notin {"double", "tree"} => next_to_expand_from + 1 = LEAVES

(* The first next_to_expand_to nodes hold the seed of their own path.        *)
Prefix ==
  \A x \in Node : tree[x] = IF x < next_to_expand_to THEN x ELSE Uninit

(* TreeCorrect is not inductive: that the last chunk ends exactly at the end  *)
(* of the heap depends on how the indices advance together.                   *)
TreeInv ==
  /\ tree \in [Node -> Block]
  /\ next_to_expand_from \in Nat
  /\ next_to_expand_to \in Nat
  /\ commit_pc \in {"double", "tree", "leaves", "scatter", "done"}
  /\ Indexing
  /\ Prefix

---------------------------------------------------------------------------
(* The number of leaves is a whole number of chunks, at least one.           *)
LEMMA WholeChunks ==
  /\ TREE_CHUNK_SIZE \in Nat \ {0}
  /\ TREE_CHUNK_SIZE <= LEAVES
  /\ \E r \in Nat : LEAVES = r * TREE_CHUNK_SIZE
<1>1. TREE_CHUNK_SIZE \in Nat \ {0}
  BY ChunkAssumption
<1>2. PICK q \in 1 .. SHORT_LEN : SHORT_LEN = q * TREE_CHUNK_SIZE
  BY ChunkAssumption
<1>3. q \in Nat
  BY <1>2, LayoutAssumption
<1>4. \A a \in Nat \ {0}, b \in Nat : b >= 1 => b * a >= a
  OBVIOUS
<1>5. SHORT_LEN >= TREE_CHUNK_SIZE
  BY <1>1, <1>2, <1>3, <1>4, LayoutAssumption
<1>6. \E r \in Nat : LEAVES = r * TREE_CHUNK_SIZE
  BY <1>1, <1>2, <1>3, LeavesMultiple
<1> QED
  BY <1>1, <1>5, <1>6, LayoutSizes, LayoutAssumption

(* Expanding n written nodes below the prefix extends the prefix by their 2n  *)
(* children, each with the seed of its own path.                              *)
LEMMA ExpandExtendsPrefix ==
  ASSUME NEW t \in [Node -> Block], NEW from \in Nat, NEW n \in Nat,
         n <= from + 1,
         2 * from + 1 + 2 * n <= NODES,
         \A x \in Node : t[x] = IF x < 2 * from + 1 THEN x ELSE Uninit
  PROVE  /\ ExpandChunk(t, from, 2 * from + 1, n) \in [Node -> Block]
         /\ \A x \in Node :
              ExpandChunk(t, from, 2 * from + 1, n)[x] =
                IF x < 2 * (from + n) + 1 THEN x ELSE Uninit
<1> DEFINE to == 2 * from + 1
           new == ExpandChunk(t, from, to, n)
<1>1. NODES \in Nat
  BY LayoutSizes
<1>2. \A x \in Node : new[x] = IF to <= x /\ x < to + 2 * n
                               THEN Prg(ReadNode(t, from + (x - to) \div 2), (x - to) % 2)
                               ELSE t[x]
  BY DEF ExpandChunk
<1>3. ASSUME NEW x \in Node, to <= x, x < to + 2 * n
      PROVE  new[x] = x
  <2> DEFINE p == from + (x - to) \div 2
             b == (x - to) % 2
  <2>1. x \in Nat /\ to \in Nat
    BY <1>1 DEF Node
  <2>2. p \in Nat /\ p < from + n /\ b \in {0, 1} /\ x = 2 * p + 1 + b
    BY <1>3, <2>1
  <2>3. p < to /\ p \in Node
    BY <1>1, <1>3, <2>1, <2>2 DEF Node
  <2>4. ReadNode(t, p) = p
    BY <2>3 DEF ReadNode
  <2>5. Prg(p, b) = 2 * p + 1 + b
    BY <2>2 DEF Prg, Child
  <2> QED
    BY <1>2, <1>3, <2>2, <2>4, <2>5
<1>4. \A x \in Node : new[x] = IF x < 2 * (from + n) + 1 THEN x ELSE Uninit
  <2> TAKE x \in Node
  <2>1. x \in Nat
    BY <1>1 DEF Node
  <2>2. CASE to <= x /\ x < to + 2 * n
    BY <1>3, <2>1, <2>2
  <2>3. CASE ~(to <= x /\ x < to + 2 * n)
    BY <1>2, <2>1, <2>3
  <2> QED
    BY <2>2, <2>3
<1>5. \A x \in Node : new[x] \in Block
  <2> TAKE x \in Node
  <2>1. x \in Nat
    BY <1>1 DEF Node
  <2> QED
    BY <1>4, <2>1 DEF Block
<1>6. new \in [Node -> Block]
  BY <1>5 DEF ExpandChunk
<1> QED
  BY <1>4, <1>6

---------------------------------------------------------------------------
LEMMA TreeInvInit == CommitInit => TreeInv
<1> SUFFICES ASSUME CommitInit PROVE TreeInv
  OBVIOUS
<1> USE DEF CommitInit
<1>1. LEAVES \in Nat \ {0} /\ NODES \in Nat \ {0}
  BY LayoutSizes
<1>2. tree \in [Node -> Block]
  BY DEF Block
<1>3. Indexing
  BY <1>1, ChunkAssumption DEF Indexing
<1>4. Prefix
  BY <1>1 DEF Prefix, Node
<1> QED
  BY <1>2, <1>3, <1>4 DEF TreeInv

(* One expansion of n nodes, n at most the nodes written and not expanded.   *)
LEMMA ExpandStep ==
  ASSUME TreeInv, NEW n \in Nat, Expand(n),
         n <= next_to_expand_from + 1,
         next_to_expand_from + n + 1 <= LEAVES
  PROVE  /\ tree' \in [Node -> Block]
         /\ next_to_expand_from' \in Nat
         /\ next_to_expand_to' \in Nat
         /\ next_to_expand_from' = next_to_expand_from + n
         /\ next_to_expand_to' = 2 * next_to_expand_from' + 1
         /\ Prefix'
<1> DEFINE from == next_to_expand_from
<1>1. /\ tree \in [Node -> Block]
      /\ from \in Nat
      /\ next_to_expand_to = 2 * from + 1
      /\ \A x \in Node : tree[x] = IF x < 2 * from + 1 THEN x ELSE Uninit
  BY DEF TreeInv, Indexing, Prefix
<1>2. 2 * from + 1 + 2 * n <= NODES
  BY <1>1, LayoutSizes DEF NODES
<1>3. tree' = ExpandChunk(tree, from, 2 * from + 1, n)
  BY <1>1 DEF Expand
<1>4. /\ tree' \in [Node -> Block]
      /\ \A x \in Node : tree'[x] = IF x < 2 * (from + n) + 1 THEN x ELSE Uninit
  BY <1>1, <1>2, <1>3, ExpandExtendsPrefix
<1>5. /\ next_to_expand_from' = from + n
      /\ next_to_expand_to' = 2 * (from + n) + 1
  BY <1>1 DEF Expand
<1>6. Prefix'
  BY <1>4, <1>5 DEF Prefix
<1> QED
  BY <1>1, <1>4, <1>5, <1>6

LEMMA TreeInvExpandTop == TreeInv /\ ExpandTop => TreeInv'
<1> SUFFICES ASSUME TreeInv, ExpandTop PROVE TreeInv'
  OBVIOUS
<1> DEFINE n == chunck_size
<1>1. /\ n \in {1, 2, 4, 8, 16, 32}
      /\ n < TREE_CHUNK_SIZE
      /\ next_to_expand_from + 1 = n
      /\ next_to_expand_from \in Nat
  BY DEF TreeInv, Indexing, ExpandTop
<1>2. 2 * n <= TREE_CHUNK_SIZE /\ 2 * n \in {1, 2, 4, 8, 16, 32}
  BY <1>1, ChunkAssumption
<1>3. next_to_expand_from + n + 1 <= LEAVES
  BY <1>1, <1>2, WholeChunks, LayoutSizes
<1>4. Expand(n) /\ commit_pc = "double" /\ commit_pc' = "double" /\ chunck_size' = 2 * n
  BY DEF ExpandTop
<1>5. /\ tree' \in [Node -> Block]
      /\ next_to_expand_from' \in Nat
      /\ next_to_expand_to' \in Nat
      /\ next_to_expand_from' = next_to_expand_from + n
      /\ next_to_expand_to' = 2 * next_to_expand_from' + 1
      /\ Prefix'
  BY <1>1, <1>3, <1>4, ExpandStep
<1>6. Indexing'
  BY <1>1, <1>2, <1>3, <1>4, <1>5, LayoutSizes DEF Indexing
<1> QED
  BY <1>4, <1>5, <1>6 DEF TreeInv

LEMMA TreeInvEndTop == TreeInv /\ EndTop => TreeInv'
<1> SUFFICES ASSUME TreeInv, EndTop PROVE TreeInv'
  OBVIOUS
<1>1. next_to_expand_from + 1 = 1 * TREE_CHUNK_SIZE
  BY ChunkAssumption DEF TreeInv, Indexing, EndTop
<1>2. \E q \in Nat \ {0} : next_to_expand_from + 1 = q * TREE_CHUNK_SIZE
  BY <1>1
<1>3. Indexing' /\ Prefix'
  BY <1>2 DEF TreeInv, Indexing, Prefix, EndTop
<1> QED
  BY <1>3 DEF TreeInv, EndTop

(* The second loop never starts a chunk that does not fit.                   *)
LEMMA TreeInvExpandRest == TreeInv /\ ExpandRest => TreeInv'
<1> SUFFICES ASSUME TreeInv, ExpandRest PROVE TreeInv'
  OBVIOUS
<1> DEFINE c == TREE_CHUNK_SIZE
<1>1. PICK q \in Nat \ {0} : next_to_expand_from + 1 = q * c
  BY DEF TreeInv, Indexing, ExpandRest
<1>2. PICK r \in Nat : LEAVES = r * c
  BY WholeChunks
<1>3. next_to_expand_from \in Nat /\ next_to_expand_to = 2 * next_to_expand_from + 1
  BY DEF TreeInv, Indexing
<1>4. c \in {1, 2, 4, 8, 16, 32}
  BY ChunkAssumption
<1>5. 2 * (q * c) - 1 < 2 * (r * c) - 1 - c
  <2>1. next_to_expand_to < NODES - c
    BY <1>3, <1>4, LayoutSizes DEF ExpandRest, RestExpanded
  <2> QED
    BY <1>1, <1>2, <1>3, <2>1 DEF NODES
<1>6. q + 1 <= r /\ (q + 1) * c <= r * c /\ (q + 1) * c = q * c + c /\ c <= q * c
  BY <1>4, <1>5
<1>7. next_to_expand_from + c + 1 <= LEAVES /\ c <= next_to_expand_from + 1
  BY <1>1, <1>2, <1>3, <1>4, <1>6
<1>8. Expand(c) /\ commit_pc = "tree" /\ commit_pc' = "tree"
  BY DEF ExpandRest
<1>9. /\ tree' \in [Node -> Block]
      /\ next_to_expand_from' \in Nat
      /\ next_to_expand_to' \in Nat
      /\ next_to_expand_from' = next_to_expand_from + c
      /\ next_to_expand_to' = 2 * next_to_expand_from' + 1
      /\ Prefix'
  BY <1>4, <1>7, <1>8, ExpandStep
<1>10. next_to_expand_from' + 1 = (q + 1) * c /\ q + 1 \in Nat \ {0}
  BY <1>1, <1>3, <1>4, <1>6, <1>9
<1>11. next_to_expand_from' + 1 <= LEAVES
  BY <1>3, <1>4, <1>7, <1>9
<1>12. Indexing'
  BY <1>8, <1>9, <1>10, <1>11 DEF Indexing
<1> QED
  BY <1>8, <1>9, <1>12 DEF TreeInv

(* When the second loop ends, to_do is 0.                                    *)
LEMMA NothingToDo ==
  TreeInv /\ ExpandRemainder => /\ ToDo = 0
                                /\ next_to_expand_from + 1 = LEAVES
<1> SUFFICES ASSUME TreeInv, ExpandRemainder
             PROVE  ToDo = 0 /\ next_to_expand_from + 1 = LEAVES
  OBVIOUS
<1> DEFINE c == TREE_CHUNK_SIZE
<1>1. PICK q \in Nat \ {0} : next_to_expand_from + 1 = q * c
  BY DEF TreeInv, Indexing, ExpandRemainder
<1>2. PICK r \in Nat : LEAVES = r * c
  BY WholeChunks
<1>3. /\ next_to_expand_from \in Nat
      /\ next_to_expand_to = 2 * next_to_expand_from + 1
      /\ next_to_expand_from + 1 <= LEAVES
  BY DEF TreeInv, Indexing
<1>4. c \in {1, 2, 4, 8, 16, 32}
  BY ChunkAssumption
<1>5. 2 * (q * c) - 1 >= 2 * (r * c) - 1 - c /\ q * c <= r * c
  <2>1. next_to_expand_to >= NODES - c
    BY <1>3, <1>4, LayoutSizes DEF ExpandRemainder, RestExpanded
  <2> QED
    BY <1>1, <1>2, <1>3, <2>1 DEF NODES
<1>6. q = r
  BY <1>4, <1>5
<1>7. next_to_expand_from + 1 = LEAVES
  BY <1>1, <1>2, <1>6
<1>8. NODES - next_to_expand_to = 0
  BY <1>3, <1>7, LayoutSizes DEF NODES
<1> QED
  BY <1>4, <1>7, <1>8 DEF ToDo

LEMMA TreeInvExpandRemainder == TreeInv /\ ExpandRemainder => TreeInv'
<1> SUFFICES ASSUME TreeInv, ExpandRemainder PROVE TreeInv'
  OBVIOUS
<1>1. ToDo = 0 /\ next_to_expand_from + 1 = LEAVES
  BY NothingToDo
<1>2. /\ UNCHANGED <<tree, next_to_expand_from, next_to_expand_to>>
      /\ commit_pc' = "leaves"
  BY <1>1 DEF ExpandRemainder
<1>3. Indexing' /\ Prefix'
  BY <1>1, <1>2 DEF TreeInv, Indexing, Prefix
<1> QED
  BY <1>2, <1>3 DEF TreeInv

(* The steps after the expansion leave the heap alone.                       *)
LEMMA TreeInvOutput ==
  TreeInv /\ (HashLeafChunk \/ HashLastChunk \/ WriteOutput \/ CommitReturn) => TreeInv'
<1> SUFFICES ASSUME TreeInv, HashLeafChunk \/ HashLastChunk \/ WriteOutput \/ CommitReturn
             PROVE  TreeInv'
  OBVIOUS
<1>1. /\ UNCHANGED <<tree, next_to_expand_from, next_to_expand_to, chunck_size>>
      /\ commit_pc \notin {"double", "tree"}
      /\ commit_pc' \in {"leaves", "scatter", "done"}
  BY DEF HashLeafChunk, HashLastChunk, WriteOutput, CommitReturn
<1>2. Indexing' /\ Prefix'
  BY <1>1 DEF TreeInv, Indexing, Prefix
<1> QED
  BY <1>1, <1>2 DEF TreeInv

LEMMA TreeInvStep == TreeInv /\ [CommitNext]_commitVars => TreeInv'
<1> SUFFICES ASSUME TreeInv, [CommitNext]_commitVars PROVE TreeInv'
  OBVIOUS
<1>1. CASE UNCHANGED commitVars
  BY <1>1 DEF TreeInv, Indexing, Prefix, commitVars
<1> QED
  BY <1>1, TreeInvExpandTop, TreeInvEndTop, TreeInvExpandRest,
     TreeInvExpandRemainder, TreeInvOutput DEF CommitNext

LEMMA TreeInvImplies == TreeInv => TreeCorrect
<1> SUFFICES ASSUME TreeInv PROVE TreeCorrect
  OBVIOUS
<1>1. /\ next_to_expand_from \in Nat
      /\ next_to_expand_to = 2 * next_to_expand_from + 1
      /\ next_to_expand_from + 1 <= LEAVES
      /\ commit_pc \notin {"double", "tree"} => next_to_expand_from + 1 = LEAVES
  BY DEF TreeInv, Indexing
<1>2. next_to_expand_to <= NODES
  BY <1>1, LayoutSizes DEF NODES
<1>3. commit_pc \in {"leaves", "scatter", "done"} => next_to_expand_to = NODES
  BY <1>1, LayoutSizes DEF NODES
<1> QED
  BY <1>2, <1>3 DEF TreeCorrect, TreeInv, Prefix

(* batch_vector_commit writes every node once inside the buffer, each with    *)
(* the seed of its path, and has nothing to do when the chunk loop ends.      *)
THEOREM CommitTreeCorrect == CommitSpec => []TreeCorrect
<1>1. CommitSpec => []TreeInv
  BY TreeInvInit, TreeInvStep, PTL DEF CommitSpec
<1> QED
  BY <1>1, TreeInvImplies, PTL

---------------------------------------------------------------------------
(* The leaf chunks hashed so far; hashing starts when the tree is complete.  *)
Hashing ==
  /\ leaf_i \in 0 .. LEAVES /\ \E q \in Nat : leaf_i = q * LEAF_CHUNK_SIZE
  /\ prg_output \in [Slot -> Block]
  /\ \A k \in Slot : prg_output[k] = IF k < leaf_i THEN LEAVES - 1 + k ELSE Uninit
  /\ commit_pc \in {"double", "tree"} => leaf_i = 0
  /\ commit_pc \in {"scatter", "done"} => leaf_i >= LEAVES

(* The order of the output loops: they have passed this leaf when they stand *)
(* at the given one.                                                         *)
LeafBefore(at, vec, leaf) ==
  vec < at[1] \/ (vec = at[1] /\ leaf < at[2])

Passed(vec, leaf) == LeafBefore(scatter, vec, leaf)

ScatterOK ==
  \/ \E vec \in Vec : \E leaf \in Leaf(vec) : scatter = <<vec, leaf>>
  \/ scatter = <<BITS_PER_WITNESS, 0>>

(* The leaves scattered so far.                                              *)
Scattering ==
  /\ leaves \in [Slot -> Block]
  /\ hashed_leaves \in [Slot -> Block]
  /\ ScatterOK
  /\ \A vec \in Vec : \A leaf \in Leaf(vec) :
       /\ leaves[LeafPos(vec, leaf)] =
            IF Passed(vec, leaf) THEN PosInTree(vec, leaf) ELSE Uninit
       /\ hashed_leaves[HashPos(vec, leaf)] =
            IF Passed(vec, leaf) THEN PosInTree(vec, leaf) ELSE Uninit
  /\ commit_pc \notin {"scatter", "done"} => scatter = <<0, 0>>
  /\ commit_pc = "done" => scatter = <<BITS_PER_WITNESS, 0>>

CommitInv ==
  /\ TreeInv
  /\ chunck_size \in 1 .. TREE_CHUNK_SIZE
  /\ Hashing
  /\ Scattering

---------------------------------------------------------------------------
(* The first leaf exists, and a position of the heap is a block.             *)
LEMMA FirstLeaf == 0 \in Vec /\ 0 \in Leaf(0)
<1>1. 0 \in Vec
  BY LayoutAssumption DEF Vec
<1>2. VecLen(0) \in Nat \ {0}
  BY LayoutSizes, LayoutAssumption DEF VecLen
<1> QED
  BY <1>1, <1>2 DEF Leaf

LEMMA NotUninit ==
  ASSUME NEW vec \in Vec, NEW leaf \in Leaf(vec)
  PROVE  PosInTree(vec, leaf) \in Block /\ PosInTree(vec, leaf) # Uninit
<1>1. PosInTree(vec, leaf) \in Nat
  BY PosInTreeRange, LayoutSizes DEF Node, NODES
<1> QED
  BY <1>1 DEF Block, Uninit

LEMMA CommitInvInit == CommitInit => CommitInv
<1> SUFFICES ASSUME CommitInit PROVE CommitInv
  OBVIOUS
<1>1. TreeInv
  BY TreeInvInit
<1>2. Uninit \in Block
  BY DEF Block
<1>3. Hashing
  <2>1. 0 = 0 * LEAF_CHUNK_SIZE /\ 0 \in 0 .. LEAVES
    BY LayoutSizes, ChunkAssumption
  <2> QED
    BY <1>2, <2>1, LayoutSizes DEF CommitInit, Hashing, Slot
<1>4. ScatterOK
  BY FirstLeaf DEF CommitInit, ScatterOK
<1>5. ASSUME NEW vec \in Vec, NEW leaf \in Leaf(vec)
      PROVE  ~Passed(vec, leaf)
  BY LeafCases DEF CommitInit, Passed, LeafBefore
<1>6. Scattering
  BY <1>2, <1>4, <1>5, HashPosRange, LeafPosBijective DEF CommitInit, Scattering
<1>7. chunck_size \in 1 .. TREE_CHUNK_SIZE
  BY ChunkAssumption DEF CommitInit
<1> QED
  BY <1>1, <1>3, <1>6, <1>7 DEF CommitInv

---------------------------------------------------------------------------
(* The steps of the expansion leave the outputs alone.                       *)
LEMMA ExpansionKeepsOutputs ==
  CommitInv /\ (ExpandTop \/ EndTop \/ ExpandRest \/ ExpandRemainder)
    => chunck_size' \in 1 .. TREE_CHUNK_SIZE /\ Hashing' /\ Scattering'
<1> SUFFICES ASSUME CommitInv, ExpandTop \/ EndTop \/ ExpandRest \/ ExpandRemainder
             PROVE  chunck_size' \in 1 .. TREE_CHUNK_SIZE /\ Hashing' /\ Scattering'
  OBVIOUS
<1>1. /\ UNCHANGED <<prg_output, leaf_i, leaves, hashed_leaves, scatter>>
      /\ commit_pc \in {"double", "tree"}
      /\ commit_pc' \in {"double", "tree", "leaves"}
  BY DEF ExpandTop, EndTop, ExpandRest, ExpandRemainder
<1>2. chunck_size' \in 1 .. TREE_CHUNK_SIZE
  <2>1. CASE ExpandTop
    <3>1. /\ chunck_size \in {1, 2, 4, 8, 16, 32} /\ chunck_size < TREE_CHUNK_SIZE
          /\ chunck_size' = 2 * chunck_size
      BY <2>1 DEF CommitInv, TreeInv, Indexing, ExpandTop
    <3> QED
      BY <3>1, ChunkAssumption
  <2>2. CASE EndTop \/ ExpandRest \/ ExpandRemainder
    BY <2>2 DEF CommitInv, EndTop, ExpandRest, ExpandRemainder
  <2> QED
    BY <2>1, <2>2
<1>3. Hashing'
  BY <1>1 DEF CommitInv, Hashing
<1>4. Scattering'
  BY <1>1 DEF CommitInv, Scattering, ScatterOK, Passed, LeafBefore
<1> QED
  BY <1>2, <1>3, <1>4

(* A chunk of leaves hashed from the complete tree.                          *)
LEMMA HashedLeaf ==
  ASSUME CommitInv, commit_pc \in {"leaves", "scatter", "done"}, NEW k \in Slot
  PROVE  /\ LeafPrg(ReadNode(tree, LEAVES - 1 + k)) = LEAVES - 1 + k
         /\ LEAVES - 1 + k \in Block
         /\ k \in Nat /\ k < LEAVES
<1>1. LEAVES \in Nat \ {0} /\ k \in Nat /\ k < LEAVES
  BY LayoutSizes DEF Slot
<1>2. LEAVES - 1 + k \in Node /\ LEAVES - 1 + k \in Nat
  BY <1>1 DEF Node, NODES
<1>3. next_to_expand_to = NODES
  BY <1>1 DEF CommitInv, TreeInv, Indexing, NODES
<1>4. LEAVES - 1 + k < NODES
  BY <1>1 DEF NODES
<1>5. tree[LEAVES - 1 + k] = LEAVES - 1 + k
  BY <1>2, <1>3, <1>4 DEF CommitInv, TreeInv, Prefix
<1> QED
  BY <1>1, <1>2, <1>5 DEF LeafPrg, ReadNode, Zero, Block

LEMMA HashLeafChunkKeeps ==
  CommitInv /\ HashLeafChunk => Hashing' /\ Scattering' /\ leaf_i <= leaf_i'
<1> SUFFICES ASSUME CommitInv, HashLeafChunk
             PROVE  Hashing' /\ Scattering' /\ leaf_i <= leaf_i'
  OBVIOUS
<1>1. /\ commit_pc = "leaves" /\ commit_pc' = "leaves"
      /\ leaf_i \in Nat /\ leaf_i < LEAVES /\ leaf_i' = leaf_i + LEAF_CHUNK_SIZE
      /\ LEAF_CHUNK_SIZE \in Nat \ {0}
      /\ prg_output' = ExpandLeaves(prg_output, tree, leaf_i, LEAF_CHUNK_SIZE)
      /\ UNCHANGED <<leaves, hashed_leaves, scatter>>
  BY ChunkAssumption, LayoutSizes DEF HashLeafChunk, AllHashed, CommitInv, Hashing
<1>2. ASSUME NEW k \in Slot
      PROVE  /\ prg_output'[k] = IF k < leaf_i' THEN LEAVES - 1 + k ELSE Uninit
             /\ prg_output'[k] \in Block
  <2>1. prg_output'[k] = IF leaf_i <= k /\ k < leaf_i + LEAF_CHUNK_SIZE
                         THEN LEAVES - 1 + k ELSE prg_output[k]
    BY <1>1, HashedLeaf DEF ExpandLeaves
  <2>2. k \in Nat /\ LEAVES - 1 + k \in Block /\ Uninit \in Block
    BY <1>1, HashedLeaf DEF Block
  <2>3. prg_output[k] = IF k < leaf_i THEN LEAVES - 1 + k ELSE Uninit
    BY DEF CommitInv, Hashing
  <2> QED
    BY <1>1, <2>1, <2>2, <2>3
<1>3. prg_output' \in [Slot -> Block]
  BY <1>1, <1>2 DEF ExpandLeaves
<1>4. leaf_i' \in 0 .. LEAVES /\ \E q \in Nat : leaf_i' = q * LEAF_CHUNK_SIZE
  <2> DEFINE c == LEAF_CHUNK_SIZE
  <2>1. PICK q \in Nat : leaf_i = q * c
    BY DEF CommitInv, Hashing
  <2>2. PICK s \in 1 .. SHORT_LEN : SHORT_LEN = s * c
    BY ChunkAssumption
  <2>3. PICK r \in Nat : LEAVES = r * c
    BY <1>1, <2>2, LayoutAssumption, LeavesMultiple
  <2>4. q + 1 <= r
    <3>1. SUFFICES ASSUME r <= q PROVE FALSE
      BY <2>1, <2>3
    <3>2. c * r <= c * q
      BY <1>1, <3>1, MulMonotone
    <3>3. c * r = r * c /\ c * q = q * c
      BY <1>1
    <3> QED
      BY <1>1, <2>1, <2>3, <3>2, <3>3, LayoutSizes
  <2>5. c * (q + 1) <= c * r /\ c * (q + 1) = (q + 1) * c /\ c * r = r * c
        /\ (q + 1) * c = q * c + c
    BY <1>1, <2>4, MulMonotone
  <2>6. leaf_i' = (q + 1) * c /\ q + 1 \in Nat /\ leaf_i' <= LEAVES /\ leaf_i' \in Nat
    BY <1>1, <2>1, <2>3, <2>5, LayoutSizes
  <2> QED
    BY <2>6, LayoutSizes
<1>5. Hashing'
  BY <1>1, <1>2, <1>3, <1>4 DEF Hashing
<1>6. Scattering'
  BY <1>1 DEF CommitInv, Scattering, ScatterOK, Passed, LeafBefore
<1> QED
  BY <1>1, <1>5, <1>6

(* The last chunk changes nothing: every leaf it hashes is hashed already.   *)
LEMMA HashLastChunkKeeps ==
  CommitInv /\ HashLastChunk => Hashing' /\ Scattering' /\ prg_output' = prg_output
<1> SUFFICES ASSUME CommitInv, HashLastChunk
             PROVE  Hashing' /\ Scattering' /\ prg_output' = prg_output
  OBVIOUS
<1>1. /\ commit_pc = "leaves" /\ commit_pc' = "scatter"
      /\ leaf_i \in Nat /\ leaf_i >= LEAVES /\ leaf_i' = leaf_i
      /\ prg_output' = ExpandLeaves(prg_output, tree, LEAVES - 1 - LEAF_CHUNK_SIZE,
                                    LEAF_CHUNK_SIZE)
      /\ UNCHANGED <<leaves, hashed_leaves, scatter>>
  BY DEF HashLastChunk, AllHashed, CommitInv, Hashing
<1>2. ASSUME NEW k \in Slot
      PROVE  prg_output[k] = LEAVES - 1 + k /\ prg_output'[k] = LEAVES - 1 + k
  <2>1. k < leaf_i
    BY <1>1, HashedLeaf, LayoutSizes
  <2>2. prg_output[k] = LEAVES - 1 + k
    BY <2>1 DEF CommitInv, Hashing
  <2> QED
    BY <1>1, <2>2, HashedLeaf DEF ExpandLeaves
<1>3. prg_output \in [Slot -> Block] /\ prg_output' = [k \in Slot |-> prg_output'[k]]
  BY <1>1 DEF CommitInv, Hashing, ExpandLeaves
<1>4. prg_output' = prg_output
  BY <1>2, <1>3
<1>5. Hashing'
  BY <1>1, <1>4 DEF CommitInv, Hashing
<1>6. Scattering'
  BY <1>1 DEF CommitInv, Scattering, ScatterOK, Passed, LeafBefore
<1> QED
  BY <1>4, <1>5, <1>6

---------------------------------------------------------------------------
(* The output loops pass one leaf at a time and stop after the last one.     *)
LEMMA NextLeafOK ==
  ASSUME NEW v \in Vec, NEW x \in Leaf(v)
  PROVE  \/ \E vec \in Vec : \E leaf \in Leaf(vec) : NextLeaf(v, x) = <<vec, leaf>>
         \/ NextLeaf(v, x) = <<BITS_PER_WITNESS, 0>>
<1>1. /\ v \in Nat /\ v < BITS_PER_WITNESS /\ BITS_PER_WITNESS \in Nat /\ x \in Nat
      /\ VecLen(v) \in Nat
  BY LeafCases, LayoutSizes, LayoutAssumption DEF VecLen
<1>2. CASE x + 1 < VecLen(v)
  <2>1. x + 1 \in Leaf(v)
    BY <1>1, <1>2 DEF Leaf
  <2> QED
    BY <1>2, <2>1 DEF NextLeaf
<1>3. CASE ~(x + 1 < VecLen(v)) /\ v + 1 = BITS_PER_WITNESS
  BY <1>3 DEF NextLeaf
<1>4. CASE ~(x + 1 < VecLen(v)) /\ v + 1 # BITS_PER_WITNESS
  <2>1. v + 1 \in Vec
    BY <1>1, <1>4 DEF Vec
  <2>2. VecLen(v + 1) \in Nat \ {0}
    BY LayoutSizes, LayoutAssumption DEF VecLen
  <2>3. 0 \in Leaf(v + 1)
    BY <2>2 DEF Leaf
  <2> QED
    BY <1>4, <2>1, <2>3 DEF NextLeaf
<1> QED
  BY <1>2, <1>3, <1>4

LEMMA NextLeafOrder ==
  ASSUME NEW v \in Vec, NEW x \in Leaf(v), NEW vec \in Vec, NEW leaf \in Leaf(vec)
  PROVE  LeafBefore(NextLeaf(v, x), vec, leaf)
           <=> LeafBefore(<<v, x>>, vec, leaf) \/ (vec = v /\ leaf = x)
<1>1. /\ v \in Nat /\ v < BITS_PER_WITNESS /\ BITS_PER_WITNESS \in Nat /\ x \in Nat
      /\ VecLen(v) \in Nat \ {0} /\ x < VecLen(v)
  BY LeafCases, LayoutSizes, LayoutAssumption DEF VecLen
<1>2. vec \in Nat /\ leaf \in Nat
  BY LeafCases
<1>3. CASE x + 1 < VecLen(v)
  BY <1>1, <1>2, <1>3 DEF NextLeaf, LeafBefore
<1>4. CASE ~(x + 1 < VecLen(v))
  <2>1. vec = v => leaf <= x
    BY <1>1, <1>2, <1>4 DEF Leaf
  <2> QED
    BY <1>1, <1>2, <1>4, <2>1 DEF NextLeaf, LeafBefore
<1> QED
  BY <1>3, <1>4

LEMMA PassedNext ==
  ASSUME NEW v \in Vec, NEW x \in Leaf(v), scatter = <<v, x>>,
         scatter' = NextLeaf(v, x)
  PROVE  /\ ScatterOK'
         /\ \A vec \in Vec : \A leaf \in Leaf(vec) :
              Passed(vec, leaf)' <=> Passed(vec, leaf) \/ (vec = v /\ leaf = x)
<1>1. ScatterOK'
  BY NextLeafOK DEF ScatterOK
<1>2. \A vec \in Vec : \A leaf \in Leaf(vec) :
        Passed(vec, leaf)' <=> Passed(vec, leaf) \/ (vec = v /\ leaf = x)
  BY NextLeafOrder DEF Passed
<1> QED
  BY <1>1, <1>2

(* WriteOutput stores the key and the commitment of the leaf it stands on.   *)
LEMMA WriteOutputEffect ==
  ASSUME CommitInv, WriteOutput
  PROVE  \E v \in Vec : \E x \in Leaf(v) :
           /\ scatter = <<v, x>>
           /\ scatter' = NextLeaf(v, x)
           /\ leaves' = [leaves EXCEPT ![LeafPos(v, x)] = PosInTree(v, x)]
           /\ hashed_leaves' = [hashed_leaves EXCEPT ![HashPos(v, x)] = PosInTree(v, x)]
<1>1. commit_pc = "scatter" /\ scatter[1] < BITS_PER_WITNESS
  BY DEF WriteOutput
<1>2. PICK v \in Vec : \E x \in Leaf(v) : scatter = <<v, x>>
  BY <1>1, LayoutAssumption DEF CommitInv, Scattering, ScatterOK
<1>3. PICK x \in Leaf(v) : scatter = <<v, x>>
  BY <1>2
<1> DEFINE k == PosInTree(v, x) - LEAVES + 1
<1>4. k \in Slot /\ PosInTree(v, x) \in Nat
  BY PosInTreeRange, LayoutSizes DEF Node, NODES
<1>5. prg_output[k] = LEAVES - 1 + k
  BY <1>1, <1>4, LayoutSizes DEF CommitInv, Hashing, Slot
<1>6. prg_output[k] = PosInTree(v, x)
  BY <1>4, <1>5, LayoutSizes
<1>7. /\ scatter' = NextLeaf(v, x)
      /\ leaves' = [leaves EXCEPT ![LeafPos(v, x)] = prg_output[k]]
      /\ hashed_leaves' = [hashed_leaves EXCEPT ![HashPos(v, x)] = prg_output[k]]
  BY <1>3 DEF WriteOutput
<1> QED
  BY <1>3, <1>6, <1>7

LEMMA WriteOutputKeeps == CommitInv /\ WriteOutput => Hashing' /\ Scattering'
<1> SUFFICES ASSUME CommitInv, WriteOutput PROVE Hashing' /\ Scattering'
  OBVIOUS
<1>1. Hashing'
  BY DEF CommitInv, Hashing, WriteOutput
<1>2. PICK v \in Vec : \E x \in Leaf(v) :
        /\ scatter = <<v, x>>
        /\ scatter' = NextLeaf(v, x)
        /\ leaves' = [leaves EXCEPT ![LeafPos(v, x)] = PosInTree(v, x)]
        /\ hashed_leaves' = [hashed_leaves EXCEPT ![HashPos(v, x)] = PosInTree(v, x)]
  BY WriteOutputEffect
<1>3. PICK x \in Leaf(v) :
        /\ scatter = <<v, x>>
        /\ scatter' = NextLeaf(v, x)
        /\ leaves' = [leaves EXCEPT ![LeafPos(v, x)] = PosInTree(v, x)]
        /\ hashed_leaves' = [hashed_leaves EXCEPT ![HashPos(v, x)] = PosInTree(v, x)]
  BY <1>2
<1>4. /\ ScatterOK'
      /\ \A vec \in Vec : \A leaf \in Leaf(vec) :
           Passed(vec, leaf)' <=> Passed(vec, leaf) \/ (vec = v /\ leaf = x)
  BY <1>3, PassedNext
<1>5. leaves \in [Slot -> Block] /\ hashed_leaves \in [Slot -> Block]
  BY DEF CommitInv, Scattering
<1>6. leaves' \in [Slot -> Block] /\ hashed_leaves' \in [Slot -> Block]
  BY <1>3, <1>5, NotUninit, HashPosRange, LeafPosBijective
<1>7. ASSUME NEW vec \in Vec, NEW leaf \in Leaf(vec)
      PROVE  /\ leaves'[LeafPos(vec, leaf)] =
                  IF Passed(vec, leaf)' THEN PosInTree(vec, leaf) ELSE Uninit
             /\ hashed_leaves'[HashPos(vec, leaf)] =
                  IF Passed(vec, leaf)' THEN PosInTree(vec, leaf) ELSE Uninit
  <2>1. /\ leaves[LeafPos(vec, leaf)] =
             IF Passed(vec, leaf) THEN PosInTree(vec, leaf) ELSE Uninit
        /\ hashed_leaves[HashPos(vec, leaf)] =
             IF Passed(vec, leaf) THEN PosInTree(vec, leaf) ELSE Uninit
    BY DEF CommitInv, Scattering
  <2>2. CASE vec = v /\ leaf = x
    <3>1. LeafPos(vec, leaf) \in Slot /\ HashPos(vec, leaf) \in Slot
      BY HashPosRange, LeafPosBijective
    <3> QED
      BY <1>3, <1>4, <1>5, <2>2, <3>1
  <2>3. CASE ~(vec = v /\ leaf = x)
    <3>1. LeafPos(vec, leaf) # LeafPos(v, x)
      BY <2>3, LeafPosBijective
    <3>2. HashPos(vec, leaf) # HashPos(v, x)
      BY <2>3, HashPosInjective
    <3>3. LeafPos(vec, leaf) \in Slot /\ HashPos(vec, leaf) \in Slot
      BY HashPosRange, LeafPosBijective
    <3>4. Passed(vec, leaf)' <=> Passed(vec, leaf)
      BY <1>4, <2>3
    <3> QED
      BY <1>3, <1>5, <2>1, <3>1, <3>2, <3>3, <3>4
  <2> QED
    BY <2>2, <2>3
<1>8. commit_pc' = "scatter"
  BY DEF WriteOutput
<1>9. Scattering'
  BY <1>4, <1>6, <1>7, <1>8 DEF Scattering
<1> QED
  BY <1>1, <1>9

LEMMA CommitReturnKeeps == CommitInv /\ CommitReturn => Hashing' /\ Scattering'
<1> SUFFICES ASSUME CommitInv, CommitReturn PROVE Hashing' /\ Scattering'
  OBVIOUS
<1>1. /\ commit_pc = "scatter" /\ commit_pc' = "done"
      /\ scatter[1] = BITS_PER_WITNESS
      /\ UNCHANGED <<prg_output, leaf_i, leaves, hashed_leaves, scatter>>
  BY DEF CommitReturn
<1>2. scatter = <<BITS_PER_WITNESS, 0>>
  BY <1>1, LayoutAssumption DEF CommitInv, Scattering, ScatterOK, Vec
<1>3. Hashing'
  BY <1>1 DEF CommitInv, Hashing
<1>4. Scattering'
  BY <1>1, <1>2 DEF CommitInv, Scattering, ScatterOK, Passed, LeafBefore
<1> QED
  BY <1>3, <1>4

LEMMA CommitInvStep == CommitInv /\ [CommitNext]_commitVars => CommitInv'
<1> SUFFICES ASSUME CommitInv, [CommitNext]_commitVars PROVE CommitInv'
  OBVIOUS
<1>1. TreeInv'
  BY TreeInvStep DEF CommitInv
<1>2. CASE ExpandTop \/ EndTop \/ ExpandRest \/ ExpandRemainder
  BY <1>1, <1>2, ExpansionKeepsOutputs DEF CommitInv
<1>3. CASE HashLeafChunk \/ HashLastChunk \/ WriteOutput \/ CommitReturn
  <2>1. chunck_size' \in 1 .. TREE_CHUNK_SIZE
    BY <1>3 DEF CommitInv, HashLeafChunk, HashLastChunk, WriteOutput, CommitReturn
  <2> QED
    BY <1>1, <1>3, <2>1, HashLeafChunkKeeps, HashLastChunkKeeps, WriteOutputKeeps,
       CommitReturnKeeps DEF CommitInv
<1>4. CASE UNCHANGED commitVars
  BY <1>1, <1>4 DEF CommitInv, Hashing, Scattering, ScatterOK, Passed, LeafBefore, commitVars
<1> QED
  BY <1>2, <1>3, <1>4 DEF CommitNext

LEMMA CommitInvImplies == CommitInv => CommitTypeOK /\ TreeCorrect /\ OutputsCorrect
<1> SUFFICES ASSUME CommitInv PROVE CommitTypeOK /\ TreeCorrect /\ OutputsCorrect
  OBVIOUS
<1>1. TreeCorrect
  BY TreeInvImplies DEF CommitInv
<1>2. CommitTypeOK
  <2>1. next_to_expand_from \in 0 .. LEAVES - 1 /\ next_to_expand_to \in 1 .. NODES
    <3>1. /\ next_to_expand_from \in Nat /\ next_to_expand_from + 1 <= LEAVES
          /\ next_to_expand_to = 2 * next_to_expand_from + 1
      BY DEF CommitInv, TreeInv, Indexing
    <3> QED
      BY <3>1, LayoutSizes DEF NODES
  <2> QED
    BY <2>1 DEF CommitInv, TreeInv, Hashing, Scattering, ScatterOK, CommitTypeOK
<1>3. ASSUME commit_pc = "done", NEW vec \in Vec, NEW leaf \in Leaf(vec)
      PROVE  /\ leaves[LeafPos(vec, leaf)] = PosInTree(vec, leaf)
             /\ hashed_leaves[HashPos(vec, leaf)] = PosInTree(vec, leaf)
  <2>1. Passed(vec, leaf)
    BY <1>3, LeafCases DEF CommitInv, Scattering, Passed, LeafBefore
  <2> QED
    BY <2>1 DEF CommitInv, Scattering
<1>4. ASSUME commit_pc = "done", NEW s \in Slot
      PROVE  leaves[s] # Uninit /\ hashed_leaves[s] # Uninit
  BY <1>3, <1>4, HashPosOnto, LeafPosBijective, NotUninit
<1>5. OutputsCorrect
  BY <1>3, <1>4 DEF OutputsCorrect
<1> QED
  BY <1>1, <1>2, <1>5

---------------------------------------------------------------------------
(* A step of the expansion moves next_to_expand_to forward.                  *)
LEMMA ExpansionAdvances ==
  ASSUME CommitInv, CommitNext
  PROVE  next_to_expand_to <= next_to_expand_to'
<1>1. next_to_expand_to \in Nat /\ chunck_size \in Nat /\ TREE_CHUNK_SIZE \in Nat
  BY WholeChunks, ChunkAssumption DEF CommitInv, TreeInv
<1>2. CASE ExpandTop
  BY <1>1, <1>2 DEF ExpandTop, Expand
<1>3. CASE ExpandRest
  BY <1>1, <1>3 DEF ExpandRest, Expand
<1>4. CASE ExpandRemainder
  BY <1>1, <1>4, NothingToDo DEF CommitInv, ExpandRemainder
<1>5. CASE EndTop \/ HashLeafChunk \/ HashLastChunk \/ WriteOutput \/ CommitReturn
  BY <1>1, <1>5 DEF EndTop, HashLeafChunk, HashLastChunk, WriteOutput, CommitReturn
<1> QED
  BY <1>2, <1>3, <1>4, <1>5 DEF CommitNext

(* Only HashLeafChunk and HashLastChunk touch prg_output.                    *)
LEMMA HashedOnce ==
  ASSUME CommitInv, CommitNext, NEW s \in Slot, prg_output[s] # Uninit
  PROVE  prg_output'[s] = prg_output[s]
<1>1. CASE HashLeafChunk
  <2>1. Hashing /\ Hashing' /\ leaf_i <= leaf_i'
    BY <1>1, HashLeafChunkKeeps DEF CommitInv
  <2> QED
    BY <2>1, LayoutSizes DEF Hashing, Slot
<1>2. CASE HashLastChunk
  BY <1>2, HashLastChunkKeeps
<1>3. CASE ~HashLeafChunk /\ ~HashLastChunk
  BY <1>3 DEF CommitNext, ExpandTop, EndTop, ExpandRest, ExpandRemainder,
              WriteOutput, CommitReturn
<1> QED
  BY <1>1, <1>2, <1>3

(* WriteOutput writes entries of a leaf that was not passed before.          *)
LEMMA ScatteredOnce ==
  ASSUME CommitInv, CommitNext, NEW s \in Slot
  PROVE  /\ leaves[s] # Uninit => leaves'[s] = leaves[s]
         /\ hashed_leaves[s] # Uninit => hashed_leaves'[s] = hashed_leaves[s]
<1>1. CASE WriteOutput
  <2>1. PICK v \in Vec : \E x \in Leaf(v) :
          /\ scatter = <<v, x>>
          /\ leaves' = [leaves EXCEPT ![LeafPos(v, x)] = PosInTree(v, x)]
          /\ hashed_leaves' = [hashed_leaves EXCEPT ![HashPos(v, x)] = PosInTree(v, x)]
    BY <1>1, WriteOutputEffect
  <2>2. PICK x \in Leaf(v) :
          /\ scatter = <<v, x>>
          /\ leaves' = [leaves EXCEPT ![LeafPos(v, x)] = PosInTree(v, x)]
          /\ hashed_leaves' = [hashed_leaves EXCEPT ![HashPos(v, x)] = PosInTree(v, x)]
    BY <2>1
  <2>3. ~Passed(v, x)
    BY <2>2, LeafCases DEF Passed, LeafBefore
  <2>4. leaves[LeafPos(v, x)] = Uninit /\ hashed_leaves[HashPos(v, x)] = Uninit
    BY <2>3 DEF CommitInv, Scattering
  <2>5. leaves \in [Slot -> Block] /\ hashed_leaves \in [Slot -> Block]
    BY DEF CommitInv, Scattering
  <2> QED
    BY <2>2, <2>4, <2>5
<1>2. CASE ~WriteOutput
  BY <1>2 DEF CommitNext, ExpandTop, EndTop, ExpandRest, ExpandRemainder,
              HashLeafChunk, HashLastChunk, CommitReturn
<1> QED
  BY <1>1, <1>2

LEMMA WrittenOnceStep ==
  ASSUME CommitInv, CommitNext
  PROVE  /\ \A x \in Node : tree[x] # Uninit => tree'[x] = tree[x]
         /\ \A s \in Slot :
              /\ prg_output[s] # Uninit => prg_output'[s] = prg_output[s]
              /\ leaves[s] # Uninit => leaves'[s] = leaves[s]
              /\ hashed_leaves[s] # Uninit => hashed_leaves'[s] = hashed_leaves[s]
<1>1. TreeInv /\ TreeInv'
  BY TreeInvStep DEF CommitInv
<1>2. next_to_expand_to <= next_to_expand_to'
  BY ExpansionAdvances
<1>3. ASSUME NEW x \in Node, tree[x] # Uninit
      PROVE  tree'[x] = tree[x]
  BY <1>1, <1>2, <1>3, LayoutSizes DEF TreeInv, Prefix, Node
<1> QED
  BY <1>3, HashedOnce, ScatteredOnce

---------------------------------------------------------------------------
(* The heap, the arrays and the counters of batch_vector_commit stay in      *)
(* their types, and its outputs are complete and in the right order when it  *)
(* returns.                                                                  *)
THEOREM CommitCorrect ==
  CommitSpec => [](CommitTypeOK /\ TreeCorrect /\ OutputsCorrect)
<1>1. CommitSpec => []CommitInv
  BY CommitInvInit, CommitInvStep, PTL DEF CommitSpec
<1> QED
  BY <1>1, CommitInvImplies, PTL

(* batch_vector_commit never changes a block it has written.                 *)
THEOREM CommitWrittenOnce == CommitSpec => WrittenOnce
<1>1. CommitSpec => []CommitInv
  BY CommitInvInit, CommitInvStep, PTL DEF CommitSpec
<1>2. CommitInv /\ [CommitNext]_commitVars =>
        [ /\ \A x \in Node : tree[x] # Uninit => tree'[x] = tree[x]
          /\ \A s \in Slot :
               /\ prg_output[s] # Uninit => prg_output'[s] = prg_output[s]
               /\ leaves[s] # Uninit => leaves'[s] = leaves[s]
               /\ hashed_leaves[s] # Uninit => hashed_leaves'[s] = hashed_leaves[s]
        ]_commitVars
  BY WrittenOnceStep
<1> QED
  BY <1>1, <1>2, PTL DEF CommitSpec, WrittenOnce

---------------------------------------------------------------------------

(* A step of the system is a step of batch_vector_commit or leaves it alone. *)
LEMMA StepCommits == [Next]_vars => [CommitNext]_commitVars
BY DEF Next, vars, SignerCommits, SignerChallenged, SignerOpens,
       VerifierReceives, VerifierVerifies

LEMMA VCCommitInv == Spec => []CommitInv
<1>1. Init => CommitInv
  BY CommitInvInit DEF Init
<1>2. CommitInv /\ [Next]_vars => CommitInv'
  BY StepCommits, CommitInvStep
<1> QED
  BY <1>1, <1>2, PTL DEF Spec

(* Whatever the opening and the verifier do, the heap of the signer is        *)
(* correct and stays inside its buffer.                                       *)
THEOREM VCTreeCorrect == Spec => []TreeCorrect
<1>1. CommitInv => TreeCorrect
  BY CommitInvImplies
<1> QED
  BY <1>1, VCCommitInv, PTL

(* The outputs of batch_vector_commit are complete and in the right order.   *)
THEOREM VCOutputsCorrect == Spec => []OutputsCorrect
<1>1. CommitInv => OutputsCorrect
  BY CommitInvImplies
<1> QED
  BY <1>1, VCCommitInv, PTL

(* No block of the commitment is ever overwritten.                           *)
THEOREM VCWrittenOnce == Spec => WrittenOnce
<1> DEFINE Once ==
      /\ \A x \in Node : tree[x] # Uninit => tree'[x] = tree[x]
      /\ \A s \in Slot :
           /\ prg_output[s] # Uninit => prg_output'[s] = prg_output[s]
           /\ leaves[s] # Uninit => leaves'[s] = leaves[s]
           /\ hashed_leaves[s] # Uninit => hashed_leaves'[s] = hashed_leaves[s]
<1>1. CommitInv /\ [Next]_vars => [Once]_commitVars
  BY StepCommits, WrittenOnceStep
<1> QED
  BY <1>1, VCCommitInv, PTL DEF Spec, WrittenOnce

---------------------------------------------------------------------------
(* Where the loops of the opening and of the verifier stand.                 *)
OpenLoops ==
  /\ open_pc \in {"idle", "refused", "mark", "climb", "reveal", "opened"}
  /\ open_pc = "reveal" => node_i \in -1 .. LEAVES - 2

VerifyLoops ==
  /\ v_read \in 0 .. OpeningSize
  /\ v_i \in -1 .. LEAVES - 1 \/ verify_pc = "mark"
  /\ verify_pc = "idle" => v_read = 0 /\ v_i = 0
  /\ verify_pc = "mark" => v_i \in 0 .. BITS_PER_WITNESS /\ v_read = v_i
  /\ verify_pc = "up" => v_i \in -1 .. LEAVES - 2
  /\ verify_pc = "down" => v_i \in 0 .. LEAVES - 1
  /\ \/ \E vec \in Vec : \E leaf \in Leaf(vec) : v_leaf = <<vec, leaf>>
     \/ v_leaf = <<BITS_PER_WITNESS, 0>>

OpenType ==
  /\ delta \in Delta
  /\ dont_reveal \in [Node -> BOOLEAN]
  /\ opening \in [OpeningSlot -> Block]

VerifyType ==
  /\ v_delta \in Delta
  /\ v_dont_reveal \in [Node -> BOOLEAN]
  /\ v_opening \in [OpeningSlot -> Block]
  /\ v_tree \in [Node -> Block]
  /\ v_leaves \in [Slot -> Block] /\ v_hashed \in [Slot -> Block]
  /\ v_allocated \in BOOLEAN
  /\ verify_pc \in {"idle", "mark", "up", "down", "accepted", "rejected"}

VCInv == CommitInv /\ OpenType /\ OpenLoops /\ VerifyType /\ VerifyLoops

---------------------------------------------------------------------------
(* Facts about the operators the steps are made of.                          *)
LEMMA Specials == Uninit \in Block /\ Zero \in Block /\ Junk \in Block
BY DEF Block

LEMMA ChildrenInHeap ==
  ASSUME NEW i \in 0 .. LEAVES - 2
  PROVE  Child(i, 0) \in Node /\ Child(i, 1) \in Node
BY LayoutSizes DEF Child, Node, NODES

LEMMA PropagateType ==
  ASSUME NEW marks \in [Node -> BOOLEAN], NEW i \in 0 .. LEAVES - 2
  PROVE  Propagate(marks, i) \in [Node -> BOOLEAN]
<1>1. marks[Child(i, 0)] \in BOOLEAN /\ marks[Child(i, 1)] \in BOOLEAN
  BY ChildrenInHeap
<1>2. (marks[Child(i, 0)] \/ marks[Child(i, 1)]) \in BOOLEAN
  BY <1>1
<1> QED
  BY <1>2 DEF Propagate

LEMMA RevealedChildInHeap ==
  ASSUME NEW marks, NEW i \in 0 .. LEAVES - 2
  PROVE  RevealedChild(marks, i) \in Node
<1>1. CASE marks[Child(i, 0)]
  BY <1>1, ChildrenInHeap DEF RevealedChild
<1>2. CASE ~marks[Child(i, 0)]
  BY <1>2, ChildrenInHeap DEF RevealedChild
<1> QED
  BY <1>1, <1>2

LEMMA ExpandChunkType ==
  ASSUME NEW t \in [Node -> Block], NEW from \in Nat, NEW to \in Nat, NEW n \in Nat
  PROVE  ExpandChunk(t, from, to, n) \in [Node -> Block]
<1>1. \A x : ReadNode(t, x) \in Block
  BY Specials DEF ReadNode
<1>2. \A v \in Block, b \in {0, 1} : Prg(v, b) \in Block
  BY Specials DEF Prg, Child, Block, Uninit, Zero, Junk
<1>3. ASSUME NEW x \in Node, to <= x
      PROVE  (x - to) % 2 \in {0, 1}
  BY <1>3, LayoutSizes DEF Node
<1> QED
  BY <1>1, <1>2, <1>3 DEF ExpandChunk

LEMMA LeafPrgType == \A v \in Block : LeafPrg(v) \in Block
BY Specials DEF LeafPrg

(* The index delta hides in a vector is one of its leaves.                   *)
LEMMA HiddenIndex ==
  ASSUME NEW d \in Delta, NEW vec \in Vec
  PROVE  d.index[vec] \in Leaf(vec)
BY DEF Delta

LEMMA OpeningSizes ==
  /\ OpeningSize \in Nat /\ BITS_PER_WITNESS \in Nat
  /\ BITS_PER_WITNESS <= OpeningSize
BY LayoutAssumption, OpenAssumption DEF OpeningSize

---------------------------------------------------------------------------
LEMMA VCInvInit == Init => VCInv
<1> SUFFICES ASSUME Init PROVE VCInv
  OBVIOUS
<1> USE DEF Init
<1>1. CommitInv
  BY CommitInvInit
<1>2. [index |-> [vec \in Vec |-> 0], topZero |-> TRUE] \in Delta
  <2>1. \A vec \in Vec : 0 \in Leaf(vec)
    <3>1. \A vec \in Vec : VecLen(vec) \in Nat \ {0}
      BY LayoutSizes, LayoutAssumption DEF VecLen
    <3> QED
      BY <3>1 DEF Leaf
  <2>2. 0 \in 0 .. LONG_LEN - 1
    BY LayoutSizes
  <2> QED
    BY <2>1, <2>2 DEF Delta
<1>3. OpenType /\ OpenLoops
  BY <1>2, Specials DEF OpenInit, OpenType, OpenLoops, NoMarks, EmptyOpening
<1>4. VerifyType
  BY <1>2, Specials
     DEF VerifyInit, VerifyType, NoMarks, EmptyOpening, UninitTree, UninitSlots
<1>5. VerifyLoops
  <2>1. 0 \in 0 .. OpeningSize /\ 0 \in -1 .. LEAVES - 1
    BY OpeningSizes, LayoutSizes
  <2> QED
    BY <2>1, FirstLeaf DEF VerifyInit, VerifyLoops
<1> QED
  BY <1>1, <1>3, <1>4, <1>5 DEF VCInv

---------------------------------------------------------------------------
(* One lemma per step of the opening.                                        *)
LEMMA OpenCallKeeps ==
  ASSUME VCInv, NEW d \in Delta, OpenCall(d)
  PROVE  OpenType' /\ OpenLoops'
BY DEF VCInv, OpenType, OpenLoops, OpenCall, NoMarks

LEMMA MarkLeafKeeps == VCInv /\ MarkLeaf => OpenType' /\ OpenLoops'
BY DEF VCInv, OpenType, OpenLoops, MarkLeaf

LEMMA MarkParentKeeps == VCInv /\ MarkParent => OpenType' /\ OpenLoops'
BY DEF VCInv, OpenType, OpenLoops, MarkParent

LEMMA EndMarkKeeps == VCInv /\ (EndClimb \/ RefuseTooLong) => OpenType' /\ OpenLoops'
BY DEF VCInv, OpenType, OpenLoops, EndClimb, RefuseTooLong

LEMMA WriteCommitmentsKeeps == VCInv /\ WriteCommitments => OpenType' /\ OpenLoops'
<1> SUFFICES ASSUME VCInv, WriteCommitments PROVE OpenType' /\ OpenLoops'
  OBVIOUS
<1>1. ASSUME NEW s \in OpeningSlot, s < BITS_PER_WITNESS
      PROVE  hashed_leaves[HashPos(s, delta.index[s])] \in Block
  <2>1. s \in Vec
    BY <1>1, OpeningSizes DEF OpeningSlot, Vec
  <2>2. HashPos(s, delta.index[s]) \in Slot
    BY <2>1, HiddenIndex, HashPosRange DEF VCInv, OpenType
  <2> QED
    BY <2>2 DEF VCInv, CommitInv, Scattering
<1>2. opening' \in [OpeningSlot -> Block]
  BY <1>1 DEF WriteCommitments, VCInv, OpenType
<1>3. node_i' \in -1 .. LEAVES - 2 /\ open_pc' = "reveal"
  BY LayoutSizes DEF WriteCommitments, NODES
<1> QED
  BY <1>2, <1>3 DEF WriteCommitments, VCInv, OpenType, OpenLoops

LEMMA RevealNodeKeeps == VCInv /\ RevealNode => OpenType' /\ OpenLoops'
<1> SUFFICES ASSUME VCInv, RevealNode PROVE OpenType' /\ OpenLoops'
  OBVIOUS
<1>1. node_i \in 0 .. LEAVES - 2 /\ node_i' = node_i - 1
  BY LayoutSizes DEF VCInv, OpenLoops, RevealNode
<1>2. dont_reveal' \in [Node -> BOOLEAN]
  BY <1>1, PropagateType DEF VCInv, OpenType, RevealNode
<1>3. tree[RevealedChild(dont_reveal, node_i)] \in Block
  BY <1>1, RevealedChildInHeap DEF VCInv, CommitInv, TreeInv
<1>4. opening' \in [OpeningSlot -> Block]
  BY <1>3 DEF VCInv, OpenType, RevealNode
<1>5. node_i' \in -1 .. LEAVES - 2
  BY <1>1, LayoutSizes
<1> QED
  BY <1>2, <1>4, <1>5 DEF VCInv, OpenType, OpenLoops, RevealNode

LEMMA OpenReturnKeeps == VCInv /\ OpenReturn => OpenType' /\ OpenLoops'
BY Specials DEF VCInv, OpenType, OpenLoops, OpenReturn

LEMMA OpenStepKeeps == VCInv /\ OpenStep => OpenType' /\ OpenLoops'
BY MarkLeafKeeps, MarkParentKeeps, EndMarkKeeps, WriteCommitmentsKeeps,
   RevealNodeKeeps, OpenReturnKeeps DEF OpenStep

---------------------------------------------------------------------------
(* One lemma per step of the verifier.                                       *)
LEMMA ReceivedType ==
  ASSUME VCInv, NEW r \in Received
  PROVE  r[1] \in Delta /\ r[2] \in [OpeningSlot -> Block]
<1>1. delta \in Delta /\ opening \in [OpeningSlot -> Block]
  BY DEF VCInv, OpenType
<1>2. ASSUME NEW o \in Altered(opening)
      PROVE  o \in [OpeningSlot -> Block]
  <2>1. CASE \E s \in OpeningSlot, b \in {Zero, Junk} : o = [opening EXCEPT ![s] = b]
    BY <1>1, <2>1, Specials
  <2>2. CASE \E s, t \in SeedSlot : o = Swap(opening, s, t)
    <3>1. PICK s \in SeedSlot, t \in SeedSlot : o = Swap(opening, s, t)
      BY <2>2
    <3>2. s \in OpeningSlot /\ t \in OpeningSlot
      BY OpeningSizes DEF SeedSlot, OpeningSlot
    <3> QED
      BY <1>1, <3>1, <3>2 DEF Swap
  <2> QED
    BY <1>2, <2>1, <2>2 DEF Altered
<1> QED
  BY <1>1, <1>2 DEF Received

LEMMA VerifyCallKeeps ==
  ASSUME VCInv, NEW r \in Received, VerifyCall(r[1], r[2])
  PROVE  VerifyType' /\ VerifyLoops'
<1>1. r[1] \in Delta /\ r[2] \in [OpeningSlot -> Block]
  BY ReceivedType
<1>2. VerifyType'
  BY <1>1 DEF VCInv, VerifyType, VerifyCall
<1>3. VerifyLoops'
  BY OpeningSizes DEF VCInv, VerifyLoops, VerifyCall
<1> QED
  BY <1>2, <1>3

LEMMA CopyCommitmentKeeps == VCInv /\ CopyCommitment => VerifyType' /\ VerifyLoops'
<1> SUFFICES ASSUME VCInv, CopyCommitment PROVE VerifyType' /\ VerifyLoops'
  OBVIOUS
<1>1. /\ verify_pc = "mark" /\ verify_pc' = "mark"
      /\ v_i \in 0 .. BITS_PER_WITNESS /\ v_i < BITS_PER_WITNESS /\ v_read = v_i
      /\ v_i' = v_i + 1 /\ v_read' = v_read + 1
  BY DEF VCInv, VerifyLoops, CopyCommitment
<1>2. v_opening[v_read] \in Block
  BY <1>1, OpeningSizes DEF VCInv, VerifyType, OpeningSlot
<1>3. VerifyType'
  BY <1>1, <1>2, Specials DEF VCInv, VerifyType, CopyCommitment
<1>4. VerifyLoops'
  BY <1>1, OpeningSizes DEF VCInv, VerifyLoops, CopyCommitment
<1> QED
  BY <1>3, <1>4

LEMMA StartUpKeeps == VCInv /\ StartUp => VerifyType' /\ VerifyLoops'
BY LayoutSizes DEF VCInv, VerifyType, VerifyLoops, StartUp

LEMMA ReadSeedKeeps == VCInv /\ ReadSeed => VerifyType' /\ VerifyLoops'
<1> SUFFICES ASSUME VCInv, ReadSeed PROVE VerifyType' /\ VerifyLoops'
  OBVIOUS
<1>1. verify_pc = "up" /\ v_i \in 0 .. LEAVES - 2 /\ v_read \in Nat
  BY LayoutSizes DEF VCInv, VerifyLoops, ReadSeed
<1>2. v_dont_reveal' \in [Node -> BOOLEAN]
  BY <1>1, PropagateType DEF VCInv, VerifyType, ReadSeed
<1>3. v_read < OpeningSize => v_opening[v_read] \in Block
  BY <1>1, OpeningSizes DEF VCInv, VerifyType, OpeningSlot
<1>4. v_tree' \in [Node -> Block]
  BY <1>1, <1>3, OpeningSizes DEF VCInv, VerifyType, ReadSeed
<1>5. verify_pc' \in {"up", "rejected"}
  BY <1>1 DEF ReadSeed, Return
<1>6. verify_pc' = "up" => v_i' = v_i - 1
  BY <1>1 DEF ReadSeed, Return
<1>7. v_read' \in 0 .. OpeningSize
  BY <1>1, OpeningSizes DEF ReadSeed, VCInv, VerifyLoops
<1>8. v_allocated' \in BOOLEAN
  BY DEF ReadSeed, Return, VCInv, VerifyType
<1>9. VerifyType'
  BY <1>2, <1>4, <1>5, <1>8 DEF VCInv, VerifyType, ReadSeed
<1>10. verify_pc' = "rejected" => v_i' \in -1 .. LEAVES - 1
  <2>1. v_i' = v_i \/ v_i' = v_i - 1
    BY DEF ReadSeed
  <2> QED
    BY <1>1, <2>1, LayoutSizes
<1>11. v_leaf' = v_leaf
  BY DEF ReadSeed
<1>12. VerifyLoops'
  BY <1>1, <1>5, <1>6, <1>7, <1>10, <1>11, LayoutSizes DEF VCInv, VerifyLoops
<1> QED
  BY <1>9, <1>12

LEMMA CheckPaddingKeeps == VCInv /\ CheckPadding => VerifyType' /\ VerifyLoops'
<1> SUFFICES ASSUME VCInv, CheckPadding PROVE VerifyType' /\ VerifyLoops'
  OBVIOUS
<1>1. /\ verify_pc = "up" /\ verify_pc' \in {"up", "rejected"}
      /\ v_allocated' \in BOOLEAN
  BY DEF CheckPadding, Return, VCInv, VerifyType
<1>2. v_read' \in 0 .. OpeningSize
  BY OpeningSizes DEF VCInv, VerifyLoops, CheckPadding
<1>3. VerifyType'
  BY <1>1 DEF VCInv, VerifyType, CheckPadding
<1>4. VerifyLoops'
  BY <1>1, <1>2 DEF VCInv, VerifyLoops, CheckPadding
<1> QED
  BY <1>3, <1>4

LEMMA StartDownKeeps == VCInv /\ StartDown => VerifyType' /\ VerifyLoops'
BY LayoutSizes DEF VCInv, VerifyType, VerifyLoops, StartDown

LEMMA ExpandRevealedKeeps == VCInv /\ ExpandRevealed => VerifyType' /\ VerifyLoops'
<1> SUFFICES ASSUME VCInv, ExpandRevealed PROVE VerifyType' /\ VerifyLoops'
  OBVIOUS
<1>1. /\ verify_pc = "down" /\ verify_pc' = "down"
      /\ v_i \in 0 .. LEAVES - 2 /\ v_i' = v_i + 1
  BY LayoutSizes DEF VCInv, VerifyLoops, ExpandRevealed, NODES
<1>2. v_i \in Nat /\ Child(v_i, 0) \in Nat
  BY <1>1, LayoutSizes DEF Child
<1>3. v_tree' \in [Node -> Block]
  BY <1>2, ExpandChunkType DEF VCInv, VerifyType, ExpandRevealed
<1>4. VerifyType'
  BY <1>1, <1>3 DEF VCInv, VerifyType, ExpandRevealed
<1>5. VerifyLoops'
  BY <1>1, LayoutSizes DEF VCInv, VerifyLoops, ExpandRevealed
<1> QED
  BY <1>4, <1>5

LEMMA WriteLeafKeeps == VCInv /\ WriteLeaf => VerifyType' /\ VerifyLoops'
<1> SUFFICES ASSUME VCInv, WriteLeaf PROVE VerifyType' /\ VerifyLoops'
  OBVIOUS
<1>1. PICK v \in Vec : \E x \in Leaf(v) : v_leaf = <<v, x>>
  BY LayoutAssumption DEF VCInv, VerifyLoops, WriteLeaf
<1>2. PICK x \in Leaf(v) : v_leaf = <<v, x>>
  BY <1>1
<1> DEFINE out == LeafPrg(v_tree[PosInTree(v, x)])
<1>3. out \in Block
  BY PosInTreeRange, LeafPrgType DEF VCInv, VerifyType
<1> HIDE DEF out
<1>4. /\ \/ UNCHANGED <<v_leaves, v_hashed>>
         \/ /\ v_leaves' = [v_leaves EXCEPT ![LeafPos(v, XorIndex(x, v_delta.index[v]))] = out]
            /\ v_hashed' = [v_hashed EXCEPT ![HashPos(v, x)] = out]
      /\ v_leaf' = NextLeaf(v, x)
      /\ verify_pc' = verify_pc
  BY <1>2 DEF WriteLeaf, out
<1>5. v_leaves' \in [Slot -> Block] /\ v_hashed' \in [Slot -> Block]
  BY <1>3, <1>4 DEF VCInv, VerifyType
<1>6. VerifyType'
  BY <1>5, <1>4 DEF VCInv, VerifyType, WriteLeaf
<1>7. \/ \E vec \in Vec : \E leaf \in Leaf(vec) : v_leaf' = <<vec, leaf>>
      \/ v_leaf' = <<BITS_PER_WITNESS, 0>>
  BY <1>4, NextLeafOK
<1>8. VerifyLoops'
  BY <1>4, <1>7 DEF VCInv, VerifyLoops, WriteLeaf
<1> QED
  BY <1>6, <1>8

LEMMA VerifyReturnKeeps == VCInv /\ VerifyReturn => VerifyType' /\ VerifyLoops'
BY DEF VCInv, VerifyType, VerifyLoops, VerifyReturn, Return

LEMMA VerifyStepKeeps == VCInv /\ VerifyStep => VerifyType' /\ VerifyLoops'
BY CopyCommitmentKeeps, StartUpKeeps, ReadSeedKeeps, CheckPaddingKeeps,
   StartDownKeeps, ExpandRevealedKeeps, WriteLeafKeeps, VerifyReturnKeeps
   DEF VerifyStep

---------------------------------------------------------------------------
LEMMA OpenUnchanged == VCInv /\ UNCHANGED openVars => OpenType' /\ OpenLoops'
BY DEF VCInv, OpenType, OpenLoops, openVars

LEMMA VerifyUnchanged == VCInv /\ UNCHANGED verifyVars => VerifyType' /\ VerifyLoops'
BY DEF VCInv, VerifyType, VerifyLoops, verifyVars

LEMMA VCInvStep == VCInv /\ [Next]_vars => VCInv'
<1> SUFFICES ASSUME VCInv, [Next]_vars PROVE VCInv'
  OBVIOUS
<1>1. CommitInv'
  BY StepCommits, CommitInvStep DEF VCInv
<1>2. CASE SignerCommits
  BY <1>1, <1>2, OpenUnchanged, VerifyUnchanged DEF SignerCommits, VCInv
<1>3. CASE SignerChallenged
  BY <1>1, <1>3, OpenCallKeeps, VerifyUnchanged DEF SignerChallenged, VCInv
<1>4. CASE SignerOpens
  BY <1>1, <1>4, OpenStepKeeps, VerifyUnchanged DEF SignerOpens, VCInv
<1>5. CASE VerifierReceives
  BY <1>1, <1>5, OpenUnchanged, VerifyCallKeeps DEF VerifierReceives, VCInv
<1>6. CASE VerifierVerifies
  BY <1>1, <1>6, OpenUnchanged, VerifyStepKeeps DEF VerifierVerifies, VCInv
<1>7. CASE UNCHANGED vars
  BY <1>1, <1>7, OpenUnchanged, VerifyUnchanged DEF vars, VCInv
<1> QED
  BY <1>2, <1>3, <1>4, <1>5, <1>6, <1>7 DEF Next

---------------------------------------------------------------------------
(* The opening: the shape of the heap.                                       *)
Internal == 0 .. LEAVES - 2

LEMMA HeapSizes ==
  /\ LEAVES \in Nat \ {0} /\ NODES = 2 * LEAVES - 1
  /\ Node \subseteq Nat /\ 0 \in Node
  /\ Internal \subseteq Node
  /\ \A x \in Node : x < NODES /\ (x \in Internal <=> x < LEAVES - 1)
BY LayoutSizes DEF Node, NODES, Internal

LEMMA ChildShape ==
  ASSUME NEW i \in Internal, NEW b \in {0, 1}
  PROVE  /\ Child(i, b) \in Node \ {0}
         /\ i < Child(i, b)
         /\ Parent(Child(i, b)) = i
BY LayoutSizes DEF Internal, Child, Parent, Node, NODES

LEMMA ParentShape ==
  ASSUME NEW x \in Node \ {0}
  PROVE  /\ Parent(x) \in Internal /\ Parent(x) \in Node /\ Parent(x) \in Nat
         /\ Parent(x) < x
         /\ x = Child(Parent(x), 0) \/ x = Child(Parent(x), 1)
BY LayoutSizes DEF Internal, Child, Parent, Node, NODES

(* A leaf of a vector is a node without children.                            *)
LEMMA LeafShape ==
  ASSUME NEW vec \in Vec, NEW leaf \in Leaf(vec)
  PROVE  /\ PosInTree(vec, leaf) \in Node
         /\ PosInTree(vec, leaf) >= LEAVES - 1
         /\ PosInTree(vec, leaf) \notin Internal
BY PosInTreeRange, LayoutSizes DEF Internal, Slot, Node, NODES

LEMMA FiniteNodes ==
  /\ \A S : S \subseteq Node => IsFiniteSet(S) /\ Cardinality(S) \in Nat
  /\ \A S : S \subseteq Node => Cardinality(S) <= NODES
<1>1. IsFiniteSet(Node) /\ Cardinality(Node) = NODES
  BY FS_Interval, LayoutSizes DEF Node
<1> QED
  BY <1>1, FS_Subset, FS_CardinalityType

(* A set of nodes with one more node.                                        *)
LEMMA CountAdd ==
  ASSUME NEW S \in SUBSET Node, NEW x \in Node
  PROVE  Cardinality(S \cup {x}) = IF x \in S THEN Cardinality(S) ELSE Cardinality(S) + 1
BY FiniteNodes, FS_AddElement

LEMMA CountIf ==
  ASSUME NEW S \in SUBSET Node, NEW x \in Node, x \notin S, NEW c \in BOOLEAN
  PROVE  Cardinality(S \cup (IF c THEN {x} ELSE {}))
           = Cardinality(S) + (IF c THEN 1 ELSE 0)
<1>1. Cardinality(S) \in Nat
  BY FiniteNodes
<1>2. CASE c
  BY <1>1, <1>2, CountAdd
<1>3. CASE ~c
  <2>1. S \cup (IF c THEN {x} ELSE {}) = S
    BY <1>3
  <2> QED
    BY <1>1, <1>3, <2>1
<1> QED
  BY <1>2, <1>3

(* The last node of a set of nodes.                                          *)
LEMMA LastNode ==
  ASSUME NEW T \in SUBSET Node, T # {}
  PROVE  \E x \in T : \A y \in T : y <= x
<1> DEFINE U == {k \in Nat : NODES - k \in T}
<1>1. \A x \in T : x \in Nat /\ NODES - x \in Nat /\ NODES - (NODES - x) = x
  BY LayoutSizes DEF Node
<1>2. U \in SUBSET Nat /\ U # {} /\ \A x \in T : NODES - x \in U
  BY <1>1
<1>3. PICK k \in U : \A j \in U : k <= j
  BY <1>2, LeastElement
<1>4. NODES - k \in T /\ k \in Nat
  OBVIOUS
<1>5. ASSUME NEW y \in T PROVE y <= NODES - k
  BY <1>1, <1>2, <1>3, <1>4, LayoutSizes
<1> QED
  BY <1>4, <1>5

---------------------------------------------------------------------------
(* The marks of batch_vector_open and of batch_vector_verify.                *)
Marked(marks) == {x \in Node : marks[x]}

(* The nodes of which exactly one child is marked, after node i on the walk  *)
(* up the heap, and the slot of the opening that comes after theirs.          *)
Forks(marks, i)  == {x \in i + 1 .. LEAVES - 2 : OneChildHidden(marks, x)}
SlotOf(marks, i) == BITS_PER_WITNESS + Cardinality(Forks(marks, i))

(* A node is marked exactly when one of its children is.                     *)
Joins(marks, i) == marks[i] <=> marks[Child(i, 0)] \/ marks[Child(i, 1)]
Closed(marks)   == \A i \in Internal : Joins(marks, i)

(* The marked leaves are those d selects in the first n vectors.             *)
HiddenLeaves(marks, d, n) ==
  \A vec \in Vec : \A leaf \in Leaf(vec) :
    marks[PosInTree(vec, leaf)] <=> vec < n /\ leaf = d.index[vec]

LEMMA ForksFinite ==
  ASSUME NEW marks, NEW i \in -1 .. LEAVES - 2
  PROVE  /\ Forks(marks, i) \subseteq Node
         /\ IsFiniteSet(Forks(marks, i)) /\ Cardinality(Forks(marks, i)) \in Nat
<1>1. Forks(marks, i) \subseteq Node
  BY HeapSizes DEF Forks, Node
<1> QED
  BY <1>1, FiniteNodes

(* A fork passed earlier has an earlier slot.                                *)
LEMMA SlotBefore ==
  ASSUME NEW marks, NEW i \in -1 .. LEAVES - 2, NEW x \in Forks(marks, i)
  PROVE  /\ x \in Internal
         /\ SlotOf(marks, x) \in Nat /\ SlotOf(marks, i) \in Nat
         /\ BITS_PER_WITNESS <= SlotOf(marks, x)
         /\ SlotOf(marks, x) < SlotOf(marks, i)
<1>1. x \in Internal /\ x > i /\ x \in -1 .. LEAVES - 2 /\ x \in Node
  BY HeapSizes DEF Forks, Internal
<1>2. Forks(marks, x) \cup {x} \subseteq Forks(marks, i) /\ x \notin Forks(marks, x)
  BY <1>1, HeapSizes DEF Forks
<1>3. Cardinality(Forks(marks, x) \cup {x}) = Cardinality(Forks(marks, x)) + 1
  BY <1>1, <1>2, ForksFinite, CountAdd
<1>4. Cardinality(Forks(marks, x) \cup {x}) <= Cardinality(Forks(marks, i))
  BY <1>2, ForksFinite, FS_Subset
<1> QED
  BY <1>1, <1>3, <1>4, ForksFinite, OpeningSizes DEF SlotOf

(* The walk passes a node.                                                   *)
LEMMA ForksNext ==
  ASSUME NEW marks, NEW i \in Internal
  PROVE  /\ Forks(marks, i - 1) = IF OneChildHidden(marks, i)
                                  THEN Forks(marks, i) \cup {i} ELSE Forks(marks, i)
         /\ SlotOf(marks, i - 1) = IF OneChildHidden(marks, i)
                                   THEN SlotOf(marks, i) + 1 ELSE SlotOf(marks, i)
         /\ i \notin Forks(marks, i)
         /\ SlotOf(marks, i) \in Nat
<1>1. /\ i \in Node /\ i \in -1 .. LEAVES - 2 /\ i - 1 \in -1 .. LEAVES - 2
      /\ i \in Int /\ LEAVES \in Int
  BY HeapSizes DEF Internal
<1>2. i \notin Forks(marks, i)
  BY <1>1 DEF Forks
<1>3. Forks(marks, i - 1) = IF OneChildHidden(marks, i)
                            THEN Forks(marks, i) \cup {i} ELSE Forks(marks, i)
  BY <1>1 DEF Forks
<1>4. Forks(marks, i) \in SUBSET Node /\ Cardinality(Forks(marks, i)) \in Nat
  BY <1>1, ForksFinite
<1>5. Cardinality(Forks(marks, i) \cup {i}) = Cardinality(Forks(marks, i)) + 1
  BY <1>1, <1>2, <1>4, CountAdd
<1> QED
  BY <1>2, <1>3, <1>4, <1>5, OpeningSizes DEF SlotOf

---------------------------------------------------------------------------
(* The marked nodes among the first n, their children, and the forks.        *)
MarkedBelow(marks, n)  == {x \in 0 .. n - 1 : marks[x]}
ChildrenBelow(marks, n) == {x \in 1 .. 2 * n : marks[x]}
ForksBelow(marks, n)   == {x \in 0 .. n - 1 : OneChildHidden(marks, x)}

Counted(marks, n) ==
  Cardinality(ForksBelow(marks, n))
    = 2 * Cardinality(MarkedBelow(marks, n)) - Cardinality(ChildrenBelow(marks, n))

(* One more node: a fork has one marked child, another marked node has two.  *)
LEMMA CountedNext ==
  ASSUME NEW marks \in [Node -> BOOLEAN], Closed(marks), NEW n \in Internal,
         Counted(marks, n)
  PROVE  Counted(marks, n + 1)
<1> DEFINE left  == Child(n, 0)
           right == Child(n, 1)
           M == MarkedBelow(marks, n)
           C == ChildrenBelow(marks, n)
           F == ForksBelow(marks, n)
<1>1. /\ n \in Nat /\ n < LEAVES - 1 /\ n \in Node /\ LEAVES \in Nat /\ NODES = 2 * LEAVES - 1
      /\ left = 2 * n + 1 /\ right = 2 * n + 2 /\ left \in Node /\ right \in Node
  BY HeapSizes, ChildShape DEF Child
<1>2. M \in SUBSET Node /\ C \in SUBSET Node /\ F \in SUBSET Node
  BY <1>1 DEF MarkedBelow, ChildrenBelow, ForksBelow, Node
<1>3. n \notin M /\ n \notin F /\ left \notin C /\ right \notin C /\ left # right
  BY <1>1 DEF MarkedBelow, ChildrenBelow, ForksBelow
<1>4. MarkedBelow(marks, n + 1) = M \cup (IF marks[n] THEN {n} ELSE {})
  BY <1>1 DEF MarkedBelow
<1>5. ForksBelow(marks, n + 1) = F \cup (IF marks[left] # marks[right] THEN {n} ELSE {})
  BY <1>1 DEF ForksBelow, OneChildHidden
<1>6. ChildrenBelow(marks, n + 1) = (C \cup (IF marks[left] THEN {left} ELSE {}))
                                      \cup (IF marks[right] THEN {right} ELSE {})
  BY <1>1 DEF ChildrenBelow
<1> HIDE DEF left, right, M, C, F
<1>7. /\ Cardinality(M) \in Nat /\ Cardinality(C) \in Nat /\ Cardinality(F) \in Nat
      /\ marks[n] \in BOOLEAN /\ marks[left] \in BOOLEAN /\ marks[right] \in BOOLEAN
  BY <1>1, <1>2, FiniteNodes
<1>8. Cardinality(MarkedBelow(marks, n + 1)) = Cardinality(M) + (IF marks[n] THEN 1 ELSE 0)
  BY <1>1, <1>2, <1>3, <1>4, <1>7, CountIf
<1>9. Cardinality(ForksBelow(marks, n + 1))
        = Cardinality(F) + (IF marks[left] # marks[right] THEN 1 ELSE 0)
  BY <1>1, <1>2, <1>3, <1>5, <1>7, CountIf, ZenonT(60)
<1>10. Cardinality(ChildrenBelow(marks, n + 1))
         = Cardinality(C) + (IF marks[left] THEN 1 ELSE 0) + (IF marks[right] THEN 1 ELSE 0)
  <2> DEFINE C1 == C \cup (IF marks[left] THEN {left} ELSE {})
  <2>1. C1 \in SUBSET Node /\ right \notin C1
    BY <1>1, <1>2, <1>3
  <2>2. Cardinality(C1) = Cardinality(C) + (IF marks[left] THEN 1 ELSE 0)
    BY <1>1, <1>2, <1>3, <1>7, CountIf
  <2>3. ChildrenBelow(marks, n + 1) = C1 \cup (IF marks[right] THEN {right} ELSE {})
    BY <1>6
  <2> HIDE DEF C1
  <2>4. Cardinality(ChildrenBelow(marks, n + 1))
          = Cardinality(C1) + (IF marks[right] THEN 1 ELSE 0)
    BY <1>1, <1>7, <2>1, <2>3, CountIf
  <2> QED
    BY <2>2, <2>4
<1>11. marks[n] <=> marks[left] \/ marks[right]
  BY DEF Closed, Joins, left, right
<1>12. Cardinality(F) = 2 * Cardinality(M) - Cardinality(C)
  BY DEF Counted, M, C, F
<1> QED
  BY <1>7, <1>8, <1>9, <1>10, <1>11, <1>12 DEF Counted

(* A mark leads up to the root.                                              *)
LEMMA RootMarked ==
  ASSUME NEW marks, NEW y \in Node, marks[y],
         \A x \in Node \ {0} : marks[x] => marks[Parent(x)]
  PROVE  marks[0]
<1>1. Marked(marks) \in SUBSET Nat /\ Marked(marks) # {}
  BY HeapSizes DEF Marked
<1>2. PICK x \in Marked(marks) : \A z \in Marked(marks) : x <= z
  BY <1>1, LeastElement
<1>3. ASSUME x # 0 PROVE FALSE
  <2>1. x \in Node \ {0} /\ Parent(x) \in Marked(marks)
    BY <1>3, ParentShape DEF Marked
  <2>2. Parent(x) < x /\ Parent(x) \in Nat /\ x \in Nat
    BY <2>1, ParentShape, HeapSizes
  <2> QED
    BY <1>2, <2>1, <2>2
<1> QED
  BY <1>2, <1>3 DEF Marked

(* The formula of vector_com.c for the number of seeds: with h hidden leaves  *)
(* under a marked root, the forks are the marked nodes minus 2h - 1.          *)
LEMMA ForkCount ==
  ASSUME NEW marks \in [Node -> BOOLEAN], Closed(marks), marks[0]
  PROVE  Cardinality(Forks(marks, -1)) = Cardinality(Marked(marks)) + 1
           - 2 * Cardinality({x \in Marked(marks) : x >= LEAVES - 1})
<1> DEFINE n == LEAVES - 1
           T == {k \in Nat : k <= n => Counted(marks, k)}
           L == {x \in Marked(marks) : x >= LEAVES - 1}
           M == MarkedBelow(marks, n)
           C == ChildrenBelow(marks, n)
<1>1. n \in Nat /\ LEAVES \in Nat /\ NODES = 2 * n + 1
  BY HeapSizes
<1>2. 0 \in T
  <2>1. /\ MarkedBelow(marks, 0) = {} /\ ChildrenBelow(marks, 0) = {}
        /\ ForksBelow(marks, 0) = {}
    BY DEF MarkedBelow, ChildrenBelow, ForksBelow
  <2>2. Counted(marks, 0)
    BY <2>1, FS_EmptySet DEF Counted
  <2> QED
    BY <2>2
<1>3. \A k \in T : k < n => k + 1 \in T
  <2>1. \A k \in Nat : k < n => k \in Internal
    BY <1>1 DEF Internal
  <2> QED
    BY <1>1, <2>1, CountedNext
<1>4. Counted(marks, n)
  <2>1. T \in SUBSET Nat
    OBVIOUS
  <2> HIDE DEF T
  <2>2. n \in T
    BY <1>1, <1>2, <1>3, <2>1, UpTo
  <2> QED
    BY <1>1, <2>2 DEF T
<1>5. ForksBelow(marks, n) = Forks(marks, -1)
  BY <1>1 DEF ForksBelow, Forks
<1>6. /\ M \cup L = Marked(marks) /\ M \cap L = {}
      /\ C \cup {0} = Marked(marks) /\ 0 \notin C
      /\ M \subseteq Node /\ L \subseteq Node /\ C \subseteq Node /\ 0 \in Node
  BY <1>1 DEF MarkedBelow, ChildrenBelow, Marked, Node
<1> HIDE DEF M, L, C
<1>7. Cardinality(Marked(marks)) = Cardinality(M) + Cardinality(L)
  <2>1. IsFiniteSet(M) /\ IsFiniteSet(L) /\ Cardinality(M) \in Nat /\ Cardinality(L) \in Nat
    BY <1>6, FiniteNodes
  <2>2. Cardinality(M \cup L) = Cardinality(M) + Cardinality(L) - Cardinality(M \cap L)
    BY <2>1, FS_Union
  <2>3. Cardinality(M \cap L) = 0
    BY <1>6, FS_EmptySet
  <2>4. Cardinality(M \cup L) = Cardinality(Marked(marks))
    BY <1>6, Zenon
  <2> QED
    BY <2>1, <2>2, <2>3, <2>4
<1>8. Cardinality(Marked(marks)) = Cardinality(C) + 1
  BY <1>6, CountAdd
<1>9. Cardinality(M) \in Nat /\ Cardinality(L) \in Nat /\ Cardinality(C) \in Nat
  BY <1>6, FiniteNodes
<1>10. Cardinality(Forks(marks, -1)) = 2 * Cardinality(M) - Cardinality(C)
  BY <1>4, <1>5 DEF Counted, M, C
<1> QED
  BY <1>7, <1>8, <1>9, <1>10 DEF L

---------------------------------------------------------------------------
(* The marking loops: n leaves are marked, every marked node has a marked    *)
(* child and, but for where the climb stands, a marked parent, and the        *)
(* counter counts the marks.                                                 *)
Hiding == IF open_pc = "climb" THEN vec_index + 1 ELSE vec_index

Marking ==
  /\ delta.topZero /\ Hiding \in 0 .. BITS_PER_WITNESS /\ vec_index \in Nat
  /\ open_pc = "climb" => pos \in Node /\ dont_reveal[pos]
  /\ HiddenLeaves(dont_reveal, delta, Hiding)
  /\ Cardinality({x \in Marked(dont_reveal) : x >= LEAVES - 1}) = Hiding
  /\ \A i \in Internal : dont_reveal[i] =>
       dont_reveal[Child(i, 0)] \/ dont_reveal[Child(i, 1)]
  /\ \A x \in Node \ {0} : dont_reveal[x] /\ ~(open_pc = "climb" /\ x = pos) =>
       dont_reveal[Parent(x)]
  /\ number_of_hidden_nodes = Cardinality(Marked(dont_reveal))

(* The walk up the heap: the marks are closed, so it changes none of them,    *)
(* and what the opening holds is known slot by slot.                         *)
Filled(marks, i) ==
  /\ \A x \in Forks(marks, i) : opening[SlotOf(marks, x)] = RevealedChild(marks, x)
  /\ \A s \in BITS_PER_WITNESS .. SlotOf(marks, i) - 1 :
       \E x \in Forks(marks, i) : s = SlotOf(marks, x)

Revealing ==
  /\ delta.topZero /\ Closed(dont_reveal)
  /\ HiddenLeaves(dont_reveal, delta, BITS_PER_WITNESS)
  /\ Cardinality(Forks(dont_reveal, -1)) = SeedsNeeded
  /\ SeedsNeeded <= BATCH_VECTOR_OPENING_SEEDS_TRESHOLD
  /\ node_i \in -1 .. LEAVES - 2 /\ (open_pc = "opened" => node_i = -1)
  /\ written = SlotOf(dont_reveal, node_i)
  /\ \A vec \in Vec : opening[vec] = PosInTree(vec, delta.index[vec])
  /\ Filled(dont_reveal, node_i)
  /\ \A s \in OpeningSlot : s >= written =>
       opening[s] = IF open_pc = "opened" THEN Zero ELSE Uninit

OpenInv ==
  /\ open_pc # "idle" => commit_pc = "done"
  /\ open_pc \in {"idle", "refused", "mark", "climb"} =>
       opening = EmptyOpening /\ written = 0
  /\ open_pc \in {"mark", "climb"} => Marking
  /\ open_pc \in {"reveal", "opened"} => Revealing

LEMMA OpenInvInit == Init => OpenInv
BY DEF Init, OpenInit, OpenInv

LEMMA OpenCallMarks ==
  ASSUME VCInv, OpenInv, NEW d \in Delta, OpenCall(d), commit_pc = "done",
         UNCHANGED commitVars
  PROVE  OpenInv'
<1>1. /\ dont_reveal' = NoMarks /\ delta' = d /\ vec_index' = 0
      /\ number_of_hidden_nodes' = 0 /\ written' = 0 /\ opening' = EmptyOpening
      /\ open_pc' = (IF d.topZero THEN "mark" ELSE "refused")
      /\ commit_pc' = "done"
  BY DEF OpenCall, OpenInv, commitVars
<1>2. ASSUME open_pc' = "mark" PROVE Marking'
  <2>1. d.topZero
    BY <1>1, <1>2
  <2>2. \A x \in Node : ~NoMarks[x]
    BY DEF NoMarks
  <2>3. Hiding' = 0 /\ 0 \in 0 .. BITS_PER_WITNESS
    BY <1>1, <1>2, OpeningSizes DEF Hiding
  <2>4. Marked(NoMarks) = {} /\ {x \in Marked(NoMarks) : x >= LEAVES - 1} = {}
    BY <2>2 DEF Marked
  <2>5. HiddenLeaves(NoMarks, d, 0)
    BY <2>2, LeafShape, LeafCases DEF HiddenLeaves
  <2>6. Cardinality({}) = 0
    BY FS_EmptySet
  <2>7. HiddenLeaves(dont_reveal, delta, Hiding)'
    BY <1>1, <2>3, <2>5
  <2>8. Cardinality(Marked(NoMarks)) = 0
        /\ Cardinality({x \in Marked(NoMarks) : x >= LEAVES - 1}) = 0
    BY <2>4, <2>6
  <2> QED
    BY <1>1, <1>2, <2>1, <2>2, <2>3, <2>7, <2>8, HeapSizes DEF Marking
<1> QED
  BY <1>1, <1>2 DEF OpenInv

LEMMA MarkLeafMarks == VCInv /\ OpenInv /\ MarkLeaf => Marking'
<1> SUFFICES ASSUME VCInv, OpenInv, MarkLeaf PROVE Marking'
  OBVIOUS
<1> DEFINE M  == Marked(dont_reveal)
           L  == {x \in M : x >= LEAVES - 1}
           new == HiddenPos(delta, vec_index)
<1>1. /\ Marking /\ open_pc = "mark" /\ open_pc' = "climb" /\ vec_index' = vec_index
      /\ pos' = new /\ dont_reveal' = [dont_reveal EXCEPT ![new] = TRUE]
      /\ number_of_hidden_nodes' = number_of_hidden_nodes + 1 /\ delta' = delta
  BY DEF MarkLeaf, OpenInv
<1>2. vec_index \in Vec /\ delta.index[vec_index] \in Leaf(vec_index) /\ Hiding = vec_index
  BY <1>1, OpeningSizes, HiddenIndex DEF MarkLeaf, Marking, Hiding, Vec, VCInv, OpenType
<1>3. /\ new \in Node /\ new >= LEAVES - 1 /\ new \notin Internal
      /\ ~dont_reveal[new]
  BY <1>1, <1>2, LeafShape DEF HiddenPos, Marking, HiddenLeaves
<1>4. dont_reveal \in [Node -> BOOLEAN]
  BY DEF VCInv, OpenType
<1>5. \A x \in Node : dont_reveal'[x] <=> dont_reveal[x] \/ x = new
  BY <1>1, <1>3, <1>4
<1>6. Hiding' = vec_index + 1
  BY <1>1 DEF Hiding
<1>7. HiddenLeaves(dont_reveal, delta, Hiding)'
  <2>1. ASSUME NEW vec \in Vec, NEW leaf \in Leaf(vec)
        PROVE  dont_reveal'[PosInTree(vec, leaf)] <=> vec < vec_index + 1 /\ leaf = delta.index[vec]
    <3>1. PosInTree(vec, leaf) = new => vec = vec_index /\ leaf = delta.index[vec_index]
      BY <1>2, PosInTreeInjective DEF HiddenPos
    <3>2. PosInTree(vec, leaf) \in Node /\ vec \in Nat /\ vec_index \in Nat
      BY <1>2, LeafShape, LeafCases
    <3>3. dont_reveal[PosInTree(vec, leaf)] <=> vec < vec_index /\ leaf = delta.index[vec]
      <4>1. HiddenLeaves(dont_reveal, delta, vec_index)
        BY <1>1, <1>2 DEF Marking
      <4> QED
        BY <4>1 DEF HiddenLeaves
    <3>4. PosInTree(vec, leaf) = new <=> vec = vec_index /\ leaf = delta.index[vec]
      BY <3>1 DEF HiddenPos
    <3> QED
      BY <1>5, <3>2, <3>3, <3>4
  <2> QED
    BY <1>1, <1>6, <2>1 DEF HiddenLeaves
<1>8. /\ Marked(dont_reveal') = M \cup {new} /\ new \notin M
      /\ {x \in Marked(dont_reveal') : x >= LEAVES - 1} = L \cup {new} /\ new \notin L
  BY <1>3, <1>5 DEF Marked
<1>9. M \in SUBSET Node /\ L \in SUBSET Node
  BY DEF Marked
<1> HIDE DEF M, L, new
<1>10. /\ Cardinality(M \cup {new}) = Cardinality(M) + 1
       /\ Cardinality(L \cup {new}) = Cardinality(L) + 1
  BY <1>3, <1>8, <1>9, CountAdd
<1>11. number_of_hidden_nodes' = Cardinality(Marked(dont_reveal'))
  BY <1>1, <1>8, <1>10 DEF Marking, M
<1>12. Cardinality({x \in Marked(dont_reveal') : x >= LEAVES - 1}) = Hiding'
  BY <1>1, <1>2, <1>6, <1>8, <1>10 DEF Marking, M, L
<1>13. \A i \in Internal : dont_reveal'[i] =>
         dont_reveal'[Child(i, 0)] \/ dont_reveal'[Child(i, 1)]
  BY <1>1, <1>3, <1>5, HeapSizes, ChildShape DEF Marking
<1>14. \A x \in Node \ {0} : dont_reveal'[x] /\ x # new => dont_reveal'[Parent(x)]
  BY <1>1, <1>5, ParentShape DEF Marking
<1>15. Hiding' \in 0 .. BITS_PER_WITNESS /\ vec_index' \in Nat
  BY <1>1, <1>2, <1>6, OpeningSizes DEF Vec
<1> QED
  BY <1>1, <1>3, <1>5, <1>7, <1>11, <1>12, <1>13, <1>14, <1>15 DEF Marking

LEMMA MarkParentMarks == VCInv /\ OpenInv /\ MarkParent => Marking'
<1> SUFFICES ASSUME VCInv, OpenInv, MarkParent PROVE Marking'
  OBVIOUS
<1> DEFINE M   == Marked(dont_reveal)
           L   == {x \in M : x >= LEAVES - 1}
           new == Parent(pos)
<1>1. /\ Marking /\ open_pc = "climb" /\ open_pc' = "climb" /\ vec_index' = vec_index
      /\ pos' = new /\ dont_reveal' = [dont_reveal EXCEPT ![new] = TRUE]
      /\ number_of_hidden_nodes' = number_of_hidden_nodes + 1 /\ delta' = delta
      /\ pos > 0 /\ ~dont_reveal[new]
  BY DEF MarkParent, CanClimb, OpenInv
<1>2. pos \in Node \ {0} /\ dont_reveal[pos]
  BY <1>1, HeapSizes DEF Marking
<1>3. /\ new \in Node /\ new \in Internal /\ ~(new >= LEAVES - 1)
      /\ pos = Child(new, 0) \/ pos = Child(new, 1)
  BY <1>2, ParentShape, HeapSizes DEF Internal
<1>4. dont_reveal \in [Node -> BOOLEAN]
  BY DEF VCInv, OpenType
<1>5. \A x \in Node : dont_reveal'[x] <=> dont_reveal[x] \/ x = new
  BY <1>1, <1>3, <1>4
<1>6. Hiding' = Hiding
  BY <1>1 DEF Hiding
<1>7. HiddenLeaves(dont_reveal, delta, Hiding)'
  <2>1. ASSUME NEW vec \in Vec, NEW leaf \in Leaf(vec)
        PROVE  dont_reveal'[PosInTree(vec, leaf)] <=> dont_reveal[PosInTree(vec, leaf)]
    BY <1>3, <1>5, LeafShape
  <2> QED
    BY <1>1, <1>6, <2>1 DEF HiddenLeaves, Marking
<1>8. /\ Marked(dont_reveal') = M \cup {new} /\ new \notin M
      /\ {x \in Marked(dont_reveal') : x >= LEAVES - 1} = L
  BY <1>1, <1>3, <1>5 DEF Marked
<1>9. M \in SUBSET Node
  BY DEF Marked
<1> HIDE DEF M, L, new
<1>10. Cardinality(M \cup {new}) = Cardinality(M) + 1
  BY <1>3, <1>8, <1>9, CountAdd
<1>11. number_of_hidden_nodes' = Cardinality(Marked(dont_reveal'))
  BY <1>1, <1>8, <1>10 DEF Marking, M
<1>12. Cardinality({x \in Marked(dont_reveal') : x >= LEAVES - 1}) = Hiding'
  BY <1>1, <1>6, <1>8 DEF Marking, M, L
<1>13. \A i \in Internal : dont_reveal'[i] =>
         dont_reveal'[Child(i, 0)] \/ dont_reveal'[Child(i, 1)]
  BY <1>1, <1>2, <1>3, <1>5, HeapSizes, ChildShape DEF Marking
<1>14. \A x \in Node \ {0} : dont_reveal'[x] /\ x # new => dont_reveal'[Parent(x)]
  BY <1>1, <1>5, ParentShape DEF Marking, new
<1> QED
  BY <1>1, <1>3, <1>5, <1>6, <1>7, <1>11, <1>12, <1>13, <1>14 DEF Marking

LEMMA EndClimbMarks == VCInv /\ OpenInv /\ EndClimb => Marking'
<1> SUFFICES ASSUME VCInv, OpenInv, EndClimb PROVE Marking'
  OBVIOUS
<1>1. /\ Marking /\ open_pc = "climb" /\ open_pc' = "mark" /\ vec_index' = vec_index + 1
      /\ UNCHANGED <<delta, dont_reveal, number_of_hidden_nodes>>
      /\ ~(pos > 0) \/ dont_reveal[Parent(pos)]
  BY DEF EndClimb, CanClimb, OpenInv
<1>2. Hiding' = Hiding /\ vec_index' \in Nat
  BY <1>1 DEF Hiding, Marking
<1>3. \A x \in Node \ {0} : dont_reveal[x] => dont_reveal[Parent(x)]
  BY <1>1, HeapSizes DEF Marking
<1> QED
  BY <1>1, <1>2, <1>3 DEF Marking

---------------------------------------------------------------------------
(* After the last climb the marks are closed, and the counter gives exactly   *)
(* the number of forks, without wrapping around.                             *)
LEMMA MarksClosed ==
  ASSUME VCInv, Marking, open_pc = "mark", vec_index = BITS_PER_WITNESS
  PROVE  /\ Closed(dont_reveal)
         /\ HiddenLeaves(dont_reveal, delta, BITS_PER_WITNESS)
         /\ Cardinality(Forks(dont_reveal, -1)) = SeedsNeeded
<1> DEFINE M == Marked(dont_reveal)
           L == {x \in M : x >= LEAVES - 1}
<1>1. dont_reveal \in [Node -> BOOLEAN] /\ Hiding = BITS_PER_WITNESS
  BY DEF VCInv, OpenType, Hiding
<1>2. HiddenLeaves(dont_reveal, delta, BITS_PER_WITNESS)
  BY <1>1 DEF Marking
<1>3. \A x \in Node \ {0} : dont_reveal[x] => dont_reveal[Parent(x)]
  BY DEF Marking
<1>4. Closed(dont_reveal)
  <2>1. ASSUME NEW i \in Internal PROVE Joins(dont_reveal, i)
    <3>1. /\ Child(i, 0) \in Node \ {0} /\ Parent(Child(i, 0)) = i
          /\ Child(i, 1) \in Node \ {0} /\ Parent(Child(i, 1)) = i
      BY ChildShape
    <3>2. dont_reveal[i] => dont_reveal[Child(i, 0)] \/ dont_reveal[Child(i, 1)]
      BY DEF Marking
    <3> QED
      BY <1>3, <3>1, <3>2 DEF Joins
  <2> QED
    BY <2>1 DEF Closed
<1>5. dont_reveal[0]
  <2>1. /\ 0 \in Vec /\ delta.index[0] \in Leaf(0)
        /\ 0 < BITS_PER_WITNESS
    BY FirstLeaf, HiddenIndex, LayoutAssumption DEF VCInv, OpenType
  <2>2. dont_reveal[PosInTree(0, delta.index[0])] /\ PosInTree(0, delta.index[0]) \in Node
    BY <1>2, <2>1, LeafShape DEF HiddenLeaves
  <2> QED
    BY <1>3, <2>2, RootMarked
<1>6. Cardinality(Forks(dont_reveal, -1)) = Cardinality(M) + 1 - 2 * Cardinality(L)
  BY <1>1, <1>4, <1>5, ForkCount
<1>7. /\ M \subseteq Node /\ -1 \in -1 .. LEAVES - 2
      /\ LEAVES \in Nat
  BY HeapSizes DEF Marked
<1>8. /\ Cardinality(M) \in Nat /\ Cardinality(M) <= NODES
      /\ Cardinality(Forks(dont_reveal, -1)) \in Nat
  BY <1>7, FiniteNodes, ForksFinite
<1>9. number_of_hidden_nodes = Cardinality(M) /\ Cardinality(L) = BITS_PER_WITNESS
  BY <1>1 DEF Marking
<1> DEFINE need == number_of_hidden_nodes - 2 * BITS_PER_WITNESS + 1
<1>10. need = Cardinality(Forks(dont_reveal, -1))
  BY <1>6, <1>8, <1>9, OpeningSizes
<1>11. need \in Nat /\ need < SIZE_T /\ SIZE_T \in Nat \ {0}
  BY <1>8, <1>9, <1>10, OpenAssumption, OpeningSizes, LayoutSizes
<1> HIDE DEF need
<1>12. need % SIZE_T = need
  BY <1>11
<1> QED
  BY <1>2, <1>4, <1>10, <1>12 DEF SeedsNeeded, need

(* The walk starts with the commitments of the hidden leaves in place.       *)
LEMMA WriteCommitmentsReveals == VCInv /\ OpenInv /\ WriteCommitments => Revealing'
<1> SUFFICES ASSUME VCInv, OpenInv, WriteCommitments PROVE Revealing'
  OBVIOUS
<1>1. /\ Marking /\ open_pc = "mark" /\ vec_index = BITS_PER_WITNESS
      /\ open_pc' = "reveal" /\ written' = BITS_PER_WITNESS /\ node_i' = LEAVES - 2
      /\ SeedsNeeded <= BATCH_VECTOR_OPENING_SEEDS_TRESHOLD
      /\ UNCHANGED <<delta, dont_reveal, number_of_hidden_nodes>>
      /\ opening = EmptyOpening /\ commit_pc = "done"
  BY HeapSizes DEF WriteCommitments, OpenInv
<1>2. /\ Closed(dont_reveal) /\ HiddenLeaves(dont_reveal, delta, BITS_PER_WITNESS)
      /\ Cardinality(Forks(dont_reveal, -1)) = SeedsNeeded
  BY <1>1, MarksClosed
<1>3. SeedsNeeded' = SeedsNeeded
  BY <1>1 DEF SeedsNeeded
<1>4. LEAVES - 2 \in -1 .. LEAVES - 2 /\ LEAVES - 2 \in Int
  BY HeapSizes
<1>5. Forks(dont_reveal, LEAVES - 2) = {}
  BY <1>4, HeapSizes DEF Forks
<1>6. SlotOf(dont_reveal, LEAVES - 2) = BITS_PER_WITNESS
  BY <1>5, FS_EmptySet, OpeningSizes DEF SlotOf
<1>7. \A s \in OpeningSlot :
        opening'[s] = IF s < BITS_PER_WITNESS THEN hashed_leaves[HashPos(s, delta.index[s])]
                                              ELSE Uninit
  BY <1>1 DEF WriteCommitments, EmptyOpening
<1>8. \A vec \in Vec : opening'[vec] = PosInTree(vec, delta.index[vec])
  <2>1. ASSUME NEW vec \in Vec
        PROVE  vec \in OpeningSlot /\ vec < BITS_PER_WITNESS /\ delta.index[vec] \in Leaf(vec)
    BY OpeningSizes, HiddenIndex DEF Vec, OpeningSlot, VCInv, OpenType
  <2>2. \A vec \in Vec : \A leaf \in Leaf(vec) :
          hashed_leaves[HashPos(vec, leaf)] = PosInTree(vec, leaf)
    BY <1>1, CommitInvImplies DEF VCInv, OutputsCorrect
  <2> QED
    BY <1>7, <2>1, <2>2
<1>9. \A s \in OpeningSlot : s >= BITS_PER_WITNESS => opening'[s] = Uninit
  BY <1>7, OpeningSizes DEF OpeningSlot
<1>10. Filled(dont_reveal, LEAVES - 2)'
  <2>1. BITS_PER_WITNESS .. BITS_PER_WITNESS - 1 = {}
    BY OpeningSizes
  <2> QED
    BY <1>1, <1>5, <1>6, <2>1 DEF Filled
<1> QED
  BY <1>1, <1>2, <1>3, <1>4, <1>6, <1>8, <1>9, <1>10 DEF Revealing, Marking

(* Where the marks are closed, the walk changes none of them.                *)
LEMMA PropagateClosed ==
  ASSUME NEW marks \in [Node -> BOOLEAN], NEW i \in Internal, Joins(marks, i)
  PROVE  Propagate(marks, i) = marks
<1>1. (marks[Child(i, 0)] \/ marks[Child(i, 1)]) = marks[i]
  BY ChildShape, HeapSizes DEF Joins
<1> QED
  BY <1>1 DEF Propagate

LEMMA RevealNodeReveals == VCInv /\ OpenInv /\ RevealNode => Revealing'
<1> SUFFICES ASSUME VCInv, OpenInv, RevealNode PROVE Revealing'
  OBVIOUS
<1> DEFINE M    == dont_reveal
           fork == OneChildHidden(M, node_i)
           seed == RevealedChild(M, node_i)
<1>1. /\ Revealing /\ open_pc = "reveal" /\ open_pc' = "reveal" /\ node_i >= 0
      /\ node_i' = node_i - 1
      /\ UNCHANGED <<delta, number_of_hidden_nodes>> /\ commit_pc = "done"
  BY DEF RevealNode, OpenInv
<1>2. node_i \in Internal /\ node_i' \in -1 .. LEAVES - 2 /\ node_i \in -1 .. LEAVES - 2
  BY <1>1, HeapSizes DEF Revealing, Internal
<1>3. M' = M
  BY <1>1, <1>2, PropagateClosed DEF RevealNode, Revealing, Closed, VCInv, OpenType
<1>4. SeedsNeeded' = SeedsNeeded
  BY <1>1 DEF SeedsNeeded
<1>5. written = SlotOf(M, node_i) /\ opening \in [OpeningSlot -> Block]
  BY <1>1 DEF Revealing, VCInv, OpenType
<1>6. tree[seed] = seed
  <2>1. seed \in Node
    BY <1>2, RevealedChildInHeap DEF Internal
  <2> QED
    BY <1>1, <2>1, CommitInvImplies, LayoutSizes DEF VCInv, TreeCorrect, Node
<1>7. CASE ~fork
  <2>1. opening' = opening /\ written' = written
    BY <1>7 DEF RevealNode
  <2>2. Forks(M, node_i') = Forks(M, node_i) /\ SlotOf(M, node_i') = written
    BY <1>1, <1>2, <1>5, <1>7, ForksNext
  <2>3. Filled(dont_reveal, node_i)'
    BY <1>1, <1>3, <1>5, <2>1, <2>2 DEF Revealing, Filled
  <2> QED
    BY <1>1, <1>2, <1>3, <1>4, <2>1, <2>2, <2>3 DEF Revealing
<1>8. CASE fork
  <2>1. opening' = [opening EXCEPT ![written] = seed] /\ written' = written + 1
    BY <1>6, <1>8 DEF RevealNode
  <2>2. /\ Forks(M, node_i') = Forks(M, node_i) \cup {node_i}
        /\ SlotOf(M, node_i') = written + 1 /\ written \in Nat
        /\ node_i \notin Forks(M, node_i)
    BY <1>1, <1>2, <1>5, <1>8, ForksNext
  <2>3. BITS_PER_WITNESS <= written /\ written \in OpeningSlot
    <3>1. /\ Cardinality(Forks(M, node_i)) \in Nat
          /\ -1 \in -1 .. LEAVES - 2
      BY <1>2, ForksFinite, HeapSizes
    <3>2. /\ Cardinality(Forks(M, node_i')) <= Cardinality(Forks(M, -1))
          /\ Cardinality(Forks(M, -1)) \in Nat
      <4>1. Forks(M, node_i') \subseteq Forks(M, -1)
        BY <1>2, <3>1, HeapSizes DEF Forks
      <4> QED
        BY <3>1, <4>1, ForksFinite, FS_Subset
    <3>3. Cardinality(Forks(M, -1)) <= BATCH_VECTOR_OPENING_SEEDS_TRESHOLD
      BY <1>1 DEF Revealing
    <3>4. Cardinality(Forks(M, node_i')) \in Nat
      BY <1>2, ForksFinite
    <3> QED
      BY <1>5, <2>2, <3>1, <3>2, <3>3, <3>4, OpeningSizes, OpenAssumption
         DEF SlotOf, OpeningSlot, OpeningSize
  <2>4. \A s \in OpeningSlot : opening'[s] = IF s = written THEN seed ELSE opening[s]
    BY <1>5, <2>1
  <2>5. \A x \in Forks(M, node_i) :
          /\ SlotOf(M, x) \in OpeningSlot /\ SlotOf(M, x) < written
    BY <1>2, <1>5, <2>3, SlotBefore, OpeningSizes DEF OpeningSlot
  <2>6. Filled(dont_reveal, node_i)'
    <3>1. \A x \in Forks(M, node_i') : opening'[SlotOf(M, x)] = RevealedChild(M, x)
      <4>1. \A x \in Forks(M, node_i) : opening[SlotOf(M, x)] = RevealedChild(M, x)
        BY <1>1 DEF Revealing, Filled
      <4>2. ASSUME NEW x \in Forks(M, node_i)
            PROVE  opening'[SlotOf(M, x)] = RevealedChild(M, x)
        <5>1. SlotOf(M, x) \in OpeningSlot /\ SlotOf(M, x) # written
          BY <2>2, <2>5, OpeningSizes DEF OpeningSlot
        <5> QED
          BY <2>4, <4>1, <5>1
      <4>3. opening'[SlotOf(M, node_i)] = seed
        BY <1>5, <2>3, <2>4
      <4> QED
        BY <2>2, <4>2, <4>3
    <3>2. \A s \in BITS_PER_WITNESS .. SlotOf(M, node_i') - 1 :
            \E x \in Forks(M, node_i') : s = SlotOf(M, x)
      <4>1. ASSUME NEW s \in BITS_PER_WITNESS .. SlotOf(M, node_i') - 1
            PROVE  s = written \/ s \in BITS_PER_WITNESS .. SlotOf(M, node_i) - 1
        BY <1>5, <2>2, OpeningSizes
      <4> QED
        BY <1>1, <1>5, <2>2, <4>1 DEF Revealing, Filled
    <3> QED
      BY <1>3, <3>1, <3>2 DEF Filled
  <2>7. \A vec \in Vec : opening'[vec] = PosInTree(vec, delta.index[vec])
    <3>1. \A vec \in Vec : vec \in OpeningSlot /\ vec # written
      BY <2>2, <2>3, OpeningSizes DEF Vec, OpeningSlot
    <3> QED
      BY <1>1, <2>4, <3>1 DEF Revealing
  <2>8. \A s \in OpeningSlot : s >= written' => opening'[s] = Uninit
    BY <1>1, <2>1, <2>2, <2>4, OpeningSizes DEF Revealing, OpeningSlot
  <2> QED
    BY <1>1, <1>2, <1>3, <1>4, <2>1, <2>2, <2>6, <2>7, <2>8 DEF Revealing
<1> QED
  BY <1>7, <1>8

LEMMA OpenReturnReveals == VCInv /\ OpenInv /\ OpenReturn => Revealing'
<1> SUFFICES ASSUME VCInv, OpenInv, OpenReturn PROVE Revealing'
  OBVIOUS
<1>1. /\ Revealing /\ open_pc = "reveal" /\ open_pc' = "opened"
      /\ UNCHANGED <<delta, number_of_hidden_nodes, dont_reveal, written, node_i>>
      /\ node_i < 0
      /\ opening' = [s \in OpeningSlot |-> IF s < written THEN opening[s] ELSE Zero]
  BY DEF OpenReturn, OpenInv
<1>2. node_i = -1 /\ -1 \in -1 .. LEAVES - 2
  BY <1>1, HeapSizes DEF Revealing
<1>3. SeedsNeeded' = SeedsNeeded
  BY <1>1 DEF SeedsNeeded
<1>4. /\ written = SlotOf(dont_reveal, -1) /\ written \in Nat
      /\ BITS_PER_WITNESS <= written /\ written <= OpeningSize
  BY <1>1, <1>2, ForksFinite, OpeningSizes, OpenAssumption DEF Revealing, SlotOf, OpeningSize
<1>5. \A s \in OpeningSlot : opening'[s] = IF s < written THEN opening[s] ELSE Zero
  BY <1>1
<1>6. \A vec \in Vec : vec \in OpeningSlot /\ vec < written
  BY <1>4, OpeningSizes DEF Vec, OpeningSlot
<1>7. \A x \in Forks(dont_reveal, -1) :
        SlotOf(dont_reveal, x) \in OpeningSlot /\ SlotOf(dont_reveal, x) < written
  BY <1>2, <1>4, SlotBefore, OpeningSizes DEF OpeningSlot
<1>8. Filled(dont_reveal, node_i)'
  BY <1>1, <1>2, <1>5, <1>7 DEF Revealing, Filled
<1>9. \A s \in OpeningSlot : s >= written => opening'[s] = Zero
  BY <1>4, <1>5, OpeningSizes DEF OpeningSlot
<1> QED
  BY <1>1, <1>2, <1>3, <1>5, <1>6, <1>8, <1>9 DEF Revealing

---------------------------------------------------------------------------
LEMMA OpenInvStep == VCInv /\ OpenInv /\ [Next]_vars => OpenInv'
<1> SUFFICES ASSUME VCInv, OpenInv, [Next]_vars PROVE OpenInv'
  OBVIOUS
<1>1. ASSUME UNCHANGED openVars, commit_pc' = "done" \/ commit_pc # "done" PROVE OpenInv'
  BY <1>1 DEF OpenInv, openVars, Marking, Revealing, Filled, Hiding, SeedsNeeded
<1>2. CASE SignerCommits
  <2>1. commit_pc # "done"
    BY <1>2 DEF SignerCommits, CommitNext, ExpandTop, EndTop, ExpandRest, ExpandRemainder,
                HashLeafChunk, HashLastChunk, WriteOutput, CommitReturn
  <2> QED
    BY <1>1, <1>2, <2>1 DEF SignerCommits
<1>3. CASE SignerChallenged
  BY <1>3, OpenCallMarks DEF SignerChallenged
<1>4. CASE SignerOpens
  <2>1. commit_pc' = commit_pc
    BY <1>4 DEF SignerOpens, commitVars
  <2>2. CASE MarkLeaf
    BY <2>1, <2>2, MarkLeafMarks DEF OpenInv, MarkLeaf
  <2>3. CASE MarkParent
    BY <2>1, <2>3, MarkParentMarks DEF OpenInv, MarkParent
  <2>4. CASE EndClimb
    BY <2>1, <2>4, EndClimbMarks DEF OpenInv, EndClimb
  <2>5. CASE RefuseTooLong
    BY <2>1, <2>5 DEF OpenInv, RefuseTooLong
  <2>6. CASE WriteCommitments
    BY <2>1, <2>6, WriteCommitmentsReveals DEF OpenInv, WriteCommitments
  <2>7. CASE RevealNode
    BY <2>1, <2>7, RevealNodeReveals DEF OpenInv, RevealNode
  <2>8. CASE OpenReturn
    BY <2>1, <2>8, OpenReturnReveals DEF OpenInv, OpenReturn
  <2> QED
    BY <1>4, <2>2, <2>3, <2>4, <2>5, <2>6, <2>7, <2>8 DEF SignerOpens, OpenStep
<1>5. CASE VerifierReceives \/ VerifierVerifies \/ UNCHANGED vars
  <2>1. UNCHANGED openVars /\ commit_pc' = commit_pc
    BY <1>5 DEF VerifierReceives, VerifierVerifies, vars, commitVars
  <2> QED
    BY <1>1, <2>1
<1> QED
  BY <1>2, <1>3, <1>4, <1>5 DEF Next

LEMMA VCOpenInv == Spec => [](VCInv /\ OpenInv)
BY VCInvInit, VCInvStep, OpenInvInit, OpenInvStep, PTL DEF Spec
(* The assertion of batch_vector_open: the number of seeds computed before    *)
(* the opening is written, in unsigned arithmetic, is the number written, and *)
(* the opening never outgrows its buffer.                                    *)
THEOREM OpeningSizePredicted == Spec => []SizePredicted
<1>1. VCInv /\ OpenInv => SizePredicted
  <2> SUFFICES ASSUME VCInv, OpenInv PROVE SizePredicted
    OBVIOUS
  <2>1. open_pc \in {"idle", "refused", "mark", "climb", "reveal", "opened"}
    BY DEF VCInv, OpenLoops
  <2>2. CASE open_pc \in {"idle", "refused", "mark", "climb"}
    BY <2>2, OpeningSizes DEF OpenInv, SizePredicted
  <2>3. CASE open_pc \in {"reveal", "opened"}
    <3>1. Revealing /\ written = SlotOf(dont_reveal, node_i)
      BY <2>3 DEF OpenInv, Revealing
    <3>2. node_i \in -1 .. LEAVES - 2 /\ -1 \in -1 .. LEAVES - 2 /\ LEAVES \in Nat
      BY <3>1, HeapSizes DEF Revealing
    <3>3. Forks(dont_reveal, node_i) \subseteq Forks(dont_reveal, -1)
      BY <3>2 DEF Forks
    <3>4. Cardinality(Forks(dont_reveal, node_i)) <= Cardinality(Forks(dont_reveal, -1))
      BY <3>2, <3>3, ForksFinite, FS_Subset
    <3>5. /\ Cardinality(Forks(dont_reveal, node_i)) \in Nat
          /\ Cardinality(Forks(dont_reveal, -1)) \in Nat
      BY <3>2, ForksFinite
    <3>6. written <= OpeningSize
      BY <3>1, <3>4, <3>5, OpeningSizes, OpenAssumption DEF Revealing, SlotOf, OpeningSize
    <3>7. open_pc = "opened" => written - BITS_PER_WITNESS = SeedsNeeded
      BY <3>1, <3>5, OpeningSizes DEF Revealing, SlotOf
    <3> QED
      BY <3>6, <3>7 DEF SizePredicted
  <2> QED
    BY <2>1, <2>2, <2>3
<1> QED
  BY <1>1, VCOpenInv, PTL

---------------------------------------------------------------------------
(* The counters of the opening.  While it marks, the count is the number of  *)
(* marks, hence no more than the nodes there are; afterwards it stays.        *)
OpenCounters ==
  /\ number_of_hidden_nodes \in 0 .. NODES
  /\ vec_index \in 0 .. BITS_PER_WITNESS
  /\ pos \in Node
  /\ node_i \in -1 .. LEAVES - 2

LEMMA OpenCountersInit == Init => OpenCounters
<1> SUFFICES ASSUME Init PROVE OpenCounters
  OBVIOUS
<1>1. LEAVES \in Nat /\ LEAVES >= 2
  <2>1. /\ BITS_PER_WITNESS \in Nat /\ BITS_PER_WITNESS >= 2
        /\ SHORT_LEN \in Nat /\ SHORT_LEN >= 1 /\ VOLES_MAX_K \in Nat
    BY LayoutAssumption, ChunkAssumption
  <2>2. BITS_PER_WITNESS * 1 <= BITS_PER_WITNESS * SHORT_LEN
    BY <2>1, MulMonotone
  <2>3. VOLES_MAX_K * SHORT_LEN \in Nat /\ BITS_PER_WITNESS * SHORT_LEN \in Nat
    BY <2>1
  <2> QED
    BY <2>1, <2>2, <2>3, LeavesSum
<1>2. 0 \in 0 .. NODES /\ 0 \in 0 .. BITS_PER_WITNESS /\ 0 \in -1 .. LEAVES - 2
  BY <1>1, OpeningSizes, LayoutSizes
<1> QED
  BY <1>2, HeapSizes DEF Init, OpenInit, OpenCounters

MarkCounters ==
  /\ number_of_hidden_nodes \in 0 .. NODES
  /\ vec_index \in 0 .. BITS_PER_WITNESS
  /\ open_pc = "climb" => pos \in Node /\ vec_index < BITS_PER_WITNESS

LEMMA MarkingCounts == Marking => MarkCounters
<1> SUFFICES ASSUME Marking PROVE MarkCounters
  OBVIOUS
<1>1. Marked(dont_reveal) \subseteq Node
  BY DEF Marked
<1>2. /\ Cardinality(Marked(dont_reveal)) \in Nat
      /\ Cardinality(Marked(dont_reveal)) <= NODES
  BY <1>1, FiniteNodes
<1>3. number_of_hidden_nodes \in 0 .. NODES
  BY <1>2, LayoutSizes DEF Marking
<1>4. /\ vec_index \in Nat /\ Hiding \in 0 .. BITS_PER_WITNESS
      /\ open_pc = "climb" => pos \in Node
  BY DEF Marking
<1> QED
  BY <1>3, <1>4, OpeningSizes DEF Hiding, MarkCounters

LEMMA OpenCountersStep ==
  VCInv /\ OpenInv /\ OpenInv' /\ OpenCounters /\ [Next]_vars => OpenCounters'
<1> SUFFICES ASSUME VCInv, OpenInv, OpenInv', OpenCounters, [Next]_vars PROVE OpenCounters'
  OBVIOUS
<1>1. CASE UNCHANGED openVars
  BY <1>1 DEF OpenCounters, openVars
<1>2. CASE SignerChallenged
  <2>1. /\ number_of_hidden_nodes' = 0 /\ vec_index' = 0 /\ pos' = 0 /\ node_i' = node_i
    BY <1>2 DEF SignerChallenged, OpenCall
  <2> QED
    BY <2>1, HeapSizes, LayoutSizes, OpeningSizes DEF OpenCounters
<1>3. CASE MarkLeaf \/ MarkParent \/ EndClimb
  <2>1. /\ open_pc' \in {"mark", "climb"} /\ node_i' = node_i
        /\ open_pc' = "mark" => pos' = pos
    BY <1>3 DEF MarkLeaf, MarkParent, EndClimb
  <2>2. Marking'
    BY <2>1 DEF OpenInv
  <2>3. MarkCounters'
    BY <2>2, MarkingCounts, PTL
  <2> QED
    BY <2>1, <2>3 DEF OpenCounters, MarkCounters
<1>4. CASE RefuseTooLong
  BY <1>4 DEF RefuseTooLong, OpenCounters
<1>5. CASE WriteCommitments \/ RevealNode \/ OpenReturn
  <2>1. /\ UNCHANGED <<number_of_hidden_nodes, vec_index, pos>>
        /\ open_pc' \in {"reveal", "opened"}
    BY <1>5 DEF WriteCommitments, RevealNode, OpenReturn
  <2>2. node_i' \in -1 .. LEAVES - 2
    BY <2>1 DEF OpenInv, Revealing
  <2> QED
    BY <2>1, <2>2 DEF OpenCounters
<1> QED
  BY <1>1, <1>2, <1>3, <1>4, <1>5 DEF Next, vars, SignerCommits, SignerOpens, OpenStep,
     VerifierReceives, VerifierVerifies

(* Every variable of the commitment, of the opening and of the verifier stays *)
(* in its type, and every index, counter and pointer in the range of what it  *)
(* indexes or counts, whatever opening the verifier receives.                 *)
THEOREM VCTypeCorrect == Spec => []TypeOK
<1>1. VCInv /\ OpenInv /\ OpenCounters /\ SizePredicted => TypeOK
  <2> SUFFICES ASSUME VCInv, OpenInv, OpenCounters, SizePredicted PROVE TypeOK
    OBVIOUS
  <2>1. CommitTypeOK
    BY CommitInvImplies DEF VCInv
  <2>2. written \in 0 .. OpeningSize
    <3>1. open_pc \in {"idle", "refused", "mark", "climb", "reveal", "opened"}
      BY DEF VCInv, OpenLoops
    <3>2. CASE open_pc \in {"idle", "refused", "mark", "climb"}
      BY <3>2, OpeningSizes DEF OpenInv
    <3>3. CASE open_pc \in {"reveal", "opened"}
      <4>1. written = SlotOf(dont_reveal, node_i) /\ node_i \in -1 .. LEAVES - 2
        BY <3>3 DEF OpenInv, Revealing
      <4>2. written \in Nat
        BY <4>1, ForksFinite, OpeningSizes DEF SlotOf
      <4> QED
        BY <4>2, OpeningSizes DEF SizePredicted
    <3> QED
      BY <3>1, <3>2, <3>3
  <2>3. open_pc = "climb" => vec_index < BITS_PER_WITNESS
    <3>1. open_pc = "climb" => MarkCounters
      BY MarkingCounts DEF OpenInv
    <3> QED
      BY <3>1 DEF MarkCounters
  <2>4. OpenTypeOK
    BY <2>2, <2>3 DEF OpenTypeOK, OpenCounters, VCInv, OpenType, OpenLoops
  <2>5. v_i \in CASE verify_pc = "mark" -> 0 .. BITS_PER_WITNESS
                [] verify_pc = "up"   -> -1 .. LEAVES - 2
                [] verify_pc = "down" -> 0 .. LEAVES - 1
                [] OTHER              -> -1 .. LEAVES - 1
    BY DEF VCInv, VerifyLoops
  <2>6. VerifyTypeOK
    BY <2>5 DEF VerifyTypeOK, VCInv, VerifyType, VerifyLoops
  <2> QED
    BY <2>1, <2>4, <2>6 DEF TypeOK
<1>2. Spec => [](VCInv /\ OpenInv /\ OpenCounters)
  BY VCInvInit, VCInvStep, OpenInvInit, OpenInvStep, OpenCountersInit, OpenCountersStep,
     PTL DEF Spec
<1> QED
  BY <1>1, <1>2, OpeningSizePredicted, PTL

---------------------------------------------------------------------------
(* The nodes a seed leads to form a function: the least set with the seed     *)
(* that holds the children of each of its members.                           *)
LEMMA DerivesExists ==
  ASSUME NEW seed \in Node
  PROVE  \E g : g = [x \in Node |-> x = seed \/ (x > 0 /\ g[Parent(x)])]
<1> DEFINE Downward(C) == seed \in C /\ \A y \in Node \ {0} : Parent(y) \in C => y \in C
           D == {x \in Node : \A C \in SUBSET Node : Downward(C) => x \in C}
           g == [x \in Node |-> x \in D]
<1>1. ASSUME NEW x \in Node, x = seed \/ (x > 0 /\ Parent(x) \in D) PROVE x \in D
  BY <1>1
<1>2. ASSUME NEW x \in D, x # seed, ~(x > 0 /\ Parent(x) \in D) PROVE FALSE
  <2> DEFINE C == D \ {x}
  <2>1. x \in Node /\ (x # 0 => x > 0)
    BY HeapSizes
  <2>2. ASSUME NEW y \in Node \ {0}, Parent(y) \in C PROVE y \in C
    <3>1. y > 0 /\ y \in Node
      BY HeapSizes
    <3>2. y \in D
      BY <1>1, <2>2, <3>1
    <3>3. y # x
      BY <1>2, <2>2, <3>1
    <3> QED
      BY <3>2, <3>3
  <2>3. seed \in C
    BY <1>1, <1>2
  <2>4. Downward(C) /\ C \in SUBSET Node
    BY <2>2, <2>3
  <2> QED
    BY <2>4
<1>3. \A x \in Node : (x \in D) = (x = seed \/ (x > 0 /\ Parent(x) \in D))
  BY <1>1, <1>2
<1>4. \A x \in Node : x > 0 => g[Parent(x)] = (Parent(x) \in D)
  BY ParentShape, HeapSizes
<1>5. g = [x \in Node |-> x = seed \/ (x > 0 /\ g[Parent(x)])]
  <2>1. \A x \in Node : (x \in D) = (x = seed \/ (x > 0 /\ g[Parent(x)]))
    BY <1>3, <1>4
  <2> QED
    BY <2>1
<1> QED
  BY <1>5

(* What the opening holds in the place of a seed is, where it is a node at    *)
(* all, a node that is not marked.                                           *)
LEMMA SeedsUnmarked ==
  ASSUME VCInv, OpenInv, open_pc \in {"reveal", "opened"},
         NEW s \in SeedSlot, opening[s] \in Node
  PROVE  ~dont_reveal[opening[s]]
<1>1. Revealing
  BY DEF OpenInv
<1>2. /\ s \in OpeningSlot /\ s >= BITS_PER_WITNESS /\ s \in Int
      /\ node_i \in -1 .. LEAVES - 2 /\ dont_reveal \in [Node -> BOOLEAN]
  BY <1>1, OpeningSizes DEF SeedSlot, OpeningSlot, Revealing, VCInv, OpenType
<1>3. written = SlotOf(dont_reveal, node_i) /\ written \in Nat
  BY <1>1, <1>2, ForksFinite, OpeningSizes DEF Revealing, SlotOf
<1>4. Uninit \notin Node /\ Zero \notin Node
  BY HeapSizes DEF Uninit, Zero
<1>5. s < written
  BY <1>1, <1>2, <1>3, <1>4 DEF Revealing
<1>6. s \in BITS_PER_WITNESS .. SlotOf(dont_reveal, node_i) - 1
  BY <1>2, <1>3, <1>5, OpeningSizes
<1>7. PICK x \in Forks(dont_reveal, node_i) : s = SlotOf(dont_reveal, x)
  BY <1>1, <1>6 DEF Revealing, Filled
<1>8. opening[s] = RevealedChild(dont_reveal, x) /\ OneChildHidden(dont_reveal, x)
  BY <1>1, <1>7 DEF Revealing, Filled, Forks
<1>9. x \in Internal
  BY <1>2, <1>7, SlotBefore
<1>10. /\ dont_reveal[Child(x, 0)] \in BOOLEAN /\ dont_reveal[Child(x, 1)] \in BOOLEAN
  BY <1>2, <1>9, ChildShape
<1> QED
  BY <1>8, <1>10 DEF RevealedChild, OneChildHidden

(* The signer opens no vector further than it was asked: nothing it writes   *)
(* leads to the leaf the challenge hides.                                    *)
THEOREM HiddenLeavesStayHidden == Spec => []HiddenStaysHidden
<1>1. ASSUME VCInv, OpenInv, open_pc \in {"reveal", "opened"},
             NEW s \in SeedSlot, NEW vec \in Vec, opening[s] \in Node
      PROVE  LET derives[x \in Node] == x = opening[s] \/ (x > 0 /\ derives[Parent(x)])
             IN  ~derives[HiddenPos(delta, vec)]
  <2> DEFINE derives[x \in Node] == x = opening[s] \/ (x > 0 /\ derives[Parent(x)])
  <2>1. \E g : g = [x \in Node |-> x = opening[s] \/ (x > 0 /\ g[Parent(x)])]
    BY <1>1, DerivesExists
  <2>2. derives = [x \in Node |-> x = opening[s] \/ (x > 0 /\ derives[Parent(x)])]
    BY <2>1, Zenon
  <2> HIDE DEF derives
  <2>3. \A x \in Node : derives[x] <=> x = opening[s] \/ (x > 0 /\ derives[Parent(x)])
    BY <2>2
  <2> DEFINE Bad == {x \in Node : dont_reveal[x] /\ derives[x]}
  <2>4. SUFFICES ASSUME derives[HiddenPos(delta, vec)] PROVE FALSE
    BY DEF derives
  <2>5. Revealing /\ dont_reveal \in [Node -> BOOLEAN]
    BY <1>1 DEF OpenInv, VCInv, OpenType
  <2>6. HiddenPos(delta, vec) \in Bad
    <3>1. delta.index[vec] \in Leaf(vec) /\ vec < BITS_PER_WITNESS
      BY <1>1, HiddenIndex, OpeningSizes DEF VCInv, OpenType, Vec
    <3> QED
      BY <2>4, <2>5, <3>1, LeafShape DEF HiddenPos, Revealing, HiddenLeaves
  <2>7. Bad \in SUBSET Nat
    BY HeapSizes
  <2>8. PICK x \in Bad : \A y \in Bad : x <= y
    BY <2>6, <2>7, LeastElement
  <2>9. ~dont_reveal[opening[s]]
    BY <1>1, SeedsUnmarked
  <2>10. x > 0 /\ derives[Parent(x)] /\ x \in Node \ {0}
    BY <2>3, <2>8, <2>9, HeapSizes
  <2>11. Parent(x) \in Internal /\ Parent(x) < x /\ Parent(x) \in Node /\ Parent(x) \in Nat
    BY <2>10, ParentShape
  <2>12. dont_reveal[Parent(x)]
    <3>1. x = Child(Parent(x), 0) \/ x = Child(Parent(x), 1)
      BY <2>10, ParentShape
    <3> QED
      BY <2>5, <2>8, <2>11, <3>1 DEF Revealing, Closed, Joins
  <2>13. Parent(x) \in Bad /\ x \in Nat
    BY <2>7, <2>8, <2>10, <2>11, <2>12
  <2> QED
    BY <2>8, <2>11, <2>13
<1>2. VCInv /\ OpenInv => HiddenStaysHidden
  BY <1>1 DEF HiddenStaysHidden
<1> QED
  BY <1>2, VCOpenInv, PTL

---------------------------------------------------------------------------
(* The verifier.                                                             *)

(* The commitments of the hidden leaves of the first n vectors come from the  *)
(* opening, and their keys are zero.                                         *)
Commitments(n) ==
  \A vec \in Vec : vec < n =>
    /\ v_hashed[HashPos(vec, v_delta.index[vec])] = v_opening[vec]
    /\ v_leaves[LeafPos(vec, 0)] = Zero

(* The seeds read on the way up to node i come from their slots.             *)
Seeds(i) ==
  \A x \in Forks(v_dont_reveal, i) :
    /\ SlotOf(v_dont_reveal, x) < OpeningSize
    /\ v_tree[RevealedChild(v_dont_reveal, x)] = v_opening[SlotOf(v_dont_reveal, x)]

(* The opening holds zeros from slot a up to slot b.                         *)
Padding(a, b) == \A s \in OpeningSlot : s >= a /\ s < b => v_opening[s] = Zero

(* Both outputs of this leaf come from its node.                             *)
Output(vec, leaf) ==
  /\ v_hashed[HashPos(vec, leaf)] = LeafPrg(v_tree[PosInTree(vec, leaf)])
  /\ v_leaves[LeafPos(vec, XorIndex(leaf, v_delta.index[vec]))]
       = LeafPrg(v_tree[PosInTree(vec, leaf)])

MarkInv ==
  /\ v_delta.topZero /\ v_read = v_i /\ v_i \in 0 .. BITS_PER_WITNESS
  /\ v_leaf = <<0, 0>>
  /\ HiddenLeaves(v_dont_reveal, v_delta, v_i)
  /\ \A x \in Internal : ~v_dont_reveal[x]
  /\ Commitments(v_i)

UpInv ==
  /\ v_delta.topZero /\ v_leaf = <<0, 0>> /\ v_i \in -1 .. LEAVES - 2
  /\ HiddenLeaves(v_dont_reveal, v_delta, BITS_PER_WITNESS)
  /\ \A x \in Internal : IF x > v_i THEN Joins(v_dont_reveal, x) ELSE ~v_dont_reveal[x]
  /\ v_i >= 0 => v_read = SlotOf(v_dont_reveal, v_i)
  /\ v_read <= OpeningSize /\ v_read >= SlotOf(v_dont_reveal, v_i)
  /\ Padding(SlotOf(v_dont_reveal, v_i), v_read)
  /\ Seeds(v_i)
  /\ Commitments(BITS_PER_WITNESS)

DownInv ==
  /\ v_delta.topZero /\ Closed(v_dont_reveal) /\ v_i \in 0 .. LEAVES - 1
  /\ HiddenLeaves(v_dont_reveal, v_delta, BITS_PER_WITNESS)
  /\ SlotOf(v_dont_reveal, -1) <= OpeningSize
  /\ Padding(SlotOf(v_dont_reveal, -1), OpeningSize)
  /\ Seeds(-1)
  /\ Commitments(BITS_PER_WITNESS)
  /\ \A x \in Internal : x < v_i /\ ~v_dont_reveal[x] =>
       \A b \in {0, 1} : v_tree[Child(x, b)] = Prg(v_tree[x], b)
  /\ \A vec \in Vec : \A leaf \in Leaf(vec) :
       leaf # v_delta.index[vec] /\ LeafBefore(v_leaf, vec, leaf) => Output(vec, leaf)
  /\ v_i < LEAVES - 1 => v_leaf = <<0, 0>>
  /\ verify_pc = "accepted" => v_leaf = <<BITS_PER_WITNESS, 0>> /\ v_i = LEAVES - 1

VerifyInv ==
  /\ verify_pc # "idle" => open_pc = "opened" /\ <<v_delta, v_opening>> \in Received
  /\ verify_pc = "idle" =>
       v_dont_reveal = NoMarks /\ v_read = 0 /\ v_i = 0 /\ v_leaf = <<0, 0>>
  /\ verify_pc = "mark" => MarkInv
  /\ verify_pc = "up" => UpInv
  /\ verify_pc \in {"down", "accepted"} => DownInv

LEMMA VerifyInvInit == Init => VerifyInv
BY DEF Init, VerifyInit, VerifyInv

(* Once it has returned the opening, the signer changes nothing.             *)
LEMMA SignerDone ==
  ASSUME VCInv, OpenInv, [Next]_vars, open_pc = "opened"
  PROVE  UNCHANGED <<commitVars, openVars>>
<1>1. commit_pc = "done"
  BY DEF OpenInv
<1>2. ~SignerCommits
  BY <1>1 DEF SignerCommits, CommitNext, ExpandTop, EndTop, ExpandRest, ExpandRemainder,
              HashLeafChunk, HashLastChunk, WriteOutput, CommitReturn
<1>3. ~SignerChallenged /\ ~SignerOpens
  BY DEF SignerChallenged, OpenCall, SignerOpens, OpenStep, MarkLeaf, MarkParent, EndClimb,
         RefuseTooLong, WriteCommitments, RevealNode, OpenReturn
<1> QED
  BY <1>2, <1>3 DEF Next, VerifierReceives, VerifierVerifies, vars

---------------------------------------------------------------------------
LEMMA VerifyCallMarks ==
  ASSUME VCInv, VerifyInv, NEW d, NEW o, VerifyCall(d, o), verify_pc' = "mark"
  PROVE  MarkInv'
<1>1. /\ verify_pc = "idle" /\ d.topZero /\ v_delta' = d
      /\ v_dont_reveal' = NoMarks /\ v_read' = 0 /\ v_i' = 0 /\ v_leaf' = <<0, 0>>
  BY DEF VerifyCall, VerifyInv
<1>2. \A x \in Node : ~NoMarks[x]
  BY DEF NoMarks
<1>3. HiddenLeaves(NoMarks, d, 0)
  BY <1>2, LeafShape, LeafCases DEF HiddenLeaves
<1>4. Commitments(0)'
  BY OpeningSizes DEF Commitments, Vec
<1> QED
  BY <1>1, <1>2, <1>3, <1>4, HeapSizes, OpeningSizes DEF MarkInv

LEMMA CopyCommitmentMarks == VCInv /\ VerifyInv /\ CopyCommitment => MarkInv'
<1> SUFFICES ASSUME VCInv, VerifyInv, CopyCommitment PROVE MarkInv'
  OBVIOUS
<1> DEFINE new  == HiddenPos(v_delta, v_i)
           hash == HashPos(v_i, v_delta.index[v_i])
           key  == LeafPos(v_i, 0)
<1>1. /\ MarkInv /\ v_i < BITS_PER_WITNESS
      /\ v_dont_reveal' = [v_dont_reveal EXCEPT ![new] = TRUE]
      /\ v_hashed' = [v_hashed EXCEPT ![hash] = v_opening[v_read]]
      /\ v_leaves' = [v_leaves EXCEPT ![key] = Zero]
      /\ v_read' = v_read + 1 /\ v_i' = v_i + 1
      /\ v_delta' = v_delta /\ v_opening' = v_opening /\ v_leaf' = v_leaf
  BY DEF CopyCommitment, VerifyInv
<1>2. /\ v_i \in Vec /\ v_i \in Nat /\ v_delta.index[v_i] \in Leaf(v_i)
      /\ \A vec \in Vec : v_delta.index[vec] \in Leaf(vec) /\ 0 \in Leaf(vec)
      /\ \A vec \in Vec : vec \in Nat
  <2>1. v_i \in Vec /\ v_i \in Nat
    BY <1>1, OpeningSizes DEF MarkInv, Vec
  <2>2. \A vec \in Vec : v_delta.index[vec] \in Leaf(vec)
    BY HiddenIndex DEF VCInv, VerifyType
  <2>3. \A vec \in Vec : VecLen(vec) \in Nat \ {0}
    BY LayoutSizes, LayoutAssumption DEF VecLen
  <2> QED
    BY <2>1, <2>2, <2>3 DEF Vec, Leaf
<1>3. /\ new \in Node /\ new \notin Internal /\ hash \in Slot /\ key \in Slot
  BY <1>2, LeafShape, HashPosRange, LeafPosBijective DEF HiddenPos
<1>4. /\ v_dont_reveal \in [Node -> BOOLEAN]
      /\ v_hashed \in [Slot -> Block] /\ v_leaves \in [Slot -> Block]
  BY DEF VCInv, VerifyType
<1>5. \A x \in Node : v_dont_reveal'[x] <=> v_dont_reveal[x] \/ x = new
  BY <1>1, <1>3, <1>4
<1>6. HiddenLeaves(v_dont_reveal, v_delta, v_i)'
  <2>1. ASSUME NEW vec \in Vec, NEW leaf \in Leaf(vec)
        PROVE  v_dont_reveal'[PosInTree(vec, leaf)] <=> vec < v_i + 1 /\ leaf = v_delta.index[vec]
    <3>1. PosInTree(vec, leaf) = new => vec = v_i /\ leaf = v_delta.index[v_i]
      BY <1>2, PosInTreeInjective DEF HiddenPos
    <3>2. PosInTree(vec, leaf) \in Node
      BY LeafShape
    <3>3. v_dont_reveal[PosInTree(vec, leaf)] <=> vec < v_i /\ leaf = v_delta.index[vec]
      BY <1>1 DEF MarkInv, HiddenLeaves
    <3>4. vec \in Nat
      BY <1>2
    <3>5. CASE vec = v_i
      BY <1>2, <1>5, <3>1, <3>2, <3>3, <3>5 DEF HiddenPos
    <3>6. CASE vec # v_i
      BY <1>2, <1>5, <3>1, <3>2, <3>3, <3>4, <3>6
    <3> QED
      BY <3>5, <3>6
  <2> QED
    BY <1>1, <2>1 DEF HiddenLeaves
<1>7. \A x \in Internal : ~v_dont_reveal'[x]
  BY <1>1, <1>3, <1>5, HeapSizes DEF MarkInv
<1>8. Commitments(v_i)'
  <2>1. ASSUME NEW vec \in Vec, vec < v_i + 1
        PROVE  /\ v_hashed'[HashPos(vec, v_delta.index[vec])] = v_opening[vec]
               /\ v_leaves'[LeafPos(vec, 0)] = Zero
    <3>1. CASE vec = v_i
      BY <1>1, <1>3, <1>4, <3>1 DEF MarkInv
    <3>2. CASE vec # v_i
      <4>1. vec < v_i
        BY <1>2, <2>1, <3>2
      <4>2. HashPos(vec, v_delta.index[vec]) # hash /\ LeafPos(vec, 0) # key
        BY <1>2, <3>2, HashPosInjective, LeafPosBijective
      <4> QED
        BY <1>1, <1>4, <4>1, <4>2 DEF MarkInv, Commitments
    <3> QED
      BY <3>1, <3>2
  <2> QED
    BY <1>1, <2>1 DEF Commitments
<1> QED
  BY <1>1, <1>2, <1>6, <1>7, <1>8, OpeningSizes DEF MarkInv

LEMMA StartUpClimbs == VCInv /\ VerifyInv /\ StartUp => UpInv'
<1> SUFFICES ASSUME VCInv, VerifyInv, StartUp PROVE UpInv'
  OBVIOUS
<1>1. /\ MarkInv /\ v_i = BITS_PER_WITNESS /\ v_i' = LEAVES - 2
      /\ UNCHANGED <<v_delta, v_opening, v_dont_reveal, v_tree, v_leaves, v_hashed, v_read, v_leaf>>
  BY DEF StartUp, VerifyInv
<1>2. LEAVES - 2 \in -1 .. LEAVES - 2 /\ LEAVES \in Nat
  BY HeapSizes
<1>3. Forks(v_dont_reveal, LEAVES - 2) = {}
  BY <1>2 DEF Forks
<1>4. SlotOf(v_dont_reveal, LEAVES - 2) = BITS_PER_WITNESS
  BY <1>3, FS_EmptySet, OpeningSizes DEF SlotOf
<1>5. \A x \in Internal : ~(x > LEAVES - 2)
  BY <1>2 DEF Internal
<1>6. v_read = BITS_PER_WITNESS
  BY <1>1 DEF MarkInv
<1>7. Padding(BITS_PER_WITNESS, BITS_PER_WITNESS)'
  BY OpeningSizes DEF Padding, OpeningSlot
<1>8. Seeds(v_i)' /\ Commitments(BITS_PER_WITNESS)'
  BY <1>1, <1>3 DEF Seeds, Commitments, MarkInv
<1> QED
  BY <1>1, <1>2, <1>4, <1>5, <1>6, <1>7, <1>8, OpeningSizes DEF UpInv, MarkInv

---------------------------------------------------------------------------
(* The mark set at node i changes no fork passed so far, nor node i itself   *)
(* as a fork: those depend on nodes above i only.                            *)
LEMMA PropagateAbove ==
  ASSUME NEW marks \in [Node -> BOOLEAN], NEW i \in Internal
  PROVE  /\ \A x \in Node : x # i => Propagate(marks, i)[x] = marks[x]
         /\ Joins(Propagate(marks, i), i)
         /\ \A x \in Internal : x >= i =>
              /\ \A b \in {0, 1} : Propagate(marks, i)[Child(x, b)] = marks[Child(x, b)]
              /\ OneChildHidden(Propagate(marks, i), x) <=> OneChildHidden(marks, x)
              /\ RevealedChild(Propagate(marks, i), x) = RevealedChild(marks, x)
         /\ \A j \in i - 1 .. LEAVES - 2 :
              /\ Forks(Propagate(marks, i), j) = Forks(marks, j)
              /\ SlotOf(Propagate(marks, i), j) = SlotOf(marks, j)
<1> DEFINE m == Propagate(marks, i)
<1>1. \A x \in Node : x # i => m[x] = marks[x]
  BY DEF Propagate
<1>2. \A x \in Internal : x >= i =>
         \A b \in {0, 1} : Child(x, b) \in Node /\ Child(x, b) # i /\ m[Child(x, b)] = marks[Child(x, b)]
  <2>1. ASSUME NEW x \in Internal, x >= i, NEW b \in {0, 1}
        PROVE  Child(x, b) \in Node /\ Child(x, b) # i
    <3>1. Child(x, b) \in Node /\ x < Child(x, b)
      BY ChildShape
    <3> QED
      BY <2>1, <3>1, HeapSizes
  <2> HIDE DEF m
  <2> QED
    BY <1>1, <2>1
<1>3. i \in Node /\ i >= i /\ i \in Nat
  BY HeapSizes DEF Internal
<1>4. Joins(m, i)
  <2>1. m[i] = (marks[Child(i, 0)] \/ marks[Child(i, 1)])
    BY <1>3 DEF Propagate
  <2>2. m[Child(i, 0)] = marks[Child(i, 0)] /\ m[Child(i, 1)] = marks[Child(i, 1)]
    BY <1>2, <1>3
  <2> QED
    BY <2>1, <2>2 DEF Joins
<1> HIDE DEF m
<1>5. \A x \in Internal : x >= i =>
         /\ OneChildHidden(m, x) <=> OneChildHidden(marks, x)
         /\ RevealedChild(m, x) = RevealedChild(marks, x)
  BY <1>2 DEF OneChildHidden, RevealedChild
<1>6. ASSUME NEW j \in i - 1 .. LEAVES - 2
      PROVE  Forks(m, j) = Forks(marks, j)
  <2>1. \A x \in j + 1 .. LEAVES - 2 : x \in Internal /\ x >= i
    BY <1>3, HeapSizes DEF Internal
  <2> QED
    BY <1>5, <2>1 DEF Forks
<1>7. \A j \in i - 1 .. LEAVES - 2 : SlotOf(m, j) = SlotOf(marks, j)
  BY <1>6 DEF SlotOf
<1> QED
  BY <1>1, <1>2, <1>4, <1>5, <1>6, <1>7 DEF m

(* Two nodes with the same child are the same.                               *)
LEMMA RevealedApart ==
  ASSUME NEW marks, NEW x \in Internal, NEW y \in Internal,
         RevealedChild(marks, x) = RevealedChild(marks, y)
  PROVE  x = y
<1>1. \E b \in {0, 1} : RevealedChild(marks, x) = Child(x, b)
  BY DEF RevealedChild
<1>2. \E b \in {0, 1} : RevealedChild(marks, y) = Child(y, b)
  BY DEF RevealedChild
<1>3. Parent(RevealedChild(marks, x)) = x /\ Parent(RevealedChild(marks, y)) = y
  BY <1>1, <1>2, ChildShape
<1> QED
  BY <1>3

LEMMA ReadSeedClimbs ==
  VCInv /\ VerifyInv /\ ReadSeed /\ verify_pc' = "up" => UpInv'
<1> SUFFICES ASSUME VCInv, VerifyInv, ReadSeed, verify_pc' = "up" PROVE UpInv'
  OBVIOUS
<1> DEFINE M    == v_dont_reveal
           fork == OneChildHidden(M, v_i)
           seed == RevealedChild(M, v_i)
<1>1. /\ UpInv /\ v_i >= 0 /\ v_i' = v_i - 1 /\ M' = Propagate(M, v_i)
      /\ UNCHANGED <<v_delta, v_opening, v_leaves, v_hashed, v_leaf>>
      /\ IF fork THEN /\ v_read < OpeningSize /\ v_read' = v_read + 1
                      /\ v_tree' = [v_tree EXCEPT ![seed] = v_opening[v_read]]
                 ELSE UNCHANGED <<v_tree, v_read>>
  <2>1. v_read \in Nat
    BY DEF VCInv, VerifyLoops
  <2> QED
    BY <2>1, OpeningSizes DEF ReadSeed, VerifyInv, Return
<1>2. /\ v_i \in Internal /\ v_i \in Node /\ v_i \in -1 .. LEAVES - 2 /\ v_i \in Nat
      /\ v_i - 1 \in -1 .. LEAVES - 2 /\ v_i - 1 \in v_i - 1 .. LEAVES - 2
  BY <1>1, HeapSizes DEF UpInv, Internal
<1>3. M \in [Node -> BOOLEAN] /\ v_tree \in [Node -> Block]
  BY DEF VCInv, VerifyType
<1>4. v_read = SlotOf(M, v_i) /\ v_read \in Nat
  BY <1>1 DEF UpInv, VCInv, VerifyLoops
<1>5. /\ \A x \in Node : x # v_i => M'[x] = M[x]
      /\ Joins(M', v_i)
      /\ \A x \in Internal : x >= v_i =>
           /\ \A b \in {0, 1} : M'[Child(x, b)] = M[Child(x, b)]
           /\ RevealedChild(M', x) = RevealedChild(M, x)
      /\ \A j \in v_i - 1 .. LEAVES - 2 :
           Forks(M', j) = Forks(M, j) /\ SlotOf(M', j) = SlotOf(M, j)
  BY <1>1, <1>2, <1>3, PropagateAbove
<1>6. /\ Forks(M', v_i') = IF fork THEN Forks(M, v_i) \cup {v_i} ELSE Forks(M, v_i)
      /\ SlotOf(M', v_i') = IF fork THEN v_read + 1 ELSE v_read
  BY <1>1, <1>2, <1>4, <1>5, ForksNext
<1>7. v_read' = SlotOf(M', v_i')
  BY <1>1, <1>6
<1>8. HiddenLeaves(v_dont_reveal, v_delta, BITS_PER_WITNESS)'
  <2>1. \A vec \in Vec : \A leaf \in Leaf(vec) : M'[PosInTree(vec, leaf)] = M[PosInTree(vec, leaf)]
    BY <1>2, <1>5, LeafShape
  <2> QED
    BY <1>1, <2>1 DEF HiddenLeaves, UpInv
<1>9. \A x \in Internal : IF x > v_i' THEN Joins(M', x) ELSE ~M'[x]
  <2>1. ASSUME NEW x \in Internal PROVE IF x > v_i' THEN Joins(M', x) ELSE ~M'[x]
    <3>1. x \in Node /\ x \in Nat
      BY HeapSizes DEF Internal
    <3>2. CASE x = v_i
      BY <1>1, <1>2, <1>5, <3>2
    <3>3. CASE x > v_i
      <4>1. Joins(M, x)
        BY <1>1, <3>3 DEF UpInv
      <4>2. M'[x] = M[x] /\ M'[Child(x, 0)] = M[Child(x, 0)] /\ M'[Child(x, 1)] = M[Child(x, 1)]
        BY <1>2, <1>5, <3>1, <3>3
      <4> QED
        BY <1>1, <1>2, <3>1, <3>3, <4>1, <4>2 DEF Joins
    <3>4. CASE x < v_i
      BY <1>1, <1>2, <1>5, <3>1, <3>4 DEF UpInv
    <3> QED
      BY <1>2, <3>1, <3>2, <3>3, <3>4
  <2> QED
    BY <2>1
<1>10. Padding(SlotOf(M, v_i), v_read)'
  BY <1>4, <1>6, <1>7, OpeningSizes DEF Padding, OpeningSlot
<1>11. Seeds(v_i)'
  <2>1. ASSUME NEW x \in Forks(M', v_i')
        PROVE  /\ SlotOf(M', x) < OpeningSize
               /\ v_tree'[RevealedChild(M', x)] = v_opening[SlotOf(M', x)]
    <3>1. CASE x \in Forks(M, v_i)
      <4>1. x \in Internal /\ x > v_i /\ x \in v_i - 1 .. LEAVES - 2
        BY <1>2, <3>1, SlotBefore, HeapSizes DEF Forks
      <4>2. SlotOf(M', x) = SlotOf(M, x) /\ RevealedChild(M', x) = RevealedChild(M, x)
        BY <1>2, <1>5, <4>1
      <4>3. RevealedChild(M, x) # seed
        BY <1>2, <4>1, RevealedApart
      <4>4. v_tree'[RevealedChild(M, x)] = v_tree[RevealedChild(M, x)]
        BY <1>1, <1>3, <4>1, <4>3, RevealedChildInHeap DEF Internal
      <4> QED
        BY <1>1, <3>1, <4>2, <4>4 DEF UpInv, Seeds
    <3>2. CASE fork /\ x = v_i
      <4>1. SlotOf(M', x) = v_read /\ RevealedChild(M', x) = seed
        BY <1>2, <1>4, <1>5, <3>2
      <4>2. seed \in Node
        BY <1>2, RevealedChildInHeap DEF Internal
      <4> QED
        BY <1>1, <1>3, <3>2, <4>1, <4>2
    <3> QED
      BY <1>6, <3>1, <3>2
  <2> QED
    BY <1>1, <2>1 DEF Seeds
<1>12. Commitments(BITS_PER_WITNESS)'
  BY <1>1 DEF Commitments, UpInv
<1>13. v_read' <= OpeningSize /\ v_read' >= SlotOf(M', v_i')
  BY <1>1, <1>4, <1>7, OpeningSizes DEF UpInv
<1> QED
  BY <1>1, <1>2, <1>7, <1>8, <1>9, <1>10, <1>11, <1>12, <1>13 DEF UpInv

LEMMA CheckPaddingClimbs ==
  VCInv /\ VerifyInv /\ CheckPadding /\ verify_pc' = "up" => UpInv'
<1> SUFFICES ASSUME VCInv, VerifyInv, CheckPadding, verify_pc' = "up" PROVE UpInv'
  OBVIOUS
<1>1. /\ UpInv /\ v_i < 0 /\ v_read < OpeningSize /\ v_read' = v_read + 1
      /\ v_opening[v_read] = Zero
      /\ UNCHANGED <<v_delta, v_opening, v_dont_reveal, v_tree, v_leaves, v_hashed, v_i, v_leaf>>
  BY DEF CheckPadding, VerifyInv, Return
<1>2. v_read \in Nat /\ v_i \in -1 .. LEAVES - 2
  BY <1>1 DEF VCInv, VerifyLoops, UpInv
<1>3. SlotOf(v_dont_reveal, v_i) \in Nat
  BY <1>2, ForksFinite, OpeningSizes DEF SlotOf
<1>4. Padding(SlotOf(v_dont_reveal, v_i), v_read)'
  BY <1>1, <1>2, <1>3, OpeningSizes DEF Padding, UpInv, OpeningSlot
<1>5. Seeds(v_i)' /\ Commitments(BITS_PER_WITNESS)'
  BY <1>1 DEF UpInv, Seeds, Commitments
<1>6. v_read' <= OpeningSize /\ v_read' >= SlotOf(v_dont_reveal, v_i)
  BY <1>1, <1>2, <1>3, OpeningSizes DEF UpInv
<1> QED
  BY <1>1, <1>2, <1>4, <1>5, <1>6 DEF UpInv

LEMMA StartDownExpands == VCInv /\ VerifyInv /\ StartDown => DownInv'
<1> SUFFICES ASSUME VCInv, VerifyInv, StartDown PROVE DownInv'
  OBVIOUS
<1>1. /\ UpInv /\ v_i < 0 /\ v_read = OpeningSize /\ v_i' = 0 /\ verify_pc' = "down"
      /\ UNCHANGED <<v_delta, v_opening, v_dont_reveal, v_tree, v_leaves, v_hashed, v_leaf>>
  BY DEF StartDown, VerifyInv
<1>2. v_i = -1 /\ LEAVES \in Nat \ {0}
  BY <1>1, HeapSizes DEF UpInv
<1>3. Closed(v_dont_reveal)
  BY <1>1, <1>2, HeapSizes DEF UpInv, Closed, Internal
<1>4. \A x \in Internal : ~(x < 0)
  BY DEF Internal
<1>5. \A vec \in Vec : \A leaf \in Leaf(vec) : ~LeafBefore(<<0, 0>>, vec, leaf)
  BY LeafCases DEF LeafBefore
<1>6. v_leaf' = <<0, 0>> /\ 0 \in 0 .. LEAVES - 1
  BY <1>1, <1>2 DEF UpInv
<1>7. Seeds(-1)' /\ Commitments(BITS_PER_WITNESS)' /\ Padding(SlotOf(v_dont_reveal, -1), OpeningSize)'
  BY <1>1, <1>2 DEF UpInv, Seeds, Commitments, Padding
<1> QED
  BY <1>1, <1>2, <1>3, <1>4, <1>5, <1>6, <1>7 DEF UpInv, DownInv

---------------------------------------------------------------------------
(* Expanding one node writes its two children and nothing else.              *)
LEMMA ExpandOne ==
  ASSUME NEW t \in [Node -> Block], NEW i \in Internal
  PROVE  \A x \in Node :
           ExpandChunk(t, i, Child(i, 0), 1)[x]
             = IF x = Child(i, 0) THEN Prg(t[i], 0)
               ELSE IF x = Child(i, 1) THEN Prg(t[i], 1) ELSE t[x]
<1>1. i \in Nat /\ i \in Node /\ Child(i, 0) = 2 * i + 1 /\ Child(i, 1) = 2 * i + 2
  BY HeapSizes DEF Internal, Child
<1>2. ASSUME NEW x \in Node
      PROVE  ExpandChunk(t, i, Child(i, 0), 1)[x]
             = IF x = Child(i, 0) THEN Prg(t[i], 0)
               ELSE IF x = Child(i, 1) THEN Prg(t[i], 1) ELSE t[x]
  <2>1. x \in Nat
    BY HeapSizes
  <2>2. CASE x = 2 * i + 1
    <3>1. i + (x - (2 * i + 1)) \div 2 = i /\ (x - (2 * i + 1)) % 2 = 0
      BY <1>1, <2>2
    <3> QED
      BY <1>1, <2>1, <2>2, <3>1 DEF ExpandChunk, ReadNode
  <2>3. CASE x = 2 * i + 2
    <3>1. i + (x - (2 * i + 1)) \div 2 = i /\ (x - (2 * i + 1)) % 2 = 1
      BY <1>1, <2>3
    <3> QED
      BY <1>1, <2>1, <2>3, <3>1 DEF ExpandChunk, ReadNode
  <2>4. CASE x # 2 * i + 1 /\ x # 2 * i + 2
    BY <1>1, <2>1, <2>4 DEF ExpandChunk
  <2> QED
    BY <2>2, <2>3, <2>4
<1> QED
  BY <1>2

(* A revealed child is not hidden, and its parent is.                        *)
LEMMA RevealedUnmarked ==
  ASSUME NEW marks \in [Node -> BOOLEAN], Closed(marks),
         NEW i \in -1 .. LEAVES - 2, NEW x \in Forks(marks, i)
  PROVE  /\ x \in Internal /\ marks[x]
         /\ RevealedChild(marks, x) \in Node /\ ~marks[RevealedChild(marks, x)]
<1>1. x \in Internal /\ OneChildHidden(marks, x)
  BY SlotBefore DEF Forks
<1>2. /\ Child(x, 0) \in Node /\ Child(x, 1) \in Node
      /\ marks[Child(x, 0)] \in BOOLEAN /\ marks[Child(x, 1)] \in BOOLEAN
  BY <1>1, ChildShape
<1>3. marks[x]
  BY <1>1, <1>2 DEF Closed, Joins, OneChildHidden
<1> QED
  BY <1>1, <1>2, <1>3 DEF RevealedChild, OneChildHidden

(* A node that is not hidden under a hidden parent is the revealed one.      *)
LEMMA RevealedUnderMarked ==
  ASSUME NEW marks \in [Node -> BOOLEAN], NEW x \in Node \ {0}, ~marks[x], Closed(marks),
         marks[Parent(x)]
  PROVE  /\ Parent(x) \in Forks(marks, -1)
         /\ RevealedChild(marks, Parent(x)) = x
<1> DEFINE p == Parent(x)
<1>1. p \in Internal /\ (x = Child(p, 0) \/ x = Child(p, 1))
  BY ParentShape
<1>2. marks[Child(p, 0)] \in BOOLEAN /\ marks[Child(p, 1)] \in BOOLEAN
  BY <1>1, ChildShape
<1>3. marks[Child(p, 0)] \/ marks[Child(p, 1)]
  BY <1>1 DEF Closed, Joins
<1> HIDE DEF p
<1>4. OneChildHidden(marks, p) /\ RevealedChild(marks, p) = x
  BY <1>1, <1>2, <1>3 DEF OneChildHidden, RevealedChild
<1>5. p \in -1 + 1 .. LEAVES - 2
  BY <1>1 DEF Internal
<1> QED
  BY <1>4, <1>5 DEF Forks, p

(* A node under a hidden one may be revealed, under a revealed one it is.    *)
LEMMA ChildUnmarked ==
  ASSUME NEW marks \in [Node -> BOOLEAN], Closed(marks), NEW x \in Internal, ~marks[x],
         NEW b \in {0, 1}
  PROVE  ~marks[Child(x, b)]
BY DEF Closed, Joins

LEMMA ExpandRevealedDown == VCInv /\ VerifyInv /\ ExpandRevealed => DownInv'
<1> SUFFICES ASSUME VCInv, VerifyInv, ExpandRevealed PROVE DownInv'
  OBVIOUS
<1> DEFINE M == v_dont_reveal
<1>1. /\ DownInv /\ v_i < LEAVES - 1 /\ v_i' = v_i + 1 /\ verify_pc' = "down"
      /\ UNCHANGED <<v_delta, v_opening, v_dont_reveal, v_leaves, v_hashed, v_leaf>>
      /\ v_tree' = IF M[v_i] THEN v_tree ELSE ExpandChunk(v_tree, v_i, Child(v_i, 0), 1)
  BY HeapSizes DEF ExpandRevealed, VerifyInv
<1>2. /\ v_i \in Internal /\ v_i \in Node /\ v_i \in Nat /\ v_i' \in 0 .. LEAVES - 1
      /\ -1 \in -1 .. LEAVES - 2
  BY <1>1, HeapSizes DEF DownInv, Internal
<1>3. M \in [Node -> BOOLEAN] /\ v_tree \in [Node -> Block] /\ Closed(M)
  BY <1>1 DEF VCInv, VerifyType, DownInv
<1>4. \A x \in Node : x # Child(v_i, 0) /\ x # Child(v_i, 1) => v_tree'[x] = v_tree[x]
  BY <1>1, <1>2, <1>3, ExpandOne
<1>5. ~M[v_i] => \A b \in {0, 1} : v_tree'[Child(v_i, b)] = Prg(v_tree[v_i], b)
  <2>1. Child(v_i, 0) \in Node /\ Child(v_i, 1) \in Node /\ Child(v_i, 0) # Child(v_i, 1)
    BY <1>2, ChildShape DEF Child
  <2> QED
    BY <1>1, <1>2, <1>3, <2>1, ExpandOne, ZenonT(60)
<1>6. Seeds(-1)'
  <2>1. ASSUME NEW x \in Forks(M, -1)
        PROVE  v_tree'[RevealedChild(M, x)] = v_tree[RevealedChild(M, x)]
    <3>1. CASE M[v_i]
      BY <1>1, <3>1
    <3>2. CASE ~M[v_i]
      <4>1. /\ x \in Internal /\ M[x] /\ RevealedChild(M, x) \in Node
        BY <1>2, <1>3, <2>1, RevealedUnmarked
      <4>2. x # v_i
        BY <3>2, <4>1
      <4>3. Parent(RevealedChild(M, x)) = x
        BY <4>1, ChildShape DEF RevealedChild
      <4>4. Parent(Child(v_i, 0)) = v_i /\ Parent(Child(v_i, 1)) = v_i
        BY <1>2, ChildShape
      <4> QED
        BY <1>4, <4>1, <4>2, <4>3, <4>4
    <3> QED
      BY <3>1, <3>2
  <2> QED
    BY <1>1, <2>1 DEF Seeds, DownInv
<1>7. ASSUME NEW x \in Internal, x < v_i', ~M[x], NEW b \in {0, 1}
      PROVE  v_tree'[Child(x, b)] = Prg(v_tree'[x], b)
  <2>1. x \in Nat /\ x \in Node /\ Child(x, b) \in Node /\ Parent(Child(x, b)) = x
    BY HeapSizes, ChildShape
  <2>2. v_tree'[x] = v_tree[x]
    <3>1. v_i < Child(v_i, 0) /\ v_i < Child(v_i, 1)
      BY <1>2, ChildShape
    <3>2. Child(v_i, 0) \in Nat /\ Child(v_i, 1) \in Nat
      BY <1>2, ChildShape, HeapSizes
    <3>3. x # Child(v_i, 0) /\ x # Child(v_i, 1)
      BY <1>1, <1>2, <1>7, <2>1, <3>1, <3>2
    <3> QED
      BY <1>4, <2>1, <3>3
  <2>3. CASE x = v_i
    BY <1>5, <1>7, <2>2, <2>3
  <2>4. CASE x # v_i
    <3>1. x < v_i
      BY <1>1, <1>2, <1>7, <2>1, <2>4
    <3>2. Parent(Child(v_i, 0)) = v_i /\ Parent(Child(v_i, 1)) = v_i
      BY <1>2, ChildShape
    <3>3. v_tree'[Child(x, b)] = v_tree[Child(x, b)]
      BY <1>4, <2>1, <2>4, <3>2
    <3> QED
      BY <1>1, <1>7, <2>2, <3>1, <3>3 DEF DownInv
  <2> QED
    BY <2>3, <2>4
<1>8. \A vec \in Vec : \A leaf \in Leaf(vec) : ~LeafBefore(<<0, 0>>, vec, leaf)
  BY LeafCases DEF LeafBefore
<1>9. v_leaf' = <<0, 0>>
  BY <1>1 DEF DownInv
<1>10. Commitments(BITS_PER_WITNESS)' /\ Padding(SlotOf(M, -1), OpeningSize)'
  BY <1>1 DEF DownInv, Commitments, Padding
<1> QED
  BY <1>1, <1>2, <1>6, <1>7, <1>8, <1>9, <1>10 DEF DownInv

LEMMA WriteLeafDown == VCInv /\ VerifyInv /\ WriteLeaf => DownInv'
<1> SUFFICES ASSUME VCInv, VerifyInv, WriteLeaf PROVE DownInv'
  OBVIOUS
<1>1. /\ DownInv /\ v_i = LEAVES - 1 /\ v_leaf[1] < BITS_PER_WITNESS /\ verify_pc' = "down"
      /\ UNCHANGED <<v_delta, v_opening, v_dont_reveal, v_tree, v_i>>
  BY HeapSizes DEF WriteLeaf, VerifyInv
<1>2. PICK v \in Vec : \E x \in Leaf(v) : v_leaf = <<v, x>>
  BY <1>1, LayoutAssumption DEF VCInv, VerifyLoops
<1>3. PICK x \in Leaf(v) : v_leaf = <<v, x>>
  BY <1>2
<1> DEFINE out  == LeafPrg(v_tree[PosInTree(v, x)])
           hidden == v_delta.index[v]
           key  == LeafPos(v, XorIndex(x, hidden))
           hash == HashPos(v, x)
<1>4. /\ v_leaf' = NextLeaf(v, x)
      /\ IF v_dont_reveal[PosInTree(v, x)]
         THEN UNCHANGED <<v_leaves, v_hashed>>
         ELSE /\ v_leaves' = [v_leaves EXCEPT ![key] = out]
              /\ v_hashed' = [v_hashed EXCEPT ![hash] = out]
  BY <1>3 DEF WriteLeaf
<1>5. /\ \A vec \in Vec : v_delta.index[vec] \in Leaf(vec) /\ 0 \in Leaf(vec)
      /\ \A vec \in Vec : vec < BITS_PER_WITNESS
  <2>1. \A vec \in Vec : v_delta.index[vec] \in Leaf(vec)
    BY HiddenIndex DEF VCInv, VerifyType
  <2>2. \A vec \in Vec : VecLen(vec) \in Nat \ {0}
    BY LayoutSizes, LayoutAssumption DEF VecLen
  <2> QED
    BY <2>1, <2>2, OpeningSizes DEF Vec, Leaf
<1>6. v_dont_reveal[PosInTree(v, x)] <=> x = hidden
  BY <1>1, <1>5 DEF DownInv, HiddenLeaves
<1>7. v_hashed \in [Slot -> Block] /\ v_leaves \in [Slot -> Block]
  BY DEF VCInv, VerifyType
<1>8. /\ \A vec \in Vec : \A leaf, d \in Leaf(vec) :
           /\ XorIndex(leaf, d) \in Leaf(vec)
           /\ XorIndex(XorIndex(leaf, d), d) = leaf
           /\ XorIndex(leaf, d) = 0 <=> leaf = d
  BY PermutationAssumption
<1>9. ASSUME x # hidden, NEW vec \in Vec
      PROVE  /\ HashPos(vec, v_delta.index[vec]) # hash
             /\ LeafPos(vec, 0) # key
             /\ HashPos(vec, v_delta.index[vec]) \in Slot /\ LeafPos(vec, 0) \in Slot
  <2>1. XorIndex(x, hidden) \in Leaf(v) /\ XorIndex(x, hidden) # 0
    BY <1>5, <1>8, <1>9
  <2> QED
    BY <1>5, <1>9, <2>1, HashPosInjective, HashPosRange, LeafPosBijective
<1>10. Commitments(BITS_PER_WITNESS)'
  <2>1. CASE x = hidden
    BY <1>1, <1>4, <1>6, <2>1 DEF DownInv, Commitments
  <2>2. CASE x # hidden
    BY <1>1, <1>4, <1>6, <1>7, <1>9, <2>2 DEF DownInv, Commitments
  <2> QED
    BY <2>1, <2>2
<1>11. ASSUME NEW vec \in Vec, NEW leaf \in Leaf(vec), leaf # v_delta.index[vec],
              LeafBefore(v_leaf', vec, leaf)
       PROVE  Output(vec, leaf)'
  <2> DEFINE key2  == LeafPos(vec, XorIndex(leaf, v_delta.index[vec]))
             hash2 == HashPos(vec, leaf)
  <2>1. LeafBefore(v_leaf, vec, leaf) \/ (vec = v /\ leaf = x)
    BY <1>3, <1>4, <1>11, NextLeafOrder
  <2>2. XorIndex(leaf, v_delta.index[vec]) \in Leaf(vec) /\ XorIndex(x, hidden) \in Leaf(v)
    BY <1>5, <1>8
  <2>3. key2 \in Slot /\ hash2 \in Slot
    BY <2>2, HashPosRange, LeafPosBijective
  <2>4. CASE vec = v /\ leaf = x
    BY <1>1, <1>4, <1>6, <1>7, <1>11, <2>3, <2>4 DEF Output
  <2>5. CASE ~(vec = v /\ leaf = x)
    <3>1. hash2 # hash
      BY <2>5, HashPosInjective
    <3>2. key2 # key
      <4>1. SUFFICES ASSUME key2 = key PROVE FALSE
        OBVIOUS
      <4>2. vec = v /\ XorIndex(leaf, hidden) = XorIndex(x, hidden)
        BY <2>2, <4>1, LeafPosBijective
      <4>3. leaf = x
        BY <1>5, <1>8, <4>2
      <4> QED
        BY <2>5, <4>2, <4>3
    <3>3. Output(vec, leaf)
      BY <1>1, <1>11, <2>1, <2>5 DEF DownInv
    <3>4. v_hashed'[hash2] = v_hashed[hash2] /\ v_leaves'[key2] = v_leaves[key2]
      BY <1>4, <1>7, <2>3, <3>1, <3>2
    <3> QED
      BY <1>1, <3>3, <3>4 DEF Output
  <2> QED
    BY <2>4, <2>5
<1>12. Seeds(-1)' /\ Padding(SlotOf(v_dont_reveal, -1), OpeningSize)'
  BY <1>1 DEF DownInv, Seeds, Padding
<1>13. /\ HiddenLeaves(v_dont_reveal, v_delta, BITS_PER_WITNESS)'
       /\ \A y \in Internal : y < v_i' /\ ~v_dont_reveal'[y] =>
            \A b \in {0, 1} : v_tree'[Child(y, b)] = Prg(v_tree'[y], b)
  BY <1>1 DEF DownInv
<1> QED
  BY <1>1, <1>10, <1>11, <1>12, <1>13, HeapSizes DEF DownInv

LEMMA VerifyReturnDown == VCInv /\ VerifyInv /\ VerifyReturn => DownInv'
<1> SUFFICES ASSUME VCInv, VerifyInv, VerifyReturn PROVE DownInv'
  OBVIOUS
<1>1. /\ DownInv /\ v_i = LEAVES - 1 /\ v_leaf[1] = BITS_PER_WITNESS
      /\ UNCHANGED <<v_delta, v_opening, v_dont_reveal, v_tree, v_leaves, v_hashed, v_i, v_leaf>>
  BY HeapSizes DEF VerifyReturn, VerifyInv
<1>2. v_leaf = <<BITS_PER_WITNESS, 0>>
  BY <1>1, OpeningSizes DEF VCInv, VerifyLoops, Vec
<1> QED
  BY <1>1, <1>2, HeapSizes DEF DownInv, Seeds, Commitments, Padding, Output

---------------------------------------------------------------------------
LEMMA VerifyInvStep == VCInv /\ OpenInv /\ VerifyInv /\ [Next]_vars => VerifyInv'
<1> SUFFICES ASSUME VCInv, OpenInv, VerifyInv, [Next]_vars PROVE VerifyInv'
  OBVIOUS
<1>1. ASSUME UNCHANGED verifyVars PROVE VerifyInv'
  <2>1. CASE verify_pc = "idle"
    BY <1>1, <2>1 DEF VerifyInv, verifyVars
  <2>2. CASE verify_pc # "idle"
    <3>1. UNCHANGED <<commitVars, openVars>>
      BY <2>2, SignerDone DEF VerifyInv
    <3> QED
      BY <1>1, <2>2, <3>1 DEF VerifyInv, verifyVars, openVars, Received, MarkInv, UpInv,
           DownInv, Seeds, Commitments, Padding, Output
  <2> QED
    BY <2>1, <2>2
<1>2. CASE VerifierReceives
  <2>1. PICK r \in Received : VerifyCall(r[1], r[2])
    BY <1>2 DEF VerifierReceives
  <2>2. r = <<r[1], r[2]>>
    BY DEF Received
  <2>3. /\ open_pc = "opened" /\ UNCHANGED openVars
        /\ verify_pc' \in {"mark", "rejected"}
        /\ v_delta' = r[1] /\ v_opening' = r[2]
    BY <1>2, <2>1 DEF VerifierReceives, VerifyCall
  <2>4. <<v_delta', v_opening'>> \in Received' /\ open_pc' = "opened"
    BY <2>2, <2>3 DEF openVars, Received
  <2>5. verify_pc' = "mark" => MarkInv'
    BY <2>1, VerifyCallMarks
  <2> QED
    BY <2>3, <2>4, <2>5 DEF VerifyInv
<1>3. CASE VerifierVerifies
  <2>1. /\ VerifyStep /\ UNCHANGED openVars /\ verify_pc # "idle"
        /\ v_delta' = v_delta /\ v_opening' = v_opening
    BY <1>3 DEF VerifierVerifies, VerifyStep, CopyCommitment, StartUp, ReadSeed, CheckPadding,
                StartDown, ExpandRevealed, WriteLeaf, VerifyReturn
  <2>2. /\ open_pc' = "opened" /\ <<v_delta', v_opening'>> \in Received'
    BY <2>1 DEF VerifyInv, openVars, Received
  <2>3. CASE CopyCommitment
    BY <2>2, <2>3, CopyCommitmentMarks DEF VerifyInv, CopyCommitment
  <2>4. CASE StartUp
    BY <2>2, <2>4, StartUpClimbs DEF VerifyInv, StartUp
  <2>5. CASE ReadSeed
    <3>1. verify_pc' \in {"up", "rejected"}
      BY <2>5 DEF ReadSeed, Return
    <3> QED
      BY <2>2, <2>5, <3>1, ReadSeedClimbs DEF VerifyInv
  <2>6. CASE CheckPadding
    <3>1. verify_pc' \in {"up", "rejected"}
      BY <2>6 DEF CheckPadding, Return
    <3> QED
      BY <2>2, <2>6, <3>1, CheckPaddingClimbs DEF VerifyInv
  <2>7. CASE StartDown
    BY <2>2, <2>7, StartDownExpands DEF VerifyInv, StartDown
  <2>8. CASE ExpandRevealed
    BY <2>2, <2>8, ExpandRevealedDown DEF VerifyInv, ExpandRevealed
  <2>9. CASE WriteLeaf
    BY <2>2, <2>9, WriteLeafDown DEF VerifyInv, WriteLeaf
  <2>10. CASE VerifyReturn
    BY <2>2, <2>10, VerifyReturnDown DEF VerifyInv, VerifyReturn, Return
  <2> QED
    BY <2>1, <2>3, <2>4, <2>5, <2>6, <2>7, <2>8, <2>9, <2>10 DEF VerifyStep
<1>4. CASE SignerCommits \/ SignerChallenged \/ SignerOpens \/ UNCHANGED vars
  BY <1>1, <1>4 DEF SignerCommits, SignerChallenged, SignerOpens, vars
<1> QED
  BY <1>2, <1>3, <1>4 DEF Next

AllInv == VCInv /\ OpenInv /\ VerifyInv

LEMMA VCAllInv == Spec => []AllInv
BY VCInvInit, VCInvStep, OpenInvInit, OpenInvStep, VerifyInvInit, VerifyInvStep, PTL
   DEF Spec, AllInv

---------------------------------------------------------------------------
(* The signer leaves no slot of the opening unwritten, and what the verifier *)
(* gets in its place does not either.                                        *)
LEMMA OpeningWritten ==
  ASSUME VCInv, OpenInv, open_pc = "opened"
  PROVE  \A s \in OpeningSlot : opening[s] # Uninit
<1>1. Revealing /\ node_i = -1 /\ -1 \in -1 .. LEAVES - 2
  BY HeapSizes DEF OpenInv, Revealing
<1>2. written = SlotOf(dont_reveal, -1) /\ written \in Nat
  BY <1>1, ForksFinite, OpeningSizes DEF Revealing, SlotOf
<1>3. ASSUME NEW s \in OpeningSlot PROVE opening[s] # Uninit
  <2>1. s \in Nat
    BY OpeningSizes DEF OpeningSlot
  <2>2. CASE s < BITS_PER_WITNESS
    <3>1. s \in Vec /\ delta.index[s] \in Leaf(s)
      BY <2>1, <2>2, OpeningSizes, HiddenIndex DEF Vec, VCInv, OpenType
    <3> QED
      BY <1>1, <3>1, NotUninit DEF Revealing
  <2>3. CASE s >= written
    BY <1>1, <2>3 DEF Revealing, Zero, Uninit
  <2>4. CASE ~(s < BITS_PER_WITNESS) /\ ~(s >= written)
    <3>1. s \in BITS_PER_WITNESS .. SlotOf(dont_reveal, -1) - 1
      BY <1>2, <2>1, <2>4, OpeningSizes
    <3>2. PICK x \in Forks(dont_reveal, -1) : s = SlotOf(dont_reveal, x)
      BY <1>1, <3>1 DEF Revealing, Filled
    <3>3. opening[s] = RevealedChild(dont_reveal, x) /\ x \in Internal
      BY <1>1, <3>2, SlotBefore DEF Revealing, Filled
    <3>4. opening[s] \in Nat
      BY <3>3, RevealedChildInHeap, HeapSizes DEF Internal
    <3> QED
      BY <3>4 DEF Uninit
  <2> QED
    BY <2>2, <2>3, <2>4
<1> QED
  BY <1>3

(* What tampering makes of the opening, slot by slot.                        *)
LEMMA ReceivedSlots ==
  ASSUME VCInv, NEW d, NEW o, <<d, o>> \in Received
  PROVE  /\ d = delta \/ o = opening
         /\ \A s \in OpeningSlot : o[s] \in {Zero, Junk} \/ \E t \in OpeningSlot : o[s] = opening[t]
         /\ \A s \in SeedSlot : o[s] \in {Zero, Junk} \/ \E t \in SeedSlot : o[s] = opening[t]
<1>1. opening \in [OpeningSlot -> Block] /\ SeedSlot \subseteq OpeningSlot
  BY OpeningSizes DEF VCInv, OpenType, SeedSlot, OpeningSlot
<1>2. \/ o = opening
      \/ d = delta /\ o \in Altered(opening)
  BY DEF Received
<1>3. CASE o = opening
  BY <1>1, <1>3
<1>4. CASE d = delta /\ \E k \in OpeningSlot, b \in {Zero, Junk} : o = [opening EXCEPT ![k] = b]
  <2>1. PICK k \in OpeningSlot, b \in {Zero, Junk} : o = [opening EXCEPT ![k] = b]
    BY <1>4
  <2>2. \A s \in OpeningSlot : o[s] = IF s = k THEN b ELSE opening[s]
    BY <1>1, <2>1
  <2> QED
    BY <1>1, <1>4, <2>2
<1>5. CASE d = delta /\ \E k, t \in SeedSlot : o = Swap(opening, k, t)
  <2>1. PICK k \in SeedSlot, t \in SeedSlot : o = Swap(opening, k, t)
    BY <1>5
  <2>2. \A s \in OpeningSlot :
          o[s] = IF s = t THEN opening[k] ELSE IF s = k THEN opening[t] ELSE opening[s]
    BY <1>1, <2>1 DEF Swap
  <2> QED
    BY <1>1, <1>5, <2>2
<1> QED
  BY <1>2, <1>3, <1>4, <1>5 DEF Altered

LEMMA ReceivedWritten ==
  ASSUME AllInv, verify_pc # "idle"
  PROVE  \A s \in OpeningSlot : v_opening[s] # Uninit
<1>1. \A s \in OpeningSlot : opening[s] # Uninit
  BY OpeningWritten DEF AllInv, VerifyInv
<1>2. \A s \in OpeningSlot :
        v_opening[s] \in {Zero, Junk} \/ \E t \in OpeningSlot : v_opening[s] = opening[t]
  BY ReceivedSlots DEF AllInv, VerifyInv
<1> QED
  BY <1>1, <1>2 DEF Zero, Junk, Uninit

(* Under closed marks with a hidden leaf the root is hidden.                 *)
LEMMA RootHidden ==
  ASSUME NEW marks \in [Node -> BOOLEAN], Closed(marks), NEW d \in Delta,
         HiddenLeaves(marks, d, BITS_PER_WITNESS)
  PROVE  marks[0]
<1>1. 0 \in Vec /\ d.index[0] \in Leaf(0) /\ 0 < BITS_PER_WITNESS
  BY FirstLeaf, HiddenIndex, LayoutAssumption
<1>2. marks[PosInTree(0, d.index[0])] /\ PosInTree(0, d.index[0]) \in Node
  BY <1>1, LeafShape DEF HiddenLeaves
<1>3. \A x \in Node \ {0} : marks[x] => marks[Parent(x)]
  BY ParentShape DEF Closed, Joins
<1> QED
  BY <1>2, <1>3, RootMarked

(* On the way down, a node that is not hidden has been written as soon as its *)
(* parent is passed; under a hidden parent it holds a seed of the opening.    *)
LEMMA RevealedWritten ==
  ASSUME AllInv, verify_pc \in {"down", "accepted"},
         NEW y \in Node, ~v_dont_reveal[y], y # 0 => Parent(y) < v_i
  PROVE  v_tree[y] # Uninit
<1> DEFINE M   == v_dont_reveal
           Bad == {x \in Node : ~M[x] /\ (x # 0 => Parent(x) < v_i) /\ v_tree[x] = Uninit}
<1>1. /\ DownInv /\ Closed(M) /\ M \in [Node -> BOOLEAN] /\ v_tree \in [Node -> Block]
      /\ v_delta \in Delta /\ v_i \in 0 .. LEAVES - 1 /\ v_i \in Nat
  BY HeapSizes DEF AllInv, VerifyInv, DownInv, VCInv, VerifyType
<1>2. M[0]
  BY <1>1, RootHidden DEF DownInv
<1>3. SUFFICES ASSUME Bad # {} PROVE FALSE
  OBVIOUS
<1>4. Bad \in SUBSET Nat
  BY HeapSizes
<1>5. PICK x \in Bad : \A z \in Bad : x <= z
  BY <1>3, <1>4, LeastElement
<1>6. x \in Node \ {0} /\ Parent(x) < v_i /\ ~M[x] /\ v_tree[x] = Uninit /\ x \in Nat
  BY <1>2, <1>4, <1>5
<1> DEFINE p == Parent(x)
<1>7. /\ p \in Internal /\ p \in Node /\ p \in Nat /\ p < x
      /\ (x = Child(p, 0) \/ x = Child(p, 1))
  BY <1>6, ParentShape
<1>8. CASE M[p]
  <2>1. p \in Forks(M, -1) /\ RevealedChild(M, p) = x
    BY <1>1, <1>6, <1>8, RevealedUnderMarked
  <2>2. v_tree[x] = v_opening[SlotOf(M, p)] /\ SlotOf(M, p) < OpeningSize
    BY <1>1, <2>1 DEF DownInv, Seeds
  <2>3. SlotOf(M, p) \in OpeningSlot
    BY <2>1, <2>2, SlotBefore, OpeningSizes, HeapSizes DEF OpeningSlot
  <2> QED
    BY <1>6, <2>2, <2>3, ReceivedWritten
<1>9. CASE ~M[p]
  <2>1. p # 0
    BY <1>2, <1>9
  <2>2. Parent(p) < v_i
    <3>1. Parent(p) < p /\ Parent(p) \in Nat
      BY <1>7, <2>1, ParentShape
    <3> QED
      BY <1>1, <1>6, <1>7, <3>1
  <2>3. p \notin Bad
    BY <1>5, <1>6, <1>7
  <2>4. v_tree[p] # Uninit /\ v_tree[p] \in Block
    BY <1>1, <1>7, <1>9, <2>2, <2>3
  <2>5. v_tree[x] = Prg(v_tree[p], 0) \/ v_tree[x] = Prg(v_tree[p], 1)
    BY <1>1, <1>6, <1>7, <1>9 DEF DownInv
  <2>6. \A b \in {0, 1} : Prg(v_tree[p], b) # Uninit
    BY <2>4 DEF Prg, Block, Child, Uninit, Zero, Junk
  <2> QED
    BY <1>6, <2>5, <2>6
<1> QED
  BY <1>8, <1>9

(* The verifier derives nothing from memory it has not written, and its       *)
(* outputs are complete, whatever opening it was given.                      *)
THEOREM OnlyWrittenMemoryRead == Spec => []OnlyWrittenRead
<1>1. ASSUME AllInv, verify_pc = "down", v_i < NODES - LEAVES
      PROVE  v_dont_reveal[v_i] \/ v_tree[v_i] # Uninit
  <2>1. v_i \in Nat /\ v_i \in Node
    BY <1>1, HeapSizes DEF AllInv, VCInv, VerifyLoops, Node
  <2>2. v_i # 0 => Parent(v_i) < v_i
    BY <2>1, ParentShape
  <2> QED
    BY <1>1, <2>1, <2>2, RevealedWritten
<1>2. ASSUME AllInv, verify_pc = "accepted", NEW s \in Slot
      PROVE  v_leaves[s] # Uninit /\ v_hashed[s] # Uninit
  <2>1. /\ DownInv /\ v_leaf = <<BITS_PER_WITNESS, 0>> /\ v_i = LEAVES - 1
        /\ v_delta \in Delta /\ v_tree \in [Node -> Block]
    BY <1>2 DEF AllInv, VerifyInv, DownInv, VCInv, VerifyType
  <2>2. ASSUME NEW vec \in Vec, NEW leaf \in Leaf(vec), leaf # v_delta.index[vec]
        PROVE  /\ Output(vec, leaf)
               /\ LeafPrg(v_tree[PosInTree(vec, leaf)]) # Uninit
    <3>1. LeafBefore(v_leaf, vec, leaf)
      BY <2>1, LeafCases DEF LeafBefore
    <3>2. Output(vec, leaf)
      BY <2>1, <2>2, <3>1 DEF DownInv
    <3>3. PosInTree(vec, leaf) \in Node /\ ~v_dont_reveal[PosInTree(vec, leaf)]
      BY <2>1, <2>2, LeafShape DEF DownInv, HiddenLeaves
    <3>4. PosInTree(vec, leaf) # 0 => Parent(PosInTree(vec, leaf)) < v_i
      BY <2>1, <3>3, ParentShape, HeapSizes DEF Internal
    <3>5. v_tree[PosInTree(vec, leaf)] # Uninit
      BY <1>2, <3>3, <3>4, RevealedWritten
    <3> QED
      BY <3>2, <3>5 DEF LeafPrg, Junk, Uninit
  <2>3. v_hashed[s] # Uninit
    <3>1. PICK vec \in Vec : \E leaf \in Leaf(vec) : HashPos(vec, leaf) = s
      BY HashPosOnto
    <3>2. PICK leaf \in Leaf(vec) : HashPos(vec, leaf) = s
      BY <3>1
    <3>3. CASE leaf = v_delta.index[vec]
      <4>1. vec < BITS_PER_WITNESS /\ vec \in OpeningSlot
        BY OpeningSizes DEF Vec, OpeningSlot
      <4>2. v_hashed[s] = v_opening[vec]
        BY <2>1, <3>2, <3>3, <4>1 DEF DownInv, Commitments
      <4> QED
        BY <1>2, <4>1, <4>2, ReceivedWritten
    <3>4. CASE leaf # v_delta.index[vec]
      BY <2>2, <3>2, <3>4 DEF Output
    <3> QED
      BY <3>3, <3>4
  <2>4. v_leaves[s] # Uninit
    <3>1. PICK vec \in Vec : \E y \in Leaf(vec) : LeafPos(vec, y) = s
      BY LeafPosBijective
    <3>2. PICK y \in Leaf(vec) : LeafPos(vec, y) = s
      BY <3>1
    <3> DEFINE leaf == XorIndex(y, v_delta.index[vec])
    <3>3. v_delta.index[vec] \in Leaf(vec)
      BY <2>1, HiddenIndex
    <3>4. leaf \in Leaf(vec) /\ XorIndex(leaf, v_delta.index[vec]) = y
      BY <3>3, PermutationAssumption
    <3>5. CASE leaf = v_delta.index[vec]
      <4>1. y = 0
        BY <3>3, <3>4, <3>5, PermutationAssumption
      <4>2. vec < BITS_PER_WITNESS
        BY OpeningSizes DEF Vec
      <4> QED
        BY <2>1, <3>2, <4>1, <4>2 DEF DownInv, Commitments, Zero, Uninit
    <3>6. CASE leaf # v_delta.index[vec]
      BY <2>2, <3>2, <3>4, <3>6 DEF Output
    <3> QED
      BY <3>5, <3>6
  <2> QED
    BY <2>3, <2>4
<1>3. AllInv => OnlyWrittenRead
  BY <1>1, <1>2 DEF OnlyWrittenRead
<1> QED
  BY <1>3, VCAllInv, PTL

---------------------------------------------------------------------------
(* Two walks that start from the same hidden leaves agree on every node they *)
(* have both passed.                                                         *)
LEMMA MarksAgree ==
  ASSUME NEW m \in [Node -> BOOLEAN], NEW w \in [Node -> BOOLEAN], NEW d,
         HiddenLeaves(m, d, BITS_PER_WITNESS), HiddenLeaves(w, d, BITS_PER_WITNESS),
         NEW i \in -1 .. LEAVES - 2,
         \A x \in Internal : x > i => Joins(m, x) /\ Joins(w, x)
  PROVE  \A x \in Node : x > i => m[x] = w[x]
<1> DEFINE Bad == {x \in Node : x > i /\ m[x] # w[x]}
<1>1. SUFFICES ASSUME Bad # {} PROVE FALSE
  OBVIOUS
<1>2. PICK x \in Bad : \A y \in Bad : y <= x
  <2>1. Bad \in SUBSET Node
    OBVIOUS
  <2> HIDE DEF Bad
  <2> QED
    BY <1>1, <2>1, LastNode
<1>3. x \in Node /\ x \in Nat /\ x > i /\ m[x] # w[x] /\ i \in Int
  BY <1>2, HeapSizes
<1>4. CASE x \in Internal
  <2>1. ASSUME NEW b \in {0, 1} PROVE m[Child(x, b)] = w[Child(x, b)]
    <3>1. Child(x, b) \in Node /\ x < Child(x, b) /\ Child(x, b) \in Nat
      BY <1>4, ChildShape, HeapSizes
    <3>2. Child(x, b) \notin Bad
      BY <1>2, <1>3, <3>1
    <3> QED
      BY <1>3, <3>1, <3>2
  <2>2. Joins(m, x) /\ Joins(w, x)
    BY <1>3, <1>4
  <2> QED
    BY <1>3, <2>1, <2>2 DEF Joins
<1>5. CASE x \notin Internal
  <2>1. x >= LEAVES - 1
    BY <1>3, <1>5, HeapSizes DEF Internal
  <2>2. PICK vec \in Vec : \E leaf \in Leaf(vec) : PosInTree(vec, leaf) = x
    BY <1>3, <2>1, PosInTreeOnto
  <2> QED
    BY <1>3, <2>2 DEF HiddenLeaves
<1> QED
  BY <1>4, <1>5

(* While it walks up with the challenge of the signer, the verifier has       *)
(* marked and counted what the signer did.                                   *)
LEMMA WalksAgree ==
  ASSUME AllInv, verify_pc = "up", v_delta = delta
  PROVE  /\ \A j \in v_i .. LEAVES - 2 :
              /\ Forks(v_dont_reveal, j) = Forks(dont_reveal, j)
              /\ SlotOf(v_dont_reveal, j) = SlotOf(dont_reveal, j)
         /\ v_i >= 0 =>
              (OneChildHidden(v_dont_reveal, v_i) <=> OneChildHidden(dont_reveal, v_i))
<1>1. /\ UpInv /\ Revealing /\ v_i \in -1 .. LEAVES - 2
      /\ v_dont_reveal \in [Node -> BOOLEAN] /\ dont_reveal \in [Node -> BOOLEAN]
  BY DEF AllInv, VerifyInv, OpenInv, VCInv, VerifyType, OpenType, UpInv
<1>2. \A x \in Internal : x > v_i => Joins(v_dont_reveal, x) /\ Joins(dont_reveal, x)
  BY <1>1 DEF UpInv, Revealing, Closed
<1>3. \A x \in Node : x > v_i => v_dont_reveal[x] = dont_reveal[x]
  BY <1>1, <1>2, MarksAgree DEF UpInv, Revealing
<1>4. ASSUME NEW x \in Internal, x >= v_i
      PROVE  OneChildHidden(v_dont_reveal, x) <=> OneChildHidden(dont_reveal, x)
  <2>1. ASSUME NEW b \in {0, 1} PROVE Child(x, b) \in Node /\ Child(x, b) > v_i
    <3>1. Child(x, b) \in Node /\ x < Child(x, b) /\ Child(x, b) \in Nat /\ x \in Nat
      BY ChildShape, HeapSizes
    <3> QED
      BY <1>1, <1>4, <3>1
  <2> QED
    BY <1>3, <2>1 DEF OneChildHidden
<1>5. ASSUME NEW j \in v_i .. LEAVES - 2
      PROVE  Forks(v_dont_reveal, j) = Forks(dont_reveal, j)
  <2>1. \A x \in j + 1 .. LEAVES - 2 : x \in Internal /\ x >= v_i
    BY <1>1, HeapSizes DEF Internal
  <2> QED
    BY <1>4, <2>1 DEF Forks
<1>6. v_i >= 0 => v_i \in Internal
  BY <1>1 DEF Internal
<1> QED
  BY <1>1, <1>4, <1>5, <1>6 DEF SlotOf

(* The verifier never turns down the opening the signer made.                *)
LEMMA FaithfulNotRejected ==
  ASSUME AllInv, verify_pc # "idle", Faithful, VerifyStep
  PROVE  verify_pc' # "rejected"
<1>1. SUFFICES ASSUME verify_pc' = "rejected" PROVE FALSE
  OBVIOUS
<1>2. verify_pc # "rejected"
  BY DEF VerifyStep, CopyCommitment, StartUp, ReadSeed, CheckPadding, StartDown,
         ExpandRevealed, WriteLeaf, VerifyReturn
<1>3. /\ open_pc = "opened" /\ Revealing /\ node_i = -1
      /\ v_delta = delta /\ v_opening = opening /\ -1 \in -1 .. LEAVES - 2
  BY HeapSizes DEF AllInv, VerifyInv, OpenInv, Revealing, Faithful
<1>4. /\ written = SlotOf(dont_reveal, -1) /\ written \in Nat /\ written <= OpeningSize
  BY <1>3, ForksFinite, OpeningSizes, OpenAssumption DEF Revealing, SlotOf, OpeningSize
<1>5. CASE ReadSeed
  <2>1. /\ verify_pc = "up" /\ v_i >= 0 /\ OneChildHidden(v_dont_reveal, v_i)
        /\ v_read >= OpeningSize
    BY <1>1, <1>2, <1>5 DEF ReadSeed, Return
  <2>2. UpInv /\ v_read = SlotOf(v_dont_reveal, v_i) /\ v_i \in -1 .. LEAVES - 2
    BY <2>1 DEF AllInv, VerifyInv, UpInv
  <2>3. v_i \in Forks(dont_reveal, -1) /\ v_i \in v_i .. LEAVES - 2
    BY <1>3, <2>1, <2>2, WalksAgree, HeapSizes DEF Forks
  <2>4. v_read = SlotOf(dont_reveal, v_i)
    BY <1>3, <2>1, <2>2, <2>3, WalksAgree
  <2>5. SlotOf(dont_reveal, v_i) < SlotOf(dont_reveal, -1) /\ SlotOf(dont_reveal, v_i) \in Nat
    BY <1>3, <2>3, SlotBefore
  <2> QED
    BY <1>4, <2>1, <2>4, <2>5, OpeningSizes
<1>6. CASE CheckPadding
  <2>1. /\ verify_pc = "up" /\ v_i < 0 /\ v_read < OpeningSize /\ v_opening[v_read] # Zero
    BY <1>1, <1>2, <1>6 DEF CheckPadding, Return
  <2>2. UpInv /\ v_i = -1 /\ v_read \in Nat /\ v_read >= SlotOf(v_dont_reveal, v_i)
    BY <2>1, HeapSizes DEF AllInv, VerifyInv, UpInv, VCInv, VerifyLoops
  <2>3. v_read >= written /\ v_read \in OpeningSlot
    BY <1>3, <1>4, <2>1, <2>2, WalksAgree, OpeningSizes DEF OpeningSlot
  <2> QED
    BY <1>3, <2>1, <2>3 DEF Revealing
<1>7. CASE CopyCommitment \/ StartUp \/ StartDown \/ ExpandRevealed \/ WriteLeaf \/ VerifyReturn
  BY <1>1, <1>2, <1>7 DEF CopyCommitment, StartUp, StartDown, ExpandRevealed, WriteLeaf,
       VerifyReturn, Return
<1> QED
  BY <1>5, <1>6, <1>7 DEF VerifyStep

---------------------------------------------------------------------------
(* The verifier is about to accept.                                          *)
Accepting ==
  /\ AllInv /\ verify_pc = "down" /\ v_i = LEAVES - 1
  /\ v_leaf = <<BITS_PER_WITNESS, 0>>

LEMMA AcceptingFacts ==
  ASSUME Accepting
  PROVE  /\ DownInv /\ Revealing /\ open_pc = "opened" /\ commit_pc = "done"
         /\ node_i = -1 /\ written = SlotOf(dont_reveal, -1)
         /\ v_dont_reveal \in [Node -> BOOLEAN] /\ dont_reveal \in [Node -> BOOLEAN]
         /\ v_tree \in [Node -> Block] /\ v_hashed \in [Slot -> Block]
         /\ hashed_leaves \in [Slot -> Block]
         /\ delta \in Delta /\ v_delta \in Delta
         /\ v_opening \in [OpeningSlot -> Block] /\ opening \in [OpeningSlot -> Block]
         /\ v_dont_reveal[0]
         /\ \A x \in Internal : ~v_dont_reveal[x] =>
              \A b \in {0, 1} : v_tree[Child(x, b)] = Prg(v_tree[x], b)
         /\ \A vec \in Vec : v_hashed[HashPos(vec, v_delta.index[vec])] = v_opening[vec]
         /\ \A vec \in Vec : \A leaf \in Leaf(vec) :
              /\ hashed_leaves[HashPos(vec, leaf)] = PosInTree(vec, leaf)
              /\ leaf # v_delta.index[vec] => Output(vec, leaf)
<1>1. DownInv /\ open_pc = "opened" /\ commit_pc = "done" /\ Revealing
  BY DEF Accepting, AllInv, VerifyInv, OpenInv
<1>2. /\ v_dont_reveal \in [Node -> BOOLEAN] /\ dont_reveal \in [Node -> BOOLEAN]
      /\ v_tree \in [Node -> Block] /\ v_hashed \in [Slot -> Block]
      /\ hashed_leaves \in [Slot -> Block]
      /\ delta \in Delta /\ v_delta \in Delta
      /\ v_opening \in [OpeningSlot -> Block] /\ opening \in [OpeningSlot -> Block]
  BY DEF Accepting, AllInv, VCInv, OpenType, VerifyType, CommitInv, Scattering
<1>3. v_dont_reveal[0]
  BY <1>1, <1>2, RootHidden DEF DownInv
<1>4. \A x \in Internal : ~v_dont_reveal[x] =>
        \A b \in {0, 1} : v_tree[Child(x, b)] = Prg(v_tree[x], b)
  BY <1>1, HeapSizes DEF Accepting, DownInv, Internal
<1>5. \A vec \in Vec : v_hashed[HashPos(vec, v_delta.index[vec])] = v_opening[vec]
  BY <1>1, OpeningSizes DEF DownInv, Commitments, Vec
<1>6. \A vec \in Vec : \A leaf \in Leaf(vec) :
        hashed_leaves[HashPos(vec, leaf)] = PosInTree(vec, leaf)
  BY <1>1, CommitInvImplies DEF Accepting, AllInv, VCInv, OutputsCorrect
<1>7. ASSUME NEW vec \in Vec, NEW leaf \in Leaf(vec), leaf # v_delta.index[vec]
      PROVE  Output(vec, leaf)
  <2>1. LeafBefore(v_leaf, vec, leaf)
    BY LeafCases DEF LeafBefore, Accepting
  <2> QED
    BY <1>1, <1>7, <2>1 DEF DownInv
<1> QED
  BY <1>1, <1>2, <1>3, <1>4, <1>5, <1>6, <1>7 DEF Revealing

(* A revealed node below a hidden one holds a seed slot of the opening, one   *)
(* below a revealed node what is derived there.                              *)
LEMMA RevealedNode ==
  ASSUME Accepting, NEW x \in Node, ~v_dont_reveal[x]
  PROVE  /\ x \in Node \ {0}
         /\ Parent(x) \in Internal /\ Parent(x) < x /\ Parent(x) \in Nat /\ Parent(x) \in Node
         /\ x = Child(Parent(x), 0) \/ x = Child(Parent(x), 1)
         /\ v_dont_reveal[Parent(x)] =>
              /\ Parent(x) \in Forks(v_dont_reveal, -1)
              /\ RevealedChild(v_dont_reveal, Parent(x)) = x
              /\ SlotOf(v_dont_reveal, Parent(x)) \in SeedSlot
              /\ v_tree[x] = v_opening[SlotOf(v_dont_reveal, Parent(x))]
         /\ ~v_dont_reveal[Parent(x)] =>
              \E b \in {0, 1} : x = Child(Parent(x), b) /\ v_tree[x] = Prg(v_tree[Parent(x)], b)
<1> DEFINE p == Parent(x)
<1>1. x \in Node \ {0}
  BY AcceptingFacts
<1>2. /\ p \in Internal /\ p < x /\ p \in Nat /\ p \in Node
      /\ x = Child(p, 0) \/ x = Child(p, 1)
  BY <1>1, ParentShape
<1>3. ASSUME v_dont_reveal[p]
      PROVE  /\ p \in Forks(v_dont_reveal, -1) /\ RevealedChild(v_dont_reveal, p) = x
             /\ SlotOf(v_dont_reveal, p) \in SeedSlot
             /\ v_tree[x] = v_opening[SlotOf(v_dont_reveal, p)]
  <2>1. p \in Forks(v_dont_reveal, -1) /\ RevealedChild(v_dont_reveal, p) = x
    BY <1>1, <1>3, RevealedUnderMarked, AcceptingFacts DEF DownInv
  <2>2. /\ v_tree[x] = v_opening[SlotOf(v_dont_reveal, p)]
        /\ SlotOf(v_dont_reveal, p) < OpeningSize
    BY <2>1, AcceptingFacts DEF DownInv, Seeds
  <2>3. SlotOf(v_dont_reveal, p) \in Nat /\ BITS_PER_WITNESS <= SlotOf(v_dont_reveal, p)
    BY <2>1, SlotBefore, HeapSizes
  <2> QED
    BY <2>1, <2>2, <2>3, OpeningSizes DEF SeedSlot
<1>4. ASSUME ~v_dont_reveal[p]
      PROVE  \E b \in {0, 1} : x = Child(p, b) /\ v_tree[x] = Prg(v_tree[p], b)
  BY <1>2, <1>4, AcceptingFacts
<1> QED
  BY <1>1, <1>2, <1>3, <1>4

(* With the challenge of the signer, the verifier hides the same nodes.      *)
LEMMA SameMarks ==
  ASSUME Accepting, v_delta = delta
  PROVE  v_dont_reveal = dont_reveal
<1>1. -1 \in -1 .. LEAVES - 2
  BY HeapSizes
<1>2. \A x \in Internal : x > -1 => Joins(v_dont_reveal, x) /\ Joins(dont_reveal, x)
  BY AcceptingFacts DEF DownInv, Revealing, Closed
<1>3. \A x \in Node : x > -1 => v_dont_reveal[x] = dont_reveal[x]
  BY <1>1, <1>2, MarksAgree, AcceptingFacts DEF DownInv, Revealing
<1>4. \A x \in Node : x > -1
  BY HeapSizes
<1> QED
  BY <1>3, <1>4, AcceptingFacts

(* With the opening of the signer too, it rebuilds the nodes of the signer.  *)
LEMMA SameNodes ==
  ASSUME Accepting, Faithful
  PROVE  \A x \in Node : ~v_dont_reveal[x] => v_tree[x] = x
<1> DEFINE Bad == {x \in Node : ~v_dont_reveal[x] /\ v_tree[x] # x}
<1>1. SUFFICES ASSUME Bad # {} PROVE FALSE
  OBVIOUS
<1>2. Bad \in SUBSET Nat
  BY HeapSizes
<1>3. PICK x \in Bad : \A y \in Bad : x <= y
  BY <1>1, <1>2, LeastElement
<1> DEFINE p == Parent(x)
<1>4. x \in Node /\ ~v_dont_reveal[x] /\ v_tree[x] # x /\ x \in Nat
  BY <1>2, <1>3
<1>5. CASE v_dont_reveal[p]
  <2>1. /\ p \in Forks(v_dont_reveal, -1) /\ RevealedChild(v_dont_reveal, p) = x
        /\ v_tree[x] = v_opening[SlotOf(v_dont_reveal, p)]
    BY <1>4, <1>5, RevealedNode
  <2>2. v_dont_reveal = dont_reveal /\ v_opening = opening
    BY SameMarks DEF Faithful
  <2>3. opening[SlotOf(dont_reveal, p)] = RevealedChild(dont_reveal, p)
    BY <2>1, <2>2, AcceptingFacts DEF Revealing, Filled
  <2> QED
    BY <1>4, <2>1, <2>2, <2>3
<1>6. CASE ~v_dont_reveal[p]
  <2>1. PICK b \in {0, 1} : x = Child(p, b) /\ v_tree[x] = Prg(v_tree[p], b)
    BY <1>4, <1>6, RevealedNode
  <2>2. p \in Node /\ p < x /\ p \in Nat
    BY <1>4, RevealedNode
  <2>3. v_tree[p] = p
    <3>1. p \notin Bad
      BY <1>3, <1>4, <2>2
    <3> QED
      BY <1>6, <2>2, <3>1
  <2> QED
    BY <1>4, <2>1, <2>2, <2>3 DEF Prg
<1> QED
  BY <1>5, <1>6

---------------------------------------------------------------------------
(* The verifier that got what the signer sent rebuilds its commitments and    *)
(* learns every key but the hidden ones.                                     *)
LEMMA AcceptsFaithful ==
  ASSUME Accepting, Faithful
  PROVE  /\ v_hashed = hashed_leaves
         /\ Keys = [vec \in Vec |-> Leaf(vec) \ {delta.index[vec]}]
<1>1. v_delta = delta /\ v_opening = opening
  BY DEF Faithful
<1>2. ASSUME NEW vec \in Vec, NEW leaf \in Leaf(vec), leaf # delta.index[vec]
      PROVE  /\ LeafPrg(v_tree[PosInTree(vec, leaf)]) = PosInTree(vec, leaf)
             /\ Output(vec, leaf)
  <2>1. PosInTree(vec, leaf) \in Node /\ ~v_dont_reveal[PosInTree(vec, leaf)]
    BY <1>1, <1>2, LeafShape, AcceptingFacts DEF DownInv, HiddenLeaves
  <2>2. v_tree[PosInTree(vec, leaf)] = PosInTree(vec, leaf) /\ PosInTree(vec, leaf) \in Nat
    BY <2>1, SameNodes, HeapSizes
  <2> QED
    BY <1>1, <1>2, <2>2, AcceptingFacts DEF LeafPrg, Zero
<1>3. ASSUME NEW s \in Slot PROVE v_hashed[s] = hashed_leaves[s]
  <2>1. PICK vec \in Vec : \E leaf \in Leaf(vec) : HashPos(vec, leaf) = s
    BY HashPosOnto
  <2>2. PICK leaf \in Leaf(vec) : HashPos(vec, leaf) = s
    BY <2>1
  <2>3. hashed_leaves[s] = PosInTree(vec, leaf)
    BY <2>2, AcceptingFacts
  <2>4. CASE leaf = delta.index[vec]
    BY <1>1, <2>2, <2>3, <2>4, AcceptingFacts DEF Revealing
  <2>5. CASE leaf # delta.index[vec]
    BY <1>2, <2>2, <2>3, <2>5 DEF Output
  <2> QED
    BY <2>4, <2>5
<1>4. v_hashed = hashed_leaves
  BY <1>3, AcceptingFacts
<1>5. \A vec \in Vec : {leaf \in Leaf(vec) : KeyRecovered(vec, leaf)}
                       = Leaf(vec) \ {delta.index[vec]}
  BY <1>1, <1>2 DEF KeyRecovered, Output
<1> QED
  BY <1>4, <1>5 DEF Keys

(* A wrong seed makes every node below it wrong, down to a commitment.        *)
LEMMA WrongSeedShows ==
  ASSUME Accepting, NEW y \in Node, ~v_dont_reveal[y], v_tree[y] # y
  PROVE  v_hashed # hashed_leaves
<1> DEFINE Wrong == {x \in Node : ~v_dont_reveal[x] /\ v_tree[x] # x}
<1>1. PICK x \in Wrong : \A z \in Wrong : z <= x
  <2>1. y \in Wrong /\ Wrong \in SUBSET Node
    OBVIOUS
  <2> HIDE DEF Wrong
  <2> QED
    BY <2>1, LastNode
<1>2. x \in Node /\ ~v_dont_reveal[x] /\ v_tree[x] # x /\ x \in Nat /\ v_tree[x] \in Block
  BY <1>1, HeapSizes, AcceptingFacts
<1>3. x \notin Internal
  <2>1. SUFFICES ASSUME x \in Internal PROVE FALSE
    OBVIOUS
  <2>2. /\ Child(x, 0) \in Node /\ x < Child(x, 0) /\ Child(x, 0) \in Nat
    BY <2>1, ChildShape, HeapSizes
  <2>3. ~v_dont_reveal[Child(x, 0)] /\ v_tree[Child(x, 0)] = Prg(v_tree[x], 0)
    BY <1>2, <2>1, ChildUnmarked, AcceptingFacts DEF DownInv
  <2>4. Prg(v_tree[x], 0) # Child(x, 0)
    BY <1>2 DEF Prg, Block, Child, Uninit, Zero, Junk
  <2>5. Child(x, 0) \in Wrong
    BY <2>2, <2>3, <2>4
  <2> QED
    BY <1>1, <1>2, <2>2, <2>5
<1>4. x >= LEAVES - 1
  BY <1>2, <1>3, HeapSizes DEF Internal
<1>5. PICK vec \in Vec : \E leaf \in Leaf(vec) : PosInTree(vec, leaf) = x
  BY <1>2, <1>4, PosInTreeOnto
<1>6. PICK leaf \in Leaf(vec) : PosInTree(vec, leaf) = x
  BY <1>5
<1>7. leaf # v_delta.index[vec]
  <2>1. vec < BITS_PER_WITNESS
    BY OpeningSizes DEF Vec
  <2> QED
    BY <1>2, <1>6, <2>1, AcceptingFacts DEF DownInv, HiddenLeaves
<1>8. v_hashed[HashPos(vec, leaf)] = LeafPrg(v_tree[x])
  BY <1>6, <1>7, AcceptingFacts DEF Output
<1>9. LeafPrg(v_tree[x]) # x
  BY <1>2 DEF LeafPrg, Junk
<1> QED
  BY <1>6, <1>8, <1>9, AcceptingFacts

(* From another challenge or another opening, the verifier rebuilds other     *)
(* commitments.                                                              *)
LEMMA AcceptsOther ==
  ASSUME Accepting, ~Faithful
  PROVE  v_hashed # hashed_leaves
<1>1. SUFFICES ASSUME v_hashed = hashed_leaves PROVE FALSE
  OBVIOUS
<1>2. \A vec \in Vec : v_delta.index[vec] \in Leaf(vec) /\ delta.index[vec] \in Leaf(vec)
  BY HiddenIndex, AcceptingFacts
<1>3. \A vec \in Vec : v_opening[vec] = PosInTree(vec, v_delta.index[vec])
  BY <1>1, <1>2, AcceptingFacts
<1>4. <<v_delta, v_opening>> \in Received /\ VCInv
  BY DEF Accepting, AllInv, VerifyInv
<1>5. v_delta = delta
  <2>1. SUFFICES ASSUME v_delta # delta PROVE FALSE
    OBVIOUS
  <2>2. v_opening = opening
    BY <1>4, <2>1, ReceivedSlots
  <2>3. \A vec \in Vec : v_delta.index[vec] = delta.index[vec]
    BY <1>2, <1>3, <2>2, PosInTreeInjective, AcceptingFacts DEF Revealing
  <2>4. v_delta.index = delta.index
    BY <2>3, AcceptingFacts DEF Delta
  <2>5. v_delta.topZero = delta.topZero
    BY AcceptingFacts DEF Delta, DownInv, Revealing
  <2> QED
    BY <2>1, <2>4, <2>5, AcceptingFacts DEF Delta
<1>6. PICK s \in OpeningSlot : v_opening[s] # opening[s]
  BY <1>5, AcceptingFacts DEF Faithful
<1>7. s \in Nat /\ s < OpeningSize
  BY OpeningSizes DEF OpeningSlot
<1>8. v_dont_reveal = dont_reveal /\ -1 \in -1 .. LEAVES - 2
  BY <1>5, SameMarks, HeapSizes
<1>9. written \in Nat /\ written = SlotOf(dont_reveal, -1)
  BY <1>8, ForksFinite, OpeningSizes, AcceptingFacts DEF SlotOf
<1>10. CASE s < BITS_PER_WITNESS
  <2>1. s \in Vec
    BY <1>7, <1>10, OpeningSizes DEF Vec
  <2> QED
    BY <1>3, <1>5, <1>6, <2>1, AcceptingFacts DEF Revealing
<1>11. CASE s >= written
  BY <1>6, <1>7, <1>8, <1>9, <1>11, AcceptingFacts DEF Revealing, DownInv, Padding
<1>12. CASE ~(s < BITS_PER_WITNESS) /\ ~(s >= written)
  <2>1. s \in BITS_PER_WITNESS .. SlotOf(dont_reveal, -1) - 1
    BY <1>7, <1>9, <1>12, OpeningSizes
  <2>2. PICK x \in Forks(dont_reveal, -1) : s = SlotOf(dont_reveal, x)
    BY <2>1, AcceptingFacts DEF Revealing, Filled
  <2> DEFINE seed == RevealedChild(dont_reveal, x)
  <2>3. opening[s] = seed
    BY <2>2, AcceptingFacts DEF Revealing, Filled
  <2>4. v_tree[seed] = v_opening[s]
    BY <1>8, <2>2, AcceptingFacts DEF DownInv, Seeds
  <2>5. seed \in Node /\ ~v_dont_reveal[seed]
    BY <1>8, <2>2, RevealedUnmarked, AcceptingFacts DEF Revealing
  <2> QED
    BY <1>1, <1>6, <2>3, <2>4, <2>5, WrongSeedShows
<1> QED
  BY <1>10, <1>11, <1>12

(* Whatever it gets, the verifier rebuilds no node the signer hid.           *)
LEMMA HiddenNotRebuilt ==
  ASSUME Accepting
  PROVE  \A x \in Node : ~v_dont_reveal[x] /\ v_tree[x] \in Node => ~dont_reveal[v_tree[x]]
<1> DEFINE Bad == {x \in Node : ~v_dont_reveal[x] /\ v_tree[x] \in Node /\ dont_reveal[v_tree[x]]}
<1>1. SUFFICES ASSUME Bad # {} PROVE FALSE
  OBVIOUS
<1>2. Bad \in SUBSET Nat
  BY HeapSizes
<1>3. PICK x \in Bad : \A y \in Bad : x <= y
  BY <1>1, <1>2, LeastElement
<1> DEFINE p == Parent(x)
<1>4. x \in Node /\ ~v_dont_reveal[x] /\ v_tree[x] \in Node /\ dont_reveal[v_tree[x]] /\ x \in Nat
  BY <1>2, <1>3
<1>5. CASE v_dont_reveal[p]
  <2>1. PICK s \in SeedSlot : v_tree[x] = v_opening[s]
    BY <1>4, <1>5, RevealedNode
  <2>2. v_opening[s] \in {Zero, Junk} \/ \E t \in SeedSlot : v_opening[s] = opening[t]
    BY ReceivedSlots DEF Accepting, AllInv, VerifyInv
  <2>3. Zero \notin Node /\ Junk \notin Node
    BY HeapSizes DEF Zero, Junk
  <2>4. PICK t \in SeedSlot : v_tree[x] = opening[t]
    BY <1>4, <2>1, <2>2, <2>3
  <2> QED
    BY <1>4, <2>4, SeedsUnmarked, AcceptingFacts DEF Accepting, AllInv
<1>6. CASE ~v_dont_reveal[p]
  <2>1. PICK b \in {0, 1} : x = Child(p, b) /\ v_tree[x] = Prg(v_tree[p], b)
    BY <1>4, <1>6, RevealedNode
  <2>2. p \in Node /\ p < x /\ p \in Nat /\ v_tree[p] \in Block
    BY <1>4, RevealedNode, AcceptingFacts
  <2>3. v_tree[x] \in Nat /\ v_tree[x] < NODES
    BY <1>4, HeapSizes
  <2>4. v_tree[p] \in Nat /\ v_tree[x] = Child(v_tree[p], b)
    BY <2>1, <2>2, <2>3 DEF Prg, Block, Uninit, Zero, Junk
  <2>5. v_tree[p] \in Internal
    BY <2>3, <2>4, HeapSizes DEF Child, Internal
  <2>6. dont_reveal[v_tree[p]]
    BY <1>4, <2>4, <2>5, AcceptingFacts DEF Revealing, Closed, Joins
  <2>7. p \in Bad
    BY <1>6, <2>2, <2>5, <2>6, HeapSizes
  <2> QED
    BY <1>3, <1>4, <2>2, <2>7
<1> QED
  BY <1>5, <1>6

LEMMA HiddenKeysKept ==
  ASSUME Accepting, NEW vec \in Vec
  PROVE  Keys[vec] \subseteq Leaf(vec) \ {delta.index[vec]}
<1> DEFINE hidden == delta.index[vec]
<1>1. hidden \in Leaf(vec) /\ vec < BITS_PER_WITNESS
  BY HiddenIndex, OpeningSizes, AcceptingFacts DEF Vec
<1>2. SUFFICES ASSUME KeyRecovered(vec, hidden) PROVE FALSE
  BY DEF Keys
<1> DEFINE node == PosInTree(vec, hidden)
<1>3. hidden # v_delta.index[vec] /\ Output(vec, hidden)
  BY <1>1, <1>2, AcceptingFacts DEF KeyRecovered
<1>4. LeafPrg(v_tree[node]) = node
  BY <1>2, <1>3 DEF KeyRecovered, Output
<1>5. node \in Node /\ node \in Nat
  BY <1>1, LeafShape, HeapSizes
<1>6. v_tree[node] = node
  BY <1>4, <1>5 DEF LeafPrg, Junk
<1>7. ~v_dont_reveal[node]
  BY <1>1, <1>3, AcceptingFacts DEF DownInv, HiddenLeaves
<1>8. dont_reveal[node]
  BY <1>1, AcceptingFacts DEF Revealing, HiddenLeaves
<1> QED
  BY <1>5, <1>6, <1>7, <1>8, HiddenNotRebuilt

---------------------------------------------------------------------------
(* The state of the abstract vector commitment.                              *)
signer   == IF commit_pc # "done" THEN "committing"
            ELSE IF open_pc = "opened" THEN "opened" ELSE "ready"
faithful == verify_pc # "idle" /\ Faithful
verdict  == CASE verify_pc = "accepted" ->
                   [stage |-> "accepted", matches |-> v_hashed = hashed_leaves, keys |-> Keys]
              [] verify_pc = "rejected" -> [stage |-> "rejected"]
              [] OTHER                  -> [stage |-> "none"]

LEMMA AbstractInit == Init => VC!Init
<1> SUFFICES ASSUME Init PROVE VC!Init
  OBVIOUS
<1>1. commit_pc = "double" /\ verify_pc = "idle"
  BY DEF Init, CommitInit, VerifyInit
<1>2. \A v \in Vec : delta.index[v] \in Leaf(v)
  BY VCInvInit, HiddenIndex DEF VCInv, OpenType
<1> QED
  BY <1>1, <1>2 DEF VC!Init, VC!None

(* Before the verifier returns, its verdict is open.                         *)
LEMMA NoVerdict ==
  ASSUME verify_pc \notin {"accepted", "rejected"}
  PROVE  verdict = VC!None
BY DEF verdict, VC!None

(* The steps of the signer.                                                  *)
LEMMA SignerImplements ==
  ASSUME AllInv, SignerCommits \/ SignerChallenged \/ SignerOpens
  PROVE  [VC!Next]_(VC!vcVars)
<1>1. UNCHANGED verifyVars /\ verify_pc = "idle" /\ verify_pc' = "idle"
  <2>1. UNCHANGED verifyVars
    BY DEF SignerCommits, SignerChallenged, SignerOpens
  <2>2. open_pc # "opened"
    BY DEF SignerCommits, SignerChallenged, SignerOpens, OpenCall, OpenStep, MarkLeaf,
           MarkParent, EndClimb, RefuseTooLong, WriteCommitments, RevealNode, OpenReturn,
           AllInv, OpenInv, CommitNext, ExpandTop, EndTop, ExpandRest, ExpandRemainder,
           HashLeafChunk, HashLastChunk, WriteOutput, CommitReturn
  <2>3. verify_pc = "idle"
    BY <2>2 DEF AllInv, VerifyInv
  <2> QED
    BY <2>1, <2>3 DEF verifyVars
<1>2. verdict = VC!None /\ verdict' = VC!None /\ faithful = FALSE /\ faithful' = FALSE
  BY <1>1 DEF verdict, faithful, VC!None
<1>3. CASE SignerCommits
  <2>1. commit_pc # "done" /\ UNCHANGED openVars /\ open_pc = "idle"
    BY <1>3 DEF SignerCommits, CommitNext, ExpandTop, EndTop, ExpandRest, ExpandRemainder,
                HashLeafChunk, HashLastChunk, WriteOutput, CommitReturn, AllInv, OpenInv
  <2>2. delta' = delta /\ open_pc' = "idle"
    BY <2>1 DEF openVars
  <2>3. CASE commit_pc' # "done"
    <3>1. signer = "committing" /\ signer' = "committing"
      BY <2>1, <2>3 DEF signer
    <3> QED
      BY <1>2, <2>2, <3>1 DEF VC!vcVars, signer, faithful, verdict
  <2>4. CASE commit_pc' = "done"
    <3>1. signer = "committing" /\ signer' = "ready"
      BY <2>1, <2>2, <2>4 DEF signer
    <3>2. VC!Commit
      BY <1>2, <2>2, <3>1 DEF VC!Commit, signer, faithful, verdict
    <3> QED
      BY <3>2 DEF VC!Next
  <2> QED
    BY <2>3, <2>4
<1>4. CASE SignerChallenged
  <2>1. PICK d \in Delta : OpenCall(d)
    BY <1>4 DEF SignerChallenged
  <2>2. /\ delta' = d /\ open_pc \in {"idle", "refused"} /\ open_pc' \in {"mark", "refused"}
        /\ commit_pc = "done" /\ commit_pc' = "done"
    BY <1>4, <2>1 DEF SignerChallenged, OpenCall, commitVars
  <2>3. \A v \in Vec : delta'.index[v] \in Leaf(v)
    BY <2>2, HiddenIndex
  <2>4. signer = "ready" /\ signer' = "ready"
    BY <2>2 DEF signer
  <2>5. VC!Challenge
    BY <1>2, <2>3, <2>4 DEF VC!Challenge, signer, faithful, verdict
  <2> QED
    BY <2>5 DEF VC!Next
<1>5. CASE SignerOpens
  <2>1. /\ OpenStep /\ commit_pc' = commit_pc /\ delta' = delta /\ commit_pc = "done"
        /\ open_pc # "opened"
    BY <1>5 DEF SignerOpens, commitVars, OpenStep, MarkLeaf, MarkParent, EndClimb,
       RefuseTooLong, WriteCommitments, RevealNode, OpenReturn, AllInv, OpenInv
  <2>2. CASE open_pc' = "opened"
    <3>1. signer = "ready" /\ signer' = "opened"
      BY <2>1, <2>2 DEF signer
    <3>2. VC!Open
      BY <1>2, <2>1, <3>1 DEF VC!Open, signer, faithful, verdict
    <3> QED
      BY <3>2 DEF VC!Next
  <2>3. CASE open_pc' # "opened"
    <3>1. signer = "ready" /\ signer' = "ready"
      BY <2>1, <2>3 DEF signer
    <3> QED
      BY <1>2, <2>1, <3>1 DEF VC!vcVars, signer, faithful, verdict
  <2> QED
    BY <2>2, <2>3
<1> QED
  BY <1>3, <1>4, <1>5

(* The verifier is called: at once rejected only on another challenge.       *)
LEMMA ReceiveImplements ==
  ASSUME AllInv, VerifierReceives
  PROVE  [VC!Next]_(VC!vcVars)
<1>1. PICK r \in Received : VerifyCall(r[1], r[2])
  BY DEF VerifierReceives
<1>2. /\ open_pc = "opened" /\ open_pc' = "opened" /\ commit_pc = "done" /\ commit_pc' = "done"
      /\ delta' = delta /\ opening' = opening /\ Revealing
  BY DEF VerifierReceives, commitVars, openVars, AllInv, OpenInv
<1>3. /\ verify_pc = "idle" /\ verify_pc' = (IF r[1].topZero THEN "mark" ELSE "rejected")
      /\ v_delta' = r[1]
  BY <1>1 DEF VerifyCall
<1>4. signer = "opened" /\ signer' = "opened" /\ verdict = VC!None /\ faithful = FALSE
  BY <1>2, <1>3 DEF signer, verdict, faithful, VC!None
<1>5. CASE r[1].topZero
  <2>1. verdict' = VC!None /\ faithful' \in BOOLEAN
    BY <1>3, <1>5 DEF verdict, faithful, VC!None
  <2>2. VC!Receive
    BY <1>2, <1>4, <2>1 DEF VC!Receive, signer, faithful, verdict
  <2> QED
    BY <2>2 DEF VC!Next
<1>6. CASE ~r[1].topZero
  <2>1. verdict' = VC!Rejected
    BY <1>3, <1>6 DEF verdict, VC!Rejected
  <2>2. faithful' = FALSE
    BY <1>2, <1>3, <1>6 DEF faithful, Faithful, Revealing
  <2>3. VC!Reject
    BY <1>2, <1>4, <2>1, <2>2 DEF VC!Reject, signer, faithful, verdict
  <2> QED
    BY <2>3 DEF VC!Next
<1> QED
  BY <1>5, <1>6

(* The verifier runs, and returns with a verdict the abstraction allows.     *)
LEMMA VerifyImplements ==
  ASSUME AllInv, VerifierVerifies
  PROVE  [VC!Next]_(VC!vcVars)
<1>1. /\ VerifyStep /\ verify_pc \in {"mark", "up", "down"}
      /\ verify_pc' \in {"mark", "up", "down", "accepted", "rejected"}
      /\ v_delta' = v_delta /\ v_opening' = v_opening
      /\ UNCHANGED <<commitVars, openVars>>
  BY DEF VerifierVerifies, VerifyStep, CopyCommitment, StartUp, ReadSeed, CheckPadding,
         StartDown, ExpandRevealed, WriteLeaf, VerifyReturn, Return
<1>2. /\ open_pc = "opened" /\ open_pc' = "opened" /\ commit_pc = "done" /\ commit_pc' = "done"
      /\ delta' = delta /\ opening' = opening /\ hashed_leaves' = hashed_leaves
  BY <1>1 DEF commitVars, openVars, AllInv, VerifyInv, OpenInv
<1>3. /\ signer = "opened" /\ signer' = "opened" /\ verdict = VC!None
      /\ faithful' = faithful /\ faithful = Faithful /\ faithful \in BOOLEAN
  BY <1>1, <1>2 DEF signer, verdict, faithful, Faithful, VC!None
<1>4. CASE verify_pc' = "rejected"
  <2>1. ~faithful
    BY <1>1, <1>3, <1>4, FaithfulNotRejected
  <2>2. verdict' = VC!Rejected
    BY <1>4 DEF verdict, VC!Rejected
  <2>3. VC!Reject
    BY <1>2, <1>3, <2>1, <2>2 DEF VC!Reject, signer, faithful, verdict
  <2> QED
    BY <2>3 DEF VC!Next
<1>5. CASE verify_pc' = "accepted"
  <2>1. VerifyReturn
    BY <1>1, <1>5 DEF VerifyStep, CopyCommitment, StartUp, ReadSeed, CheckPadding,
         StartDown, ExpandRevealed, WriteLeaf, Return
  <2>2. /\ verify_pc = "down" /\ v_i = LEAVES - 1 /\ v_leaf[1] = BITS_PER_WITNESS
        /\ UNCHANGED <<v_leaves, v_hashed>>
    BY <2>1, HeapSizes DEF VerifyReturn
  <2>3. v_leaf = <<BITS_PER_WITNESS, 0>>
    BY <2>2, OpeningSizes DEF AllInv, VCInv, VerifyLoops, Vec
  <2>4. Accepting
    BY <2>2, <2>3 DEF Accepting
  <2>5. Keys' = Keys
    BY <1>1, <2>2 DEF Keys, KeyRecovered
  <2>6. verdict' = [stage |-> "accepted", matches |-> v_hashed = hashed_leaves, keys |-> Keys]
    BY <1>2, <1>5, <2>2, <2>5 DEF verdict
  <2>7. CASE faithful
    <3>1. v_hashed = hashed_leaves /\ Keys = [v \in Vec |-> Leaf(v) \ {delta.index[v]}]
      BY <1>3, <2>4, <2>7, AcceptsFaithful
    <3>2. verdict' = VC!Accepted(TRUE, VC!AllBut(delta.index))
      BY <2>6, <3>1 DEF VC!Accepted, VC!AllBut
    <3>3. verdict'.stage = "accepted"
      BY <2>6
    <3>4. VC!Accept
      BY <1>2, <1>3, <2>7, <3>2, <3>3 DEF VC!Accept, signer, faithful, verdict
    <3> QED
      BY <3>4 DEF VC!Next
  <2>8. CASE ~faithful
    <3>1. v_hashed # hashed_leaves
      BY <1>3, <2>4, <2>8, AcceptsOther
    <3>2. verdict'.stage = "accepted" /\ ~verdict'.matches /\ verdict'.keys = Keys
      BY <2>6, <3>1
    <3>3. \A v \in Vec : verdict'.keys[v] \subseteq VC!AllBut(delta.index)[v]
      BY <2>4, <3>2, HiddenKeysKept DEF VC!AllBut
    <3>4. VC!Accept
      BY <1>2, <1>3, <2>8, <3>2, <3>3 DEF VC!Accept, signer, faithful, verdict
    <3> QED
      BY <3>4 DEF VC!Next
  <2> QED
    BY <2>7, <2>8
<1>6. CASE verify_pc' \notin {"accepted", "rejected"}
  <2>1. verdict' = VC!None
    BY <1>6 DEF verdict, VC!None
  <2> QED
    BY <1>2, <1>3, <2>1 DEF VC!vcVars, signer, faithful, verdict
<1> QED
  BY <1>4, <1>5, <1>6

LEMMA IdleImplements ==
  ASSUME UNCHANGED vars
  PROVE  UNCHANGED VC!vcVars
BY DEF vars, commitVars, openVars, verifyVars, VC!vcVars, Faithful, Keys, KeyRecovered

(* The signer and the verifier together are an all-but-one vector             *)
(* commitment: what the signer sends is accepted with its own commitments and *)
(* every key but the hidden ones; from anything else the verifier rejects or  *)
(* rebuilds other commitments, and it never learns a hidden key.              *)
THEOREM ImplementsVectorCommitment == Spec => ImplementsVC
<1>1. AllInv /\ [Next]_vars => [VC!Next]_(VC!vcVars)
  BY SignerImplements, ReceiveImplements, VerifyImplements, IdleImplements DEF Next
<1> QED
  BY AbstractInit, <1>1, VCAllInv, PTL DEF Spec, ImplementsVC, VC!Spec
============================================================================

-------------------------- MODULE VoleCommitProofs --------------------------
(***************************************************************************)
(* vole_commit and vole_reconstruct leave one correlation in all the columns, *)
(* for every number of columns, of unused columns and of vectors.            *)
(***************************************************************************)
EXTENDS VoleCommit, SequenceTheorems, TLAPS

(* A vector has as many index bits as the rounding says.                     *)
LEMMA Sizes ==
  /\ NONZERO_BITS_IN_CHALLENGE_3 \in Nat
  /\ VOLE_MIN_K \in Nat /\ VOLE_MAX_K \in Nat
  /\ VOLES_MAX_K \in 0 .. BITS_PER_WITNESS - 1
  /\ NONZERO_BITS_IN_CHALLENGE_3 = BITS_PER_WITNESS * VOLE_MIN_K + VOLES_MAX_K
  /\ VOLE_MAX_K = VOLE_MIN_K + (IF VOLES_MAX_K = 0 THEN 0 ELSE 1)
<1> DEFINE T == BITS_PER_WITNESS
           N == NONZERO_BITS_IN_CHALLENGE_3
<1>1. T \in Nat \ {0} /\ N \in Nat
  BY ParamsAssumption DEF NONZERO_BITS_IN_CHALLENGE_3
<1> HIDE DEF T, N
<1>2. N = T * (N \div T) + (N % T) /\ N % T \in 0 .. T - 1 /\ N \div T \in Nat
  BY <1>1
<1>3. N % T > 0 => (N + T - 1) \div T = (N \div T) + 1
  BY <1>1
<1>4. N % T = 0 => (N + T - 1) \div T = N \div T
  BY <1>1
<1> QED BY <1>1, <1>2, <1>3, <1>4 DEF T, N, VOLE_MIN_K, VOLE_MAX_K, VOLES_MAX_K

(* The vectors share out the bits of delta and the leaves, one after another. *)
LEMMA Places ==
  /\ FirstBit(0) = 0 /\ FirstLeaf(0) = 0
  /\ FirstBit(BITS_PER_WITNESS) = NONZERO_BITS_IN_CHALLENGE_3
  /\ \A n \in Vec : /\ K(n) \in Nat
                    /\ FirstBit(n) \in Nat
                    /\ FirstBit(n + 1) = FirstBit(n) + K(n)
                    /\ FirstLeaf(n) \in Int
                    /\ FirstLeaf(n + 1) = FirstLeaf(n) + 2 ^ K(n)
<1> DEFINE M == VOLES_MAX_K
           Max2 == 2 ^ VOLE_MAX_K
           Min2 == 2 ^ VOLE_MIN_K
<1>1. BITS_PER_WITNESS \in Nat \ {0} /\ M \in 0 .. BITS_PER_WITNESS - 1
  BY Sizes, ParamsAssumption
<1>2. Max2 \in Int /\ Min2 \in Int
  BY Sizes
<1>3. \A n \in Vec : K(n) \in Nat /\ 2 ^ K(n) = IF n < M THEN Max2 ELSE Min2
  BY Sizes DEF K
<1> HIDE DEF Max2, Min2
<1>4. FirstBit(0) = 0 /\ FirstLeaf(0) = 0
  BY <1>1, <1>2, Sizes DEF FirstBit, FirstLeaf, Max2
<1>5. FirstBit(BITS_PER_WITNESS) = NONZERO_BITS_IN_CHALLENGE_3
  <2>1. FirstBit(BITS_PER_WITNESS) = M * VOLE_MAX_K + (BITS_PER_WITNESS - M) * VOLE_MIN_K
    BY <1>1 DEF FirstBit
  <2>2. CASE M = 0
    BY <1>1, <2>1, <2>2, Sizes
  <2>3. CASE M # 0
    <3>1. M * (VOLE_MIN_K + 1) + (BITS_PER_WITNESS - M) * VOLE_MIN_K
            = BITS_PER_WITNESS * VOLE_MIN_K + M
      BY <1>1, Sizes
    <3> QED BY <2>1, <2>3, <3>1, Sizes
  <2> QED BY <2>2, <2>3
<1>6. ASSUME NEW n \in Vec
      PROVE  /\ FirstBit(n) \in Nat
             /\ FirstBit(n + 1) = FirstBit(n) + K(n)
  <2>1. n \in Nat
    BY DEF Vec
  <2>2. CASE n < M
    <3>1. (n + 1) * VOLE_MAX_K = n * VOLE_MAX_K + VOLE_MAX_K
      BY <2>1, Sizes
    <3>2. n * VOLE_MAX_K \in Nat
      BY <2>1, Sizes
    <3> QED BY <1>1, <2>1, <2>2, <3>1, <3>2 DEF FirstBit, K
  <2>3. CASE n >= M
    <3>1. (n + 1 - M) * VOLE_MIN_K = (n - M) * VOLE_MIN_K + VOLE_MIN_K
      BY <1>1, <2>1, Sizes
    <3>2. M * VOLE_MAX_K \in Nat /\ (n - M) * VOLE_MIN_K \in Nat
      BY <1>1, <2>1, <2>3, Sizes
    <3>3. FirstBit(n) = M * VOLE_MAX_K + (n - M) * VOLE_MIN_K
      <4>1. CASE n = M
        BY <1>1, <3>2, <4>1, Sizes DEF FirstBit
      <4>2. CASE n > M
        BY <1>1, <2>1, <4>2 DEF FirstBit
      <4> QED BY <1>1, <2>1, <2>3, <4>1, <4>2
    <3>4. FirstBit(n + 1) = M * VOLE_MAX_K + (n + 1 - M) * VOLE_MIN_K
      BY <1>1, <2>1, <2>3 DEF FirstBit
    <3> QED BY <1>1, <2>1, <2>3, <3>1, <3>2, <3>3, <3>4, Sizes DEF K
  <2> QED BY <1>1, <2>1, <2>2, <2>3
<1>7. ASSUME NEW n \in Vec
      PROVE  /\ FirstLeaf(n) \in Int
             /\ FirstLeaf(n + 1) = FirstLeaf(n) + (IF n < M THEN Max2 ELSE Min2)
  <2>1. n \in Nat
    BY DEF Vec
  <2>2. \A x \in Int : x <= M => FirstLeaf(x) = x * Max2
    BY DEF FirstLeaf, Max2
  <2>3. \A x \in Int : x > M => FirstLeaf(x) = M * Max2 + (x - M) * Min2
    BY <1>1 DEF FirstLeaf, Max2, Min2
  <2>4. \A x, y \in Int : (x + 1) * y = x * y + y /\ x * y \in Int
    OBVIOUS
  <2>5. CASE n < M
    BY <1>1, <1>2, <2>1, <2>2, <2>4, <2>5
  <2>6. CASE n = M
    <3>1. FirstLeaf(n) = M * Max2 /\ FirstLeaf(n + 1) = M * Max2 + Min2
      BY <1>1, <1>2, <2>1, <2>2, <2>3, <2>6
    <3> QED BY <1>1, <1>2, <2>4, <2>6, <3>1
  <2>7. CASE n > M
    <3>1. FirstLeaf(n) = M * Max2 + (n - M) * Min2
      BY <1>1, <2>1, <2>3, <2>7
    <3>2. FirstLeaf(n + 1) = M * Max2 + (n + 1 - M) * Min2
      BY <1>1, <2>1, <2>3, <2>7
    <3>3. (n + 1 - M) * Min2 = (n - M) * Min2 + Min2
      BY <1>1, <1>2, <2>1
    <3> QED BY <1>1, <1>2, <2>1, <2>4, <2>7, <3>1, <3>2, <3>3
  <2> QED BY <1>1, <2>1, <2>5, <2>6, <2>7
<1> QED BY <1>3, <1>4, <1>5, <1>6, <1>7

(* Vectors do not share columns, and all their columns are used ones.        *)
LEMMA Apart ==
  ASSUME NEW n \in Vec
  PROVE  /\ FirstBit(n) + K(n) <= NONZERO_BITS_IN_CHALLENGE_3
         /\ \A m \in Vec : m < n => FirstBit(m) + K(m) <= FirstBit(n)
<1> DEFINE M == VOLES_MAX_K
           Least(x) == IF x <= M THEN x ELSE M
<1>1. /\ BITS_PER_WITNESS \in Nat \ {0} /\ M \in 0 .. BITS_PER_WITNESS - 1
      /\ VOLE_MIN_K \in Nat
  BY Sizes, ParamsAssumption
<1>2. ASSUME NEW x \in Nat
      PROVE  FirstBit(x) = x * VOLE_MIN_K + Least(x)
  <2>1. CASE M = 0
    BY <1>1, <2>1, Sizes DEF FirstBit
  <2>2. CASE M # 0
    <3>1. x * (VOLE_MIN_K + 1) = x * VOLE_MIN_K + x
      BY <1>1
    <3>2. M * (VOLE_MIN_K + 1) + (x - M) * VOLE_MIN_K = x * VOLE_MIN_K + M
      BY <1>1
    <3> QED BY <1>1, <2>2, <3>1, <3>2, Sizes DEF FirstBit
  <2> QED BY <2>1, <2>2
<1>3. ASSUME NEW x \in Nat, NEW y \in Nat, x < y
      PROVE  FirstBit(x) + K(x) <= FirstBit(y)
  <2>1. x * VOLE_MIN_K + VOLE_MIN_K <= y * VOLE_MIN_K
    BY <1>1, <1>3
  <2>2. K(x) <= VOLE_MIN_K + (IF x < M THEN 1 ELSE 0)
    BY <1>1, Sizes DEF K
  <2>3. Least(x) + (IF x < M THEN 1 ELSE 0) <= Least(y)
    BY <1>1, <1>3
  <2>4. x * VOLE_MIN_K \in Nat /\ y * VOLE_MIN_K \in Nat /\ K(x) \in Nat
    BY <1>1, Sizes DEF K
  <2>5. Least(x) \in Nat /\ Least(y) \in Nat
    BY <1>1, <1>3
  <2>6. FirstBit(x) = x * VOLE_MIN_K + Least(x) /\ FirstBit(y) = y * VOLE_MIN_K + Least(y)
    BY <1>2, <1>3
  <2> HIDE DEF Least
  <2> DEFINE xs == x * VOLE_MIN_K
             ys == y * VOLE_MIN_K
  <2>7. xs + VOLE_MIN_K <= ys /\ xs \in Nat /\ ys \in Nat
    BY <2>1, <2>4
  <2> HIDE DEF xs, ys
  <2>8. FirstBit(x) = xs + Least(x) /\ FirstBit(y) = ys + Least(y)
    BY <2>6 DEF xs, ys
  <2> QED BY <1>1, <2>2, <2>3, <2>4, <2>5, <2>7, <2>8
<1>4. FirstBit(n) + K(n) <= FirstBit(BITS_PER_WITNESS)
  BY <1>1, <1>3 DEF Vec
<1> QED BY <1>1, <1>3, <1>4, Places DEF Vec

LEMMA PlusFacts ==
  ASSUME NEW a, NEW b
  PROVE  Plus(a, {}) = a /\ Plus(a, Plus(b, a)) = b
BY DEF Plus

LEMMA InVec ==
  \A n \in Vec : n \in Nat /\ n < BITS_PER_WITNESS /\ n + 1 \in 0 .. BITS_PER_WITNESS
BY ParamsAssumption DEF Vec

(* What the first n vectors have come to at the signer's.                    *)
Us == SUBSET {<<"u", p>> : p \in Int}

Sent(n) ==
  /\ u \in Us
  /\ commitment \in Seq(Us)
  /\ n = 0 => commitment = <<>>
  /\ n > 0 => Len(commitment) = n - 1 /\ u = U(FirstLeaf(0))
  /\ \A m \in 1 .. n - 1 : commitment[m] = Plus(u, U(FirstLeaf(m)))
  /\ \A m \in Vec : m < n =>
       \A b \in 0 .. K(m) - 1 : v[FirstBit(m) + b] = V(FirstLeaf(m), b)

Committed ==
  /\ Sent(BITS_PER_WITNESS)
  /\ \A x \in Column : x >= NONZERO_BITS_IN_CHALLENGE_3 => v[x] = {}

Correlated(n) == \A x \in Column : x < n => q[x] = Plus(v[x], Times(Delta(x), u))

Inv ==
  /\ pc \in {"hash_max", "hash_min", "rehash_max", "rehash_min"} =>
       leaves_iter = 0 /\ col = 0 /\ bit = 0
  /\ pc \in {"hash_max", "hash_min"} => u = {} /\ commitment = <<>>
  /\ pc \in {"send", "receive"} =>
       i \in 0 .. BITS_PER_WITNESS /\ leaves_iter = FirstLeaf(i) /\ col = FirstBit(i)
  /\ pc = "send" => bit = 0 /\ Sent(i)
  /\ pc \in {"rehash_max", "rehash_min", "receive", "done"} => Committed
  /\ pc = "receive" => bit = FirstBit(i) /\ Correlated(col)
  /\ pc = "done" =>
       /\ Correlated(NONZERO_BITS_IN_CHALLENGE_3)
       /\ \A x \in Column : x >= NONZERO_BITS_IN_CHALLENGE_3 => q[x] = {}

LEMMA InvInit == Init => Inv
BY DEF Init, Inv

LEMMA HashStep ==
  ASSUME Inv, HashFour \/ EndFours \/ HashOne
  PROVE  Inv'
<1>1. UNCHANGED <<delta, voleVars, pc>> /\ Hashing
  BY DEF HashFour, EndFours, HashOne
<1> QED BY <1>1 DEF Inv, voleVars, Hashing, Committed, Sent

LEMMA HashedStep ==
  ASSUME Inv, Hashed
  PROVE  Inv'
<1>1. UNCHANGED voleVars /\ UNCHANGED delta /\ i' = 0
  BY DEF Hashed
<1>2. \/ pc = "hash_max" /\ pc' = "hash_min"
      \/ pc = "hash_min" /\ pc' = "send"
      \/ pc = "rehash_max" /\ pc' = "rehash_min"
      \/ pc = "rehash_min" /\ pc' = "receive"
  BY DEF Hashed, Hashing
<1>3. 0 \in 0 .. BITS_PER_WITNESS /\ FirstLeaf(0) = 0 /\ FirstBit(0) = 0
  BY Places, ParamsAssumption
<1>4. CASE pc = "hash_max"
  BY <1>1, <1>2, <1>4 DEF Inv, voleVars
<1>5. CASE pc = "hash_min"
  <2>1. Sent(0)'
    BY <1>1, <1>5 DEF Inv, voleVars, Sent, Us, Vec
  <2> QED BY <1>1, <1>2, <1>3, <1>5, <2>1 DEF Inv, voleVars, Sent
<1>6. CASE pc = "rehash_max"
  BY <1>1, <1>2, <1>6 DEF Inv, voleVars, Committed, Sent
<1>7. CASE pc = "rehash_min"
  <2>1. Committed'
    BY <1>1, <1>7 DEF Inv, voleVars, Committed, Sent
  <2>2. Correlated(0)'
    BY DEF Correlated, Column
  <2> QED BY <1>1, <1>2, <1>3, <1>7, <2>1, <2>2 DEF Inv, voleVars
<1> QED BY <1>2, <1>4, <1>5, <1>6, <1>7

LEMMA SendStep ==
  ASSUME Inv, Send
  PROVE  Inv'
<1>1. /\ i \in Vec /\ leaves_iter = FirstLeaf(i) /\ col = FirstBit(i) /\ bit = 0
      /\ pc = "send" /\ pc' = "send" /\ i' = i + 1 /\ bit' = bit /\ Sent(i)
  <2>1. /\ pc = "send" /\ pc' = "send" /\ i' = i + 1 /\ bit' = bit
        /\ i < BITS_PER_WITNESS
    BY DEF Send
  <2>2. /\ leaves_iter = FirstLeaf(i) /\ col = FirstBit(i) /\ bit = 0 /\ Sent(i)
        /\ i \in 0 .. BITS_PER_WITNESS
    BY <2>1 DEF Inv
  <2>3. i \in Vec
    BY <2>1, <2>2, ParamsAssumption DEF Vec
  <2> QED BY <2>1, <2>2, <2>3
<1>2. i + 1 \in 0 .. BITS_PER_WITNESS
  BY <1>1, ParamsAssumption DEF Vec
<1>3. leaves_iter' = FirstLeaf(i + 1) /\ col' = FirstBit(i + 1)
  BY <1>1, Places DEF Send
<1>4. /\ FirstLeaf(i) \in Int /\ FirstBit(i) \in Nat /\ K(i) \in Nat
      /\ FirstBit(i) + K(i) <= SECURITY_PARAM
  BY <1>1, Places, Apart, ParamsAssumption DEF NONZERO_BITS_IN_CHALLENGE_3
<1>5. U(leaves_iter) \in Us
  BY <1>1, <1>4 DEF U, Us
<1>6. /\ u' \in Us
      /\ commitment' \in Seq(Us)
      /\ Len(commitment') = i /\ u' = U(FirstLeaf(0))
      /\ \A m \in 1 .. i : commitment'[m] = Plus(u', U(FirstLeaf(m)))
  <2>1. CASE i = 0
    BY <1>1, <1>5, <2>1 DEF Send, Sent
  <2>2. CASE i # 0
    <3>1. /\ commitment' = Append(commitment, Corr(leaves_iter)) /\ u' = u
          /\ Len(commitment) = i - 1 /\ u = U(FirstLeaf(0))
      BY <1>1, <2>2 DEF Send, Sent, Vec
    <3>2. Corr(leaves_iter) \in Us
      BY <1>1, <1>5 DEF Corr, Plus, Us, Sent
    <3>3. Corr(leaves_iter) = Plus(u', U(FirstLeaf(i)))
      BY <1>1, <3>1 DEF Corr
    <3>4. \A m \in 1 .. i - 1 : commitment[m] = Plus(u, U(FirstLeaf(m)))
      BY <1>1 DEF Sent
    <3> QED BY <1>1, <3>1, <3>2, <3>3, <3>4 DEF Sent, Vec
  <2> QED BY <2>1, <2>2
<1>7. ASSUME NEW m \in Vec, m < i + 1, NEW b \in 0 .. K(m) - 1
      PROVE  v'[FirstBit(m) + b] = V(FirstLeaf(m), b)
  <2>1. /\ FirstBit(m) \in Nat /\ K(m) \in Nat
        /\ FirstBit(m) + K(m) <= SECURITY_PARAM
    BY Places, Apart, ParamsAssumption DEF NONZERO_BITS_IN_CHALLENGE_3
  <2>2. FirstBit(m) + b \in Column
    BY <1>7, <2>1, ParamsAssumption DEF Column
  <2> DEFINE x == FirstBit(m) + b
  <2>3. x \in Column /\ x \in Int
    BY <2>2 DEF Column
  <2>4. CASE m = i
    <3>1. /\ x \in col .. col + K(i) - 1 /\ x - col = b
          /\ x - col \in 0 .. K(i) - 1
      BY <1>1, <1>4, <1>7, <2>4
    <3> HIDE DEF x
    <3>2. v'[x] = V(leaves_iter, x - col)
      BY <2>3, <3>1 DEF Send, Written
    <3>3. v'[x] = V(FirstLeaf(m), b)
      BY <1>1, <2>4, <3>1, <3>2
    <3> QED BY <3>3 DEF x
  <2>5. CASE m # i
    <3>1. m < i /\ FirstBit(m) + K(m) <= FirstBit(i)
      BY <1>1, <1>7, <2>5, Apart DEF Vec
    <3>2. x < col
      BY <1>1, <1>4, <1>7, <2>1, <3>1
    <3>3. v[x] = V(FirstLeaf(m), b)
      BY <1>1, <1>7, <3>1 DEF Sent
    <3> HIDE DEF x
    <3>4. x \notin col .. col + K(i) - 1
      BY <1>1, <1>4, <2>3, <3>2
    <3>5. v'[x] = v[x]
      BY <2>3, <3>4 DEF Send, Written
    <3>6. v'[x] = V(FirstLeaf(m), b)
      BY <3>3, <3>5
    <3> QED BY <3>6 DEF x
  <2> QED BY <2>4, <2>5
<1>8. Sent(i)'
  <2>1. i \in Nat /\ i' = i + 1
    BY <1>1, InVec
  <2>2. \A m \in Vec : m < i' =>
          \A b \in 0 .. K(m) - 1 : v'[FirstBit(m) + b] = V(FirstLeaf(m), b)
    BY <1>7, <2>1
  <2>3. \A m \in 1 .. i' - 1 : commitment'[m] = Plus(u', U(FirstLeaf(m)))
    BY <1>6, <2>1
  <2>4. Len(commitment') = i' - 1 /\ i' # 0
    BY <1>6, <2>1
  <2> QED BY <1>6, <2>2, <2>3, <2>4 DEF Sent
<1> QED BY <1>1, <1>2, <1>3, <1>8 DEF Inv

LEMMA CommitStep ==
  ASSUME Inv, Commit
  PROVE  Inv'
<1>1. /\ col = NONZERO_BITS_IN_CHALLENGE_3 /\ Sent(BITS_PER_WITNESS)
      /\ pc' = "rehash_max" /\ leaves_iter' = 0 /\ col' = 0 /\ bit' = 0
      /\ v' = Cleared(v) /\ u' = u /\ commitment' = commitment
  BY Places DEF Inv, Commit
<1>2. /\ NONZERO_BITS_IN_CHALLENGE_3 \in Nat
      /\ SECURITY_PARAM = NONZERO_BITS_IN_CHALLENGE_3 + ZERO_BITS_IN_CHALLENGE_3
  BY Sizes, ParamsAssumption DEF NONZERO_BITS_IN_CHALLENGE_3
<1>3. \A x \in Column : v'[x] = IF x >= NONZERO_BITS_IN_CHALLENGE_3 THEN {} ELSE v[x]
  BY <1>1, <1>2, ParamsAssumption DEF Cleared, Column
<1>4. ASSUME NEW m \in Vec, NEW b \in 0 .. K(m) - 1
      PROVE  v'[FirstBit(m) + b] = V(FirstLeaf(m), b)
  <2>1. /\ FirstBit(m) \in Nat /\ K(m) \in Nat
        /\ FirstBit(m) + K(m) <= NONZERO_BITS_IN_CHALLENGE_3
    BY Places, Apart
  <2>2. FirstBit(m) + b \in Column /\ FirstBit(m) + b < NONZERO_BITS_IN_CHALLENGE_3
    BY <1>2, <1>4, <2>1, ParamsAssumption DEF Column
  <2>3. v'[FirstBit(m) + b] = v[FirstBit(m) + b]
    <3> DEFINE x == FirstBit(m) + b
    <3>1. x \in Column /\ x < NONZERO_BITS_IN_CHALLENGE_3 /\ x \in Int
      BY <2>2 DEF Column
    <3> HIDE DEF x
    <3>2. v'[x] = v[x]
      BY <1>2, <1>3, <3>1
    <3> QED BY <3>2 DEF x
  <2>4. v[FirstBit(m) + b] = V(FirstLeaf(m), b)
    BY <1>1, InVec DEF Sent
  <2> QED BY <2>3, <2>4
<1>5. Sent(BITS_PER_WITNESS)'
  BY <1>1, <1>4 DEF Sent, Vec
<1>6. Committed'
  BY <1>3, <1>5 DEF Committed, Sent
<1> QED BY <1>1, <1>6 DEF Inv

LEMMA ReceiveStep ==
  ASSUME Inv, Receive
  PROVE  Inv'
<1>1. /\ i \in Vec /\ leaves_iter = FirstLeaf(i) /\ col = FirstBit(i) /\ bit = FirstBit(i)
      /\ pc = "receive" /\ pc' = "receive" /\ i' = i + 1
      /\ Committed /\ Correlated(col)
      /\ UNCHANGED <<delta, u, v, commitment>>
  <2>1. /\ pc = "receive" /\ pc' = "receive" /\ i' = i + 1 /\ i < BITS_PER_WITNESS
        /\ UNCHANGED <<delta, u, v, commitment>>
    BY DEF Receive
  <2>2. /\ leaves_iter = FirstLeaf(i) /\ col = FirstBit(i) /\ bit = FirstBit(i)
        /\ Committed /\ Correlated(col) /\ i \in 0 .. BITS_PER_WITNESS
    BY <2>1 DEF Inv
  <2>3. i \in Vec
    BY <2>1, <2>2, ParamsAssumption DEF Vec
  <2> QED BY <2>1, <2>2, <2>3
<1>2. i + 1 \in 0 .. BITS_PER_WITNESS
  BY <1>1, ParamsAssumption DEF Vec
<1>3. /\ leaves_iter' = FirstLeaf(i + 1) /\ col' = FirstBit(i + 1)
      /\ bit' = FirstBit(i + 1)
  BY <1>1, Places DEF Receive
<1>4. /\ FirstBit(i) \in Nat /\ K(i) \in Nat /\ FirstBit(i + 1) = FirstBit(i) + K(i)
  BY <1>1, Places
<1>5. Committed'
  BY <1>1 DEF Committed, Sent
<1>6. Plus(U(FirstLeaf(i)), CorrectionOf(i)) = u
  <2> USE PlusFacts
  <2>0. /\ u = U(FirstLeaf(0))
        /\ \A m \in 1 .. BITS_PER_WITNESS - 1 : commitment[m] = Plus(u, U(FirstLeaf(m)))
    BY <1>1, ParamsAssumption DEF Committed, Sent
  <2>1. CASE i = 0
    <3>1. CorrectionOf(i) = {}
      BY <2>1 DEF CorrectionOf
    <3> QED BY <2>0, <2>1, <3>1
  <2>2. CASE i # 0
    <3>1. i \in 1 .. BITS_PER_WITNESS - 1
      BY <1>1, <2>2, InVec, ParamsAssumption
    <3>2. CorrectionOf(i) = Plus(u, U(FirstLeaf(i)))
      BY <2>0, <2>2, <3>1 DEF CorrectionOf
    <3> QED BY <3>2
  <2> QED BY <2>1, <2>2
<1>7. Opened(FirstLeaf(i), K(i), FirstBit(i))
  BY <1>1 DEF Opened
<1>8. ASSUME NEW x \in Column, x < FirstBit(i + 1)
      PROVE  q'[x] = Plus(v[x], Times(Delta(x), u))
  <2>1. q'[x] = IF x \in col .. col + K(i) - 1
                THEN Received(leaves_iter, K(i), bit, x - col, CorrectionOf(i))
                ELSE q[x]
    <3> DEFINE R == [b \in 0 .. K(i) - 1 |->
                       Received(leaves_iter, K(i), bit, b, CorrectionOf(i))]
    <3>1. q' = Written(q, K(i), R)
      BY DEF Receive
    <3>2. \A y \in col .. col + K(i) - 1 :
            R[y - col] = Received(leaves_iter, K(i), bit, y - col, CorrectionOf(i))
      BY <1>1, <1>4
    <3> HIDE DEF R
    <3> QED BY <3>1, <3>2 DEF Written
  <2>2. CASE x < col
    BY <1>1, <1>4, <2>1, <2>2 DEF Correlated
  <2>3. CASE x >= col
    <3>1. x \in col .. col + K(i) - 1 /\ x - col \in 0 .. K(i) - 1
      BY <1>1, <1>4, <1>8, <2>3 DEF Column
    <3>2. q'[x] = Plus(V(FirstLeaf(i), x - col), Times(Delta(bit + (x - col)), u))
      BY <1>1, <1>6, <1>7, <2>1, <3>1 DEF Received
    <3>3. bit + (x - col) = x /\ FirstBit(i) + (x - col) = x
      BY <1>1, <1>4 DEF Column
    <3>4. v[x] = V(FirstLeaf(i), x - col)
      <4>1. \A b \in 0 .. K(i) - 1 : v[FirstBit(i) + b] = V(FirstLeaf(i), b)
        BY <1>1, InVec DEF Committed, Sent
      <4> QED BY <3>1, <3>3, <4>1
    <3> QED BY <3>2, <3>3, <3>4
  <2> QED BY <1>1, <1>4, <2>2, <2>3 DEF Column
<1>9. Correlated(col)'
  BY <1>1, <1>3, <1>8 DEF Correlated, Delta
<1> QED BY <1>1, <1>2, <1>3, <1>5, <1>9 DEF Inv

LEMMA ReconstructStep ==
  ASSUME Inv, Reconstruct
  PROVE  Inv'
<1>1. /\ col = NONZERO_BITS_IN_CHALLENGE_3 /\ Committed /\ Correlated(col)
      /\ pc' = "done" /\ q' = Cleared(q) /\ UNCHANGED <<delta, u, v, commitment>>
  BY Places DEF Inv, Reconstruct
<1>2. /\ NONZERO_BITS_IN_CHALLENGE_3 \in Nat
      /\ SECURITY_PARAM = NONZERO_BITS_IN_CHALLENGE_3 + ZERO_BITS_IN_CHALLENGE_3
  BY Sizes, ParamsAssumption DEF NONZERO_BITS_IN_CHALLENGE_3
<1>3. \A x \in Column : q'[x] = IF x >= NONZERO_BITS_IN_CHALLENGE_3 THEN {} ELSE q[x]
  BY <1>1, <1>2, ParamsAssumption DEF Cleared, Column
<1>4. Committed'
  BY <1>1 DEF Committed, Sent
<1>5. Correlated(NONZERO_BITS_IN_CHALLENGE_3)'
  BY <1>1, <1>2, <1>3 DEF Correlated, Delta, Column
<1> QED BY <1>1, <1>3, <1>4, <1>5 DEF Inv

LEMMA InvStep == Inv /\ [Next]_vars => Inv'
<1> SUFFICES ASSUME Inv, [Next]_vars PROVE Inv'
  OBVIOUS
<1>1. CASE UNCHANGED vars
  BY <1>1 DEF vars, Inv, Committed, Sent, Correlated, Delta
<1> QED BY <1>1, HashStep, HashedStep, SendStep, CommitStep, ReceiveStep, ReconstructStep
        DEF Next

(* Whatever the parameters, vole_reconstruct ends with the columns of the      *)
(* correlation that vole_commit began: q = v + delta u in every used column,   *)
(* nothing in the unused ones, and no column of v shared or left unwritten.   *)
THEOREM VoleCommitCorrelates == Spec => []Correlation
<1>1. Inv => Correlation
  <2> SUFFICES ASSUME Inv, pc = "done" PROVE Correlation
    BY DEF Correlation
  <2>1. /\ Committed /\ Correlated(NONZERO_BITS_IN_CHALLENGE_3)
        /\ \A x \in Column : x >= NONZERO_BITS_IN_CHALLENGE_3 => q[x] = {}
    BY DEF Inv
  <2>2. u = U(FirstLeaf(0))
    BY <2>1, ParamsAssumption DEF Committed, Sent
  <2>3. \A n \in Vec : \A b \in 0 .. K(n) - 1 : v[FirstBit(n) + b] = V(FirstLeaf(n), b)
    BY <2>1, InVec DEF Committed, Sent
  <2>4. ASSUME NEW x \in Column
        PROVE  IF x < NONZERO_BITS_IN_CHALLENGE_3
               THEN q[x] = Plus(v[x], Times(Delta(x), u))
               ELSE v[x] = {} /\ q[x] = {}
    BY <2>1, Sizes DEF Committed, Correlated, Column
  <2> QED BY <2>2, <2>3, <2>4 DEF Correlation
<1> QED BY <1>1, InvInit, InvStep, PTL DEF Spec

---------------------------------------------------------------------------
(* Hashing. The first n vectors, each by its first leaf.                      *)
Firsts(n) == [m \in 1 .. n |-> FirstLeaf(m - 1)]

Before == IF Long THEN 0 ELSE VOLES_MAX_K

(* Between two iterations the vectors before i are hashed, and the pointer is  *)
(* at vector i; in the loop over groups, i is a multiple of four.             *)
HashInv ==
  /\ rest \in BOOLEAN
  /\ Hashing \/ pc \in {"send", "receive", "done"}
  /\ Hashing => /\ i \in 0 .. NumTrees
                /\ hashed = Firsts(Before + i)
                /\ hashed_leaves = FirstLeaf(Before + i)
                /\ ~rest => i % 4 = 0
  /\ pc \in {"send", "receive", "done"} => ~rest /\ hashed = Firsts(BITS_PER_WITNESS)

(* The vectors of one length follow one another without gap.                 *)
LEMMA OneLength ==
  ASSUME Hashing
  PROVE  /\ NumTrees \in Nat /\ Before \in Nat /\ NumLeaves \in Int
         /\ Before + NumTrees <= BITS_PER_WITNESS
         /\ \A n \in 0 .. NumTrees - 1 :
              /\ FirstLeaf(Before + n) \in Int
              /\ FirstLeaf(Before + n + 1) = FirstLeaf(Before + n) + NumLeaves
<1>1. /\ VOLES_MAX_K \in 0 .. BITS_PER_WITNESS - 1 /\ BITS_PER_WITNESS \in Nat \ {0}
      /\ VOLES_MIN_K = BITS_PER_WITNESS - VOLES_MAX_K
  BY Sizes, ParamsAssumption DEF VOLES_MIN_K, VOLES_MAX_K
<1>2. NumTrees \in Nat /\ Before \in Nat /\ Before + NumTrees <= BITS_PER_WITNESS
  BY <1>1 DEF NumTrees, Before
<1>3. NumLeaves \in Int
  BY Sizes DEF NumLeaves
<1>4. ASSUME NEW n \in 0 .. NumTrees - 1
      PROVE  /\ FirstLeaf(Before + n) \in Int
             /\ FirstLeaf(Before + n + 1) = FirstLeaf(Before + n) + NumLeaves
  <2>1. Before + n \in Vec
    BY <1>1, <1>2 DEF Vec
  <2>2. 2 ^ K(Before + n) = NumLeaves
    <3>1. CASE Long
      BY <1>1, <3>1 DEF Before, NumTrees, NumLeaves, K
    <3>2. CASE ~Long
      BY <1>1, <3>2 DEF Before, NumTrees, NumLeaves, K
    <3> QED BY <3>1, <3>2
  <2> QED BY <2>1, <2>2, Places
<1> QED BY <1>2, <1>3, <1>4

(* A run of vectors is the next of the sequence.                             *)
LEMMA RanNext ==
  ASSUME HashInv, Hashing, NEW n \in {1, 4}, i + n <= NumTrees
  PROVE  /\ hashed \o Ran(n) = Firsts(Before + (i + n))
         /\ hashed_leaves + n * NumLeaves = FirstLeaf(Before + (i + n))
<1> DEFINE D == Before + i
<1>1. /\ D \in Nat /\ i \in Nat /\ NumLeaves \in Int /\ Before \in Nat /\ NumTrees \in Nat
      /\ hashed = Firsts(D) /\ hashed_leaves = FirstLeaf(D)
      /\ D + n <= BITS_PER_WITNESS /\ n \in Nat
  <2>1. /\ NumLeaves \in Int /\ Before \in Nat /\ NumTrees \in Nat
        /\ Before + NumTrees <= BITS_PER_WITNESS /\ BITS_PER_WITNESS \in Nat
    BY OneLength, ParamsAssumption
  <2>2. i \in 0 .. NumTrees /\ hashed = Firsts(D) /\ hashed_leaves = FirstLeaf(D)
    BY DEF HashInv
  <2> QED BY <2>1, <2>2
<1>2. \A m \in 0 .. n - 1 : /\ FirstLeaf(D + m) \in Int
                            /\ FirstLeaf(D + m + 1) = FirstLeaf(D + m) + NumLeaves
  <2> SUFFICES ASSUME NEW m \in 0 .. n - 1
               PROVE  /\ FirstLeaf(D + m) \in Int
                      /\ FirstLeaf(D + m + 1) = FirstLeaf(D + m) + NumLeaves
    OBVIOUS
  <2>1. i + m \in 0 .. NumTrees - 1 /\ D + m = Before + (i + m)
    BY <1>1
  <2> QED BY <2>1, OneLength
<1> HIDE DEF D
<1>3. \A m \in 0 .. n : FirstLeaf(D + m) \in Int /\ FirstLeaf(D + m) = FirstLeaf(D) + m * NumLeaves
  <2>0. FirstLeaf(D) \in Int /\ FirstLeaf(D + 1) = FirstLeaf(D) + NumLeaves
    <3>1. 0 \in 0 .. n - 1 /\ D + 0 = D /\ D + 0 + 1 = D + 1
      BY <1>1
    <3> QED BY <1>2, <3>1
  <2>1. CASE n = 1
    <3>1. \A m \in 0 .. n : m = 0 \/ m = 1
      BY <2>1
    <3>2. /\ FirstLeaf(D + 0) = FirstLeaf(D) /\ 0 * NumLeaves = 0 /\ 1 * NumLeaves = NumLeaves
          /\ FirstLeaf(D) + 0 = FirstLeaf(D) /\ FirstLeaf(D + 1) \in Int
      BY <1>1, <2>0
    <3> QED BY <2>0, <3>1, <3>2
  <2>2. CASE n = 4
    <3>1. FirstLeaf(D) \in Int /\ FirstLeaf(D + 1) = FirstLeaf(D) + NumLeaves
      BY <2>0
    <3>2. FirstLeaf(D + 2) = FirstLeaf(D) + 2 * NumLeaves
      BY <1>1, <1>2, <2>2, <3>1
    <3>3. FirstLeaf(D + 3) = FirstLeaf(D) + 3 * NumLeaves
      BY <1>1, <1>2, <2>2, <3>2
    <3>4. FirstLeaf(D + 4) = FirstLeaf(D) + 4 * NumLeaves
      BY <1>1, <1>2, <2>2, <3>3
    <3>5. \A m \in 0 .. n : m \in {0, 1, 2, 3, 4}
      BY <2>2
    <3>6. FirstLeaf(D + 0) = FirstLeaf(D)
      BY <1>1
    <3> SUFFICES ASSUME NEW m \in 0 .. n
                 PROVE  FirstLeaf(D + m) \in Int /\ FirstLeaf(D + m) = FirstLeaf(D) + m * NumLeaves
      OBVIOUS
    <3>7. CASE m = 0
      BY <1>1, <3>1, <3>6, <3>7
    <3>8. CASE m = 1
      BY <1>1, <3>1, <3>8
    <3>9. CASE m = 2
      BY <1>1, <3>1, <3>2, <3>9
    <3>10. CASE m = 3
      BY <1>1, <3>1, <3>3, <3>10
    <3>11. CASE m = 4
      BY <1>1, <3>1, <3>4, <3>11
    <3> QED BY <3>5, <3>7, <3>8, <3>9, <3>10, <3>11
  <2> QED BY <2>1, <2>2
<1>4. Ran(n) = [t \in 1 .. n |-> FirstLeaf(D + (t - 1))]
  <2>1. ASSUME NEW t \in 1 .. n
        PROVE  FirstLeaf(D + (t - 1)) = hashed_leaves + (t - 1) * NumLeaves
    <3>1. t - 1 \in 0 .. n
      BY <1>1
    <3> QED BY <1>1, <1>3, <3>1
  <2> QED BY <2>1 DEF Ran
<1>5. \A m \in 1 .. D : FirstLeaf(m - 1) \in Int
  <2> SUFFICES ASSUME NEW m \in 1 .. D PROVE FirstLeaf(m - 1) \in Int
    OBVIOUS
  <2>1. m - 1 \in Vec
    BY <1>1, ParamsAssumption DEF Vec
  <2> QED BY <2>1, Places
<1>6. Firsts(D) \in Seq(Int) /\ Len(Firsts(D)) = D
  BY <1>1, <1>5 DEF Firsts
<1>7. Ran(n) \in Seq(Int) /\ Len(Ran(n)) = n
  <2>1. ASSUME NEW t \in 1 .. n PROVE FirstLeaf(D + (t - 1)) \in Int
    <3>1. t - 1 \in 0 .. n
      BY <1>1
    <3> QED BY <1>3, <3>1
  <2> QED BY <1>1, <1>4, <2>1
<1>8. /\ Firsts(D) \o Ran(n) \in Seq(Int) /\ Len(Firsts(D) \o Ran(n)) = D + n
      /\ \A m \in 1 .. D + n :
           (Firsts(D) \o Ran(n))[m] = IF m <= D THEN Firsts(D)[m] ELSE Ran(n)[m - D]
  BY <1>1, <1>6, <1>7, ConcatProperties
<1>9. \A m \in 1 .. D + n : (Firsts(D) \o Ran(n))[m] = FirstLeaf(m - 1)
  <2> SUFFICES ASSUME NEW m \in 1 .. D + n
               PROVE  (Firsts(D) \o Ran(n))[m] = FirstLeaf(m - 1)
    OBVIOUS
  <2>1. CASE m <= D
    BY <1>1, <1>8, <2>1 DEF Firsts
  <2>2. CASE m > D
    <3>1. m - D \in 1 .. n /\ D + ((m - D) - 1) = m - 1
      BY <1>1, <2>2
    <3>2. Ran(n)[m - D] = FirstLeaf(m - 1)
      BY <1>4, <3>1
    <3>3. ~(m <= D)
      BY <1>1, <2>2
    <3> QED BY <1>8, <3>2, <3>3
  <2>3. m <= D \/ m > D
    BY <1>1
  <2> QED BY <2>1, <2>2, <2>3, Zenon
<1>10. Firsts(D) \o Ran(n) = Firsts(D + n)
  <2>1. Firsts(D) \o Ran(n) = [m \in 1 .. D + n |-> (Firsts(D) \o Ran(n))[m]]
    BY <1>8, LenProperties
  <2> QED BY <1>9, <2>1 DEF Firsts
<1>11. Before + (i + n) = D + n
  BY <1>1 DEF D
<1>12. FirstLeaf(D + n) = FirstLeaf(D) + n * NumLeaves
  <2>1. n \in 0 .. n
    BY <1>1
  <2> QED BY <1>3, <2>1
<1> QED BY <1>1, <1>10, <1>11, <1>12

LEMMA HashInvStep ==
  ASSUME HashInv, Inv, [Next]_vars
  PROVE  HashInv'
<1>0. Hashing \/ pc \in {"send", "receive", "done"}
  BY DEF HashInv
<1>1. ASSUME NEW n \in {1, 4}, Hashing, i + n <= NumTrees,
             hashed' = hashed \o Ran(n), hashed_leaves' = hashed_leaves + n * NumLeaves,
             i' = i + n, rest' = rest, pc' = pc, ~rest => n = 4
      PROVE  HashInv'
  <2>1. hashed' = Firsts(Before + i') /\ hashed_leaves' = FirstLeaf(Before + i')
    BY <1>1, RanNext
  <2>2. Before' = Before /\ NumTrees' = NumTrees /\ Hashing' /\ NumTrees \in Nat
    BY <1>1, OneLength DEF Before, NumTrees, Hashing, Long
  <2>3. i \in 0 .. NumTrees /\ (~rest => i % 4 = 0) /\ rest \in BOOLEAN
    BY <1>1 DEF HashInv
  <2>4. i' \in 0 .. NumTrees /\ (~rest => i' % 4 = 0)
    BY <1>1, <2>2, <2>3
  <2>5. pc' \notin {"send", "receive", "done"}
    BY <1>1 DEF Hashing
  <2> QED BY <1>1, <2>1, <2>2, <2>3, <2>4, <2>5 DEF HashInv
<1>2. CASE HashFour
  BY <1>1, <1>2 DEF HashFour
<1>3. CASE HashOne
  <2>1. Hashing /\ rest /\ i < NumTrees /\ i \in Int /\ NumTrees \in Nat /\ NumLeaves \in Int
    BY <1>3, OneLength DEF HashOne, HashInv
  <2>2. i + 1 <= NumTrees /\ 1 * NumLeaves = NumLeaves
    BY <2>1
  <2> QED BY <1>1, <1>3, <2>1, <2>2 DEF HashOne
<1>4. CASE EndFours
  <2>1. /\ Hashing /\ ~rest /\ i + 4 > NumTrees /\ i \in 0 .. NumTrees /\ i % 4 = 0
        /\ NumTrees \in Nat
    BY <1>4, OneLength DEF EndFours, HashInv
  <2>2. NumTrees - (NumTrees % 4) = i
    BY <2>1
  <2>3. i' = i /\ rest' = TRUE /\ UNCHANGED <<hashed, hashed_leaves, pc>>
    BY <1>4, <2>2 DEF EndFours, FirstOfRest
  <2> QED BY <2>1, <2>3 DEF HashInv, Hashing, Before, NumTrees, Long
<1>5. CASE Hashed
  <2>1. /\ Hashing /\ i = NumTrees /\ hashed = Firsts(Before + NumTrees)
        /\ i' = 0 /\ rest' = FALSE /\ hashed' = hashed
        /\ hashed_leaves' = VOLES_MAX_K * 2 ^ VOLE_MAX_K
    BY <1>5, OneLength DEF Hashed, HashInv
  <2>2. /\ VOLES_MAX_K \in 0 .. BITS_PER_WITNESS - 1 /\ BITS_PER_WITNESS \in Nat \ {0}
        /\ VOLES_MIN_K = BITS_PER_WITNESS - VOLES_MAX_K
    BY Sizes, ParamsAssumption DEF VOLES_MIN_K, VOLES_MAX_K
  <2>3. CASE Long
    <3>1. pc' \in {"hash_min", "rehash_min"}
      BY <1>5, <2>3 DEF Hashed, Long
    <3>2. hashed = Firsts(VOLES_MAX_K) /\ hashed_leaves' = FirstLeaf(VOLES_MAX_K)
      BY <2>1, <2>2, <2>3 DEF Before, NumTrees, FirstLeaf
    <3>3. Before' = VOLES_MAX_K /\ NumTrees' = VOLES_MIN_K /\ Hashing'
      BY <3>1 DEF Before, NumTrees, Long, Hashing
    <3>4. Before' + i' = VOLES_MAX_K /\ i' \in 0 .. NumTrees' /\ i' % 4 = 0
      BY <2>1, <2>2, <3>3
    <3> QED BY <2>1, <3>1, <3>2, <3>3, <3>4 DEF HashInv
  <2>4. CASE ~Long
    <3>1. pc' \in {"send", "receive"}
      BY <1>5, <2>1, <2>4 DEF Hashed, Long, Hashing
    <3>2. hashed = Firsts(BITS_PER_WITNESS)
      BY <2>1, <2>2, <2>4 DEF Before, NumTrees
    <3> QED BY <2>1, <3>1, <3>2 DEF HashInv, Hashing
  <2> QED BY <2>3, <2>4
<1>6. CASE Send \/ Receive \/ Reconstruct
  BY <1>6 DEF Send, Receive, Reconstruct, HashInv, Hashing, hashVars
<1>7. CASE Commit
  <2>1. /\ pc' = "rehash_max" /\ i' = 0 /\ hashed_leaves' = 0 /\ hashed' = <<>>
        /\ rest' = rest /\ ~rest /\ rest \in BOOLEAN
    BY <1>7 DEF Commit, HashInv
  <2>2. Before' = 0 /\ NumTrees' = VOLES_MAX_K /\ Hashing'
    BY <2>1 DEF Before, NumTrees, Long, Hashing
  <2>3. VOLES_MAX_K \in Nat /\ FirstLeaf(0) = 0 /\ Firsts(0) = <<>>
    BY Sizes, Places DEF Firsts
  <2> QED BY <2>1, <2>2, <2>3 DEF HashInv
<1>8. CASE UNCHANGED vars
  BY <1>8 DEF vars, HashInv, Hashing, Before, NumTrees, Long
<1> QED BY <1>2, <1>3, <1>4, <1>5, <1>6, <1>7, <1>8 DEF Next

LEMMA HashInvInit == Init => HashInv
<1> SUFFICES ASSUME Init PROVE HashInv
  OBVIOUS
<1>1. VOLES_MAX_K \in Nat /\ FirstLeaf(0) = 0 /\ Firsts(0) = <<>>
  BY Sizes, Places DEF Firsts
<1>2. Before = 0 /\ NumTrees = VOLES_MAX_K /\ Hashing
  BY DEF Init, Before, NumTrees, Long, Hashing
<1>3. Before + i = 0 /\ i \in 0 .. NumTrees /\ i % 4 = 0
  BY <1>1, <1>2 DEF Init
<1> QED BY <1>1, <1>2, <1>3 DEF Init, HashInv

(* However many vectors there are of each length, grouping them by four        *)
(* neither skips nor repeats one: signer and verifier hash all of them in      *)
(* order, each from its own first leaf.                                      *)
THEOREM VectorsHashedOnce == Spec => []HashedOnce
<1>1. Init => HashInv /\ Inv
  BY HashInvInit, InvInit
<1>2. HashInv /\ Inv /\ [Next]_vars => (HashInv /\ Inv)'
  BY HashInvStep, InvStep
<1>3. HashInv => HashedOnce
  BY DEF HashInv, HashedOnce, Firsts
<1> QED BY <1>1, <1>2, <1>3, PTL DEF Spec
============================================================================

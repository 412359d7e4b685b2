----------------------------- MODULE VoleCommit -----------------------------
(***************************************************************************)
(* vole_commit and vole_reconstruct (vole_commit.c): the loops that hash the  *)
(* hashed leaves of all the vectors and turn the vectors, one after another,  *)
(* into the columns of one vole correlation q = v + delta u.                 *)
(*                                                                         *)
(* What vole_sender and vole_receiver make of one vector is SmallVole. Here a *)
(* block is again named by the set of what adds up to it: column b and the u   *)
(* of the vector whose leaves start at p are <<"v", p, b>> and <<"u", p>>.    *)
(***************************************************************************)
EXTENDS Integers, Sequences

CONSTANTS
  SECURITY_PARAM,            \* columns of the correlation
  ZERO_BITS_IN_CHALLENGE_3,  \* of which the last ones are unused
  BITS_PER_WITNESS           \* vectors

NONZERO_BITS_IN_CHALLENGE_3 == SECURITY_PARAM - ZERO_BITS_IN_CHALLENGE_3

ASSUME ParamsAssumption ==
  /\ SECURITY_PARAM \in Nat /\ ZERO_BITS_IN_CHALLENGE_3 \in Nat
  /\ BITS_PER_WITNESS \in Nat \ {0}
  /\ BITS_PER_WITNESS <= NONZERO_BITS_IN_CHALLENGE_3

VOLE_MIN_K  == NONZERO_BITS_IN_CHALLENGE_3 \div BITS_PER_WITNESS
VOLE_MAX_K  == (NONZERO_BITS_IN_CHALLENGE_3 + BITS_PER_WITNESS - 1) \div BITS_PER_WITNESS
VOLES_MIN_K == BITS_PER_WITNESS - (NONZERO_BITS_IN_CHALLENGE_3 % BITS_PER_WITNESS)
VOLES_MAX_K == NONZERO_BITS_IN_CHALLENGE_3 % BITS_PER_WITNESS

Vec    == 0 .. BITS_PER_WITNESS - 1
Column == 0 .. SECURITY_PARAM - 1

K(n) == IF n < VOLES_MAX_K THEN VOLE_MAX_K ELSE VOLE_MIN_K

(* Where the vectors are: the leaves of vector n in the arrays of leaves, and  *)
(* its bits of delta, which are also the columns it fills.                   *)
FirstLeaf(n) ==
  IF n <= VOLES_MAX_K THEN n * 2 ^ VOLE_MAX_K
  ELSE VOLES_MAX_K * 2 ^ VOLE_MAX_K + (n - VOLES_MAX_K) * 2 ^ VOLE_MIN_K

FirstBit(n) ==
  IF n <= VOLES_MAX_K THEN n * VOLE_MAX_K
  ELSE VOLES_MAX_K * VOLE_MAX_K + (n - VOLES_MAX_K) * VOLE_MIN_K

Plus(a, b) == (a \ b) \cup (b \ a)

VARIABLES
  delta,        \* the bits of the challenge that are set
  i,            \* the vector, in all the loops
  hashed_leaves, hashed,   \* pointer of hash_hashed_leaves; vectors hashed so far
  rest,         \* hashing the vectors that do not make a group of four
  leaves_iter,  \* pointer into the leaves
  col,          \* pointer into the columns v or q
  bit,          \* pointer into delta_bytes
  u, v, q,
  commitment,   \* corrections, in the order sent
  pc

vars == <<delta, i, hashed_leaves, hashed, rest, leaves_iter, col, bit, u, v, q,
          commitment, pc>>

hashVars == <<i, hashed_leaves, hashed, rest>>
voleVars == <<leaves_iter, col, bit, u, v, q, commitment>>

Garbage == [x \in Column |-> {<<"garbage", x>>}]

Init ==
  /\ delta \in SUBSET (0 .. NONZERO_BITS_IN_CHALLENGE_3 - 1)
  /\ i = 0 /\ hashed_leaves = 0 /\ hashed = <<>> /\ rest = FALSE
  /\ leaves_iter = 0 /\ col = 0 /\ bit = 0
  /\ u = {} /\ v = Garbage /\ q = Garbage
  /\ commitment = <<>>
  /\ pc = "hash_max"

---------------------------------------------------------------------------
(* hash_hashed_leaves: first the vectors of VOLE_MAX_K bits, then the others. *)
Hashing == pc \in {"hash_max", "hash_min", "rehash_max", "rehash_min"}
Long    == pc \in {"hash_max", "rehash_max"}

NumTrees  == IF Long THEN VOLES_MAX_K ELSE VOLES_MIN_K
NumLeaves == IF Long THEN 2 ^ VOLE_MAX_K ELSE 2 ^ VOLE_MIN_K

Ran(n) == [t \in 1 .. n |-> hashed_leaves + (t - 1) * NumLeaves]

(* Four at a time, in one call of the four-way hash.                         *)
HashFour ==
  /\ Hashing /\ ~rest
  /\ i + 4 <= NumTrees
  /\ hashed' = hashed \o Ran(4)
  /\ hashed_leaves' = hashed_leaves + 4 * NumLeaves
  /\ i' = i + 4
  /\ UNCHANGED <<delta, rest, voleVars, pc>>

(* A second loop that starts from the first vector again.                    *)
FirstOfRest_Zero == 0

(* The vectors that do not make a group of four.                             *)
FirstOfRest == NumTrees - (NumTrees % 4)

EndFours ==
  /\ Hashing /\ ~rest
  /\ i + 4 > NumTrees
  /\ i' = FirstOfRest
  /\ rest' = TRUE
  /\ UNCHANGED <<delta, hashed_leaves, hashed, voleVars, pc>>

HashOne ==
  /\ Hashing /\ rest
  /\ i < NumTrees
  /\ hashed' = hashed \o Ran(1)
  /\ hashed_leaves' = hashed_leaves + NumLeaves
  /\ i' = i + 1
  /\ UNCHANGED <<delta, rest, voleVars, pc>>

(* The pointer is worked out again for the vectors of VOLE_MIN_K bits.        *)
Hashed ==
  /\ Hashing /\ rest
  /\ i >= NumTrees
  /\ i' = 0
  /\ rest' = FALSE
  /\ hashed_leaves' = VOLES_MAX_K * 2 ^ VOLE_MAX_K
  /\ pc' = CASE pc = "hash_max"   -> "hash_min"
             [] pc = "hash_min"   -> "send"
             [] pc = "rehash_max" -> "rehash_min"
             [] pc = "rehash_min" -> "receive"
  /\ UNCHANGED <<delta, hashed, voleVars>>

---------------------------------------------------------------------------
U(p)       == {<<"u", p>>}
V(p, b)    == {<<"v", p, b>>}
Corr(p)    == Plus(u, U(p))

(* A vole written to the k columns from col on.                              *)
Written(columns, k, value) ==
  [x \in Column |-> IF x \in col .. col + k - 1 THEN value[x - col] ELSE columns[x]]

(* vole_sender for the first vector, whose u is as it comes, and for the      *)
(* others, which are corrected to that u.                                    *)
Send ==
  /\ pc = "send"
  /\ i < BITS_PER_WITNESS
  /\ v' = Written(v, K(i), [b \in 0 .. K(i) - 1 |-> V(leaves_iter, b)])
  /\ IF i = 0
     THEN /\ u' = U(leaves_iter)
          /\ UNCHANGED commitment
     ELSE /\ commitment' = Append(commitment, Corr(leaves_iter))
          /\ UNCHANGED u
  /\ leaves_iter' = leaves_iter + 2 ^ K(i)
  /\ col' = col + K(i)
  /\ i' = i + 1
  /\ UNCHANGED <<delta, hashed_leaves, hashed, rest, bit, q, pc>>

(* The unused columns, after the last of the vectors'.                       *)
Cleared(columns) ==
  [x \in Column |-> IF x \in col .. col + ZERO_BITS_IN_CHALLENGE_3 - 1 THEN {}
                    ELSE columns[x]]

(* vole_commit returns; vole_reconstruct is called and the vectors verified.  *)
Commit ==
  /\ pc = "send"
  /\ i = BITS_PER_WITNESS
  /\ v' = Cleared(v)
  /\ i' = 0 /\ hashed_leaves' = 0 /\ hashed' = <<>>
  /\ leaves_iter' = 0 /\ col' = 0 /\ bit' = 0
  /\ pc' = "rehash_max"
  /\ UNCHANGED <<delta, rest, u, q, commitment>>

Delta(b) == b \in delta
Times(d, a) == IF d THEN a ELSE {}

(* The 2^k leaves at p are those of one vector, opened at all indices but the  *)
(* one that the k bits of delta from d on give.                              *)
Opened(p, k, d) ==
  \E n \in Vec :
    /\ FirstLeaf(n) = p
    /\ K(n) = k
    /\ \A x \in 0 .. k - 1 : Delta(d + x) <=> Delta(FirstBit(n) + x)

(* Column b of the vole of such a receiver, with this correction.            *)
Received(p, k, d, b, corr) ==
  IF Opened(p, k, d) THEN Plus(V(p, b), Times(Delta(d + b), Plus(U(p), corr)))
                     ELSE {<<"garbage", p>>}

(* The last correction used again.                                           *)
CorrectionOf_Previous(n) == IF n <= 1 THEN {} ELSE commitment[n - 1]

CorrectionOf(n) == IF n = 0 THEN {} ELSE commitment[n]

Receive ==
  /\ pc = "receive"
  /\ i < BITS_PER_WITNESS
  /\ q' = Written(q, K(i), [b \in 0 .. K(i) - 1 |->
                               Received(leaves_iter, K(i), bit, b, CorrectionOf(i))])
  /\ leaves_iter' = leaves_iter + 2 ^ K(i)
  /\ col' = col + K(i)
  /\ bit' = bit + K(i)
  /\ i' = i + 1
  /\ UNCHANGED <<delta, hashed_leaves, hashed, rest, u, v, commitment, pc>>

Reconstruct ==
  /\ pc = "receive"
  /\ i = BITS_PER_WITNESS
  /\ q' = Cleared(q)
  /\ pc' = "done"
  /\ UNCHANGED <<delta, hashVars, leaves_iter, col, bit, u, v, commitment>>

Next == HashFour \/ EndFours \/ HashOne \/ Hashed \/ Send \/ Commit \/ Receive
          \/ Reconstruct

Spec == Init /\ [][Next]_vars

---------------------------------------------------------------------------
(* The pointers stay in their arrays.                                        *)
TypeOK ==
  /\ delta \subseteq 0 .. NONZERO_BITS_IN_CHALLENGE_3 - 1
  /\ i \in 0 .. BITS_PER_WITNESS /\ rest \in BOOLEAN
  /\ {hashed_leaves, leaves_iter} \subseteq 0 .. FirstLeaf(BITS_PER_WITNESS)
  /\ {col, bit} \subseteq 0 .. NONZERO_BITS_IN_CHALLENGE_3
  /\ DOMAIN v = Column /\ DOMAIN q = Column
  /\ Len(commitment) < BITS_PER_WITNESS
  /\ pc \in {"hash_max", "hash_min", "send", "rehash_max", "rehash_min", "receive",
             "done"}

(* Grouped by four or not, signer and verifier hash every vector once, in the *)
(* same order, from its own first leaf (vole_commit.c:9-53).                  *)
HashedOnce ==
  pc \in {"send", "receive", "done"} =>
    hashed = [n \in 1 .. BITS_PER_WITNESS |-> FirstLeaf(n - 1)]

(* One correlation in all the columns: q = v + delta u with the u of the      *)
(* first vector, each column v of its own, none left unwritten, and nothing   *)
(* in the unused columns (vole_commit.c:77-95 and 127-150).                  *)
Correlation ==
  pc = "done" =>
    /\ u = U(FirstLeaf(0))
    /\ \A n \in Vec : \A b \in 0 .. K(n) - 1 : v[FirstBit(n) + b] = V(FirstLeaf(n), b)
    /\ \A x \in Column :
         IF x < NONZERO_BITS_IN_CHALLENGE_3
         THEN q[x] = Plus(v[x], Times(Delta(x), u))
         ELSE v[x] = {} /\ q[x] = {}
============================================================================

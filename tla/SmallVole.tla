----------------------------- MODULE SmallVole -----------------------------
(***************************************************************************)
(* vole_sender and vole_receiver (small_vole.c): from 2^k keys the sender     *)
(* gets u and one column v per index bit, the receiver, who misses the key    *)
(* of index delta, gets the columns q.                                        *)
(*                                                                         *)
(* Everything is linear over GF(2), so a block is named by the set of the     *)
(* things that add up to it: the output of the PRG of an index, or U, the     *)
(* chosen u. The blocks of a column are all treated alike: one is modelled.   *)
(***************************************************************************)
EXTENDS PowersOfTwo

CONSTANTS
  VOLE_WIDTH_SHIFT,   \* log2 of the keys processed at once
  VOLE_MAX_K,         \* index bits of the longest vector
  K,                  \* the values of k tried: VOLE_MIN_K and VOLE_MAX_K
  XorIndex(_, _)      \* bitwise exclusive or of two indices

ASSUME SmallVoleAssumption ==
  /\ VOLE_WIDTH_SHIFT \in Nat
  /\ VOLE_MAX_K \in Nat \ {0}
  /\ K \subseteq {k \in 1 .. VOLE_MAX_K : k >= VOLE_WIDTH_SHIFT}

VOLE_WIDTH == Pow2[VOLE_WIDTH_SHIFT]

U == -1

Index(k) == 0 .. Pow2[k] - 1

ASSUME XorAssumption ==
  \A x, y \in Index(VOLE_MAX_K) :
    /\ XorIndex(x, y) \in Index(VOLE_MAX_K)
    /\ \A b \in 0 .. VOLE_MAX_K - 1 : Bit(XorIndex(x, y), b) <=> (Bit(x, b) # Bit(y, b))

(* The chunk number becomes Gray's code, the position in the chunk stays.    *)
vole_permute_key_index(n) == XorIndex(n, n \div 2 - ((n \div 2) % VOLE_WIDTH))

Block    == SUBSET ({U} \cup Index(VOLE_MAX_K))
Plus(a, b) == (a \ b) \cup (b \ a)

VARIABLES
  k, delta,     \* the vector's index bits and the index the receiver misses
  chosen,       \* u is chosen, and a correction sent; or u is as it comes
  i,            \* the first key of the next chunk
  accum,        \* sum of the whole chunks so far
  vq,           \* the columns being summed
  u, c, v,      \* what the sender got
  pc

vars == <<k, delta, chosen, i, accum, vq, u, c, v, pc>>

(* The caller permutes the keys, and for the receiver exchanges them by delta. *)
SenderKey   == [n \in Index(k) |-> {vole_permute_key_index(n)}]
ReceiverKey == [n \in Index(k) |-> {XorIndex(vole_permute_key_index(n), delta)}]

Chunk(keys) == [p \in 0 .. VOLE_WIDTH - 1 |-> keys[i + p]]

(* The first chunk of the receiver: the key of index delta is a dummy.       *)
FirstChunk == [Chunk(ReceiverKey) EXCEPT ![0] = {}]

(* One stage of xor_reduce with the two halves exchanged.                    *)
ReduceStage_Swapped(in, s) ==
  [p \in DOMAIN in |->
     LET d == p % Pow2[s + 1]
     IN CASE d <= s     -> Plus(in[p], in[p + Pow2[s]])
          [] d = s + 1  -> in[p - d]
          [] OTHER      -> in[p]]

(* Stage s of xor_reduce: in every group of 2^(s+1) blocks the two halves,     *)
(* s+1 blocks each, are added up, and the sum of the upper half is kept next   *)
(* to them as the column of bit s.                                           *)
ReduceStage(in, s) ==
  [p \in DOMAIN in |->
     LET d == p % Pow2[s + 1]
     IN CASE d <= s     -> Plus(in[p], in[p + Pow2[s]])
          [] d = s + 1  -> in[p - d + Pow2[s]]
          [] OTHER      -> in[p]]

xor_reduce(in) ==
  LET reduced[s \in 0 .. VOLE_WIDTH_SHIFT] ==
        IF s = 0 THEN in ELSE ReduceStage(reduced[s - 1], s - 1)
  IN reduced[VOLE_WIDTH_SHIFT]

(* The column taken from the chunk just done instead of the next one.        *)
OutputCol_ThisChunk ==
  CHOOSE b \in 0 .. k - 1 :
    /\ Bit(i, b) \/ b = k - 1
    /\ \A low \in 0 .. b - 1 : ~Bit(i, low)

(* The bit of Gray's code that changes after this chunk; k-1 after the last. *)
OutputCol ==
  CHOOSE b \in 0 .. k - 1 :
    /\ Bit(i + VOLE_WIDTH, b) \/ b = k - 1
    /\ \A low \in 0 .. b - 1 : ~Bit(i + VOLE_WIDTH, low)

(* process_prg_output: the low columns from the chunk alone, one high column  *)
(* from everything so far. The receiver's first chunk is not accumulated.     *)
AddChunk(chunk, whole) ==
  LET sum == xor_reduce(chunk)
      low == [col \in DOMAIN vq |->
                IF col < VOLE_WIDTH_SHIFT THEN Plus(vq[col], sum[col + 1]) ELSE vq[col]]
  IN IF whole
     THEN /\ accum' = Plus(accum, sum[0])
          /\ vq' = [low EXCEPT ![OutputCol] = Plus(@, accum')]
     ELSE /\ vq' = low
          /\ UNCHANGED accum

Zero == [col \in 0 .. k - 1 |-> {}]

Init ==
  /\ k \in K
  /\ delta \in Index(k)
  /\ chosen \in BOOLEAN
  /\ i = 0
  /\ accum = {}
  /\ vq = Zero
  /\ u = {} /\ c = {} /\ v = Zero
  /\ pc = "sender"

SenderChunk ==
  /\ pc = "sender"
  /\ i < Pow2[k]
  /\ AddChunk(Chunk(SenderKey), TRUE)
  /\ i' = i + VOLE_WIDTH
  /\ UNCHANGED <<k, delta, chosen, u, c, v, pc>>

(* The receiver starting from the correction without looking at delta.       *)
Corrected_Always(corr) == [col \in 0 .. k - 1 |-> corr]

(* The columns the receiver starts from: the correction where delta has a 1.  *)
Corrected(corr) ==
  [col \in 0 .. k - 1 |-> IF chosen /\ Bit(delta, col) THEN corr ELSE {}]

(* The sender's u and correction, and the call of the receiver.              *)
SenderReturn ==
  /\ pc = "sender"
  /\ i = Pow2[k]
  /\ v' = vq
  /\ u' = IF chosen THEN {U} ELSE accum
  /\ c' = IF chosen THEN Plus({U}, accum) ELSE {}
  /\ i' = 0
  /\ accum' = {}
  /\ vq' = Corrected(c')
  /\ pc' = "first"
  /\ UNCHANGED <<k, delta, chosen>>

ReceiverFirst ==
  /\ pc = "first"
  /\ AddChunk(FirstChunk, FALSE)
  /\ i' = VOLE_WIDTH
  /\ pc' = "receiver"
  /\ UNCHANGED <<k, delta, chosen, u, c, v>>

ReceiverChunk ==
  /\ pc = "receiver"
  /\ i < Pow2[k]
  /\ AddChunk(Chunk(ReceiverKey), TRUE)
  /\ i' = i + VOLE_WIDTH
  /\ UNCHANGED <<k, delta, chosen, u, c, v, pc>>

ReceiverReturn ==
  /\ pc = "receiver"
  /\ i = Pow2[k]
  /\ pc' = "done"
  /\ UNCHANGED <<k, delta, chosen, i, accum, vq, u, c, v>>

Next == SenderChunk \/ SenderReturn \/ ReceiverFirst \/ ReceiverChunk \/ ReceiverReturn

Spec == Init /\ [][Next]_vars

---------------------------------------------------------------------------
(* The indices stay inside the vector and the sums are sums of its keys.     *)
TypeOK ==
  /\ k \in K /\ delta \in Index(k) /\ chosen \in BOOLEAN
  /\ i \in 0 .. Pow2[k]
  /\ {accum, u, c} \subseteq Block
  /\ vq \in [0 .. k - 1 -> Block] /\ v \in [0 .. k - 1 -> Block]
  /\ pc \in {"sender", "first", "receiver", "done"}

(* The two ways of adding up, divide and conquer inside a chunk and Gray's     *)
(* code from chunk to chunk, together give the syndrome of the Hamming code:  *)
(* column b of the sender is the sum of the keys whose index has bit b set    *)
(* (small_vole.c:11-17), for the keys in the permuted order.                 *)
ColumnsAreBits ==
  pc # "sender" =>
    /\ \A b \in 0 .. k - 1 : v[b] = {x \in Index(k) : Bit(x, b)}
    /\ Plus(u, c) = Index(k)

(* q = v + delta u, although the receiver never touches the key of delta and  *)
(* leaves its first chunk out of the accumulator (small_vole.c:106-129).      *)
VoleCorrelation ==
  pc = "done" =>
    \A b \in 0 .. k - 1 : vq[b] = IF Bit(delta, b) THEN Plus(v[b], u) ELSE v[b]
============================================================================

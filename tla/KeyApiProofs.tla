---------------------------- MODULE KeyApiProofs ----------------------------
(***************************************************************************)
(* The interface for every size of signature, key, seed, memory and        *)
(* message, every placement of the buffers in memory, and every failure of *)
(* the random source.                                                      *)
(***************************************************************************)
EXTENDS KeyApi, TLAPS

(* Cells and Stored of any memory, to speak of them after a step.          *)
At(mem, from, n) == [k \in 1 .. n |-> mem[from + k - 1]]
Put(mem, from, bytes) ==
    [a \in 1 .. MemorySize |->
        IF a \in from .. from + Len(bytes) - 1 THEN bytes[a - from + 1] ELSE mem[a]]

LEMMA AtLength ==
  ASSUME NEW mem, NEW from \in Nat, NEW n \in Nat
  PROVE  Len(At(mem, from, n)) = n /\ DOMAIN At(mem, from, n) = 1 .. n
<1> DEFINE S == {mem[a] : a \in Int}
<1>1. At(mem, from, n) \in [1 .. n -> S]
  BY DEF At
<1>2. At(mem, from, n) \in Seq(S)
  BY <1>1
<1> QED BY <1>1, <1>2 DEF At

(* What is put somewhere is found there.                                   *)
LEMMA PutThere ==
  ASSUME NEW mem, NEW from \in Nat \ {0}, NEW bytes, NEW n \in Nat,
         Len(bytes) = n, bytes = [k \in 1 .. n |-> bytes[k]],
         from + n - 1 <= MemorySize, MemorySize \in Int
  PROVE  At(Put(mem, from, bytes), from, n) = bytes
<1>1. \A k \in 1 .. n : Put(mem, from, bytes)[from + k - 1] = bytes[k]
  BY DEF Put
<1> QED BY <1>1 DEF At

(* What is read from a place that does not meet it is as before.           *)
LEMMA PutElsewhere ==
  ASSUME NEW mem, NEW from \in Nat, NEW bytes, NEW p \in Nat \ {0}, NEW n \in Nat,
         Len(bytes) \in Nat, p + n - 1 <= MemorySize, MemorySize \in Int,
         p + n <= from
  PROVE  At(Put(mem, from, bytes), p, n) = At(mem, p, n)
<1>1. \A k \in 1 .. n : Put(mem, from, bytes)[p + k - 1] = mem[p + k - 1]
  BY DEF Put
<1> QED BY <1>1 DEF At

LEMMA SignatureLength ==
  ASSUME NEW key, NEW msg
  PROVE  /\ Len(Signature(key, msg)) = FAEST_SIGNATURE_BYTES
         /\ Signature(key, msg) = [k \in 1 .. FAEST_SIGNATURE_BYTES |-> Signature(key, msg)[k]]
<1> DEFINE S == {<<"piece", key, msg, k>> : k \in Nat}
<1>1. FAEST_SIGNATURE_BYTES \in Nat
  BY ApiAssumption
<1>2. Signature(key, msg) \in [1 .. FAEST_SIGNATURE_BYTES -> S]
  BY <1>1 DEF Signature
<1>3. Signature(key, msg) \in Seq(S)
  BY <1>1, <1>2
<1> QED BY <1>1, <1>2, <1>3

(* A byte changed anywhere in a signed message, in the message or in the   *)
(* signature, leaves one that is not signed.                               *)
LEMMA AlteredIsUnsigned ==
  ASSUME NEW mem, DOMAIN mem = 1 .. MemorySize, MemorySize \in Int,
         NEW from \in Nat \ {0}, NEW n \in Nat, NEW key,
         from + n + FAEST_SIGNATURE_BYTES - 1 <= MemorySize,
         At(mem, from + n, FAEST_SIGNATURE_BYTES) = Signature(key, At(mem, from, n)),
         NEW a \in from .. from + n + FAEST_SIGNATURE_BYTES - 1, NEW b, b # mem[a],
         NEW new, new = [mem EXCEPT ![a] = b]
  PROVE  At(new, from + n, FAEST_SIGNATURE_BYTES) # Signature(key, At(new, from, n))
<1>1. FAEST_SIGNATURE_BYTES \in Nat \ {0}
  BY ApiAssumption
<1>2. new[a] = b /\ \A c \in 1 .. MemorySize : c # a => new[c] = mem[c]
  BY <1>1
<1>3. SUFFICES ASSUME At(new, from + n, FAEST_SIGNATURE_BYTES) = Signature(key, At(new, from, n))
               PROVE  FALSE
  OBVIOUS
<1>4. CASE a < from + n
  <2>1. At(new, from, n)[a - from + 1] = b /\ At(mem, from, n)[a - from + 1] = mem[a]
    BY <1>2, <1>4 DEF At
  <2>2. new[from + n] = mem[from + n]
    BY <1>1, <1>2, <1>4
  <2>3. At(new, from + n, FAEST_SIGNATURE_BYTES)[1] = new[from + n]
    BY <1>1 DEF At
  <2>4. At(mem, from + n, FAEST_SIGNATURE_BYTES)[1] = mem[from + n]
    BY <1>1 DEF At
  <2> DEFINE First(msg) == Signature(key, msg)[1]
  <2> HIDE DEF First
  <2>5. <<"piece", key, At(new, from, n), 1>> = <<"piece", key, At(mem, from, n), 1>>
    <3>1. \A msg : First(msg) = <<"piece", key, msg, 1>>
      BY <1>1 DEF Signature, First
    <3>2. First(At(new, from, n)) = First(At(mem, from, n))
      BY <1>3, <2>2, <2>3, <2>4 DEF First
    <3> QED BY <3>1, <3>2
  <2>6. \A x, y : <<"piece", key, x, 1>> = <<"piece", key, y, 1>> => x = y
    OBVIOUS
  <2>7. At(new, from, n) = At(mem, from, n)
    BY ONLY <2>5, <2>6
  <2> QED BY <2>1, <2>7
<1>5. CASE a >= from + n
  <2>1. At(new, from, n) = At(mem, from, n)
    BY <1>1, <1>2, <1>5 DEF At
  <2>2. At(new, from + n, FAEST_SIGNATURE_BYTES) = At(mem, from + n, FAEST_SIGNATURE_BYTES)
    BY <1>3, <2>1
  <2>3. /\ At(new, from + n, FAEST_SIGNATURE_BYTES)[a - from - n + 1] = b
        /\ At(mem, from + n, FAEST_SIGNATURE_BYTES)[a - from - n + 1] = mem[a]
    BY <1>1, <1>2, <1>5 DEF At
  <2> QED BY <2>2, <2>3
<1> QED BY <1>4, <1>5

-------------------------------------------------------------------------------
(* A call of rand_bytes writes its buffer from the start and has the       *)
(* device open only between opening it and returning.                      *)
RandomInv ==
  /\ len \in Nat /\ filled \in Nat /\ filled <= len
  /\ at \in {"idle", "getrandom", "open", "openFailed", "returned"} => fd = "closed"
  /\ RandomnessDone

LEMMA RandomStep ==
  ASSUME RandomInv, RandomNext
  PROVE  RandomInv'
<1> USE DEF RandomInv, RandomnessDone, Returns
<1>1. CASE Getrandom
  BY <1>1 DEF Getrandom
<1>2. CASE Open
  BY <1>2 DEF Open
<1>3. CASE OpenFails
  BY <1>3 DEF OpenFails
<1>4. CASE OpenAgain
  BY <1>4 DEF OpenAgain
<1>5. CASE Ioctl
  BY <1>5 DEF Ioctl
<1>6. CASE Read
  BY <1>6 DEF Read
<1>7. CASE ReadFails
  BY <1>7 DEF ReadFails
<1>8. CASE ReadAgain
  BY <1>8 DEF ReadAgain
<1>9. CASE ReadAll
  BY <1>9 DEF ReadAll
<1> QED BY <1>1, <1>2, <1>3, <1>4, <1>5, <1>6, <1>7, <1>8, <1>9 DEF RandomNext

LEMMA RandomInvariant == Spec => []RandomInv
<1>1. ApiInit => RandomInv
  BY DEF ApiInit, RandomInit, RandomInv, RandomnessDone
<1>2. RandomInv /\ [Next]_vars => RandomInv'
  <2> SUFFICES ASSUME RandomInv, [Next]_vars
               PROVE  RandomInv'
    OBVIOUS
  <2>1. CASE RandomNext
    BY <2>1, RandomStep
  <2>2. CASE crypto_sign_keypair \/ crypto_sign
    BY <2>2, ApiAssumption DEF RandomInv, RandomnessDone, crypto_sign_keypair, crypto_sign, rand_bytes
  <2>3. CASE KeypairSeeded \/ SignSeeded \/ Deliver \/ crypto_sign_open \/ UNCHANGED vars
    BY <2>3 DEF RandomInv, RandomnessDone, KeypairSeeded, SignSeeded, Deliver, crypto_sign_open, vars, randomVars
  <2> QED BY <2>1, <2>2, <2>3 DEF Next, ApiNext
<1> QED BY <1>1, <1>2, PTL DEF Spec

(* RandomnessDone: however often rand_bytes is interrupted, and whatever   *)
(* the system gives, success means that the whole buffer was written, and  *)
(* the device is closed when it returns (randomness_os.c 31-37, 74-112).   *)
THEOREM RandomBytesDone == Spec => []RandomnessDone
<1>1. RandomInv => RandomnessDone
  BY DEF RandomInv
<1> QED BY <1>1, RandomInvariant, PTL

-------------------------------------------------------------------------------
(* From the call that signs to the one that opens, the signed message is   *)
(* that of message, or has been altered and is none.                       *)
Fits(from, n) == from \in Nat \ {0} /\ n \in Nat /\ from + n - 1 <= MemorySize

SignedAt(n) == At(memory, sm + n, FAEST_SIGNATURE_BYTES) = Signature(sk, At(memory, sm, n))

BeforeDelivery == {"keypair", "keySeed", "sign", "signSeed", "signed"}

ApiInv ==
  /\ DOMAIN memory = 1 .. MemorySize
  /\ altered \in BOOLEAN
  /\ mlen \in Nat
  /\ call \in BeforeDelivery =>
       altered = FALSE /\ Fits(sm, mlen + FAEST_SIGNATURE_BYTES) /\ Fits(m, mlen)
  /\ call \notin {"keypair", "keySeed"} => pk.of = sk
  /\ call \in {"signSeed", "signed"} =>
       /\ smlen = mlen + FAEST_SIGNATURE_BYTES
       /\ Len(message) = mlen
       /\ At(memory, sm, mlen) = message
  /\ call = "signed" => SignedAt(mlen)
  /\ call = "open" =>
       /\ Len(message) \in Nat
       /\ smlen = Len(message) + FAEST_SIGNATURE_BYTES
       /\ Fits(sm, smlen) /\ Fits(m, Len(message))
       /\ altered = FALSE => At(memory, sm, Len(message)) = message /\ SignedAt(Len(message))
       /\ altered = TRUE => ~SignedAt(Len(message))
  /\ OpenReturnsMessage

LEMMA Sizes ==
  /\ FAEST_SIGNATURE_BYTES \in Nat \ {0}
  /\ MaxLength \in Nat /\ MemorySize \in Nat
BY ApiAssumption

LEMMA ApiStart ==
  ASSUME ApiInit
  PROVE  ApiInv
<1> USE Sizes DEF ApiInit
<1>1. DOMAIN memory = 1 .. MemorySize /\ altered \in BOOLEAN /\ mlen \in Nat
  <2>1. memory \in [1 .. MemorySize -> Bytes]
    OBVIOUS
  <2>2. DOMAIN memory = 1 .. MemorySize
    BY ONLY <2>1
  <2>3. mlen \in Nat
    OBVIOUS
  <2> QED BY <2>2, <2>3
<1>2. altered = FALSE /\ Fits(sm, mlen + FAEST_SIGNATURE_BYTES) /\ Fits(m, mlen)
  BY DEF Fits
<1> QED BY <1>1, <1>2 DEF ApiInv, OpenReturnsMessage

LEMMA ApiStep ==
  ASSUME ApiInv, [Next]_vars
  PROVE  ApiInv'
<1> USE Sizes
<1>1. CASE (RandomNext /\ UNCHANGED apiVars) \/ UNCHANGED vars
  <2>1. UNCHANGED apiVars
    BY <1>1 DEF vars
  <2>2. OpenReturnsMessage' = OpenReturnsMessage
    BY <2>1 DEF OpenReturnsMessage, Cells, apiVars
  <2>3. ASSUME NEW n PROVE SignedAt(n)' = SignedAt(n)
    BY <2>1 DEF SignedAt, At, Signature, apiVars
  <2> QED BY <2>1, <2>2, <2>3 DEF ApiInv, Fits, apiVars
<1>2. CASE crypto_sign_keypair
  BY <1>2 DEF crypto_sign_keypair, ApiInv, BeforeDelivery, Fits, OpenReturnsMessage
<1>3. CASE KeypairSeeded
  <2>1. pk'.of = sk'
    BY <1>3 DEF KeypairSeeded
  <2> QED BY <1>3, <2>1 DEF KeypairSeeded, ApiInv, BeforeDelivery, Fits, OpenReturnsMessage
<1>4. CASE crypto_sign
  <2> DEFINE bytes == At(memory, m, mlen)
  <2>1. /\ Fits(sm, mlen + FAEST_SIGNATURE_BYTES) /\ Fits(m, mlen) /\ mlen \in Nat
        /\ call = "sign" /\ call' = "signSeed" /\ UNCHANGED <<sm, m, mlen, sk, pk, altered, result>>
        /\ smlen' = mlen + FAEST_SIGNATURE_BYTES
    BY <1>4 DEF crypto_sign, ApiInv, BeforeDelivery
  <2>2. message' = bytes /\ memory' = Put(memory, sm, bytes)
    BY <1>4 DEF crypto_sign, Cells, Stored, At, Put
  <2>3. Len(bytes) = mlen /\ bytes = [k \in 1 .. mlen |-> bytes[k]]
    BY <2>1, AtLength DEF Fits, At
  <2>4. At(memory', sm, mlen) = bytes
    <3> HIDE DEF bytes
    <3> QED BY <2>1, <2>2, <2>3, PutThere, SMTT(30) DEF Fits
  <2>5. DOMAIN memory' = 1 .. MemorySize
    BY <2>2 DEF Put
  <2> HIDE DEF bytes
  <2> QED BY <2>1, <2>2, <2>3, <2>4, <2>5 DEF ApiInv, BeforeDelivery, Fits, OpenReturnsMessage
<1>5. CASE SignSeeded
  <2> DEFINE sig == Signature(sk, message)
  <2>1. /\ Fits(sm, mlen + FAEST_SIGNATURE_BYTES) /\ Fits(m, mlen) /\ mlen \in Nat
        /\ call = "signSeed" /\ call' = "signed"
        /\ UNCHANGED <<sm, m, mlen, smlen, sk, pk, message, altered, result>>
        /\ At(memory, sm, mlen) = message
    BY <1>5 DEF SignSeeded, ApiInv, BeforeDelivery
  <2>2. memory' = Put(memory, sm + mlen, sig)
    BY <1>5, <2>1 DEF SignSeeded, Cells, Stored, At, Put
  <2>3. Len(sig) = FAEST_SIGNATURE_BYTES /\ sig = [k \in 1 .. FAEST_SIGNATURE_BYTES |-> sig[k]]
    BY SignatureLength
  <2> HIDE DEF sig
  <2> DEFINE from == sm + mlen
  <2>8. /\ from \in Nat \ {0} /\ from + FAEST_SIGNATURE_BYTES - 1 <= MemorySize
        /\ sm \in Nat \ {0} /\ sm + mlen - 1 <= MemorySize
    BY <2>1 DEF Fits
  <2>4. At(memory', sm + mlen, FAEST_SIGNATURE_BYTES) = sig
    <3> HIDE DEF from
    <3>1. At(Put(memory, from, sig), from, FAEST_SIGNATURE_BYTES) = sig
      BY <2>3, <2>8, PutThere
    <3> QED BY <2>2, <3>1 DEF from
  <2>5. At(memory', sm, mlen) = message
    <3>1. At(Put(memory, from, sig), sm, mlen) = At(memory, sm, mlen)
      BY <2>1, <2>3, <2>8, PutElsewhere
    <3> QED BY <2>1, <2>2, <3>1
  <2>6. DOMAIN memory' = 1 .. MemorySize
    BY <2>2 DEF Put
  <2>7. SignedAt(mlen)'
    BY <2>1, <2>4, <2>5 DEF SignedAt, sig
  <2> QED BY <1>5, <2>1, <2>5, <2>6, <2>7 DEF SignSeeded, ApiInv, BeforeDelivery, Fits, OpenReturnsMessage
<1>6. CASE Deliver
  <2> DEFINE n == Len(message)
  <2>1. /\ n = mlen /\ n \in Nat /\ Fits(sm, smlen) /\ smlen = n + FAEST_SIGNATURE_BYTES
        /\ At(memory, sm, n) = message /\ SignedAt(n) /\ altered = FALSE /\ pk.of = sk
        /\ DOMAIN memory = 1 .. MemorySize
        /\ UNCHANGED <<sm, smlen, sk, pk, message>> /\ call' = "open" /\ mlen' \in Nat
    BY <1>6 DEF Deliver, ApiInv, BeforeDelivery
  <2>2. Fits(m', n)
    <3>1. m' \in 1 .. MemorySize - mlen + 1 /\ m' <= MemorySize - (smlen - FAEST_SIGNATURE_BYTES) + 1
      BY <1>6 DEF Deliver
    <3>2. smlen - FAEST_SIGNATURE_BYTES = n /\ n \in Nat /\ mlen \in Nat /\ MemorySize \in Nat
      BY <2>1, Sizes, ApiAssumption
    <3>4. m' <= MemorySize - n + 1
      BY <3>1, <3>2
    <3> HIDE DEF n
    <3>5. \A k \in 1 .. MemorySize - mlen + 1 : k \in Nat \ {0}
      BY <3>2
    <3>6. m' \in Nat \ {0}
      BY <3>1, <3>5
    <3>7. \A k \in Nat : k <= MemorySize - n + 1 => k + n - 1 <= MemorySize
      BY <3>2
    <3>3. m' \in Nat \ {0} /\ m' + n - 1 <= MemorySize
      BY <3>4, <3>6, <3>7
    <3> QED BY <3>2, <3>3 DEF Fits
  <2>3. CASE UNCHANGED <<memory, altered>>
    <3>1. At(memory', sm', n) = message' /\ SignedAt(n)' /\ altered' = FALSE /\ DOMAIN memory' = 1 .. MemorySize
      BY <2>1, <2>3 DEF SignedAt, At, Signature
    <3> QED BY <2>1, <2>2, <3>1 DEF ApiInv, BeforeDelivery, Fits, OpenReturnsMessage
  <2>4. CASE ~UNCHANGED <<memory, altered>>
    <3>1. PICK a \in sm .. sm + smlen - 1, b \in Bytes :
            altered' = TRUE /\ b # memory[a] /\ memory' = [memory EXCEPT ![a] = b]
      BY <1>6, <2>4 DEF Deliver
    <3>2. At(memory', sm + n, FAEST_SIGNATURE_BYTES) # Signature(sk, At(memory', sm, n))
      <4>1. /\ sm \in Nat \ {0} /\ sm + n + FAEST_SIGNATURE_BYTES - 1 <= MemorySize
            /\ a \in sm .. sm + n + FAEST_SIGNATURE_BYTES - 1
        BY <2>1, <3>1 DEF Fits
      <4>2. At(memory, sm + n, FAEST_SIGNATURE_BYTES) = Signature(sk, At(memory, sm, n))
        BY <2>1 DEF SignedAt
      <4>3. DOMAIN memory = 1 .. MemorySize /\ n \in Nat /\ MemorySize \in Int
        BY <2>1
      <4>4. b # memory[a] /\ memory' = [memory EXCEPT ![a] = b]
        BY <3>1
      <4> HIDE DEF n
      <4> QED BY <4>1, <4>2, <4>3, <4>4, AlteredIsUnsigned
    <3>3. ~SignedAt(n)'
      BY <2>1, <3>2 DEF SignedAt
    <3>4. DOMAIN memory' = 1 .. MemorySize
      BY <2>1, <3>1
    <3> QED BY <2>1, <2>2, <3>1, <3>3, <3>4 DEF ApiInv, BeforeDelivery, Fits, OpenReturnsMessage
  <2> QED BY <2>3, <2>4
<1>7. CASE crypto_sign_open
  <2> DEFINE n == Len(message)
  <2> DEFINE bytes == At(memory, sm, n)
  <2>1. /\ n \in Nat /\ Fits(sm, smlen) /\ Fits(m, n) /\ smlen = n + FAEST_SIGNATURE_BYTES
        /\ altered = FALSE => bytes = message /\ SignedAt(n)
        /\ altered = TRUE => ~SignedAt(n)
        /\ altered \in BOOLEAN /\ pk.of = sk /\ mlen \in Nat /\ DOMAIN memory = 1 .. MemorySize
        /\ call' = "opened" /\ UNCHANGED <<sm, m, smlen, sk, pk, message, altered>>
    BY <1>7 DEF crypto_sign_open, ApiInv, BeforeDelivery
  <2>2. smlen - FAEST_SIGNATURE_BYTES = n
    BY <2>1
  <2>3. IF SignedAt(n)
        THEN mlen' = n /\ memory' = Put(memory, m, bytes) /\ result' = "0"
        ELSE result' = "-1" /\ UNCHANGED <<mlen, memory>>
    BY <1>7, <2>1, <2>2 DEF crypto_sign_open, SignedAt, Cells, Stored, At, Put
  <2>4. Len(bytes) = n /\ bytes = [k \in 1 .. n |-> bytes[k]]
    BY <2>1, AtLength DEF Fits, At
  <2>5. mlen' \in Nat /\ DOMAIN memory' = 1 .. MemorySize
    BY <2>1, <2>3 DEF Put
  <2>6. OpenReturnsMessage'
    <3>1. CASE altered = TRUE
      BY <2>1, <2>3, <3>1 DEF OpenReturnsMessage
    <3>2. CASE altered = FALSE
      <4> HIDE DEF bytes
      <4>1. memory' = Put(memory, m, bytes) /\ mlen' = n /\ result' = "0" /\ bytes = message
        BY <2>1, <2>3, <3>2
      <4>2. At(memory', m, n) = bytes
        BY <2>1, <2>4, <4>1, PutThere DEF Fits
      <4>3. Cells(m, mlen)' = message'
        BY <2>1, <4>1, <4>2 DEF Cells, At
      <4> QED BY <2>1, <3>2, <4>1, <4>3 DEF OpenReturnsMessage
    <3> QED BY <2>1, <3>1, <3>2
  <2> QED BY <2>1, <2>5, <2>6 DEF ApiInv, BeforeDelivery
<1> QED BY <1>1, <1>2, <1>3, <1>4, <1>5, <1>6, <1>7 DEF Next, ApiNext

(* OpenReturnsMessage: what was signed is what is opened, and a signed     *)
(* message that was changed is not opened, wherever the caller has placed  *)
(* the buffers, the message and the signed message over each other         *)
(* included (api.c 41-54, 59-70).                                          *)
THEOREM OpensWhatWasSigned == Spec => []OpenReturnsMessage
<1>1. ApiInv => OpenReturnsMessage
  BY DEF ApiInv
<1> QED BY <1>1, ApiStart, ApiStep, PTL DEF Spec
===============================================================================

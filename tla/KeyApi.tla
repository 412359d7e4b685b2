------------------------------- MODULE KeyApi -------------------------------
(***************************************************************************)
(* The interface of api.c: key pairs, signed messages, and opening them.   *)
(* The caller's buffers are in one memory and may overlap in any way.  A   *)
(* signature is a run of pieces that only the key and the message tell.    *)
(***************************************************************************)
EXTENDS Randomness, Sequences

CONSTANTS
    FAEST_SIGNATURE_BYTES,
    KEY_BYTES,              \* of a secret key, the last with a single bit
    SEED_BYTES,
    TopBytes,               \* what the last byte of the random bytes may be
    Bytes,                  \* of a message
    MemorySize,
    MaxLength               \* of a message

ASSUME ApiAssumption ==
    /\ FAEST_SIGNATURE_BYTES \in Nat \ {0} /\ KEY_BYTES \in Nat \ {0} /\ SEED_BYTES \in Nat \ {0}
    /\ MaxLength \in Nat /\ MemorySize \in Nat /\ MemorySize >= MaxLength + FAEST_SIGNATURE_BYTES
    /\ TopBytes \subseteq Nat

VARIABLES
    call,       \* where the caller is
    memory,     \* cells 1 .. MemorySize
    sm, m,      \* where the signed message and the message are
    mlen,       \* the length of the message, then what opening reports
    smlen,
    sk, pk,
    message,    \* what was signed
    altered,    \* a cell of the signed message was changed on the way
    result      \* of crypto_sign_open

apiVars == <<call, memory, sm, m, mlen, smlen, sk, pk, message, altered, result>>
vars == <<randomVars, apiVars>>

NoKey == [low |-> "none", top |-> 0]
NoPk == [of |-> NoKey]
Cells(from, n) == [k \in 1 .. n |-> memory[from + k - 1]]
Stored(from, bytes) ==
    [a \in 1 .. MemorySize |->
        IF a \in from .. from + Len(bytes) - 1 THEN bytes[a - from + 1] ELSE memory[a]]

ApiInit ==
    /\ RandomInit
    /\ call = "keypair"
    /\ mlen \in 0 .. MaxLength
    /\ memory \in [1 .. MemorySize -> Bytes]
    /\ sm \in 1 .. MemorySize - (mlen + FAEST_SIGNATURE_BYTES) + 1
    /\ m \in 1 .. MemorySize - mlen + 1
    /\ smlen = 0
    /\ sk = NoKey
    /\ pk = NoPk
    /\ message = <<>>
    /\ altered = FALSE
    /\ result = "none"

(* The one-way function gives every key in range its public key: it is     *)
(* never called again.                                                     *)
crypto_sign_keypair ==
    /\ call = "keypair"
    /\ rand_bytes(KEY_BYTES)
    /\ call' = "keySeed"
    /\ UNCHANGED <<memory, sm, m, mlen, smlen, sk, pk, message, altered, result>>

(* Only one bit of the last byte is kept.  Whatever rand_bytes returned is *)
(* ignored, and what it has not written is what was there.                 *)
Masked(byte) == byte % 2
KeypairSeeded ==
    /\ call = "keySeed" /\ at = "returned"
    /\ \E top \in TopBytes :
        /\ sk' = [low |-> IF filled >= KEY_BYTES - 1 THEN "random" ELSE "stale", top |-> Masked(top)]
        /\ pk' = [of |-> sk']
    /\ call' = "sign"
    /\ UNCHANGED <<randomVars, memory, sm, m, mlen, smlen, message, altered, result>>

(* The message is moved to the signed message first, which may be where it *)
(* is already, and signed there.                                           *)
crypto_sign ==
    /\ call = "sign"
    /\ smlen' = mlen + FAEST_SIGNATURE_BYTES
    /\ memory' = Stored(sm, Cells(m, mlen))
    /\ message' = Cells(m, mlen)
    /\ rand_bytes(SEED_BYTES)
    /\ call' = "signSeed"
    /\ UNCHANGED <<sm, m, mlen, sk, pk, altered, result>>

Signature(key, msg) == [k \in 1 .. FAEST_SIGNATURE_BYTES |-> <<"piece", key, msg, k>>]

(* Variant: what is signed is read from where the message was.             *)
SignedInPlace ==
    /\ call = "signSeed" /\ at = "returned"
    /\ memory' = Stored(sm + mlen, Signature(sk, Cells(m, mlen)))
    /\ call' = "signed"
    /\ UNCHANGED <<randomVars, sm, m, mlen, smlen, sk, pk, message, altered, result>>

SignSeeded ==
    /\ call = "signSeed" /\ at = "returned"
    /\ memory' = Stored(sm + mlen, Signature(sk, Cells(sm, mlen)))
    /\ call' = "signed"
    /\ UNCHANGED <<randomVars, sm, m, mlen, smlen, sk, pk, message, altered, result>>

(* The signed message gets to the one who opens it, as it is or with one   *)
(* byte changed; the message goes anywhere, or where it is.                *)
Deliver ==
    /\ call = "signed"
    /\ \/ UNCHANGED <<memory, altered>>
       \/ /\ altered' = TRUE
          /\ \E a \in sm .. sm + smlen - 1, b \in Bytes :
                b # memory[a] /\ memory' = [memory EXCEPT ![a] = b]
    /\ m' \in 1 .. MemorySize - mlen + 1
    /\ mlen' \in 0 .. MaxLength
    /\ m' <= MemorySize - (smlen - FAEST_SIGNATURE_BYTES) + 1
    /\ call' = "open"
    /\ UNCHANGED <<randomVars, sm, smlen, sk, pk, message, result>>

crypto_sign_open ==
    /\ call = "open"
    /\ LET m_length == smlen - FAEST_SIGNATURE_BYTES
           accepted == Cells(sm + m_length, FAEST_SIGNATURE_BYTES) = Signature(pk.of, Cells(sm, m_length))
       IN  IF accepted
           THEN mlen' = m_length /\ memory' = Stored(m, Cells(sm, m_length)) /\ result' = "0"
           ELSE result' = "-1" /\ UNCHANGED <<mlen, memory>>
    /\ call' = "opened"
    /\ UNCHANGED <<randomVars, sm, m, smlen, sk, pk, message, altered>>

ApiNext ==
    \/ crypto_sign_keypair \/ KeypairSeeded \/ crypto_sign \/ SignSeeded \/ Deliver \/ crypto_sign_open
Next == (RandomNext /\ UNCHANGED apiVars) \/ ApiNext
Fairness == RandomFairness /\ WF_vars(ApiNext)
Spec == ApiInit /\ [][Next]_vars /\ Fairness

-------------------------------------------------------------------------------
(* rand_bytes says 0 only when every byte of the buffer has been written,  *)
(* however often it was interrupted and however little a read gave, and    *)
(* whatever fails after the device was opened, its descriptor is closed    *)
(* when it returns (randomness_os.c 31-37, 74-112).                        *)
RandomnessDone == at = "returned" => fd = "closed" /\ (ret = 0 => filled = len)

(* A signed message opens to the message it was made from, of that length, *)
(* wherever the buffers overlap, and a changed one is rejected             *)
(* (api.c 41-54, 59-70).                                                   *)
OpenReturnsMessage ==
    call = "opened" =>
        IF altered THEN result = "-1"
        ELSE result = "0" /\ mlen = Len(message) /\ Cells(m, mlen) = message

(* The calls return: no retry of the random source goes on for ever.       *)
CallsReturn == <>(call = "opened")
===============================================================================

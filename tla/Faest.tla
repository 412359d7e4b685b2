------------------------------- MODULE Faest -------------------------------
(***************************************************************************)
(* faest_sign and faest_verify (faest.c): the Fiat-Shamir transcript around   *)
(* vole_commit, vole_check, quicksilver and force_vector_open, the loop over  *)
(* attempts, and what the signature carries.                                  *)
(*                                                                         *)
(* The value of a proof or a check is a term: its name and what it was        *)
(* computed from. Two terms are equal when the same operation made them from  *)
(* equal inputs. The value of a hash is a name of its own for every input. A  *)
(* proof that does not belong to the commitment, the challenge or the key it   *)
(* is checked with gives the verifier a check value equal to none of the       *)
(* signer's, Bad.                                                            *)
(***************************************************************************)
EXTENDS ForceOpen, Sequences, FiniteSets

CONSTANTS
  Msg,            \* messages
  Key,            \* secret keys; the public key of a key is named like it
  Rand,           \* values of random_seed
  ATTEMPT_RANGE,  \* 2^64
  Outcomes,       \* what hashing may come to in a run: [Counter -> Outcome]
  MAX_SIGNATURES, \* calls of faest_sign in a run
  MAX_REPLACED    \* fields of a signature replaced on the way to the verifier

ASSUME FaestAssumption ==
  /\ ATTEMPT_RANGE \in Nat \ {0}
  /\ MAX_SIGNATURES \in Nat
  /\ Outcomes \subseteq [Counter -> Outcome]

(* COUNTER_BYTES > 0                                                         *)
HasCounter == USE_IMPROVED_VECTOR_COMMITMENTS \/ ZERO_BITS

Bad == <<"bad", <<>>>>

Field ==
  {"commit", "vole_check_proof", "correction", "qs_proof", "opening", "delta", "iv"}
    \cup (IF HasCounter THEN {"counter"} ELSE {})

VARIABLES
  msg, sk, random_seed, attempt_num,  \* the call of faest_sign
  seed_iv,                            \* what the attempt derives all else from
  chal1, chal2, qs_check,
  hashed,                             \* everything hashed, in the order hashed
  ground,                             \* what grinding each chal2 comes to
  signature,                          \* output buffer
  signatures,                         \* signatures returned so far
  sign_pc

signVars == <<msg, sk, random_seed, attempt_num, seed_iv, chal1, chal2, qs_check,
              hashed, ground, signature, signatures, sign_pc>>

VARIABLES
  v_msg, v_pk, v_sig,                 \* the call of faest_verify
  verify_pc

verifyVars == <<v_msg, v_pk, v_sig, verify_pc>>

vars == <<forceVars, signVars, verifyVars>>

---------------------------------------------------------------------------
(* What is hashed.                                                           *)
Mu(pk, m) == <<"mu", pk, m>>

(* A seed that does not depend on the message.                               *)
SeedIv_NoMessage(key, mu, rand, attempt) == <<"seed_iv", key, rand, attempt>>

(* The attempt is hashed only when there can be more than one.               *)
SeedIv(key, mu, rand, attempt) ==
  IF HasCounter THEN <<"seed_iv", key, mu, rand, attempt>>
                ELSE <<"seed_iv", key, mu, rand>>

(* A first challenge that does not hash the message.                         *)
Chal1_NoMessage(mu, check, commitment, iv) == <<"chal1", check, commitment, iv>>

Chal1(mu, check, commitment, iv) == <<"chal1", mu, check, commitment, iv>>
Chal2(c1, proof, check, corr)    == <<"chal2", c1, proof, check, corr>>

(* The last challenge without the counter.                                   *)
Delta_NoCounter(c2, proof, check, count) == <<"delta", c2, proof, check>>

Delta(c2, proof, check, count) ==
  IF HasCounter THEN <<"delta", c2, proof, check, count>>
                ELSE <<"delta", c2, proof, check>>

Count(c) == <<"counter", c>>

(* The hash of an input is the position at which it was first hashed; of an   *)
(* input never hashed by the signer, a value the signer never had.           *)
Hash(inputs, input) ==
  IF \E i \in DOMAIN inputs : inputs[i] = input
  THEN <<"hash", CHOOSE i \in DOMAIN inputs : inputs[i] = input>>
  ELSE <<"fresh", input[1]>>

Add(inputs, input) ==
  IF \E i \in DOMAIN inputs : inputs[i] = input THEN inputs ELSE Append(inputs, input)

(* vole_commit and vector_open, from the seed and the iv derived from s.      *)
Iv(s)             == <<"iv", s>>
Commitment(s)     == <<"commit", s>>
CommitCheck(s)    == <<"commit_check", s>>
Opening(s, delta) == <<"opening", s, delta>>

(* vole_check_sender, the masked witness, and quicksilver_prove.             *)
VoleProof(s, c1)    == <<"vole_proof", s, c1>>
VoleCheck(s, c1)    == <<"vole_check", s, c1>>
Correction(s, key)  == <<"correction", s, key>>
QsProof(s, key, c2) == <<"qs_proof", s, key, c2>>
QsCheck(s, key, c2) == <<"qs_check", s, key, c2>>

(* vole_reconstruct: the q = v + delta u of the signer's own vole, when the   *)
(* opening is that of the iv and the challenge.                              *)
Opens(sig)       == sig.iv[1] = "iv" /\ sig.opening = Opening(sig.iv[2], sig.delta)
Reconstruct(sig) == IF Opens(sig) /\ sig.commit = Commitment(sig.iv[2])
                    THEN <<"q", sig.iv[2]>> ELSE Bad
CheckOf(sig)     == IF Opens(sig) THEN CommitCheck(sig.iv[2]) ELSE Bad

(* vole_check_receiver and quicksilver_verify.                               *)
VoleCheckOf(q, proof, c1) ==
  IF q # Bad /\ proof = VoleProof(q[2], c1) THEN VoleCheck(q[2], c1) ELSE Bad

QsCheckOf(q, pk, corr, proof, c2) ==
  IF q # Bad /\ corr = Correction(q[2], pk) /\ proof = QsProof(q[2], pk, c2)
  THEN QsCheck(q[2], pk, c2) ELSE Bad

---------------------------------------------------------------------------
NoSignature == [f \in Field |-> Bad]

Init ==
  /\ msg \in Msg /\ sk \in Key /\ random_seed \in Rand
  /\ attempt_num = 0
  /\ seed_iv = Bad /\ chal1 = Bad /\ chal2 = Bad /\ qs_check = Bad
  /\ hashed = <<>> /\ ground = <<>>
  /\ signature = NoSignature
  /\ signatures = <<>>
  /\ sign_pc = "idle"
  /\ v_msg = msg /\ v_pk = sk
  /\ v_sig = NoSignature
  /\ verify_pc = "idle"
  /\ ForceInit
  /\ outcome \in Outcomes

(* The caller makes one call at a time.                                      *)
Idle == sign_pc \in {"idle", "signed", "failed"} /\ verify_pc = "idle"

(* faest_sign. Unpacking the key always succeeds: faest_compute_witness       *)
(* returns true for every key.                                               *)
SignCall ==
  /\ Idle
  /\ Len(signatures) < MAX_SIGNATURES /\ sign_pc # "failed"  \* a run's bound
  /\ msg' \in Msg /\ sk' \in Key /\ random_seed' \in Rand
  /\ attempt_num' = 0
  /\ sign_pc' = "attempt"
  /\ UNCHANGED <<seed_iv, chal1, chal2, qs_check, hashed, ground, signature, signatures,
                 forceVars, verifyVars>>

(* faest_sign_attempt up to the first challenge.                             *)
CommitAttempt ==
  /\ sign_pc = "attempt"
  /\ LET derive == SeedIv(sk, Mu(sk, msg), random_seed, attempt_num)
         inputs == Add(hashed, derive)
         s      == Hash(inputs, derive)
         c1     == Chal1(Mu(sk, msg), CommitCheck(s), Commitment(s), Iv(s))
     IN /\ seed_iv' = s
        /\ signature' = [signature EXCEPT !["commit"] = Commitment(s)]
        /\ hashed' = Add(inputs, c1)
        /\ chal1' = Hash(hashed', c1)
  /\ sign_pc' = "check"
  /\ UNCHANGED <<msg, sk, random_seed, attempt_num, chal2, qs_check, ground,
                 signatures, forceVars, verifyVars>>

CheckAttempt ==
  /\ sign_pc = "check"
  /\ LET proof == VoleProof(seed_iv, chal1)
         corr  == Correction(seed_iv, sk)
         c2    == Chal2(chal1, proof, VoleCheck(seed_iv, chal1), corr)
     IN /\ signature' = [signature EXCEPT !["vole_check_proof"] = proof,
                                          !["correction"] = corr]
        /\ hashed' = Add(hashed, c2)
        /\ chal2' = Hash(hashed', c2)
  /\ sign_pc' = "prove"
  /\ UNCHANGED <<msg, sk, random_seed, attempt_num, seed_iv, chal1, qs_check, ground,
                 signatures, forceVars, verifyVars>>

(* The challenge, and the opening for it.                                    *)
Open(sig, input) ==
  /\ hashed' = Add(hashed, input)
  /\ signature' = [sig EXCEPT !["delta"] = Hash(hashed', input),
                              !["opening"] = Opening(seed_iv, Hash(hashed', input))]

(* The proof; then the last challenge, ground by force_vector_open. Hashing   *)
(* the same transcript again comes to the same challenges.                   *)
ProveAndForce ==
  /\ sign_pc = "prove"
  /\ HasCounter
  /\ qs_check' = QsCheck(seed_iv, sk, chal2)
  /\ signature' = [signature EXCEPT !["qs_proof"] = QsProof(seed_iv, sk, chal2)]
  /\ \E f \in IF chal2 \in DOMAIN ground THEN {ground[chal2]} ELSE Outcomes :
       /\ ground' = [t \in DOMAIN ground \cup {chal2} |->
                       IF t = chal2 THEN f ELSE ground[t]]
       /\ ForceCall(f)
  /\ sign_pc' = "force"
  /\ UNCHANGED <<msg, sk, random_seed, attempt_num, seed_iv, chal1, chal2, hashed,
                 signatures, verifyVars>>

(* The proof; then the last challenge, as it comes.                          *)
ProveAndOpen ==
  /\ sign_pc = "prove"
  /\ ~HasCounter
  /\ qs_check' = QsCheck(seed_iv, sk, chal2)
  /\ LET proof == QsProof(seed_iv, sk, chal2)
     IN Open([signature EXCEPT !["qs_proof"] = proof],
             Delta(chal2, proof, qs_check', Bad))
  /\ sign_pc' = "finish"
  /\ UNCHANGED <<msg, sk, random_seed, attempt_num, seed_iv, chal1, chal2, ground,
                 signatures, forceVars, verifyVars>>

Grind ==
  /\ sign_pc = "force"
  /\ ForceStep
  /\ UNCHANGED <<signVars, verifyVars>>

(* force_vector_open succeeded: it has written the challenge and the opening. *)
Opened ==
  /\ sign_pc = "force"
  /\ force_pc = "opened"
  /\ Open(signature, Delta(chal2, signature["qs_proof"], qs_check, Count(delta_out)))
  /\ sign_pc' = "finish"
  /\ UNCHANGED <<msg, sk, random_seed, attempt_num, seed_iv, chal1, chal2, qs_check,
                 ground, signatures, forceVars, verifyVars>>

(* faest_sign_attempt returns.                                               *)
EndLocals == seed_iv' = Bad /\ chal1' = Bad /\ chal2' = Bad /\ qs_check' = Bad

(* An attempt number that skips zero when it wraps.                          *)
Attempt_NeverZero(attempt) == 1 + (attempt % (ATTEMPT_RANGE - 1))

(* ++attempt_num, 64 bits.                                                   *)
Attempt(attempt) == (attempt + 1) % ATTEMPT_RANGE

(* It failed: the next attempt, until the attempts wrap too.                 *)
NextAttempt ==
  /\ sign_pc = "force"
  /\ force_pc = "exhausted"
  /\ attempt_num' = Attempt(attempt_num)
  /\ sign_pc' = IF Attempt(attempt_num) # 0 THEN "attempt" ELSE "failed"
  /\ EndLocals
  /\ UNCHANGED <<msg, sk, random_seed, hashed, ground, signature, signatures, forceVars,
                 verifyVars>>

Finished ==
  [f \in Field |-> IF f = "iv" THEN Iv(seed_iv)
                   ELSE IF f = "counter" THEN Count(out_counter)
                   ELSE signature[f]]

Finish ==
  /\ sign_pc = "finish"
  /\ signature' = Finished
  /\ signatures' = Append(signatures, [msg |-> msg, key |-> sk, sig |-> Finished])
  /\ sign_pc' = "signed"
  /\ EndLocals
  /\ UNCHANGED <<msg, sk, random_seed, attempt_num, hashed, ground, forceVars, verifyVars>>

SignStep ==
  \/ CommitAttempt \/ CheckAttempt \/ ProveAndForce \/ ProveAndOpen
  \/ Grind \/ Opened \/ NextAttempt \/ Finish

---------------------------------------------------------------------------
(* What reaches the verifier: a signature, some of its fields taken from      *)
(* another one or garbled, for any message and any public key.               *)
Mixed(sig, other, fields) == [f \in Field |-> IF f \in fields THEN other[f] ELSE sig[f]]

Sent == {signatures[i].sig : i \in DOMAIN signatures}

Replaced == {F \in SUBSET Field : Cardinality(F) <= MAX_REPLACED}

VerifyCall ==
  /\ Idle
  /\ v_msg' \in Msg /\ v_pk' \in Key
  /\ \E sig \in Sent, other \in Sent \cup {NoSignature}, fields \in Replaced :
       v_sig' = Mixed(sig, other, fields)
  /\ verify_pc' = "verify"
  /\ UNCHANGED <<signVars, forceVars>>

(* vole_reconstruct refuses an opening that is not the signer's, or gets an   *)
(* unrelated vole from it.                                                   *)
VerifyRefuse ==
  /\ verify_pc = "verify"
  /\ ~Opens(v_sig)
  /\ verify_pc' = "invalid"
  /\ UNCHANGED <<v_msg, v_pk, v_sig, signVars, forceVars>>

(* The counter of the signature, when it has one.                            *)
CountOf(sig) == IF HasCounter THEN sig.counter ELSE Bad

(* The last challenge, worked out again from what the signature carries.      *)
DeltaCheck(m, pk, sig) ==
  LET q     == Reconstruct(sig)
      c1    == Hash(hashed, Chal1(Mu(pk, m), CheckOf(sig), sig.commit, sig.iv))
      check == VoleCheckOf(q, sig.vole_check_proof, c1)
      c2    == Hash(hashed, Chal2(c1, sig.vole_check_proof, check, sig.correction))
      qs    == QsCheckOf(q, pk, sig.correction, sig.qs_proof, c2)
  IN Hash(hashed, Delta(c2, sig.qs_proof, qs, CountOf(sig)))

VerifyCompare ==
  /\ verify_pc = "verify"
  /\ verify_pc' = IF v_sig.delta = DeltaCheck(v_msg, v_pk, v_sig)
                  THEN "valid" ELSE "invalid"
  /\ UNCHANGED <<v_msg, v_pk, v_sig, signVars, forceVars>>

(* The caller has its answer.                                                *)
VerifyReturn ==
  /\ verify_pc \in {"valid", "invalid"}
  /\ verify_pc' = "idle"
  /\ v_msg' = msg /\ v_pk' = sk /\ v_sig' = NoSignature
  /\ UNCHANGED <<signVars, forceVars>>

VerifyStep == VerifyRefuse \/ VerifyCompare \/ VerifyReturn

Next == SignCall \/ SignStep \/ VerifyCall \/ VerifyStep

(* faest_sign and faest_verify run to their end once called.                 *)
Spec == Init /\ [][Next]_vars /\ WF_vars(SignStep \/ VerifyStep)

---------------------------------------------------------------------------
Name == {"bad", "hash", "commit", "vole_proof", "correction", "qs_proof", "qs_check",
         "opening", "iv", "counter"}

IsTerm(t) == DOMAIN t # {} /\ t[1] \in Name

(* Every variable holds a value of its kind, and the counters stay in their   *)
(* widths (32 bits at vector_com.c:631, 64 bits at faest.c:435).              *)
TypeOK ==
  /\ ForceTypeOK
  /\ msg \in Msg /\ sk \in Key /\ random_seed \in Rand
  /\ attempt_num \in 0 .. ATTEMPT_RANGE - 1
  /\ \A t \in {seed_iv, chal1, chal2, qs_check} : IsTerm(t)
  /\ DOMAIN signature = Field /\ \A f \in Field : IsTerm(signature[f])
  /\ DOMAIN hashed = 1 .. Len(hashed)
  /\ \A t \in DOMAIN ground : IsTerm(t) /\ ground[t] \in Outcomes
  /\ signatures \in Seq([msg : Msg, key : Key, sig : Sent])
  /\ sign_pc \in {"idle", "attempt", "check", "prove", "force", "finish", "signed",
                  "failed"}
  /\ v_msg \in Msg /\ v_pk \in Key
  /\ DOMAIN v_sig = Field /\ \A f \in Field : IsTerm(v_sig[f])
  /\ verify_pc \in {"idle", "verify", "valid", "invalid"}

(* One seed is opened for one challenge only: two signatures with the same    *)
(* commitment are the same signature, of the same message under the same key, *)
(* whatever the attempts that failed on the way and whichever calls repeat    *)
(* the random seed (faest.c:285-304 derives the seed from all of them).       *)
SeedOpenedOnce ==
  \A a, b \in DOMAIN signatures :
    signatures[a].sig.commit = signatures[b].sig.commit => signatures[a] = signatures[b]

(* faest_verify returns 1 exactly for a signature that faest_sign returned    *)
(* for this message and key, with no field changed (faest.c:450-546).         *)
Genuine ==
  \E i \in DOMAIN signatures :
    signatures[i] = [msg |-> v_msg, key |-> v_pk, sig |-> v_sig]

Scheme == INSTANCE SignatureScheme WITH
  Messages  <- Key \X Msg,
  signed    <- {<<signatures[i].key, signatures[i].msg>> : i \in DOMAIN signatures},
  presented <- IF verify_pc = "idle" THEN {} ELSE {<<v_pk, v_msg>>},
  genuine   <- verify_pc # "idle" /\ Genuine,
  verdict   <- IF verify_pc \in {"valid", "invalid"} THEN verify_pc ELSE "none"

ImplementsScheme == Scheme!Spec

(* Every call of faest_sign and of faest_verify returns, at the latest when   *)
(* all the counters of all the attempts are used up (faest.c:436-444).        *)
CallsReturn == ~Idle ~> Idle
============================================================================

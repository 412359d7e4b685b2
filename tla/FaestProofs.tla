---------------------------- MODULE FaestProofs ----------------------------
(***************************************************************************)
(* Whatever faest_sign does around it, force_vector_open finds the least     *)
(* counter: for every outcome of hashing, every range of counters that is a   *)
(* multiple of four, and every sequence of calls.                            *)
(***************************************************************************)
EXTENDS Faest, SequenceTheorems, TLAPS

(* The counters below the one being tried have all been refused. Between a    *)
(* batch and the next, counter is the first one untried, 0 standing for the   *)
(* whole range; inside a batch the four outputs are the four before counter.  *)
Tried == IF counter = 0 THEN COUNTER_RANGE ELSE counter

Refused(n) == \A c \in Counter : c < n => outcome[c] # "opens"

ForceInv ==
  /\ counter % 4 = 0
  /\ force_pc = "batch" => Refused(counter)
  /\ force_pc = "try" =>
       /\ Tried >= 4
       /\ outputs = [i \in Lane |-> Tried - 4 + i]
       /\ Refused(Tried - 4 + j)
  /\ LeastCounter

(* What grinding a transcript comes to does not change.                      *)
Ground == \A t \in DOMAIN ground : ground[t] \in Outcomes

(* All that faest_sign and faest_verify do to the variables of a call.       *)
ForceNext == (\E f \in Outcomes : ForceCall(f)) \/ ForceStep

(* Four counters on, inside the range.                                       *)
LEMMA NextFour ==
  ASSUME NEW n \in Counter, n % 4 = 0
  PROVE  /\ n + 4 <= COUNTER_RANGE
         /\ (n + 4) % COUNTER_RANGE = IF n + 4 = COUNTER_RANGE THEN 0 ELSE n + 4
         /\ \A i \in Lane : (n + i) % COUNTER_RANGE = n + i
         /\ ((n + 4) % COUNTER_RANGE) % 4 = 0
<1>1. COUNTER_RANGE \in Nat /\ COUNTER_RANGE % 4 = 0 /\ COUNTER_RANGE > 0
  BY ForceAssumption
<1>2. n + 4 <= COUNTER_RANGE
  BY <1>1 DEF Counter
<1>3. (n + 4) % COUNTER_RANGE = IF n + 4 = COUNTER_RANGE THEN 0 ELSE n + 4
  BY <1>1, <1>2 DEF Counter
<1>4. \A i \in Lane : (n + i) % COUNTER_RANGE = n + i
  BY <1>1, <1>2 DEF Counter, Lane
<1>5. ((n + 4) % COUNTER_RANGE) % 4 = 0
  BY <1>1, <1>3 DEF Counter
<1> QED BY <1>2, <1>3, <1>4, <1>5

(* The counter of a lane, worked out in wrapping arithmetic, is the one the   *)
(* lane hashed, also when counter has wrapped to 0.                          *)
LEMMA LaneCounterExact ==
  ASSUME ForceTypeOK, counter % 4 = 0, Tried >= 4, j \in Lane
  PROVE  LaneCounter = Tried - 4 + j
<1>1. COUNTER_RANGE \in Nat /\ COUNTER_RANGE % 4 = 0 /\ COUNTER_RANGE > 0
  BY ForceAssumption
<1>2. CASE counter = 0
  <2>1. counter - 4 + j = (COUNTER_RANGE - 4 + j) - COUNTER_RANGE
    BY <1>1, <1>2 DEF Lane
  <2>2. COUNTER_RANGE - 4 + j \in 0 .. COUNTER_RANGE - 1
    BY <1>1 DEF Lane
  <2> QED BY <1>1, <1>2, <2>1, <2>2 DEF LaneCounter, Tried
<1>3. CASE counter # 0
  <2>1. counter - 4 + j \in 0 .. COUNTER_RANGE - 1
    BY <1>1, <1>3 DEF ForceTypeOK, Counter, Tried, Lane
  <2> QED BY <1>1, <1>3, <2>1 DEF LaneCounter, Tried
<1> QED BY <1>2, <1>3

(* The four counters and the lane stay in their types.                       *)
LEMMA ForceTypeStep ==
  ASSUME ForceTypeOK, [ForceNext]_forceVars
  PROVE  ForceTypeOK'
<1>1. COUNTER_RANGE \in Nat /\ COUNTER_RANGE > 0 /\ 0 \in Counter
  BY ForceAssumption DEF Counter
<1>2. \A x \in Int : x % COUNTER_RANGE \in Counter
  BY <1>1 DEF Counter
<1>3. CASE \E f \in Outcomes : ForceCall(f)
  BY <1>1, <1>3, FaestAssumption DEF ForceTypeOK, ForceCall
<1>4. CASE HashBatch
  <2>1. outputs' \in [Lane -> Counter]
    BY <1>2, <1>4 DEF HashBatch, ForceTypeOK, Counter, Lane
  <2>2. counter' \in Counter
    BY <1>2, <1>4 DEF HashBatch, ForceTypeOK, Counter
  <2> QED BY <1>4, <2>1, <2>2 DEF HashBatch, ForceTypeOK
<1>5. CASE TryNextLane
  BY <1>5 DEF TryNextLane, ForceTypeOK
<1>6. CASE OpenLane
  <2>1. LaneCounter \in Counter
    <3>1. counter - 4 + j \in Int
      BY DEF ForceTypeOK, Counter
    <3> QED BY <1>2, <3>1 DEF LaneCounter
  <2>2. outputs[j] \in Counter
    BY <1>6 DEF OpenLane, ForceTypeOK, Lane
  <2> QED BY <1>6, <2>1, <2>2 DEF OpenLane, ForceTypeOK
<1>7. CASE EndBatch
  BY <1>7 DEF EndBatch, ForceTypeOK
<1>8. CASE UNCHANGED forceVars
  BY <1>8 DEF forceVars, ForceTypeOK
<1> QED BY <1>3, <1>4, <1>5, <1>6, <1>7, <1>8 DEF ForceNext, ForceStep

LEMMA ForceInvInit == ForceInit => ForceTypeOK /\ ForceInv
<1>1. COUNTER_RANGE \in Nat /\ COUNTER_RANGE > 0 /\ 0 \in Counter
  BY ForceAssumption DEF Counter
<1> QED BY <1>1 DEF ForceInit, ForceTypeOK, ForceInv, LeastCounter, Counter

LEMMA ForceInvStep ==
  ASSUME ForceTypeOK, ForceInv,
         [ForceNext]_forceVars
  PROVE  ForceInv'
<1>0. COUNTER_RANGE \in Nat /\ COUNTER_RANGE % 4 = 0 /\ COUNTER_RANGE > 0
  BY ForceAssumption
<1>1. CASE \E f \in Outcomes : ForceCall(f)
  BY <1>0, <1>1 DEF ForceCall, ForceInv, Refused, LeastCounter, Counter
<1>2. CASE HashBatch
  <2>1. counter \in Counter /\ counter % 4 = 0 /\ Refused(counter)
    BY <1>2 DEF HashBatch, ForceTypeOK, ForceInv
  <2>2. Tried' = counter + 4
    BY <1>0, <1>2, <2>1, NextFour DEF HashBatch, Tried, Counter
  <2>3. outputs' = [i \in Lane |-> Tried' - 4 + i]
    BY <1>2, <2>1, <2>2, NextFour DEF HashBatch, Counter
  <2>4. Refused(Tried - 4 + j)'
    BY <1>2, <2>1, <2>2 DEF HashBatch, Refused, Counter
  <2>5. Tried' >= 4 /\ counter' % 4 = 0
    BY <1>2, <2>1, <2>2, NextFour DEF HashBatch, Counter
  <2>6. LeastCounter'
    BY <1>2 DEF HashBatch, LeastCounter
  <2> QED BY <1>2, <2>3, <2>4, <2>5, <2>6 DEF HashBatch, ForceInv
<1>3. CASE TryNextLane
  <2>1. /\ Tried >= 4 /\ outputs = [i \in Lane |-> Tried - 4 + i]
        /\ Refused(Tried - 4 + j) /\ counter % 4 = 0
    BY <1>3 DEF TryNextLane, ForceInv
  <2>2. j \in Lane /\ Tried \in Nat
    BY <1>0, <1>3 DEF TryNextLane, ForceTypeOK, Lane, Tried, Counter
  <2>3. outcome[Tried - 4 + j] # "opens"
    BY <1>3, <2>1, <2>2 DEF TryNextLane, Obstacle
  <2>4. Refused(Tried - 4 + j + 1)
    BY <2>1, <2>2, <2>3 DEF Refused, Counter, Lane
  <2>5. Refused(Tried - 4 + j)'
    BY <1>3, <2>2, <2>4 DEF TryNextLane, Refused, Tried, Lane
  <2>6. LeastCounter'
    BY <1>3 DEF TryNextLane, LeastCounter
  <2> QED BY <1>3, <2>1, <2>5, <2>6 DEF TryNextLane, ForceInv, Tried
<1>4. CASE OpenLane
  <2>1. /\ Tried >= 4 /\ outputs = [i \in Lane |-> Tried - 4 + i]
        /\ Refused(Tried - 4 + j) /\ counter % 4 = 0
    BY <1>4 DEF OpenLane, ForceInv
  <2>2. j \in Lane
    BY <1>4 DEF OpenLane, ForceTypeOK, Lane
  <2>3. LaneCounter = Tried - 4 + j
    BY <2>1, <2>2, LaneCounterExact
  <2>4. outputs[j] = Tried - 4 + j
    BY <2>1, <2>2
  <2>5. out_counter' = Tried - 4 + j /\ delta_out' = Tried - 4 + j
    BY <1>4, <2>3, <2>4 DEF OpenLane
  <2>6. outcome'[out_counter'] = "opens"
    BY <1>4, <2>4, <2>5 DEF OpenLane
  <2>7. \A c \in Counter : c < out_counter' => outcome'[c] # "opens"
    BY <1>4, <2>1, <2>5 DEF OpenLane, Refused
  <2>8. LeastCounter'
    BY <1>4, <2>5, <2>6, <2>7 DEF OpenLane, LeastCounter
  <2> QED BY <1>4, <2>1, <2>8 DEF OpenLane, ForceInv
<1>5. CASE EndBatch
  <2>1. /\ Refused(Tried - 4 + j) /\ counter % 4 = 0 /\ j = 4 /\ force_pc = "try"
    BY <1>5 DEF EndBatch, ForceInv
  <2>2. Tried \in Nat
    BY <1>0 DEF ForceTypeOK, Tried, Counter
  <2>3. Refused(Tried)
    BY <2>1, <2>2 DEF Refused
  <2>4. CASE counter # 0
    <3>1. force_pc' = "batch"
      BY <1>5, <2>4 DEF EndBatch, CountersLeft
    <3>2. Refused(counter)'
      BY <1>5, <2>3, <2>4 DEF EndBatch, Refused, Tried
    <3> QED BY <1>5, <2>1, <3>1, <3>2 DEF EndBatch, ForceInv, LeastCounter
  <2>5. CASE counter = 0
    <3>1. force_pc' = "exhausted"
      BY <1>5, <2>5 DEF EndBatch, CountersLeft
    <3>2. \A c \in Counter : outcome'[c] # "opens"
      BY <1>0, <1>5, <2>3, <2>5 DEF EndBatch, Refused, Tried, Counter
    <3> QED BY <1>5, <2>1, <3>1, <3>2 DEF EndBatch, ForceInv, LeastCounter
  <2> QED BY <2>4, <2>5
<1>6. CASE UNCHANGED forceVars
  BY <1>6 DEF forceVars, ForceInv, Tried, Refused, LeastCounter
<1> QED BY <1>1, <1>2, <1>3, <1>4, <1>5, <1>6 DEF ForceNext, ForceStep

(* Every step of faest_sign or faest_verify calls force_vector_open, makes    *)
(* one of its steps, or leaves its variables alone.                          *)
LEMMA OnlyForceSteps ==
  ASSUME Ground, [Next]_vars
  PROVE  Ground' /\ [ForceNext]_forceVars
<1>1. CASE SignCall
  BY <1>1 DEF SignCall, Ground
<1>2. CASE CommitAttempt
  BY <1>2 DEF CommitAttempt, Ground
<1>3. CASE CheckAttempt
  BY <1>3 DEF CheckAttempt, Ground
<1>4. CASE ProveAndForce
  <2>1. PICK f \in IF chal2 \in DOMAIN ground THEN {ground[chal2]} ELSE Outcomes :
          /\ ground' = [t \in DOMAIN ground \cup {chal2} |->
                          IF t = chal2 THEN f ELSE ground[t]]
          /\ ForceCall(f)
    BY <1>4 DEF ProveAndForce, Ground
  <2>2. f \in Outcomes
    BY <2>1 DEF Ground
  <2>3. Ground'
    BY <2>1, <2>2 DEF Ground
  <2> QED BY <2>1, <2>2, <2>3 DEF ForceNext
<1>5. CASE ProveAndOpen
  BY <1>5 DEF ProveAndOpen, Ground
<1>6. CASE Grind
  BY <1>6 DEF Grind, ForceNext, signVars, Ground
<1>7. CASE Opened
  BY <1>7 DEF Opened, Ground
<1>8. CASE NextAttempt
  BY <1>8 DEF NextAttempt, Ground
<1>9. CASE Finish
  BY <1>9 DEF Finish, Ground
<1>10. CASE VerifyCall
  BY <1>10 DEF VerifyCall, signVars, Ground
<1>11. CASE VerifyStep
  BY <1>11 DEF VerifyStep, VerifyRefuse, VerifyCompare, VerifyReturn,
               signVars, Ground
<1>12. CASE UNCHANGED vars
  BY <1>12 DEF vars, signVars, Ground
<1> QED BY <1>1, <1>2, <1>3, <1>4, <1>5, <1>6, <1>7, <1>8, <1>9, <1>10, <1>11, <1>12
        DEF Next, SignStep

(* force_vector_open returns the least counter whose challenge opens, with    *)
(* that challenge, and fails only when no counter of the range opens.        *)
THEOREM ForceFindsLeast == Spec => [](ForceTypeOK /\ LeastCounter)
<1>1. Init => ForceTypeOK /\ ForceInv /\ Ground
  BY ForceInvInit DEF Init, Ground
<1>2. ForceTypeOK /\ ForceInv /\ Ground /\ [Next]_vars
        => (ForceTypeOK /\ ForceInv /\ Ground)'
  BY OnlyForceSteps, ForceTypeStep, ForceInvStep
<1>3. ForceInv => LeastCounter
  BY DEF ForceInv
<1> QED BY <1>1, <1>2, <1>3, PTL DEF Spec
---------------------------------------------------------------------------
(* What a signature is made of. HashOf says that the signer hashed input and  *)
(* that t is its hash.                                                       *)
At(p) == <<"hash", p>>

HashOf(inputs, t, input) == \E p \in DOMAIN inputs : t = At(p) /\ inputs[p] = input

IsSeq(s) == Len(s) \in Nat /\ s = [p \in 1 .. Len(s) |-> s[p]]

NoRepeat(inputs) ==
  /\ IsSeq(inputs)
  /\ \A p, q \in DOMAIN inputs : inputs[p] = inputs[q] => p = q

(* The seed of an attempt, and what the attempt adds to the transcript and to *)
(* the signature, challenge after challenge. s, c1, c2 and d are the seed and *)
(* the three challenges.                                                     *)
Derived(inputs, key, m, s) ==
  \E r \in Rand, a \in 0 .. ATTEMPT_RANGE - 1 :
    HashOf(inputs, s, SeedIv(key, Mu(key, m), r, a))

First(inputs, key, m, s, c1, sig) ==
  /\ HashOf(inputs, c1, Chal1(Mu(key, m), CommitCheck(s), Commitment(s), Iv(s)))
  /\ sig["commit"] = Commitment(s)

Second(inputs, key, s, c1, c2, sig) ==
  /\ HashOf(inputs, c2,
            Chal2(c1, VoleProof(s, c1), VoleCheck(s, c1), Correction(s, key)))
  /\ sig["vole_check_proof"] = VoleProof(s, c1)
  /\ sig["correction"] = Correction(s, key)

Third(key, s, c2, sig) == sig["qs_proof"] = QsProof(s, key, c2)

LastInput(key, s, c2, count) ==
  Delta(c2, QsProof(s, key, c2), QsCheck(s, key, c2), Count(count))

Last(inputs, key, s, c2, d, count, sig) ==
  /\ HashOf(inputs, d, LastInput(key, s, c2, count))
  /\ sig["delta"] = d
  /\ sig["opening"] = Opening(s, d)

(* The counter that force_vector_open returns.                               *)
IsLeast(f, count) ==
  /\ count \in Counter /\ f[count] = "opens"
  /\ \A c \in Counter : c < count => f[c] # "opens"

Least(gr, c2, count) == HasCounter => c2 \in DOMAIN gr /\ IsLeast(gr[c2], count)

Hashes(inputs) == {At(p) : p \in DOMAIN inputs}

IsSignature(sig) == sig = [f \in Field |-> sig[f]]

(* A signature is that of one attempt, of what the seed of the attempt was    *)
(* hashed from, and the counter the least one of its transcript.             *)
MadeFrom(inputs, gr, key, m, sig, s, c1, c2, d, count) ==
  /\ Derived(inputs, key, m, s)
  /\ First(inputs, key, m, s, c1, sig)
  /\ Second(inputs, key, s, c1, c2, sig)
  /\ Third(key, s, c2, sig)
  /\ Last(inputs, key, s, c2, d, count, sig)
  /\ Least(gr, c2, count)
  /\ sig["iv"] = Iv(s)
  /\ HasCounter => sig["counter"] = Count(count)

Made(inputs, gr, e) ==
  /\ e = [msg |-> e.msg, key |-> e.key, sig |-> e.sig]
  /\ e.msg \in Msg /\ e.key \in Key /\ IsSignature(e.sig)
  /\ \E s, c1, c2, d \in Hashes(inputs), count \in Counter :
       MadeFrom(inputs, gr, e.key, e.msg, e.sig, s, c1, c2, d, count)

(* How far the attempt has come.                                             *)
Attempted ==
  /\ sign_pc \in {"check", "prove", "force", "finish"} =>
       /\ Derived(hashed, sk, msg, seed_iv)
       /\ First(hashed, sk, msg, seed_iv, chal1, signature)
  /\ sign_pc \in {"prove", "force", "finish"} =>
       Second(hashed, sk, seed_iv, chal1, chal2, signature)
  /\ sign_pc \in {"force", "finish"} =>
       /\ Third(sk, seed_iv, chal2, signature)
       /\ qs_check = QsCheck(seed_iv, sk, chal2)
       /\ HasCounter => chal2 \in DOMAIN ground /\ outcome = ground[chal2]
  /\ sign_pc = "force" => HasCounter
  /\ sign_pc = "finish" =>
       /\ Last(hashed, sk, seed_iv, chal2, signature["delta"], delta_out, signature)
       /\ HasCounter => force_pc = "opened"

(* No last challenge is hashed that is not the one of a signature.            *)
LastReturned ==
  \A p \in DOMAIN hashed : hashed[p][1] = "delta" =>
    \/ \E n \in DOMAIN signatures : signatures[n].sig["delta"] = At(p)
    \/ sign_pc = "finish" /\ signature["delta"] = At(p)

SignInv ==
  /\ NoRepeat(hashed)
  /\ IsSeq(signatures)
  /\ IsSignature(signature) /\ IsSignature(v_sig)
  /\ \A n \in DOMAIN signatures : Made(hashed, ground, signatures[n])
  /\ Attempted
  /\ LastReturned
  /\ verify_pc # "idle" => sign_pc \in {"idle", "signed", "failed"}

(* Adding an input keeps the order of all others and repeats none.            *)
LEMMA AddKeeps ==
  ASSUME NEW s, NoRepeat(s), NEW x
  PROVE  /\ NoRepeat(Add(s, x))
         /\ \A p \in DOMAIN s : p \in DOMAIN Add(s, x) /\ Add(s, x)[p] = s[p]
         /\ \E p \in DOMAIN Add(s, x) : Add(s, x)[p] = x
         /\ \A p \in DOMAIN Add(s, x) : p \in DOMAIN s \/ Add(s, x)[p] = x
<1>1. Len(s) \in Nat /\ s = [p \in 1 .. Len(s) |-> s[p]] /\ DOMAIN s = 1 .. Len(s)
  BY DEF NoRepeat, IsSeq
<1>2. CASE \E p \in DOMAIN s : s[p] = x
  BY <1>2 DEF Add
<1>3. CASE ~\E p \in DOMAIN s : s[p] = x
  <2>1. s \in Seq({s[p] : p \in DOMAIN s} \cup {x})
    BY <1>1
  <2>2. /\ Len(Append(s, x)) = Len(s) + 1
        /\ \A p \in 1 .. Len(s) : Append(s, x)[p] = s[p]
        /\ Append(s, x)[Len(s) + 1] = x
        /\ Append(s, x) \in Seq({s[p] : p \in DOMAIN s} \cup {x})
    BY <2>1
  <2>3. /\ DOMAIN Append(s, x) = 1 .. Len(s) + 1
        /\ IsSeq(Append(s, x))
    <3>1. /\ Len(Append(s, x)) \in Nat
          /\ Append(s, x) = [p \in 1 .. Len(Append(s, x)) |-> Append(s, x)[p]]
      BY <1>1, <2>2, LenProperties
    <3> QED BY <2>2, <3>1 DEF IsSeq
  <2>4. \A p, q \in DOMAIN Append(s, x) : Append(s, x)[p] = Append(s, x)[q] => p = q
    BY <1>1, <1>3, <2>2, <2>3 DEF NoRepeat
  <2>5. Add(s, x) = Append(s, x)
    BY <1>3 DEF Add
  <2> QED BY <1>1, <2>2, <2>3, <2>4, <2>5 DEF NoRepeat
<1> QED BY <1>2, <1>3

(* A hash tells its input, and the input its hash.                           *)
LEMMA HashExact ==
  ASSUME NEW s, NoRepeat(s)
  PROVE  /\ \A t, x : HashOf(s, t, x) => t = Hash(s, x)
         /\ \A t, x, y : HashOf(s, t, x) /\ HashOf(s, t, y) => x = y
         /\ \A x : (\E p \in DOMAIN s : s[p] = x) => HashOf(s, Hash(s, x), x)
         /\ \A x : HashOf(s, Hash(s, x), x) \/ Hash(s, x) = <<"fresh", x[1]>>
<1>1. ASSUME NEW t, NEW x, HashOf(s, t, x)
      PROVE  t = Hash(s, x)
  <2>1. PICK p \in DOMAIN s : t = At(p) /\ s[p] = x
    BY <1>1 DEF HashOf
  <2>2. \A q \in DOMAIN s : s[q] = x => q = p
    BY <2>1 DEF NoRepeat
  <2>3. (CHOOSE q \in DOMAIN s : s[q] = x) = p
    BY <2>1, <2>2
  <2> QED BY <2>1, <2>3 DEF Hash, At
<1>2. ASSUME NEW t, NEW x, NEW y, HashOf(s, t, x), HashOf(s, t, y)
      PROVE  x = y
  BY <1>2 DEF HashOf, At
<1>3. ASSUME NEW x, \E p \in DOMAIN s : s[p] = x
      PROVE  HashOf(s, Hash(s, x), x)
  <2>1. PICK p \in DOMAIN s : p = CHOOSE q \in DOMAIN s : s[q] = x
    BY <1>3
  <2>2. s[p] = x
    BY <1>3, <2>1
  <2> QED BY <1>3, <2>1, <2>2 DEF Hash, HashOf, At
<1>4. ASSUME NEW x, ~\E p \in DOMAIN s : s[p] = x
      PROVE  Hash(s, x) = <<"fresh", x[1]>>
  BY <1>4 DEF Hash
<1> QED BY <1>1, <1>2, <1>3, <1>4

LEMMA AddHashes ==
  ASSUME NEW s, NoRepeat(s), NEW x
  PROVE  /\ HashOf(Add(s, x), Hash(Add(s, x), x), x)
         /\ \A t, y : HashOf(s, t, y) => HashOf(Add(s, x), t, y)
         /\ \A t, y : HashOf(Add(s, x), t, y) => HashOf(s, t, y) \/ y = x
<1>1. HashOf(Add(s, x), Hash(Add(s, x), x), x)
  BY AddKeeps, HashExact
<1>2. ASSUME NEW t, NEW y, HashOf(s, t, y)
      PROVE  HashOf(Add(s, x), t, y)
  BY <1>2, AddKeeps DEF HashOf
<1>3. ASSUME NEW t, NEW y, HashOf(Add(s, x), t, y)
      PROVE  HashOf(s, t, y) \/ y = x
  BY <1>3, AddKeeps DEF HashOf
<1> QED BY <1>1, <1>2, <1>3

(* What was made stays made when more is hashed and more transcripts ground.  *)
Grown(inputs, more) == \A t, x : HashOf(inputs, t, x) => HashOf(more, t, x)

Kept(gr, more) == \A t \in DOMAIN gr : t \in DOMAIN more /\ more[t] = gr[t]

LEMMA MadeStable ==
  ASSUME NEW inputs, NEW more, Grown(inputs, more), NEW gr, NEW gr2, Kept(gr, gr2),
         NEW e, Made(inputs, gr, e)
  PROVE  Made(more, gr2, e)
<1>1. PICK s \in Hashes(inputs), c1 \in Hashes(inputs), c2 \in Hashes(inputs),
           d \in Hashes(inputs), count \in Counter :
        MadeFrom(inputs, gr, e.key, e.msg, e.sig, s, c1, c2, d, count)
  BY DEF Made
<1>2. \A t \in Hashes(inputs) : t \in Hashes(more)
  <2> SUFFICES ASSUME NEW t \in Hashes(inputs) PROVE t \in Hashes(more)
    OBVIOUS
  <2>1. PICK p \in DOMAIN inputs : t = At(p)
    BY DEF Hashes
  <2>2. HashOf(inputs, t, inputs[p])
    BY <2>1 DEF HashOf
  <2>3. HashOf(more, t, inputs[p])
    BY <2>2 DEF Grown
  <2> QED BY <2>3 DEF HashOf, Hashes
<1>3. /\ Derived(more, e.key, e.msg, s)
      /\ First(more, e.key, e.msg, s, c1, e.sig)
      /\ Second(more, e.key, s, c1, c2, e.sig)
      /\ Last(more, e.key, s, c2, d, count, e.sig)
  BY <1>1 DEF MadeFrom, Derived, First, Second, Last, Grown
<1>4. Least(gr2, c2, count)
  BY <1>1 DEF MadeFrom, Least, Kept
<1>5. MadeFrom(more, gr2, e.key, e.msg, e.sig, s, c1, c2, d, count)
  BY <1>1, <1>3, <1>4 DEF MadeFrom
<1> QED BY <1>2, <1>5 DEF Made

(* Two signatures of one commitment are one.                                 *)
LEMMA MadeOnce ==
  ASSUME NEW inputs, NoRepeat(inputs), NEW gr, NEW a, NEW b,
         Made(inputs, gr, a), Made(inputs, gr, b), a.sig["commit"] = b.sig["commit"]
  PROVE  a = b
<1>1. PICK s \in Hashes(inputs), c1 \in Hashes(inputs), c2 \in Hashes(inputs),
           d \in Hashes(inputs), count \in Counter :
        MadeFrom(inputs, gr, a.key, a.msg, a.sig, s, c1, c2, d, count)
  BY DEF Made
<1>2. PICK t \in Hashes(inputs), d1 \in Hashes(inputs), d2 \in Hashes(inputs),
           e \in Hashes(inputs), cnt \in Counter :
        MadeFrom(inputs, gr, b.key, b.msg, b.sig, t, d1, d2, e, cnt)
  BY DEF Made
<1>3. s = t
  <2>1. Commitment(s) = Commitment(t)
    BY <1>1, <1>2 DEF MadeFrom, First
  <2> QED BY <2>1 DEF Commitment
<1>4. a.key = b.key /\ a.msg = b.msg
  <2>1. PICK r1 \in Rand, n1 \in 0 .. ATTEMPT_RANGE - 1 :
          HashOf(inputs, s, SeedIv(a.key, Mu(a.key, a.msg), r1, n1))
    BY <1>1 DEF MadeFrom, Derived
  <2>2. PICK r2 \in Rand, n2 \in 0 .. ATTEMPT_RANGE - 1 :
          HashOf(inputs, s, SeedIv(b.key, Mu(b.key, b.msg), r2, n2))
    BY <1>2, <1>3 DEF MadeFrom, Derived
  <2>3. SeedIv(a.key, Mu(a.key, a.msg), r1, n1) = SeedIv(b.key, Mu(b.key, b.msg), r2, n2)
    BY <2>1, <2>2, HashExact
  <2>4. a.key = b.key /\ Mu(a.key, a.msg) = Mu(b.key, b.msg)
    BY <2>3 DEF SeedIv
  <2> QED BY <2>4 DEF Mu
<1>5. c1 = d1
  BY <1>1, <1>2, <1>3, <1>4, HashExact DEF MadeFrom, First
<1>6. c2 = d2
  BY <1>1, <1>2, <1>3, <1>4, <1>5, HashExact DEF MadeFrom, Second
<1>7. HasCounter => count = cnt
  BY <1>1, <1>2, <1>6 DEF MadeFrom, Least, IsLeast, Counter
<1>8. d = e
  <2>1. LastInput(a.key, s, c2, count) = LastInput(b.key, t, d2, cnt)
    BY <1>3, <1>4, <1>6, <1>7 DEF LastInput, Delta
  <2> QED BY <1>1, <1>2, <2>1, HashExact DEF MadeFrom, Last
<1>9. \A f \in Field : a.sig[f] = b.sig[f]
  BY <1>1, <1>2, <1>3, <1>4, <1>5, <1>6, <1>7, <1>8
     DEF MadeFrom, First, Second, Third, Last, Field
<1>10. a.sig = b.sig
  BY <1>9 DEF Made, IsSignature
<1> QED BY <1>4, <1>10 DEF Made

---------------------------------------------------------------------------
FaestInv == TypeOK /\ ForceInv /\ Ground /\ SignInv

(* No step forgets what was hashed, and grinding the same transcript again     *)
(* comes to the same.                                                        *)
LEMMA HashedGrows ==
  ASSUME FaestInv, [Next]_vars
  PROVE  NoRepeat(hashed') /\ Grown(hashed, hashed') /\ Kept(ground, ground')
<1>1. NoRepeat(hashed)
  BY DEF FaestInv, SignInv
<1>2. CASE hashed' = hashed /\ ground' = ground
  BY <1>1, <1>2 DEF Grown, Kept
<1>3. ASSUME NEW x, hashed' = Add(hashed, x), ground' = ground
      PROVE  NoRepeat(hashed') /\ Grown(hashed, hashed') /\ Kept(ground, ground')
  BY <1>1, <1>3, AddKeeps, AddHashes DEF Grown, Kept
<1>4. CASE CommitAttempt
  <2> DEFINE derive == SeedIv(sk, Mu(sk, msg), random_seed, attempt_num)
             inputs == Add(hashed, derive)
             s      == Hash(inputs, derive)
             c1     == Chal1(Mu(sk, msg), CommitCheck(s), Commitment(s), Iv(s))
  <2>1. hashed' = Add(inputs, c1) /\ ground' = ground
    BY <1>4 DEF CommitAttempt
  <2>2. NoRepeat(inputs) /\ \A t, x : HashOf(hashed, t, x) => HashOf(inputs, t, x)
    BY <1>1, AddKeeps, AddHashes
  <2> HIDE DEF inputs, s, c1
  <2> QED BY <2>1, <2>2, AddKeeps, AddHashes DEF Grown, Kept
<1>5. CASE CheckAttempt
  BY <1>3, <1>5 DEF CheckAttempt
<1>6. CASE ProveAndForce
  BY <1>1, <1>6 DEF ProveAndForce, Grown, Kept
<1>7. CASE ProveAndOpen
  BY <1>3, <1>7 DEF ProveAndOpen, Open
<1>8. CASE Opened
  BY <1>3, <1>8 DEF Opened, Open
<1>9. CASE SignCall \/ Grind \/ NextAttempt \/ Finish \/ VerifyCall \/ VerifyStep
           \/ UNCHANGED vars
  BY <1>2, <1>9 DEF SignCall, Grind, NextAttempt, Finish, VerifyCall, VerifyStep,
       VerifyRefuse, VerifyCompare, VerifyReturn, vars, signVars
<1> QED BY <1>4, <1>5, <1>6, <1>7, <1>8, <1>9 DEF Next, SignStep

(* The signature that faest_sign returns is one attempt's.                   *)
LEMMA FinishedMade ==
  ASSUME FaestInv, Finish
  PROVE  Made(hashed, ground, [msg |-> msg, key |-> sk, sig |-> Finished])
<1> DEFINE d == signature["delta"]
<1>1. sign_pc = "finish"
  BY DEF Finish
<1>2. /\ Derived(hashed, sk, msg, seed_iv)
      /\ First(hashed, sk, msg, seed_iv, chal1, signature)
      /\ Second(hashed, sk, seed_iv, chal1, chal2, signature)
      /\ Third(sk, seed_iv, chal2, signature)
      /\ Last(hashed, sk, seed_iv, chal2, d, delta_out, signature)
      /\ HasCounter => chal2 \in DOMAIN ground /\ outcome = ground[chal2]
      /\ HasCounter => force_pc = "opened"
  BY <1>1 DEF FaestInv, SignInv, Attempted
<1>3. HasCounter => delta_out = out_counter /\ IsLeast(ground[chal2], delta_out)
  BY <1>2 DEF FaestInv, ForceInv, LeastCounter, IsLeast, TypeOK, ForceTypeOK
<1>4. Least(ground, chal2, delta_out)
  BY <1>2, <1>3 DEF Least
<1>5. \A f \in Field \ {"iv", "counter"} : Finished[f] = signature[f]
  BY DEF Finished
<1>6. /\ First(hashed, sk, msg, seed_iv, chal1, Finished)
      /\ Second(hashed, sk, seed_iv, chal1, chal2, Finished)
      /\ Third(sk, seed_iv, chal2, Finished)
      /\ Last(hashed, sk, seed_iv, chal2, d, delta_out, Finished)
  BY <1>2, <1>5 DEF First, Second, Third, Last, Field
<1>7. /\ Finished["iv"] = Iv(seed_iv)
      /\ HasCounter => Finished["counter"] = Count(delta_out)
  BY <1>3 DEF Finished, Field
<1>8. MadeFrom(hashed, ground, sk, msg, Finished, seed_iv, chal1, chal2, d, delta_out)
  BY <1>2, <1>4, <1>6, <1>7 DEF MadeFrom
<1>9. /\ seed_iv \in Hashes(hashed) /\ chal1 \in Hashes(hashed)
      /\ chal2 \in Hashes(hashed) /\ d \in Hashes(hashed)
  BY <1>2 DEF Derived, First, Second, Last, HashOf, Hashes
<1>10. IsSignature(Finished)
  BY DEF IsSignature, Finished
<1>11. msg \in Msg /\ sk \in Key /\ delta_out \in Counter
  BY DEF FaestInv, TypeOK, ForceTypeOK
<1> HIDE DEF d
<1> QED BY <1>8, <1>9, <1>10, <1>11 DEF Made

LEMMA SignaturesMade ==
  ASSUME FaestInv, [Next]_vars
  PROVE  /\ IsSeq(signatures')
         /\ \A n \in DOMAIN signatures' : Made(hashed', ground', signatures'[n])
<1>1. /\ IsSeq(signatures)
      /\ \A n \in DOMAIN signatures : Made(hashed', ground', signatures[n])
  BY HashedGrows, MadeStable DEF FaestInv, SignInv
<1>2. CASE signatures' = signatures
  BY <1>1, <1>2
<1>3. CASE Finish
  <2> DEFINE e == [msg |-> msg, key |-> sk, sig |-> Finished]
  <2>1. signatures' = Append(signatures, e) /\ hashed' = hashed /\ ground' = ground
    BY <1>3 DEF Finish
  <2>2. Made(hashed', ground', e)
    BY <1>3, <2>1, FinishedMade
  <2> HIDE DEF e
  <2>3. signatures \in Seq({signatures[n] : n \in DOMAIN signatures} \cup {e})
    BY <1>1 DEF IsSeq
  <2>4. /\ Len(signatures') = Len(signatures) + 1
        /\ \A n \in 1 .. Len(signatures) : signatures'[n] = signatures[n]
        /\ signatures'[Len(signatures) + 1] = e
        /\ signatures' \in Seq({signatures[n] : n \in DOMAIN signatures} \cup {e})
    BY <2>1, <2>3
  <2>5. /\ Len(signatures') \in Nat
        /\ signatures' = [n \in 1 .. Len(signatures') |-> signatures'[n]]
        /\ DOMAIN signatures' = 1 .. Len(signatures) + 1
        /\ DOMAIN signatures = 1 .. Len(signatures)
    BY <1>1, <2>4, LenProperties DEF IsSeq
  <2> QED BY <1>1, <2>2, <2>4, <2>5 DEF IsSeq
<1>4. CASE ~Finish
  BY <1>2, <1>4 DEF Next, SignStep, SignCall, CommitAttempt, CheckAttempt, ProveAndForce,
       ProveAndOpen, Grind, Opened, NextAttempt, VerifyCall, VerifyStep,
       VerifyRefuse, VerifyCompare, VerifyReturn, vars, signVars
<1> QED BY <1>3, <1>4

(* What an attempt has done so far, after each of its steps.                 *)
LEMMA AttemptGoesOn ==
  ASSUME FaestInv, [Next]_vars
  PROVE  Attempted'
<1>0. NoRepeat(hashed) /\ Attempted /\ \A t, x : HashOf(hashed, t, x) => HashOf(hashed', t, x)
  BY HashedGrows DEF FaestInv, SignInv, Grown
<1>1. CASE SignCall
  BY <1>1 DEF SignCall, Attempted
<1>2. CASE CommitAttempt
  <2> DEFINE derive == SeedIv(sk, Mu(sk, msg), random_seed, attempt_num)
             inputs == Add(hashed, derive)
             s      == Hash(inputs, derive)
             c1     == Chal1(Mu(sk, msg), CommitCheck(s), Commitment(s), Iv(s))
  <2>1. /\ hashed' = Add(inputs, c1) /\ seed_iv' = s /\ chal1' = Hash(hashed', c1)
        /\ signature' = [signature EXCEPT !["commit"] = Commitment(s)]
        /\ sign_pc' = "check" /\ sk' = sk /\ msg' = msg
    BY <1>2 DEF CommitAttempt
  <2>2. NoRepeat(inputs) /\ HashOf(inputs, s, derive)
    BY <1>0, AddKeeps, AddHashes
  <2>3. random_seed \in Rand /\ attempt_num \in 0 .. ATTEMPT_RANGE - 1
    BY DEF FaestInv, TypeOK
  <2> HIDE DEF inputs, s, c1
  <2>4. HashOf(hashed', s, derive) /\ HashOf(hashed', chal1', c1)
    BY <2>1, <2>2, AddHashes
  <2>5. Derived(hashed', sk', msg', seed_iv')
    BY <2>1, <2>3, <2>4 DEF Derived
  <2>6. signature'["commit"] = Commitment(s)
    BY <2>1 DEF FaestInv, TypeOK, Field
  <2>7. First(hashed', sk', msg', seed_iv', chal1', signature')
    BY <2>1, <2>4, <2>6 DEF First, c1
  <2> QED BY <2>1, <2>5, <2>7 DEF Attempted
<1>3. CASE CheckAttempt
  <2> DEFINE c2 == Chal2(chal1, VoleProof(seed_iv, chal1), VoleCheck(seed_iv, chal1),
                         Correction(seed_iv, sk))
  <2>1. /\ hashed' = Add(hashed, c2) /\ chal2' = Hash(hashed', c2)
        /\ signature' = [signature EXCEPT
                           !["vole_check_proof"] = VoleProof(seed_iv, chal1),
                           !["correction"] = Correction(seed_iv, sk)]
        /\ sign_pc = "check" /\ sign_pc' = "prove"
        /\ UNCHANGED <<sk, msg, seed_iv, chal1>>
    BY <1>3 DEF CheckAttempt
  <2> HIDE DEF c2
  <2>2. HashOf(hashed', chal2', c2)
    BY <1>0, <2>1, AddHashes
  <2>3. Derived(hashed, sk, msg, seed_iv) /\ First(hashed, sk, msg, seed_iv, chal1, signature)
    BY <1>0, <2>1 DEF Attempted
  <2>4. /\ signature'["vole_check_proof"] = VoleProof(seed_iv, chal1)
        /\ signature'["correction"] = Correction(seed_iv, sk)
        /\ signature'["commit"] = signature["commit"]
    BY <2>1 DEF FaestInv, TypeOK, Field
  <2>5. Derived(hashed', sk', msg', seed_iv')
    BY <1>0, <2>1, <2>3 DEF Derived
  <2>6. First(hashed', sk', msg', seed_iv', chal1', signature')
    BY <1>0, <2>1, <2>3, <2>4 DEF First
  <2>7. Second(hashed', sk', seed_iv', chal1', chal2', signature')
    BY <2>1, <2>2, <2>4 DEF Second, c2
  <2> QED BY <2>1, <2>5, <2>6, <2>7 DEF Attempted
<1>4. CASE ProveAndForce
  <2>1. /\ Derived(hashed, sk, msg, seed_iv)
        /\ First(hashed, sk, msg, seed_iv, chal1, signature)
        /\ Second(hashed, sk, seed_iv, chal1, chal2, signature)
    BY <1>0, <1>4 DEF Attempted, ProveAndForce
  <2>2. /\ signature'["qs_proof"] = QsProof(seed_iv, sk, chal2)
        /\ \A f \in Field \ {"qs_proof"} : signature'[f] = signature[f]
        /\ qs_check' = QsCheck(seed_iv, sk, chal2)
        /\ sign_pc' = "force" /\ HasCounter
        /\ UNCHANGED <<sk, msg, seed_iv, chal1, chal2, hashed>>
    BY <1>4 DEF ProveAndForce, FaestInv, TypeOK, Field
  <2>3. chal2' \in DOMAIN ground' /\ outcome' = ground'[chal2']
    BY <1>4 DEF ProveAndForce, ForceCall
  <2>4. /\ First(hashed', sk', msg', seed_iv', chal1', signature')
        /\ Second(hashed', sk', seed_iv', chal1', chal2', signature')
        /\ Third(sk', seed_iv', chal2', signature')
    BY <2>1, <2>2 DEF First, Second, Third, Field
  <2> QED BY <2>1, <2>2, <2>3, <2>4 DEF Attempted
<1>5. ASSUME NEW sig, DOMAIN sig = Field, \A f \in Field \ {"qs_proof"} : sig[f] = signature[f],
             Third(sk, seed_iv, chal2, sig),
             sign_pc \in {"prove", "force"}, sign_pc' = "finish",
             Open(sig, LastInput(sk, seed_iv, chal2, delta_out)),
             qs_check' = QsCheck(seed_iv, sk, chal2),
             HasCounter => /\ chal2 \in DOMAIN ground /\ outcome = ground[chal2]
                           /\ force_pc = "opened",
             UNCHANGED <<sk, msg, seed_iv, chal1, chal2, ground, forceVars>>
      PROVE  Attempted'
  <2> DEFINE input == LastInput(sk, seed_iv, chal2, delta_out)
             d     == Hash(hashed', input)
  <2>1. /\ Derived(hashed, sk, msg, seed_iv)
        /\ First(hashed, sk, msg, seed_iv, chal1, signature)
        /\ Second(hashed, sk, seed_iv, chal1, chal2, signature)
    BY <1>0, <1>5 DEF Attempted
  <2>2. /\ hashed' = Add(hashed, input)
        /\ signature' = [sig EXCEPT !["delta"] = d, !["opening"] = Opening(seed_iv, d)]
    BY <1>5 DEF Open
  <2> HIDE DEF input
  <2>3. HashOf(hashed', d, input)
    BY <1>0, <2>2, AddHashes
  <2> HIDE DEF d
  <2>4. /\ signature'["delta"] = d /\ signature'["opening"] = Opening(seed_iv, d)
        /\ \A f \in Field \ {"delta", "opening"} : signature'[f] = sig[f]
    BY <1>5, <2>2 DEF Field
  <2>5. Derived(hashed', sk', msg', seed_iv')
    BY <1>0, <1>5, <2>1 DEF Derived
  <2>6. First(hashed', sk', msg', seed_iv', chal1', signature')
    BY <1>0, <1>5, <2>1, <2>4 DEF First, Field
  <2>7. Second(hashed', sk', seed_iv', chal1', chal2', signature')
    BY <1>0, <1>5, <2>1, <2>4 DEF Second, Field
  <2>8. Third(sk', seed_iv', chal2', signature')
    BY <1>5, <2>4 DEF Third, Field
  <2>9. delta_out' = delta_out /\ force_pc' = force_pc /\ outcome' = outcome
    BY <1>5 DEF forceVars
  <2>10. Last(hashed', sk', seed_iv', chal2', signature'["delta"], delta_out', signature')
    BY <1>5, <2>3, <2>4, <2>9 DEF Last, input
  <2> QED BY <1>5, <2>5, <2>6, <2>7, <2>8, <2>9, <2>10 DEF Attempted
<1>6. CASE ProveAndOpen
  <2> DEFINE sig == [signature EXCEPT !["qs_proof"] = QsProof(seed_iv, sk, chal2)]
  <2>1. /\ ~HasCounter /\ sign_pc = "prove" /\ sign_pc' = "finish"
        /\ qs_check' = QsCheck(seed_iv, sk, chal2)
        /\ Open(sig, Delta(chal2, QsProof(seed_iv, sk, chal2), qs_check', Bad))
        /\ UNCHANGED <<sk, msg, seed_iv, chal1, chal2, ground, forceVars>>
    BY <1>6 DEF ProveAndOpen
  <2>2. Open(sig, LastInput(sk, seed_iv, chal2, delta_out))
    BY <2>1 DEF LastInput, Delta
  <2>3. /\ DOMAIN sig = Field /\ Third(sk, seed_iv, chal2, sig)
        /\ \A f \in Field \ {"qs_proof"} : sig[f] = signature[f]
    BY DEF FaestInv, TypeOK, Field, Third
  <2> HIDE DEF sig
  <2> QED BY <1>5, <2>1, <2>2, <2>3
<1>7. CASE Grind
  <2>1. outcome' = outcome
    BY <1>7 DEF Grind, ForceStep, HashBatch, TryNextLane, OpenLane, EndBatch
  <2> QED BY <1>0, <1>7, <2>1 DEF Grind, signVars, Attempted
<1>8. CASE Opened
  <2>1. /\ sign_pc = "force" /\ sign_pc' = "finish" /\ force_pc = "opened"
        /\ Open(signature, Delta(chal2, signature["qs_proof"], qs_check, Count(delta_out)))
        /\ UNCHANGED <<sk, msg, seed_iv, chal1, chal2, qs_check, ground, forceVars>>
    BY <1>8 DEF Opened
  <2>2. /\ Third(sk, seed_iv, chal2, signature)
        /\ qs_check = QsCheck(seed_iv, sk, chal2)
        /\ HasCounter => chal2 \in DOMAIN ground /\ outcome = ground[chal2]
    BY <1>0, <2>1 DEF Attempted
  <2>3. Open(signature, LastInput(sk, seed_iv, chal2, delta_out))
    BY <2>1, <2>2 DEF LastInput, Third
  <2>4. DOMAIN signature = Field
    BY DEF FaestInv, TypeOK
  <2> QED BY <1>5, <2>1, <2>2, <2>3, <2>4
<1>9. CASE NextAttempt
  BY <1>9 DEF NextAttempt, Attempted
<1>10. CASE Finish
  BY <1>10 DEF Finish, Attempted
<1>11. CASE VerifyCall \/ VerifyStep \/ UNCHANGED vars
  BY <1>0, <1>11 DEF VerifyCall, VerifyStep, VerifyRefuse, VerifyCompare, VerifyReturn,
       vars, signVars, forceVars, Attempted
<1> QED BY <1>1, <1>2, <1>3, <1>4, <1>6, <1>7, <1>8, <1>9, <1>10, <1>11
        DEF Next, SignStep

(* Every last challenge that was hashed belongs to a signature: it is opened  *)
(* and the signature returned.                                               *)
LEMMA LastStaysReturned ==
  ASSUME FaestInv, [Next]_vars
  PROVE  LastReturned'
<1>0. NoRepeat(hashed) /\ LastReturned
  BY DEF FaestInv, SignInv
<1>1. CASE CommitAttempt
  <2> DEFINE derive == SeedIv(sk, Mu(sk, msg), random_seed, attempt_num)
             inputs == Add(hashed, derive)
             s      == Hash(inputs, derive)
             c1     == Chal1(Mu(sk, msg), CommitCheck(s), Commitment(s), Iv(s))
  <2>1. /\ hashed' = Add(inputs, c1) /\ signatures' = signatures /\ sign_pc = "attempt"
    BY <1>1 DEF CommitAttempt
  <2>2. derive[1] # "delta" /\ c1[1] # "delta"
    BY DEF SeedIv, Chal1
  <2> HIDE DEF derive, c1
  <2>3. \A p \in DOMAIN inputs : (p \in DOMAIN hashed /\ inputs[p] = hashed[p]) \/ inputs[p] = derive
    BY <1>0, AddKeeps
  <2>4. NoRepeat(inputs)
    BY <1>0, AddKeeps
  <2> HIDE DEF inputs
  <2>5. \A p \in DOMAIN hashed' : (p \in DOMAIN inputs /\ hashed'[p] = inputs[p]) \/ hashed'[p] = c1
    BY <2>1, <2>4, AddKeeps
  <2> QED BY <1>0, <2>1, <2>2, <2>3, <2>5 DEF LastReturned
<1>2. CASE CheckAttempt
  <2> DEFINE c2 == Chal2(chal1, VoleProof(seed_iv, chal1), VoleCheck(seed_iv, chal1),
                         Correction(seed_iv, sk))
  <2>1. hashed' = Add(hashed, c2) /\ signatures' = signatures /\ sign_pc = "check"
    BY <1>2 DEF CheckAttempt
  <2>2. c2[1] # "delta"
    BY DEF Chal2
  <2> HIDE DEF c2
  <2>3. \A p \in DOMAIN hashed' : (p \in DOMAIN hashed /\ hashed'[p] = hashed[p]) \/ hashed'[p] = c2
    BY <1>0, <2>1, AddKeeps
  <2> QED BY <1>0, <2>1, <2>2, <2>3 DEF LastReturned
<1>3. ASSUME NEW sig, NEW x, DOMAIN sig = Field, Open(sig, x), sign_pc # "finish",
             sign_pc' = "finish", signatures' = signatures
      PROVE  LastReturned'
  <2>1. hashed' = Add(hashed, x) /\ signature'["delta"] = Hash(hashed', x)
    BY <1>3 DEF Open, Field
  <2>2. \A p \in DOMAIN hashed' : (p \in DOMAIN hashed /\ hashed'[p] = hashed[p]) \/ hashed'[p] = x
    BY <1>0, <2>1, AddKeeps
  <2>3. NoRepeat(hashed')
    BY <1>0, <2>1, AddKeeps
  <2>4. \A p \in DOMAIN hashed' : hashed'[p] = x => At(p) = Hash(hashed', x)
    BY <2>3, HashExact DEF HashOf
  <2> QED BY <1>0, <1>3, <2>1, <2>2, <2>4 DEF LastReturned
<1>4. CASE ProveAndOpen
  <2>1. DOMAIN [signature EXCEPT !["qs_proof"] = QsProof(seed_iv, sk, chal2)] = Field
    BY DEF FaestInv, TypeOK
  <2> QED BY <1>3, <1>4, <2>1 DEF ProveAndOpen
<1>5. CASE Opened
  <2>1. DOMAIN signature = Field
    BY DEF FaestInv, TypeOK
  <2> QED BY <1>3, <1>5, <2>1 DEF Opened
<1>6. CASE Finish
  <2> DEFINE e == [msg |-> msg, key |-> sk, sig |-> Finished]
  <2>1. /\ signatures' = Append(signatures, e) /\ hashed' = hashed
    BY <1>6 DEF Finish
  <2>2. e.sig["delta"] = signature["delta"]
    BY DEF Finished, Field
  <2> HIDE DEF e
  <2>3. signatures \in Seq({signatures[n] : n \in DOMAIN signatures} \cup {e})
    BY DEF FaestInv, SignInv, IsSeq
  <2>4. /\ \A n \in DOMAIN signatures : n \in DOMAIN signatures' /\ signatures'[n] = signatures[n]
        /\ Len(signatures) + 1 \in DOMAIN signatures'
        /\ signatures'[Len(signatures) + 1] = e
    BY <2>1, <2>3
  <2> QED BY <1>0, <2>1, <2>2, <2>4 DEF LastReturned
<1>7. CASE SignCall \/ ProveAndForce \/ Grind \/ NextAttempt \/ VerifyCall \/ VerifyStep
           \/ UNCHANGED vars
  <2>1. /\ hashed' = hashed /\ signatures' = signatures
        /\ sign_pc = "finish" => sign_pc' = "finish" /\ signature' = signature
    BY <1>7 DEF SignCall, ProveAndForce, Grind, NextAttempt, VerifyCall, VerifyStep,
         VerifyRefuse, VerifyCompare, VerifyReturn, vars, signVars, Idle
  <2> QED BY <1>0, <2>1 DEF LastReturned
<1> QED BY <1>1, <1>2, <1>4, <1>5, <1>6, <1>7 DEF Next, SignStep

LEMMA SignInvStep ==
  ASSUME FaestInv, [Next]_vars
  PROVE  SignInv'
<1>1. IsSignature(signature) /\ IsSignature(v_sig) /\ DOMAIN signature = Field
  BY DEF FaestInv, SignInv, TypeOK
<1>2. IsSignature(signature')
  <2>1. CASE Finish
    BY <2>1 DEF Finish, Finished, IsSignature
  <2>2. CASE ~Finish
    BY <1>1, <2>2 DEF Next, SignStep, SignCall, CommitAttempt, CheckAttempt, ProveAndForce,
         ProveAndOpen, Open, Grind, Opened, NextAttempt, VerifyCall, VerifyStep,
         VerifyRefuse, VerifyCompare, VerifyReturn, vars, signVars, IsSignature
  <2> QED BY <2>1, <2>2
<1>3. IsSignature(v_sig')
  <2>1. CASE VerifyCall
    BY <2>1 DEF VerifyCall, Mixed, IsSignature
  <2>2. CASE VerifyReturn
    BY <2>2 DEF VerifyReturn, NoSignature, IsSignature
  <2>3. CASE ~VerifyCall /\ ~VerifyReturn
    <3>1. v_sig' = v_sig
      BY <2>3 DEF Next, SignStep, SignCall, CommitAttempt, CheckAttempt, ProveAndForce,
           ProveAndOpen, Grind, Opened, NextAttempt, Finish, VerifyStep,
           VerifyRefuse, VerifyCompare, vars, verifyVars
    <3> QED BY <1>1, <3>1
  <2> QED BY <2>1, <2>2, <2>3
<1>4. (verify_pc # "idle" => sign_pc \in {"idle", "signed", "failed"})'
  BY DEF FaestInv, SignInv, Next, SignStep, SignCall, CommitAttempt, CheckAttempt,
       ProveAndForce, ProveAndOpen, Grind, Opened, NextAttempt, Finish, VerifyCall,
       VerifyStep, VerifyRefuse, VerifyCompare, VerifyReturn, vars, signVars, verifyVars,
       Idle
<1> QED BY <1>2, <1>3, <1>4, HashedGrows, SignaturesMade, AttemptGoesOn,
           LastStaysReturned DEF SignInv

(* The terms a signature and the transcript are made of.                     *)
LEMMA TermsTyped ==
  /\ \A n \in Name : \A x : IsTerm(<<n, x>>)
  /\ \A n \in Name : \A x, y : IsTerm(<<n, x, y>>)
  /\ \A n \in Name : \A x, y, z : IsTerm(<<n, x, y, z>>)
BY DEF IsTerm

LEMMA FieldsTyped ==
  ASSUME NEW inputs, NEW gr, NEW e, Made(inputs, gr, e), NEW f \in Field
  PROVE  IsTerm(e.sig[f])
<1>1. PICK s \in Hashes(inputs), c1 \in Hashes(inputs), c2 \in Hashes(inputs),
           d \in Hashes(inputs), count \in Counter :
        MadeFrom(inputs, gr, e.key, e.msg, e.sig, s, c1, c2, d, count)
  BY DEF Made
<1>2. IsTerm(d)
  BY TermsTyped DEF Hashes, At, Name
<1>3. /\ IsTerm(Commitment(s)) /\ IsTerm(VoleProof(s, c1)) /\ IsTerm(Correction(s, e.key))
      /\ IsTerm(QsProof(s, e.key, c2)) /\ IsTerm(Opening(s, d)) /\ IsTerm(Iv(s))
      /\ IsTerm(Count(count))
  BY TermsTyped DEF Commitment, VoleProof, Correction, QsProof, Opening, Iv, Count, Name
<1> QED BY <1>1, <1>2, <1>3 DEF MadeFrom, First, Second, Third, Last, Field

LEMMA HashTyped ==
  ASSUME NEW inputs, NEW t, NEW x, HashOf(inputs, t, x)
  PROVE  IsTerm(t)
BY TermsTyped DEF HashOf, At, Name

LEMMA BadTyped == IsTerm(Bad)
BY TermsTyped DEF Bad, Name

(* The types of what the signer keeps of an attempt.                         *)
LEMMA SignTypeStep ==
  ASSUME FaestInv, [Next]_vars
  PROVE  /\ msg' \in Msg /\ sk' \in Key /\ random_seed' \in Rand
         /\ attempt_num' \in 0 .. ATTEMPT_RANGE - 1
         /\ \A t \in {seed_iv', chal1', chal2', qs_check'} : IsTerm(t)
         /\ DOMAIN signature' = Field /\ \A f \in Field : IsTerm(signature'[f])
         /\ sign_pc' \in {"idle", "attempt", "check", "prove", "force", "finish", "signed",
                          "failed"}
<1>0. /\ msg \in Msg /\ sk \in Key /\ random_seed \in Rand
      /\ attempt_num \in 0 .. ATTEMPT_RANGE - 1
      /\ IsTerm(seed_iv) /\ IsTerm(chal1) /\ IsTerm(chal2) /\ IsTerm(qs_check)
      /\ DOMAIN signature = Field /\ \A f \in Field : IsTerm(signature[f])
      /\ ATTEMPT_RANGE \in Nat \ {0} /\ NoRepeat(hashed)
  BY FaestAssumption DEF FaestInv, SignInv, TypeOK
<1>1. CASE SignCall
  BY <1>0, <1>1 DEF SignCall
<1>2. CASE CommitAttempt
  <2> DEFINE derive == SeedIv(sk, Mu(sk, msg), random_seed, attempt_num)
             inputs == Add(hashed, derive)
             s      == Hash(inputs, derive)
             c1     == Chal1(Mu(sk, msg), CommitCheck(s), Commitment(s), Iv(s))
  <2>1. /\ hashed' = Add(inputs, c1) /\ seed_iv' = s /\ chal1' = Hash(hashed', c1)
        /\ signature' = [signature EXCEPT !["commit"] = Commitment(s)]
        /\ sign_pc' = "check"
        /\ UNCHANGED <<msg, sk, random_seed, attempt_num, chal2, qs_check>>
    BY <1>2 DEF CommitAttempt
  <2>2. NoRepeat(inputs) /\ HashOf(inputs, s, derive)
    BY <1>0, AddKeeps, AddHashes
  <2> HIDE DEF derive, inputs, s, c1
  <2>3. IsTerm(s) /\ IsTerm(chal1')
    BY <2>1, <2>2, AddHashes, HashTyped
  <2>4. IsTerm(Commitment(s))
    BY TermsTyped DEF Commitment, Name
  <2> QED BY <1>0, <2>1, <2>3, <2>4
<1>3. CASE CheckAttempt
  <2> DEFINE c2 == Chal2(chal1, VoleProof(seed_iv, chal1), VoleCheck(seed_iv, chal1),
                         Correction(seed_iv, sk))
  <2>1. /\ hashed' = Add(hashed, c2) /\ chal2' = Hash(hashed', c2)
        /\ signature' = [signature EXCEPT
                           !["vole_check_proof"] = VoleProof(seed_iv, chal1),
                           !["correction"] = Correction(seed_iv, sk)]
        /\ sign_pc' = "prove"
        /\ UNCHANGED <<msg, sk, random_seed, attempt_num, seed_iv, chal1, qs_check>>
    BY <1>3 DEF CheckAttempt
  <2> HIDE DEF c2
  <2>2. IsTerm(chal2')
    BY <1>0, <2>1, AddHashes, HashTyped
  <2>3. IsTerm(VoleProof(seed_iv, chal1)) /\ IsTerm(Correction(seed_iv, sk))
    BY TermsTyped DEF VoleProof, Correction, Name
  <2> QED BY <1>0, <2>1, <2>2, <2>3
<1>4. IsTerm(QsProof(seed_iv, sk, chal2)) /\ IsTerm(QsCheck(seed_iv, sk, chal2))
  BY TermsTyped DEF QsProof, QsCheck, Name
<1>5. CASE ProveAndForce
  BY <1>0, <1>4, <1>5 DEF ProveAndForce
<1>6. ASSUME NEW sig, DOMAIN sig = Field, \A f \in Field : IsTerm(sig[f]),
             NEW x, Open(sig, x)
      PROVE  DOMAIN signature' = Field /\ \A f \in Field : IsTerm(signature'[f])
  <2> DEFINE d == Hash(hashed', x)
  <2>1. /\ hashed' = Add(hashed, x)
        /\ signature' = [sig EXCEPT !["delta"] = d, !["opening"] = Opening(seed_iv, d)]
    BY <1>6 DEF Open
  <2>2. IsTerm(d)
    BY <1>0, <2>1, AddHashes, HashTyped
  <2> HIDE DEF d
  <2>3. IsTerm(Opening(seed_iv, d))
    BY TermsTyped DEF Opening, Name
  <2> QED BY <1>6, <2>1, <2>2, <2>3
<1>7. CASE ProveAndOpen
  <2> DEFINE sig == [signature EXCEPT !["qs_proof"] = QsProof(seed_iv, sk, chal2)]
  <2>1. DOMAIN sig = Field /\ \A f \in Field : IsTerm(sig[f])
    BY <1>0, <1>4
  <2>2. /\ Open(sig, Delta(chal2, QsProof(seed_iv, sk, chal2), qs_check', Bad))
        /\ qs_check' = QsCheck(seed_iv, sk, chal2) /\ sign_pc' = "finish"
        /\ UNCHANGED <<msg, sk, random_seed, attempt_num, seed_iv, chal1, chal2>>
    BY <1>7 DEF ProveAndOpen
  <2> HIDE DEF sig
  <2> QED BY <1>0, <1>4, <1>6, <2>1, <2>2
<1>8. CASE Grind
  BY <1>0, <1>8 DEF Grind, signVars, FaestInv, TypeOK
<1>9. CASE Opened
  <2>1. /\ Open(signature, Delta(chal2, signature["qs_proof"], qs_check, Count(delta_out)))
        /\ sign_pc' = "finish"
        /\ UNCHANGED <<msg, sk, random_seed, attempt_num, seed_iv, chal1, chal2, qs_check>>
    BY <1>9 DEF Opened
  <2> QED BY <1>0, <1>6, <2>1
<1>10. CASE NextAttempt
  <2>1. Attempt(attempt_num) \in 0 .. ATTEMPT_RANGE - 1
    BY <1>0 DEF Attempt
  <2> QED BY <1>0, <1>10, <2>1, BadTyped DEF NextAttempt, EndLocals
<1>11. CASE Finish
  <2>1. \A f \in Field : IsTerm(Finished[f])
    <3>1. IsTerm(Iv(seed_iv)) /\ IsTerm(Count(out_counter))
      BY TermsTyped DEF Iv, Count, Name
    <3> QED BY <1>0, <3>1 DEF Finished
  <2>2. DOMAIN Finished = Field
    BY DEF Finished
  <2> QED BY <1>0, <1>11, <2>1, <2>2, BadTyped DEF Finish, EndLocals
<1>12. CASE VerifyCall \/ VerifyStep \/ UNCHANGED vars
  BY <1>0, <1>12 DEF VerifyCall, VerifyStep, VerifyRefuse, VerifyCompare, VerifyReturn,
       vars, signVars, FaestInv, TypeOK
<1> QED BY <1>1, <1>2, <1>3, <1>5, <1>7, <1>8, <1>9, <1>10, <1>11, <1>12
        DEF Next, SignStep

(* What the verifier is given, and what it says.                             *)
LEMMA VerifyTypeStep ==
  ASSUME FaestInv, [Next]_vars
  PROVE  /\ v_msg' \in Msg /\ v_pk' \in Key
         /\ DOMAIN v_sig' = Field /\ \A f \in Field : IsTerm(v_sig'[f])
         /\ verify_pc' \in {"idle", "verify", "valid", "invalid"}
<1>0. /\ msg \in Msg /\ sk \in Key /\ v_msg \in Msg /\ v_pk \in Key
      /\ DOMAIN v_sig = Field /\ \A f \in Field : IsTerm(v_sig[f])
      /\ verify_pc \in {"idle", "verify", "valid", "invalid"}
  BY DEF FaestInv, TypeOK
<1>1. CASE VerifyCall
  <2>1. PICK sig \in Sent, other \in Sent \cup {NoSignature}, fields \in Replaced :
          v_sig' = Mixed(sig, other, fields)
    BY <1>1 DEF VerifyCall
  <2>2. \A given \in Sent, f \in Field : IsTerm(given[f])
    BY FieldsTyped DEF Sent, FaestInv, SignInv
  <2>3. \A f \in Field : IsTerm(NoSignature[f])
    BY BadTyped DEF NoSignature
  <2> QED BY <1>1, <2>1, <2>2, <2>3 DEF VerifyCall, Mixed
<1>2. CASE VerifyStep
  BY <1>0, <1>2, BadTyped DEF VerifyStep, VerifyRefuse, VerifyCompare, VerifyReturn,
       NoSignature
<1>3. CASE ~VerifyCall /\ ~VerifyStep
  <2>1. UNCHANGED verifyVars
    BY <1>3 DEF Next, SignStep, SignCall, CommitAttempt, CheckAttempt, ProveAndForce,
         ProveAndOpen, Grind, Opened, NextAttempt, Finish, vars
  <2> QED BY <1>0, <2>1 DEF verifyVars
<1> QED BY <1>1, <1>2, <1>3

LEMMA GroundTypeStep ==
  ASSUME FaestInv, [Next]_vars
  PROVE  \A t \in DOMAIN ground' : IsTerm(t) /\ ground'[t] \in Outcomes
<1>1. Ground' /\ \A t \in DOMAIN ground : IsTerm(t)
  BY OnlyForceSteps DEF FaestInv, TypeOK
<1>2. \A t \in DOMAIN ground' : IsTerm(t)
  <2>1. CASE ProveAndForce
    BY <1>1, <2>1 DEF ProveAndForce, FaestInv, TypeOK
  <2>2. CASE ~ProveAndForce
    <3>1. ground' = ground
      BY <2>2 DEF Next, SignStep, SignCall, CommitAttempt, CheckAttempt, ProveAndOpen,
           Grind, Opened, NextAttempt, Finish, VerifyCall, VerifyStep, VerifyRefuse,
           VerifyCompare, VerifyReturn, vars, signVars
    <3> QED BY <1>1, <3>1
  <2> QED BY <2>1, <2>2
<1> QED BY <1>1, <1>2 DEF Ground

LEMMA FaestInvStep ==
  ASSUME FaestInv, [Next]_vars
  PROVE  FaestInv'
<1>1. Ground' /\ [ForceNext]_forceVars
  BY OnlyForceSteps DEF FaestInv
<1>2. ForceTypeOK' /\ ForceInv'
  BY <1>1, ForceTypeStep, ForceInvStep DEF FaestInv, TypeOK
<1>3. SignInv'
  BY SignInvStep
<1>4. (signatures \in Seq([msg : Msg, key : Key, sig : Sent]))'
  <2>1. \A n \in DOMAIN signatures' : signatures'[n] \in [msg : Msg, key : Key, sig : Sent']
    BY <1>3 DEF SignInv, Made, Sent
  <2>2. IsSeq(signatures')
    BY <1>3 DEF SignInv
  <2>3. \A S : (\A n \in DOMAIN signatures' : signatures'[n] \in S) => signatures' \in Seq(S)
    BY <2>2 DEF IsSeq
  <2> QED BY <2>1, <2>3
<1>5. DOMAIN hashed' = 1 .. Len(hashed')
  BY <1>3 DEF SignInv, NoRepeat, IsSeq
<1>6. TypeOK'
  BY <1>2, <1>4, <1>5, SignTypeStep, VerifyTypeStep, GroundTypeStep DEF TypeOK
<1> QED BY <1>1, <1>2, <1>3, <1>6 DEF FaestInv

LEMMA FaestInvInit == Init => FaestInv
<1> SUFFICES ASSUME Init PROVE FaestInv
  OBVIOUS
<1>1. ForceTypeOK /\ ForceInv /\ Ground
  BY ForceInvInit DEF Init, Ground
<1>2. NoRepeat(hashed) /\ IsSeq(signatures) /\ signatures \in Seq([msg : Msg, key : Key, sig : Sent])
  BY DEF Init, NoRepeat, IsSeq
<1>3. TypeOK
  BY <1>1, <1>2, BadTyped, FaestAssumption DEF Init, TypeOK, NoSignature
<1>4. Attempted /\ LastReturned
  BY DEF Init, Attempted, LastReturned
<1>5. IsSignature(signature) /\ IsSignature(v_sig)
  BY DEF Init, IsSignature, NoSignature
<1>6. \A n \in DOMAIN signatures : Made(hashed, ground, signatures[n])
  BY DEF Init
<1>7. SignInv
  BY <1>2, <1>4, <1>5, <1>6 DEF SignInv, Init
<1> QED BY <1>1, <1>3, <1>7 DEF FaestInv

LEMMA FaestInvariant == Spec => []FaestInv
<1>1. Init => FaestInv
  BY FaestInvInit
<1>2. FaestInv /\ [Next]_vars => FaestInv'
  BY FaestInvStep
<1> QED BY <1>1, <1>2, PTL DEF Spec

(* Every variable of signer and verifier keeps its kind, and the two counters  *)
(* stay in their widths, for any sequence of calls.                          *)
THEOREM TypeCorrect == Spec => []TypeOK
<1>1. FaestInv => TypeOK
  BY DEF FaestInv
<1> QED BY <1>1, FaestInvariant, PTL

(* A seed is never opened for two challenges, whatever attempts fail and       *)
(* however often a caller repeats its random seed or gives none: signatures   *)
(* with the same commitment are the same in all their fields.                *)
THEOREM NoSeedOpenedTwice == Spec => []SeedOpenedOnce
<1>1. FaestInv => SeedOpenedOnce
  <2> SUFFICES ASSUME FaestInv, NEW a \in DOMAIN signatures, NEW b \in DOMAIN signatures,
                      signatures[a].sig.commit = signatures[b].sig.commit
               PROVE  signatures[a] = signatures[b]
    BY DEF SeedOpenedOnce
  <2>1. /\ Made(hashed, ground, signatures[a]) /\ Made(hashed, ground, signatures[b])
        /\ NoRepeat(hashed)
    BY DEF FaestInv, SignInv
  <2> QED BY <2>1, MadeOnce
<1> QED BY <1>1, FaestInvariant, PTL

---------------------------------------------------------------------------
(* The verifier.                                                             *)

(* A signature that is genuine opens, and its last challenge comes out.       *)
LEMMA GenuineAccepted ==
  ASSUME FaestInv, Genuine
  PROVE  Opens(v_sig) /\ v_sig.delta = DeltaCheck(v_msg, v_pk, v_sig)
<1>1. PICK i \in DOMAIN signatures :
        signatures[i] = [msg |-> v_msg, key |-> v_pk, sig |-> v_sig]
  BY DEF Genuine
<1>2. Made(hashed, ground, signatures[i]) /\ NoRepeat(hashed)
  BY DEF FaestInv, SignInv
<1>3. PICK s \in Hashes(hashed), c1 \in Hashes(hashed), c2 \in Hashes(hashed),
           d \in Hashes(hashed), count \in Counter :
        MadeFrom(hashed, ground, v_pk, v_msg, v_sig, s, c1, c2, d, count)
  BY <1>1, <1>2 DEF Made
<1>4. /\ v_sig.commit = Commitment(s) /\ v_sig.iv = Iv(s)
      /\ v_sig.vole_check_proof = VoleProof(s, c1) /\ v_sig.correction = Correction(s, v_pk)
      /\ v_sig.qs_proof = QsProof(s, v_pk, c2)
      /\ v_sig.delta = d /\ v_sig.opening = Opening(s, d)
      /\ HasCounter => v_sig.counter = Count(count)
  BY <1>3 DEF MadeFrom, First, Second, Third, Last
<1>5. Iv(s)[1] = "iv" /\ Iv(s)[2] = s
  BY DEF Iv
<1>6. Opens(v_sig) /\ v_sig.iv[2] = s
  BY <1>4, <1>5 DEF Opens
<1>7. <<"q", s>> # Bad /\ <<"q", s>>[2] = s
  BY DEF Bad
<1> DEFINE q     == Reconstruct(v_sig)
           x1    == Hash(hashed, Chal1(Mu(v_pk, v_msg), CheckOf(v_sig), v_sig.commit, v_sig.iv))
           check == VoleCheckOf(q, v_sig.vole_check_proof, x1)
           x2    == Hash(hashed, Chal2(x1, v_sig.vole_check_proof, check, v_sig.correction))
           qs    == QsCheckOf(q, v_pk, v_sig.correction, v_sig.qs_proof, x2)
           x3    == Hash(hashed, Delta(x2, v_sig.qs_proof, qs, CountOf(v_sig)))
<1>8. q = <<"q", s>>
  BY <1>4, <1>6 DEF Reconstruct
<1>9. CheckOf(v_sig) = CommitCheck(s)
  BY <1>6 DEF CheckOf
<1>10. x1 = c1
  BY <1>2, <1>3, <1>4, <1>9, HashExact DEF MadeFrom, First
<1>11. check = VoleCheck(s, c1)
  BY <1>4, <1>7, <1>8, <1>10 DEF VoleCheckOf
<1>12. x2 = c2
  BY <1>2, <1>3, <1>4, <1>10, <1>11, HashExact DEF MadeFrom, Second
<1>13. qs = QsCheck(s, v_pk, c2)
  BY <1>4, <1>7, <1>8, <1>12 DEF QsCheckOf
<1>14. Delta(x2, v_sig.qs_proof, qs, CountOf(v_sig)) = LastInput(v_pk, s, c2, count)
  BY <1>4, <1>12, <1>13 DEF LastInput, Delta, CountOf
<1>15. x3 = d
  BY <1>2, <1>3, <1>14, HashExact DEF MadeFrom, Last
<1>16. x3 = DeltaCheck(v_msg, v_pk, v_sig)
  BY DEF DeltaCheck
<1> QED BY <1>4, <1>6, <1>15, <1>16

(* Nothing else comes out: a last challenge that was ever hashed is that of    *)
(* one signature, and each field of it, the message and the key go into it.   *)
LEMMA AcceptedGenuine ==
  ASSUME FaestInv, verify_pc = "verify", v_sig.delta = DeltaCheck(v_msg, v_pk, v_sig)
  PROVE  Genuine
<1>0. NoRepeat(hashed) /\ LastReturned /\ sign_pc # "finish" /\ IsSignature(v_sig)
  BY DEF FaestInv, SignInv
<1> DEFINE q     == Reconstruct(v_sig)
           i1    == Chal1(Mu(v_pk, v_msg), CheckOf(v_sig), v_sig.commit, v_sig.iv)
           x1    == Hash(hashed, i1)
           check == VoleCheckOf(q, v_sig.vole_check_proof, x1)
           i2    == Chal2(x1, v_sig.vole_check_proof, check, v_sig.correction)
           x2    == Hash(hashed, i2)
           qs    == QsCheckOf(q, v_pk, v_sig.correction, v_sig.qs_proof, x2)
           i3    == Delta(x2, v_sig.qs_proof, qs, CountOf(v_sig))
<1>1. v_sig.delta = Hash(hashed, i3)
  BY DEF DeltaCheck
<1>2. i3[1] = "delta"
  BY DEF Delta
<1>3. IsTerm(v_sig.delta)
  BY DEF FaestInv, TypeOK, Field
<1> HIDE DEF i3
<1>4. HashOf(hashed, v_sig.delta, i3)
  <2>1. v_sig.delta # <<"fresh", i3[1]>>
    BY <1>3 DEF IsTerm, Name
  <2> QED BY <1>0, <1>1, <2>1, HashExact
<1>5. PICK n \in DOMAIN signatures : signatures[n].sig["delta"] = v_sig.delta
  BY <1>0, <1>2, <1>4 DEF LastReturned, HashOf
<1> DEFINE e == signatures[n]
<1>6. Made(hashed, ground, e)
  BY DEF FaestInv, SignInv
<1> HIDE DEF e
<1>7. PICK s \in Hashes(hashed), c1 \in Hashes(hashed), c2 \in Hashes(hashed),
           d \in Hashes(hashed), count \in Counter :
        MadeFrom(hashed, ground, e.key, e.msg, e.sig, s, c1, c2, d, count)
  BY <1>6 DEF Made
<1>8. d = v_sig.delta
  BY <1>5, <1>7 DEF MadeFrom, Last, e
<1>9. i3 = LastInput(e.key, s, c2, count)
  BY <1>0, <1>4, <1>7, <1>8, HashExact DEF MadeFrom, Last
<1>10. /\ x2 = c2 /\ v_sig.qs_proof = QsProof(s, e.key, c2) /\ qs = QsCheck(s, e.key, c2)
       /\ HasCounter => CountOf(v_sig) = Count(count)
  BY <1>9 DEF i3, LastInput, Delta
<1>11. q # Bad /\ v_sig.correction = Correction(q[2], v_pk) /\ qs = QsCheck(q[2], v_pk, x2)
  BY <1>10 DEF QsCheckOf, Bad, QsCheck
<1>12. q[2] = s /\ v_pk = e.key
  <2>1. QsCheck(q[2], v_pk, x2) = QsCheck(s, e.key, c2)
    BY <1>10, <1>11
  <2> QED BY <2>1 DEF QsCheck
<1>13. Opens(v_sig) /\ v_sig.commit = Commitment(s) /\ v_sig.iv[2] = s
  <2>1. Opens(v_sig) /\ v_sig.commit = Commitment(v_sig.iv[2]) /\ q = <<"q", v_sig.iv[2]>>
    BY <1>11 DEF Reconstruct
  <2>2. q[2] = v_sig.iv[2]
    BY <2>1
  <2> QED BY <1>12, <2>1, <2>2
<1>14. i2 = Chal2(c1, VoleProof(s, c1), VoleCheck(s, c1), Correction(s, e.key))
  <2>1. HashOf(hashed, c2, Chal2(c1, VoleProof(s, c1), VoleCheck(s, c1), Correction(s, e.key)))
    BY <1>7 DEF MadeFrom, Second
  <2>2. PICK p \in DOMAIN hashed : c2 = At(p)
    BY DEF Hashes
  <2>3. Hash(hashed, i2) # <<"fresh", i2[1]>>
    BY <1>10, <2>2 DEF At
  <2>4. HashOf(hashed, c2, i2)
    BY <1>0, <1>10, <2>3, HashExact
  <2> QED BY <1>0, <2>1, <2>4, HashExact
<1>15. x1 = c1 /\ v_sig.vole_check_proof = VoleProof(s, c1)
       /\ v_sig.correction = Correction(s, e.key)
  <2> HIDE DEF x1, check
  <2> QED BY <1>14 DEF Chal2
<1>16. i1 = Chal1(Mu(e.key, e.msg), CommitCheck(s), Commitment(s), Iv(s))
  <2>1. HashOf(hashed, c1, Chal1(Mu(e.key, e.msg), CommitCheck(s), Commitment(s), Iv(s)))
    BY <1>7 DEF MadeFrom, First
  <2>2. PICK p \in DOMAIN hashed : c1 = At(p)
    BY DEF Hashes
  <2>3. Hash(hashed, i1) # <<"fresh", i1[1]>>
    BY <1>15, <2>2 DEF At
  <2>4. HashOf(hashed, c1, i1)
    BY <1>0, <1>15, <2>3, HashExact
  <2> QED BY <1>0, <2>1, <2>4, HashExact
<1>17. Mu(v_pk, v_msg) = Mu(e.key, e.msg) /\ v_sig.iv = Iv(s)
  BY <1>16 DEF Chal1
<1>18. v_msg = e.msg
  BY <1>17 DEF Mu
<1>19. v_sig.opening = Opening(s, v_sig.delta)
  BY <1>13 DEF Opens
<1>20. HasCounter => v_sig.counter = Count(count)
  BY <1>10 DEF CountOf
<1>21. \A f \in Field : v_sig[f] = e.sig[f]
  BY <1>7, <1>8, <1>10, <1>13, <1>15, <1>17, <1>19, <1>20
     DEF MadeFrom, First, Second, Third, Last, Field
<1>22. v_sig = e.sig
  BY <1>0, <1>6, <1>21 DEF Made, IsSignature
<1>23. e = [msg |-> v_msg, key |-> v_pk, sig |-> v_sig]
  BY <1>6, <1>12, <1>18, <1>22 DEF Made
<1> QED BY <1>23 DEF Genuine, e

(* What the two sides do, seen from outside.                                 *)
Signed == {<<signatures[i].key, signatures[i].msg>> : i \in DOMAIN signatures}

LEMMA SchemeStutters ==
  ASSUME UNCHANGED <<signatures, verifyVars>>
  PROVE  UNCHANGED Scheme!schemeVars
BY DEF verifyVars, Scheme!schemeVars, Genuine

LEMMA SchemeStep ==
  ASSUME FaestInv, [Next]_vars
  PROVE  [Scheme!Next]_(Scheme!schemeVars)
<1>0. /\ verify_pc # "idle" => sign_pc \in {"idle", "signed", "failed"}
      /\ IsSeq(signatures) /\ msg \in Msg /\ sk \in Key
  BY DEF FaestInv, SignInv, TypeOK
<1>1. CASE Finish
  <2> DEFINE e == [msg |-> msg, key |-> sk, sig |-> Finished]
  <2>1. verify_pc = "idle" /\ verify_pc' = "idle"
    BY <1>0, <1>1 DEF Finish, verifyVars
  <2>2. signatures' = Append(signatures, e) /\ UNCHANGED verifyVars
    BY <1>1 DEF Finish
  <2>3. e.msg = msg /\ e.key = sk
    OBVIOUS
  <2> HIDE DEF e
  <2>4. signatures \in Seq({signatures[n] : n \in DOMAIN signatures} \cup {e})
    BY <1>0 DEF IsSeq
  <2>5. /\ DOMAIN signatures' = DOMAIN signatures \cup {Len(signatures) + 1}
        /\ \A n \in DOMAIN signatures : signatures'[n] = signatures[n]
        /\ signatures'[Len(signatures) + 1] = e
    BY <2>2, <2>4
  <2>6. Signed' = Signed \cup {<<sk, msg>>}
    BY <2>3, <2>5 DEF Signed
  <2>7. Scheme!Sign
    BY <1>0, <2>1, <2>2, <2>6 DEF Scheme!Sign, Signed, verifyVars
  <2> QED BY <2>7 DEF Scheme!Next
<1>2. CASE VerifyCall
  <2>1. /\ verify_pc = "idle" /\ verify_pc' = "verify" /\ signatures' = signatures
        /\ v_msg' \in Msg /\ v_pk' \in Key
    BY <1>2 DEF VerifyCall, Idle, signVars
  <2>2. Genuine' => <<v_pk', v_msg'>> \in Signed'
    BY DEF Genuine, Signed
  <2>3. <<v_pk', v_msg'>> \in Key \X Msg
    BY <2>1
  <2>4. (IF verify_pc' = "idle" THEN {} ELSE {<<v_pk', v_msg'>>}) = {<<v_pk', v_msg'>>}
    BY <2>1
  <2>5. (verify_pc' # "idle" /\ Genuine') \in BOOLEAN
    OBVIOUS
  <2>6. Signed' = Signed
    BY <2>1 DEF Signed
  <2>7. (IF verify_pc' \in {"valid", "invalid"} THEN verify_pc' ELSE "none") = "none"
    BY <2>1
  <2>8. (verify_pc' # "idle" /\ Genuine') =>
          (IF verify_pc' = "idle" THEN {} ELSE {<<v_pk', v_msg'>>}) \subseteq Signed
    BY <2>2, <2>4, <2>6
  <2>9. Scheme!Present
    BY <2>3, <2>4, <2>5, <2>6, <2>7, <2>8, Zenon DEF Scheme!Present, Signed
  <2> QED BY <2>9 DEF Scheme!Next
<1>3. CASE VerifyRefuse
  <2>1. /\ verify_pc = "verify" /\ verify_pc' = "invalid"
        /\ UNCHANGED <<signatures, v_msg, v_pk, v_sig>> /\ ~Genuine
    BY <1>3, GenuineAccepted DEF VerifyRefuse, signVars
  <2>2. Scheme!Verify
    BY <2>1 DEF Scheme!Verify, Genuine
  <2> QED BY <2>2 DEF Scheme!Next
<1>4. CASE VerifyCompare
  <2>1. /\ verify_pc = "verify" /\ UNCHANGED <<signatures, v_msg, v_pk, v_sig>>
        /\ verify_pc' = IF Genuine THEN "valid" ELSE "invalid"
    BY <1>4, GenuineAccepted, AcceptedGenuine DEF VerifyCompare, signVars
  <2>2. Scheme!Verify
    BY <2>1 DEF Scheme!Verify, Genuine
  <2> QED BY <2>2 DEF Scheme!Next
<1>5. CASE VerifyReturn
  <2>1. verify_pc' = "idle" /\ signatures' = signatures
    BY <1>5 DEF VerifyReturn, signVars
  <2>2. Scheme!Forget
    BY <2>1 DEF Scheme!Forget
  <2> QED BY <2>2 DEF Scheme!Next
<1>6. CASE SignCall \/ CommitAttempt \/ CheckAttempt \/ ProveAndForce \/ ProveAndOpen
           \/ Grind \/ Opened \/ NextAttempt \/ UNCHANGED vars
  <2>1. UNCHANGED <<signatures, verifyVars>>
    BY <1>6 DEF SignCall, CommitAttempt, CheckAttempt, ProveAndForce, ProveAndOpen, Grind,
         Opened, NextAttempt, signVars, vars
  <2> QED BY <2>1, SchemeStutters
<1> QED BY <1>1, <1>2, <1>3, <1>4, <1>5, <1>6 DEF Next, SignStep, VerifyStep

(* faest_sign and faest_verify are a signature scheme: the verifier accepts a  *)
(* message and a signature exactly if faest_sign returned that signature,     *)
(* unchanged in every field, for that message and key.                       *)
THEOREM ImplementsSignatureScheme == Spec => ImplementsScheme
<1>1. Init => Scheme!Init
  BY DEF Init, Scheme!Init
<1>2. FaestInv /\ [Next]_vars => [Scheme!Next]_(Scheme!schemeVars)
  BY SchemeStep
<1> QED BY <1>1, <1>2, FaestInvariant, PTL DEF Spec, ImplementsScheme, Scheme!Spec
============================================================================

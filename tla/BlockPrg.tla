------------------------------- MODULE BlockPrg -------------------------------
(***************************************************************************)
(* Counter mode and the generators made of it (prgs.h): the rounds of AES  *)
(* and Rijndael over several blocks of several keys at once, the first     *)
(* blocks of an AES key while its schedule is still being made.            *)
(*                                                                         *)
(* A block is the sequence of what it was and of what has been done to it; *)
(* a round key is the words of the schedule with the name of the key.      *)
(***************************************************************************)
EXTENDS BlockCipher, TLC

RIJNDAEL192_ROUNDS == 12
RIJNDAEL256_ROUNDS == 14
Added(block, key) == Append(block, <<"add", key>>)
Round(block, key) == Append(block, <<"round", key>>)
LastRound(block, key) == Append(block, <<"last", key>>)

(* The round key is part of a schedule that may not be so far yet. *)
RoundKey(l, words, nk, round) ==
    IF nk * (round + 1) <= Len(words) THEN <<l, SubSeq(words, nk * round + 1, nk * (round + 1))>>
    ELSE <<l, "unwritten">>

(* Block i belongs to a key by division, whose schedule is aeses[l].       *)
Step(block, key, round, rounds) ==
    CASE round = 0 -> Added(block, key)
      [] round \in 1 .. rounds - 1 -> Round(block, key)
      [] OTHER -> LastRound(block, key)
Schedules(names, words) == [l \in DOMAIN names |-> [name |-> names[l], words |-> words]]
KeyNames(state, evalsPerKey) == [l \in 1 .. Len(state) \div evalsPerKey |-> l]
aes_round(aeses, state, evalsPerKey, round, nk) ==
    LET Key(l) == RoundKey(aeses[l].name, aeses[l].words, 4, round)
    IN  FoldLeft(LAMBDA done, block :
                    Append(done, Step(block, Key(Len(done) \div evalsPerKey + 1), round, AES_ROUNDS(nk))),
                 <<>>, state)
Encrypted(aeses, state, evalsPerKey, nk) ==
    FoldLeft(LAMBDA s, round : aes_round(aeses, s, evalsPerKey, round - 1, nk), state,
             [round \in 1 .. AES_ROUNDS(nk) + 1 |-> round])

(* The rounds follow the schedule, a round key each; a 256-bit key is two  *)
(* of them already.  All keys are expanded alike.                          *)
ScheduledRound(nk, t, evalsPerKey, round) ==
    LET schedule == AesKeygenRound(nk, t.schedule, round)
        aeses == Schedules(KeyNames(t.state, evalsPerKey), schedule.words)
    IN  [schedule |-> schedule, state |-> aes_round(aeses, t.state, evalsPerKey, round, nk)]
aes_keygen_impl(nk, state, evalsPerKey) ==
    LET schedule == AesKeygenInit(nk)
        aeses == Schedules(KeyNames(state, evalsPerKey), schedule.words)
        first == aes_round(aeses, state, evalsPerKey, 0, nk)
        start == [schedule |-> schedule,
                  state |-> IF nk = 8 THEN aes_round(aeses, first, evalsPerKey, 1, nk) ELSE first]
    IN  FoldLeft(LAMBDA t, round : ScheduledRound(nk, t, evalsPerKey, round), start, KeygenRounds(nk))

(* A word has WordValues values here and a counter as many. *)
WordValues == 64
Inputs(ivs, numBlocks, counter) ==
    LET blocks == CounterBlocks(ivs, numBlocks, counter, WordValues, WordValues) IN [i \in DOMAIN blocks |-> <<blocks[i]>>]
aes_keygen_ctr(nk, ivs, numBlocks, counter) ==
    LET made == aes_keygen_impl(nk, Inputs(ivs, numBlocks, counter), numBlocks)
    IN  [prgs |-> [words |-> made.schedule.words, ivs |-> ivs], output |-> made.state]
aes_ctr(nk, aeses, numBlocks, counter) ==
    Encrypted(Schedules([l \in DOMAIN aeses.ivs |-> l], aeses.words), Inputs(aeses.ivs, numBlocks, counter), numBlocks, nk)

-------------------------------------------------------------------------------
(* One key for all, between two additions of what stands in for the key.   *)
Whitened(keys, numBlocks, counter) ==
    [i \in 1 .. Len(keys) * numBlocks |->
        <<{<<"counter", counter + ((i - 1) % numBlocks)>>, keys[(i - 1) \div numBlocks + 1]}>>]
WhitenedAgain(state, keys, numBlocks) ==
    FoldLeft(LAMBDA done, block : Append(done, Added(block, keys[Len(done) \div numBlocks + 1])), <<>>, state)
aes_fixed_key_ctr(words, keys, numBlocks, counter) ==
    LET all == Len(keys) * numBlocks
        fixed == Schedules(<<"fixed">>, words)
    IN  WhitenedAgain(Encrypted(fixed, Whitened(keys, numBlocks, counter), all, 4), keys, numBlocks)

(* A round of eight columns exchanges bytes before the instruction; which  *)
(* round is the last is asked of AES for 256-bit keys.                     *)
rijndael256_round(words, state, round) ==
    FoldLeft(LAMBDA done, block :
                Append(done, Step(block, RoundKey("fixed", words, 8, round), round, AES_ROUNDS(8))),
             <<>>, state)
rijndael256_fixed_key_ctr(words, keys, numBlocks, counter) ==
    LET state == FoldLeft(LAMBDA s, round : rijndael256_round(words, s, round - 1),
                          Whitened(keys, numBlocks, counter), [round \in 1 .. RIJNDAEL256_ROUNDS + 1 |-> round])
    IN  WhitenedAgain(state, keys, numBlocks)

rijndael192_encrypt_block(words, block) ==
    LET Key(r) == RoundKey("fixed", words, 6, r)
        rounds == FoldLeft(LAMBDA b, round : Round(b, Key(round)), Added(block, Key(0)),
                           [round \in 1 .. RIJNDAEL192_ROUNDS - 1 |-> round])
    IN  LastRound(rounds, Key(RIJNDAEL192_ROUNDS))
(* Not added again at the end, as the others are. *)
rijndael192_fixed_key_ctr(words, keys, numBlocks, counter) ==
    LET state == Whitened(keys, numBlocks, counter)
    IN  FoldLeft(LAMBDA done, block : Append(done, rijndael192_encrypt_block(words, block)), <<>>, state)

FixedKeyWords(nk) ==
    CASE nk = 4 -> AesKeygen(4).words [] nk = 6 -> rijndael192_keygen.words [] nk = 8 -> rijndael256_keygen.words
rijndael_fixed_key_ctr(nk, keys, numBlocks, counter) ==
    CASE nk = 4 -> aes_fixed_key_ctr(FixedKeyWords(4), keys, numBlocks, counter)
      [] nk = 6 -> rijndael192_fixed_key_ctr(FixedKeyWords(6), keys, numBlocks, counter)
      [] nk = 8 -> rijndael256_fixed_key_ctr(FixedKeyWords(8), keys, numBlocks, counter)

-------------------------------------------------------------------------------
(* A generator is made with its first blocks and then asked for others;    *)
(* the one by hashing has no others.                                       *)
PrgAesCtrInit(nk, keys, ivs, numBlocks, counter) == aes_keygen_ctr(nk, ivs, numBlocks, counter)
PrgAesCtrGen(nk, prgs, numBlocks, counter) == aes_ctr(nk, prgs, numBlocks, counter)
PrgFixedKeyInit(nk, keys, numBlocks, counter) ==
    [prgs |-> keys, output |-> rijndael_fixed_key_ctr(nk, keys, numBlocks, counter)]
PrgFixedKeyGen(nk, prgs, numBlocks, counter) == rijndael_fixed_key_ctr(nk, prgs, numBlocks, counter)
shake_prg(keys, ivs, numBlocks) ==
    [i \in 1 .. Len(keys) * numBlocks |->
        LET k == (i - 1) \div numBlocks + 1 IN <<<<keys[k], ivs[k], 0>>, (i - 1) % numBlocks>>]
PrgShakeInit(keys, ivs, numBlocks) == [prgs |-> <<>>, output |-> shake_prg(keys, ivs, numBlocks)]

PrgInit(kind, nk, keys, ivs, numBlocks) ==
    CASE kind = "aes" -> PrgAesCtrInit(nk, keys, ivs, numBlocks, 0)
      [] kind = "fixed key" -> PrgFixedKeyInit(nk, keys, numBlocks, 0)
      [] kind = "shake" -> PrgShakeInit(keys, ivs, numBlocks)
PrgGen(kind, nk, prgs, numBlocks, counter) ==
    CASE kind = "aes" -> PrgAesCtrGen(nk, prgs, numBlocks, counter)
      [] kind = "fixed key" -> PrgFixedKeyGen(nk, prgs, numBlocks, counter)

(* Every key becomes stretch adjacent blocks of its own size.  Output is   *)
(* in words of 64 bits: the first two or three blocks of every key, then   *)
(* two at a time, and of the last ones what fits.  Variant: all of them.   *)
CopiedWords(out, first, blocks, words, blockWords) ==
    [p \in first .. first + words - 1 |->
        <<blocks[(p - first) \div blockWords + 1], (p - first) % blockWords>>] @@ out
copy_prg_output(out, stretchWords, j, n, numBlocks, words, blockWords, blocks) ==
    FoldLeft(LAMBDA o, k :
                CopiedWords(o, stretchWords * (k - 1) + j * blockWords,
                            SubSeq(blocks, numBlocks * (k - 1) + 1, numBlocks * n), words, blockWords),
             out, [k \in 1 .. n |-> k])

PrgBlockWords(kind, nk) == IF kind = "aes" THEN 2 ELSE nk \div 2
BlocksPerKey(stretchWords, blockWords) == (stretchWords + blockWords - 1) \div blockWords
FirstBlocks(blocksPerKey) == IF blocksPerKey % 2 = 1 THEN 3 ELSE 2
LastWordsWhole(numBlocks, blockWords, extra) == numBlocks * blockWords
LastWords(numBlocks, blockWords, extra) == numBlocks * blockWords - extra

GenerateMore(kind, nk, stretchWords, n, prgs, out, j) ==
    LET blockWords == PrgBlockWords(kind, nk)
        blocksPerKey == BlocksPerKey(stretchWords, blockWords)
        extra == blocksPerKey * blockWords - stretchWords
        words == IF j + 2 < blocksPerKey \/ extra = 0 THEN 2 * blockWords ELSE LastWords(2, blockWords, extra)
    IN  copy_prg_output(out, stretchWords, j, n, 2, words, blockWords, PrgGen(kind, nk, prgs, 2, j))
expand_chunk(kind, nk, keys, ivs, stretch) ==
    LET stretchWords == stretch * (nk \div 2)
        blockWords == PrgBlockWords(kind, nk)
        blocksPerKey == BlocksPerKey(stretchWords, blockWords)
        first == FirstBlocks(blocksPerKey)
        made == PrgInit(kind, nk, keys, ivs, first)
        n == Len(keys)
    IN  FoldLeft(LAMBDA out, k : GenerateMore(kind, nk, stretchWords, n, made.prgs, out, first + 2 * (k - 1)),
                 copy_prg_output(<<>>, stretchWords, 0, n, first, first * blockWords, blockWords, made.output),
                 [k \in 1 .. (blocksPerKey - first + 1) \div 2 |-> k])
===============================================================================

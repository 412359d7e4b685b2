----------------------------- MODULE BlockCipher -----------------------------
(***************************************************************************)
(* What surrounds the AES instructions in avx2/aes_impl.h and aes_impl.c:  *)
(* the key schedules, the rotation of rows for states of six and eight     *)
(* columns, and the counters of counter mode.                              *)
(*                                                                         *)
(* A word of a key schedule is the set of the terms whose sum it is: words *)
(* of the key and outputs of the S-box, which are named in the order of    *)
(* its uses.  A use is a record of how, of what and with what constant.    *)
(***************************************************************************)
EXTENDS BitPolys

KeyTerm(k) == <<"key", k>>
SboxTerm(k) == <<"sbox", k>>
RotSub == "RotWord and SubWord"
SubOnly == "SubWord"

aes_round_constants == <<1, 2, 4, 8, 16, 32, 64, 128, 27, 54, 108, 216, 171, 77>>

(* Applies the S-box in the state s of a schedule; the output is Sboxed. *)
Use(s, how, word, rc) == [s EXCEPT !.uses = Append(@, <<how, word, rc>>)]
Sboxed(s) == {SboxTerm(Len(s.uses))}
AddToAll(x, term) == [k \in DOMAIN x |-> Xor(x[k], term)]

-------------------------------------------------------------------------------
(* The AES schedule, one key a lane: nk slices that already have all of    *)
(* the next words but the S-box outputs.                                   *)
CumulativeXor(x, first, n) ==
    SubSeq(x, 1, first) \o [k \in 1 .. n |-> XorAll(SubSeq(x, first + 1, first + k))]
      \o SubSeq(x, first + n + 1, Len(x))
Rotate(x, by) == SubSeq(x, Len(x) - by + 1, Len(x)) \o SubSeq(x, 1, Len(x) - by)

AesKeygenInit(nk) ==
    LET key == [k \in 1 .. nk |-> {KeyTerm(k - 1)}]
        slices == CASE nk = 4 -> CumulativeXor(key, 0, 4)
                    [] nk = 6 -> CumulativeXor(Rotate(key, 2), 2, 4)
                    [] nk = 8 -> CumulativeXor(CumulativeXor(key, 0, 4), 4, 4)
    IN  [words |-> key, slices |-> slices, nextSbox |-> key[nk], uses |-> <<>>]

(* Every use of the S-box but every other one of a 256-bit key, which has   *)
(* no constant.                                                            *)
KeygenUse(nk, s, round) ==
    IF nk = 8 /\ round % 2 = 1
    THEN Use(s, SubOnly, s.nextSbox, 0)
    ELSE Use(s, RotSub, s.nextSbox, aes_round_constants[(2 * round + 1) \div (nk \div 2)])

(* The output goes to the words from the one it is for; every third time    *)
(* of a 192-bit key that is not the first.                                 *)
KeygenAdd(nk, s, round) ==
    LET start == IF nk = 6 /\ round % 3 = 1 THEN 2 ELSE 0
        end == IF nk = 6 THEN 6 ELSE 4
    IN  [s EXCEPT !.slices = [k \in DOMAIN @ |-> IF k \in start + 1 .. end THEN Xor(@[k], Sboxed(s)) ELSE @[k]]]

KeygenSbox(nk, s, round) ==
    IF nk # 6 \/ round % 3 < 2 THEN KeygenAdd(nk, KeygenUse(nk, s, round), round) ELSE s

KeygenNextSbox(nk, s, round) ==
    CASE nk # 6 \/ round % 3 = 2 -> s.slices[4]
      [] nk = 6 /\ round % 3 = 0 -> s.slices[6]
      [] OTHER -> s.nextSbox

KeygenNextSlices(nk, slices, round) ==
    LET next == (((round % 3) + 1) * 2)
    IN  CASE nk = 6 -> CumulativeXor(CumulativeXor(Rotate(slices, 2), 1, next - 1), next, 6 - next)
          [] nk = 4 -> CumulativeXor(slices, 0, 4)
          [] nk = 8 -> Rotate(CumulativeXor(slices, 0, 4), 4)

(* The round key replaces what an earlier round left in its place.         *)
AesKeygenRound(nk, s, round) ==
    LET t == KeygenSbox(nk, s, round)
    IN  IF round < nk \div 4 THEN s
        ELSE [t EXCEPT !.words = SubSeq(@, 1, 4 * round) \o SubSeq(t.slices, 1, 4),
                       !.nextSbox = KeygenNextSbox(nk, t, round),
                       !.slices = KeygenNextSlices(nk, @, round)]

AES_ROUNDS(nk) == nk + 6
(* One or two rounds are left for after the loop, which is unrolled. *)
KeygenRounds(nk) ==
    LET start == IF nk = 8 THEN 2 ELSE 1
        end == IF nk = 8 THEN AES_ROUNDS(nk) - 2 ELSE AES_ROUNDS(nk) - 1
        after == IF end + 2 <= AES_ROUNDS(nk) THEN <<end + 1, end + 2>> ELSE <<end + 1>>
    IN  [k \in 1 .. end - start + 1 |-> start + k - 1] \o after
AesKeygen(nk) ==
    FoldLeft(LAMBDA s, round : AesKeygenRound(nk, s, round), AesKeygenInit(nk), KeygenRounds(nk))

-------------------------------------------------------------------------------
(* The schedules of Rijndael with blocks as long as the key: the next      *)
(* block from the last one and an S-box output for its first word, and for *)
(* eight words another one for the fifth.                                  *)
PrefixSums(x) == [k \in DOMAIN x |-> XorAll(SubSeq(x, 1, k))]

rijndael192_keygen_helper(s, rc) ==
    LET old == SubSeq(s.words, Len(s.words) - 5, Len(s.words))
        used == Use(s, RotSub, old[6], rc)
        low == AddToAll(PrefixSums(SubSeq(old, 1, 4)), Sboxed(used))
        high == PrefixSums(<<Xor(old[5], low[4]), old[6]>>)
    IN  [used EXCEPT !.words = @ \o low \o high]
rijndael256_keygen_helper(s, rc) ==
    LET old == SubSeq(s.words, Len(s.words) - 7, Len(s.words))
        used == Use(s, RotSub, old[8], rc)
        low == AddToAll(PrefixSums(SubSeq(old, 1, 4)), Sboxed(used))
        again == Use(used, SubOnly, low[4], 0)
        high == AddToAll(PrefixSums(SubSeq(old, 5, 8)), Sboxed(again))
    IN  [again EXCEPT !.words = @ \o low \o high]

RijndaelInit(nk) == [words |-> [k \in 1 .. nk |-> {KeyTerm(k - 1)}], uses |-> <<>>]
rijndael192_keygen ==
    FoldLeft(rijndael192_keygen_helper, RijndaelInit(6), <<1, 2, 4, 8, 16, 32, 64, 128, 27, 54, 108, 216>>)
rijndael256_keygen ==
    FoldLeft(rijndael256_keygen_helper, RijndaelInit(8),
             <<1, 2, 4, 8, 16, 32, 64, 128, 27, 54, 108, 216, 171, 77>>)

-------------------------------------------------------------------------------
(* States are pairs of blocks of 16 bytes, byte 4c + r in column c and row *)
(* r.  Bytes are exchanged between the blocks and moved within them so that *)
(* the rotation in the AES instruction completes the one that is due.      *)
Blend(x, y, mask) == [b \in 1 .. 16 |-> IF b - 1 \in mask THEN y[b] ELSE x[b]]
ShuffleBytes(x, from) == [b \in 1 .. 16 |-> x[from[b] + 1]]
rijndael256_rotate_rows_undo_128(s) ==
    LET mask == {1, 2, 3, 6, 7, 10, 11, 15}
        perm == <<0, 1, 6, 7, 4, 5, 10, 11, 8, 9, 14, 15, 12, 13, 2, 3>>
    IN  <<ShuffleBytes(Blend(s[1], s[2], mask), perm), ShuffleBytes(Blend(s[2], s[1], mask), perm)>>
rijndael192_rotate_rows_undo_128(s) ==
    LET mask == {1, 2, 6, 7, 11}
        shuffle0 == <<0, 1, 2, 11, 4, 5, 6, 7, 8, 9, 10, 3, 12, 13, 14, 15>>
        shuffle1 == <<0, 1, 2, 11, 4, 5, 6, 7, 0, 1, 2, 11, 4, 5, 6, 7>>
    IN  <<ShuffleBytes(Blend(s[1], s[2], mask), shuffle0), ShuffleBytes(Blend(s[2], s[1], mask), shuffle1)>>
(* The last two columns of six are kept twice. *)
cvt192_to_2x128(x) == <<SubSeq(x, 1, 16), SubSeq(x, 17, 24) \o SubSeq(x, 17, 24)>>

(* The rotation of rows within the AES instructions. *)
ShiftRows(x) == [b \in 1 .. 16 |-> x[(4 * (((b - 1) \div 4 + ((b - 1) % 4)) % 4)) + ((b - 1) % 4) + 1]]

-------------------------------------------------------------------------------
(* An initialization vector is a pair of words, the low one last; words    *)
(* are modulo base and counters modulo counters.                           *)
aes_is_iv_bad(iv, counterMax, base) == iv[2] > base - 1 - counterMax
aes_add_counter_to_iv_good(iv, ctr, base) == <<iv[1], (iv[2] + ctr) % base>>
aes_add_counter_to_iv_bad(iv, ctr, base) ==
    LET sum == (iv[1] * base + iv[2] + ctr) % (base * base) IN <<sum \div base, sum % base>>

(* The counter is extended to a word before the number of blocks is added, *)
(* and cut again for the sum.  One bad vector is enough for all.           *)
CounterBlocks(ivs, numBlocks, counter, base, counters) ==
    LET badIv == \E l \in DOMAIN ivs : aes_is_iv_bad(ivs[l], counter + numBlocks, base)
        Input(l, m) ==
            LET ctr == (counter + m) % counters
            IN  IF badIv THEN aes_add_counter_to_iv_bad(ivs[l], ctr, base)
                ELSE aes_add_counter_to_iv_good(ivs[l], ctr, base)
    IN  [k \in 1 .. Len(ivs) * numBlocks |-> Input((k - 1) \div numBlocks + 1, (k - 1) % numBlocks)]
===============================================================================

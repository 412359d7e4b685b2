------------------------------ MODULE Transpose ------------------------------
(***************************************************************************)
(* The transposition of the macs from columns to rows, avx2/transpose.c,   *)
(* followed bit by bit, and the small transpositions of                    *)
(* avx2/transpose_impl.h, which permute the elements of a register.        *)
(*                                                                         *)
(* A bit of the matrix is a pair <<column, position>>.  n is the security  *)
(* parameter: the number of columns before padding.                        *)
(***************************************************************************)
EXTENDS Integers, Sequences, FiniteSets, SequencesExt

ROWS == 256
CHUNK == 16
CHUNK_SHIFT == 4
COLS_SHIFT(n) == IF n = 128 THEN 7 ELSE 8
COLS(n) == 2^COLS_SHIFT(n)

BitOf(x, i) == (x \div 2^i) % 2

rotate_left(x, shift, bits) ==
    LET s == shift % bits IN ((x * 2^s) % 2^bits) + x \div 2^(bits - s)
rotate_right(x, shift, bits) ==
    LET s == shift % bits IN ((x * 2^(bits - s)) % 2^bits) + x \div 2^s

(* Eklundh's exchange of bit i of the column with bit i of the position,   *)
(* within blocks of 8 by 8.                                                *)
Exchange(b, i) ==
    LET s == 2^i
    IN  CASE BitOf(b[1], i) = 0 /\ BitOf(b[2], i) = 1 -> <<b[1] + s, b[2] - s>>
          [] BitOf(b[1], i) = 1 /\ BitOf(b[2], i) = 0 -> <<b[1] - s, b[2] + s>>
          [] OTHER -> b
Block8x8(b) == FoldLeft(Exchange, b, <<0, 1, 2>>)

(* The first column of a pair in a chunk of the stage: its index, rotated  *)
(* back, is in the chunk, and the stage's bit is clear in what the index   *)
(* has within the chunk.  Variant: nothing is rotated.                     *)
FirstUnrotated(n, iStart, i, jChunk, column) ==
    column \div CHUNK = jChunk \div CHUNK /\ BitOf(column, i % COLS_SHIFT(n)) = 0
FirstOfPair(n, iStart, i, jChunk, column) ==
    LET shift == COLS_SHIFT(n)
        index == rotate_right(column, iStart, shift)
    IN  /\ index \div CHUNK = jChunk \div CHUNK
        /\ BitOf(rotate_left(index % CHUNK, iStart, shift), i % shift) = 0

(* Units of 2^i bits of both columns, alternating: the units of the lower  *)
(* halves of the 128-bit lanes to the first column, the others to the      *)
(* second.                                                                 *)
Unpacked(b, i, j, other, second) ==
    LET unit == 2^i
        lane == b[2] \div 128
        index == (b[2] % 128) \div unit
        half == 64 \div unit
    IN  <<IF index < half THEN j ELSE other,
          128 * lane + unit * (2 * (index % half) + second) + (b[2] % unit)>>

UnpackStage(n, b, iStart, i, jChunk) ==
    LET distance == 2^i
        First(column) == column >= 0 /\ FirstOfPair(n, iStart, i, jChunk, column)
    IN  CASE First(b[1]) -> Unpacked(b, i, b[1], b[1] + distance, 0)
          [] First(b[1] - distance) -> Unpacked(b, i, b[1] - distance, b[1], 1)
          [] OTHER -> b

(* Unpacking leaves the columns with some of their index bits reversed. *)
Reversed(j, shift) ==
    LET low == shift - 5
        Field(x) == BitOf(x, low) * 8 + BitOf(x, low + 1) * 4 + BitOf(x, low + 2) * 2 + BitOf(x, low + 3)
    IN  j - ((j \div 2^low) % 16) * 2^low + Field(j) * 2^low

UsedBits(n) == IF n = 192 THEN 192 ELSE ROWS

(* The last stage exchanges 128-bit lanes and writes both rows out: the    *)
(* places in the output that the bit is copied to.                         *)
WrittenBy(n, b, jChunk) ==
    LET First(column) == column >= 0 /\ FirstOfPair(n, 7, 7, jChunk, column)
        distance == 2^(7 % COLS_SHIFT(n))
        lane == b[2] \div 128
        Places(j, second) ==
            LET row == Reversed(rotate_right(j, 8, COLS_SHIFT(n)), COLS_SHIFT(n)) + lane * (COLS(n) \div 2)
                bit == 128 * second + (b[2] % 128)
            IN  {row * UsedBits(n) + e : e \in {bit} \cap 0 .. UsedBits(n) - 1}
    IN  (IF First(b[1]) THEN Places(b[1], 0) ELSE {})
          \cup (IF First(b[1] - distance) THEN Places(b[1] - distance, 1) ELSE {})

(* All stages of the first group on a chunk, then the next chunk. *)
RECURSIVE FirstGroup(_, _, _, _)
FirstGroup(n, b, jChunk, i) ==
    CASE jChunk = COLS(n) -> b
      [] jChunk < COLS(n) /\ i = 3 + CHUNK_SHIFT -> FirstGroup(n, b, jChunk + CHUNK, 3)
      [] OTHER -> FirstGroup(n, UnpackStage(n, b, 3, i, jChunk), jChunk, i + 1)
transposeVxN(n, b) ==
    LET unpacked == FirstGroup(n, Block8x8(b), 0, 3)
    IN  UNION {WrittenBy(n, unpacked, CHUNK * k) : k \in 0 .. COLS(n) \div CHUNK - 1}

(* The matrix in slices of ROWS rows. *)
transpose_secpar(n, column, row) ==
    {(row \div ROWS) * ROWS * n + e : e \in transposeVxN(n, <<column, row % ROWS>>)}

-------------------------------------------------------------------------------
(* Registers as sequences of elements. *)
Unpack(x, y, part) ==
    LET h == Len(x) \div 2
    IN  [k \in 1 .. 2 * h |-> (IF k % 2 = 1 THEN x ELSE y)[part * h + (k + 1) \div 2]]
UnpackLow(x, y) == Unpack(x, y, 0)
UnpackHigh(x, y) == Unpack(x, y, 1)
Low64(x, y) == SubSeq(x, 1, 2) \o SubSeq(y, 1, 2)
High64(x, y) == SubSeq(x, 3, 4) \o SubSeq(y, 3, 4)
Shuffle(x, from) == [k \in DOMAIN from |-> x[from[k] + 1]]

transpose4x4_32(in) ==
    LET lowAB == UnpackLow(in[1], in[2])
        highAB == UnpackHigh(in[1], in[2])
        lowCD == UnpackLow(in[3], in[4])
        highCD == UnpackHigh(in[3], in[4])
    IN  <<Low64(lowAB, lowCD), High64(lowAB, lowCD), Low64(highAB, highCD), High64(highAB, highCD)>>
transpose4x2_32(in0, in1) ==
    LET Pick(at) == Shuffle(in0, at) \o Shuffle(in1, at)
    IN  <<Pick(<<0, 2>>), Pick(<<1, 3>>)>>
transpose2x2_64(x) == Shuffle(x, <<0, 2, 1, 3>>)
transpose8x2_8(x) == Shuffle(x, <<0, 2, 4, 6, 8, 10, 12, 14, 1, 3, 5, 7, 9, 11, 13, 15>>)
transpose2x8_8(x) == Shuffle(x, <<0, 8, 1, 9, 2, 10, 3, 11, 4, 12, 5, 13, 6, 14, 7, 15>>)
transpose2x8_16(x) ==
    LET row0 == SubSeq(x, 1, Len(x) \div 2)
        row1 == SubSeq(x, Len(x) \div 2 + 1, Len(x))
    IN  UnpackLow(row0, row1) \o UnpackHigh(row0, row1)
(* Bytes are paired within each lane, and the pairs transposed as words.   *)
transpose4x8_8(x) ==
    LET lanes == transpose2x8_8(SubSeq(x, 1, 16)) \o transpose2x8_8(SubSeq(x, 17, 32))
        words == transpose2x8_16([k \in 1 .. 16 |-> <<lanes[2 * k - 1], lanes[2 * k]>>])
    IN  FlattenSeq(words)
(* Two shuffles of 24 bytes; -1 leaves a byte zero. *)
transpose3x8_8(x) ==
    LET x01 == SubSeq(x, 1, 16)
        x2 == SubSeq(x, 17, 24)
        from01 == <<0, 8, -1, 1, 9, -1, 2, 10, -1, 3, 11, -1, 4, 12, -1, 5>>
        from2 == <<-1, -1, 0, -1, -1, 1, -1, -1, 2, -1, -1, 3, -1, -1, 4, -1>>
        inserted == SubSeq(x2, 5, 8) \o SubSeq(x01, 5, 16)
    IN  [k \in 1 .. 16 |-> IF from01[k] >= 0 THEN x01[from01[k] + 1] ELSE x2[from2[k] + 1]]
          \o Shuffle(inserted, <<13, 1, 6, 14, 2, 7, 15, 3>>)

(* The same exchanges within one word: in each stage the low half keeps    *)
(* the bits that the mask selects, the high half those shifted.            *)
Swap8x8(x, i) ==
    LET shift == 32 - 2^i
        mask == {e \in 0 .. 31 : BitOf(e, i) = 1}
        differ == {e \in mask : (e \in x) # (e + shift \in x)}
        flipped == differ \cup {e + shift : e \in differ}
    IN  (x \ flipped) \cup (flipped \ x)
transpose8x8_1(x) == FoldLeft(Swap8x8, x, <<0, 1, 2>>)
===============================================================================

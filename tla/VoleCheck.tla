------------------------------ MODULE VoleCheck ------------------------------
(***************************************************************************)
(* The consistency check of vole_check.c: signer and verifier hash every   *)
(* column of their side of the correlation, the signer the column u first, *)
(* and compare what they hashed.  Lengths are in units of 16 bits, the     *)
(* greatest that divides them all.                                         *)
(*                                                                         *)
(* A column is a sequence of sums of unknowns, and the hash of it a set of *)
(* monomials <<row of the matrix, hasher, monomial of the hasher>>: what   *)
(* is equal is equal for every challenge, what differs does for nearly all.*)
(***************************************************************************)
EXTENDS UniversalHash

CONSTANTS
    SECURITY_PARAM,
    QUICKSILVER_ROWS,
    COLS            \* of the SECURITY_PARAM columns

WordUnits == 4      \* in 64 bits
HashUnits == SECURITY_PARAM + 1
Unit(k) == k + 1    \* units are counted from 0

-------------------------------------------------------------------------------
(* A chunk of SECURITY_PARAM bits as one element, and as 64-bit words.     *)
Element(chunk, first, n) ==
    UNION {{<<0, o, a>> : a \in chunk[Unit(first + o)]} : o \in 0 .. n - 1}
WordStarts == [k \in 1 .. SECURITY_PARAM \div WordUnits |-> (k - 1) * WordUnits]

UpdateBoth(hashers, chunk) ==
    [secpar |-> hasher_update(hashers.secpar, Element(chunk, 0, SECURITY_PARAM)),
     word |-> FoldLeft(LAMBDA h, j : hasher_update(h, Element(chunk, j, WordUnits)), hashers.word, WordStarts)]

PaddedRows == ((QUICKSILVER_ROWS + SECURITY_PARAM - 1) \div SECURITY_PARAM) * SECURITY_PARAM
StartColumn ==
    [secpar |-> hasher_init_state(PaddedRows \div SECURITY_PARAM),
     word |-> hasher_init_state(PaddedRows \div WordUnits)]

(* The whole chunks. *)
ChunkStarts == [k \in 1 .. QUICKSILVER_ROWS \div SECURITY_PARAM |-> (k - 1) * SECURITY_PARAM]
HashChunks(column) ==
    FoldLeft(LAMBDA h, i : UpdateBoth(h, SubSeq(column, Unit(i), i + SECURITY_PARAM)), StartColumn, ChunkStarts)

(* What is left of the rows goes with zeros to a whole chunk.              *)
Left == QUICKSILVER_ROWS % SECURITY_PARAM
LastChunk(column) ==
    SubSeq(column, QUICKSILVER_ROWS - Left + 1, QUICKSILVER_ROWS)
        \o [k \in 1 .. SECURITY_PARAM - Left |-> {}]
HashColumn(column) ==
    IF Left = 0 THEN HashChunks(column) ELSE UpdateBoth(HashChunks(column), LastChunk(column))

Mapped(hasher, p) == {<<row, hasher, m>> : row \in 1 .. 2, m \in p}
(* The block and two bytes after the rows hide the hash of u.              *)
Mask(column) ==
    UNION {{<<IF k < SECURITY_PARAM THEN 1 ELSE 2, "mask", <<0, k % SECURITY_PARAM, a>>>> :
                a \in column[Unit(QUICKSILVER_ROWS + k)]} : k \in 0 .. HashUnits - 1}
HashOutput(column) ==
    LET h == HashColumn(column)
    IN  Xor(Mapped("secpar", h.secpar.state) \cup Mapped("word", h.word.state), Mask(column))

(* The verifier adds the hash of u where its bit of delta is set. Variant: *)
(* the signer's column is taken as it is.                                  *)
NotCorrected(verifier, output, bit, u_hash) == output
Corrected(verifier, output, bit, u_hash) ==
    IF verifier /\ bit = 1 THEN Xor(output, u_hash) ELSE output

(* The columns from 0, for the signer after u, whose hash is the proof.    *)
vole_check_both(verifier, u, vq, delta, received) ==
    LET u_hash == IF verifier THEN received ELSE HashOutput(u)
    IN  [proof |-> u_hash,
         check |-> [c \in 1 .. COLS |->
                        Corrected(verifier, HashOutput(vq[c]), IF verifier THEN delta[c] ELSE 0, u_hash)]]

vole_check_sender(u, v) == vole_check_both(FALSE, u, v, <<>>, {})
vole_check_receiver(q, delta, proof) == vole_check_both(TRUE, <<>>, q, delta, proof).check
===============================================================================

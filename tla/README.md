# GreatWall in TLA+

This directory holds a formal model of the signature scheme implemented in this
repository: FAEST, a "VOLE in the head" signature, with one GGM tree for all
vectors and the Greatwall one-way function. The model follows the C code, not the
paper. TLC checks it on small instances; for the parts where the arithmetic of
indices matters most, TLAPS proves it for every size. The protocols are state
machines; the algorithms below them (fields, polynomials, ciphers, hashing, proof
system) are operators, compared with what they are to compute.

The program is sequential. What makes it hard is not scheduling but: long chains of
indices worked out in different ways by signer and verifier; loops over vectors of
two lengths, in chunks that do not divide them; memory that is allocated and not
initialised; a signer that starts over when its challenge cannot be opened; and a
verifier that is given anything at all.

## 1. Inventory

| component (source) | state | operations | what makes it correct | where |
|---|---|---|---|---|
| batched vector commitment (`vector_com.c` 564-626, 715-879, macros of `vector_com.h`) | one heap of seeds, two output arrays, marks, a buffer of opening seeds | commit, open, verify | heap, outputs and opening are filled exactly once and inside their bounds; hidden leaves stay hidden; the verifier rebuilds what the signer had; the size counted is the size written | `BatchLayout`, `BatchCommit`, `BatchOpen`, `BatchVerify`, `BatchVC` |
| grinding (`vector_com.c` 628-713) | 32-bit counter, four lanes | `force_vector_open` | returns the least counter that opens, with its own challenge; ends | `ForceOpen` |
| signature (`faest.c` 251-546) | transcript hashes, attempt number, signature buffer | `faest_sign_attempt`, `faest_sign`, `faest_verify` | accepts what was signed and nothing else; a seed is opened for one challenge only; calls return | `Faest`, `SignatureScheme` |
| small-field vole (`small_vole.c`, `small_vole.h`) | accumulator, columns | `vole_sender`, `vole_receiver` | column b is the sum of the keys whose index has bit b; q = v + delta u | `SmallVole`, `VolePermute` |
| vole commitment (`vole_commit.c`) | pointers into leaves, columns, delta, commitment | `vole_commit`, `vole_reconstruct`, `hash_hashed_leaves` | every vector hashed once in the same order on both sides; one correlation over all columns | `VoleCommit` |
| vector commitment, one tree a vector (`vector_com.c` 199-562) | interleaved trees; the verifier's forest of subtrees | `vector_commit`, `vector_open`, `vector_verify` | each tree grown from seeds already there; every leaf in its place; the assertions on chunks; as the batched one | `TreeLayout`, `TreeExpand`, `TreeCommit`, `TreeVerify`, `TreeVC` |
| vole check, universal hashing (`vole_check.c`, `universal_hash.h`) | hasher states that count down | sender, receiver, hashers | a column is hashed to one polynomial; the check fails for any wrong unit of any column | `UniversalHash`, `VoleCheck` |
| quicksilver (`quicksilver.h`, `quicksilver.c`) | pairs (value, mac), two hashers | field operations, constraints, prove, verify | the verifier's mac is the prover's polynomial at delta, through every operation | `Quicksilver` |
| one-way function, witness, constraints (`owf_proof.c`, `greatwall.c`, `faest.c` 93-218) | - | `owf_block_*`, `faest_compute_witness`, `owf_constraints` | the constraints hold of the signer's witness and of no other | `OwfProof`, `BlockField` |
| interface, randomness (`api.c`, `randomness_os.c`) | caller's buffers, file descriptor | keypair, sign, open, `rand_bytes` | buffers may overlap; every byte of randomness is there if success is said; calls return | `KeyApi`, `Randomness` |
| pseudorandom generators, block ciphers (`prgs.h`, `aes_impl.*`, `vector_com.c` 23-96) | key schedules, counters | keygen, counter mode, `expand_chunk` | every key is expanded to its own stream, complete and in order | `BlockCipher`, `BlockPrg` |
| blocks, polynomials, transposition (`block_impl.h`, `polynomials_impl.h`, `polynomials.c`, `transpose*`) | registers and memory | products, reductions, embeddings, loads, stores, transposition | they compute in the field they are for, and an ignored half never gets into a result | `BitPolys`, `BlockField`, `PowBin`, `Polynomials`, `Embeddings`, `Transpose` |
| hashing (`hash.*`, Keccak) | - | - | third-party code; a hash is a name of its input | `shake_prg` only, in `BlockPrg` |
| Rain, MQ | - | - | other variants' one-way functions, not reached by `faest.c` | not modelled |

How they interact: `faest_sign` calls `vole_commit`, which calls the vector commitment
and `vole_sender` for each vector; hashes what it got; runs the vole check and
quicksilver; and calls `force_vector_open`, which calls the vector commitment again to
open it for each challenge it finds. `faest_verify` calls `vole_reconstruct`, which
calls the verifier of the vector commitment and `vole_receiver`, and works out the
same hashes. `crypto_sign` and `crypto_sign_open` put message and signature into the caller's
buffers around these two. The vole check hashes the columns with the hashers of
`universal_hash.h`; quicksilver gets the columns transposed to rows, evaluates the
constraints of `owf_proof.c` on them, and hashes those with the same hashers. Both compute
in the fields of `polynomials_impl.h`, the witness and the public key in those of
`block_impl.h`. There are no threads, callbacks or files; only `rand_bytes` reads from
the operating system. Errors are `false`, returned upwards.

`PROJECT.json` lists the hazards, each at its line. The ones no test of the
repository reaches: a second attempt of `faest_sign`, the last batch of counters, an
opening that was not made by the signer, a heap entry read before it was written,
sizes other than those of the parameter sets, a random device that is interrupted, a
witness wrong in one high bit, a register whose ignored half is not zero, and a store that is wider
than what it is for.

## 2. The modules

### Batched vector commitment

- `BatchLayout`: the macros of `vector_com.h`: where vector `v`'s leaf `i` is in the heap
  (vectors of the longer length come first at each half), where its hash and its leaf
  go in the outputs. `VolePermute`: the permutation of the leaves
  (`vole_permute_key_index_inv`, with its loop of shifts, and its increment).
- `BatchCommit`: `batch_vector_commit`, a step per iteration of each loop. A seed is
  named by its node, as "the seed of node n"; expanding a node that holds anything
  else yields something else. Unwritten memory is `Garbage`. Constants: number of
  vectors, how many of them are long, lengths, the two chunk sizes (half the PRG
  widths), as the macros have them.
- `BatchOpen`: marks, the count of seeds, the refusal, the walk down the heap.
- `BatchVerify`: the top bits, the same marks, the reading of seeds, padding, expansion
  and the writing of leaves. Its heap starts as garbage. The allocation is a
  variable: with a set top bit the function returns without freeing (line 806).
- `BatchVC`: signer and verifier together. The signer is challenged again and again,
  as in `force_vector_open`, until it opened; the verifier gets the opening, as it is or
  (with `TAMPER`) with the challenge changed, a block replaced, or two seeds exchanged.
- `VectorCommitment`: what it promises, without heaps: a commitment is a set of values;
  a challenge hides one of each vector; whoever verifies gets all others, and the
  commitments, or refuses. `BatchVC!ImplementsVC` says the code implements it.

### Vector commitment with one tree a vector

- `PowersOfTwo`: the shifts of the code, and the bits of an index; also used by `SmallVole`.
- `TreeLayout`: the interleaved trees. Level by level, tree after tree, so the children of
  `x` are at `2x + T`. `T` is the number of vectors at the signer; at the verifier it is the number of
  bits of the challenge, since each level of each vector gives one subtree.
- `TreeExpand`: what both sides use: `expand_chunk`, `expand_tree` (a step for each choice of
  an ancestor, each chunk expanded on the way down, each round of leaves) and `write_leaves`,
  which carries the permuted index along by `vole_permute_inv_increment`. `TreeCommit`
  takes it as `S`, on the signer's forest, `TreeVerify` as `V`, on the verifier's.
- `TreeCommit`: `vector_commit` from its roots, with the recursion of the five
  `expand_roots` macros as a stack of calls, and `vector_open`.
- `TreeVerify`: `reorder_verifier_keys`, the recursion of the five `expand_verifier_subtrees`
  macros with its limit for each level, the loop over the trees and the levels of each,
  and the chunk of leaves left over around the hidden one. `last_chunk` is set back to
  unwritten for every tree, as a local of the loop's body.
- `TreeVC`: signer and verifier together. `TreeVC!ImplementsVC` says that it implements the
  same `VectorCommitment` as the batched one. A block is named by the node of
  the signer's forest that holds it.

### Grinding and the signature

- `ForceOpen`: `force_vector_open`, with the challenge of a counter named by the counter
  and `outcome` a function from counters to what comes of their challenge: a bit that has to
  be zero, an opening that is too long, or success. The counter wraps at
  `COUNTER_RANGE`, standing for 2^32.
- `Faest`: an attempt is four steps (up to the first challenge, up to the second, the
  proof, the end), between them the steps of `ForceOpen`. Values are terms: a
  commitment is `<<"commit", s>>` for the seed `s` it was made from. A hash is the number of its input
  in the table `hashed` of everything hashed so far, so equal inputs and only they
  have equal hashes; that is the random oracle the scheme is built on. What grinding
  a transcript comes to is chosen when it is first ground and remembered in `ground`.
  The verifier gets any signature made so far with up to `MAX_REPLACED` fields taken
  from another one or garbled, for any message and key. `faest_compute_witness`
  returns true for every key, so a call of `faest_sign` always starts its attempts.
  A proof or check made for other data is `Bad`: that wrong proofs are not accepted by
  chance is the cryptography of the scheme, which this project assumes.
- `SignatureScheme`: signed, presented, verdict.

### Vole

- `SmallVole`: `vole`, a step per chunk of `VOLE_WIDTH` keys, with `xor_reduce` and Gray's
  code as they are. All is linear, so a block is the set of the keys' outputs that add
  up to it. One block of each column is modelled: the others go through the same steps. The permutation of the
  keys (`vole_permute_key_index`) is here, over an exclusive or that is a constant with the assumption that it works
  bit by bit (`XorAssumption`); `MCSmallVole` gives it the real one, as a table.
- `VoleCommit`: the loops over the vectors. A vole of one vector is taken from `SmallVole`: columns
  `V(p, b)` and `U(p)` for the vector whose leaves start at `p`, and at the receiver
  `V + delta (U + correction)` if the pointers into the leaves and into delta belong
  together, garbage if not.

### Algorithms

These modules, except `PowBin`, have no state: they are operators, and `MCPrimitives` and `MCAlgorithms` are the
machine that applies each of them to one input after another. Bits are members of sets: an
element of a field, a register or a memory is the set of the positions of its ones, and `Xor` is
the symmetric difference (`BitPolys`).

- `BlockField`: products, squares, reductions and matrix products in the six block fields,
  word by word as `block_impl.h` does them; packing of keys. A block of 137 bits is three words but is
  loaded and stored through two registers, which are four: its operations are on a memory, and read
  and write the word behind the block as well. The inverses and the
  S-boxes' powers are followed by their exponents. `PowerTables` is the second row of
  each table `pow_mat` of `greatwall.c`.
- `PowBin`: `block137_pow_bin`, the caller of those operations, an action for each line of its loop. Its variable `frame` is
  the call's stack: its locals in some order, with or without the pointers (they may be in registers) and
  something behind the last local that is checked or restored on return. Blocks are at even words, since the code
  stores registers at their addresses as if they were aligned. A pointer overwritten with zeros ends in `Crash`.
- `Polynomials`: Karatsuba and Toom products and the reductions, shift by shift, with
  registers wider than their polynomials. `Embeddings`: loads and stores, and how bits get into
  the field.
- `Transpose`: `transpose_secpar`, in chunks of rotated indices, stage by stage, and the small
  transpositions of registers.
- `BlockCipher`: key schedules, counters and the rotations of rows around the AES
  instruction. `BlockPrg`: how blocks of several keys go through the rounds together, the
  first ones while the schedule is still being made, and `expand_chunk`.
- `UniversalHash`: the hashers with their keys as unknowns, so that a hash is a polynomial and equal
  hashes mean equal for every key. `VoleCheck`: sender and receiver on columns of unknowns.
- `Quicksilver`: each operation for prover and verifier, as the macros of
  `quicksilver.h` instantiate one text twice. `OwfProof`: the one-way function, the witness and the
  constraints, with the size of the function and its tables as constants.

### Interface and randomness

- `Randomness`: `rand_bytes` by the system call or by the device: each call, each failure with
  its `errno`, each retry.
- `KeyApi`: `crypto_sign_keypair`, `crypto_sign`, `crypto_sign_open` over one memory in which the
  caller's buffers lie anywhere, each calling `rand_bytes`. A signature is one that only key and
  message tell (`faest.c` is in `Faest`), and the signed message may be changed in a byte
  on its way. `rand_bytes`' result is ignored, as the code does.

`MCBatchVC`, `MCTreeVC` and `MCFaest` give the constants that are functions their values.

## 3. The runs

Deadlock is checked in `tree_vc`, where the step `Over` allows only a verifier that has
returned to stop. In the others it is not: each is a call or a bounded number of calls
that ends.

| run | what is asked | bounds, and why they suffice |
|---|---|---|
| `batch_vc` | Is the heap of the signer right (`TreeCorrect`), are the outputs (`OutputsCorrect`, written once: `WrittenOnce`), is every index of the three functions in its range (`TypeOK`), is the counted size the written one (`SizePredicted`), does the opening hide (`HiddenStaysHidden`), does the verifier read only what is written (`OnlyWrittenRead`), and do both implement the abstract commitment (`ImplementsVC`)? | Three vectors, one of eight leaves and two of four: both lengths, a first loop of several chunk sizes and a second of several chunks of four nodes, more than one leaf chunk, and a threshold (five seeds) that some challenges exceed and others do not reach, so that refusal and padding both happen. Every challenge. |
| `batch_vc_tampered` | The same questions that make sense for an opening not made by the signer. | One vector of four leaves and two of two, chunks of two nodes and one leaf; every replaced block, every exchange of seeds, every other challenge. |
| `tree_vc` | Is every seed derived from one already there and on its own path (`ForestCorrect`), are the outputs permuted as they should be (`OutputsCorrect`), does the opening hide (`HiddenStaysHidden`), do the assertions of the code hold (`AssertionsHold`), is nothing unwritten hashed (`OnlyWrittenRead`), and do both implement the abstract commitment (`ImplementsVC`)? | Six vectors, three of sixteen leaves and three of eight, chunks of four: one whole chunk of roots and two left over; 21 subtrees, so that chunks straddle subtrees of different heights at every depth; trees of two and of four chunks. Challenges: every vector at its first or last leaf, or one vector at any index and the others all first or all last, which is every path of every vector. For two of them the verifier gets one altered block or another challenge. |
| `tree_vc_wide_leaf` | `OutputsCorrect` where leaf chunks are wider than tree chunks. Violated: see below. | Three vectors, chunks of two nodes and four leaves. |
| `faest` | `SeedOpenedOnce`, `ImplementsScheme` with grinding. | Two signatures by two keys on two messages with the caller's seed the same (the worst case), two attempts before the attempt counter wraps, counters 0 to 7 (two batches), challenges that open in the first batch, in the last or never; up to three of eight fields replaced. |
| `faest_plain` | The same where nothing is ground and the seed does not depend on the attempt. | As before, every subset of the seven fields replaced. |
| `faest_returns` | `LeastCounter` and `CallsReturn`. | Every one of the 256 patterns over eight counters, in both of two attempts. |
| `small_vole` | `ColumnsAreBits`, `VoleCorrelation`. | The build's own width of eight keys; vectors of 16, 32 and 64 keys, every delta, with and without a correction. Gray's code has three levels there. |
| `small_vole_least` | `VoleCorrelation` for a vector of one chunk, which `small_vole.h` allows. Violated: see below. | Eight keys. |
| `algorithms` | Do the fields (`FieldCorrect`), the chains for inverses and the tables of powers (`InversesCorrect`), a power computed in memory (`PowerReturned`), the polynomials (`PolynomialsCorrect`), the transposition (`TransposeCorrect`), the ciphers and generators (`CipherCorrect`) compute what they are for? Is a column hashed to one polynomial (`HashIsPolynomial`), and is the check exact (`CheckExact`)? Do prover and verifier agree on every operation (`OperationsAgree`), and is exactly the signer's witness accepted (`ProofExact`)? | Fields, polynomials and transposition at their real sizes. What is linear or bilinear is taken on single bits, which determine it: each bit, against the bits at the edges of words and blocks. The power for every order of the three blocks, with every choice of the pointers among them and with or without a guard behind them, for the digits none, 01 and 1x01: a digit that is skipped, a square and a product with others before them. Schedules at their real sizes; counters with words of three and six bits, so that they overflow; three keys, stretches of 2, 3 and 11 blocks, so that calls of three and of two blocks and a cut-off one all occur. The check at the real sizes of the parameter sets in units of 16 bits, with two columns: no fault, or one in any unit of any of them, or a wrong proof. The operations in a field of 16 elements. The proof there with one-way functions of five and seven bits, one and three more than the field has, as 193 and 257 bits have one and 137 nine; every key of five bits; a bit of the key, of the S-box or of the public key wrong, or none; three values of delta. |
| `keys` | Is every byte random if success is said (`RandomnessDone`), does opening give back what was signed and reject what was changed (`OpenReturnsMessage`), and do the calls return (`CallsReturn`)? | Signatures of two cells in a memory of four, messages of up to two, every position of every buffer; randomness of two bytes, so that a read may be short; any number of retries. |
| `vole_commit` | `HashedOnce`, `Correlation`. | Six vectors, four of length 4 and two of length 2, two unused columns: a group of four and no rest, then no group and a rest of two; every challenge. |

`TreeVC`, `SmallVole` and `VoleCommit` state a `TypeOK` that no run of theirs checks: their other properties
are functions of the same variables and fail where a type does. That of `SmallVole` is proved (`Types`).

Every property of a passing run has a mutant in `PROJECT.json`: the same model with
one plausible slip of the code (a lost guard, a wrong bound, an input missing from a
hash) in which TLC finds the property violated.

Fairness. `Faest` and `KeyApi` are weakly fair for the steps of a call that has begun:
a function that was called runs on until it returns. The callers' choices
(another challenge, another signature, another verification) are not fair, except in `KeyApi`, whose one sequence of calls is the program. `Randomness` assumes
more, since it calls the operating system again and again: that opening the device is not
interrupted for ever, and that reading it does not fail or give nothing for ever
(`RandomFairness`). The code gives up on no number of interruptions, so without this the calls need not
return. Nothing else is assumed, and
`CallsReturn` of `Faest` holds although every attempt may fail, since the attempts run out.

### Where the code and its documentation differ

`small_vole.h` asks for `k` of at least `VOLE_WIDTH_SHIFT`. With exactly that, the only chunk is both
first and last: `output_col` is `k - 1`, and the accumulated sum of all keys is added to a column
that `xor_reduce` has already completed. The sender's last column is off by `u`, and the
receiver, who skips the accumulator in its first chunk, cannot match it. Every parameter
set has `k` larger, so no build is affected; the comment should say "more than".

`expand_tree` has a loop over "blocks of size max(TREE_CHUNK_SIZE, LEAF_CHUNK_SIZE)"
(`vector_com.c:269`): `chunk` advances by `MAX_CHUNK_SIZE / TREE_CHUNK_SIZE` chunks of the tree, so a
round hashes `MAX_CHUNK_SIZE` leaves, but `starting_leaf_idx` advances by `TREE_CHUNK_SIZE`. The
two are equal in the default settings. With a leaf PRG of twice the width of the
tree PRG (a 256-bit Rijndael for the trees, AES or SHAKE for the leaves, which the
variant names allow) the second round writes over hashes of the first, and the last
leaves of each vector have none. The advance should be `MAX_CHUNK_SIZE`.

Two things the same functions need and no static assertion demands: at least as many
vectors as nodes in a chunk (otherwise the partial chunk of one depth can run past
the end of the next, where the assertion at line 496 fails) and short vectors of at
least one leaf chunk. Every parameter set
has both; they are the last conjuncts of `TreeAssumption`.

The elements `gf16_in_gf192` and `gf16_in_gf256` (`polynomials.c:657` and `705`) each have one byte that is
not what the comment above them says: "y^151 + y^147 + y^146" (line 636) is the
byte 0x8c, the table has 0x23; "y^47+y^46+y^44+y^43+y^41" (line 697) is 0xda, the table
has 0x6d. With the comments' exponents they are roots of x^16 + x^5 + x^3 + x + 1, as
`gf16_in_gf128` is; as they are, the embedding of GF(2^16) that `polynomials.h:158-160` describes does not
preserve products. Only `quicksilver_combine_16_bits` uses it, and nothing calls that.
`PolynomialsCorrect` states it for 128 bits only.

`poly128_from_8_poly64` (`polynomials_impl.h:1053-1059`) widens its first argument with the half that
is to be ignored; those for 192 and 256 bits clear it. Only `mq.c:35` calls it, in
a file that is not built. `PolynomialsCorrect` leaves out this argument.

`transpose8x8_1` does not transpose, contrary to `transpose.h:44-45`; it is reached from
`mq.c` only. `TransposeCorrect` states that it loses no bit.

`faest.h:64-68` says that `faest_pubkey` returns false for an invalid key; it always returns
true, and a secret key with stray bits fails an assertion (`FieldCorrect`).

`crypto_sign_keypair` ("Sample a random key pair", `api.c:12`) and `crypto_sign` ignore the result of
`rand_bytes`: if it fails, what the buffer held is used. The model has that;
`RandomnessDone` says what `rand_bytes` itself promises.

`POLY_VEC_LEN` is 1 (`quicksilver.c:7` asserts it), so the padding in front of a column
(`vole_check.c:64-77`) is never needed. With 2 the assertion at line 87 would fail.

### A store behind its block

A `block137` is 24 bytes (`block.h:10-13`). `block137_sqr` and `block137_mul` (`block_impl.h:308-318`) take it for two registers of
16 bytes: they read 8 bytes behind each operand, and `reduce_clmul137` (lines 274 and 276) writes 8 bytes of zeros behind the result. The build does
this in every one-way function of 137 bits: `block137_pow_bin` (lines 331-352) squares into its local `tmp` and multiplies into `result`.
What it reads too much is never used (`FieldCorrect`: stray words do not get in). What it writes is lost to
whoever has that place, which C does not say. `PowerReturned` says what depends on that and what does not. The blocks themselves are safe:
they are stored as aligned registers, so they begin at even words and the word behind a block is never one of another's; a call that
returns has the right power, in every layout. It need not return if the compiler keeps one of its
pointers, or a return address or stack guard, in that very word. Builds with gcc 12 at `-O0` to `-O3`, looked at one by one, have padding there
or nothing that is used, and return the right power; with `-fstack-protector-all` at `-O0` the guard is overwritten and the program stops, as it does in
the builds with an address sanitizer that `Makefile:2-3` keep as comments. At 192 bits, where the products of the chain have
the same width, the authors wrote the last one to an allocation of 32 bytes and copied 24 (`block_impl.h:1095-1099`, "offset problem.."). The same would do here. No document
says anything of it, so no run is expected to fail.

## 4. What is proved

The theorems hold for every value of the constants that the named assumptions allow.
TLC evaluates these assumptions in every run.

- `BatchVCProofs`, of `batch_vector_commit` (`CommitTreeCorrect`, `CommitCorrect`, `CommitWrittenOnce`). First lemmas
  about the heap: positions of different leaves differ, the
  hash positions of all vectors together are a permutation of the output slots, the
  children of a node lie in the heap and have that node as parent. The
  inductive invariant says how far the expansion has come: every node before the frontier
  holds its seed, those after it are garbage, and the frontier is twice the number of
  expanded nodes plus one. It is needed because the code derives both indices
  separately and stops by comparing one of them. It follows that the remainder branch
  (598-604) never runs when the chunk divides the lengths, as the static_asserts have
  it: it would pass a count of nodes to write as a count of nodes to expand. For the outputs,
  what has been written is what the loop variables say, and the injectivity of the
  positions gives that nothing is overwritten. Of the leaf permutation only
  what `PermutationAssumption` (`BatchLayout`) says is used, and TLC evaluates it for the
  real permutation.
- The same module, of the whole protocol (`VCTreeCorrect`, `VCOutputsCorrect`, `VCWrittenOnce`, `VCTypeCorrect`). The
  signer's invariant carried through the whole protocol. `VCTypeCorrect` is that every index stays inside
  what it indexes: `next_to_expand_from` at nodes with children, `next_to_expand_to` and `leaf_i` at most at their ends,
  `vec_index`, `pos` and `node_i` of the opening in the challenge and the heap, `written` and `v_read` at most at the size of
  the opening, `v_i` in the range of the loop that it serves, and each leaf position at a leaf that its vector has. That of `written` is
  not a matter of a loop's bounds: it needs `OpeningSizePredicted`. That the count of marks cannot exceed the
  nodes needs that they are counted once (`OpenCounters`, `MarkingCounts`).
- Of the opening (`OpeningSizePredicted`, `HiddenLeavesStayHidden`). The count made
  while climbing from the hidden leaves and the walk that writes the seeds are two loops over
  different nodes. `Marking`: the count is that of the marked nodes, the marked leaves are
  those of the challenge so far, and every marked node but the one just reached has a marked
  parent and a marked child. `Revealing`: a seed is written for each fork (a marked node
  with one child that is not) passed on the way down, in the slot that the forks
  before it leave (`SlotOf`, `Filled`). `ForkCount` joins the two: under a marked root the forks are the marked nodes
  plus one, less twice the hidden leaves, which is the formula of the code; it is proved node by node from the root.
  A seed that is written is unmarked, and with it all that is derived from it, so no hidden leaf is.
- And of the verifier (`OnlyWrittenMemoryRead`, `ImplementsVectorCommitment`). `MarkInv`,
  `UpInv` and `DownInv` for the three loops of the verifier: on the way up its marks are closed from the leaves to the
  node it is at and what it has read are the slots of the forks passed; on the way down every node that is not marked
  was read or derived before it is expanded, and its leaves are out up to the current one. Hence nothing unwritten is read
  on any opening. For the refinement, `MarksAgree` and `WalksAgree` say that
  signer and verifier mark the same nodes for the same challenge and are at the same slot of the opening at the same node,
  so a faithful opening is not rejected (`FaithfulNotRejected`) and gives back what was committed
  (`AcceptsFaithful`); an opening that was altered and is accepted leads to other commitments (`AcceptsOther`).
- `TreeVCProofs` (`ForestExpanded`, `OutputsPlaced`, `HiddenPathsStayHidden`, `SubtreeAssertions`), the signer's side of the commitment with one
  tree a vector and the assertions of the verifier's. The level of a tree is a range of the interleaved forest
  (`Span`; `FirstFirst`, `FirstSum`, `MulAddInjective` say how ranges nest and that they do not meet).
  `ForestInv`: every written node has its own seed; each pending call of `expand_roots` is on known nodes, and a node of the top levels
  is known or below a pending call or a later root (`RootsInv`); the trees before `commit_i` are known whole (`TreesInv`); in
  the tree being walked a chunk is known as soon as the walk has come to the first chunk of leaves below it (`Expanded`,
  `WalkInv`), which is why the ancestor that `count_trailing_zeros` picks is always known (`StartKnown`) and why every node is known when the walk ends.
  Only the tests of the loops and the recursion are used, no order of the chunks.
  `OutputsInv`: the leaves of the finished trees are in their places, of the current one those before `start`, and the permuted index that
  is carried along is that of `start`. It needs that the places of all leaves differ (`LeafPlaces`), of the permutation what
  `PermutationAssumption` (`TreeLayout`) says (of the exclusive or, that it works bit by bit: `XorAssumption`), and that a chunk of leaves is not wider than one of nodes: a hypothesis of the
  theorem, since the property is false without it. `OpenInv`: the slots of the opening are filled in order with the siblings of the path; `BesideHidden` says that the
  sibling of a path node is on no path, its own or that of another tree.
  `SubtreeInv`: the loop of `vector_verify` over a depth stands at a multiple of the chunk and never passes the end of the depth,
  and each pending call of its recursion starts at a multiple of the chunk and is for a whole chunk or has nothing to
  do (`GoodCall`). A call for less comes from one that crossed the limit of its level (`GoodSize`); there are at least as many vectors as a
  chunk has nodes, and each loses a subtree with every level, so the next limit is at most twice the present one less two chunks (`LevelLimits`), and the children begin beyond it.
- `TreeVerifyProofs` (`VerifierReadsWritten`, `TreesImplementVectorCommitment`), the verifier of the commitment with one
  tree a vector, on any opening. What a block of its forest should be is `Derive`d from the slot of the opening that the root of its
  subtree has (`Seed`); `reorder_verifier_keys` puts the keys there because the roots of all heights together are the first
  nodes, each once (`RootPlace`, `EveryRoot`). `VerifierInv` has one part for each loop. `GrowInv`: each pending call of the
  recursion is on derived nodes and every node of the top levels that has children is derived or below a pending call or a later
  chunk (`Grown`), so when the first loop ends all subtrees have grown to a chunk (`TopsKnown`). `LevelInv`: in the tree at hand the levels
  passed are done, those of a chunk or more in the outputs (`SubDone`), the smaller ones in `last_chunk` (`ChunkInv`), and a
  walk that is under way has written its leaves up to `start` (`VCallInv`, of which `VWalkInv` is `WalkInv` with the verifier's forest).
  `LoopInv`: the vectors before `v_tree` are done (`TreesDone`), the pointers are those of `v_tree`. Every leaf but the
  hidden one is in one subtree, that of the highest bit in which it differs (`Sub`, `SubLeaves`, `SubApart`), the
  subtrees lower than a chunk fill the chunk around the hidden leaf and no other (`SubChunk`), and no two leaves have a place in common (`VPlaces`). Hence
  no output and no entry of `last_chunk` is left unwritten. `OpenedInv` says how far the signer's opening has been filled, `SentInv` that
  the verifier got it or something made from it. From these, what was sent unaltered derives what the signer has
  (`BesideDerives`, `AcceptsFaithful`), and a changed slot or challenge shows in some commitment (`AlteredShows`, `AcceptsOther`):
  what replaces a seed derives other leaves, and for another challenge the seeds are placed where others should be (`OtherSubtree`). The two
  theorems have the same hypothesis as `OutputsPlaced`, for the same reason: with a chunk of leaves wider than one of nodes both sides write over hashes and leave others out
  (run `tree_vc_wide_leaf` shows the signer's), and TLC finds `OnlyWrittenRead` and `ImplementsVC` violated there as well.
- `FaestProofs` (`ForceFindsLeast`, `TypeCorrect`, `NoSeedOpenedTwice`, `ImplementsSignatureScheme`).
  Two invariants. `ForceInv`: all counters below the current lane
  fail, the batch's outputs are the counters just hashed, and `counter` is the next batch or 0 after
  the last; it is stated of `Faest!Spec`, so it covers one grinding after another. `SignInv`:
  the table of hashes repeats nothing (so a hash tells its input: `HashExact`), every signature returned was made by
  one attempt (`Made`: its seed is the hash of key, message, caller's seed and attempt, each challenge is the hash of
  what came before it, and its counter is the least that opens), the attempt under way has come as far as `sign_pc` says
  (`Attempted`), and every last challenge that was ever hashed is that of a signature returned, or about to be
  (`LastReturned`). From a commitment, `MadeOnce` follows the hashes backwards to the seed's input
  and forwards to the counter, and no field is left open: one seed, one signature. What the verifier accepts has a last challenge
  that was hashed; `AcceptedGenuine` follows it back through what the verifier computed to each field,
  the message and the key. Before it was proved TLC checked `SignInv` on the whole instance of `faest_plain` and on part of that of `faest`, which is slow for it.
- `PowersOfTwoProofs`: what the others need of powers of two, quotients, multiples and bits: a number of n bits is given by
  them (`HighBits`), the bits of an index below and above a multiple of a power of two (`ChunkBits`), the bits of half a number
  (`ShiftedBits`), and a one-to-one function on the first 2^n numbers is onto them (`OneToOneOnto`).
- `SmallVoleProofs` (`SenderColumns`, `ReceiverCorrelation`, `Types`). Inside a chunk: after `s` stages of `xor_reduce` every group of
  `2^s` blocks begins with its sum and those of its `s` bits (`Reduced`, `StageReduces`, `ReduceValue`). Keys: the bits of
  `vole_permute_key_index` are those of Gray's code above the chunk and its argument's below it
  (`PermutedBits`), so it permutes the indices (`PermuteInjective`), and exchanging them by delta does as well. From chunk to chunk: the column
  that `count_trailing_zeros` picks is the one bit of Gray's code that changes, and after the last chunk the top one, which
  brings the code back to 0 (`GrayStep`). The inductive invariant (`IInv`, `Summed`) says what each column holds after `i` keys: a low one
  the keys with its bit set, a high one the keys whose bit of Gray's code is not that of the next chunk (`Members`), since
  each time the bit changes all keys so far are added. Before the end no column is what it should be, which is why the invariant
  is needed. At the end the code is 0 and both say the same of all bits (`LastMembers`). The receiver's first chunk is missing from
  the accumulator and from the high columns; it has no high bits, and its first key no bits at all. The theorems
  have the hypothesis that a vector is longer than a chunk: with one chunk the same column is low and picked (run `small_vole_least`). Before
  it was proved TLC checked `IInv` on the instance of `small_vole`.
- `VoleCommitProofs` (`VoleCommitCorrelates`, `VectorsHashedOnce`). The invariant: the pointers are those of vector `i`
  (`FirstLeaf`, `FirstBit`), the columns of the vectors before `i` are done, and each correction
  is that of its vector. It rests on two lemmas: the vectors share out bits and leaves
  without gap (`Places`) and do not overlap (`Apart`), whatever the division of the
  columns among them. `HashInv` says that the hashed vectors are those before `i`, that the pointer
  is at the next, and that `i` is a multiple of four while groups are hashed: the second loop then
  begins where the first one ended, although its first index is worked out anew.
- `KeyApiProofs` (`RandomBytesDone`, `OpensWhatWasSigned`). Two invariants. `RandomInv`: the device is open only
  between opening it and returning, and never more is filled than was
  asked for. `ApiInv`: from signing until opening, the cells at `sm` are the message that was signed followed by its
  signature, or one of them was changed and they are no longer (`AlteredIsUnsigned`: whichever byte
  changes, of the message or of the signature). The rest is about memory: what is
  stored somewhere is read there (`PutThere`), and what does not meet it is
  as before (`PutElsewhere`), which is why the message is moved before the signature is written. The
  signature is ideal by definition: a piece tells key, message and place.

Proved from: the assumptions on the constants, named `...Assumption` in the modules that declare
them. Not proved, only checked by TLC: liveness (`CallsReturn`), both commitments with
one tree a vector and a chunk of leaves wider than one of nodes, and the
algorithms, whose folds over words and bits are recursive operators. For those TLC is
not a small instance only: most run at their real size, on inputs that determine the rest by
linearity. Induction over the heap, which the proofs of the opening and of the verifier need, is done without the library's
induction theorems, whose parameter is an operator: a set of counterexamples has a least element (`LeastElement`, from
the well-foundedness of the natural numbers), and `UpTo` says so of a range of nodes. In the same way `TreeVCProofs` gets from the
recursion of `Pow2` that it is a function with powers of two as its values (`Pow2Recursion`), from that of `write_leaves` what it
writes (`WriteValue`, `WriteAll`), and from the stages of `xor_reduce` what the last one leaves (`ReductionExists`, `ReduceValue`).

## 5. What is not modelled, and why

- Alignment and endianness; the `memcpy`s of whole blocks are assignments.
- Keccak and the AES instruction: third-party code and hardware. They are names.
- In `Faest` and the vector commitments, generators, fields, checks and proofs are names and formal
  sums; what those compute is in the modules of the algorithms. That a wrong proof is not
  accepted by a lucky challenge is not a matter of the code: the challenges are unknowns in the one and
  a wrong proof is `Bad` in the other.
- Memory management, except where a function returns early: the leak at
  `vector_com.c:806` is visible in `BatchVerify`. No document promises that memory is
  freed, so no property says so.
- `quicksilver_lift_gfsecpar_to_deg2` (`quicksilver.h:243-256`): nothing calls it. Prover and verifier lift to
  different polynomials there, so it could not be used as it is.
- Functions that nothing calls: the rounds that also return what is after the S-box.
- `crypto_sign_open` with fewer bytes than a signature: the comment forbids it, the length wraps around.
- `avx2_vaes`: the same rounds and blocks on wider registers.
- The other sources of randomness (`randomness_randombytes.c`, other operating systems): one
  call each.
- The tables `mat_1`, `mat_2`, `mat_3` and `mat_2_inv` of `greatwall.c`: constants of the one-way
  function. `OwfProof` takes matrices as parameters; the only relation that is needed,
  that `mat_2_inv` inverts `mat_2`, is one of its instance. Of the tables `pow_mat` TLC compares the
  second row at three columns.
- Rain and MQ (`rain.c`, `mq.c`): `faest.c` of this repository does not build with them.

Some details are modelled as they are and matter only if used otherwise: `block193_sqr` takes its operand unmasked;
the transposed matrix product of 256 bits
writes back 24 of its 32 bytes; `rijndael192_fixed_key_ctr` does not add the
key again at the end as the others do (`aes_impl.h:323-336`; the variant is left out by
`Makefile:46`); the public key is unpacked by copying more bytes than it has, and only
its own bits are used afterwards (`FieldCorrect`). Blocks of 137 bits are multiplied through two 16-byte registers; that one does matter, see the end of section 3.

## 6. Plan

Every safety property and refinement of the protocols' state machines is proved. What is left are the algorithms, where the
properties are about recursive operators on words: `FieldCorrect`, `InversesCorrect`, `PowerReturned`, `PolynomialsCorrect`, `TransposeCorrect`,
`CipherCorrect`, `HashIsPolynomial`, `CheckExact`, `OperationsAgree` and `ProofExact`. They would have to be
written as recursive functions before anything can be proved of them for every width.

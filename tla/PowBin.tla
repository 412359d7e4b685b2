-------------------------------- MODULE PowBin --------------------------------
(***************************************************************************)
(* block137_pow_bin (block_impl.h): the power of a block of 137 bits by a  *)
(* string of digits, in memory.  The two calls on block137 write a word    *)
(* behind the local that they write to, and the compiler decides what is   *)
(* there.  A local is at a word of the stack frame; what the frame does    *)
(* not hold is in a register or padding.                                   *)
(***************************************************************************)
EXTENDS BlockField

VARIABLE frame   \* the memory of the call, its locals' places, p and pc

BlockLocals == {"base", "result", "tmp"}
(* The pointer p and the argument, if they are kept in memory, and what is *)
(* checked or used on return behind the last local.                        *)
Pointers == {"p", "block"}
WordLocals == Pointers \cup {"guard"}

(* Blocks are at even words: registers are stored at multiples of their    *)
(* size, and the compiler aligns locals of this size to them.              *)
Aligned(l, word) == IF l \in BlockLocals THEN 2 * ((word + 1) \div 2) ELSE word
Layout(order) ==
    FoldLeft(LAMBDA s, l : LET word == Aligned(l, s.next)
                           IN  [at |-> s.at @@ (l :> word),
                                next |-> word + (IF l \in BlockLocals THEN 3 ELSE 1)],
             [at |-> <<>>, next |-> 0], order).at
Layouts ==
    LET orders == UNION {SetToSeqs(BlockLocals \cup kept) : kept \in SUBSET Pointers}
    IN  {Layout(o) : o \in orders \cup {Append(o, "guard") : o \in orders}}

FRAME_WORDS == 16
Contents(l, base) ==
    CASE l = "base" -> base [] l = "result" -> {0} [] l = "tmp" -> 0 .. 191 [] OTHER -> {12}
Words(l) == IF l \in BlockLocals THEN 0 .. 2 ELSE {0}

(* The call, with copies made and the result one; nobody wrote the rest.   *)
Called(at, digits, base) ==
    LET used == UNION {{at[l] + w : w \in Words(l)} : l \in DOMAIN at}
        rest == {b \in 0 .. 64 * FRAME_WORDS - 1 : b \div 64 \notin used}
    IN  [at |-> at, digits |-> digits, p |-> 1, pc |-> "digit", value |-> {},
         memory |-> rest \cup UNION {Up(Contents(l, base), 64 * at[l]) : l \in DOMAIN at}]

(* A pointer that was overwritten with zeros stops the program when used.  *)
Intact(l) == l \in DOMAIN frame.at => Word(frame.memory, frame.at[l]) # {}
AtEnd == frame.p > Len(frame.digits)
Digit == frame.digits[frame.p]

IsDigit_Any(d) == TRUE
IsDigit(d) == d \in {"0", "1"}

(* The assignment of one local to another: its three words.                *)
Assigned(memory, to, from) ==
    {b \in memory : b \div 64 \notin to .. to + 2} \cup Up(Block137At(memory, from), 64 * to)

Loop(pc) == frame.pc = pc /\ Intact("p")

Skip ==
    /\ Loop("digit") /\ ~AtEnd /\ ~IsDigit(Digit)
    /\ frame' = [frame EXCEPT !.p = @ + 1]

Square ==
    /\ Loop("digit") /\ ~AtEnd /\ IsDigit(Digit)
    /\ LET at == frame.at
           squared == block137_sqr(frame.memory, at["tmp"], at["result"])
       IN  frame' = [frame EXCEPT !.memory = Assigned(squared, at["result"], at["tmp"]),
                                  !.pc = "multiply"]

NextDigit(memory) == frame' = [frame EXCEPT !.memory = memory, !.p = @ + 1, !.pc = "digit"]
Multiply ==
    /\ Loop("multiply") /\ Digit = "1"
    /\ LET at == frame.at
       IN  NextDigit(block137_mul(frame.memory, at["result"], at["result"], at["base"]))
NoMultiply ==
    /\ Loop("multiply") /\ Digit # "1"
    /\ NextDigit(frame.memory)

Return ==
    /\ Loop("digit") /\ AtEnd /\ Intact("block") /\ Intact("guard")
    /\ frame' = [frame EXCEPT
                   !.value = Block137At(block137_mask(frame.memory, frame.at["result"]), frame.at["result"]),
                   !.pc = "returned"]

Crash ==
    /\ \/ frame.pc \in {"digit", "multiply"} /\ ~Intact("p")
       \/ Loop("digit") /\ AtEnd /\ ~(Intact("block") /\ Intact("guard"))
    /\ frame' = [frame EXCEPT !.pc = "crashed"]

PowNext == Skip \/ Square \/ Multiply \/ NoMultiply \/ Return \/ Crash
===============================================================================

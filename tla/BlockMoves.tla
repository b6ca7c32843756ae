-------------------------------- MODULE BlockMoves --------------------------------
(***************************************************************************)
(* bcopy, bcmp and bzero, the assembly that moves, compares and clears     *)
(* blocks (libc/).  Each walks to a word's border, goes on in pieces of    *)
(* 32, 16 and 4 bytes, and does the rest byte by byte; bcopy goes          *)
(* backwards when its blocks overlap so that it would run over its source. *)
(*                                                                         *)
(* A pass of a loop is a step.  A piece is loaded before it is stored.     *)
(***************************************************************************)
EXTENDS Integers

CONSTANTS
  Bytes,      \* the addresses
  Moves,      \* calls: records of the function (fn), its blocks (from, to), the length (n)
  Contents(_) \* what is in memory when a call is made

ASSUME MovesAssumption ==
  /\ Bytes = 0..(CHOOSE top \in Bytes : \A b \in Bytes : b <= top)
  /\ \A m \in Moves : m.fn \in {"copy", "compare", "zero"} /\ m.n \in Nat

VARIABLES
  move,     \* the call
  memory,
  pc,       \* the label
  a0, a1,   \* the addresses in the two blocks
  left,     \* a2, or a1 of bzero: the bytes that are left
  differ    \* bcmp found a difference

moveVars == << move, memory, pc, a0, a1, left, differ >>

MoveInit ==
  /\ move \in Moves /\ memory = Contents(move)
  /\ pc = move.fn /\ a0 = move.from /\ a1 = move.to /\ left = move.n /\ differ = FALSE

Goto(label) == pc' = label

------------------------------------------------------------------------------
(* bcopy                                                                      *)

\* n bytes from a0 to a1, and both go on; or the n bytes below them, and both go back
Forth(n) ==
  /\ memory' = [b \in Bytes |-> IF b \in a1..(a1 + n - 1) THEN memory[a0 + (b - a1)] ELSE memory[b]]
  /\ a0' = a0 + n /\ a1' = a1 + n /\ left' = left - n
Back(n) ==
  /\ memory' = [b \in Bytes |-> IF b \in (a1 - n)..(a1 - 1) THEN memory[a0 + (b - a1)] ELSE memory[b]]
  /\ a0' = a0 - n /\ a1' = a1 - n /\ left' = left - n

Stay == UNCHANGED << memory, a0, a1, left >>

\* Mutant: a copy never goes backwards.
BcopyForwards ==
  /\ pc = "copy"
  /\ IF left = 0 \/ a0 = a1 THEN Goto("ret")
     ELSE Goto(IF left < 16 \/ a0 % 4 # a1 % 4 THEN "forwards_bytecopy" ELSE "forwalignable")
  /\ Stay /\ UNCHANGED differ

\* Where a copy begins.  The two blocks can be aligned together when they begin at the
\* same byte of a word.
Bcopy ==
  /\ pc = "copy"
  /\ IF left = 0 \/ a0 = a1 THEN Goto("ret") /\ Stay
     ELSE IF a1 < a0 \/ a1 >= a0 + left
     THEN /\ Stay
          /\ Goto(IF left < 16 \/ a0 % 4 # a1 % 4 THEN "forwards_bytecopy" ELSE "forwalignable")
     ELSE /\ a0' = a0 + left /\ a1' = a1 + left /\ UNCHANGED << memory, left >>
          /\ Goto(IF left < 16 \/ (a0 + left) % 4 # (a1 + left) % 4
                  THEN "backwards_bytecopy" ELSE "backalignable")
  /\ UNCHANGED differ

\* The bytes before the first word
ForwAlign ==
  /\ pc = "forwalignable" /\ Goto("forwards_32") /\ UNCHANGED differ
  /\ CASE a0 % 4 = 0 -> Stay [] a0 % 4 = 1 -> Forth(3) [] a0 % 4 = 2 -> Forth(2) [] OTHER -> Forth(1)

\* The bytes behind the last word
BackAlign ==
  /\ pc = "backalignable" /\ Goto("backwards_32") /\ UNCHANGED differ
  /\ CASE a0 % 4 = 0 -> Stay [] a0 % 4 = 3 -> Back(3) [] a0 % 4 = 2 -> Back(2) [] OTHER -> Back(1)

Piece(label, n, then, Step(_)) ==
  /\ pc = label /\ UNCHANGED differ
  /\ IF left < n THEN Goto(then) /\ Stay ELSE Step(n) /\ Goto(label)

Forwards32 == Piece("forwards_32", 32, "forwards_16", Forth)
Forwards16 == Piece("forwards_16", 16, "forwards_4", Forth)
Forwards4  == Piece("forwards_4", 4, "forwards_bytecopy", Forth)
ForwardsBytecopy == Piece("forwards_bytecopy", 1, "ret", Forth)

Backwards32 == Piece("backwards_32", 32, "backwards_16", Back)
Backwards16 == Piece("backwards_16", 16, "backwards_4", Back)
Backwards4  == Piece("backwards_4", 4, "backwards_bytecopy", Back)
BackwardsBytecopy == Piece("backwards_bytecopy", 1, "ret", Back)

------------------------------------------------------------------------------
(* bcmp                                                                       *)

\* n bytes are compared, and a difference ends the call.
Compare(n, then) ==
  /\ IF \E i \in 0..(n - 1) : memory[a0 + i] # memory[a1 + i]
     THEN Goto("ret") /\ differ' = TRUE ELSE Goto(then) /\ UNCHANGED differ
  /\ a0' = a0 + n /\ a1' = a1 + n /\ left' = left - n /\ UNCHANGED memory

\* The blocks begin at the same byte of a word: the rest of the first word at once
Bcmp ==
  /\ pc = "compare"
  /\ IF left < 16 THEN Goto("bytecmp") /\ Stay /\ UNCHANGED differ
     ELSE IF a0 % 4 # a1 % 4 THEN Goto("unalgncmp") /\ Stay /\ UNCHANGED differ
     ELSE Compare((-a0) % 4, "wordcmp")

\* Else bytes up to a word of the second block, and words of it
Unalgncmp ==
  /\ pc = "unalgncmp"
  /\ IF a1 % 4 = 0 THEN Goto("partaligncmp") /\ Stay /\ UNCHANGED differ ELSE Compare(1, "unalgncmp")

Words(label) ==
  /\ pc = label
  /\ IF left < 4 THEN Goto("bytecmp") /\ Stay /\ UNCHANGED differ ELSE Compare(4, label)
Wordcmp == Words("wordcmp")
Partaligncmp == Words("partaligncmp")

Bytecmp ==
  /\ pc = "bytecmp"
  /\ IF left = 0 THEN Goto("ret") /\ Stay /\ UNCHANGED differ ELSE Compare(1, "bytecmp")

------------------------------------------------------------------------------
(* bzero                                                                      *)

Clear(n) ==
  /\ memory' = [b \in Bytes |-> IF b \in a0..(a0 + n - 1) THEN 0 ELSE memory[b]]
  /\ a0' = a0 + n /\ left' = left - n /\ UNCHANGED a1

\* The rest of the first word at once
Bzero ==
  /\ pc = "zero" /\ UNCHANGED differ
  /\ IF left < 12 THEN Goto("bytezero") /\ Stay ELSE Clear((-a0) % 4) /\ Goto("blkzero")

Blkzero  == Piece("blkzero", 32, "wordzero", Clear)
Wordzero == Piece("wordzero", 4, "bytezero", Clear)
Bytezero == Piece("bytezero", 1, "ret", Clear)

MoveNext ==
  /\ UNCHANGED move
  /\ \/ Bcopy \/ ForwAlign \/ Forwards32 \/ Forwards16 \/ Forwards4 \/ ForwardsBytecopy
     \/ BackAlign \/ Backwards32 \/ Backwards16 \/ Backwards4 \/ BackwardsBytecopy
     \/ Bcmp \/ Unalgncmp \/ Wordcmp \/ Partaligncmp \/ Bytecmp
     \/ Bzero \/ Blkzero \/ Wordzero \/ Bytezero

------------------------------------------------------------------------------
OneWord == {"forwards_32", "forwards_16", "forwards_4", "backwards_32", "backwards_16", "backwards_4",
            "wordcmp"}

\* Words are loaded and stored at words; and when the call returns the block is a copy of
\* what the other one held before, is compared, or is clear, and nothing else has changed,
\* however the blocks lie in their words and over each other (bcopy, bcmp, bzero).
BlocksExact ==
  LET before == Contents(move)  src == move.from  dst == move.to  n == move.n
  IN /\ pc \in OneWord => a0 % 4 = 0 /\ a1 % 4 = 0
     /\ pc = "partaligncmp" => a1 % 4 = 0
     /\ pc \in {"blkzero", "wordzero"} => a0 % 4 = 0
     /\ left >= 0
     /\ pc = "ret" =>
          CASE move.fn = "copy" -> \A b \in Bytes :
                 memory[b] = IF b \in dst..(dst + n - 1) THEN before[src + (b - dst)] ELSE before[b]
            [] move.fn = "zero" -> \A b \in Bytes :
                 memory[b] = IF b \in src..(src + n - 1) THEN 0 ELSE before[b]
            [] move.fn = "compare" ->
                 differ = (\E i \in 0..(n - 1) : before[src + i] # before[dst + i])
================================================================================

------------------------------- MODULE MCExec -------------------------------
(***************************************************************************)
(* Instances of the virtual machine for TLC: six-bit words, two registers  *)
(* (words 32 and 33), eight characters, and families of programs that put  *)
(* every opcode on boundary operands.                                      *)
(***************************************************************************)
EXTENDS ExecArch, Disasm, TLC

Bits == INSTANCE Bitwise

MCAnd(v, w) == Bits!&(v, w)
MCOr(v, w)  == Bits!|(v, w)

\* r0 and r1 are set, then one instruction runs, shows r0 and halts.  The
\* operands: registers, literals inside and outside the program, invalid words.
OneInstruction ==
  {<<1, 32, x, 1, 33, y, op, a, b, c, 19, 32, 0>> :
     x \in {0, 5, 31}, y \in {0, 2, 31}, op \in 0 .. 22,
     a \in {7, 32, 33, 34}, b \in {0, 12, 33, 63}, c \in {3, 32, 33}}

\* The program ends inside an instruction
Truncated ==
  {<<op, 32, 33, 32>> : op \in 0 .. 22} \cup {<<op, 32, 33>> : op \in 0 .. 22} \cup
  {<<op, 32>> : op \in 0 .. 22} \cup {<<op>> : op \in 0 .. 22}

\* A word of more than fifteen bits is read from the memory, then computed with
WideWords ==
  {<<15, 32, 12, op, 33, a, b, 19, 33, c, 21, 0, w>> :
     op \in 4 .. 5 \cup 9 .. 14, a \in {32, 31}, b \in {32, 3},
     c \in {0, 21}, w \in {33, 62, 63}}

\* Calls and returns, nested and unbalanced, to the ends of the program
Calls ==
  {<<17, t, r, 2, p, 17, 33, op, 32, 18, 18>> :
     t \in {3, 5, 7, 9, 11, 32}, r \in {0, 21}, p \in {0, 2, 31, 33}, op \in {2, 3, 17, 18, 21}}

\* A program that writes into itself, also over the running instruction
SelfModifying ==
  {<<16, a, v, 1, 32, 5, 16, a, 32, 17, t, 18, 0>> :
     a \in {0, 1, 4, 10, 11, 13, 32}, v \in {0, 3, 18, 32}, t \in {11, 12, 6}}

MCInstrImages ==
  OneInstruction \cup Truncated \cup WideWords \cup Calls \cup SelfModifying

\* IN in a loop, with an OUT; CALL across the words tele_hack overwrites; IN
\* without an operand, with a bad one, at the end of the memory
MCInputImages ==
  {<<20, 32, 19, 32, 6, 0>>, <<20, 32, 17, 0, 21>>, <<6, 1, 20>>, <<20, 5>>,
   <<20, 33, 20>>, <<>>}
  \cup {[i \in 1 .. n |-> IF i = 1 THEN 20 ELSE IF i = 2 THEN 33 ELSE 21] :
          n \in {23, 24}}

MCPatch == 4 :> 1 @@ 5 :> 32

MCChars  == {0, 3, 5, 61}
Text     == LineOf("text", <<5, 61, 3>>)

\* The lines that do not write into the machine
MCPlainLines ==
  {Text, LineOf("text", <<3>>), LineOf("dump", <<5, 3>>)} \cup
  {LineOf(cmd, <<5, 3>>) : cmd \in {"ff", "quit", "_bad", "_other"}}
MCNoScript   == <<>>

MCLines ==
  {Text, LineOf("ff", <<5, 3>>), LineOf("quit", <<5, 3>>),
   LineOf("tele_hack", <<5, 3>>), LineOf("_bad", <<5, 3>>),
   LineOf("_other", <<5, 3>>),
   [LineOf("_setreg", <<5, 3>>) EXCEPT !.reg = 1, !.val = 40]}
MCScript ==
  <<LineOf("text", <<0, 3>>),
    [LineOf("_setreg", <<5, 3>>) EXCEPT !.reg = 0, !.val = 7]>>

MCQuitLines == {LineOf("quit", <<5, 3>>), Text}
=============================================================================

----------------------------- MODULE ExecProofs -----------------------------
(***************************************************************************)
(* Theorems about the virtual machine, for every word width, register      *)
(* count, program, script and set of console lines.                        *)
(***************************************************************************)
EXTENDS Exec, SequenceTheorems, TLAPS

USE WidthAssumption DEF WidthAssumption

-----------------------------------------------------------------------------
(* Operands and arithmetic *)

\* An operand that passes eval's assertion evaluates to a word.
LEMMA EvalWord ==
  ASSUME NEW rs \in [RegIds -> Word], NEW v \in Word, Evaluates(v)
  PROVE  Eval(rs, v) \in Word
BY DEF Evaluates, Eval, RegIds, Word, RegIdx, MAX_VAL, MAX_REG

\* What ADD leaves in a register is a 15-bit number.
LEMMA ModLiteral ==
  ASSUME NEW n \in Nat
  PROVE  n % Modulus \in Literal
BY DEF Literal, MAX_VAL

\* MULT leaves a word, and a 15-bit number when both operands are 15-bit.
LEMMA ProductsTyped ==
  ASSUME NEW b \in Word, NEW c \in Word, NEW v \in Products(b, c)
  PROVE  /\ v \in Word
         /\ b \in Literal /\ c \in Literal => v \in Literal
<1> DEFINE m == (b * c) % Modulus
<1>1. b * c \in Nat
  BY DEF Word
<1>2. m \in Literal
  BY <1>1, ModLiteral
<1>3. v = m \/ v = Modulus + m
  BY DEF Products
<1>4. v \in Word
  BY <1>2, <1>3 DEF Literal, Word, MAX_VAL
<1>5. ASSUME b \in Literal, c \in Literal PROVE v \in Literal
  <2>1. b * c <= (Modulus - 1) * (Modulus - 1)
    BY <1>5 DEF Literal, MAX_VAL
  <2>2. b * c < 2 * Modulus * Modulus
    BY <1>1, <2>1
  <2> QED BY <1>2, <2>2 DEF Products
<1> QED BY <1>4, <1>5

\* The remainder of two words is a word, and no greater than the dividend.
LEMMA RemainderTyped ==
  ASSUME NEW b \in Word, NEW c \in Word, c # 0
  PROVE  b % c \in 0 .. b
BY DEF Word

\* The inverse keeps bit 15 and stays within the other fifteen.
LEMMA NotTyped ==
  ASSUME NEW v \in Word
  PROVE  /\ Value_bitwise_not(v) \in Word
         /\ v \in Literal => Value_bitwise_not(v) \in Literal
BY DEF Value_bitwise_not, Word, Literal, MAX_VAL, RegIdx

-----------------------------------------------------------------------------
(* Type correctness.  IN delivers a word because the character it delivers *)
(* lies inside the buffer, and the loop fetches cells that are there.      *)

LoadsAtZero == status = "loading" => pc = 0

\* The loop hands exec_step the cell at pc and never a cell outside the memory.
RunningInMemory == status = "running" => Present(pc)

IInv == TypeOK /\ UnreadInBuffer /\ RunningInMemory /\ LoadsAtZero

\* A cell the memory has is a cell, and every word of the machine is a number.
LEMMA CellTyped ==
  ASSUME TypeOK, NEW i, Present(i)
  PROVE  mem[i] \in Cell /\ i \in Nat /\ i < MAX_SIZE
<1>1. PICK n \in 0 .. MAX_SIZE - 1 : mem \in [0 .. n - 1 -> Cell]
  BY DEF TypeOK, MemTypeOK
<1> QED BY <1>1, ExecAssumption DEF Present, ExecAssumption

\* An operand that exec_step can evaluate is a word.
LEMMA OperandWord ==
  ASSUME TypeOK, NEW k \in 1 .. 3, Readable(k)
  PROVE  Val(k) \in Word
<1>1. mem[pc + k] \in Cell
  BY CellTyped DEF Readable
<1> QED BY <1>1, EvalWord DEF Readable, TypeOK, Val, Arg, Cell

\* A size_t is a natural number, the one before a jump's target included.
LEMMA WrapNat ==
  ASSUME NEW n \in Int
  PROVE  Wrap(n) \in Nat
<1>1. SIZE_MAX + 1 \in Nat /\ SIZE_MAX + 1 > 0
  BY ConsoleAssumption, WidthAssumption DEF ConsoleAssumption, WidthAssumption
<1> QED BY <1>1 DEF Wrap

LEMMA GotoFetches ==
  ASSUME NEW last \in Int, Goto(last)
  PROVE  \E next \in Nat : Fetch(next)
<1>1. Wrap(last + 1) \in Nat
  BY WrapNat
<1> QED BY <1>1 DEF Goto

LEMMA BeforeNat ==
  ASSUME NEW target \in Word
  PROVE  Before(target) \in Nat
<1>1. target - 1 \in Int
  BY WidthAssumption DEF Word, WidthAssumption
<1> QED BY <1>1, WrapNat DEF Before

\* The ++ undoes the jump's "- 1", for the target 0 by wrapping around twice.
LEMMA JumpArrives ==
  ASSUME NEW target \in Word, Goto(Before(target))
  PROVE  Fetch(target)
<1> DEFINE d == SIZE_MAX + 1
<1>1. d \in Nat /\ d > 2 * Modulus /\ Modulus \in Nat /\ target \in Nat /\ target < 2 * Modulus
  BY ConsoleAssumption, WidthAssumption DEF ConsoleAssumption, WidthAssumption, Word
<1> HIDE DEF d
<1>2. Wrap(Before(target) + 1) = target
  <2>1. CASE target = 0
    <3>1. (0 - 1) % d = d - 1
      BY <1>1
    <3>2. d % d = 0
      BY <1>1
    <3>3. Before(target) = d - 1
      BY <2>1, <3>1 DEF Before, Wrap, d
    <3>4. Before(target) + 1 = d
      BY <1>1, <3>3
    <3> QED BY <2>1, <3>2, <3>4 DEF Wrap, d
  <2>2. CASE target # 0
    <3>1. (target - 1) % d = target - 1 /\ target % d = target
      BY <1>1, <2>2
    <3>2. Before(target) = target - 1
      BY <3>1 DEF Before, Wrap, d
    <3>3. Before(target) + 1 = target
      BY <1>1, <3>2
    <3> QED BY <3>1, <3>3 DEF Wrap, d
  <2> QED BY <2>1, <2>2
<1> QED BY <1>2 DEF Goto

\* An instruction that does not jump ends at the cell after its operands.
LEMMA StraightOn ==
  ASSUME TypeOK, Present(pc), NEW k \in 0 .. 3, Goto(pc + k)
  PROVE  Fetch(pc + (k + 1))
<1> DEFINE d == SIZE_MAX + 1
<1>1. /\ pc \in Nat /\ pc < Modulus /\ Modulus \in Nat /\ Modulus > 21
      /\ d \in Nat /\ d > 2 * Modulus
  BY CellTyped, ConsoleAssumption, WidthAssumption, ExecAssumption
     DEF ConsoleAssumption, WidthAssumption, ExecAssumption
<1> HIDE DEF d
<1>2. pc + k + 1 \in Nat /\ pc + k + 1 < d /\ pc + k + 1 = pc + (k + 1)
  BY <1>1
<1>3. (pc + k + 1) % d = pc + k + 1
  <2>1. \A n \in Nat : n < d => (n % d) = n
    BY <1>1
  <2> QED BY <1>2, <2>1
<1> QED BY <1>2, <1>3 DEF Goto, Wrap, d

\* So the four lengths of an instruction lead to the four cells after it.
LEMMA MovesOn ==
  ASSUME IInv, status = "running"
  PROVE  /\ Goto(pc) => Fetch(pc + 1)
         /\ Goto(pc + 1) => Fetch(pc + 2)
         /\ Goto(pc + 2) => Fetch(pc + 3)
         /\ Goto(pc + 3) => Fetch(pc + 4)
<1>1. TypeOK /\ Present(pc) /\ pc \in Nat
  BY DEF IInv, TypeOK, RunningInMemory
<1>2. \A k \in 0 .. 3 : Goto(pc + k) => Fetch(pc + (k + 1))
  BY <1>1, StraightOn
<1>3. pc + 0 = pc /\ 0 + 1 = 1 /\ 1 + 1 = 2 /\ 2 + 1 = 3 /\ 3 + 1 = 4
  BY <1>1
<1>4. (Goto(pc + 0) => Fetch(pc + (0 + 1))) /\ (Goto(pc + 1) => Fetch(pc + (1 + 1)))
  BY <1>2
<1>5. (Goto(pc + 2) => Fetch(pc + (2 + 1))) /\ (Goto(pc + 3) => Fetch(pc + (3 + 1)))
  BY <1>2
<1> QED BY <1>3, <1>4, <1>5

\* An instruction that leaves numbers everywhere keeps the invariant: fetching
\* the next cell keeps the loop inside the memory and the log bounded.
LEMMA ExecutedInv ==
  ASSUME IInv, Executing, NEW next \in Nat, Fetch(next),
         MemTypeOK', UNCHANGED DOMAIN mem,
         regs' \in [RegIds -> Word], stk' \in Seq(Word), out' \in Seq(Word),
         ConsoleTypeOK', UnreadInBuffer'
  PROVE  IInv'
<1>1. RunningInMemory'
  BY DEF Fetch, RunningInMemory, Present
<1>2. log_size' \in 0 .. MaxLog + 1
  BY ExecAssumption
     DEF ExecAssumption, IInv, TypeOK, Executing, LogFull, Logged, Fetch
<1>3. /\ pc' \in Nat /\ status' \in {"running", "end"}
      /\ mode' \in {"standalone", "debugger"} /\ log_open' \in BOOLEAN
      /\ returned' \in BOOLEAN /\ image' \in Seq(Word)
  BY DEF IInv, TypeOK, Fetch
<1>4. TypeOK'
  BY <1>2, <1>3 DEF TypeOK, Ended
<1>5. LoadsAtZero'
  BY <1>3 DEF LoadsAtZero
<1> QED BY <1>1, <1>4, <1>5 DEF IInv

\* What an instruction other than IN leaves alone of the console.
LEMMA ConsoleFrame ==
  ASSUME IInv, UNCHANGED consoleVars
  PROVE  ConsoleTypeOK' /\ UnreadInBuffer'
BY DEF IInv, TypeOK, ConsoleTypeOK, UnreadInBuffer, Unread, consoleVars

\* A number stored in the destination register leaves numbers in all.
LEMMA StoreTyped ==
  ASSUME TypeOK, NEW v \in Word, Store(v)
  PROVE  regs' \in [RegIds -> Word]
BY DEF Store, TypeOK

\* The instructions whose one effect is a word in a register.
LEMMA AssignInv ==
  ASSUME IInv, NEW op, NEW results, NEW arity \in Nat,
         \A v \in results : v \in Word,
         Instr(op), \E v \in results : Store(v), Goto(pc + arity),
         UNCHANGED <<mem, stk, out, consoleVars>>
  PROVE  IInv'
<1>1. PICK v \in Word : Store(v)
  OBVIOUS
<1>2. PICK next \in Nat : Fetch(next)
  <2>1. pc + arity \in Int
    BY DEF IInv, TypeOK
  <2> QED BY <2>1, GotoFetches
<1>3. MemTypeOK' /\ stk' \in Seq(Word) /\ out' \in Seq(Word)
  BY DEF IInv, TypeOK, MemTypeOK
<1>4. UNCHANGED DOMAIN mem /\ UNCHANGED consoleVars /\ Executing
  BY DEF Instr
<1> QED BY <1>1, <1>2, <1>3, <1>4, StoreTyped, ConsoleFrame, ExecutedInv DEF IInv

\* The operands an instruction evaluates are words.
LEMMA SourceWord ==
  ASSUME IInv, NEW op \in 0 .. 21, Instr(op), NEW k \in Sources(op)
  PROVE  Val(k) \in Word
<1>1. k \in 1 .. 3
  BY DEF Sources
<1>2. Readable(k)
  BY DEF Instr, Succeeds
<1> QED BY <1>1, <1>2, OperandWord DEF IInv

\* The table of the operands read, as the proofs use it.
LEMMA SourcesTable ==
  /\ \A op \in {2, 6, 7, 8, 17, 19} : 1 \in Sources(op)
  /\ \A op \in {1, 14, 15} : 2 \in Sources(op)
  /\ 1 \in Sources(16) /\ 2 \in Sources(16)
  /\ \A op \in {4, 5} \cup 9 .. 13 : 2 \in Sources(op) /\ 3 \in Sources(op)
BY DEF Sources

\* Every instruction that assigns to a register assigns a word.
LEMMA AssignmentsInv ==
  ASSUME IInv, Set \/ Eq \/ Gt \/ Add \/ Mult \/ Mod \/ And \/ Or \/ Not \/ Rmem
  PROVE  IInv'
<1> USE DEF Assign
<1>1. CASE Set
  <2>1. Val(2) \in Word
    BY <1>1, SourcesTable, SourceWord DEF Set
  <2> QED BY <1>1, <2>1, AssignInv DEF Set
<1>2. CASE Eq
  <2>1. Truth(Val(2) = Val(3)) \in Word
    BY DEF Truth, Word
  <2> QED BY <1>2, <2>1, AssignInv DEF Eq
<1>3. CASE Gt
  <2>1. Truth(Val(2) > Val(3)) \in Word
    BY DEF Truth, Word
  <2> QED BY <1>3, <2>1, AssignInv DEF Gt
<1>4. CASE Add
  <2>1. Val(2) \in Word /\ Val(3) \in Word
    BY <1>4, SourcesTable, SourceWord DEF Add
  <2>2. Val(2) + Val(3) \in Nat
    BY <2>1 DEF Word
  <2>3. (Val(2) + Val(3)) % Modulus \in Literal
    BY <2>2, ModLiteral
  <2>4. (Val(2) + Val(3)) % Modulus \in Word
    BY <2>3 DEF Word, Literal, MAX_VAL
  <2> QED BY <1>4, <2>4, AssignInv DEF Add
<1>5. CASE Mult
  <2>1. Val(2) \in Word /\ Val(3) \in Word
    BY <1>5, SourcesTable, SourceWord DEF Mult
  <2>2. \A v \in Products(Val(2), Val(3)) : v \in Word
    BY <2>1, ProductsTyped
  <2> QED BY <1>5, <2>2, AssignInv DEF Mult
<1>6. CASE Mod
  <2>1. Val(2) \in Word /\ Val(3) \in Word
    BY <1>6, SourcesTable, SourceWord DEF Mod
  <2>2. Val(3) # 0
    BY <1>6 DEF Mod, Instr, Succeeds
  <2>3. Val(2) % Val(3) \in 0 .. Val(2)
    BY <2>1, <2>2, RemainderTyped
  <2>4. Val(2) % Val(3) \in Word
    BY <2>1, <2>3 DEF Word
  <2> QED BY <1>6, <2>4, AssignInv DEF Mod
<1>7. CASE And
  <2>1. Val(2) \in Word /\ Val(3) \in Word
    BY <1>7, SourcesTable, SourceWord DEF And
  <2>2. BitAnd(Val(2), Val(3)) \in Word
    BY <2>1, BitAssumption DEF BitAssumption
  <2> QED BY <1>7, <2>2, AssignInv DEF And
<1>8. CASE Or
  <2>1. Val(2) \in Word /\ Val(3) \in Word
    BY <1>8, SourcesTable, SourceWord DEF Or
  <2>2. BitOr(Val(2), Val(3)) \in Word
    BY <2>1, BitAssumption DEF BitAssumption
  <2> QED BY <1>8, <2>2, AssignInv DEF Or
<1>9. CASE Not
  <2>1. Val(2) \in Word
    BY <1>9, SourcesTable, SourceWord DEF Not
  <2>2. Value_bitwise_not(Val(2)) \in Word
    BY <2>1, NotTyped
  <2> QED BY <1>9, <2>2, AssignInv DEF Not
<1>10. CASE Rmem
  <2>1. Present(Val(2))
    BY <1>10 DEF Rmem, Instr, Succeeds
  <2>2. mem[Val(2)].value \in Word
    BY <2>1, CellTyped DEF IInv, Cell
  <2> QED BY <1>10, <2>2, AssignInv DEF Rmem
<1> QED
  BY <1>1, <1>2, <1>3, <1>4, <1>5, <1>6, <1>7, <1>8, <1>9, <1>10

\* The stack of words stays one when a word is pushed and when it is popped.
LEMMA StackTyped ==
  ASSUME NEW s \in Seq(Word), NEW v \in Word
  PROVE  /\ <<v>> \o s \in Seq(Word)
         /\ s # <<>> => Head(s) \in Word /\ Tail(s) \in Seq(Word)
OBVIOUS

\* The instructions that work on the stack.
LEMMA StackOpsInv ==
  ASSUME IInv, Push \/ Pop \/ Call \/ Ret
  PROVE  IInv'
<1>0. stk \in Seq(Word) /\ pc \in Nat /\ Word \subseteq Nat
  BY DEF IInv, TypeOK, Word
<1>1. MemTypeOK' /\ UNCHANGED DOMAIN mem /\ out' \in Seq(Word)
  BY DEF IInv, TypeOK, MemTypeOK, Push, Pop, Call, Ret
<1>2. UNCHANGED consoleVars /\ Executing
  BY DEF Push, Pop, Call, Ret, Instr
<1>3. CASE Push
  <2>1. Val(1) \in Word
    BY <1>3, SourcesTable, SourceWord DEF Push
  <2>2. stk' \in Seq(Word) /\ regs' \in [RegIds -> Word]
    BY <1>0, <1>3, <2>1, StackTyped DEF Push, IInv, TypeOK
  <2>3. PICK next \in Nat : Fetch(next)
    BY <1>0, <1>3, GotoFetches DEF Push
  <2> QED BY <1>1, <1>2, <2>2, <2>3, ExecutedInv, ConsoleFrame
<1>4. CASE Pop
  <2>1. stk # <<>>
    BY <1>4 DEF Pop, Instr, Succeeds
  <2>2. Head(stk) \in Word /\ stk' \in Seq(Word)
    BY <1>0, <1>4, <2>1, StackTyped DEF Pop
  <2>3. regs' \in [RegIds -> Word]
    BY <1>4, <2>2, StoreTyped DEF Pop, IInv
  <2>4. PICK next \in Nat : Fetch(next)
    BY <1>0, <1>4, GotoFetches DEF Pop
  <2> QED BY <1>1, <1>2, <2>2, <2>3, <2>4, ExecutedInv, ConsoleFrame
<1>5. CASE Call
  <2>1. Val(1) \in Word
    BY <1>5, SourcesTable, SourceWord DEF Call
  <2>2. Present(pc + 2) /\ Evaluates(mem[pc + 2].addr)
    BY <1>5 DEF Call, Instr, Succeeds
  <2>3. Eval(regs, mem[pc + 2].addr) \in Word
    BY <2>2, CellTyped, EvalWord DEF IInv, TypeOK, Cell
  <2>4. stk' \in Seq(Word) /\ regs' \in [RegIds -> Word]
    BY <1>0, <1>5, <2>3, StackTyped DEF Call, IInv, TypeOK
  <2>5. PICK next \in Nat : Fetch(next)
    BY <1>5, <2>1, JumpArrives, <1>0 DEF Call
  <2> QED BY <1>1, <1>2, <2>4, <2>5, ExecutedInv, ConsoleFrame
<1>6. CASE Ret
  <2>1. stk # <<>>
    BY <1>6 DEF Ret, Instr, Succeeds
  <2>2. Head(stk) \in Word /\ stk' \in Seq(Word)
    BY <1>0, <1>6, <2>1, StackTyped DEF Ret
  <2>3. regs' \in [RegIds -> Word]
    BY <1>6 DEF Ret, IInv, TypeOK
  <2>4. PICK next \in Nat : Fetch(next)
    BY <1>6, <2>2, JumpArrives, <1>0 DEF Ret
  <2> QED BY <1>1, <1>2, <2>2, <2>3, <2>4, ExecutedInv, ConsoleFrame
<1> QED BY <1>3, <1>4, <1>5, <1>6

\* The jumps and the instructions that do nothing.
LEMMA JumpsInv ==
  ASSUME IInv, Jmp \/ Tjump \/ Fjump \/ Noop \/ Skip
  PROVE  IInv'
<1>0. pc \in Nat /\ Word \subseteq Nat
  BY DEF IInv, TypeOK, Word
<1>1. PICK op, last : Jump(op, last) /\ last \in Nat
  <2>1. CASE Jmp
    <3>1. Val(1) \in Word
      BY <2>1, SourcesTable, SourceWord DEF Jmp, Jump
    <3> QED BY <2>1, <3>1, BeforeNat DEF Jmp
  <2>2. CASE Tjump \/ Fjump
    <3>1. ASSUME Taken PROVE Val(2) \in Word
      <4>1. Readable(2)
        BY <2>2, <3>1
           DEF Tjump, Fjump, Jump, Instr, Succeeds, BranchReadable
      <4> QED BY <4>1, OperandWord DEF IInv
    <3>2. (IF Taken THEN Before(Val(2)) ELSE pc + 2) \in Nat
      <4>1. CASE Taken
        BY <3>1, <4>1, BeforeNat
      <4>2. CASE ~Taken
        BY <1>0, <4>2
      <4> QED BY <4>1, <4>2
    <3> QED BY <2>2, <3>2 DEF Tjump, Fjump
  <2>3. CASE Noop \/ Skip
    BY <1>0, <2>3 DEF Noop, Skip
  <2> QED BY <2>1, <2>2, <2>3
<1>2. /\ MemTypeOK' /\ UNCHANGED DOMAIN mem /\ out' \in Seq(Word)
      /\ regs' \in [RegIds -> Word] /\ stk' \in Seq(Word)
  BY <1>1 DEF IInv, TypeOK, MemTypeOK, Jump
<1>3. PICK next \in Nat : Fetch(next)
  BY <1>1, GotoFetches DEF Jump
<1> QED BY <1>1, <1>2, <1>3, ExecutedInv, ConsoleFrame DEF Jump, Instr

\* WMEM writes a cell in place, OUT two bytes.
LEMMA WritesInv ==
  ASSUME IInv, Wmem \/ Out
  PROVE  IInv'
<1>0. pc \in Nat
  BY DEF IInv, TypeOK
<1>1. CASE Wmem
  <2>1. Val(1) \in Word /\ Val(2) \in Word
    BY <1>1, SourcesTable, SourceWord DEF Wmem
  <2>2. [addr |-> Val(1), value |-> Val(2)] \in Cell
    BY <2>1 DEF Cell
  <2>3. MemTypeOK' /\ UNCHANGED DOMAIN mem
    <3>1. PICK n \in 0 .. MAX_SIZE - 1 : mem \in [0 .. n - 1 -> Cell]
      BY DEF IInv, TypeOK, MemTypeOK
    <3>2. mem' \in [0 .. n - 1 -> Cell] /\ DOMAIN mem' = DOMAIN mem
      BY <1>1, <2>2, <3>1 DEF Wmem
    <3> QED BY <3>2 DEF MemTypeOK
  <2>4. PICK next \in Nat : Fetch(next)
    BY <1>0, <1>1, GotoFetches DEF Wmem
  <2>5. /\ regs' \in [RegIds -> Word] /\ stk' \in Seq(Word) /\ out' \in Seq(Word)
    BY <1>1 DEF Wmem, IInv, TypeOK
  <2> QED BY <1>1, <2>3, <2>4, <2>5, ExecutedInv, ConsoleFrame DEF Wmem, Instr
<1>2. CASE Out
  <2>1. Val(1) \in Word
    BY <1>2, SourcesTable, SourceWord DEF Out
  <2>2. Val(1) % ByteMod \in Word /\ Val(1) \div ByteMod \in Word
    <3>1. ByteMod \in Nat /\ ByteMod > 0
      BY ExecAssumption DEF ExecAssumption
    <3>2. Val(1) \in Nat
      BY <2>1 DEF Word
    <3>3. Val(1) % ByteMod \in 0 .. Val(1)
      BY <3>1, <3>2
    <3>4. Val(1) \div ByteMod \in 0 .. Val(1)
      BY <3>1, <3>2
    <3> QED BY <2>1, <3>3, <3>4 DEF Word
  <2>3. out' \in Seq(Word)
    BY <1>2, <2>2 DEF Out
  <2>4. PICK next \in Nat : Fetch(next)
    BY <1>0, <1>2, GotoFetches DEF Out
  <2>5. /\ regs' \in [RegIds -> Word] /\ stk' \in Seq(Word)
        /\ MemTypeOK' /\ UNCHANGED DOMAIN mem
    BY <1>2 DEF Out, IInv, TypeOK, MemTypeOK
  <2> QED BY <1>2, <2>3, <2>4, <2>5, ExecutedInv, ConsoleFrame DEF Out, Instr
<1> QED BY <1>1, <1>2

-----------------------------------------------------------------------------
(* IN *)

\* What the proofs know of a console as Filled and Buffers build it.
BufferOK(r) ==
  /\ r.buf \in Line /\ r.idx \in Nat /\ r.len \in Nat
  /\ r.flag \in BOOLEAN /\ r.script \in 0 .. Len(Script) + 1
  /\ \/ r.len <= Len(r.buf.text) /\ r.idx < Len(r.buf.text)
     \/ r.buf.cmd \in {"garbage", "_other"}

\* A line of the console or of the script has a first character.
LEMMA FilledOK ==
  ASSUME NEW l \in Lines \cup {Script[i] : i \in DOMAIN Script},
         NEW flag \in BOOLEAN, NEW script \in 0 .. Len(Script) + 1
  PROVE  BufferOK(Filled(l, Len(l.text), flag, script))
<1>1. l \in Line /\ Len(l.text) \in 1 .. SIZE_MAX - 1
  BY ConsoleAssumption DEF ConsoleAssumption
<1> QED BY <1>1, ConsoleAssumption DEF ConsoleAssumption, BufferOK, Filled

\* A line without register and value, as the code itself makes one.
LEMMA LineOfTyped ==
  ASSUME NEW cmd \in Commands, NEW text \in Seq(Chars)
  PROVE  LineOf(cmd, text) \in Line
BY DEF LineOf, Line, RegIds, Word

LEMMA BuffersOK ==
  ASSUME IInv, NEW r \in Buffers(mode)
  PROVE  BufferOK(r)
<1>0. ConsoleTypeOK
  BY DEF IInv, TypeOK
<1>1. CASE Unread
  <2>1. r = [buf |-> stdin_buf, idx |-> stdin_idx, len |-> stdin_str_len,
             flag |-> ff_flag, script |-> ff_script]
    BY <1>1 DEF Buffers
  <2> QED BY <1>0, <1>1, <2>1
          DEF BufferOK, IInv, UnreadInBuffer, Unread, ConsoleTypeOK, Line
<1>2. CASE ~Unread /\ ScriptHasLine
  <2>1. r \in FromScript /\ ff_script \in DOMAIN Script /\ ff_script + 1 \in 0 .. Len(Script) + 1
    BY <1>0, <1>2, ConsoleAssumption
       DEF Buffers, ScriptHasLine, ConsoleTypeOK, ConsoleAssumption
  <2> QED BY <1>0, <2>1, FilledOK DEF FromScript, ConsoleTypeOK
<1>3. CASE ~Unread /\ ~ScriptHasLine
  <2>1. r \in FromUser(mode) /\ ClosedScript \in 0 .. Len(Script) + 1
    BY <1>0, <1>3, ConsoleAssumption
       DEF Buffers, ClosedScript, ConsoleTypeOK, ConsoleAssumption
  <2>2. CASE \E l \in Lines : r = Filled(l, Len(l.text), FALSE, ClosedScript)
    BY <2>1, <2>2, FilledOK
  <2>3. CASE \E c \in {"garbage", "_other"} :
               r = Filled(LineOf(c, <<>>), SIZE_MAX, FALSE, ClosedScript)
    <3>1. PICK c \in {"garbage", "_other"} :
                 r = Filled(LineOf(c, <<>>), SIZE_MAX, FALSE, ClosedScript)
      BY <2>3
    <3>0. c \in Commands /\ <<>> \in Seq(Chars)
      BY DEF Commands
    <3>2. LineOf(c, <<>>) \in Line /\ LineOf(c, <<>>).cmd = c
      BY <3>0, LineOfTyped DEF LineOf
    <3> QED BY <2>1, <3>1, <3>2, ConsoleAssumption
            DEF BufferOK, Filled, ConsoleAssumption
  <2>4. CASE r = Filled(LineOf("text", <<0>>), 0, FALSE, ClosedScript)
    <3>1. <<0>> \in Seq(Chars)
      BY ConsoleAssumption DEF ConsoleAssumption
    <3>2. LineOf("text", <<0>>) \in Line /\ LineOf("text", <<0>>).text = <<0>>
      BY <3>1, LineOfTyped DEF Commands, LineOf
    <3> QED BY <2>1, <2>4, <3>2 DEF BufferOK, Filled
  <2> QED BY <2>1, <2>2, <2>3, <2>4 DEF FromUser
<1> QED BY <1>1, <1>2, <1>3

\* The buffer IN leaves is well formed again.
LEMMA ConsoleInv ==
  ASSUME NEW r, BufferOK(r), Deliver(r) \/ Keep(r) \/ Setreg(r)
  PROVE  ConsoleTypeOK' /\ UnreadInBuffer'
<1>0. /\ ff_flag' \in BOOLEAN /\ ff_script' \in 0 .. Len(Script) + 1
  <2>1. Len(Script) \in Nat
    BY ConsoleAssumption DEF ConsoleAssumption
  <2>2. ff_flag' \in BOOLEAN
    BY DEF Deliver, Keep, Setreg, Console
  <2>3. ff_script' = 1 \/ ff_script' = r.script
    BY DEF Deliver, Keep, Setreg, Console
  <2> QED BY <2>1, <2>2, <2>3 DEF BufferOK
<1>1. CASE Deliver(r) \/ Keep(r)
  <2>1. stdin_buf' = r.buf /\ stdin_str_len' = r.len /\ stdin_idx' \in Nat
    BY <1>1 DEF BufferOK, Deliver, Keep, Console
  <2> QED BY <1>0, <2>1 DEF BufferOK, ConsoleTypeOK, UnreadInBuffer
<1>2. CASE Setreg(r)
  <2>1. <<Newline>> \in Seq(Chars)
    BY ConsoleAssumption DEF ConsoleAssumption
  <2>2. /\ LineOf("text", <<Newline>>) \in Line
        /\ LineOf("text", <<Newline>>).text = <<Newline>>
    BY <2>1, LineOfTyped DEF Commands, LineOf
  <2>3. /\ stdin_buf' = LineOf("text", <<Newline>>)
        /\ stdin_idx' = 0 /\ stdin_str_len' = 1
    BY <1>2 DEF Setreg, Console
  <2>4. ConsoleTypeOK'
    <3>1. stdin_buf' \in Line /\ stdin_idx' \in Nat /\ stdin_str_len' \in Nat
      BY <2>2, <2>3
    <3> QED BY <1>0, <3>1 DEF ConsoleTypeOK
  <2>5. UnreadInBuffer'
    <3>1. Len(stdin_buf'.text) = 1
      BY <2>2, <2>3
    <3> QED BY <2>3, <3>1 DEF UnreadInBuffer
  <2> QED BY <2>4, <2>5
<1> QED BY <1>1, <1>2

\* IN, whatever line is in the buffer.
LEMMA InInv ==
  ASSUME IInv, In
  PROVE  IInv'
<1>1. PICK r \in Buffers(mode) :
        InChar(r) \/ InSetreg(r) \/ InIgnored(r) \/ InQuit(r) \/ InFault(r)
  BY DEF In
<1>2. BufferOK(r) /\ Executing /\ inst = 20
  BY <1>1, BuffersOK DEF In, InExec
<1>3. Goto(pc + 1) => \E next \in Nat : Fetch(next)
  <2>1. pc + 1 \in Int
    BY DEF IInv, TypeOK
  <2> QED BY <2>1, GotoFetches
<1>4. CASE InChar(r)
  <2>1. r.buf.cmd = "garbage" \/ r.idx + 1 \in 1 .. Len(r.buf.text)
    BY <1>2, <1>4 DEF BufferOK, InChar, Delivers
  <2>2. \A c \in CharsAt(r) : c \in Word
    BY <1>2, <2>1, ConsoleAssumption
       DEF CharsAt, BufferOK, Line, ConsoleAssumption
  <2>3. regs' \in [RegIds -> Word]
    BY <1>4, <2>2, StoreTyped DEF InChar, IInv
  <2>4. MemTypeOK' /\ UNCHANGED DOMAIN mem
    <3>1. PICK n \in 0 .. MAX_SIZE - 1 : mem \in [0 .. n - 1 -> Cell]
      BY DEF IInv, TypeOK, MemTypeOK
    <3>2. \A i \in 0 .. n - 1 : i \in DOMAIN Patch => [addr |-> i, value |-> Patch[i]] \in Cell
      BY ExecAssumption DEF ExecAssumption, Cell, Word
    <3>3. Patched(r) \in [0 .. n - 1 -> Cell]
      BY <3>1, <3>2 DEF Patched
    <3> QED BY <1>4, <3>1, <3>3 DEF InChar, MemTypeOK
  <2>5. stk' \in Seq(Word) /\ out' \in Seq(Word) /\ Goto(pc + 1) /\ Deliver(r)
    BY <1>4 DEF InChar, IInv, TypeOK
  <2> QED BY <1>2, <1>3, <2>3, <2>4, <2>5, ConsoleInv, ExecutedInv
<1>5. CASE InSetreg(r)
  <2>1. regs' \in [RegIds -> Word]
    BY <1>2, <1>5 DEF InSetreg, IInv, TypeOK, BufferOK, Line
  <2>2. /\ stk' \in Seq(Word) /\ out' \in Seq(Word) /\ Goto(pc + 1) /\ Setreg(r)
        /\ MemTypeOK' /\ UNCHANGED DOMAIN mem
    BY <1>5 DEF InSetreg, IInv, TypeOK, MemTypeOK
  <2> QED BY <1>2, <1>3, <2>1, <2>2, ConsoleInv, ExecutedInv
<1>6. CASE InIgnored(r)
  <2>1. /\ stk' \in Seq(Word) /\ out' \in Seq(Word) /\ Goto(pc + 1) /\ Keep(r)
        /\ MemTypeOK' /\ UNCHANGED DOMAIN mem /\ regs' \in [RegIds -> Word]
    BY <1>6 DEF InIgnored, IInv, TypeOK, MemTypeOK
  <2> QED BY <1>2, <1>3, <2>1, ConsoleInv, ExecutedInv
<1>7. CASE InQuit(r)
  <2>1. ConsoleTypeOK' /\ UnreadInBuffer'
    BY <1>2, <1>7, ConsoleInv DEF InQuit
  <2>2. log_size' \in 0 .. MaxLog + 1
    BY <1>2, <1>7, ExecAssumption
       DEF ExecAssumption, InQuit, IInv, TypeOK, Executing, LogFull, Logged
  <2>3. /\ UNCHANGED <<image, mem, regs, stk, mode, out, returned>>
        /\ status' = "quit" /\ log_open' = FALSE
    BY <1>7 DEF InQuit
  <2>8. pc' \in Nat
    BY <1>7 DEF InQuit, IInv, TypeOK
  <2>6. MemTypeOK'
    BY <2>3 DEF IInv, TypeOK, MemTypeOK
  <2>7. TypeOK'
    BY <2>1, <2>2, <2>3, <2>6, <2>8 DEF IInv, TypeOK, Ended
  <2>4. RunningInMemory'
    BY <1>7 DEF InQuit, RunningInMemory
  <2>5. LoadsAtZero'
    BY <1>7 DEF InQuit, LoadsAtZero
  <2> QED BY <2>1, <2>4, <2>5, <2>7 DEF IInv
<1>8. CASE InFault(r)
  <2>1. status' = "fault" /\ UNCHANGED <<image, machineVars, mode, logVars, out,
                                         returned, consoleVars>>
    BY <1>8 DEF InFault
  <2>2. MemTypeOK' /\ ConsoleTypeOK' /\ UnreadInBuffer'
    BY <2>1, ConsoleFrame DEF IInv, TypeOK, MemTypeOK, machineVars
  <2> QED BY <2>1, <2>2
          DEF IInv, TypeOK, RunningInMemory, LoadsAtZero, machineVars, logVars
<1> QED BY <1>1, <1>4, <1>5, <1>6, <1>7, <1>8

-----------------------------------------------------------------------------
(* The start and the ends *)

\* A program has its words in cells from address 0 on.
LEMMA CellsTyped ==
  ASSUME NEW words \in Seq(Word), Len(words) < MAX_SIZE
  PROVE  /\ CellsOf(words) \in [0 .. Len(words) - 1 -> Cell]
         /\ Len(words) \in 0 .. MAX_SIZE - 1
<1>1. Len(words) \in 0 .. MAX_SIZE - 1
  BY ExecAssumption DEF ExecAssumption
<1>2. \A i \in 0 .. Len(words) - 1 :
        [addr |-> i, value |-> words[i + 1]] \in Cell
  <2> TAKE i \in 0 .. Len(words) - 1
  <2>1. i + 1 \in 1 .. Len(words) /\ i \in Word
    BY <1>1, ExecAssumption DEF ExecAssumption, Word
  <2> QED BY <2>1 DEF Cell
<1> QED BY <1>1, <1>2 DEF CellsOf

LEMMA InitInv == Init => IInv
<1> SUFFICES ASSUME Init PROVE IInv
  OBVIOUS
<1>1. MemTypeOK
  <2>1. <<>> \in Seq(Word) /\ Len(<<>>) = 0
    OBVIOUS
  <2>2. 0 < MAX_SIZE /\ 0 \in 0 .. MAX_SIZE - 1
    BY ExecAssumption DEF ExecAssumption
  <2>3. CellsOf(<<>>) \in [0 .. 0 - 1 -> Cell]
    BY <2>1, <2>2, CellsTyped
  <2>4. mem = CellsOf(<<>>)
    BY DEF Init
  <2> QED BY <2>2, <2>3, <2>4 DEF MemTypeOK
<1>2. regs \in [RegIds -> Word]
  <2>1. 0 \in Word /\ regs = [r \in RegIds |-> 0]
    BY DEF Word, Init
  <2> QED BY <2>1
<1>3. ConsoleTypeOK /\ UnreadInBuffer
  <2>1. <<>> \in Seq(Chars) /\ "none" \in Commands
    BY DEF Commands
  <2>2. NoLine \in Line
    BY <2>1, LineOfTyped DEF NoLine
  <2>3. 0 \in 0 .. Len(Script) + 1
    BY ConsoleAssumption DEF ConsoleAssumption
  <2>4. ConsoleInit
    BY DEF Init
  <2>5. ConsoleTypeOK
    BY <2>2, <2>3, <2>4 DEF ConsoleInit, ConsoleTypeOK
  <2>6. UnreadInBuffer
    BY <2>4 DEF ConsoleInit, UnreadInBuffer, Unread
  <2> QED BY <2>5, <2>6
<1>4. image \in Seq(Word) /\ log_size \in 0 .. MaxLog + 1
  BY ExecAssumption DEF ExecAssumption, Init
<1>5. RunningInMemory /\ LoadsAtZero
  BY DEF Init, RunningInMemory, LoadsAtZero
<1>6. /\ stk \in Seq(Word) /\ out \in Seq(Word)
      /\ mode \in {"standalone", "debugger"}
  BY DEF Init
<1>7. pc \in Nat /\ status = "loading" /\ log_open = FALSE /\ returned = FALSE
  BY DEF Init
<1>8. TypeOK
  BY <1>1, <1>2, <1>3, <1>4, <1>6, <1>7 DEF TypeOK
<1> QED BY <1>3, <1>5, <1>8 DEF IInv

LEMMA LoadInv ==
  ASSUME IInv, Load
  PROVE  IInv'
<1>1. /\ UNCHANGED <<image, regs, stk, pc, mode, log_size, out, returned>>
      /\ UNCHANGED consoleVars
  BY DEF Load
<1>2. ConsoleTypeOK' /\ UnreadInBuffer'
  BY <1>1, ConsoleFrame
<1>3. /\ MemTypeOK' /\ RunningInMemory'
      /\ log_open' \in BOOLEAN /\ status' \in {"running", "fault", "exit"}
  <2>1. CASE /\ Len(image) < MAX_SIZE /\ mem' = CellsOf(image)
             /\ status' = IF image = <<>> THEN "exit" ELSE "running"
             /\ log_open' = (mode = "standalone")
    <3>1. image \in Seq(Word) /\ mem' = CellsOf(image) /\ pc' = 0
      BY <2>1 DEF Load, IInv, TypeOK, LoadsAtZero
    <3>2. MemTypeOK'
      BY <2>1, <3>1, CellsTyped DEF MemTypeOK
    <3>3. DOMAIN mem' = 0 .. Len(image) - 1
      BY <3>1 DEF CellsOf
    <3>4. status' = IF image = <<>> THEN "exit" ELSE "running"
      BY <2>1 DEF Load
    <3>5. image # <<>> => Len(image) > 0
      BY <3>1
    <3>6. RunningInMemory'
      BY <3>1, <3>3, <3>4, <3>5 DEF RunningInMemory, Present
    <3>7. log_open' \in BOOLEAN
      BY <2>1 DEF Load
    <3> QED BY <3>2, <3>4, <3>6, <3>7
  <2>2. CASE status' = "fault" /\ UNCHANGED <<mem, log_open>>
    BY <2>2 DEF IInv, TypeOK, MemTypeOK, RunningInMemory
  <2> QED BY <2>1, <2>2 DEF Load
<1>4. LoadsAtZero'
  BY <1>3 DEF LoadsAtZero
<1>5. TypeOK'
  BY <1>1, <1>2, <1>3 DEF IInv, TypeOK
<1> QED BY <1>2, <1>3, <1>4, <1>5 DEF IInv

LEMMA EndsInv ==
  ASSUME IInv, Halt \/ LogLimit \/ Fault \/ ExecuteReturn \/ UNCHANGED vars
  PROVE  IInv'
<1>1. /\ UNCHANGED <<image, mem, regs, stk, pc, mode, log_size, out>>
      /\ UNCHANGED consoleVars /\ log_open' \in BOOLEAN /\ returned' \in BOOLEAN
  BY DEF Halt, LogLimit, Fault, ExecuteReturn, End, vars, machineVars, logVars,
         IInv, TypeOK
<1>2. status' \in Ended \cup {"fault"} \/ status' = status
  BY DEF Halt, LogLimit, Fault, ExecuteReturn, End, vars, Ended
<1>3. ConsoleTypeOK' /\ UnreadInBuffer'
  BY <1>1, ConsoleFrame
<1>4. MemTypeOK'
  BY <1>1 DEF IInv, TypeOK, MemTypeOK
<1>5. TypeOK'
  BY <1>1, <1>2, <1>3, <1>4 DEF IInv, TypeOK
<1>6. RunningInMemory'
  BY <1>1, <1>2 DEF IInv, RunningInMemory, Present, Ended
<1>7. LoadsAtZero'
  BY <1>1, <1>2 DEF IInv, LoadsAtZero, Ended
<1> QED BY <1>3, <1>5, <1>6, <1>7 DEF IInv

-----------------------------------------------------------------------------
(* The theorems *)

LEMMA StepInv ==
  ASSUME IInv, [Next]_vars
  PROVE  IInv'
BY LoadInv, AssignmentsInv, StackOpsInv, JumpsInv, WritesInv, InInv, EndsInv
   DEF Next, Step, Terminated

LEMMA Inductive == Spec => []IInv
<1>1. IInv /\ [Next]_vars => IInv'
  BY StepInv
<1> QED BY <1>1, InitInv, PTL DEF Spec

\* Every number of the machine is a word of its width, the memory stays below
\* MAX_SIZE cells and the log below its limit, whatever program runs on whatever
\* input: the characters of IN, the products of MULT and the words of a program
\* that rewrites itself included.
THEOREM TypeCorrect == Spec => []TypeOK
<1>1. IInv => TypeOK
  BY DEF IInv
<1> QED BY <1>1, Inductive, PTL

\* A character still to be delivered lies inside the buffer, whatever lines and
\* commands came before (exec.c:306-408).
THEOREM BufferBound == Spec => []UnreadInBuffer
<1>1. IInv => UnreadInBuffer
  BY DEF IInv
<1> QED BY <1>1, Inductive, PTL

-----------------------------------------------------------------------------
(* Cells record their index *)

\* The steps that write memory are the loader, WMEM and an IN on tele_hack.
LEMMA MemoryFrame ==
  ASSUME [Next]_vars
  PROVE  \/ UNCHANGED mem
         \/ Load \/ Wmem
         \/ \E r : mem' = Patched(r)
BY DEF Next, Step, Terminated, vars, machineVars, Halt, LogLimit, Fault, End,
       ExecuteReturn, Set, Eq, Gt, Add, Mult, Mod, And, Or, Not, Rmem, Assign,
       Push, Pop, Call, Ret, Jmp, Tjump, Fjump, Noop, Skip, Jump, Out, In,
       InChar, InSetreg, InIgnored, InQuit, InFault

LEMMA AddrStep ==
  ASSUME IInv, AddrIsIndex, [Next]_vars
  PROVE  AddrIsIndex'
<1>1. CASE UNCHANGED mem
  BY <1>1 DEF AddrIsIndex
<1>2. CASE Load
  <2>1. mem' = CellsOf(image) \/ UNCHANGED mem
    BY <1>2 DEF Load
  <2> QED BY <2>1 DEF AddrIsIndex, CellsOf
<1>3. CASE Wmem
  <2>1. PICK n \in 0 .. MAX_SIZE - 1 : mem \in [0 .. n - 1 -> Cell]
    BY DEF IInv, TypeOK, MemTypeOK
  <2>2. mem' = [mem EXCEPT ![Val(1)] = [addr |-> Val(1), value |-> Val(2)]]
    BY <1>3 DEF Wmem
  <2> QED BY <2>1, <2>2 DEF AddrIsIndex
<1>4. CASE \E r : mem' = Patched(r)
  BY <1>4 DEF AddrIsIndex, Patched
<1> QED BY <1>1, <1>2, <1>3, <1>4, MemoryFrame

\* A cell records its own index at all times: the loader, WMEM and tele_hack
\* keep the two apart pieces of data equal (vm.c:25, exec.c:257, 381-392).
THEOREM AddressesHold == Spec => []AddrIsIndex
<1>1. Init => AddrIsIndex
  BY DEF Init, AddrIsIndex, CellsOf
<1>2. IInv /\ AddrIsIndex /\ [Next]_vars => AddrIsIndex'
  BY AddrStep
<1> QED BY <1>1, <1>2, Inductive, PTL DEF Spec

\* CALL leaves the address of the next instruction on the stack, on top of what
\* was there, although it reads it from a cell (exec.c:274, arch-spec:71).
THEOREM CallsReturn == Spec => CallSavesNext
<1>1. ASSUME IInv, AddrIsIndex, [Next]_vars
      PROVE  Executing /\ inst = 17 /\ Succeeds /\ ~UNCHANGED vars
             => stk' = <<pc + 2>> \o stk
  <2> SUFFICES ASSUME Executing, inst = 17, Succeeds, ~UNCHANGED vars
               PROVE  stk' = <<pc + 2>> \o stk
    OBVIOUS
  <2>1. status = "running"
    BY DEF Executing
  <2>2. Call
    <3>1. Step
      BY <1>1 DEF Next, Terminated
    <3>2. ~Load /\ ~ExecuteReturn /\ ~LogLimit /\ ~Fault
      BY <2>1 DEF Load, ExecuteReturn, Ended, LogLimit, Executing, Fault
    <3>3. ~(Halt \/ Push \/ Pop \/ Ret \/ Out \/ In \/ Wmem)
      BY DEF Halt, Push, Pop, Ret, Out, In, Wmem, Instr, InExec
    <3>4. ~(Jmp \/ Tjump \/ Fjump \/ Noop \/ Skip)
      BY DEF Jmp, Tjump, Fjump, Noop, Skip, Jump, Instr
    <3>5. ~(Set \/ Eq \/ Gt \/ Add \/ Mult \/ Mod \/ And \/ Or \/ Not \/ Rmem)
      BY DEF Set, Eq, Gt, Add, Mult, Mod, And, Or, Not, Rmem, Assign, Instr
    <3> QED BY <3>1, <3>2, <3>3, <3>4, <3>5 DEF Step
  <2>3. Present(pc + 2) /\ pc + 2 \in Nat /\ pc + 2 < MAX_SIZE
    BY <1>1, CellTyped DEF Succeeds, IInv
  <2>4. mem[pc + 2].addr = pc + 2
    BY <1>1, <2>3 DEF AddrIsIndex, Present
  <2>5. Eval(regs, pc + 2) = pc + 2
    BY <2>3, ExecAssumption DEF ExecAssumption, Eval, MAX_VAL
  <2> QED BY <2>2, <2>4, <2>5 DEF Call
<1>2. IInv /\ AddrIsIndex /\ [Next]_vars =>
        [Executing /\ inst = 17 /\ Succeeds => stk' = <<pc + 2>> \o stk]_vars
  BY <1>1
<1> QED BY <1>2, Inductive, AddressesHold, PTL DEF Spec, CallSavesNext

-----------------------------------------------------------------------------
(* 15-bit arithmetic *)

\* Operands are 15-bit numbers when the registers are.
LEMMA OperandLiteral ==
  ASSUME IInv, Narrow, NEW op \in 0 .. 21, Instr(op), NEW k \in Sources(op)
  PROVE  Val(k) \in Literal
<1>1. k \in 1 .. 3
  BY DEF Sources
<1>2. Readable(k)
  BY DEF Instr, Succeeds
<1>3. mem[pc + k] \in Cell
  BY <1>2, CellTyped DEF Readable, IInv
<1>4. Arg(k) \in Word /\ Evaluates(Arg(k))
  BY <1>2, <1>3 DEF Readable, Arg, Cell
<1>5. CASE Arg(k) > MAX_VAL
  <2>1. RegIdx(Arg(k)) \in RegIds
    BY <1>4, <1>5 DEF RegIdx, RegIds, Evaluates, MAX_VAL, MAX_REG, Word
  <2> QED BY <1>5, <2>1 DEF Val, Eval, Narrow
<1>6. CASE ~(Arg(k) > MAX_VAL)
  BY <1>4, <1>6 DEF Val, Eval, Literal, Word, MAX_VAL
<1> QED BY <1>5, <1>6

\* A 15-bit number in one register leaves them all 15-bit.
LEMMA StoreNarrow ==
  ASSUME IInv, Narrow, NEW v \in Literal, Store(v), UNCHANGED stk
  PROVE  Narrow'
BY DEF IInv, TypeOK, Store, Narrow

\* The stack of 15-bit numbers after a push and a pop.
LEMMA StackNarrow ==
  ASSUME NEW s \in Seq(Word), \A i \in DOMAIN s : s[i] \in Literal,
         NEW v \in Literal
  PROVE  /\ \A i \in DOMAIN (<<v>> \o s) : (<<v>> \o s)[i] \in Literal
         /\ s # <<>> => /\ Head(s) \in Literal
                        /\ \A i \in DOMAIN Tail(s) : Tail(s)[i] \in Literal
OBVIOUS

\* The instructions that compute.
LEMMA AssignNarrow ==
  ASSUME IInv, Narrow, Set \/ Eq \/ Gt \/ Add \/ Mult \/ Mod \/ And \/ Or \/ Not
  PROVE  Narrow'
<1> USE DEF Assign
<1>0. UNCHANGED stk /\ 0 \in Literal /\ 1 \in Literal /\ Literal \subseteq Word
  BY DEF Literal, MAX_VAL, Word, Set, Eq, Gt, Add, Mult, Mod, And, Or, Not
<1>1. CASE Set
  <2>1. Val(2) \in Literal
    BY <1>1, SourcesTable, OperandLiteral DEF Set
  <2> QED BY <1>0, <1>1, <2>1, StoreNarrow DEF Set
<1>2. CASE Eq \/ Gt
  BY <1>0, <1>2, StoreNarrow DEF Eq, Gt, Truth
<1>3. CASE Add
  <2>1. Val(2) \in Literal /\ Val(3) \in Literal
    BY <1>3, SourcesTable, OperandLiteral DEF Add
  <2>2. Val(2) + Val(3) \in Nat
    BY <2>1 DEF Literal
  <2>3. (Val(2) + Val(3)) % Modulus \in Literal
    BY <2>2, ModLiteral
  <2> QED BY <1>0, <1>3, <2>3, StoreNarrow DEF Add
<1>4. CASE Mult
  <2>1. Val(2) \in Literal /\ Val(3) \in Literal
    BY <1>4, SourcesTable, OperandLiteral DEF Mult
  <2>2. \A v \in Products(Val(2), Val(3)) : v \in Literal
    BY <1>0, <2>1, ProductsTyped
  <2> QED BY <1>0, <1>4, <2>2, StoreNarrow DEF Mult
<1>5. CASE Mod
  <2>1. Val(2) \in Literal /\ Val(3) \in Literal /\ Val(3) # 0
    BY <1>5, SourcesTable, OperandLiteral DEF Mod, Instr, Succeeds
  <2>2. Val(2) % Val(3) \in 0 .. Val(2)
    BY <1>0, <2>1, RemainderTyped
  <2>3. Val(2) % Val(3) \in Literal
    BY <2>1, <2>2 DEF Literal, MAX_VAL
  <2> QED BY <1>0, <1>5, <2>3, StoreNarrow DEF Mod
<1>6. CASE And
  <2>1. Val(2) \in Literal /\ Val(3) \in Literal
    BY <1>6, SourcesTable, OperandLiteral DEF And
  <2>2. BitAnd(Val(2), Val(3)) \in Literal
    BY <2>1, BitAssumption DEF BitAssumption
  <2> QED BY <1>0, <1>6, <2>2, StoreNarrow DEF And
<1>7. CASE Or
  <2>1. Val(2) \in Literal /\ Val(3) \in Literal
    BY <1>7, SourcesTable, OperandLiteral DEF Or
  <2>2. BitOr(Val(2), Val(3)) \in Literal
    BY <2>1, BitAssumption DEF BitAssumption
  <2> QED BY <1>0, <1>7, <2>2, StoreNarrow DEF Or
<1>8. CASE Not
  <2>1. Val(2) \in Literal
    BY <1>8, SourcesTable, OperandLiteral DEF Not
  <2>2. Value_bitwise_not(Val(2)) \in Literal
    BY <1>0, <2>1, NotTyped
  <2> QED BY <1>0, <1>8, <2>2, StoreNarrow DEF Not
<1> QED BY <1>1, <1>2, <1>3, <1>4, <1>5, <1>6, <1>7, <1>8

\* The instructions that use the stack; the address CALL pushes is an index
\* of the memory.
LEMMA StackOpsNarrow ==
  ASSUME IInv, AddrIsIndex, Narrow, Push \/ Pop \/ Call \/ Ret
  PROVE  Narrow'
<1>0. /\ stk \in Seq(Word) /\ \A i \in DOMAIN stk : stk[i] \in Literal
      /\ 0 \in Literal
  BY DEF IInv, TypeOK, Narrow, Literal, MAX_VAL
<1>1. CASE Push
  <2>1. Val(1) \in Literal
    BY <1>1, SourcesTable, OperandLiteral DEF Push
  <2>2. stk' = <<Val(1)>> \o stk /\ UNCHANGED regs
    BY <1>1 DEF Push
  <2> QED BY <1>0, <2>1, <2>2, StackNarrow DEF Narrow
<1>2. CASE Pop
  <2>1. stk # <<>>
    BY <1>2 DEF Pop, Instr, Succeeds
  <2>2. Head(stk) \in Literal /\ \A i \in DOMAIN stk' : stk'[i] \in Literal
    BY <1>0, <1>2, <2>1, StackNarrow DEF Pop
  <2>3. \A r \in RegIds : regs'[r] \in Literal
    BY <1>2, <2>2 DEF Pop, Store, IInv, TypeOK, Narrow
  <2> QED BY <2>2, <2>3 DEF Narrow
<1>3. CASE Call
  <2>1. Present(pc + 2) /\ pc + 2 \in Nat /\ pc + 2 < MAX_SIZE
    BY <1>3, CellTyped DEF Call, Instr, Succeeds, IInv
  <2>2. mem[pc + 2].addr = pc + 2
    BY <2>1 DEF AddrIsIndex, Present
  <2>3. Eval(regs, pc + 2) = pc + 2 /\ pc + 2 \in Literal
    BY <2>1, ExecAssumption DEF ExecAssumption, Eval, Literal, MAX_VAL
  <2>4. stk' = <<pc + 2>> \o stk /\ UNCHANGED regs
    BY <1>3, <2>2, <2>3 DEF Call
  <2> QED BY <1>0, <2>3, <2>4, StackNarrow DEF Narrow
<1>4. CASE Ret
  <2>1. stk # <<>> /\ stk' = Tail(stk) /\ UNCHANGED regs
    BY <1>4 DEF Ret, Instr, Succeeds
  <2>2. \A i \in DOMAIN stk' : stk'[i] \in Literal
    BY <1>0, <2>1, StackNarrow
  <2> QED BY <2>1, <2>2 DEF Narrow
<1> QED BY <1>1, <1>2, <1>3, <1>4

\* From 15-bit registers and stack no computation leads to a wider number:
\* only a word read from the memory or the console can be one (arch-spec:14).
THEOREM MathStaysModular == Spec => MathIsModular
<1>1. ASSUME IInv, AddrIsIndex, [Next]_vars, Executing,
             inst \notin {15, 20}, Narrow
      PROVE  Narrow'
  <2>1. CASE UNCHANGED <<regs, stk>>
    BY <1>1, <2>1 DEF Narrow
  <2>2. CASE Set \/ Eq \/ Gt \/ Add \/ Mult \/ Mod \/ And \/ Or \/ Not
    BY <1>1, <2>2, AssignNarrow
  <2>3. CASE Push \/ Pop \/ Call \/ Ret
    BY <1>1, <2>3, StackOpsNarrow
  <2>4. ~Rmem /\ ~In
    BY <1>1 DEF Rmem, Assign, Instr, In, InExec
  <2>5. CASE Jmp \/ Tjump \/ Fjump \/ Noop \/ Skip \/ Wmem \/ Out
    BY <2>1, <2>5 DEF Jmp, Tjump, Fjump, Noop, Skip, Jump, Wmem, Out
  <2>6. CASE Load \/ Halt \/ LogLimit \/ Fault \/ ExecuteReturn \/ UNCHANGED vars
    BY <2>1, <2>6
       DEF Load, Halt, LogLimit, Fault, End, ExecuteReturn, vars, machineVars
  <2> QED BY <1>1, <2>2, <2>3, <2>4, <2>5, <2>6 DEF Next, Step, Terminated
<1>2. IInv /\ AddrIsIndex /\ [Next]_vars =>
        [Executing /\ inst \notin {15, 20} /\ Narrow => Narrow']_vars
  BY <1>1
<1> QED BY <1>2, Inductive, AddressesHold, PTL DEF Spec, MathIsModular

-----------------------------------------------------------------------------
(* The script's flag and handle *)

\* The steps that write them are the INs that do not end in a fault.
LEMMA ScriptFrame ==
  ASSUME [Next]_vars
  PROVE  \/ UNCHANGED consoleVars
         \/ \E r \in Buffers(mode) : Deliver(r) \/ Keep(r) \/ Setreg(r)
BY DEF Next, Step, Terminated, vars, Load, Halt, LogLimit, Fault, End,
       ExecuteReturn, Set, Eq, Gt, Add, Mult, Mod, And, Or, Not, Rmem, Assign, Wmem,
       Push, Pop, Call, Ret, Jmp, Tjump, Fjump, Noop, Skip, Jump, Out, In,
       InChar, InSetreg, InIgnored, InQuit, InFault

\* A refill keeps flag and handle in step: at the script's end both go.
LEMMA BufferConsistent ==
  ASSUME IInv, FFConsistent, NEW r \in Buffers(mode)
  PROVE  r.flag \in BOOLEAN /\ (r.flag <=> r.script # 0)
<1>0. ff_flag \in BOOLEAN
  BY DEF IInv, TypeOK, ConsoleTypeOK
<1>1. CASE Unread
  BY <1>0, <1>1 DEF Buffers, FFConsistent
<1>2. CASE ~Unread /\ ScriptHasLine
  <2>1. r.flag = ff_flag /\ r.script = ff_script + 1
    <3>1. r \in FromScript
      BY <1>2 DEF Buffers
    <3> QED BY <3>1 DEF FromScript, Filled
  <2>4. ff_flag
    BY <1>2 DEF ScriptHasLine
  <2>2. ff_script \in Nat
    BY DEF IInv, TypeOK, ConsoleTypeOK
  <2>3. r.script # 0
    BY <2>1, <2>2
  <2> QED BY <1>0, <2>1, <2>3, <2>4
<1>3. CASE ~Unread /\ ~ScriptHasLine
  <2>1. r.flag = FALSE /\ r.script = ClosedScript
    BY <1>3 DEF Buffers, FromUser, Filled
  <2>2. ClosedScript = 0
    BY DEF ClosedScript, FFConsistent
  <2> QED BY <2>1, <2>2
<1> QED BY <1>1, <1>2, <1>3

\* The flag says that a script is open exactly while one is, through any mixture
\* of ff lines, script lines and the script's end (the assertion of exec.c:312).
THEOREM ScriptConsistent == Spec => []FFConsistent
<1>1. Init => FFConsistent
  BY DEF Init, ConsoleInit, FFConsistent
<1>2. ASSUME IInv, FFConsistent, [Next]_vars
      PROVE  FFConsistent'
  <2>1. CASE UNCHANGED consoleVars
    BY <1>2, <2>1 DEF consoleVars, FFConsistent
  <2>2. CASE \E r \in Buffers(mode) : Deliver(r) \/ Keep(r) \/ Setreg(r)
    <3>1. PICK r \in Buffers(mode) : Deliver(r) \/ Keep(r) \/ Setreg(r)
      BY <2>2
    <3>2. /\ ff_flag' = (r.flag \/ r.buf.cmd = "ff")
          /\ ff_script' = IF r.buf.cmd = "ff" THEN 1 ELSE r.script
      BY <3>1 DEF Deliver, Keep, Setreg, Console
    <3>3. r.flag \in BOOLEAN /\ (r.flag <=> r.script # 0)
      BY <1>2, <3>1, BufferConsistent
    <3>4. CASE r.buf.cmd = "ff"
      <4>1. ff_flag'
        BY <3>2, <3>4
      <4>2. ff_script' = 1
        BY <3>2, <3>4
      <4>3. ff_script' # 0
        BY <4>2
      <4> QED BY <4>1, <4>3 DEF FFConsistent
    <3>5. CASE r.buf.cmd # "ff"
      <4>1. ff_flag' = r.flag /\ ff_script' = r.script
        BY <3>2, <3>3, <3>5
      <4> QED BY <3>3, <4>1 DEF FFConsistent
    <3> QED BY <3>4, <3>5
  <2> QED BY <1>2, <2>1, <2>2, ScriptFrame
<1>3. IInv /\ FFConsistent /\ [Next]_vars => FFConsistent'
  BY <1>2
<1> QED BY <1>1, <1>3, Inductive, PTL DEF Spec

-----------------------------------------------------------------------------
(* A traced run is finite *)

\* How many steps a traced run has left at most: the load, an instruction for
\* every line the trace has room for, the one past the limit, the end of the loop
\* and the return to main.
StepsLeft ==
  CASE status = "loading"               -> MaxLog + 4
    [] status = "running"               -> MaxLog + 3 - log_size
    [] status \in Ended /\ ~returned    -> 1
    [] OTHER                            -> 0

\* An instruction is traced, or it ends the loop.
LEMMA LoggedOrEnded ==
  ASSUME [Next]_vars, status = "running", ~UNCHANGED vars, Traced
  PROVE  \/ status' \notin {"loading", "running"}
         \/ status' = "running" /\ log_size' = log_size + 1
<1>1. Step
  BY DEF Next, Terminated
<1>2. CASE Load \/ Halt \/ LogLimit \/ Fault \/ ExecuteReturn
  BY <1>2 DEF Load, Halt, LogLimit, Fault, End, ExecuteReturn, Ended
<1>3. CASE \E last : Goto(last)
  BY <1>3 DEF Goto, Fetch, Logged
<1>4. CASE Set \/ Eq \/ Gt \/ Add \/ Mult \/ Mod \/ And \/ Or \/ Not \/ Rmem
  BY <1>3, <1>4 DEF Set, Eq, Gt, Add, Mult, Mod, And, Or, Not, Rmem, Assign
<1>5. CASE Push \/ Pop \/ Call \/ Ret \/ Out \/ Wmem
  BY <1>3, <1>5 DEF Push, Pop, Call, Ret, Out, Wmem
<1>6. CASE Jmp \/ Tjump \/ Fjump \/ Noop \/ Skip
  BY <1>3, <1>6 DEF Jmp, Tjump, Fjump, Noop, Skip, Jump
<1>7. CASE In
  BY <1>3, <1>7 DEF In, InChar, InSetreg, InIgnored, InQuit, InFault
<1> QED BY <1>1, <1>2, <1>4, <1>5, <1>6, <1>7 DEF Step

\* The log limit bounds every run of the stand-alone VM: whatever the program and
\* the input, each step leaves fewer (exec.c:21-25).  That a step is taken until
\* none is left, or the user is waited for, is TracedRunStops.
THEOREM TracedRunShrinks ==
  Spec => [][Traced => StepsLeft \in Nat /\ StepsLeft' \in 0 .. StepsLeft - 1]_vars
<1>1. ASSUME IInv, [Next]_vars, ~UNCHANGED vars, Traced
      PROVE  StepsLeft \in Nat /\ StepsLeft' \in 0 .. StepsLeft - 1
  <2>1. MaxLog \in Nat /\ log_size \in 0 .. MaxLog + 1 /\ log_size' \in 0 .. MaxLog + 1
    BY <1>1, StepInv, ExecAssumption DEF ExecAssumption, IInv, TypeOK
  <2>2. /\ status \in {"loading", "running", "fault", "exit"} \cup Ended
        /\ status' \in {"loading", "running", "fault", "exit"} \cup Ended
    BY <1>1, StepInv DEF IInv, TypeOK
  <2>3. status' # "loading"
    BY <1>1 DEF Next, Step, Terminated, Load, Halt, LogLimit, Fault, End,
       ExecuteReturn, Ended, Set, Eq, Gt, Add, Mult, Mod, And, Or, Not, Rmem, Assign,
       Wmem, Push, Pop, Call, Ret, Jmp, Tjump, Fjump, Noop, Skip, Jump, Goto, Fetch, Out,
       In, InChar, InSetreg, InIgnored, InQuit, InFault
  <2>4. CASE status = "loading"
    <3>1. StepsLeft = MaxLog + 4
      BY <2>4 DEF StepsLeft, Ended
    <3>2. StepsLeft' \in 0 .. MaxLog + 3
      BY <2>1, <2>2, <2>3 DEF StepsLeft, Ended
    <3> QED BY <2>1, <3>1, <3>2
  <2>5. CASE status = "running"
    <3>1. StepsLeft = MaxLog + 3 - log_size
      BY <2>5 DEF StepsLeft, Ended
    <3>2. CASE status' = "running" /\ log_size' = log_size + 1
      <4>1. StepsLeft' = MaxLog + 3 - log_size'
        BY <3>2 DEF StepsLeft, Ended
      <4> QED BY <2>1, <3>1, <3>2, <4>1
    <3>3. CASE status' \notin {"loading", "running"}
      <4>1. StepsLeft' \in 0 .. 1
        BY <3>3 DEF StepsLeft
      <4> QED BY <2>1, <3>1, <4>1
    <3> QED BY <1>1, <2>5, <3>2, <3>3, LoggedOrEnded
  <2>6. CASE status \notin {"loading", "running"}
    <3>1. ExecuteReturn
      BY <1>1, <2>6 DEF Next, Step, Terminated, Load, Halt, LogLimit, Fault, Executing,
         Set, Eq, Gt, Add, Mult, Mod, And, Or, Not, Rmem, Assign, Wmem, Push, Pop,
         Call, Ret, Jmp, Tjump, Fjump, Noop, Skip, Jump, Out, In, InExec, Instr
    <3>2. StepsLeft = 1
      BY <2>6, <3>1 DEF ExecuteReturn, StepsLeft
    <3>3. StepsLeft' = 0
      BY <2>6, <3>1 DEF ExecuteReturn, StepsLeft, Ended
    <3> QED BY <3>2, <3>3
  <2> QED BY <2>4, <2>5, <2>6
<1>2. IInv /\ [Next]_vars =>
        [Traced => StepsLeft \in Nat /\ StepsLeft' \in 0 .. StepsLeft - 1]_vars
  BY <1>1
<1> QED BY <1>2, Inductive, PTL DEF Spec
=============================================================================

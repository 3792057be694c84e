----------------------------- MODULE ArchProofs -----------------------------
(***************************************************************************)
(* exec_step implements the architecture, for every width, program and     *)
(* script: every step is one of the architecture's but an IN on one of the *)
(* two commands that write into the machine.                               *)
(***************************************************************************)
EXTENDS ExecArch, ExecProofs

USE WidthAssumption DEF WidthAssumption

\* A line that does not say "_setreg" or "tele_hack", and an IN on one that does.
Plain(l)   == l.cmd \notin {"_setreg", "tele_hack"}
CommandWrites ==
  InExec /\ \E r \in Buffers(mode) : ~Plain(r.buf) /\ (InChar(r) \/ InSetreg(r))

\* Neither the user nor the script has a line that says one of the two.
PlainLines == \A l \in Lines \cup {Script[i] : i \in DOMAIN Script} : Plain(l)

-----------------------------------------------------------------------------
(* The invariant.  The machine is on, in the terms of the architecture, as *)
(* soon as there are cells: so there are none before the loader has run,   *)
(* and some as long as the loop runs and when it has ended.  The trace is  *)
(* open while the loop runs, and execute finds it closed only after a      *)
(* quit.                                                                   *)

EmptyAtFirst == status = "loading" => DOMAIN mem = {}
OnWhenEnded  == status \in Ended => DOMAIN mem # {}
TraceOpen    ==
  Traced /\ (status = "running" \/ (status \in Ended \ {"quit"} /\ ~returned))
  => log_open

ArchInv ==
  IInv /\ AddrIsIndex /\ EmptyAtFirst /\ OnWhenEnded /\ TraceOpen

\* exec_step fetches the next cell, wherever it is.
GoesOn == \E last : Goto(last)

LEMMA InitArchInv == Init => ArchInv
<1> SUFFICES ASSUME Init PROVE ArchInv
  OBVIOUS
<1>1. IInv
  BY InitInv
<1>2. DOMAIN mem = {} /\ status = "loading"
  <2>1. Len(<<>>) = 0 /\ 0 .. 0 - 1 = {}
    OBVIOUS
  <2> QED BY <2>1 DEF Init, CellsOf
<1> QED BY <1>1, <1>2
        DEF ArchInv, AddrIsIndex, EmptyAtFirst, OnWhenEnded, TraceOpen, Ended

\* What a step of the loop can be: an instruction that goes on, or an end.
LEMMA RunningCases ==
  ASSUME [Next]_vars, status = "running"
  PROVE  \/ GoesOn /\ Executing
         \/ Halt \/ LogLimit \/ Fault
         \/ \E r \in Buffers(mode) : InExec /\ (InQuit(r) \/ InFault(r))
         \/ UNCHANGED vars
<1>1. CASE UNCHANGED vars
  BY <1>1
<1>2. CASE Load \/ ExecuteReturn \/ Terminated
  BY <1>2 DEF Load, ExecuteReturn, Ended, Terminated
<1>3. CASE Set \/ Eq \/ Gt \/ Add \/ Mult \/ Mod \/ And \/ Or \/ Not \/ Rmem
  BY <1>3 DEF Set, Eq, Gt, Add, Mult, Mod, And, Or, Not, Rmem, Assign, Instr, GoesOn
<1>4. CASE Push \/ Pop \/ Call \/ Ret \/ Out \/ Wmem
  BY <1>4 DEF Push, Pop, Call, Ret, Out, Wmem, Instr, GoesOn
<1>5. CASE Jmp \/ Tjump \/ Fjump \/ Noop \/ Skip
  BY <1>5 DEF Jmp, Tjump, Fjump, Noop, Skip, Jump, Instr, GoesOn
<1>6. CASE In
  <2>1. PICK r \in Buffers(mode) :
          InChar(r) \/ InSetreg(r) \/ InIgnored(r) \/ InQuit(r) \/ InFault(r)
    BY <1>6 DEF In
  <2>2. InExec /\ Executing
    BY <1>6 DEF In, InExec
  <2>3. CASE InChar(r) \/ InSetreg(r) \/ InIgnored(r)
    BY <2>2, <2>3 DEF InChar, InSetreg, InIgnored, GoesOn
  <2> QED BY <2>1, <2>2, <2>3
<1> QED BY <1>1, <1>2, <1>3, <1>4, <1>5, <1>6 DEF Next, Step

-----------------------------------------------------------------------------
(* The invariant is kept *)

\* No step but the loader's adds or removes cells.
LEMMA SameDomain ==
  ASSUME ArchInv, [Next]_vars, ~Load
  PROVE  UNCHANGED DOMAIN mem
<1>1. CASE UNCHANGED mem
  BY <1>1
<1>2. CASE Wmem
  BY <1>2 DEF Wmem
<1>3. CASE \E r : mem' = Patched(r)
  BY <1>3 DEF Patched
<1> QED BY <1>1, <1>2, <1>3, MemoryFrame

LEMMA StepArchInv ==
  ASSUME ArchInv, [Next]_vars
  PROVE  ArchInv'
<1>1. IInv' /\ AddrIsIndex'
  BY StepInv, AddrStep DEF ArchInv
<1>2. EmptyAtFirst' /\ OnWhenEnded' /\ TraceOpen'
  <2> USE DEF EmptyAtFirst, OnWhenEnded, TraceOpen
  <2>1. CASE Load
    <3>1. status' \in {"running", "exit", "fault"} /\ UNCHANGED mode
      BY <2>1 DEF Load
    <3>2. status' = "running" => log_open' = (mode = "standalone")
      BY <2>1 DEF Load
    <3> QED BY <3>1, <3>2 DEF Ended, Traced
  <2>2. CASE status = "running"
    <3>1. DOMAIN mem # {}
      BY <2>2 DEF ArchInv, IInv, RunningInMemory, Present
    <3>2. DOMAIN mem' = DOMAIN mem
      BY <2>2, SameDomain DEF Load
    <3>3. Traced => log_open
      BY <2>2 DEF ArchInv
    <3>4. status' # "loading" /\ UNCHANGED mode
      BY <2>2, RunningCases
         DEF GoesOn, Goto, Fetch, Halt, LogLimit, Fault, End, InQuit, InFault, vars
    <3>5. UNCHANGED log_open \/ status' = "quit"
      BY <2>2, RunningCases
         DEF GoesOn, Goto, Fetch, Halt, LogLimit, Fault, End, InQuit, InFault, vars, logVars
    <3> QED BY <3>1, <3>2, <3>3, <3>4, <3>5 DEF Traced, Ended
  <2>3. CASE ExecuteReturn
    <3>1. UNCHANGED <<mem, mode>> /\ (returned' \/ status' = "fault")
      BY <2>3 DEF ExecuteReturn, machineVars
    <3>2. status' = status \/ status' = "fault"
      BY <2>3 DEF ExecuteReturn
    <3> QED BY <2>3, <3>1, <3>2 DEF Traced, Ended, ArchInv, ExecuteReturn
  <2>4. CASE UNCHANGED vars
    BY <2>4 DEF vars, machineVars, logVars, Traced, ArchInv
  <2>5. status = "running" \/ Load \/ ExecuteReturn \/ UNCHANGED vars
    BY DEF Next, Step, Terminated, Halt, Fault, LogLimit, Executing,
           Set, Eq, Gt, Add, Mult, Mod, And, Or, Not, Rmem, Assign, Wmem, Push, Pop,
           Call, Ret, Jmp, Tjump, Fjump, Noop, Skip, Jump, Out, In, InExec, Instr
  <2> QED BY <2>1, <2>2, <2>3, <2>4, <2>5
<1> QED BY <1>1, <1>2 DEF ArchInv

-----------------------------------------------------------------------------
(* The architecture reads an instruction as exec_step does *)

LEMMA SameWords ==
  /\ Arch!Word = Word /\ Arch!Literal = Literal /\ Arch!MAX_VAL = MAX_VAL
  /\ \A v : Arch!IsReg(v) = IsReg(v) /\ Arch!RegIdx(v) = RegIdx(v)
  /\ \A v : Arch!Evaluates(v) = Evaluates(v)
  /\ \A v : Arch!Eval(regs, v) = Eval(regs, v)
BY DEF Arch!Word, Word, Arch!Literal, Literal, Arch!MAX_VAL, MAX_VAL,
       Arch!MAX_REG, MAX_REG, Arch!IsReg, IsReg, Arch!RegIdx, RegIdx,
       Arch!Evaluates, Evaluates, Arch!Eval, Eval

\* The words of the cells, and where the architecture's machine is.
words == [a \in DOMAIN mem |-> mem[a].value]
at    == IF HasQuit THEN pc - 1 ELSE pc
phase == IF status = "halt" THEN "halted" ELSE IF DOMAIN mem # {} THEN "on" ELSE "off"
shown == IF out = <<>> THEN 0 - 1 ELSE out[1]

\* While the loop runs the machine is on, at the address of the next cell.
LEMMA RunningAt ==
  ASSUME ArchInv, status = "running"
  PROVE  at = pc /\ phase = "on" /\ pc \in DOMAIN words /\ pc \in Nat
BY DEF at, phase, words, HasQuit, ArchInv, IInv, TypeOK, RunningInMemory, Present

\* Its operands are the ones exec_step reads.
LEMMA SameOperands ==
  ASSUME ArchInv, status = "running", NEW k
  PROVE  /\ Readable(k) => Arch!Valid(k) /\ Arch!Number(k) = Val(k)
         /\ Arch!Register(k) = Writable(k)
<1> USE DEF at, words
<1>1. at = pc
  BY RunningAt
<1>2. \A a \in DOMAIN mem : words[a] = mem[a].value
  OBVIOUS
<1>3. DOMAIN words = DOMAIN mem
  OBVIOUS
<1>4. Present(pc + k) => words[pc + k] = Arg(k)
  BY <1>2 DEF Present, Arg
<1> HIDE DEF at, words
<1>5. Readable(k) => Arch!Valid(k)
  <2>1. Arch!Valid(k) = (at + k \in DOMAIN words /\ Arch!Evaluates(words[at + k]))
    BY DEF Arch!Valid, at, words
  <2> QED BY <1>1, <1>3, <1>4, <2>1, SameWords DEF Readable, Present
<1>6. Readable(k) => Arch!Number(k) = Val(k)
  <2>1. Arch!Number(k) = Arch!Eval(regs, words[at + k])
    BY DEF Arch!Number, at, words
  <2> QED BY <1>1, <1>4, <2>1, SameWords DEF Readable, Val
<1>7. Arch!Register(k) = Writable(k)
  <2>1. Arch!Register(k) = (at + k \in DOMAIN words /\ Arch!IsReg(words[at + k]))
    BY DEF Arch!Register, at, words
  <2> QED BY <1>1, <1>3, <1>4, <2>1, SameWords DEF Writable, Present
<1> QED BY <1>5, <1>6, <1>7

\* The architecture has the instruction exec_step is about to execute.
LEMMA SameInstruction ==
  ASSUME ArchInv, status = "running", NEW from, NEW to,
         \A k \in from .. to : Readable(k)
  PROVE  Arch!At(inst, from, to)
<1>1. \A k \in from .. to : Arch!Valid(k)
  BY SameOperands
<1>2. words[pc] = inst
  BY RunningAt DEF words, inst
<1>3. Arch!At(inst, from, to) <=>
        phase = "on" /\ at \in DOMAIN words /\ words[at] = inst
        /\ \A k \in from .. to : Arch!Valid(k)
  BY DEF Arch!At, phase, at, words
<1> QED BY <1>1, <1>2, <1>3, RunningAt

\* Going on is going on, or leaving the memory: the machine stays on.
LEMMA SameThen ==
  ASSUME ArchInv, status = "running", [Next]_vars, NEW next, Fetch(next)
  PROVE  Arch!Then(next) /\ at' = next /\ UNCHANGED phase
<1>1. status' \in {"running", "end"} /\ pc' = next
  BY DEF Fetch
<1>2. DOMAIN mem' = DOMAIN mem
  BY SameDomain DEF Load
<1>3. at' = next
  BY <1>1 DEF at, HasQuit
<1>4. UNCHANGED phase
  BY <1>1, <1>2 DEF phase
<1> QED BY <1>3, <1>4 DEF Arch!Then, at, phase

-----------------------------------------------------------------------------
(* The instructions that assign to a register *)

\* The architecture's instruction op of that many operands puts v in operand 1.
Assigned(op, arity, v) ==
  /\ Arch!At(op, 2, arity) /\ Arch!Register(1)
  /\ v \in Arch!Word
  /\ regs' = [regs EXCEPT ![Arch!RegIdx(words[at + 1])] = v]
  /\ Arch!Then(at + arity + 1)
  /\ UNCHANGED <<words, stk, shown>>

LEMMA StoreAssigns ==
  ASSUME ArchInv, [Next]_vars, Executing, NEW arity \in 1 .. 3, NEW v \in Word,
         Writable(1), \A k \in 2 .. arity : Readable(k),
         Store(v), Fetch(pc + arity + 1), UNCHANGED <<mem, stk, out>>
  PROVE  Assigned(inst, arity, v)
<1>1. status = "running"
  BY DEF Executing
<1>2. Arch!At(inst, 2, arity) /\ Arch!Register(1)
  BY <1>1, SameInstruction, SameOperands
<1>3. at = pc /\ words[pc + 1] = Arg(1)
  BY <1>1, RunningAt DEF words, Writable, Present, Arg
<1>4. regs' = [regs EXCEPT ![Arch!RegIdx(words[at + 1])] = v]
  BY <1>3, SameWords DEF Store
<1>5. Arch!Then(at + arity + 1)
  BY <1>1, <1>3, SameThen
<1>6. UNCHANGED <<words, stk, shown>>
  BY DEF words, shown
<1> QED BY <1>2, <1>4, <1>5, <1>6, SameWords DEF Assigned

\* Assign does that with one of its results.
LEMMA AssignAssigns ==
  ASSUME ArchInv, [Next]_vars, NEW op \in 0 .. 21, NEW arity \in 1 .. 3,
         NEW results, \A v \in results : v \in Word,
         op \in ToRegister, 2 .. arity \subseteq Sources(op),
         Assign(op, results, arity)
  PROVE  \E v \in results : Assigned(op, arity, v)
<1>1. Executing /\ inst = op /\ Writable(1) /\ \A k \in 2 .. arity : Readable(k)
  BY DEF Assign, Instr, Succeeds
<1>2. PICK v \in results : Store(v)
  BY DEF Assign
<1>3. UNCHANGED <<mem, stk, out>> /\ Goto(pc + arity)
  BY DEF Assign
<1>4. Fetch(pc + arity + 1)
  <2>1. pc \in Nat /\ TypeOK /\ Present(pc)
    BY <1>1 DEF ArchInv, IInv, TypeOK, RunningInMemory, Executing
  <2>2. Fetch(pc + (arity + 1)) /\ pc + (arity + 1) = pc + arity + 1
    BY <1>3, <2>1, StraightOn
  <2> QED BY <2>2
<1>5. Assigned(inst, arity, v)
  BY <1>1, <1>2, <1>3, <1>4, StoreAssigns
<1> QED BY <1>1, <1>2, <1>5

\* The operands of those instructions are words, the same on both sides.
LEMMA OperandsRead ==
  ASSUME ArchInv, NEW op \in 0 .. 21, Instr(op), NEW k \in Sources(op)
  PROVE  Val(k) \in Word /\ Arch!Number(k) = Val(k)
<1>1. Val(k) \in Word
  BY SourceWord DEF ArchInv
<1>2. Readable(k) /\ status = "running"
  BY DEF Instr, Succeeds, Executing
<1> QED BY <1>1, <1>2, SameOperands

LEMMA AssigningOpcodes ==
  /\ \A op \in {1, 14, 15} : op \in ToRegister /\ Sources(op) = 2 .. 2
  /\ \A op \in {4, 5} \cup 9 .. 13 : op \in ToRegister /\ Sources(op) = 2 .. 3
BY DEF ToRegister, Sources

\* Division with remainder.
LEMMA Divided ==
  ASSUME NEW n \in Nat, NEW d \in Nat, d > 0
  PROVE  /\ n \div d \in Nat /\ n % d \in Nat /\ n % d < d
         /\ n = (n \div d) * d + (n % d) /\ n \div d <= n
<1>1. n \div d \in Nat /\ n % d \in Nat /\ n % d < d
  OBVIOUS
<1>2. n = d * (n \div d) + (n % d)
  OBVIOUS
<1>3. d * (n \div d) >= n \div d
  BY <1>1
<1> QED BY <1>1, <1>2, <1>3

LEMMA SetRefines ==
  ASSUME ArchInv, [Next]_vars, Set
  PROVE  Arch!ArchSet
<1>1. Instr(1) /\ Assign(1, {Val(2)}, 2)
  BY DEF Set, Assign
<1>2. Val(2) \in Word /\ Arch!Number(2) = Val(2)
  BY <1>1, OperandsRead, AssigningOpcodes
<1>3. Assigned(1, 2, Val(2))
  BY <1>1, <1>2, AssignAssigns, AssigningOpcodes
<1> QED BY <1>2, <1>3 DEF Assigned, Arch!ArchSet, Arch!Sets, words, at, shown

LEMMA CompareRefines ==
  ASSUME ArchInv, [Next]_vars, Eq \/ Gt
  PROVE  Arch!ArchEq \/ Arch!ArchGt
<1>1. CASE Eq
  <2> DEFINE v == Truth(Val(2) = Val(3))
  <2>1. Instr(4) /\ Assign(4, {v}, 3)
    BY <1>1 DEF Eq, Assign
  <2>2. Arch!Number(2) = Val(2) /\ Arch!Number(3) = Val(3)
    BY <2>1, OperandsRead, AssigningOpcodes
  <2>3. v \in Word /\ v \in {0, 1} /\ (v = 1 <=> Val(2) = Val(3))
    BY DEF Truth, Word
  <2> HIDE DEF v
  <2>4. Assigned(4, 3, v)
    BY <2>1, <2>3, AssignAssigns, AssigningOpcodes
  <2> QED BY <2>2, <2>3, <2>4 DEF Assigned, Arch!ArchEq, Arch!Sets, words, at, shown
<1>2. CASE Gt
  <2> DEFINE v == Truth(Val(2) > Val(3))
  <2>1. Instr(5) /\ Assign(5, {v}, 3)
    BY <1>2 DEF Gt, Assign
  <2>2. /\ Arch!Number(2) = Val(2) /\ Arch!Number(3) = Val(3)
        /\ Val(2) \in Word /\ Val(3) \in Word
    BY <2>1, OperandsRead, AssigningOpcodes
  <2>3. v \in Word /\ v \in {0, 1} /\ (v = 1 <=> Val(2) > Val(3))
    BY DEF Truth, Word
  <2> HIDE DEF v
  <2>4. Assigned(5, 3, v)
    BY <2>1, <2>3, AssignAssigns, AssigningOpcodes
  <2> QED BY <2>2, <2>3, <2>4 DEF Assigned, Arch!ArchGt, Arch!Sets, words, at, shown
<1> QED BY <1>1, <1>2

\* A quotient is smaller than any factor that gives more than the dividend.
LEMMA QuotientBound ==
  ASSUME NEW q \in Nat, NEW r \in Nat, NEW b \in Nat, NEW n \in Nat,
         n = q * Modulus + r, n < b * Modulus
  PROVE  q < b
<1>1. SUFFICES ASSUME q >= b PROVE FALSE
  OBVIOUS
<1>2. PICK d \in Nat : q = b + d
  <2>1. q - b \in Nat /\ q = b + (q - b)
    BY <1>1
  <2> QED BY <2>1
<1>3. q * Modulus = b * Modulus + d * Modulus
  BY <1>2
<1>4. b * Modulus \in Nat /\ d * Modulus \in Nat /\ q * Modulus \in Nat
  BY <1>2
<1> QED BY <1>3, <1>4

LEMMA AddRefines ==
  ASSUME ArchInv, [Next]_vars, Add
  PROVE  Arch!ArchAdd
<1> DEFINE n == Val(2) + Val(3)
           v == n % Modulus
           q == n \div Modulus
<1>1. Instr(9) /\ Assign(9, {v}, 3)
  BY DEF Add, Assign
<1>2. /\ Arch!Number(2) = Val(2) /\ Arch!Number(3) = Val(3)
      /\ Val(2) \in Word /\ Val(3) \in Word
  BY <1>1, OperandsRead, AssigningOpcodes
<1>3. n \in Nat /\ n < 4 * Modulus
  BY <1>2 DEF Word
<1>4. /\ Arch!Number(2) + Arch!Number(3) = n
  BY <1>2
<1> HIDE DEF n
<1>5. q \in Nat /\ v \in Nat /\ v < Modulus /\ n = q * Modulus + v
  BY <1>3, Divided
<1> HIDE DEF q, v
<1>6. q \in 0 .. 3
  <2>1. q < 4
    BY <1>3, <1>5, QuotientBound
  <2> QED BY <1>5, <2>1
<1>7. v \in Word /\ v \in Literal
  BY <1>5 DEF Word, Literal, MAX_VAL
<1>8. Assigned(9, 3, v)
  BY <1>1, <1>7, AssignAssigns, AssigningOpcodes
<1>9. \E p \in 0 .. 3 : Arch!Number(2) + Arch!Number(3) = p * Modulus + v
  BY <1>4, <1>5, <1>6
<1> QED BY <1>7, <1>8, <1>9, SameWords
        DEF Assigned, Arch!ArchAdd, Arch!Sets, words, at, shown

LEMMA MultRefines ==
  ASSUME ArchInv, [Next]_vars, Mult
  PROVE  Arch!ArchMult
<1> DEFINE n == Val(2) * Val(3)
           m == n % Modulus
           q == n \div Modulus
<1>1. Instr(10) /\ Assign(10, Products(Val(2), Val(3)), 3)
  BY DEF Mult, Assign
<1>2. /\ Arch!Number(2) = Val(2) /\ Arch!Number(3) = Val(3)
      /\ Val(2) \in Word /\ Val(3) \in Word
  BY <1>1, OperandsRead, AssigningOpcodes
<1>3. \A v \in Products(Val(2), Val(3)) : v \in Word
  BY <1>2, ProductsTyped
<1>4. PICK v \in Products(Val(2), Val(3)) : Assigned(10, 3, v)
  BY <1>1, <1>3, AssignAssigns, AssigningOpcodes
<1>5. n \in Nat
  BY <1>2 DEF Word
<1>6. Arch!Number(2) * Arch!Number(3) = n
  BY <1>2
<1>7. n < 2 * Modulus * Modulus => v = m
  BY <1>4 DEF Products
<1> HIDE DEF n
<1>8. q \in Nat /\ m \in Nat /\ m < Modulus /\ n = q * Modulus + m
  BY <1>5, Divided
<1> HIDE DEF q, m
<1>9. m \in Literal /\ (n < 2 * Modulus * Modulus => q \in Word)
  <2>1. 2 * Modulus \in Nat
    OBVIOUS
  <2>2. n < 2 * Modulus * Modulus => q < 2 * Modulus
    BY <1>5, <1>8, <2>1, QuotientBound
  <2> QED BY <1>8, <2>2 DEF Literal, MAX_VAL, Word
<1>10. Arch!Number(2) * Arch!Number(3) < 2 * Modulus * Modulus =>
         /\ v \in Literal
         /\ \E p \in Word : Arch!Number(2) * Arch!Number(3) = p * Modulus + v
  BY <1>6, <1>7, <1>8, <1>9
<1> QED BY <1>4, <1>10, SameWords
        DEF Assigned, Arch!ArchMult, Arch!Sets, words, at, shown

LEMMA ModRefines ==
  ASSUME ArchInv, [Next]_vars, Mod
  PROVE  Arch!ArchMod
<1> DEFINE v == Val(2) % Val(3)
           q == Val(2) \div Val(3)
<1>1. Instr(11) /\ Assign(11, {v}, 3) /\ Val(3) # 0
  BY DEF Mod, Assign, Instr, Succeeds
<1>2. /\ Arch!Number(2) = Val(2) /\ Arch!Number(3) = Val(3)
      /\ Val(2) \in Word /\ Val(3) \in Word
  BY <1>1, OperandsRead, AssigningOpcodes
<1>3. Val(2) \in Nat /\ Val(3) \in Nat /\ Val(3) > 0
  BY <1>1, <1>2 DEF Word
<1>4. /\ q \in Nat /\ v \in Nat /\ v < Val(3)
      /\ Val(2) = q * Val(3) + v /\ q <= Val(2)
  BY <1>3, Divided
<1> HIDE DEF v, q
<1>5. v \in Word /\ q \in Word
  BY <1>2, <1>4 DEF Word
<1>6. Assigned(11, 3, v)
  BY <1>1, <1>5, AssignAssigns, AssigningOpcodes
<1>7. /\ v < Arch!Number(3)
      /\ \E p \in Word : Arch!Number(2) = p * Arch!Number(3) + v
  BY <1>2, <1>4, <1>5
<1> QED BY <1>6, <1>7, SameWords
        DEF Assigned, Arch!ArchMod, Arch!Sets, words, at, shown

LEMMA BitwiseRefines ==
  ASSUME ArchInv, [Next]_vars, And \/ Or
  PROVE  Arch!ArchAnd \/ Arch!ArchOr
<1>1. CASE And
  <2>1. Instr(12) /\ Assign(12, {BitAnd(Val(2), Val(3))}, 3)
    BY <1>1 DEF And, Assign
  <2>2. /\ Arch!Number(2) = Val(2) /\ Arch!Number(3) = Val(3)
        /\ Val(2) \in Word /\ Val(3) \in Word
    BY <2>1, OperandsRead, AssigningOpcodes
  <2>3. BitAnd(Val(2), Val(3)) \in Word
    BY <2>2, BitAssumption DEF BitAssumption
  <2>4. Assigned(12, 3, BitAnd(Val(2), Val(3)))
    BY <2>1, <2>3, AssignAssigns, AssigningOpcodes
  <2> QED BY <2>2, <2>4 DEF Assigned, Arch!ArchAnd, Arch!Sets, words, at, shown
<1>2. CASE Or
  <2>1. Instr(13) /\ Assign(13, {BitOr(Val(2), Val(3))}, 3)
    BY <1>2 DEF Or, Assign
  <2>2. /\ Arch!Number(2) = Val(2) /\ Arch!Number(3) = Val(3)
        /\ Val(2) \in Word /\ Val(3) \in Word
    BY <2>1, OperandsRead, AssigningOpcodes
  <2>3. BitOr(Val(2), Val(3)) \in Word
    BY <2>2, BitAssumption DEF BitAssumption
  <2>4. Assigned(13, 3, BitOr(Val(2), Val(3)))
    BY <2>1, <2>3, AssignAssigns, AssigningOpcodes
  <2> QED BY <2>2, <2>4 DEF Assigned, Arch!ArchOr, Arch!Sets, words, at, shown
<1> QED BY <1>1, <1>2

LEMMA NotRefines ==
  ASSUME ArchInv, [Next]_vars, Not
  PROVE  Arch!ArchNot
<1> DEFINE v == Value_bitwise_not(Val(2))
<1>1. Instr(14) /\ Assign(14, {v}, 2)
  BY DEF Not, Assign
<1>2. Val(2) \in Word /\ Arch!Number(2) = Val(2)
  BY <1>1, OperandsRead, AssigningOpcodes
<1>3. v \in Word
  BY <1>2, NotTyped
<1>4. Val(2) \in Literal => v + Val(2) = MAX_VAL
  BY DEF Value_bitwise_not, Literal, MAX_VAL
<1> HIDE DEF v
<1>5. Assigned(14, 2, v)
  BY <1>1, <1>3, AssignAssigns, AssigningOpcodes
<1> QED BY <1>2, <1>4, <1>5, SameWords
        DEF Assigned, Arch!ArchNot, Arch!Sets, words, at, shown

LEMMA RmemRefines ==
  ASSUME ArchInv, [Next]_vars, Rmem
  PROVE  Arch!ArchRmem
<1> DEFINE v == mem[Val(2)].value
<1>1. Instr(15) /\ Assign(15, {v}, 2) /\ Present(Val(2))
  BY DEF Rmem, Assign, Instr, Succeeds
<1>2. Arch!Number(2) = Val(2)
  BY <1>1, OperandsRead, AssigningOpcodes
<1>3. v \in Word
  BY <1>1, CellTyped DEF ArchInv, IInv, Cell
<1>4. Val(2) \in DOMAIN words /\ v = words[Val(2)]
  BY <1>1 DEF words, Present
<1> HIDE DEF v
<1>5. Assigned(15, 2, v)
  BY <1>1, <1>3, AssignAssigns, AssigningOpcodes
<1> QED BY <1>2, <1>4, <1>5
        DEF Assigned, Arch!ArchRmem, Arch!Sets, words, at, shown

-----------------------------------------------------------------------------
(* Memory, stack, jumps and output *)

LEMMA WmemRefines ==
  ASSUME ArchInv, [Next]_vars, Wmem
  PROVE  Arch!ArchWmem
<1>1. Instr(16) /\ status = "running" /\ Present(Val(1)) /\ Goto(pc + 2)
  BY DEF Wmem, Instr, Succeeds, Executing
<1>2. Readable(1) /\ Readable(2)
  BY <1>1, SourcesTable DEF Instr, Succeeds
<1>3. Arch!At(16, 1, 2)
  <2>1. \A k \in 1 .. 2 : Readable(k)
    BY <1>2
  <2> QED BY <1>1, <2>1, SameInstruction DEF Instr
<1>4. Arch!Number(1) = Val(1) /\ Arch!Number(2) = Val(2)
  BY <1>1, <1>2, SameOperands
<1>5. Arch!Then(at + 3)
  BY <1>1, MovesOn, SameThen, RunningAt DEF ArchInv
<1>6. words' = [words EXCEPT ![Val(1)] = Val(2)]
  <2>1. mem' = [mem EXCEPT ![Val(1)] = [addr |-> Val(1), value |-> Val(2)]]
    BY DEF Wmem
  <2> QED BY <1>1, <2>1 DEF words, Present
<1>7. UNCHANGED <<regs, stk, shown>>
  BY DEF Wmem, shown
<1>8. Val(1) \in DOMAIN words
  BY <1>1 DEF words, Present
<1> QED BY <1>3, <1>4, <1>5, <1>6, <1>7, <1>8 DEF Arch!ArchWmem, words, at, shown

LEMMA PushRefines ==
  ASSUME ArchInv, [Next]_vars, Push
  PROVE  Arch!ArchPush
<1>1. Instr(2) /\ status = "running" /\ Goto(pc + 1) /\ stk' = <<Val(1)>> \o stk
  BY DEF Push, Instr, Executing
<1>2. \A k \in 1 .. 1 : Readable(k)
  BY <1>1, SourcesTable DEF Instr, Succeeds
<1>3. Arch!At(2, 1, 1) /\ Arch!Number(1) = Val(1)
  BY <1>1, <1>2, SameInstruction, SameOperands DEF Instr
<1>4. Arch!Then(at + 2)
  BY <1>1, MovesOn, SameThen, RunningAt DEF ArchInv
<1>5. UNCHANGED <<words, regs, shown>>
  BY DEF Push, words, shown
<1> QED BY <1>1, <1>3, <1>4, <1>5 DEF Arch!ArchPush, words, at, shown

LEMMA PopRefines ==
  ASSUME ArchInv, [Next]_vars, Pop
  PROVE  Arch!ArchPop
<1>1. /\ Instr(3) /\ status = "running" /\ Goto(pc + 1) /\ Writable(1)
      /\ stk # <<>> /\ stk' = Tail(stk) /\ Store(Head(stk))
  BY DEF Pop, Instr, Executing, Succeeds, ToRegister
<1>2. Arch!At(3, 2, 1) /\ Arch!Register(1)
  BY <1>1, SameInstruction, SameOperands DEF Instr
<1>3. at = pc /\ words[pc + 1] = Arg(1)
  BY <1>1, RunningAt DEF words, Writable, Present, Arg
<1>4. regs' = [regs EXCEPT ![Arch!RegIdx(words[at + 1])] = Head(stk)]
  BY <1>1, <1>3, SameWords DEF Store
<1>5. Arch!Then(at + 2)
  BY <1>1, <1>3, MovesOn, SameThen DEF ArchInv
<1>6. UNCHANGED <<words, shown>>
  BY DEF Pop, words, shown
<1> QED BY <1>1, <1>2, <1>4, <1>5, <1>6 DEF Arch!ArchPop, words, at, shown

LEMMA CallRefines ==
  ASSUME ArchInv, [Next]_vars, Call
  PROVE  Arch!ArchCall
<1>1. /\ Instr(17) /\ status = "running" /\ Goto(Before(Val(1)))
      /\ stk' = <<Eval(regs, mem[pc + 2].addr)>> \o stk
  BY DEF Call, Instr, Executing
<1>2. \A k \in 1 .. 1 : Readable(k)
  BY <1>1, SourcesTable DEF Instr, Succeeds
<1>3. Arch!At(17, 1, 1) /\ Arch!Number(1) = Val(1)
  BY <1>1, <1>2, SameInstruction, SameOperands DEF Instr
<1>4. Eval(regs, mem[pc + 2].addr) = pc + 2
  <2>1. Present(pc + 2)
    BY <1>1 DEF Instr, Succeeds
  <2>2. mem[pc + 2].addr = pc + 2 /\ pc + 2 \in Nat /\ pc + 2 < MAX_SIZE
    BY <2>1, CellTyped DEF ArchInv, IInv, AddrIsIndex, Present
  <2> QED BY <2>2, ExecAssumption DEF ExecAssumption, Eval, MAX_VAL
<1>5. Arch!Then(Val(1)) /\ at = pc
  <2>1. Val(1) \in Word
    BY <1>1, SourcesTable, OperandsRead
  <2> QED BY <1>1, <2>1, JumpArrives, SameThen, RunningAt
<1>6. UNCHANGED <<words, regs, shown>>
  BY DEF Call, words, shown
<1>7. stk' = <<at + 2>> \o stk
  BY <1>1, <1>4, <1>5
<1> QED BY <1>3, <1>5, <1>6, <1>7 DEF Arch!ArchCall, words, at, shown

LEMMA RetRefines ==
  ASSUME ArchInv, [Next]_vars, Ret
  PROVE  Arch!ArchRet
<1>1. /\ Instr(18) /\ status = "running" /\ Goto(Before(Head(stk)))
      /\ stk # <<>> /\ stk' = Tail(stk)
  BY DEF Ret, Instr, Executing, Succeeds
<1>2. Arch!At(18, 1, 0)
  BY <1>1, SameInstruction DEF Instr
<1>3. at' = Head(stk) /\ UNCHANGED phase
  <2>1. Head(stk) \in Word
    BY <1>1 DEF ArchInv, IInv, TypeOK
  <2> QED BY <1>1, <2>1, JumpArrives, SameThen
<1>4. UNCHANGED <<words, regs, shown>>
  BY DEF Ret, words, shown
<1> QED BY <1>1, <1>2, <1>3, <1>4 DEF Arch!ArchRet, words, at, shown, phase

LEMMA OutRefines ==
  ASSUME ArchInv, [Next]_vars, Out
  PROVE  Arch!ArchOut
<1>1. /\ Instr(19) /\ status = "running" /\ Goto(pc + 1)
      /\ out' = <<Val(1) % ByteMod, Val(1) \div ByteMod>>
  BY DEF Out, Instr, Executing
<1>2. \A k \in 1 .. 1 : Readable(k)
  BY <1>1, SourcesTable DEF Instr, Succeeds
<1>3. Arch!At(19, 1, 1) /\ Arch!Number(1) = Val(1) /\ Val(1) \in Nat
  <2>1. Val(1) \in Word
    BY <1>1, SourcesTable, OperandsRead
  <2> QED BY <1>1, <1>2, <2>1, SameInstruction, SameOperands DEF Instr, Word
<1>4. ByteMod \in Nat /\ ByteMod > 0
  BY ExecAssumption DEF ExecAssumption
<1>5. Arch!Then(at + 2)
  BY <1>1, MovesOn, SameThen, RunningAt DEF ArchInv
<1>6. UNCHANGED <<words, regs, stk>>
  BY DEF Out, words
<1>7. shown' = Val(1) % ByteMod
  BY <1>1 DEF shown
<1>8. /\ Val(1) % ByteMod \in 0 .. ByteMod - 1
      /\ Val(1) < ByteMod => Val(1) % ByteMod = Val(1)
  BY <1>3, <1>4
<1> QED BY <1>3, <1>5, <1>6, <1>7, <1>8 DEF Arch!ArchOut, words, at, shown

LEMMA HaltRefines ==
  ASSUME ArchInv, [Next]_vars, Halt
  PROVE  Arch!ArchHalt
<1>1. /\ Instr(0) /\ status = "running" /\ status' = "halt"
      /\ UNCHANGED <<mem, regs, stk, pc, out>>
  BY DEF Halt, End, Instr, Executing, machineVars
<1>2. Arch!At(0, 1, 0)
  BY <1>1, SameInstruction DEF Instr
<1>3. at' = at /\ phase' = "halted"
  BY <1>1, RunningAt DEF at, phase, HasQuit
<1>4. UNCHANGED <<words, shown>>
  BY <1>1 DEF words, shown
<1> QED BY <1>1, <1>2, <1>3, <1>4 DEF Arch!ArchHalt, words, at, shown, phase

\* A jump is one whatever it is that decides on the next address.
LEMMA JumpFrame ==
  ASSUME ArchInv, [Next]_vars, NEW op, NEW last, Jump(op, last),
         NEW next, Goto(last) => Fetch(next)
  PROVE  /\ status = "running" /\ inst = op /\ Succeeds
         /\ at = pc /\ at' = next
         /\ UNCHANGED <<words, regs, stk, phase, shown>>
<1>1. /\ status = "running" /\ inst = op /\ Succeeds /\ Fetch(next)
      /\ UNCHANGED <<mem, regs, stk, out>>
  BY DEF Jump, Instr, Executing
<1>2. UNCHANGED <<words, shown>>
  BY <1>1 DEF words, shown
<1> QED BY <1>1, <1>2, SameThen, RunningAt

\* A branch arrives at its target or at the next instruction.
LEMMA BranchArrives ==
  ASSUME ArchInv, status = "running", BranchReadable
  PROVE  Goto(IF Taken THEN Before(Val(2)) ELSE pc + 2)
         => Fetch(IF Taken THEN Val(2) ELSE pc + 3)
<1>1. CASE Taken
  <2>1. Val(2) \in Word
    BY <1>1, OperandWord DEF ArchInv, IInv, BranchReadable
  <2> QED BY <1>1, <2>1, JumpArrives
<1>2. CASE ~Taken
  BY <1>2, MovesOn DEF ArchInv
<1> QED BY <1>1, <1>2

LEMMA JumpsRefine ==
  ASSUME ArchInv, [Next]_vars, Jmp \/ Tjump \/ Fjump \/ Noop \/ Skip
  PROVE  Arch!Jumps
<1>1. CASE Jmp
  <2>1. Jump(6, Before(Val(1)))
    BY <1>1 DEF Jmp
  <2>2. /\ status = "running" /\ inst = 6 /\ Succeeds /\ at' = Val(1)
        /\ UNCHANGED <<words, regs, stk, phase, shown>>
    <3>1. Val(1) \in Word
      BY <2>1, SourcesTable, OperandsRead DEF Jump
    <3> QED BY <2>1, <3>1, JumpArrives, JumpFrame
  <2>3. \A k \in 1 .. 1 : Readable(k)
    BY <2>2, SourcesTable DEF Succeeds
  <2>4. Arch!At(6, 1, 1) /\ Arch!Number(1) = Val(1)
    BY <2>2, <2>3, SameInstruction, SameOperands
  <2> QED BY <2>2, <2>4 DEF Arch!Jumps, words, at, shown, phase
<1>2. CASE Tjump
  <2>1. Jump(7, IF Taken THEN Before(Val(2)) ELSE pc + 2)
    BY <1>2 DEF Tjump
  <2>2. /\ status = "running" /\ inst = 7 /\ Succeeds /\ at = pc
        /\ at' = IF Taken THEN Val(2) ELSE pc + 3
        /\ UNCHANGED <<words, regs, stk, phase, shown>>
    <3>1. BranchReadable /\ status = "running"
      BY <1>2, <2>1 DEF Jump, Instr, Succeeds, Executing
    <3> QED BY <2>1, <3>1, BranchArrives, JumpFrame
  <2>3. \A k \in 1 .. 1 : Readable(k)
    BY <2>2, SourcesTable DEF Succeeds
  <2>4. Arch!At(7, 1, 1) /\ Arch!Number(1) = Val(1)
    BY <2>2, <2>3, SameInstruction, SameOperands
  <2>5. CASE Val(1) # 0
    <3>1. Taken /\ Readable(2)
      BY <2>2, <2>5 DEF Taken, Succeeds, BranchReadable
    <3>2. \A k \in 1 .. 2 : Readable(k)
      BY <2>3, <3>1
    <3>3. Arch!At(7, 1, 2) /\ Arch!Number(2) = Val(2)
      BY <2>2, <3>2, SameInstruction, SameOperands
    <3> QED BY <2>2, <2>4, <2>5, <3>1, <3>3
            DEF Arch!Jumps, words, at, shown, phase
  <2>6. CASE Val(1) = 0
    <3>1. at' = at + 3
      BY <2>2, <2>6 DEF Taken
    <3> QED BY <2>2, <2>4, <2>6, <3>1 DEF Arch!Jumps, words, at, shown, phase
  <2> QED BY <2>5, <2>6
<1>3. CASE Fjump
  <2>1. Jump(8, IF Taken THEN Before(Val(2)) ELSE pc + 2)
    BY <1>3 DEF Fjump
  <2>2. /\ status = "running" /\ inst = 8 /\ Succeeds /\ at = pc
        /\ at' = IF Taken THEN Val(2) ELSE pc + 3
        /\ UNCHANGED <<words, regs, stk, phase, shown>>
    <3>1. BranchReadable /\ status = "running"
      BY <1>3, <2>1 DEF Jump, Instr, Succeeds, Executing
    <3> QED BY <2>1, <3>1, BranchArrives, JumpFrame
  <2>3. \A k \in 1 .. 1 : Readable(k)
    BY <2>2, SourcesTable DEF Succeeds
  <2>4. Arch!At(8, 1, 1) /\ Arch!Number(1) = Val(1)
    BY <2>2, <2>3, SameInstruction, SameOperands
  <2>5. CASE Val(1) = 0
    <3>1. Taken /\ Readable(2)
      BY <2>2, <2>5 DEF Taken, Succeeds, BranchReadable
    <3>2. \A k \in 1 .. 2 : Readable(k)
      BY <2>3, <3>1
    <3>3. Arch!At(8, 1, 2) /\ Arch!Number(2) = Val(2)
      BY <2>2, <3>2, SameInstruction, SameOperands
    <3> QED BY <2>2, <2>4, <2>5, <3>1, <3>3
            DEF Arch!Jumps, words, at, shown, phase
  <2>6. CASE Val(1) # 0
    <3>1. at' = at + 3
      BY <2>2, <2>6 DEF Taken
    <3> QED BY <2>2, <2>4, <2>6, <3>1 DEF Arch!Jumps, words, at, shown, phase
  <2> QED BY <2>5, <2>6
<1>4. CASE Noop \/ Skip
  <2>1. PICK op : Jump(op, pc) /\ (op = 21 \/ inst > 21)
    BY <1>4 DEF Noop, Skip
  <2>2. /\ status = "running" /\ inst = op /\ at = pc /\ at' = pc + 1
        /\ UNCHANGED <<words, regs, stk, phase, shown>>
    <3>1. status = "running"
      BY <2>1 DEF Jump, Instr, Executing
    <3> QED BY <2>1, <3>1, MovesOn, JumpFrame DEF ArchInv
  <2>3. inst \in Word
    BY <2>2, CellTyped DEF ArchInv, IInv, RunningInMemory, inst, Cell
  <2>4. inst \in 21 .. 2 * Modulus
    BY <2>1, <2>2, <2>3 DEF Word
  <2>5. Arch!At(inst, 1, 0)
    BY <2>2, SameInstruction
  <2> QED BY <2>2, <2>4, <2>5 DEF Arch!Jumps, words, at, shown, phase
<1> QED BY <1>1, <1>2, <1>3, <1>4

-----------------------------------------------------------------------------
(* IN *)

\* An IN that goes on puts a word into its register or leaves it alone.
LEMMA InRefines ==
  ASSUME ArchInv, [Next]_vars, InExec, NEW r \in Buffers(mode), Plain(r.buf),
         InChar(r) \/ InSetreg(r) \/ InIgnored(r)
  PROVE  Arch!ArchIn
<1>1. Plain(r.buf) /\ BufferOK(r)
  BY BuffersOK DEF ArchInv
<1>2. /\ status = "running" /\ Executing /\ inst = 20 /\ Goto(pc + 1)
      /\ UNCHANGED <<stk, out>>
  BY DEF InExec, Executing, InChar, InSetreg, InIgnored
<1>3. UNCHANGED mem
  BY <1>1 DEF InChar, InSetreg, InIgnored, Patched, Plain
<1>4. Fetch(pc + 2) /\ Fetch(pc + 1 + 1)
  <2>1. Fetch(pc + 2) /\ pc + 1 + 1 = pc + 2
    BY <1>2, MovesOn DEF ArchInv, IInv, TypeOK
  <2> QED BY <2>1
<1>5. CASE \E v \in Word : Store(v) /\ Writable(1)
  <2>1. PICK v \in Word : Store(v) /\ Writable(1)
    BY <1>5
  <2>2. Assigned(20, 1, v)
    BY <1>2, <1>3, <1>4, <2>1, StoreAssigns
  <2> QED BY <2>2 DEF Assigned, Arch!ArchIn, Arch!Sets, words, at, shown
<1>6. CASE UNCHANGED regs /\ ~Writable(1)
  <2>1. Arch!At(20, 2, 1) /\ ~Arch!Register(1)
    BY <1>2, <1>6, SameInstruction, SameOperands
  <2>2. Arch!Then(at + 2)
    BY <1>2, <1>4, SameThen, RunningAt
  <2>3. UNCHANGED <<words, regs, stk, shown>>
    BY <1>2, <1>3, <1>6 DEF words, shown
  <2> QED BY <2>1, <2>2, <2>3 DEF Arch!ArchIn, words, at, shown
<1>7. CASE InChar(r)
  <2>1. r.buf.cmd = "garbage" \/ r.idx + 1 \in 1 .. Len(r.buf.text)
    BY <1>1, <1>7 DEF BufferOK, InChar, Delivers
  <2>2. \A c \in CharsAt(r) : c \in Word
    BY <1>1, <2>1, ConsoleAssumption
       DEF CharsAt, BufferOK, Line, ConsoleAssumption
  <2> QED BY <1>5, <1>7, <2>2 DEF InChar, InSucceeds
<1>8. CASE InIgnored(r)
  <2>1. UNCHANGED regs
    BY <1>8 DEF InIgnored
  <2>2. CASE Writable(1)
    <3>1. RegIdx(Arg(1)) \in RegIds
      <4>1. mem[pc + 1] \in Cell
        BY <2>2, CellTyped DEF ArchInv, IInv, Writable
      <4> QED BY <2>2, <4>1
              DEF Writable, IsReg, Arg, Cell, Word, RegIdx, RegIds, MAX_VAL, MAX_REG
    <3>2. regs[RegIdx(Arg(1))] \in Word /\ regs \in [RegIds -> Word]
      BY <3>1 DEF ArchInv, IInv, TypeOK
    <3>3. Store(regs[RegIdx(Arg(1))])
      BY <2>1, <3>1, <3>2 DEF Store
    <3> QED BY <1>5, <2>2, <3>2, <3>3
  <2> QED BY <1>6, <2>1, <2>2
<1> QED BY <1>1, <1>7, <1>8 DEF InSetreg, Plain

-----------------------------------------------------------------------------
(* The ends *)

\* The variables of the architecture, as the mapping gives them.
Mapped == <<image, words, regs, stk, at, phase, shown>>

\* The loader switches the machine on, unless it finds no program or too much.
LEMMA LoadRefines ==
  ASSUME ArchInv, Load
  PROVE  Arch!PowerOn \/ UNCHANGED Mapped
<1>1. status = "loading" /\ UNCHANGED <<image, regs, stk, pc, out>>
  BY DEF Load
<1>2. DOMAIN mem = {} /\ phase = "off" /\ at = pc /\ UNCHANGED shown
  BY <1>1 DEF ArchInv, EmptyAtFirst, phase, at, HasQuit, shown
<1>3. CASE mem' = CellsOf(image) /\ image # <<>> /\ status' = "running"
  <2>1. Len(image) \in Nat /\ Len(image) > 0
    BY <1>3 DEF ArchInv, IInv, TypeOK
  <2>2. DOMAIN mem' = 0 .. Len(image) - 1 /\ 0 \in DOMAIN mem'
    BY <1>3, <2>1 DEF CellsOf
  <2>3. phase' = "on" /\ at' = at
    BY <1>1, <1>2, <1>3, <2>2 DEF phase, at, HasQuit
  <2>4. words' = [a \in 0 .. Len(image) - 1 |-> image[a + 1]]
    BY <1>3, <2>2 DEF words, CellsOf
  <2> QED BY <1>1, <1>2, <2>3, <2>4 DEF Arch!PowerOn, words, at, phase, shown
<1>4. CASE DOMAIN mem' = {} /\ status' \in {"exit", "fault"}
  <2>1. UNCHANGED words
    BY <1>2, <1>4 DEF words
  <2>2. UNCHANGED phase /\ UNCHANGED at
    BY <1>1, <1>2, <1>4 DEF phase, at, HasQuit
  <2> QED BY <1>1, <1>2, <2>1, <2>2 DEF Mapped
<1>5. CellsOf(<<>>) = [i \in {} |-> [addr |-> i, value |-> <<>>[i + 1]]]
  <2>1. Len(<<>>) = 0 /\ 0 .. 0 - 1 = {}
    OBVIOUS
  <2> QED BY <2>1 DEF CellsOf
<1>6. DOMAIN CellsOf(<<>>) = {}
  BY <1>5
<1>7. CASE status' = "fault" /\ UNCHANGED mem
  BY <1>2, <1>4, <1>7
<1>8. CASE mem' = CellsOf(image) /\ status' = IF image = <<>> THEN "exit" ELSE "running"
  BY <1>3, <1>4, <1>6, <1>8
<1> QED BY <1>7, <1>8 DEF Load

\* A quit, the log limit, a process that dies and the return to main.
LEMMA EndsStutter ==
  ASSUME ArchInv, [Next]_vars,
         \/ LogLimit \/ Fault \/ ExecuteReturn \/ UNCHANGED vars
         \/ \E r : InExec /\ (InQuit(r) \/ InFault(r))
  PROVE  UNCHANGED Mapped
<1>1. UNCHANGED <<image, mem, regs, stk, out>>
  BY DEF LogLimit, Fault, End, ExecuteReturn, InQuit, InFault, vars, machineVars
<1>2. UNCHANGED <<words, shown>>
  BY <1>1 DEF words, shown
<1>3. CASE LogLimit \/ Fault \/ \E r : InExec /\ InFault(r)
  <2>1. /\ status = "running" /\ status' \in {"limit", "fault"}
        /\ UNCHANGED <<pc, mode, log_open>>
    BY <1>3 DEF LogLimit, Fault, End, InFault, InExec, Executing, machineVars, logVars
  <2>2. Traced => log_open
    BY <2>1 DEF ArchInv, TraceOpen
  <2>3. UNCHANGED at
    BY <2>1, <2>2 DEF at, HasQuit, Traced
  <2>4. UNCHANGED phase
    BY <1>1, <2>1 DEF phase
  <2> QED BY <1>1, <1>2, <2>3, <2>4 DEF Mapped
<1>4. CASE \E r : InExec /\ InQuit(r)
  <2>1. status = "running" /\ status' = "quit" /\ pc' = pc + 1 /\ pc \in Nat
    BY <1>4 DEF InQuit, InExec, Executing, ArchInv, IInv, TypeOK
  <2>2. UNCHANGED at
    BY <2>1 DEF at, HasQuit
  <2>3. UNCHANGED phase
    BY <1>1, <2>1 DEF phase
  <2> QED BY <1>1, <1>2, <2>2, <2>3 DEF Mapped
<1>5. CASE ExecuteReturn
  <2>1. status \in Ended /\ ~returned /\ UNCHANGED <<pc, mode>> /\ ~log_open'
    BY <1>5 DEF ExecuteReturn, machineVars
  <2>2. CASE UNCHANGED status
    <3>1. UNCHANGED at /\ UNCHANGED phase
      BY <1>1, <2>1, <2>2 DEF at, phase, HasQuit, Ended
    <3> QED BY <1>1, <1>2, <3>1 DEF Mapped
  <2>3. CASE Traced /\ ~log_open /\ status' = "fault"
    <3>1. status = "quit" /\ DOMAIN mem # {}
      BY <2>1, <2>3 DEF ArchInv, TraceOpen, OnWhenEnded
    <3>2. UNCHANGED at /\ UNCHANGED phase
      BY <1>1, <2>1, <2>3, <3>1 DEF at, phase, HasQuit, Traced
    <3> QED BY <1>1, <1>2, <3>2 DEF Mapped
  <2> QED BY <1>5, <2>2, <2>3 DEF ExecuteReturn
<1>6. CASE UNCHANGED vars
  <2>1. UNCHANGED at /\ UNCHANGED phase
    BY <1>6 DEF vars, machineVars, logVars, at, phase, HasQuit, Traced
  <2> QED BY <1>1, <1>2, <2>1 DEF Mapped
<1> QED BY <1>3, <1>4, <1>5, <1>6

-----------------------------------------------------------------------------
(* The theorem *)

LEMMA InitRefines == Init => Arch!ArchInit
<1> SUFFICES ASSUME Init PROVE Arch!ArchInit
  OBVIOUS
<1>1. /\ image \in Seq(Word) /\ regs = [r \in RegIds |-> 0] /\ stk = <<>>
      /\ pc = 0 /\ status = "loading" /\ out = <<>> /\ mem = CellsOf(<<>>)
  BY ExecAssumption DEF ExecAssumption, Init
<1>2. DOMAIN mem = {} /\ 0 .. 0 - 1 = {}
  <2>1. Len(<<>>) = 0 /\ 0 .. 0 - 1 = {}
    OBVIOUS
  <2> QED BY <1>1, <2>1 DEF CellsOf
<1>3. words = [a \in 0 .. 0 - 1 |-> 0]
  BY <1>2 DEF words
<1>4. at = 0 /\ phase = "off" /\ shown = 0 - 1
  BY <1>1, <1>2 DEF at, HasQuit, phase, shown
<1>5. Arch!RegIds = RegIds
  BY DEF Arch!RegIds, RegIds
<1> QED BY <1>1, <1>3, <1>4, <1>5, SameWords
        DEF Arch!ArchInit, Arch!Nothing, words, at, phase, shown

LEMMA ImageStays == [Next]_vars => UNCHANGED image
BY DEF Next, Step, Terminated, vars, Load, Halt, LogLimit, Fault, End,
       ExecuteReturn, Set, Eq, Gt, Add, Mult, Mod, And, Or, Not, Rmem, Assign, Wmem,
       Push, Pop, Call, Ret, Jmp, Tjump, Fjump, Noop, Skip, Jump, Goto, Fetch, Out, In,
       InChar, InSetreg, InIgnored, InQuit, InFault

\* Every step of the program is one of the architecture's, or none, or an IN on
\* a command that writes.
LEMMA StepRefines ==
  ASSUME ArchInv, [Next]_vars
  PROVE  [Arch!ArchNext \/ CommandWrites]_(Arch!archVars)
<1> USE ImageStays
<1>1. CASE Set \/ Eq \/ Gt \/ Add \/ Mult \/ Mod \/ And \/ Or \/ Not \/ Rmem
  BY <1>1, SetRefines, CompareRefines, AddRefines, MultRefines, ModRefines,
     BitwiseRefines, NotRefines, RmemRefines, Zenon DEF Arch!ArchNext
<1>2. CASE Wmem \/ Push \/ Pop \/ Call \/ Ret \/ Out \/ Halt
  BY <1>2, WmemRefines, PushRefines, PopRefines, CallRefines, RetRefines,
     OutRefines, HaltRefines, Zenon DEF Arch!ArchNext
<1>3. CASE Jmp \/ Tjump \/ Fjump \/ Noop \/ Skip
  BY <1>3, JumpsRefine, Zenon DEF Arch!ArchNext
<1>4. CASE UNCHANGED Mapped
  BY <1>4 DEF Mapped, Arch!archVars, words, at, phase, shown
<1>5. CASE In
  <2>1. PICK r \in Buffers(mode) :
          InChar(r) \/ InSetreg(r) \/ InIgnored(r) \/ InQuit(r) \/ InFault(r)
    BY <1>5 DEF In
  <2>2. InExec
    BY <1>5 DEF In
  <2>3. CASE Plain(r.buf) /\ (InChar(r) \/ InSetreg(r) \/ InIgnored(r))
    BY <2>2, <2>3, InRefines, Zenon DEF Arch!ArchNext
  <2>4. CASE ~Plain(r.buf) /\ (InChar(r) \/ InSetreg(r))
    BY <2>2, <2>4 DEF CommandWrites
  <2>5. InIgnored(r) => Plain(r.buf)
    BY DEF InIgnored, Plain
  <2>6. CASE InQuit(r) \/ InFault(r)
    BY <1>4, <2>2, <2>6, EndsStutter
  <2> QED BY <2>1, <2>3, <2>4, <2>5, <2>6
<1>6. CASE Load
  <2>1. CASE Arch!PowerOn
    BY <2>1, Zenon DEF Arch!ArchNext
  <2> QED BY <1>4, <1>6, <2>1, LoadRefines
<1>7. CASE LogLimit \/ Fault \/ ExecuteReturn \/ UNCHANGED vars
  BY <1>4, <1>7, EndsStutter
<1> QED BY <1>1, <1>2, <1>3, <1>5, <1>6, <1>7 DEF Next, Step, Terminated

\* The machine of cells, the trace, the line buffer and C's arithmetic does what
\* the architecture promises of every instruction, for every program, script and
\* input.  Nothing else writes into its memory, registers and stack but an IN on
\* a _setreg or a tele_hack (exec.c:26-446, arch-spec:12-79).
THEOREM OnlyCommandsWrite ==
  Spec => Arch!ArchInit /\ [][Arch!ArchNext \/ CommandWrites]_(Arch!archVars)
<1>1. ArchInv /\ [Next]_vars => ArchInv'
  BY StepArchInv
<1>2. ArchInv /\ [Next]_vars => [Arch!ArchNext \/ CommandWrites]_(Arch!archVars)
  BY StepRefines
<1> QED BY <1>1, <1>2, InitArchInv, InitRefines, PTL DEF Spec

-----------------------------------------------------------------------------
(* Without the two commands *)

\* The buffers an IN may work on hold plain lines.
LEMMA PlainBuffers ==
  ASSUME PlainLines, Plain(stdin_buf), NEW r \in Buffers(mode)
  PROVE  Plain(r.buf)
<1>1. CASE Unread
  BY <1>1 DEF Buffers
<1>2. CASE ~Unread /\ ScriptHasLine
  BY <1>2 DEF Buffers, FromScript, Filled, ScriptHasLine, PlainLines
<1>3. CASE ~Unread /\ ~ScriptHasLine
  BY <1>3 DEF Buffers, FromUser, Filled, LineOf, PlainLines, Plain
<1> QED BY <1>1, <1>2, <1>3

\* A _setreg leaves an empty line, any other IN the buffer it found.
LEMMA PlainStep ==
  ASSUME PlainLines, Plain(stdin_buf), [Next]_vars
  PROVE  Plain(stdin_buf)'
<1>1. CASE UNCHANGED consoleVars
  BY <1>1 DEF consoleVars, Plain
<1>2. CASE \E r \in Buffers(mode) : Deliver(r) \/ Keep(r) \/ Setreg(r)
  <2>1. PICK r \in Buffers(mode) : Deliver(r) \/ Keep(r) \/ Setreg(r)
    BY <1>2
  <2>2. Plain(r.buf)
    BY PlainBuffers
  <2>3. Plain(LineOf("text", <<Newline>>))
    BY DEF Plain, LineOf
  <2>4. stdin_buf' \in {r.buf, LineOf("text", <<Newline>>)}
    BY <2>1 DEF Deliver, Keep, Setreg, Console
  <2> QED BY <2>2, <2>3, <2>4 DEF Plain
<1> QED BY <1>1, <1>2, ScriptFrame

\* So exec_step implements the architecture whenever no line of the console or of
\* the script is a _setreg or a tele_hack.
THEOREM ExecImplements ==
  ASSUME PlainLines
  PROVE  Spec => ImplementsArch
<1>1. Init => Plain(stdin_buf)
  BY DEF Init, ConsoleInit, NoLine, LineOf, Plain
<1>2. Plain(stdin_buf) /\ [Next]_vars => Plain(stdin_buf)'
  BY PlainStep
<1>3. ArchInv /\ [Next]_vars => ArchInv'
  BY StepArchInv
<1>4. ArchInv /\ Plain(stdin_buf) /\ [Next]_vars => [Arch!ArchNext]_(Arch!archVars)
  <2>1. Plain(stdin_buf) => ~CommandWrites
    BY PlainBuffers DEF CommandWrites
  <2> QED BY <2>1, StepRefines
<1> QED BY <1>1, <1>2, <1>3, <1>4, InitArchInv, InitRefines, PTL
        DEF Spec, ImplementsArch, Arch!ArchSpecification
=============================================================================

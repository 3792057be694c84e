------------------------------ MODULE ArchSpec ------------------------------
(***************************************************************************)
(* The machine the architecture promises: instructions over a memory of    *)
(* words, registers and a stack, with no cells, no log, no input buffer    *)
(* and no process that can die.  What a program may not rely on (a product *)
(* of wide words that does not fit in 31 bits, NOT of a wide word, OUT of  *)
(* a number that is no character, words that are no opcode) is left open.  *)
(* Its meaning of an operand is that of eval, and its opcodes are those of *)
(* exec_step, both read from the source; Exec is shown to implement it.    *)
(***************************************************************************)
EXTENDS Value, Sequences

CONSTANT MaxChar    \* characters are below

VARIABLES program, memory, registers, stack, counter, phase, printed

archVars == <<program, memory, registers, stack, counter, phase, printed>>

Nothing == 0 - 1

ArchInit ==
  /\ program \in Seq(Word)
  /\ memory = [a \in 0 .. 0 - 1 |-> 0] /\ registers = [r \in RegIds |-> 0]
  /\ stack = <<>> /\ counter = 0 /\ phase = "off" /\ printed = Nothing

\* The program is loaded from address 0 on
PowerOn ==
  /\ phase = "off" /\ phase' = "on"
  /\ memory' = [a \in 0 .. Len(program) - 1 |-> program[a + 1]]
  /\ UNCHANGED <<registers, stack, counter, printed>>

\* An operand that is a number, or the register a number is put in
Valid(k)    == counter + k \in DOMAIN memory /\ Evaluates(memory[counter + k])
Register(k) == counter + k \in DOMAIN memory /\ IsReg(memory[counter + k])
Number(k)   == Eval(registers, memory[counter + k])

\* The instruction at the counter is op, with operands from to to
At(op, from, to) ==
  /\ phase = "on" /\ counter \in DOMAIN memory /\ memory[counter] = op
  /\ \A k \in from .. to : Valid(k)

\* The instruction has its effect and the machine goes on at the address next
Then(next) == counter' = next /\ UNCHANGED phase

\* Operand 1 names the register that gets a value satisfying the condition
Sets(op, arity, Good(_)) ==
  /\ At(op, 2, arity) /\ Register(1)
  /\ \E v \in Word :
       /\ Good(v)
       /\ registers' = [registers EXCEPT ![RegIdx(memory[counter + 1])] = v]
  /\ Then(counter + arity + 1)
  /\ UNCHANGED <<memory, stack, printed>>

ArchSet == LET G(v) == v = Number(2) IN Sets(1, 2, G)
ArchEq  == LET G(v) == v \in {0, 1} /\ (v = 1 <=> Number(2) = Number(3))
           IN  Sets(4, 3, G)
ArchGt  == LET G(v) == v \in {0, 1} /\ (v = 1 <=> Number(2) > Number(3))
           IN  Sets(5, 3, G)
\* Modulo: the literal that differs from the sum by a multiple of Modulus
ArchAdd == LET G(v) == v \in Literal /\
                         \E q \in 0 .. 3 : Number(2) + Number(3) = q * Modulus + v
           IN  Sets(9, 3, G)
ArchMult == LET G(v) == Number(2) * Number(3) < 2 * Modulus * Modulus =>
                          /\ v \in Literal
                          /\ \E q \in Word :
                               Number(2) * Number(3) = q * Modulus + v
            IN  Sets(10, 3, G)
ArchMod == LET G(v) == v < Number(3) /\
                         \E q \in Word : Number(2) = q * Number(3) + v
           IN  Sets(11, 3, G)
ArchAnd == LET G(v) == v = BitAnd(Number(2), Number(3)) IN Sets(12, 3, G)
ArchOr  == LET G(v) == v = BitOr(Number(2), Number(3)) IN Sets(13, 3, G)
ArchNot == LET G(v) == Number(2) \in Literal => v + Number(2) = MAX_VAL
           IN  Sets(14, 2, G)
ArchRmem == LET G(v) == Number(2) \in DOMAIN memory /\ v = memory[Number(2)]
            IN  Sets(15, 2, G)
\* Any character; without a register to put it in the instruction has no meaning
\* and may be passed over
ArchIn  == \/ LET G(v) == TRUE IN Sets(20, 1, G)
           \/ /\ At(20, 2, 1) /\ ~Register(1) /\ Then(counter + 2)
              /\ UNCHANGED <<memory, registers, stack, printed>>

ArchWmem ==
  /\ At(16, 1, 2) /\ Number(1) \in DOMAIN memory
  /\ memory' = [memory EXCEPT ![Number(1)] = Number(2)]
  /\ Then(counter + 3)
  /\ UNCHANGED <<registers, stack, printed>>

ArchPush ==
  /\ At(2, 1, 1)
  /\ stack' = <<Number(1)>> \o stack
  /\ Then(counter + 2)
  /\ UNCHANGED <<memory, registers, printed>>

ArchPop ==
  /\ At(3, 2, 1) /\ Register(1) /\ stack # <<>>
  /\ stack' = Tail(stack)
  /\ registers' = [registers EXCEPT ![RegIdx(memory[counter + 1])] = Head(stack)]
  /\ Then(counter + 2)
  /\ UNCHANGED <<memory, printed>>

\* The jumps change nothing but the counter, and a word that is no opcode is
\* stepped over
Jumps ==
  /\ \/ At(6, 1, 1) /\ counter' = Number(1)
     \/ At(7, 1, 2) /\ Number(1) # 0 /\ counter' = Number(2)
     \/ At(7, 1, 1) /\ Number(1) = 0 /\ counter' = counter + 3
     \/ At(8, 1, 2) /\ Number(1) = 0 /\ counter' = Number(2)
     \/ At(8, 1, 1) /\ Number(1) # 0 /\ counter' = counter + 3
     \/ (\E op \in 21 .. 2 * Modulus : At(op, 1, 0)) /\ counter' = counter + 1
  /\ UNCHANGED <<memory, registers, stack, phase, printed>>

\* The address of the next instruction
ArchCall ==
  /\ At(17, 1, 1)
  /\ stack' = <<counter + 2>> \o stack
  /\ Then(Number(1))
  /\ UNCHANGED <<memory, registers, printed>>

ArchRet ==
  /\ At(18, 1, 0)
  /\ IF stack = <<>>
     THEN phase' = "halted" /\ UNCHANGED <<counter, stack>>
     ELSE counter' = Head(stack) /\ stack' = Tail(stack) /\ UNCHANGED phase
  /\ UNCHANGED <<memory, registers, printed>>

ArchOut ==
  /\ At(19, 1, 1)
  /\ \E c \in 0 .. MaxChar - 1 :
       printed' = c /\ (Number(1) < MaxChar => c = Number(1))
  /\ Then(counter + 2)
  /\ UNCHANGED <<memory, registers, stack>>

ArchHalt ==
  /\ At(0, 1, 0) /\ phase' = "halted"
  /\ UNCHANGED <<memory, registers, stack, counter, printed>>

ArchNext ==
  /\ \/ PowerOn \/ ArchHalt \/ ArchSet \/ ArchPush \/ ArchPop \/ ArchEq \/ ArchGt
     \/ Jumps \/ ArchAdd \/ ArchMult \/ ArchMod \/ ArchAnd \/ ArchOr \/ ArchNot
     \/ ArchRmem \/ ArchWmem \/ ArchCall \/ ArchRet \/ ArchOut \/ ArchIn
  /\ UNCHANGED program

ArchSpecification == ArchInit /\ [][ArchNext]_archVars
=============================================================================

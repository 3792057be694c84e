------------------------------- MODULE Value -------------------------------
(***************************************************************************)
(* The 16-bit words of the virtual machine (src/src/value.c) and the       *)
(* evaluation of an operand (eval, src/src/vm.c).  The widths are scaled:  *)
(* Modulus stands for 32768, NumRegs for the eight registers.              *)
(***************************************************************************)
EXTENDS Integers

CONSTANTS Modulus,      \* 32768: one more than the greatest literal
          NumRegs,      \* 8 registers, r0 at word Modulus
          BitAnd(_, _), \* C's & on value_t
          BitOr(_, _)   \* C's | on value_t

MAX_VAL == Modulus - 1
MAX_REG == MAX_VAL + NumRegs
Literal == 0 .. MAX_VAL
Word    == 0 .. 2 * Modulus - 1
RegIds  == 0 .. NumRegs - 1

ASSUME WidthAssumption ==
  /\ Modulus \in Nat /\ Modulus > 21      \* every opcode is a literal
  /\ NumRegs \in 1 .. Modulus
ASSUME BitAssumption ==
  /\ \A v, w \in Word : BitAnd(v, w) \in Word /\ BitOr(v, w) \in Word
  /\ \A v, w \in Literal : BitAnd(v, w) \in Literal /\ BitOr(v, w) \in Literal

\* Value_is_reg, and Value_get_register_idx where its assertions hold
IsReg(v)  == MAX_VAL < v /\ v <= MAX_REG
RegIdx(v) == v - Modulus

\* eval: a literal is itself, a register number stands for the register's
\* content; any other word fails the assertion of Value_get_register_idx
Evaluates(v)  == v <= MAX_REG
Eval(regs, v) == IF v > MAX_VAL THEN regs[RegIdx(v)] ELSE v

\* v ^ 32767: the low fifteen bits are inverted, bit 15 is kept
Value_bitwise_not(v) ==
  IF v <= MAX_VAL THEN MAX_VAL - v ELSE Modulus + (MAX_VAL - RegIdx(v))

\* A slip: the product is not reduced
ProductsUnreduced(b, c) == {b * c}

\* (b * c) % 32768 on operands promoted to int.  A product that does not fit
\* in an int overflows: the build reduces either the exact product or the
\* wrapped, negative one, whose remainder is negative and becomes a word
\* above MAX_VAL when it is stored in a value_t.
Products(b, c) ==
  LET m == (b * c) % Modulus
  IN  IF b * c < 2 * Modulus * Modulus \/ m = 0 THEN {m} ELSE {m, Modulus + m}
=============================================================================

-------------------------------- MODULE Exec --------------------------------
(***************************************************************************)
(* The virtual machine: load_binary and the loop of execute (standalone,   *)
(* with a trace log) or execute_debug (the debugger's child, without one)  *)
(* around exec_step (src/src/exec.c).  One call of exec_step is one action *)
(* named for the opcode; it also fetches the next cell.  A failed          *)
(* assertion, a NULL dereference, a division by zero and an exhausted heap *)
(* end the process: status "fault", the rest of the state then dead.       *)
(***************************************************************************)
EXTENDS Console

CONSTANTS Images,   \* the word sequences challenge.bin may hold
          MAX_SIZE, \* mem.c refuses to grow the memory to this size
          MaxStack, \* how many stack nodes the heap has room for
          MaxLog,   \* MAX_LOG_SIZE, in logged instructions
          Patch,    \* the addresses tele_hack overwrites, with their values
          ByteMod   \* 256: a value_t is two bytes

ASSUME ExecAssumption ==
  /\ MAX_SIZE \in 1 .. Modulus /\ MaxStack \in Nat /\ MaxLog \in Nat
  /\ Images \subseteq Seq(Word)
  /\ DOMAIN Patch \subseteq Literal /\ \A a \in DOMAIN Patch : Patch[a] \in Word
  /\ ByteMod \in Nat /\ ByteMod * ByteMod = 2 * Modulus

VARIABLES
  image,     \* the words in challenge.bin
  mem,       \* address -> cell
  regs,
  stk,       \* the head is the top
  pc,        \* the address of the cell exec_step is about to execute
  status,    \* why the loop has ended, or "loading", "running"
  mode,      \* "standalone" or "debugger"
  log_size,  \* ftell on the trace
  log_open,
  out,       \* the bytes the last OUT wrote
  returned   \* execute has returned to main

machineVars == <<mem, regs, stk, pc>>
logVars == <<log_size, log_open>>
vars == <<image, machineVars, status, mode, logVars, out, returned, consoleVars>>

Cell  == [addr : Word, value : Word]
Ended == {"halt", "end", "limit", "quit"}   \* exec_step returned NULL

MemTypeOK == \E n \in 0 .. MAX_SIZE - 1 : mem \in [0 .. n - 1 -> Cell]

TypeOK ==
  /\ image \in Seq(Word)
  /\ MemTypeOK
  /\ regs \in [RegIds -> Word]
  /\ stk \in Seq(Word)
  /\ pc \in Nat
  /\ status \in {"loading", "running", "fault", "exit"} \cup Ended
  /\ mode \in {"standalone", "debugger"}
  /\ log_size \in 0 .. MaxLog + 1 /\ log_open \in BOOLEAN
  /\ out \in Seq(Word)
  /\ returned \in BOOLEAN
  /\ ConsoleTypeOK

-----------------------------------------------------------------------------
(* Loading *)

CellsOf(words) ==
  [i \in 0 .. Len(words) - 1 |-> [addr |-> i, value |-> words[i + 1]]]

Init ==
  /\ image \in Images
  /\ mem = CellsOf(<<>>) /\ regs = [r \in RegIds |-> 0] /\ stk = <<>> /\ pc = 0
  /\ status = "loading" /\ mode \in {"standalone", "debugger"}
  /\ log_size = 0 /\ log_open = FALSE /\ out = <<>> /\ returned = FALSE
  /\ ConsoleInit

\* load_binary appends word by word; the append that would make the memory
\* MAX_SIZE cells long fails its assertion.  An empty memory ends in exit(1).
\* A challenge.bin or a trace that cannot be opened ends the process as well (a
\* NULL stream given to fread, a failed assertion).
Load ==
  /\ status = "loading"
  /\ \/ /\ Len(image) < MAX_SIZE /\ mem' = CellsOf(image)
        /\ status' = IF image = <<>> THEN "exit" ELSE "running"
        /\ log_open' = (mode = "standalone")
     \/ status' = "fault" /\ UNCHANGED <<mem, log_open>>
  /\ UNCHANGED <<image, regs, stk, pc, mode, log_size, out, returned, consoleVars>>

-----------------------------------------------------------------------------
(* Operands *)

Traced == mode = "standalone"

inst       == mem[pc].value
Present(i) == i \in DOMAIN mem      \* Memory_get returns a cell, not NULL
Arg(k)     == mem[pc + k].value
Val(k)     == Eval(regs, Arg(k))

Readable(k) == Present(pc + k) /\ Evaluates(Arg(k))
Writable(k) == Present(pc + k) /\ IsReg(Arg(k))

\* The opcodes that assign to the register in their first operand, IN apart,
\* and the operands an opcode evaluates whatever they are
ToRegister == {1, 3} \cup 4 .. 5 \cup 9 .. 15
Sources(op) == CASE op \in {2, 6, 7, 8, 17, 19} -> {1}
                 [] op \in {1, 14, 15}          -> {2}
                 [] op = 16                     -> {1, 2}
                 [] op \in {4, 5} \cup 9 .. 13  -> {2, 3}
                 [] OTHER                       -> {}

\* JT and JF evaluate the target only when they jump, but the trace reads the
\* operand's cell on every one
Taken == IF inst = 7 THEN Val(1) # 0 ELSE Val(1) = 0
BranchReadable == IF Taken THEN Readable(2) ELSE Traced => Present(pc + 2)

\* exec_step gets through the instruction: no NULL dereference, no failed
\* assertion, no division by zero
Succeeds ==
  /\ inst \in ToRegister => Writable(1)
  /\ \A k \in Sources(inst) : Readable(k)
  /\ inst \in {7, 8} => BranchReadable
  /\ inst \in {2, 17} => Len(stk) < MaxStack
  /\ inst \in {3, 18} => stk # <<>>
  /\ inst = 11 => Val(3) # 0
  /\ inst = 15 => Present(Val(2))
  /\ inst = 16 => Present(Val(1))
  /\ inst = 17 => Present(pc + 2) /\ Evaluates(mem[pc + 2].addr)

\* A slip: the trace's size is never looked up
LoggedUncounted == UNCHANGED log_size

LogFull    == Traced /\ log_size > MaxLog
Executing  == status = "running" /\ ~LogFull
Instr(op)  == Executing /\ inst = op /\ Succeeds
Logged     == log_size' = IF Traced THEN log_size + 1 ELSE log_size

Wrap(n) == n % (SIZE_MAX + 1)    \* pc is a size_t

\* The last two lines of exec_step: pc has come to last, the ++ and the next cell,
\* NULL outside the memory
Fetch(next) ==
  /\ pc' = next
  /\ status' = IF Present(next) THEN "running" ELSE "end"
  /\ Logged
  /\ UNCHANGED <<image, mode, log_open, returned>>
Goto(last) == Fetch(Wrap(last + 1))

\* A slip: the target minus one is held in a value_t
BeforeInWord(target) == (target - 1) % (2 * Modulus)

\* The jumps store the target minus one, for the ++; before 0 that is SIZE_MAX
Before(target) == Wrap(target - 1)

-----------------------------------------------------------------------------
(* The instructions *)

Store(v) == regs' = [regs EXCEPT ![RegIdx(Arg(1))] = v]

\* An instruction that only assigns one of results to its register
Assign(op, results, arity) ==
  /\ Instr(op)
  /\ \E v \in results : Store(v)
  /\ Goto(pc + arity)
  /\ UNCHANGED <<mem, stk, out, consoleVars>>

Truth(b) == IF b THEN 1 ELSE 0

\* A slip: no modulus
AddUnreduced == Assign(9, {Val(2) + Val(3)}, 3)

Set  == Assign(1, {Val(2)}, 2)
Eq   == Assign(4, {Truth(Val(2) = Val(3))}, 3)
Gt   == Assign(5, {Truth(Val(2) > Val(3))}, 3)
Add  == Assign(9, {(Val(2) + Val(3)) % Modulus}, 3)
Mult == Assign(10, Products(Val(2), Val(3)), 3)
Mod  == Assign(11, {Val(2) % Val(3)}, 3)
And  == Assign(12, {BitAnd(Val(2), Val(3))}, 3)
Or   == Assign(13, {BitOr(Val(2), Val(3))}, 3)
Not  == Assign(14, {Value_bitwise_not(Val(2))}, 2)
Rmem == Assign(15, {mem[Val(2)].value}, 2)

\* A slip: the new cell's members are swapped
WmemSwapped ==
  /\ Instr(16)
  /\ mem' = [mem EXCEPT ![Val(1)] = [addr |-> Val(2), value |-> Val(1)]]
  /\ Goto(pc + 2)
  /\ UNCHANGED <<regs, stk, out, consoleVars>>

Wmem ==
  /\ Instr(16)
  /\ mem' = [mem EXCEPT ![Val(1)] = [addr |-> Val(1), value |-> Val(2)]]
  /\ Goto(pc + 2)
  /\ UNCHANGED <<regs, stk, out, consoleVars>>

Push ==
  /\ Instr(2)
  /\ stk' = <<Val(1)>> \o stk
  /\ Goto(pc + 1)
  /\ UNCHANGED <<mem, regs, out, consoleVars>>

Pop ==
  /\ Instr(3)
  /\ Store(Head(stk)) /\ stk' = Tail(stk)
  /\ Goto(pc + 1)
  /\ UNCHANGED <<mem, out, consoleVars>>

Jump(op, last) ==
  /\ Instr(op)
  /\ Goto(last)
  /\ UNCHANGED <<mem, regs, stk, out, consoleVars>>

Jmp   == Jump(6, Before(Val(1)))
Tjump == Jump(7, IF Taken THEN Before(Val(2)) ELSE pc + 2)
Fjump == Jump(8, IF Taken THEN Before(Val(2)) ELSE pc + 2)
Noop  == Jump(21, pc)
\* A word that is no opcode is skipped
Skip  == Executing /\ inst > 21 /\ Jump(inst, pc)

\* A slip: the address of the operand is pushed
CallSavesOperand ==
  /\ Instr(17)
  /\ stk' = <<Eval(regs, mem[pc + 1].addr)>> \o stk
  /\ Goto(Before(Val(1)))
  /\ UNCHANGED <<mem, regs, out, consoleVars>>

\* The return address is the address recorded in the cell after the operand
Call ==
  /\ Instr(17)
  /\ stk' = <<Eval(regs, mem[pc + 2].addr)>> \o stk
  /\ Goto(Before(Val(1)))
  /\ UNCHANGED <<mem, regs, out, consoleVars>>

Ret ==
  /\ Instr(18)
  /\ stk' = Tail(stk)
  /\ Goto(Before(Head(stk)))
  /\ UNCHANGED <<mem, regs, out, consoleVars>>

\* Both bytes of the value are written, the low one first
Out ==
  /\ Instr(19)
  /\ out' = <<Val(1) % ByteMod, Val(1) \div ByteMod>>
  /\ Goto(pc + 1)
  /\ UNCHANGED <<mem, regs, stk, consoleVars>>

-----------------------------------------------------------------------------
(* IN: r is the buffer it works on *)

InExec == Executing /\ inst = 20

\* A line that starts with '_' delivers nothing, any other one a character
Delivers(r) == r.buf.cmd \notin {"quit", "_setreg", "_bad", "_other"}

InSucceeds(r) ==
  /\ Delivers(r) => Writable(1)
  /\ r.buf.cmd # "_bad"
  /\ Traced => Present(pc + 1)
  /\ r.buf.cmd = "tele_hack" => DOMAIN Patch \subseteq DOMAIN mem
  /\ r.buf.cmd = "dump" => Len(stk) < MaxStack    \* room for a second stack

\* A slip: a pasted line keeps the address of another cell
PatchedPasted(r) ==
  IF r.buf.cmd = "tele_hack"
  THEN [i \in DOMAIN mem |->
          IF i \in DOMAIN Patch
          THEN [addr |-> CHOOSE a \in DOMAIN Patch : TRUE, value |-> Patch[i]] ELSE mem[i]]
  ELSE mem

\* Every IN that finds the line in the buffer acts on the command again
Patched(r) ==
  IF r.buf.cmd = "tele_hack"
  THEN [i \in DOMAIN mem |-> IF i \in DOMAIN Patch
                             THEN [addr |-> i, value |-> Patch[i]] ELSE mem[i]]
  ELSE mem

InChar(r) ==
  /\ Delivers(r) /\ InSucceeds(r)
  /\ \E c \in CharsAt(r) : Store(c)
  /\ mem' = Patched(r)
  /\ Deliver(r)
  /\ Goto(pc + 1)
  /\ UNCHANGED <<stk, out>>

InSetreg(r) ==
  /\ r.buf.cmd = "_setreg" /\ InSucceeds(r)
  /\ regs' = [regs EXCEPT ![r.buf.reg] = r.buf.val]
  /\ Setreg(r)
  /\ Goto(pc + 1)
  /\ UNCHANGED <<mem, stk, out>>

InIgnored(r) ==
  /\ r.buf.cmd = "_other" /\ InSucceeds(r)
  /\ Keep(r)
  /\ Goto(pc + 1)
  /\ UNCHANGED <<mem, regs, stk, out>>

\* The quit commands close the trace through exec_step's own copy of fp
InQuit(r) ==
  /\ r.buf.cmd = "quit"
  /\ Keep(r)
  /\ pc' = pc + 1 /\ status' = "quit"
  /\ log_open' = FALSE /\ Logged
  /\ UNCHANGED <<image, mem, regs, stk, mode, out, returned>>

\* Reading on in an uninitialised buffer may at any time leave the heap, and the
\* script an "ff" names may be missing or, opened once for each of the line's
\* characters and never closed, find no handle left: the assertion of exec.c:355
InFault(r) ==
  /\ r.buf.cmd # "quit" /\ (~InSucceeds(r) \/ r.buf.cmd \in {"garbage", "ff"})
  /\ status' = "fault"
  /\ UNCHANGED <<image, machineVars, mode, logVars, out, returned, consoleVars>>

In == InExec /\ \E r \in Buffers(mode) :
        InChar(r) \/ InSetreg(r) \/ InIgnored(r) \/ InQuit(r) \/ InFault(r)

-----------------------------------------------------------------------------
(* The ends *)

End(reason) ==
  /\ status' = reason
  /\ UNCHANGED <<image, machineVars, mode, logVars, out, returned, consoleVars>>

Halt     == Instr(0) /\ End("halt")
LogLimit == status = "running" /\ LogFull /\ End("limit")
Fault    == Executing /\ ~Succeeds /\ End("fault")

\* execute closes the trace and returns, main frees the VM.  fclose on a stream
\* that is closed already is undefined: it returns or aborts the process.
ExecuteReturn ==
  /\ status \in Ended /\ ~returned
  /\ \/ returned' = TRUE /\ UNCHANGED status
     \/ Traced /\ ~log_open /\ status' = "fault" /\ UNCHANGED returned
  /\ log_open' = FALSE
  /\ UNCHANGED <<image, machineVars, mode, log_size, out, consoleVars>>

Stopped    == returned \/ status \in {"fault", "exit"}
Terminated == Stopped /\ UNCHANGED vars

Step ==
  \/ Load
  \/ Halt \/ Set \/ Push \/ Pop \/ Eq \/ Gt \/ Jmp \/ Tjump \/ Fjump
  \/ Add \/ Mult \/ Mod \/ And \/ Or \/ Not \/ Rmem \/ Wmem
  \/ Call \/ Ret \/ Out \/ In \/ Noop \/ Skip
  \/ LogLimit \/ Fault \/ ExecuteReturn

Next == Step \/ Terminated
Spec == Init /\ [][Next]_vars

\* The process runs whenever it is not blocked on the user, who need not answer
AwaitsUser == InExec /\ AwaitsLine
FairSpec   == Spec /\ WF_vars(~AwaitsUser /\ Step)

-----------------------------------------------------------------------------
(* Properties *)

\* A cell records its own index, through the loader, WMEM and tele_hack alike.
\* CALL takes the return address from that record (exec.c:274) and the debugger
\* compares breakpoints with it (debug.c:259); the machine reads by index.
AddrIsIndex == \A i \in DOMAIN mem : mem[i].addr = i

\* arch-spec:14, "all math is modulo 32768": while every register and every
\* stack element is a 15-bit number, only a word read from the memory or from
\* the console can put a wider one there, whatever the instruction sequence.
Narrow == /\ \A r \in RegIds : regs[r] \in Literal
          /\ \A i \in DOMAIN stk : stk[i] \in Literal
MathIsModular == [][Executing /\ inst \notin {15, 20} /\ Narrow => Narrow']_vars

\* arch-spec:71: CALL leaves the address of the next instruction on the stack,
\* and the stack under it as it was (it comes from a cell, not from pc).
CallSavesNext ==
  [][Executing /\ inst = 17 /\ Succeeds => stk' = <<pc + 2>> \o stk]_vars

\* The log limit of exec.c:21 stops every traced run: one that does not wait for
\* the user forever ends, even a loop that makes no progress on the input.
TracedRunStops == Traced => <>Stopped \/ <>[]AwaitsUser

\* README.md:17, "quit ...: shuts down the VM": a quit ends in an orderly return.
QuitShutsDown == [][status = "quit" => status' # "fault"]_vars

\* arch-spec:73: RET on an empty stack is a halt, not an error.
RetHaltsOnEmpty ==
  [][Executing /\ inst = 18 /\ stk = <<>> => status' = "halt"]_vars
=============================================================================

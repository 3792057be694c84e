# Synacor virtual machine: specifications and proofs

This directory specifies the virtual machine of `src/` in TLA+, checks the
specifications with TLC on small instances and proves properties of them with
TLAPS for every value of their constants.

## The system

`synacor` interprets a program of 16-bit words (`data/challenge.bin`). Run
alone it traces every instruction to a log; run with `-d` it becomes three
processes around an ncurses window.

| Component | Source | State | Operations | Hard behaviour | What makes it correct |
|---|---|---|---|---|---|
| Words, operands | `value.c`, `vm.c` (eval) | none | register number, eval, 15-bit not | words that are neither literal nor register; words wider than 15 bits | operands evaluate as documented; arithmetic stays below 32768 |
| Interpreter | `exec.c` | registers, stack, memory, pc, trace | 22 opcodes, fetch, `execute` | self-modifying code, jumps through a `size_t` that wraps, failed assertions, full trace | each opcode does what the architecture promises and jumps arrive at their targets; cells know their own address; a traced run ends |
| Loader, life cycle | `vm.c` | the above | `init_vm`, `load_binary`, `main`, `shutdown_vm` | an image as long as the address space | word i of the image is at address i |
| Console | `exec.c` (IN) | line buffer, index, length, script handle, flag | refill, commands, delivery | a command line is met again by every IN while it is in the buffer; end of input; script and console in one IN | flag and handle agree; no read past a line |
| Memory | `mem.c` | array of heap pointers, size, capacity | resize, set, get, insert, delete, append, destroy | four cases of resize, stale pointers past the end | every cell has one owner; nothing leaks or is freed twice; it is a vector |
| Stack | `stack.c` | linked list, count | push, pop, peek, destroy | empty pop; a full heap | last in, first out; nothing leaks |
| Debugger | `debug.c` | flags and mutex in shared memory, two pipes | VM process, keyboard process, screen process | interleavings, a mutex held over a blocking write, deaths inside a critical section, an end that one process never hears of | one process at a time is inside a critical section, nothing runs before all processes exist, a quit ends the VM, the terminal is restored |
| Breakpoints | `debug.c` (`execute_debug`) | table, flag | load, compare, step, run, quit | last line without newline | no instruction listed in a complete line runs without a command |
| Disassembly | `logging.c`, `debug.c` (`refresh_windows`) | position | `string_of_cell`, the pane's sweep, `decompile` | operands that are instructions, a sweep past the memory | moves on by the instruction's length, as the interpreter does |
| State dump | `logging.c` | none of its own | `state_dump` | empties and refills the live stack, on a full heap too | leaves the machine as it was |
| Window layout, puzzle programs, tests | `debug.c`, `aux/`, `synacor_tests/` | | | | not modelled: output, or not part of the VM |

The interpreter calls the memory, the stack and the console; the commands
`tele_hack`, `_setreg` and `dump` reach from the console into the machine. The
debugger's VM process calls `exec_step` and shares nothing else with the other
two processes than pipes, three flags and a mutex.

## Modules

| Module | Models |
|---|---|
| `Value` | words, register numbers, `eval`, `Value_bitwise_not`, the product of MULT |
| `Console` | the line buffer of IN and where its lines come from |
| `Exec` | the machine: load, one action per opcode, IN with all its commands, the ends of a run |
| `Disasm` | the two disassemblers as state functions of the machine of `Exec`: where a line starts, where the next one does, where they die |
| `ArchSpec` | the abstract machine: memory of words, registers, stack; what each opcode promises |
| `ExecArch` | the refinement mapping from `Exec` to `ArchSpec` |
| `MCExec` | instances of `ExecArch` and `Disasm` for TLC |
| `Memory`, `AbsVector` | `mem.c` with the heap it points into; the vector `mem.h` promises |
| `Stack`, `AbsStack` | `stack.c` with its heap nodes and the loops of `state_dump`; the sequence they promise |
| `Debugger` | the three processes of `-d`, the pipes between them, breakpoints |
| `MCMemory`, `MCStack`, `MCDebugger` | instances for TLC |
| `ExecProofs`, `ArchProofs`, `DisasmProofs`, `MemoryProofs`, `StackProofs`, `DebuggerProofs` | theorems about the module each is named for; `ArchProofs` is about `ExecArch` |
| `NatLemmas` | facts about numbers that the proofs share |

Definitions marked "A slip" (or "Slips") are variants of the definition that
follows them with a plausible bug. They take part in no specification; each
property is known to fail when one of them is put in the place of the
definition it varies.

How they compose: `Disasm` extends `Exec` and speaks of its states; `ExecArch`,
`Memory` and `Stack` instantiate their abstract specifications. `Exec` uses the
stack as the sequence that `Stack` is shown to implement, and the memory as a
function from addresses. `Debugger` leaves out what an instruction computes:
the next instruction is any of an IN, an OUT, a HALT and the rest, at any
address.

### How `Exec` corresponds to the code

* One call of `exec_step` is one action; it includes the fetch of the next cell
  (`Goto`) and the line in the trace (`Logged`). `pc` is the address of the cell
  that `exec_step` is given.
* The code's program counter is a `size_t` that every step leaves on the last
  cell of its instruction; a jump stores its target minus one, and the `++` of
  the fetch undoes that. `Before` is the subtraction, `Goto(last)` the `++`,
  both wrap at `SIZE_MAX` (`Wrap`), so that a jump to 0 goes round twice.
  `Fetch` takes the cell, or ends the process where there is none.
* An image, a trace or a script that cannot be opened is a `Fault` of `Load` or
  of the `ff` line. A second `ff` opens the script again over an open handle; the
  handle lost is in no variable, the failing open it may lead to is.
* `Succeeds` collects what an instruction must not meet: a NULL from
  `Memory_get`, a word that is neither literal nor register, an operand that
  must be a register and is none, an empty stack, a failed malloc, a zero
  divisor. Otherwise `Fault` ends the process, and the rest of the state is
  dead; what had been written before the fault is not kept.
* A `cell` carries its own address. Loader, WMEM and `tele_hack` write it, CALL
  reads its return address from it. The model keeps that record instead of
  assuming that it equals the index.
* The trace is measured in instructions, not bytes; `MaxLog` stands for
  `MAX_LOG_SIZE`. It is counted in `standalone` mode only, as in the code.
* `Products` is the product of MULT on operands promoted to `int`: where it
  overflows, both the reduced exact product and the negative remainder of the
  wrapped one are possible. `ArchSpec` leaves the result open for those products
  alone and demands the reduced one of every other, wide operands included.
* A `dump` needs room for its second stack, an element beside those of the
  machine's; without it the process dies.
* A console line is the command the code recognises in it and its characters.
  A line stays in the buffer while its characters are delivered, so each IN
  acts on the command again. The buffer left by the end of the input holds
  anything (`garbage`); its length is `(size_t) -1`; its index is not tracked
  because no bound applies to it.
* `ff_script` is the number of the script's next line, 0 when no script is open.
* The second `fclose` of the trace after a quit is undefined behaviour:
  `ExecuteReturn` either returns or ends the process.

### How `Memory` corresponds to the code

The record `memory` holds the struct (array, size, capacity), the heap (live
cells and their content) and `bad`, which becomes true when the code frees
something that is not allocated. An operation's case analysis is kept: shrink,
pad in place, grow into a new array. Slots past the end keep the stale pointers
the code leaves in them. `malloc` returns any address that is not live. An
operation whose assertion fails ends the process (`Abort`).

### How `Stack` corresponds to the code

`heap` maps each live node to its `val` and `next`; `malloc` returns any other
address, the one just freed too. `stk` and `tmp` are the structs of the VM's
stack and of the second one `state_dump` makes. A call of `stack.h` is one
action, and so is an iteration of one of the dump's loops (`DumpOut`,
`DumpBack`). `IsChain` says that following `next` from a head meets the nodes of
a sequence and stops at NULL, as the loops of `Stack_peek` and `Stack_destroy`
do; where the list were broken they would not stop, and no such sequence
exists. `tmp_at` is where `state_dump` has put the second stack's struct:
`Stack_create` does not look at what its `malloc` returns (stack.c:7), so a dump
on a full heap dies before its first pop. `Room` is where `malloc` may put a
node or that struct, both counted as one cell. `Abort` is the failing of every
assertion in every place: a push without room, a pop from an empty stack, a peek
past the end, each of the two calls in an iteration of the dump's loops
(`MoveFails`), the test at the dump's end, and the death at its start. `fdump`, which prints the memory after the same dump,
changes nothing else.

### How `Disasm` corresponds to the code

`Arguments` is the chain of comparisons in `string_of_cell`, `ListedCells` the
separate one in `decompile`; both are compared with the steps of `exec_step`,
which decodes a third time. `Decodes` and `Listable` say when they come through
without a NULL cell. `Pane` follows the sweep of `refresh_windows`, which starts
eight cells (`PaneBack`) before `pc` wherever instructions start.

### How `Debugger` corresponds to the code

* Each process has a control variable. A point whose name ends in "ing" is
  between `pthread_mutex_lock` and the unlock; a lock and an unlock with the
  body before it are separate actions, and so are the two `close` calls at the
  end of the VM's process. Two drawings are outside any section in the code: the
  refresh that `getch` implies (debug.c:373) and `endwin` (debug.c:418). So
  `OneInside` is about the sections, not about every drawing.
* `in_pipe` holds the keys, `out_pipe` only counts bytes: OUT writes the two
  bytes of its word with one `dprintf`. A writer waits for room. The end of a
  pipe and SIGPIPE follow from which processes still hold the other end.
* `break_wait` is `BreakMode`, `WaitKey`, `WaitEof` and `Clear`; the windows are
  drawn before and after it and before an IN (`refresh`). A step leaves the mode
  up, `r` and `q` lower it. At the end of the pipe the returned value was never
  set (`"unset"`), so `Decide` takes it for any of the three.
* The table of breakpoints has as many entries as the file has newlines, but
  every line is written into it: with a last line that has none, a word is
  written past it, and the process survives that or not (`Load`).
* The VM may die at every instruction and in every drawing of the windows, the
  latter with the mutex held; an IN may die before it reads its line, and after
  it. The keyboard process dies of SIGPIPE, with the mutex held too.

## Model checking

| Run | Instance | What it shows |
|---|---|---|
| `instr` | about 21000 initial states: every opcode with boundary operands (registers, literals in and out of the program, invalid words), truncated programs, words wider than a literal, nested and unbalanced calls, programs that write into themselves | types, `AddrIsIndex`, `MathIsModular`, `CallSavesNext`; `ImplementsArch`: every step is a step of the abstract machine or a stutter, jumps to 0 and past the memory among them; `DecodersAgree`, `ListingFollows`: the disassemblers move on as the machine does; `PaneInMemory`: the pane dies only near the end of the memory |
| `input` | 8 programs that read, every command typed at every refill, a script of two lines, both modes | `AddrIsIndex` under `tele_hack`, `FFConsistent`, `UnreadInBuffer`, `TracedRunStops` |
| `memory` | five cells, two contents, capacity 1, sizes below 5 | types, `Owned`, `DestroyFreesAll`, and `ImplementsVector` |
| `stack` | four nodes, two words | types, `NodesOwned`, `DestroyFreesAll`, `DumpNeverAborts`, and `ImplementsStack` |
| `debugger` | three break files, two addresses, four keys, pipes of one key and two bytes | mutual exclusion (`OneInside`, `MutexReturned`), the order of start and end (`SetupGate`, `ScreenOutlivesVm`), breakpoints (`StopsAtBreakpoint`, `PausedMode`), and as liveness `MutexFreed`, `StartsOnceSetUp`, `ScreenEnds`, `QuitEndsVm` |
| `ret_empty` | as `instr` | arch-spec:73 does not hold: RET on an empty stack aborts |
| `quit_close` | two lines, one of them `quit` | README.md:17 does not hold: the trace is closed twice |
| `quit_debugger` | as `debugger` | README.md:45 does not hold: the keyboard process survives a `q` |
| `paused_input` | as `debugger` | debug.c:27 does not hold: an IN reads the game's keys under [PAUSED] |
| `lost_breakpoint` | as `debugger` | README.md:35 does not hold: a breakpoint in a last line without a newline is passed over (`EveryLineBreaks`) |
| `full_pipe` | as `debugger` | README.md:45 does not hold: a keyboard process blocked on a full pipe, with the mutex, keeps a VM that has read `q` from ending (`QuitAlwaysEndsVm`) |
| `lost_output` | as `debugger`, room for two OUTs | arch-spec:75 does not hold: output is left in the pipe |

Bounds. Words have six bits: `Modulus` 32 (the real one is 32768) is the
smallest power of two above the greatest opcode, and there are two registers
instead of eight, so that invalid words exist. `ByteMod` 8 keeps a word at two
bytes. Programs have at most 24 words. `MAX_SIZE` 24 puts the boundary of the
address space among them: the 24-word image is refused, the 23-word one loads.
`SIZE_MAX` 99 is far above every address, as `ConsoleAssumption` asks. `MaxStack`
2 lets pushes, calls and dumps run out of heap, `MaxLog` 8 ends loops and is
long enough to consume a line, a `_setreg` and a script line. `PaneBack` 1
(really 8) makes the sweep run past the end of these programs. The memory's five
addresses are one more than its greatest size, so a free address always exists;
capacity 1 passes through both ways of growing twice. The stack's four nodes let
a dump turn a list of one, two and three elements round, the last one with no
free address but the one just freed, and die at its start on a list of four. Addresses and nodes are
interchangeable, hence the symmetry sets (the properties checked under symmetry
are safety properties).

In the debugger one key and one OUT fill a pipe, so each write can block, and
a line of two characters fills IN's buffer. Of the keys, `r`, `s` and `q` are
break_wait's commands and `nl` ends a line; each serves as an ordinary
character to the other reader. NUL, which ends the keyboard process, is a choice
of its own in `Getch`. `WordMod` 8 cuts the line `9` of the first file to the
address 1, as `value_t` cuts 65537; the second file ends without a newline; the
third is missing.

The commands `_setreg` and `tele_hack` write into the machine, which no
architecture allows, so `ImplementsArch` is checked with lines that hold neither:
text, `dump`, `ff`, `quit` and the other lines that start with `_`.

Deadlock is checked in the runs of machine, memory and stack, where a stopped
process is the action `Terminated`. It is not checked in those of the debugger:
the three processes really may all have ended, or wait for each other for ever
around a full pipe or a mutex that died with its holder. Which of these ends is
possible is what `MutexFreed` and `ScreenEnds` state. One more is a child that
spins on `setup` for ever because the second fork failed: the parent has ended,
nobody raises the flag, and `StartsOnceSetUp` starts from the flag.

Fairness. `Exec`'s `FairSpec` asks for weak fairness of a step while the process
is not blocked on the user. That is what the operating system gives a process
with no peers; nothing is assumed of the user, who may never type.
`TracedRunStops` then says that a traced run ends or waits for the user for
ever; in the debugger's child, which has no trace, the property claims nothing,
and a program that polls a line starting with `_` does run for ever there.

`Debugger`'s `FairSpec` asks for weak fairness of each process's own steps (the
scheduler runs a process that can run) and for strong fairness of taking the
mutex: the VM's process takes and frees it over and over while it waits for
`setup`, so a mutex without that guarantee could starve the other two for ever.
Neither `getch` nor the choice between success and failure of a fork, or
between life and death of the VM, is fair.

The liveness properties of the debugger carry the exception `<>[]Lost`. It is
not an excuse found by trial: `Lost` names the three states in which nobody will
unlock the mutex (the keyboard process killed inside its section, or blocked
there on a full pipe for ever; the VM's process dead inside `refresh_windows`),
and `MutexFreed` says there is no fourth. What it excuses is shown by `full_pipe`,
which checks `QuitEndsVm` without it and fails.

## Proofs

The proof modules are checked by TLAPS for all values of the constants under the
assumptions `WidthAssumption`, `BitAssumption`, `ConsoleAssumption`,
`ExecAssumption`, `DisasmAssumption`, `MemoryAssumption`, `StackAssumption` and
`DebuggerAssumption` (which TLC evaluates on its instances). Every invariant,
step property and refinement of the passing runs is a theorem. The liveness
properties are not; of two of the five, `TracedRunStops` and `MutexFreed`, the
safety half is proved: what each single step does towards the end.

* `ExecProofs`: `TypeCorrect`, `BufferBound` (`UnreadInBuffer`),
  `AddressesHold` (`AddrIsIndex`),
  `ScriptConsistent` (`FFConsistent`) and the step properties
  `CallsReturn` (`CallSavesNext`) and `MathStaysModular`
  (`MathIsModular`). The inductive invariant is
  `TypeOK /\ UnreadInBuffer /\ RunningInMemory /\ LoadsAtZero`. The buffer's
  bound is part of it because the type of a delivered character needs the index
  to lie inside the line; `RunningInMemory`, that the fetched cell exists, because an instruction word must
  be a word of a cell. That the wrapping counter leads where it should is
  `JumpArrives` (a jump reaches its target, the target 0 too) and `MovesOn` (the
  other instructions reach the cell after their last operand); the refinement and
  the disassemblers' theorems rest on these two. `AddrIsIndex` is inductive next to it, and
  `CallSavesNext` follows from it: the pushed address is read from a cell.
  `FFConsistent` is inductive too, by way of the buffer a refill returns.
  `TracedRunShrinks` is the safety half of `TracedRunStops`: every step of a
  traced run makes `StepsLeft` smaller, a number, so no such run is endless; the
  step the limit needs is that an instruction is traced or ends the loop.
* `ArchProofs`: `OnlyCommandsWrite` says, with no hypothesis, that every step of
  the interpreter is one of the abstract machine, a stutter, or an IN on a
  `_setreg` or a `tele_hack`, which write into the machine. Its invariant
  `ArchInv` adds to the ones above that there are cells from the loader on, and
  that the trace is open wherever a run may die, a quit apart. `ExecImplements`,
  the refinement `ImplementsArch`, follows for all `Lines` and `Script` that
  satisfy `PlainLines` (neither has one of the two commands), because then the
  buffer always holds a plain line.
  `SameOperands` and `SameInstruction` carry an instruction over to the words of
  the architecture; `StoreAssigns` does so for all that write one register, and
  what is left of each is its arithmetic: quotients for ADD, MULT and MOD
  (`Divided`, `QuotientBound`), the inverse for NOT, the low byte for OUT, and
  `BranchArrives` for the jumps, `AddrIsIndex` for the address that CALL takes from
  a cell. The mapping had to
  learn one thing from the attempt: after a quit whose second `fclose` kills the
  process the machine still stands at its IN (`HasQuit`).
* `DisasmProofs`: `DecodersTogether` (`DecodersAgree`), action by action: the
  length of every instruction that does not jump is the one `string_of_cell`
  takes. The machine has one opcode per action, the disassembler a chain of
  comparisons; the proof is where the two tables meet. `ListingIsFollowed`
  (`ListingFollows`) then says that the next cell is one of `Listing`, which
  unchanged cells leave the same, and `PaneStaysInMemory` (`PaneInMemory`) that k
  lines of the pane reach at most 4k cells from its start.
* `MemoryProofs`: `TypeCorrect`, `CellsOwned` (`Owned`) and `DestroyComplete`
  (`DestroyFreesAll`). The invariant says that a live memory is `Good`: of the
  right shape, nothing wrongly freed, each slot NULL or the one owner of a live
  cell, each live cell owned. It does not hold in the middle of an operation, so
  the lemmas follow the code's statements with `GoodBut(m, i)`: good except for
  the pointer in slot `i`. Freeing one entry or shifting up makes a good struct
  good but for `i`; storing into `i` or shifting down over it makes it good
  again; the cases of `Memory_resize` have lemmas of their own. The refinement
  `MemoryImplements` (`ImplementsVector`) follows the same statements with what a
  caller sees of the struct, `Shown`: the cases of a resize show the same vector,
  cut or padded with NULL, a shift shows it moved by one, and the one owner of
  each cell is why freeing or storing one entry shows in no other.
* `StackProofs`: `TypeCorrect`, `NodesAreOwned` (`NodesOwned`),
  `DestroyLeavesNothing` (`DestroyFreesAll`), `DumpIsSafe` (`DumpNeverAborts`)
  and the refinement `StackImplements` (`ImplementsStack`). The inductive
  invariant `StackInv` says that the heap is two lists (`TwoLists`: two
  sequences of nodes, disjoint, together the whole heap, as long as the counts)
  and how the counts follow from the place in the dump (`Counts`). A heap with
  two lists stays one under a push or a pop on either (`PushTwo`, `PopTwo`), and
  an iteration of the dump is one of each. `DumpNeverAborts` speaks of a dump that
  has got its second stack: from there on no disjunct of `Abort` can be taken,
  because the pop of an iteration leaves the room its push needs, and the counts
  say how many there are to pop. Its start may die, and the theorem says so. That a head has only one list
  (`ChainUnique`) goes along the positions, by the least one where two lists
  differ. For the refinement, what the caller sees during a dump is the second
  stack upwards and then the first one downwards; moving a head from one to the
  other does not change that (`ReversedShift`), so the dump's steps are stutters.
* `DebuggerProofs`: `TypeCorrect`, `MutualExclusion` (`OneInside`),
  `MutexGivenBack` (`MutexReturned`), `ExecutionGated` (`SetupGate`),
  `ScreenLast` (`ScreenOutlivesVm`), `PausesHonestly` (`PausedMode`) and
  `BreakpointsStop` (`StopsAtBreakpoint`). Mutual exclusion has its own
  invariant, that each process holds the mutex exactly at its section's points;
  it needs that no keyboard process exists before the second fork, which lets it
  start outside. The gate adds that the flag is raised only after the second
  fork; the paused mode adds which commands may stand at which point of the loop.
  `BreakpointsStop` is for files of complete lines, as `StopsAtBreakpoint` says;
  of the others `lost_breakpoint` shows the contrary.
  `DeathKeepsMutex` and `SectionsAreShort` are the safety half of `MutexFreed`: a
  holder that died keeps the mutex for good, and of a living one every step is the
  unlock, but the write of the key before it.
* `NatLemmas` holds what stands in for induction: a nonempty set of numbers has
  a least element (`LeastElement`), a set that holds 0 and every successor holds
  all numbers (`AllNumbers`), and a step iterated from an initial value is a
  function on the numbers (`Iterates`). The latter two are how the recursive
  functions `Pane` and `Listing` are shown to exist and to obey their equations.

Only model-checked: liveness (`TracedRunStops`, `MutexFreed`,
`StartsOnceSetUp`, `ScreenEnds`, `QuitEndsVm`; of the first two what is left to TLC is that a step which can be
taken is), because fairness and ENABLED are beyond the prover, and the seven
properties that fail. `BitAnd` and `BitOr` are parameters of the proofs, of which
`BitAssumption` says only that they stay within words and literals; TLC's
instances take the library's. No module of this project declares a RECURSIVE
operator (`MCExec` instantiates the library's `Bitwise`, which does).

## Disagreements between code and documents

The seven failing runs above. `full_pipe` and `quit_debugger` are two ways in which
the same sentence fails. Others, met while reading:

* OUT writes two bytes, the second of them NUL for a character (arch-spec:75
  says one character).
* A line that starts with `_` and is no command is never consumed
  (arch-spec:77); the comment of exec.c:401 announces a new read but the next IN
  delivers the newline left in the buffer.
* `Memory_get` fails an assertion on a NULL entry (mem.c:115); mem.h:65 promises
  that it returns NULL.
* A WMEM to a 15-bit address past the program's last word fails an assertion
  (mem.c:94), because the memory is as long as the program; arch-spec:10 gives it
  a 15-bit address space.
* A MULT of two words wider than fifteen bits may overflow an `int`, where
  arch-spec:14 asks for the product modulo 32768.
* An image of `MAX_SIZE` words is refused although mem.c:9 derives that size from
  the address space.
* The comment at logging.c:12 says that `string_of_cell` leaves the position on
  the cell after the last argument; it leaves it on the last argument, and both
  callers add one.
* The debugger's pane starts eight cells, not eight instructions, before `pc`
  (debug.c:148). Between instructions it shows operands as instructions, and its
  line for `pc` may be skipped, so that nothing is highlighted.
* Without a breakpoints file the VM's process does not run without breakpoints:
  it dies, and the screen process ends with the pipe.
* The keyboard process writes the first byte of an `int`, so a function key
  arrives as some character.

## Not modelled

The fast-forward script and lines that start with `_` are modelled in `Console`
and left out of the debugger's IN, which knows `q` and ordinary lines; `quit`,
`q` and `exit` are one command there. What `atoi` makes of a number beyond `int`
in the breakpoints file is undefined and not considered; numbers beyond a
`value_t` are. A `getch` that fails returns -1 and sends the byte 255 again and
again; the model's user only types. `shutdown_vm` frees a few structs besides
memory and stack, which are not followed.

Left out for good: the ncurses layout, the text of trace, dumps and
disassembly, the bit helpers of `value.c` that nothing calls, the two puzzle
programs and the unit tests (read as statements of contracts). `_setreg` with a
register number outside the VM writes into the C heap, and no state of the
models describes that.

## Plan

1. Done: `Value`, `Console`, `Exec`, `ArchSpec`, `ExecArch`, `Memory`,
   `AbsVector`; theorems on `Exec` and `Memory`.
2. Done: `Debugger`, `Stack`, `AbsStack`, `Disasm`; theorems on each, the
   refinement of the stack among them.
3. Done: every step of `Exec` implements `ArchSpec`; every operation of `Memory`
   implements `AbsVector`; `ListingFollows` and `PaneInMemory`; the return of the
   mutex.
4. Composition left: `Exec` on `Memory` (WMEM as `Memory_set`, the loader as
   appends), which `ImplementsVector` and `ImplementsArch` now give separately.

------------------------------- MODULE Disasm -------------------------------
(***************************************************************************)
(* The disassembler (src/src/logging.c) has decoders of its own beside     *)
(* exec_step: string_of_cell, which the debugger's pane sweeps over the    *)
(* memory around pc (refresh_windows), and decompile, which lists the      *)
(* whole memory.  Only their positions are modelled, not their text.       *)
(***************************************************************************)
EXTENDS Exec

CONSTANT PaneBack \* 8: how many cells before pc the pane starts

ASSUME DisasmAssumption == PaneBack \in Nat \ {0}

\* A slip: NOT takes a third operand
ArgumentsNot3(op) ==
  CASE op \in {1, 7, 8, 15, 16}             -> 2
    [] op \in {2, 3, 6, 17, 19, 20}         -> 1
    [] op \in {4, 5} \cup 9 .. 14           -> 3
    [] OTHER                                -> 0

\* How many operands string_of_cell takes; a word that is no opcode has none
Arguments(op) ==
  CASE op \in {1, 7, 8, 14, 15, 16}         -> 2
    [] op \in {2, 3, 6, 17, 19, 20}         -> 1
    [] op \in {4, 5} \cup 9 .. 13           -> 3
    [] OTHER                                -> 0

\* string_of_cell gets through: the cell and all its operands are there.  It
\* leaves the position on the last operand; the caller steps on to the next.
Decodes(a) == Present(a) /\ \A k \in 1 .. Arguments(mem[a].value) : Present(a + k)
After(a)   == a + 1 + Arguments(mem[a].value)

-----------------------------------------------------------------------------
(* The pane *)

\* A slip: the start may lie before the memory
PaneStartBefore == pc - PaneBack

\* The sweep starts PaneBack cells before pc, or at 0, wherever instructions
\* start, and shows PaneBack lines after the cells before pc
PaneStart == IF pc < PaneBack THEN 0 ELSE pc - PaneBack
PaneLines == PaneBack + (IF pc < PaneBack THEN pc ELSE PaneBack)

\* The address of each line; -1 once the sweep has died
Pane ==
  LET line[k \in 0 .. PaneLines - 1] ==
        IF k = 0 THEN PaneStart
        ELSE LET a == line[k - 1] IN IF Decodes(a) THEN After(a) ELSE -1
  IN  line

PaneSurvives == \A k \in DOMAIN Pane : Decodes(Pane[k])

-----------------------------------------------------------------------------
(* The listing *)

\* A slip: the loop's own step is missing
ListedStay(op) ==
  CASE op \in {4, 5} \cup 9 .. 13           -> 3
    [] op \in {1, 7, 8} \cup 14 .. 16       -> 2
    [] op \in {2, 3, 6, 17, 19, 20}         -> 1
    [] OTHER                                -> 0

\* decompile has a chain of its own: the cells a line takes, opcode and operands
ListedCells(op) ==
  CASE op \in {4, 5} \cup 9 .. 13           -> 4
    [] op \in {1, 7, 8} \cup 14 .. 16       -> 3
    [] op \in {2, 3, 6, 17, 19, 20}         -> 2
    [] OTHER                                -> 1

\* It gets through: the cells are there; of an RMEM it evaluates the address, too
Listable(a) ==
  /\ Present(a)
  /\ \A k \in 1 .. ListedCells(mem[a].value) - 1 : Present(a + k)
  /\ mem[a].value = 15 => Evaluates(mem[a + 2].value)

\* The addresses decompile comes to, from 0 on, until the end or its death
Listing ==
  LET line[k \in Nat] ==
        IF k = 0 THEN 0
        ELSE LET a == line[k - 1] IN IF Listable(a) THEN a + ListedCells(mem[a].value) ELSE a
  IN  {line[k] : k \in DOMAIN mem}

-----------------------------------------------------------------------------
(* Properties *)

\* The instruction did not jump
FallsThrough ==
  /\ Executing /\ status' = "running"
  /\ inst \notin {6, 17, 18} /\ ~(inst \in {7, 8} /\ Taken)

\* exec_step and string_of_cell keep the lengths of the instructions apart: an
\* instruction that does not jump leads to the cell the pane shows next.
DecodersAgree == [][FallsThrough => pc' = After(pc)]_vars

\* README.md:35: the addresses for breakpoints are taken from the listing.  From
\* a line of the listing, execution without jumps comes to its lines only.
ListingFollows ==
  [][FallsThrough /\ mem' = mem /\ pc \in Listing => pc' \in Listing]_vars

\* refresh_windows dies at the end of the memory (debug.c:155) but never while
\* the 7 * PaneBack cells from pc on are there: as many as 3-operand lines take.
PaneInMemory == status = "running" /\ Present(pc + 7 * PaneBack - 1) => PaneSurvives
=============================================================================

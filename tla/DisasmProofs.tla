---------------------------- MODULE DisasmProofs ----------------------------
(***************************************************************************)
(* Theorems about the disassembler beside the interpreter, for every       *)
(* width, program, script and set of lines.                                *)
(***************************************************************************)
EXTENDS Disasm, ExecProofs, NatLemmas

\* The instructions, by the number of their operands
NoOperands == Noop \/ Skip
OneOperand == Push \/ Pop \/ Out \/ In
TwoOperands == Set \/ Not \/ Rmem \/ Wmem \/ Tjump \/ Fjump
ThreeOperands == Eq \/ Gt \/ Add \/ Mult \/ Mod \/ And \/ Or

LEMMA FallsThroughCases ==
  ASSUME FallsThrough, [Next]_vars, ~UNCHANGED vars
  PROVE  NoOperands \/ OneOperand \/ TwoOperands \/ ThreeOperands
<1>1. Step
  BY DEF Next, Terminated
<1>2. ~Load /\ ~ExecuteReturn /\ ~LogLimit /\ ~Fault /\ ~Halt
  BY DEF FallsThrough, Executing, Load, ExecuteReturn, Ended, LogLimit, Fault, Halt, End
<1>3. ~Jmp /\ ~Call /\ ~Ret
  BY DEF FallsThrough, Jmp, Jump, Call, Ret, Instr
<1> QED
  BY <1>1, <1>2, <1>3 DEF Step, NoOperands, OneOperand, TwoOperands, ThreeOperands

\* An instruction that falls through steps over as many cells as string_of_cell
\* takes for its line.
LEMMA SameLength ==
  ASSUME IInv, FallsThrough, [Next]_vars, ~UNCHANGED vars
  PROVE  pc' = After(pc)
<1>1. pc \in Nat
  BY DEF IInv, TypeOK
<1>2. inst \notin {6, 17, 18} /\ ~(inst \in {7, 8} /\ Taken) /\ status' = "running"
  BY DEF FallsThrough
<1>3. /\ Goto(pc) => pc' = pc + 1
      /\ Goto(pc + 1) => pc' = pc + 2
      /\ Goto(pc + 2) => pc' = pc + 3
      /\ Goto(pc + 3) => pc' = pc + 4
  <2>1. status = "running"
    BY DEF FallsThrough, Executing
  <2> QED BY <2>1, MovesOn DEF Fetch
<1>4. CASE NoOperands
  <2>1. pc' = pc + 1 /\ (inst = 21 \/ inst > 21)
    BY <1>3, <1>4 DEF NoOperands, Noop, Skip, Jump, Instr
  <2>2. Arguments(inst) = 0
    BY <2>1 DEF Arguments
  <2> QED BY <1>1, <2>1, <2>2 DEF After, inst
<1>5. CASE OneOperand
  <2>1. pc' = pc + 2 /\ inst \in {2, 3, 19, 20}
    <3>1. CASE Push \/ Pop \/ Out
      BY <1>3, <3>1 DEF Push, Pop, Out, Instr
    <3>2. CASE In
      <4>1. PICK r \in Buffers(mode) : InChar(r) \/ InSetreg(r) \/ InIgnored(r)
        BY <3>2, <1>2 DEF In, InQuit, InFault
      <4> QED BY <1>3, <3>2, <4>1 DEF In, InExec, InChar, InSetreg, InIgnored
    <3> QED BY <1>5, <3>1, <3>2 DEF OneOperand
  <2>2. Arguments(inst) = 1
    BY <2>1 DEF Arguments
  <2> QED BY <1>1, <2>1, <2>2 DEF After, inst
<1>6. CASE TwoOperands
  <2>1. pc' = pc + 3 /\ inst \in {1, 7, 8, 14, 15, 16}
    <3>1. CASE Set \/ Not \/ Rmem
      BY <1>3, <3>1 DEF Set, Not, Rmem, Assign, Instr
    <3>2. CASE Wmem
      BY <1>3, <3>2 DEF Wmem, Instr
    <3>3. CASE Tjump \/ Fjump
      BY <1>3, <1>2, <3>3 DEF Tjump, Fjump, Jump, Instr
    <3> QED BY <1>6, <3>1, <3>2, <3>3 DEF TwoOperands
  <2>2. Arguments(inst) = 2
    BY <2>1 DEF Arguments
  <2> QED BY <1>1, <2>1, <2>2 DEF After, inst
<1>7. CASE ThreeOperands
  <2>1. pc' = pc + 4 /\ inst \in {4, 5, 9, 10, 11, 12, 13}
    BY <1>3, <1>7 DEF ThreeOperands, Eq, Gt, Add, Mult, Mod, And, Or, Assign, Instr
  <2>2. Arguments(inst) = 3
    BY <2>1 DEF Arguments
  <2> QED BY <1>1, <2>1, <2>2 DEF After, inst
<1> QED BY <1>4, <1>5, <1>6, <1>7, FallsThroughCases

\* exec_step and string_of_cell decode every instruction of every program to the
\* same length, self-modifying ones and words that are no opcode included.
THEOREM DecodersTogether == Spec => DecodersAgree
<1>1. IInv /\ [Next]_vars => [FallsThrough => pc' = After(pc)]_vars
  BY SameLength
<1> QED BY <1>1, Inductive, PTL DEF Spec, DecodersAgree
-----------------------------------------------------------------------------
(* The sweep of the pane *)

\* Where the sweep goes on from a, and the recursion of Pane as a condition on
\* the function g it defines.
PaneNext(a)  == IF Decodes(a) THEN After(a) ELSE -1
IsPane(g)    == g = [k \in 0 .. PaneLines - 1 |->
                       IF k = 0 THEN PaneStart ELSE PaneNext(g[k - 1])]

LEMMA LineLength ==
  \A op : Arguments(op) \in 0 .. 3
BY DEF Arguments

\* The recursion defines a function.
LEMMA PaneExists ==
  ASSUME TypeOK
  PROVE  IsPane(Pane)
<1>1. PaneStart \in Int /\ PaneLines \in Nat
  BY DisasmAssumption DEF DisasmAssumption, TypeOK, PaneStart, PaneLines
<1> DEFINE step == [a \in Int |-> PaneNext(a)]
<1>2. step \in [Int -> Int]
  BY LineLength DEF PaneNext, After
<1>3. PICK f \in [Nat -> Int] : f[0] = PaneStart /\ \A k \in Nat : f[k + 1] = step[f[k]]
  <2> HIDE DEF step
  <2>1. PICK f : IsRun(f, step, PaneStart)
    BY <1>1, <1>2, Iterates
  <2> QED BY <1>2, <2>1 DEF IsRun
<1> DEFINE g == [k \in 0 .. PaneLines - 1 |-> f[k]]
<1>4. ASSUME NEW k \in 0 .. PaneLines - 1
      PROVE  g[k] = IF k = 0 THEN PaneStart ELSE PaneNext(g[k - 1])
  <2>1. CASE k = 0
    BY <1>3, <2>1
  <2>2. CASE k # 0
    <3>1. k - 1 \in Nat /\ k - 1 \in 0 .. PaneLines - 1 /\ (k - 1) + 1 = k
      BY <1>1, <2>2
    <3>2. f[k] = step[f[k - 1]] /\ f[k - 1] \in Int
      BY <1>3, <3>1
    <3>3. step[f[k - 1]] = PaneNext(f[k - 1])
      BY <3>2
    <3> QED BY <2>2, <3>1, <3>2, <3>3
  <2> QED BY <2>1, <2>2
<1>5. \E p : IsPane(p)
  <2>1. IsPane(g)
    BY <1>4 DEF IsPane
  <2> QED BY <2>1
<1>6. Pane = CHOOSE p : IsPane(p)
  BY DEF Pane, IsPane, PaneNext
<1> QED BY <1>5, <1>6

\* Each line is at most four cells after the one before it.
LEMMA PaneDecodes ==
  ASSUME TypeOK, Present(pc + 7 * PaneBack - 1)
  PROVE  PaneSurvives
<1>1. PICK n \in 0 .. MAX_SIZE - 1 : mem \in [0 .. n - 1 -> Cell]
  BY DEF TypeOK, MemTypeOK
<1>2. /\ n \in Nat /\ PaneBack \in Nat /\ PaneBack > 0 /\ pc \in Nat
      /\ pc + 7 * PaneBack - 1 < n
  BY <1>1, ExecAssumption, DisasmAssumption
     DEF DisasmAssumption, ExecAssumption, TypeOK, Present
<1>3. /\ PaneStart \in Nat /\ PaneLines \in Nat
      /\ PaneStart + 4 * PaneLines <= n
  BY <1>2 DEF PaneStart, PaneLines
<1>4. ASSUME NEW a \in Nat, a + 3 < n PROVE Decodes(a)
  <2>1. \A k \in 1 .. 3 : a + k \in 0 .. n - 1
    BY <1>2, <1>4
  <2>2. a \in 0 .. n - 1
    BY <1>2, <1>4
  <2>3. Arguments(mem[a].value) \in 0 .. 3
    BY LineLength
  <2> QED BY <1>1, <2>1, <2>2, <2>3 DEF Decodes, Present
<1>5. \A k \in 0 .. PaneLines - 1 :
        Pane[k] = IF k = 0 THEN PaneStart ELSE PaneNext(Pane[k - 1])
  BY PaneExists DEF IsPane
<1> DEFINE Near == {k \in Nat : k < PaneLines =>
                      Pane[k] \in Nat /\ Pane[k] <= PaneStart + 4 * k}
<1>6. 0 \in Near
  BY <1>3, <1>5
<1>7. ASSUME NEW k \in Nat, k \in Near PROVE k + 1 \in Near
  <2> SUFFICES ASSUME k + 1 < PaneLines
               PROVE  Pane[k + 1] \in Nat /\ Pane[k + 1] <= PaneStart + 4 * (k + 1)
    OBVIOUS
  <2> DEFINE a == Pane[k]
  <2>1. a \in Nat /\ a <= PaneStart + 4 * k
    BY <1>3, <1>7
  <2>2. Pane[k + 1] = PaneNext(a)
    <3>1. k + 1 \in 0 .. PaneLines - 1 /\ k + 1 # 0 /\ (k + 1) - 1 = k
      BY <1>3
    <3> QED BY <1>5, <3>1
  <2> HIDE DEF a
  <2>3. a + 3 < n
    BY <1>2, <1>3, <2>1
  <2>4. PaneNext(a) = a + 1 + Arguments(mem[a].value)
    BY <1>4, <2>1, <2>3 DEF PaneNext, After
  <2>5. Arguments(mem[a].value) \in 0 .. 3
    BY LineLength
  <2> QED BY <1>3, <2>1, <2>2, <2>4, <2>5
<1>8. Nat \subseteq Near
  <2> HIDE DEF Near
  <2> QED BY <1>6, <1>7, AllNumbers
<1>9. ASSUME NEW k \in 0 .. PaneLines - 1 PROVE Decodes(Pane[k])
  <2>1. Pane[k] \in Nat /\ Pane[k] <= PaneStart + 4 * k
    BY <1>3, <1>8
  <2>2. Pane[k] + 3 < n
    BY <1>2, <1>3, <2>1
  <2> QED BY <1>4, <2>1, <2>2
<1>10. DOMAIN Pane = 0 .. PaneLines - 1
  BY PaneExists DEF IsPane
<1> QED BY <1>9, <1>10 DEF PaneSurvives

\* The pane's sweep, wherever between two instructions it starts, stays in the
\* memory while 7 * PaneBack cells from pc on are there (refresh_windows).
THEOREM PaneStaysInMemory == Spec => []PaneInMemory
<1>1. TypeOK => PaneInMemory
  BY PaneDecodes DEF PaneInMemory
<1> QED BY <1>1, TypeCorrect, PTL
-----------------------------------------------------------------------------
(* The listing *)

\* Where decompile goes on from a, its recursion, and the lines it has from 0 on.
ListNext(a)   == IF Listable(a) THEN a + ListedCells(mem[a].value) ELSE a
IsListing(g)  == g = [k \in Nat |-> IF k = 0 THEN 0 ELSE ListNext(g[k - 1])]
Listed        == CHOOSE g : IsListing(g)

\* decompile and string_of_cell agree on the cells of a line.
LEMMA SameCells ==
  ASSUME NEW op \in Int
  PROVE  ListedCells(op) = 1 + Arguments(op)
<1>1. CASE op \in {1, 7, 8, 14, 15, 16}
  BY <1>1 DEF ListedCells, Arguments
<1>2. CASE op \in {2, 3, 6, 17, 19, 20}
  BY <1>2 DEF ListedCells, Arguments
<1>3. CASE op \in {4, 5} \cup 9 .. 13
  BY <1>3 DEF ListedCells, Arguments
<1>4. CASE op \notin {1, 7, 8, 14, 15, 16} \cup {2, 3, 6, 17, 19, 20} \cup {4, 5} \cup 9 .. 13
  <2>1. op \notin 14 .. 16
    BY <1>4
  <2> QED BY <1>4, <2>1 DEF ListedCells, Arguments
<1> QED BY <1>1, <1>2, <1>3, <1>4

\* What is listed lies in the memory and its cells are words.
LEMMA ListableCell ==
  ASSUME TypeOK, NEW a, Listable(a)
  PROVE  /\ a \in Nat /\ mem[a].value \in Int
         /\ ListedCells(mem[a].value) \in 1 .. 4
<1>1. a \in DOMAIN mem
  BY DEF Listable, Present
<1>2. a \in Nat /\ mem[a].value \in Word
  BY <1>1 DEF TypeOK, MemTypeOK, Cell
<1>3. mem[a].value \in Int
  BY <1>2, WidthAssumption DEF Word, WidthAssumption
<1> QED BY <1>2, <1>3, SameCells, LineLength

\* The recursion defines a function.
LEMMA ListingExists ==
  ASSUME TypeOK
  PROVE  /\ Listed[0] = 0 /\ \A k \in Nat : Listed[k + 1] = ListNext(Listed[k])
         /\ Listing = {Listed[k] : k \in DOMAIN mem}
<1> DEFINE step == [a \in Int |-> ListNext(a)]
<1>1. step \in [Int -> Int]
  BY ListableCell DEF ListNext
<1>2. PICK f \in [Nat -> Int] : f[0] = 0 /\ \A k \in Nat : f[k + 1] = step[f[k]]
  <2> HIDE DEF step
  <2>1. PICK f : IsRun(f, step, 0)
    BY <1>1, Iterates
  <2> QED BY <1>1, <2>1 DEF IsRun
<1>3. ASSUME NEW k \in Nat
      PROVE  f[k] = IF k = 0 THEN 0 ELSE ListNext(f[k - 1])
  <2>1. CASE k # 0
    <3>1. k - 1 \in Nat /\ (k - 1) + 1 = k
      BY <2>1
    <3>2. f[k] = step[f[k - 1]] /\ f[k - 1] \in Int
      BY <1>2, <3>1
    <3> QED BY <2>1, <3>2
  <2> QED BY <1>2, <2>1
<1>4. IsListing(f)
  BY <1>3 DEF IsListing
<1>5. IsListing(Listed)
  BY <1>4, Zenon DEF Listed
<1>6. Listed[0] = 0
  BY <1>5 DEF IsListing
<1>7. ASSUME NEW k \in Nat PROVE Listed[k + 1] = ListNext(Listed[k])
  <2>1. k + 1 \in Nat /\ k + 1 # 0 /\ (k + 1) - 1 = k
    OBVIOUS
  <2> QED BY <1>5, <2>1 DEF IsListing
<1>8. Listing = {Listed[k] : k \in DOMAIN mem}
  BY Zenon DEF Listing, Listed, IsListing, ListNext
<1> QED BY <1>6, <1>7, <1>8

\* As long as it gets through, decompile is at least at k after k lines.
LEMMA ListingAdvances ==
  ASSUME TypeOK, NEW k \in Nat, Listable(Listed[k])
  PROVE  Listed[k] \in Nat /\ k <= Listed[k]
<1> DEFINE Ahead == {j \in Nat : Listable(Listed[j]) => j <= Listed[j]}
<1>1. 0 \in Ahead
  BY ListingExists
<1>2. ASSUME NEW j \in Nat, j \in Ahead PROVE j + 1 \in Ahead
  <2> SUFFICES ASSUME Listable(Listed[j + 1]) PROVE j + 1 <= Listed[j + 1]
    OBVIOUS
  <2>1. Listed[j + 1] = ListNext(Listed[j])
    BY ListingExists
  <2>2. Listable(Listed[j])
    BY <2>1 DEF ListNext
  <2>3. /\ Listed[j] \in Nat /\ j <= Listed[j]
        /\ ListedCells(mem[Listed[j]].value) \in 1 .. 4
    BY <1>2, <2>2, ListableCell
  <2> QED BY <2>1, <2>2, <2>3 DEF ListNext
<1>3. Nat \subseteq Ahead
  <2> HIDE DEF Ahead
  <2> QED BY <1>1, <1>2, AllNumbers
<1> QED BY <1>3, ListableCell

\* An instruction that falls through has a line of its own to be listed on.
LEMMA ExecutedListable ==
  ASSUME IInv, FallsThrough, [Next]_vars, ~UNCHANGED vars, mem' = mem
  PROVE  Listable(pc) /\ pc' = pc + ListedCells(inst) /\ pc' \in DOMAIN mem
<1>1. pc' = After(pc)
  BY SameLength
<1>2. PICK n \in 0 .. MAX_SIZE - 1 : mem \in [0 .. n - 1 -> Cell]
  BY DEF IInv, TypeOK, MemTypeOK
<1>3. pc \in DOMAIN mem /\ n \in Nat
  BY <1>2, ExecAssumption DEF ExecAssumption, FallsThrough, Executing, IInv, RunningInMemory, Present
<1>4. inst \in Int
  BY <1>2, <1>3, WidthAssumption DEF WidthAssumption, Word, Cell, inst
<1>5. Present(pc)'
  BY StepInv DEF IInv, RunningInMemory, FallsThrough
<1>6. pc' \in DOMAIN mem
  BY <1>5 DEF Present
<1>7. pc' = pc + ListedCells(inst) /\ ListedCells(inst) \in 1 .. 4
  BY <1>1, <1>2, <1>3, <1>4, SameCells, LineLength DEF After, inst
<1>8. \A k \in 1 .. ListedCells(inst) - 1 : pc + k \in DOMAIN mem
  BY <1>2, <1>3, <1>6, <1>7
<1>9. inst = 15 => Evaluates(mem[pc + 2].value)
  <2> SUFFICES ASSUME inst = 15 PROVE Evaluates(mem[pc + 2].value)
    OBVIOUS
  <2>1. ~NoOperands
    BY DEF NoOperands, Noop, Skip, Jump, Instr
  <2>2. ~OneOperand
    BY DEF OneOperand, Push, Pop, Out, In, InExec, Instr
  <2>3. ~ThreeOperands
    BY DEF ThreeOperands, Eq, Gt, Add, Mult, Mod, And, Or, Assign, Instr
  <2>4. ~Set /\ ~Not /\ ~Wmem /\ ~Tjump /\ ~Fjump
    BY DEF Set, Not, Wmem, Tjump, Fjump, Jump, Assign, Instr
  <2>5. Succeeds
    BY <2>1, <2>2, <2>3, <2>4, FallsThroughCases DEF TwoOperands, Rmem, Assign, Instr
  <2>6. 2 \in Sources(15)
    BY SourcesTable
  <2> QED BY <2>5, <2>6 DEF Succeeds, Readable, Arg
<1> QED BY <1>3, <1>6, <1>7, <1>8, <1>9 DEF Listable, Present, inst

\* From a line of decompile's listing, execution without jumps comes to lines of
\* the listing only, until a cell changes.
THEOREM ListingIsFollowed == Spec => ListingFollows
<1>1. IInv /\ [Next]_vars =>
        [FallsThrough /\ mem' = mem /\ pc \in Listing => pc' \in Listing]_vars
  <2> SUFFICES ASSUME IInv, [Next]_vars, ~UNCHANGED vars, FallsThrough, mem' = mem,
                      pc \in Listing
               PROVE  pc' \in Listing
    OBVIOUS
  <2>1. TypeOK
    BY DEF IInv
  <2>2. Listable(pc) /\ pc' = pc + ListedCells(inst) /\ pc' \in DOMAIN mem
    BY ExecutedListable
  <2>3. PICK k \in DOMAIN mem : pc = Listed[k]
    BY <2>1, ListingExists
  <2>4. PICK n \in 0 .. MAX_SIZE - 1 : mem \in [0 .. n - 1 -> Cell]
    BY <2>1 DEF TypeOK, MemTypeOK
  <2>5. k \in Nat /\ n \in Nat
    BY <2>3, <2>4, ExecAssumption DEF ExecAssumption
  <2>6. pc \in Nat /\ k <= pc /\ ListedCells(inst) \in 1 .. 4
    BY <2>1, <2>2, <2>3, <2>5, ListingAdvances, ListableCell DEF inst
  <2>7. Listed[k + 1] = pc'
    BY <2>1, <2>2, <2>3, <2>5, ListingExists DEF ListNext, inst
  <2>8. k + 1 \in DOMAIN mem
    BY <2>2, <2>4, <2>5, <2>6
  <2> QED BY <2>1, <2>7, <2>8, ListingExists
<1> QED BY <1>1, Inductive, PTL DEF Spec, ListingFollows
=============================================================================

------------------------------- MODULE Memory -------------------------------
(***************************************************************************)
(* The Memory of the virtual machine (src/src/mem.c): an array of pointers *)
(* to heap cells that is resized, shifted and freed by hand.  Each         *)
(* operation of mem.h is one action; the assertions it starts with, when   *)
(* they fail, end the process.  The operators on the struct mirror the C   *)
(* statements, the pointers they free and the slots they leave behind      *)
(* included.                                                               *)
(***************************************************************************)
EXTENDS Integers

CONSTANTS Cells,             \* the addresses malloc may return
          Content,           \* what a cell holds
          NULL,
          Junk,              \* an array slot malloc has not initialised
          MAX_SIZE, INITIAL_CAPACITY

ASSUME MemoryAssumption ==
  /\ MAX_SIZE \in Nat /\ INITIAL_CAPACITY \in Nat
  /\ 0 < INITIAL_CAPACITY /\ INITIAL_CAPACITY < MAX_SIZE
  /\ NULL \notin Cells /\ Junk \notin Cells /\ NULL # Junk
  /\ NULL \notin Content

VARIABLES memory,  \* the struct, with the heap its array points into
          status,  \* "alive", "abort" or "destroyed"
          ret      \* what the cell Memory_get returned last holds

vars == <<memory, status, ret>>

Entry == Content \cup {NULL}

\* The struct and its heap; bad: something was freed that was not allocated
Struct(array, size, capacity, heap, bad) ==
  [array |-> array, size |-> size, capacity |-> capacity, heap |-> heap,
   bad |-> bad]

Create == Struct([i \in 0 .. INITIAL_CAPACITY - 1 |-> Junk], 0, INITIAL_CAPACITY,
                 [p \in {} |-> NULL], FALSE)

Slots(m) == 0 .. m.size - 1
Live(m)  == DOMAIN m.heap

-----------------------------------------------------------------------------
(* The C statements on the struct *)

\* if(array[i]) free(array[i]), for the slots I
FreeSlots(m, I) ==
  LET freed == {m.array[i] : i \in I} \ {NULL}
      twice == \E i, j \in I : i # j /\ m.array[i] = m.array[j] /\ m.array[i] # NULL
  IN  Struct(m.array, m.size, m.capacity,
             [p \in Live(m) \ freed |-> m.heap[p]],
             m.bad \/ twice \/ ~(freed \subseteq Live(m)))

\* array[i] gets NULL, or the address p of a new copy of c
Store(m, i, c, p) ==
  Struct([m.array EXCEPT ![i] = IF c = NULL THEN NULL ELSE p], m.size, m.capacity,
         IF c = NULL THEN m.heap
         ELSE [q \in Live(m) \cup {p} |-> IF q = p THEN c ELSE m.heap[q]],
         m.bad)

Larger(a, b) == IF a > b THEN a ELSE b

\* The entries past the new end are freed; their slots keep the stale pointers
Shrink(m, n) ==
  LET f == FreeSlots(m, n .. m.size - 1)
  IN  Struct(f.array, n, f.capacity, f.heap, f.bad)

\* NULL padding, in place
Extend(m, n) ==
  Struct([i \in DOMAIN m.array |-> IF i \in m.size .. n - 1 THEN NULL ELSE m.array[i]],
         n, m.capacity, m.heap, m.bad)

\* NULL padding in a new array, with the pointers copied
Grow(m, n) ==
  LET capacity == Larger(2 * m.capacity, n)
  IN  Struct([i \in 0 .. capacity - 1 |-> IF i < m.size THEN m.array[i]
                                          ELSE IF i < n THEN NULL ELSE Junk],
             n, capacity, m.heap, m.bad)

Resize(m, n) ==
  IF n = m.size THEN m
  ELSE IF n < m.size THEN Shrink(m, n)
  ELSE IF n <= m.capacity THEN Extend(m, n) ELSE Grow(m, n)

\* Slips: the loop stops one slot early; the last slot keeps its pointer
ShiftUpShort(m, i) ==
  Struct([j \in DOMAIN m.array |->
            IF j \in i + 1 .. m.size - 2 THEN m.array[j - 1] ELSE m.array[j]],
         m.size, m.capacity, m.heap, m.bad)
ShiftDownStale(m, i) ==
  Struct([j \in DOMAIN m.array |->
            IF j \in i .. m.size - 2 THEN m.array[j + 1] ELSE m.array[j]],
         m.size, m.capacity, m.heap, m.bad)

\* From slot i on every entry moves one slot up; the last slot was NULL padding
ShiftUp(m, i) ==
  Struct([j \in DOMAIN m.array |->
            IF j \in i + 1 .. m.size - 1 THEN m.array[j - 1] ELSE m.array[j]],
         m.size, m.capacity, m.heap, m.bad)

\* From slot i on every entry moves one slot down and the last becomes NULL
ShiftDown(m, i) ==
  Struct([j \in DOMAIN m.array |->
            IF j = m.size - 1 THEN NULL
            ELSE IF j \in i .. m.size - 2 THEN m.array[j + 1] ELSE m.array[j]],
         m.size, m.capacity, m.heap, m.bad)

\* The size Memory_insert grows to
InsertSize(m, i) == IF i < m.size THEN m.size + 1 ELSE i + 1

-----------------------------------------------------------------------------
(* The operations *)

Init == memory = Create /\ status = "alive" /\ ret = NULL

Returns(m) == memory' = m /\ UNCHANGED <<status, ret>>
Abort      == status' = "abort" /\ UNCHANGED <<memory, ret>>

\* A slip: the assertion admits a memory of MAX_SIZE entries
Memory_resizeLax(n) ==
  /\ status = "alive"
  /\ IF n <= MAX_SIZE THEN Returns(Resize(memory, n)) ELSE Abort

\* The rest of the operation runs once its assertion holds
Memory_resize(n) ==
  /\ status = "alive"
  /\ IF n < MAX_SIZE THEN Returns(Resize(memory, n)) ELSE Abort

Memory_set(i, c) ==
  /\ status = "alive"
  /\ IF i < memory.size
     THEN LET m == FreeSlots(memory, {i})
          IN  \E p \in Cells \ Live(m) : Returns(Store(m, i, c, p))
     ELSE Abort

\* An index outside the memory is NULL, an entry that is NULL fails the assertion
Memory_get(i) ==
  /\ status = "alive"
  /\ IF i < memory.size /\ memory.array[i] = NULL
     THEN Abort
     ELSE /\ ret' = IF i < memory.size THEN memory.heap[memory.array[i]] ELSE NULL
          /\ UNCHANGED <<memory, status>>

Memory_insert(i, c) ==
  /\ status = "alive"
  /\ IF InsertSize(memory, i) < MAX_SIZE
     THEN LET m == Resize(memory, InsertSize(memory, i))
          IN  \E p \in Cells \ Live(m) : Returns(Store(ShiftUp(m, i), i, c, p))
     ELSE Abort

Memory_delete(i) ==
  /\ status = "alive"
  /\ IF i < memory.size
     THEN Returns(IF i = memory.size - 1
                  THEN Resize(memory, i)
                  ELSE LET m == ShiftDown(FreeSlots(memory, {i}), i)
                       IN  Resize(m, m.size - 1))
     ELSE Abort

Memory_append(c) ==
  /\ status = "alive"
  /\ IF memory.size + 1 < MAX_SIZE
     THEN LET m == Resize(memory, memory.size + 1)
          IN  \E p \in Cells \ Live(m) : Returns(Store(m, m.size - 1, c, p))
     ELSE Abort

\* A slip: the loop misses the last entry
Memory_destroyShort ==
  /\ status = "alive"
  /\ memory' = FreeSlots(memory, 0 .. memory.size - 2)
  /\ status' = "destroyed" /\ UNCHANGED ret

\* Every entry in use, the array and the struct are freed
Memory_destroy ==
  /\ status = "alive"
  /\ memory' = FreeSlots(memory, Slots(memory))
  /\ status' = "destroyed" /\ UNCHANGED ret

Terminated == status # "alive" /\ UNCHANGED vars

Next ==
  \/ \E n \in 0 .. MAX_SIZE : Memory_resize(n) \/ Memory_get(n) \/ Memory_delete(n)
  \/ \E i \in 0 .. MAX_SIZE, c \in Entry : Memory_set(i, c) \/ Memory_insert(i, c)
  \/ \E c \in Entry : Memory_append(c)
  \/ Memory_destroy
  \/ Terminated

Spec == Init /\ [][Next]_vars

-----------------------------------------------------------------------------
(* Properties *)

Typed(m) ==
  /\ m.size \in 0 .. MAX_SIZE - 1 /\ m.capacity \in Nat
  /\ m.array \in [0 .. m.capacity - 1 -> Cells \cup {NULL, Junk}]
  /\ Live(m) \subseteq Cells /\ m.heap \in [Live(m) -> Content]
  /\ m.bad \in BOOLEAN

TypeOK ==
  /\ Typed(memory)
  /\ status \in {"alive", "abort", "destroyed"} /\ ret \in Entry

\* Each slot in use is NULL or the one owner of a live cell, and each live cell
\* has an owner: after any sequence of calls nothing leaks, nothing dangles in
\* the slots a caller can reach, and no free meets a cell it does not own (the
\* stale pointers Memory_resize leaves past the end, mem.c:56-58, included).
Fits(m)       == m.size <= m.capacity
NoDangling(m) == \A i \in Slots(m) : m.array[i] \in Live(m) \cup {NULL}
OneOwner(m)   ==
  \A i, j \in Slots(m) : i # j /\ m.array[i] = m.array[j] => m.array[i] = NULL
NoLeak(m)     == \A p \in Live(m) : \E i \in Slots(m) : m.array[i] = p
Sound(m)      == Fits(m) /\ NoDangling(m) /\ OneOwner(m) /\ NoLeak(m)
Owned         == ~memory.bad /\ (status # "destroyed" => Sound(memory))

\* mem.h:36: a destroyed memory has given every cell back.
DestroyFreesAll == status = "destroyed" => Live(memory) = {}

\* The contents a caller can see
Contents(m) ==
  [i \in Slots(m) |-> IF m.array[i] = NULL THEN NULL ELSE m.heap[m.array[i]]]

\* Every operation that returns has the effect on the vector of cells that
\* mem.h states, whichever of the four cases of Memory_resize it goes through.
Vector == INSTANCE AbsVector WITH
  vec    <- IF status = "destroyed" THEN [i \in {} |-> NULL] ELSE Contents(memory),
  alive  <- status = "alive",
  result <- ret
ImplementsVector == Vector!AbsSpec
=============================================================================

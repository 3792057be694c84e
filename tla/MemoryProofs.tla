---------------------------- MODULE MemoryProofs ----------------------------
(***************************************************************************)
(* Theorems about the memory of the virtual machine, for every capacity,   *)
(* greatest size, set of heap addresses and content of a cell.             *)
(***************************************************************************)
EXTENDS Memory, TLAPS

USE MemoryAssumption DEF MemoryAssumption

-----------------------------------------------------------------------------
(* The statements of mem.c on a struct *)

Good(m) == Typed(m) /\ ~m.bad /\ Sound(m)

\* free() on slots in use of a sound memory meets only cells the slots own.
LEMMA FreeOwned ==
  ASSUME NEW m, Good(m), NEW I \in SUBSET Slots(m)
  PROVE  LET f == FreeSlots(m, I)
         IN  /\ f.bad = FALSE
             /\ f.array = m.array /\ f.size = m.size /\ f.capacity = m.capacity
             /\ Live(f) = Live(m) \ {m.array[i] : i \in I}
             /\ f.heap \in [Live(f) -> Content]
<1> DEFINE f == FreeSlots(m, I)
           freed == {m.array[i] : i \in I} \ {NULL}
<1>1. freed \subseteq Live(m)
  BY DEF Good, Sound, NoDangling
<1>2. ~\E i, j \in I : i # j /\ m.array[i] = m.array[j] /\ m.array[i] # NULL
  BY DEF Good, Sound, OneOwner
<1>3. /\ f.array = m.array /\ f.size = m.size /\ f.capacity = m.capacity
      /\ f.heap = [p \in Live(m) \ freed |-> m.heap[p]]
  BY DEF FreeSlots, Struct
<1>4. f.bad = FALSE
  BY <1>1, <1>2 DEF Good, FreeSlots, Struct
<1>5. NULL \notin Live(m) /\ \A p \in Live(m) : m.heap[p] \in Content
  BY DEF Good, Typed
<1>6. Live(f) = Live(m) \ freed
  BY <1>3 DEF Live
<1>7. f.heap \in [Live(f) -> Content]
  BY <1>3, <1>5, <1>6
<1> HIDE DEF f
<1> QED BY <1>3, <1>4, <1>5, <1>6, <1>7 DEF f

\* Shrinking frees what the lost slots owned.
LEMMA ShrinkGood ==
  ASSUME NEW m, Good(m), NEW n \in Nat, n < m.size
  PROVE  Good(Shrink(m, n)) /\ Shrink(m, n).size = n
<1> DEFINE f == FreeSlots(m, n .. m.size - 1)
           s == Shrink(m, n)
<1>1. /\ n .. m.size - 1 \in SUBSET Slots(m)
      /\ m.size \in Nat /\ m.size < MAX_SIZE /\ m.capacity \in Nat
  BY DEF Slots, Good, Typed
<1>2. /\ f.bad = FALSE
      /\ f.array = m.array /\ f.size = m.size /\ f.capacity = m.capacity
      /\ Live(f) = Live(m) \ {m.array[i] : i \in n .. m.size - 1}
      /\ f.heap \in [Live(f) -> Content]
  BY <1>1, FreeOwned
<1>3. /\ s.array = m.array /\ s.size = n /\ s.capacity = m.capacity
      /\ s.heap = f.heap /\ s.bad = FALSE
  BY <1>2 DEF Shrink, Struct
<1>4. Live(s) = Live(f)
  BY <1>3 DEF Live
<1>5. Slots(s) = 0 .. n - 1
  BY <1>3 DEF Slots
<1> HIDE DEF s, f
<1>6. Typed(s)
  <2>1. s.array \in [0 .. s.capacity - 1 -> Cells \cup {NULL, Junk}]
    BY <1>3 DEF Typed, Good
  <2>2. Live(s) \subseteq Cells
    BY <1>2, <1>4 DEF Typed, Good
  <2>3. s.heap \in [Live(s) -> Content]
    BY <1>2, <1>3, <1>4
  <2>4. s.size \in 0 .. MAX_SIZE - 1 /\ s.capacity \in Nat
    BY <1>1, <1>3
  <2>5. s.bad \in BOOLEAN
    BY <1>3
  <2> QED BY <2>1, <2>2, <2>3, <2>4, <2>5 DEF Typed
<1>7. Fits(s)
  BY <1>1, <1>3 DEF Good, Sound, Fits
<1>8. OneOwner(s)
  BY <1>1, <1>3, <1>5 DEF Good, Sound, OneOwner, Slots
<1>9. NoDangling(s)
  <2> SUFFICES ASSUME NEW i \in 0 .. n - 1, m.array[i] # NULL
               PROVE  m.array[i] \in Live(f)
    BY <1>3, <1>4, <1>5 DEF NoDangling
  <2>1. i \in Slots(m)
    BY <1>1 DEF Slots
  <2>2. m.array[i] \in Live(m)
    BY <2>1 DEF Good, Sound, NoDangling
  <2>3. \A j \in n .. m.size - 1 : m.array[j] # m.array[i]
    BY <1>1, <2>1 DEF Good, Sound, OneOwner, Slots
  <2> QED BY <1>2, <2>2, <2>3
<1>10. NoLeak(s)
  BY <1>1, <1>2, <1>3, <1>4, <1>5 DEF Good, Sound, NoLeak, Slots
<1> QED BY <1>3, <1>6, <1>7, <1>8, <1>9, <1>10 DEF Good, Sound, s

\* Padding with NULL, in place or in a larger array, keeps the struct sound.
LEMMA PadGood ==
  ASSUME NEW m, Good(m), NEW n \in Nat, m.size < n, n < MAX_SIZE,
         NEW e, e.size = n, e.heap = m.heap, e.bad \in BOOLEAN, ~e.bad,
         e.capacity \in Nat, n <= e.capacity,
         e.array \in [0 .. e.capacity - 1 -> Cells \cup {NULL, Junk}],
         \A i \in 0 .. n - 1 :
           e.array[i] = IF i < m.size THEN m.array[i] ELSE NULL
  PROVE  Good(e)
<1>1. m.size \in Nat /\ Slots(m) = 0 .. m.size - 1
      /\ Slots(e) = 0 .. n - 1 /\ Live(e) = Live(m)
  BY DEF Good, Typed, Slots, Live
<1>2. NULL \notin Live(m)
  BY DEF Good, Typed
<1>3. Typed(e) /\ ~e.bad
  <2>1. e.size \in 0 .. MAX_SIZE - 1 /\ e.bad \in BOOLEAN /\ ~e.bad
    BY DEF Good, Typed
  <2>2. Live(e) \subseteq Cells /\ e.heap \in [Live(e) -> Content]
    BY <1>1 DEF Good, Typed
  <2> QED BY <2>1, <2>2 DEF Typed
<1>4. Fits(e)
  BY DEF Fits
<1>5. NoDangling(e)
  <2>1. \A i \in 0 .. m.size - 1 : m.array[i] \in Live(m) \cup {NULL}
    BY <1>1 DEF Good, Sound, NoDangling
  <2> QED BY <1>1, <2>1 DEF NoDangling
<1>6. OneOwner(e)
  BY <1>1 DEF Good, Sound, OneOwner
<1>7. NoLeak(e)
  BY <1>1 DEF Good, Sound, NoLeak
<1> QED BY <1>3, <1>4, <1>5, <1>6, <1>7 DEF Good, Sound

\* The four cases of Memory_resize.
LEMMA ResizeGood ==
  ASSUME NEW m, Good(m), NEW n \in 0 .. MAX_SIZE - 1
  PROVE  /\ Good(Resize(m, n)) /\ Resize(m, n).size = n
         /\ m.size < n => /\ Live(Resize(m, n)) = Live(m)
                          /\ \A i \in m.size .. n - 1 : Resize(m, n).array[i] = NULL
<1> DEFINE e == Resize(m, n)
<1>1. /\ m.size \in Nat /\ m.size < MAX_SIZE /\ m.capacity \in Nat
      /\ m.size <= m.capacity
      /\ m.array \in [0 .. m.capacity - 1 -> Cells \cup {NULL, Junk}]
  BY DEF Good, Typed, Sound, Fits
<1>2. CASE n = m.size
  BY <1>2 DEF Resize
<1>3. CASE n < m.size
  BY <1>3, <1>1, ShrinkGood DEF Resize
<1>4. CASE m.size < n /\ n <= m.capacity
  <2>1. e = Extend(m, n)
    BY <1>1, <1>4 DEF Resize
  <2>2. /\ e.size = n /\ e.heap = m.heap /\ e.bad = FALSE /\ e.capacity = m.capacity
        /\ e.array = [i \in 0 .. m.capacity - 1 |->
                        IF i \in m.size .. n - 1 THEN NULL ELSE m.array[i]]
    BY <1>1, <2>1 DEF Extend, Struct, Good, Typed
  <2> HIDE DEF e
  <2>3. e.array \in [0 .. e.capacity - 1 -> Cells \cup {NULL, Junk}]
    BY <1>1, <2>2
  <2>4. \A i \in 0 .. n - 1 :
          e.array[i] = IF i < m.size THEN m.array[i] ELSE NULL
    BY <1>1, <1>4, <2>2
  <2>5. Good(e)
    <3>1. n \in Nat /\ n < MAX_SIZE /\ e.capacity \in Nat /\ n <= e.capacity
      BY <1>1, <1>4, <2>2
    <3>2. e.bad \in BOOLEAN /\ ~e.bad
      BY <2>2
    <3> QED BY <1>4, <2>2, <2>3, <2>4, <3>1, <3>2, PadGood
  <2>6. Live(e) = Live(m)
    BY <2>2 DEF Live
  <2> QED BY <1>1, <1>4, <2>2, <2>4, <2>5, <2>6 DEF e
<1>5. CASE m.size < n /\ ~(n <= m.capacity)
  <2> DEFINE capacity == Larger(2 * m.capacity, n)
  <2>1. e = Grow(m, n)
    BY <1>1, <1>5 DEF Resize
  <2>2. capacity \in Nat /\ n <= capacity /\ m.capacity <= capacity
    BY <1>1, <1>5 DEF Larger
  <2>3. /\ e.size = n /\ e.heap = m.heap /\ e.bad = FALSE /\ e.capacity = capacity
        /\ e.array = [i \in 0 .. capacity - 1 |->
                        IF i < m.size THEN m.array[i]
                        ELSE IF i < n THEN NULL ELSE Junk]
    BY <2>1 DEF Grow, Struct, Good, Typed
  <2> HIDE DEF e, capacity
  <2>4. e.array \in [0 .. e.capacity - 1 -> Cells \cup {NULL, Junk}]
    BY <1>1, <2>2, <2>3
  <2>5. \A i \in 0 .. n - 1 :
          e.array[i] = IF i < m.size THEN m.array[i] ELSE NULL
    BY <1>1, <2>2, <2>3
  <2>6. Good(e)
    <3>1. n \in Nat /\ n < MAX_SIZE /\ e.capacity \in Nat /\ n <= e.capacity
      BY <1>1, <2>2, <2>3
    <3>2. e.bad \in BOOLEAN /\ ~e.bad
      BY <2>3
    <3> QED BY <1>5, <2>3, <2>4, <2>5, <3>1, <3>2, PadGood
  <2>7. Live(e) = Live(m)
    BY <2>3 DEF Live
  <2> QED BY <1>1, <1>5, <2>3, <2>5, <2>6, <2>7 DEF e
<1> QED BY <1>1, <1>2, <1>3, <1>4, <1>5

\* A struct that is sound but for slot i, whose pointer is stale.
But(m, i)     == Slots(m) \ {i}
GoodBut(m, i) ==
  /\ Typed(m) /\ ~m.bad /\ Fits(m) /\ i \in Slots(m)
  /\ \A j \in But(m, i) : m.array[j] \in Live(m) \cup {NULL}
  /\ \A j, k \in But(m, i) : j # k /\ m.array[j] = m.array[k] => m.array[j] = NULL
  /\ \A p \in Live(m) : \E j \in But(m, i) : m.array[j] = p

\* The slot of an entry just freed is stale, and so is one that holds NULL.
LEMMA FreeOneGood ==
  ASSUME NEW m, Good(m), NEW i \in Slots(m)
  PROVE  GoodBut(FreeSlots(m, {i}), i) /\ FreeSlots(m, {i}).size = m.size
<1> DEFINE f == FreeSlots(m, {i})
<1>1. /\ f.bad = FALSE
      /\ f.array = m.array /\ f.size = m.size /\ f.capacity = m.capacity
      /\ Live(f) = Live(m) \ {m.array[i]}
      /\ f.heap \in [Live(f) -> Content]
  <2>1. {i} \in SUBSET Slots(m) /\ {m.array[j] : j \in {i}} = {m.array[i]}
    OBVIOUS
  <2> QED BY <2>1, FreeOwned
<1> HIDE DEF f
<1>2. Slots(f) = Slots(m)
  BY <1>1 DEF Slots
<1>3. Typed(f) /\ ~f.bad /\ Fits(f)
  <2>1. Live(f) \subseteq Cells /\ Fits(f)
    BY <1>1 DEF Good, Typed, Sound, Fits
  <2>2. f.bad \in BOOLEAN /\ ~f.bad
    BY <1>1
  <2> QED BY <1>1, <2>1, <2>2 DEF Good, Typed
<1>4. \A j \in But(f, i) : f.array[j] \in Live(f) \cup {NULL}
  BY <1>1, <1>2 DEF But, Good, Sound, NoDangling, OneOwner
<1>5. \A j, k \in But(f, i) : j # k /\ f.array[j] = f.array[k] => f.array[j] = NULL
  BY <1>1, <1>2 DEF But, Good, Sound, OneOwner
<1>6. \A p \in Live(f) : \E j \in But(f, i) : f.array[j] = p
  BY <1>1, <1>2 DEF But, Good, Sound, NoLeak
<1> QED BY <1>1, <1>2, <1>3, <1>4, <1>5, <1>6 DEF GoodBut, f

LEMMA NullIsStale ==
  ASSUME NEW m, Good(m), NEW i \in Slots(m), m.array[i] = NULL
  PROVE  GoodBut(m, i)
<1>1. NULL \notin Live(m)
  BY DEF Good, Typed
<1> QED BY <1>1 DEF GoodBut, But, Good, Sound, NoDangling, OneOwner, NoLeak

\* Memory_set and its like make the stale slot the owner of a new cell.
LEMMA StoreGood ==
  ASSUME NEW m, NEW i, GoodBut(m, i), NEW c \in Entry, NEW p \in Cells \ Live(m)
  PROVE  Good(Store(m, i, c, p))
<1> DEFINE s == Store(m, i, c, p)
<1>1. /\ m.size \in 0 .. MAX_SIZE - 1 /\ m.capacity \in Nat /\ m.size <= m.capacity
      /\ m.array \in [0 .. m.capacity - 1 -> Cells \cup {NULL, Junk}]
      /\ Live(m) \subseteq Cells /\ m.heap \in [Live(m) -> Content]
      /\ i \in 0 .. m.size - 1 /\ NULL \notin Live(m) /\ p # NULL
  BY DEF GoodBut, Typed, Fits, Slots
<1>2. /\ s.size = m.size /\ s.capacity = m.capacity
      /\ s.array = [m.array EXCEPT ![i] = IF c = NULL THEN NULL ELSE p]
      /\ s.heap = IF c = NULL THEN m.heap
                  ELSE [q \in Live(m) \cup {p} |-> IF q = p THEN c ELSE m.heap[q]]
  BY DEF Store, Struct
<1>3. s.bad \in BOOLEAN /\ ~s.bad
  BY DEF Store, Struct, GoodBut, Typed
<1> HIDE DEF s
<1>4. Slots(s) = Slots(m) /\ Fits(s)
  BY <1>1, <1>2 DEF Slots, Fits
<1>5. Live(s) = IF c = NULL THEN Live(m) ELSE Live(m) \cup {p}
  BY <1>2 DEF Live
<1>6. Typed(s)
  <2>1. s.array \in [0 .. s.capacity - 1 -> Cells \cup {NULL, Junk}]
    BY <1>1, <1>2
  <2>2. Live(s) \subseteq Cells
    BY <1>1, <1>5
  <2>3. s.heap \in [Live(s) -> Content]
    BY <1>1, <1>2, <1>5 DEF Entry
  <2> QED BY <1>1, <1>2, <1>3, <2>1, <2>2, <2>3 DEF Typed
<1>7. /\ \A j \in But(m, i) : s.array[j] = m.array[j]
      /\ s.array[i] = IF c = NULL THEN NULL ELSE p
  BY <1>1, <1>2 DEF But, Slots
<1>8. /\ \A j \in But(m, i) : m.array[j] \in Live(m) \cup {NULL}
      /\ \A j, k \in But(m, i) : j # k /\ m.array[j] = m.array[k] => m.array[j] = NULL
      /\ \A q \in Live(m) : \E j \in But(m, i) : m.array[j] = q
      /\ i \in Slots(m) /\ But(m, i) = Slots(m) \ {i}
  BY DEF GoodBut, But
<1>9. NoDangling(s)
  BY <1>4, <1>5, <1>7, <1>8 DEF NoDangling
<1>10. OneOwner(s)
  BY <1>1, <1>4, <1>7, <1>8 DEF OneOwner
<1>11. NoLeak(s)
  BY <1>4, <1>5, <1>7, <1>8 DEF NoLeak
<1> QED BY <1>3, <1>4, <1>6, <1>9, <1>10, <1>11 DEF Good, Sound, s

\* Memory_insert's loop: the entry that was in slot i now has two pointers to it.
LEMMA ShiftUpGood ==
  ASSUME NEW m, Good(m), NEW i \in Slots(m), m.array[m.size - 1] = NULL
  PROVE  GoodBut(ShiftUp(m, i), i)
<1> DEFINE s == ShiftUp(m, i)
<1>1. /\ m.size \in 0 .. MAX_SIZE - 1 /\ m.capacity \in Nat /\ m.size <= m.capacity
      /\ m.array \in [0 .. m.capacity - 1 -> Cells \cup {NULL, Junk}]
      /\ i \in 0 .. m.size - 1 /\ Slots(m) = 0 .. m.size - 1 /\ NULL \notin Live(m)
  BY DEF Good, Sound, Typed, Fits, Slots
<1>2. /\ s.size = m.size /\ s.capacity = m.capacity /\ s.heap = m.heap
      /\ s.array = [j \in 0 .. m.capacity - 1 |->
                      IF j \in i + 1 .. m.size - 1 THEN m.array[j - 1] ELSE m.array[j]]
  BY <1>1 DEF ShiftUp, Struct
<1>3. s.bad \in BOOLEAN /\ ~s.bad
  BY DEF ShiftUp, Struct, Good, Typed
<1> HIDE DEF s
<1>4. Slots(s) = 0 .. m.size - 1 /\ Live(s) = Live(m) /\ Fits(s)
  BY <1>1, <1>2 DEF Slots, Live, Fits
<1>5. Typed(s)
  <2>1. s.array \in [0 .. s.capacity - 1 -> Cells \cup {NULL, Junk}]
    <3>1. ASSUME NEW j \in i + 1 .. m.size - 1
          PROVE  m.array[j - 1] \in Cells \cup {NULL, Junk}
      <4>1. j - 1 \in 0 .. m.capacity - 1
        BY <1>1
      <4> QED BY <1>1, <4>1
    <3> QED BY <1>1, <1>2, <3>1
  <2>2. Live(s) \subseteq Cells /\ s.heap \in [Live(s) -> Content]
    BY <1>2, <1>4 DEF Good, Typed
  <2> QED BY <1>1, <1>2, <1>3, <2>1, <2>2 DEF Typed
<1>6. \A j \in But(s, i) :
        s.array[j] = m.array[IF j < i THEN j ELSE j - 1]
  BY <1>1, <1>2, <1>4 DEF But
<1>7. /\ \A j \in 0 .. m.size - 1 : m.array[j] \in Live(m) \cup {NULL}
      /\ \A j, k \in 0 .. m.size - 1 :
           j # k /\ m.array[j] = m.array[k] => m.array[j] = NULL
      /\ \A p \in Live(m) : \E j \in 0 .. m.size - 1 : m.array[j] = p
  BY <1>1 DEF Good, Sound, NoDangling, OneOwner, NoLeak
<1>8. \A j \in But(s, i) : s.array[j] \in Live(s) \cup {NULL}
  <2> SUFFICES ASSUME NEW j \in But(s, i)
               PROVE  s.array[j] \in Live(s) \cup {NULL}
    OBVIOUS
  <2>1. (IF j < i THEN j ELSE j - 1) \in 0 .. m.size - 1
    BY <1>1, <1>4 DEF But
  <2> QED BY <1>4, <1>6, <1>7, <2>1
<1>9. \A j, k \in But(s, i) : j # k /\ s.array[j] = s.array[k] => s.array[j] = NULL
  <2> SUFFICES ASSUME NEW j \in But(s, i), NEW k \in But(s, i),
                      j # k, s.array[j] = s.array[k]
               PROVE  s.array[j] = NULL
    OBVIOUS
  <2> DEFINE from(a) == IF a < i THEN a ELSE a - 1
  <2>1. from(j) \in 0 .. m.size - 1 /\ from(k) \in 0 .. m.size - 1 /\ from(j) # from(k)
    BY <1>1, <1>4 DEF But
  <2>2. s.array[j] = m.array[from(j)] /\ s.array[k] = m.array[from(k)]
    BY <1>6
  <2> HIDE DEF from
  <2> QED BY <1>7, <2>1, <2>2
<1>10. ASSUME NEW p \in Live(s)
       PROVE  \E j \in But(s, i) : s.array[j] = p
  <2>1. PICK j \in 0 .. m.size - 1 : m.array[j] = p
    BY <1>4, <1>7
  <2>2. j # m.size - 1
    BY <1>1, <1>4, <2>1
  <2>3. CASE j < i
    BY <1>1, <1>4, <1>6, <2>1, <2>3 DEF But
  <2>4. CASE ~(j < i)
    <3>1. j + 1 \in But(s, i)
      BY <1>1, <1>4, <2>2, <2>4 DEF But
    <3>2. s.array[j + 1] = p
      BY <1>1, <1>6, <2>1, <2>4, <3>1
    <3> QED BY <3>1, <3>2
  <2> QED BY <2>3, <2>4
<1> QED BY <1>1, <1>3, <1>4, <1>5, <1>8, <1>9, <1>10 DEF GoodBut, s

\* Memory_delete's loop closes the gap and clears the slot it leaves behind.
LEMMA ShiftDownGood ==
  ASSUME NEW m, NEW i, GoodBut(m, i)
  PROVE  Good(ShiftDown(m, i)) /\ ShiftDown(m, i).size = m.size
<1> DEFINE s == ShiftDown(m, i)
<1>1. /\ m.size \in 0 .. MAX_SIZE - 1 /\ m.capacity \in Nat /\ m.size <= m.capacity
      /\ m.array \in [0 .. m.capacity - 1 -> Cells \cup {NULL, Junk}]
      /\ i \in 0 .. m.size - 1 /\ Slots(m) = 0 .. m.size - 1 /\ NULL \notin Live(m)
  BY DEF GoodBut, Typed, Fits, Slots
<1>2. /\ s.size = m.size /\ s.capacity = m.capacity /\ s.heap = m.heap
      /\ s.array = [j \in 0 .. m.capacity - 1 |->
                      IF j = m.size - 1 THEN NULL
                      ELSE IF j \in i .. m.size - 2 THEN m.array[j + 1]
                      ELSE m.array[j]]
  BY <1>1 DEF ShiftDown, Struct
<1>3. s.bad \in BOOLEAN /\ ~s.bad
  BY DEF ShiftDown, Struct, GoodBut, Typed
<1> HIDE DEF s
<1>4. Slots(s) = 0 .. m.size - 1 /\ Live(s) = Live(m) /\ Fits(s)
  BY <1>1, <1>2 DEF Slots, Live, Fits
<1>5. Typed(s)
  <2>1. s.array \in [0 .. s.capacity - 1 -> Cells \cup {NULL, Junk}]
    <3>1. ASSUME NEW j \in i .. m.size - 2
          PROVE  m.array[j + 1] \in Cells \cup {NULL, Junk}
      <4>1. j + 1 \in 0 .. m.capacity - 1
        BY <1>1
      <4> QED BY <1>1, <4>1
    <3> QED BY <1>1, <1>2, <3>1
  <2>2. Live(s) \subseteq Cells /\ s.heap \in [Live(s) -> Content]
    BY <1>2, <1>4 DEF GoodBut, Typed
  <2> QED BY <1>1, <1>2, <1>3, <2>1, <2>2 DEF Typed
<1>6. \A j \in 0 .. m.size - 1 :
        s.array[j] = IF j = m.size - 1 THEN NULL
                     ELSE IF j < i THEN m.array[j] ELSE m.array[j + 1]
  BY <1>1, <1>2
<1>7. /\ But(m, i) = (0 .. m.size - 1) \ {i}
      /\ \A j \in But(m, i) : m.array[j] \in Live(m) \cup {NULL}
      /\ \A j, k \in But(m, i) : j # k /\ m.array[j] = m.array[k] => m.array[j] = NULL
      /\ \A p \in Live(m) : \E j \in But(m, i) : m.array[j] = p
  BY <1>1 DEF GoodBut, But
<1>8. NoDangling(s)
  <2> SUFFICES ASSUME NEW j \in 0 .. m.size - 1
               PROVE  s.array[j] \in Live(s) \cup {NULL}
    BY <1>4 DEF NoDangling
  <2>1. CASE j = m.size - 1
    BY <1>6, <2>1
  <2>2. CASE j < i /\ j # m.size - 1
    <3>1. j \in But(m, i) /\ s.array[j] = m.array[j]
      BY <1>6, <1>7, <2>2
    <3> QED BY <1>4, <1>7, <3>1
  <2>3. CASE j >= i /\ j # m.size - 1
    <3>1. j + 1 \in 0 .. m.size - 1 /\ j + 1 # i
      BY <1>1, <2>3
    <3>2. j + 1 \in But(m, i) /\ s.array[j] = m.array[j + 1]
      BY <1>1, <1>6, <1>7, <2>3, <3>1
    <3> QED BY <1>4, <1>7, <3>2
  <2> QED BY <1>1, <2>1, <2>2, <2>3
<1>9. OneOwner(s)
  <2> SUFFICES ASSUME NEW j \in 0 .. m.size - 1, NEW k \in 0 .. m.size - 1,
                      j # k, s.array[j] = s.array[k], j # m.size - 1, k # m.size - 1
               PROVE  s.array[j] = NULL
    BY <1>4, <1>6 DEF OneOwner
  <2> DEFINE from(a) == IF a < i THEN a ELSE a + 1
  <2>1. /\ from(j) \in (0 .. m.size - 1) \ {i} /\ from(k) \in (0 .. m.size - 1) \ {i}
        /\ from(j) # from(k)
    <3>1. m.size \in Int /\ i \in Int /\ j \in Int /\ k \in Int
      BY <1>1
    <3>2. 0 <= i /\ i < m.size /\ 0 <= j /\ j < m.size - 1 /\ 0 <= k /\ k < m.size - 1
      BY <1>1, <3>1
    <3> QED BY <3>1, <3>2
  <2>2. s.array[j] = m.array[from(j)] /\ s.array[k] = m.array[from(k)]
    BY <1>6
  <2> HIDE DEF from
  <2>3. m.array[from(j)] = NULL
    BY <1>7, <2>1, <2>2
  <2> QED BY <2>2, <2>3
<1>10. NoLeak(s)
  <2> SUFFICES ASSUME NEW p \in Live(m)
               PROVE  \E j \in 0 .. m.size - 1 : s.array[j] = p
    BY <1>4 DEF NoLeak
  <2>1. PICK j \in (0 .. m.size - 1) \ {i} : m.array[j] = p
    BY <1>7
  <2>2. CASE j < i
    BY <1>1, <1>6, <2>1, <2>2
  <2>3. CASE ~(j < i)
    <3>1. j - 1 \in 0 .. m.size - 1 /\ j - 1 # m.size - 1 /\ ~(j - 1 < i) /\ (j - 1) + 1 = j
      BY <1>1, <2>1, <2>3
    <3>2. s.array[j - 1] = p
      BY <1>6, <2>1, <3>1
    <3> QED BY <3>1, <3>2
  <2> QED BY <2>2, <2>3
<1> QED BY <1>2, <1>3, <1>4, <1>5, <1>8, <1>9, <1>10 DEF Good, Sound, s

-----------------------------------------------------------------------------
(* The inductive invariant *)

\* A live memory is sound; a destroyed one has given back what it owned, with no
\* free of a cell it did not own.
IInv ==
  /\ TypeOK
  /\ status # "destroyed" => Good(memory)
  /\ status = "destroyed" => ~memory.bad /\ Live(memory) = {}

LEMMA InitInv == Init => IInv
<1> SUFFICES ASSUME Init PROVE IInv
  OBVIOUS
<1> DEFINE c == Create
<1>1. /\ c.array = [i \in 0 .. INITIAL_CAPACITY - 1 |-> Junk] /\ c.size = 0
      /\ c.capacity = INITIAL_CAPACITY /\ c.heap = [p \in {} |-> NULL]
  BY DEF Create, Struct
<1>2. c.bad \in BOOLEAN /\ ~c.bad
  BY DEF Create, Struct
<1> HIDE DEF c
<1>3. Live(c) = {} /\ Slots(c) = {}
  BY <1>1 DEF Live, Slots
<1>4. Typed(c)
  <2>1. c.array \in [0 .. c.capacity - 1 -> Cells \cup {NULL, Junk}]
    BY <1>1
  <2>2. c.heap \in [Live(c) -> Content]
    BY <1>1, <1>3
  <2> QED BY <1>1, <1>2, <1>3, <2>1, <2>2 DEF Typed
<1>5. Sound(c)
  BY <1>1, <1>3 DEF Sound, Fits, NoDangling, OneOwner, NoLeak
<1>6. memory = c /\ status = "alive" /\ ret = NULL
  BY DEF Init, c
<1> QED BY <1>2, <1>4, <1>5, <1>6 DEF IInv, TypeOK, Good, Entry

\* An operation that returns leaves a sound memory.
LEMMA ReturnsInv ==
  ASSUME IInv, status = "alive", NEW m, Good(m), Returns(m)
  PROVE  IInv'
BY DEF IInv, TypeOK, Returns, Good

LEMMA AbortInv == ASSUME IInv, status = "alive", Abort PROVE IInv'
BY DEF IInv, TypeOK, Abort, Good

LEMMA StepInv == IInv /\ [Next]_vars => IInv'
<1> SUFFICES ASSUME IInv, [Next]_vars PROVE IInv'
  OBVIOUS
<1>1. status = "alive" => Good(memory)
  BY DEF IInv
<1>2. /\ memory.size \in Nat /\ memory.size < MAX_SIZE
      /\ Slots(memory) = 0 .. memory.size - 1
  BY DEF IInv, TypeOK, Typed, Slots
<1>3. ASSUME NEW n \in 0 .. MAX_SIZE, Memory_resize(n) PROVE IInv'
  <2>1. CASE n < MAX_SIZE
    <3>1. Returns(Resize(memory, n)) /\ n \in 0 .. MAX_SIZE - 1 /\ status = "alive"
      BY <1>3, <2>1 DEF Memory_resize
    <3>2. Good(Resize(memory, n))
      BY <1>1, <3>1, ResizeGood
    <3> QED BY <3>1, <3>2, ReturnsInv
  <2>2. CASE ~(n < MAX_SIZE)
    BY <1>3, <2>2, AbortInv DEF Memory_resize
  <2> QED BY <2>1, <2>2
<1>4. ASSUME NEW i \in 0 .. MAX_SIZE, NEW c \in Entry, Memory_set(i, c) PROVE IInv'
  <2>1. CASE i < memory.size
    <3> DEFINE f == FreeSlots(memory, {i})
    <3>1. PICK p \in Cells \ Live(f) : Returns(Store(f, i, c, p))
      BY <1>4, <2>1 DEF Memory_set
    <3>2. status = "alive"
      BY <1>4 DEF Memory_set
    <3>3. GoodBut(f, i)
      BY <1>1, <1>2, <2>1, <3>2, FreeOneGood
    <3> HIDE DEF f
    <3>4. Good(Store(f, i, c, p))
      BY <3>3, StoreGood
    <3> QED BY <3>1, <3>2, <3>4, ReturnsInv
  <2>2. CASE ~(i < memory.size)
    BY <1>4, <2>2, AbortInv DEF Memory_set
  <2> QED BY <2>1, <2>2
<1>5. ASSUME NEW i \in 0 .. MAX_SIZE, Memory_get(i) PROVE IInv'
  <2>1. CASE i < memory.size /\ memory.array[i] = NULL
    BY <1>5, <2>1, AbortInv DEF Memory_get
  <2>2. CASE ~(i < memory.size /\ memory.array[i] = NULL)
    <3>1. /\ status = "alive" /\ UNCHANGED <<memory, status>>
          /\ ret' = IF i < memory.size THEN memory.heap[memory.array[i]] ELSE NULL
      BY <1>5, <2>2 DEF Memory_get
    <3>2. i < memory.size => memory.array[i] \in Live(memory)
      BY <1>1, <1>2, <2>2, <3>1 DEF Good, Sound, NoDangling
    <3>3. memory.heap \in [Live(memory) -> Content]
      BY DEF IInv, TypeOK, Typed
    <3>4. ret' \in Entry
      BY <3>1, <3>2, <3>3 DEF Entry
    <3> QED BY <3>1, <3>4 DEF IInv, TypeOK, Good, Typed, Sound, Fits, NoDangling,
                              OneOwner, NoLeak, Slots, Live
  <2> QED BY <2>1, <2>2
<1>6. ASSUME NEW i \in 0 .. MAX_SIZE, NEW c \in Entry, Memory_insert(i, c) PROVE IInv'
  <2> DEFINE n == InsertSize(memory, i)
  <2>1. CASE n < MAX_SIZE
    <3> DEFINE m == Resize(memory, n)
    <3>1. PICK p \in Cells \ Live(m) : Returns(Store(ShiftUp(m, i), i, c, p))
      BY <1>6, <2>1 DEF Memory_insert
    <3>2. status = "alive"
      BY <1>6 DEF Memory_insert
    <3>3. n \in 0 .. MAX_SIZE - 1 /\ memory.size < n /\ i \in 0 .. n - 1
      BY <1>2, <2>1 DEF InsertSize
    <3> HIDE DEF n
    <3>4. Good(m) /\ m.size = n /\ m.array[n - 1] = NULL /\ Live(m) = Live(memory)
      <4>1. n - 1 \in memory.size .. n - 1
        BY <1>2, <3>3
      <4> QED BY <1>1, <3>2, <3>3, <4>1, ResizeGood
    <3> HIDE DEF m
    <3>5. i \in Slots(m) /\ m.array[m.size - 1] = NULL
      BY <3>3, <3>4 DEF Slots
    <3>6. GoodBut(ShiftUp(m, i), i)
      BY <3>4, <3>5, ShiftUpGood
    <3>7. Live(ShiftUp(m, i)) = Live(m)
      BY DEF Live, ShiftUp, Struct
    <3>8. Good(Store(ShiftUp(m, i), i, c, p))
      BY <3>6, <3>7, StoreGood
    <3> QED BY <3>1, <3>2, <3>8, ReturnsInv
  <2>2. CASE ~(n < MAX_SIZE)
    BY <1>6, <2>2, AbortInv DEF Memory_insert
  <2> QED BY <2>1, <2>2
<1>7. ASSUME NEW i \in 0 .. MAX_SIZE, Memory_delete(i) PROVE IInv'
  <2>1. CASE i < memory.size
    <3>1. status = "alive" /\ i \in Slots(memory) /\ i \in 0 .. MAX_SIZE - 1
      BY <1>2, <1>7, <2>1 DEF Memory_delete
    <3>2. CASE i = memory.size - 1
      <4>1. Returns(Resize(memory, i))
        BY <1>7, <2>1, <3>2 DEF Memory_delete
      <4>2. Good(Resize(memory, i))
        BY <1>1, <3>1, ResizeGood
      <4> QED BY <3>1, <4>1, <4>2, ReturnsInv
    <3>3. CASE i # memory.size - 1
      <4> DEFINE f == FreeSlots(memory, {i})
                 m == ShiftDown(f, i)
      <4>1. Returns(Resize(m, m.size - 1))
        BY <1>7, <2>1, <3>3 DEF Memory_delete
      <4>2. GoodBut(f, i) /\ f.size = memory.size
        BY <1>1, <3>1, FreeOneGood
      <4> HIDE DEF f
      <4>3. Good(m) /\ m.size = memory.size
        BY <4>2, ShiftDownGood
      <4> HIDE DEF m
      <4>4. m.size - 1 \in 0 .. MAX_SIZE - 1
        BY <1>2, <2>1, <3>1, <4>3
      <4>5. Good(Resize(m, m.size - 1))
        BY <4>3, <4>4, ResizeGood
      <4> QED BY <3>1, <4>1, <4>5, ReturnsInv
    <3> QED BY <3>2, <3>3
  <2>2. CASE ~(i < memory.size)
    BY <1>7, <2>2, AbortInv DEF Memory_delete
  <2> QED BY <2>1, <2>2
<1>8. ASSUME NEW c \in Entry, Memory_append(c) PROVE IInv'
  <2> DEFINE n == memory.size + 1
  <2>1. CASE n < MAX_SIZE
    <3> DEFINE m == Resize(memory, n)
    <3>1. PICK p \in Cells \ Live(m) : Returns(Store(m, m.size - 1, c, p))
      BY <1>8, <2>1 DEF Memory_append
    <3>2. status = "alive"
      BY <1>8 DEF Memory_append
    <3>3. n \in 0 .. MAX_SIZE - 1 /\ memory.size < n /\ n - 1 \in memory.size .. n - 1
      BY <1>2, <2>1
    <3> HIDE DEF n
    <3>4. Good(m) /\ m.size = n /\ m.array[n - 1] = NULL
      BY <1>1, <3>2, <3>3, ResizeGood
    <3> HIDE DEF m
    <3>5. m.size - 1 \in Slots(m)
      BY <1>2, <3>3, <3>4 DEF Slots
    <3>6. GoodBut(m, m.size - 1)
      BY <3>4, <3>5, NullIsStale
    <3>7. Good(Store(m, m.size - 1, c, p))
      BY <3>6, StoreGood
    <3> QED BY <3>1, <3>2, <3>7, ReturnsInv
  <2>2. CASE ~(n < MAX_SIZE)
    BY <1>8, <2>2, AbortInv DEF Memory_append
  <2> QED BY <2>1, <2>2
<1>9. CASE Memory_destroy
  <2> DEFINE m == FreeSlots(memory, Slots(memory))
  <2>1. Good(memory) /\ memory' = m /\ status' = "destroyed" /\ ret' = ret
    BY <1>1, <1>9 DEF Memory_destroy
  <2>2. /\ m.bad = FALSE
        /\ m.array = memory.array /\ m.size = memory.size
        /\ m.capacity = memory.capacity
        /\ Live(m) = Live(memory) \ {memory.array[i] : i \in Slots(memory)}
        /\ m.heap \in [Live(m) -> Content]
    BY <2>1, FreeOwned
  <2> HIDE DEF m
  <2>3. Live(m) = {}
    BY <2>1, <2>2 DEF Good, Sound, NoLeak
  <2>4. Typed(m)
    <3>1. m.bad \in BOOLEAN /\ Live(m) \subseteq Cells
      BY <2>2, <2>3
    <3> QED BY <2>1, <2>2, <3>1 DEF Good, Typed
  <2>5. ~m.bad
    BY <2>2
  <2> QED BY <2>1, <2>3, <2>4, <2>5 DEF IInv, TypeOK
<1>10. CASE UNCHANGED vars
  BY <1>10 DEF vars, IInv, TypeOK
<1> QED
  BY <1>3, <1>4, <1>5, <1>6, <1>7, <1>8, <1>9, <1>10 DEF Next, Terminated

LEMMA Invariance == Spec => []IInv
BY InitInv, StepInv, PTL DEF Spec

-----------------------------------------------------------------------------
(* The theorems *)

\* The struct keeps its shape and its size below MAX_SIZE (mem.c).
THEOREM TypeCorrect == Spec => []TypeOK
<1>1. IInv => TypeOK
  BY DEF IInv
<1> QED BY Invariance, <1>1, PTL

\* No sequence of calls leaks a cell, leaves a pointer in reach to a freed or to a
\* shared one, or frees what is not owned.
THEOREM CellsOwned == Spec => []Owned
<1>1. IInv => Owned
  BY DEF IInv, Owned, Good
<1> QED BY Invariance, <1>1, PTL

\* Memory_destroy gives every cell back, whatever calls came before it.
THEOREM DestroyComplete == Spec => []DestroyFreesAll
<1>1. IInv => DestroyFreesAll
  BY DEF IInv, DestroyFreesAll
<1> QED BY Invariance, <1>1, PTL
-----------------------------------------------------------------------------
(* What a caller sees of a struct *)

\* The entry in slot i.
Shown(m, i) == IF m.array[i] = NULL THEN NULL ELSE m.heap[m.array[i]]

\* A free leaves the cells it does not meet as they are.
LEMMA FreeKeeps ==
  ASSUME NEW m, NEW I
  PROVE  \A p \in Live(FreeSlots(m, I)) : FreeSlots(m, I).heap[p] = m.heap[p]
BY DEF FreeSlots, Struct, Live

\* Memory_resize keeps the entries in the slots that stay and pads with NULL,
\* whichever of its cases it goes through.
LEMMA ResizeShows ==
  ASSUME NEW m, Good(m), NEW n \in 0 .. MAX_SIZE - 1, NEW i \in 0 .. n - 1
  PROVE  Shown(Resize(m, n), i) = IF i < m.size THEN Shown(m, i) ELSE NULL
<1> DEFINE e == Resize(m, n)
<1>1. /\ m.size \in Nat /\ m.capacity \in Nat /\ m.size <= m.capacity
      /\ m.array \in [0 .. m.capacity - 1 -> Cells \cup {NULL, Junk}]
      /\ Slots(m) = 0 .. m.size - 1
  BY DEF Good, Typed, Sound, Fits, Slots
<1>2. CASE n = m.size
  BY <1>2 DEF Resize
<1>3. CASE n < m.size
  <2> DEFINE f == FreeSlots(m, n .. m.size - 1)
  <2>1. /\ n .. m.size - 1 \in SUBSET Slots(m) /\ i \in Slots(m)
        /\ i \notin n .. m.size - 1 /\ i < m.size
    BY <1>1, <1>3
  <2>2. f.array = m.array /\ Live(f) = Live(m) \ {m.array[j] : j \in n .. m.size - 1}
    BY <2>1, FreeOwned
  <2>3. e.array = m.array /\ e.heap = f.heap
    BY <1>1, <1>3, <2>2 DEF Resize, Shrink, Struct
  <2>4. m.array[i] # NULL => m.array[i] \in Live(f)
    BY <2>1, <2>2 DEF Good, Sound, NoDangling, OneOwner
  <2>5. m.array[i] # NULL => f.heap[m.array[i]] = m.heap[m.array[i]]
    BY <2>4, FreeKeeps
  <2> HIDE DEF e, f
  <2> QED BY <2>1, <2>3, <2>5 DEF Shown, e
<1>4. CASE m.size < n /\ n <= m.capacity
  <2>1. e.heap = m.heap /\ e.array = [j \in DOMAIN m.array |->
                                       IF j \in m.size .. n - 1 THEN NULL ELSE m.array[j]]
    BY <1>1, <1>4 DEF Resize, Extend, Struct
  <2> HIDE DEF e
  <2>2. e.array[i] = IF i < m.size THEN m.array[i] ELSE NULL
    BY <1>1, <1>4, <2>1
  <2> QED BY <2>1, <2>2 DEF Shown, e
<1>5. CASE m.size < n /\ ~(n <= m.capacity)
  <2> DEFINE capacity == Larger(2 * m.capacity, n)
  <2>1. e.heap = m.heap /\ e.array = [j \in 0 .. capacity - 1 |->
                                       IF j < m.size THEN m.array[j]
                                       ELSE IF j < n THEN NULL ELSE Junk]
    BY <1>1, <1>5 DEF Resize, Grow, Struct
  <2>2. capacity \in Nat /\ n <= capacity
    BY <1>1, <1>5 DEF Larger
  <2> HIDE DEF e, capacity
  <2>3. e.array[i] = IF i < m.size THEN m.array[i] ELSE NULL
    BY <1>1, <2>1, <2>2
  <2> QED BY <2>1, <2>3 DEF Shown, e
<1> QED BY <1>1, <1>2, <1>3, <1>4, <1>5

\* Freeing one entry does not show in the other slots.
LEMMA FreeOneShows ==
  ASSUME NEW m, Good(m), NEW i \in Slots(m), NEW j \in Slots(m) \ {i}
  PROVE  Shown(FreeSlots(m, {i}), j) = Shown(m, j)
<1> DEFINE f == FreeSlots(m, {i})
<1>1. f.array = m.array /\ Live(f) = Live(m) \ {m.array[i]}
  <2>1. {i} \in SUBSET Slots(m) /\ {m.array[k] : k \in {i}} = {m.array[i]}
    OBVIOUS
  <2> QED BY <2>1, FreeOwned
<1>2. m.array[j] # NULL => m.array[j] \in Live(f)
  BY <1>1 DEF Good, Sound, NoDangling, OneOwner
<1>3. m.array[j] # NULL => f.heap[m.array[j]] = m.heap[m.array[j]]
  BY <1>2, FreeKeeps
<1> HIDE DEF f
<1> QED BY <1>1, <1>3 DEF Shown, f

\* A store shows in its slot only.
LEMMA StoreShows ==
  ASSUME NEW m, NEW i, GoodBut(m, i), NEW c \in Entry, NEW p \in Cells \ Live(m),
         NEW j \in Slots(m)
  PROVE  Shown(Store(m, i, c, p), j) = IF j = i THEN c ELSE Shown(m, j)
<1> DEFINE s == Store(m, i, c, p)
<1>1. /\ m.array \in [0 .. m.capacity - 1 -> Cells \cup {NULL, Junk}]
      /\ i \in 0 .. m.capacity - 1 /\ j \in 0 .. m.capacity - 1 /\ p # NULL
  BY DEF GoodBut, Typed, Fits, Slots
<1>2. /\ s.array = [m.array EXCEPT ![i] = IF c = NULL THEN NULL ELSE p]
      /\ s.heap = IF c = NULL THEN m.heap
                  ELSE [q \in Live(m) \cup {p} |-> IF q = p THEN c ELSE m.heap[q]]
  BY DEF Store, Struct
<1> HIDE DEF s
<1>3. CASE j = i
  <2>1. s.array[j] = IF c = NULL THEN NULL ELSE p
    BY <1>1, <1>2, <1>3
  <2> QED BY <1>1, <1>2, <1>3, <2>1 DEF Shown, s
<1>4. CASE j # i
  <2>1. s.array[j] = m.array[j]
    BY <1>1, <1>2, <1>4
  <2>2. m.array[j] # NULL => m.array[j] \in Live(m)
    BY <1>4 DEF GoodBut, But
  <2>3. m.array[j] # NULL => s.heap[m.array[j]] = m.heap[m.array[j]]
    BY <1>2, <2>2
  <2> QED BY <1>4, <2>1, <2>3 DEF Shown, s
<1> QED BY <1>3, <1>4

\* The loops of Memory_insert and Memory_delete move the entries by one slot.
LEMMA ShiftUpShows ==
  ASSUME NEW m, Good(m), NEW i \in Slots(m), NEW j \in Slots(m) \ {i}
  PROVE  Shown(ShiftUp(m, i), j) = Shown(m, IF j < i THEN j ELSE j - 1)
<1>1. /\ m.size \in Nat /\ m.capacity \in Nat /\ m.size <= m.capacity
      /\ m.array \in [0 .. m.capacity - 1 -> Cells \cup {NULL, Junk}]
      /\ Slots(m) = 0 .. m.size - 1
  BY DEF Good, Sound, Typed, Fits, Slots
<1>2. /\ ShiftUp(m, i).heap = m.heap
      /\ ShiftUp(m, i).array[j] = IF j \in i + 1 .. m.size - 1 THEN m.array[j - 1]
                                  ELSE m.array[j]
  BY <1>1 DEF ShiftUp, Struct
<1>3. ShiftUp(m, i).array[j] = m.array[IF j < i THEN j ELSE j - 1]
  BY <1>1, <1>2
<1> QED BY <1>2, <1>3 DEF Shown

LEMMA ShiftDownShows ==
  ASSUME NEW m, NEW i, GoodBut(m, i), NEW j \in 0 .. m.size - 2
  PROVE  Shown(ShiftDown(m, i), j) = Shown(m, IF j < i THEN j ELSE j + 1)
<1>1. /\ m.size \in Nat /\ m.capacity \in Nat /\ m.size <= m.capacity
      /\ m.array \in [0 .. m.capacity - 1 -> Cells \cup {NULL, Junk}]
      /\ i \in 0 .. m.size - 1
  BY DEF GoodBut, Typed, Fits, Slots
<1>2. /\ ShiftDown(m, i).heap = m.heap
      /\ ShiftDown(m, i).array[j] = IF j = m.size - 1 THEN NULL
                                    ELSE IF j \in i .. m.size - 2 THEN m.array[j + 1]
                                    ELSE m.array[j]
  BY <1>1 DEF ShiftDown, Struct
<1>3. ShiftDown(m, i).array[j] = m.array[IF j < i THEN j ELSE j + 1]
  BY <1>1, <1>2
<1> QED BY <1>2, <1>3 DEF Shown
-----------------------------------------------------------------------------
(* The refinement *)

\* The vector a caller sees.
Seen == IF status = "destroyed" THEN [i \in {} |-> NULL] ELSE Contents(memory)

LEMMA SeenNow ==
  ASSUME IInv, status = "alive"
  PROVE  /\ Vector!Length = memory.size /\ DOMAIN Seen = 0 .. memory.size - 1
         /\ \A i : Vector!Old(i) = IF i \in Slots(memory) THEN Shown(memory, i) ELSE NULL
<1>1. memory.size \in 0 .. MAX_SIZE - 1 /\ Slots(memory) = 0 .. memory.size - 1
  BY DEF IInv, TypeOK, Typed, Slots
<1>2. Seen = [i \in Slots(memory) |-> Shown(memory, i)]
  BY DEF Seen, Contents, Shown
<1>3. DOMAIN Seen = 0 .. memory.size - 1
  BY <1>1, <1>2
<1>4. Vector!Length = CHOOSE n \in 0 .. MAX_SIZE : DOMAIN Seen = 0 .. n - 1
  BY DEF Vector!Length, Seen
<1>5. \A n \in 0 .. MAX_SIZE : DOMAIN Seen = 0 .. n - 1 <=> n = memory.size
  <2> SUFFICES ASSUME NEW n \in 0 .. MAX_SIZE, 0 .. memory.size - 1 = 0 .. n - 1
               PROVE  n = memory.size
    BY <1>3
  <2>1. CASE n < memory.size
    BY <1>1, <2>1
  <2>2. CASE memory.size < n
    BY <1>1, <2>2
  <2> QED BY <1>1, <2>1, <2>2
<1>6. Vector!Length = memory.size
  BY <1>1, <1>4, <1>5
<1>7. \A i : Vector!Old(i) = IF i \in DOMAIN Seen THEN Seen[i] ELSE NULL
  BY DEF Vector!Old, Seen
<1> QED BY <1>1, <1>2, <1>3, <1>6, <1>7

\* An operation that returns shows the entries of its struct.
LEMMA SeenNext ==
  ASSUME NEW m, NEW n, status = "alive", Returns(m), m.size = n
  PROVE  /\ Seen' = [i \in 0 .. n - 1 |-> Shown(m, i)]
         /\ status' = "alive" /\ ret' = ret
BY DEF Returns, Seen, Contents, Shown, Slots

LEMMA ResizeRefines ==
  ASSUME IInv, NEW n \in 0 .. MAX_SIZE, Memory_resize(n), n < MAX_SIZE
  PROVE  Vector!AbsResize(n)
<1>1. status = "alive" /\ Returns(Resize(memory, n)) /\ Good(memory) /\ n \in 0 .. MAX_SIZE - 1
  BY DEF Memory_resize, IInv
<1>2. Resize(memory, n).size = n
  BY <1>1, ResizeGood
<1>3. /\ Seen' = [i \in 0 .. n - 1 |-> Shown(Resize(memory, n), i)]
      /\ status' = "alive" /\ ret' = ret
  BY <1>1, <1>2, SeenNext
<1>4. ASSUME NEW i \in 0 .. n - 1
      PROVE  Shown(Resize(memory, n), i) = Vector!Old(i)
  <2>1. i \in Slots(memory) <=> i < memory.size
    BY <1>1 DEF Slots, Good, Typed
  <2> QED BY <1>1, <2>1, ResizeShows, SeenNow
<1>5. Seen' = [i \in 0 .. n - 1 |-> Vector!Old(i)]
  BY <1>3, <1>4
<1> QED BY <1>1, <1>3, <1>5, Zenon DEF Vector!AbsResize, Vector!Becomes, Seen
LEMMA SetRefines ==
  ASSUME IInv, NEW i \in 0 .. MAX_SIZE, NEW c \in Entry, Memory_set(i, c), i < memory.size
  PROVE  Vector!AbsSet(i, c)
<1> DEFINE f == FreeSlots(memory, {i})
           n == memory.size
<1>1. status = "alive" /\ Good(memory) /\ i \in Slots(memory)
      /\ n \in 0 .. MAX_SIZE - 1 /\ Slots(memory) = 0 .. n - 1
  BY DEF Memory_set, IInv, Good, Typed, Slots
<1>2. PICK p \in Cells \ Live(f) : Returns(Store(f, i, c, p))
  BY DEF Memory_set
<1>3. GoodBut(f, i) /\ f.size = n
  BY <1>1, FreeOneGood
<1>4. Slots(f) = Slots(memory) /\ Store(f, i, c, p).size = n
  BY <1>3 DEF Slots, Store, Struct
<1>5. /\ Seen' = [j \in 0 .. n - 1 |-> Shown(Store(f, i, c, p), j)]
      /\ status' = "alive" /\ ret' = ret
  BY <1>1, <1>2, <1>4, SeenNext
<1>6. ASSUME NEW j \in 0 .. n - 1
      PROVE  Shown(Store(f, i, c, p), j) = IF j = i THEN c ELSE Vector!Old(j)
  <2>1. Vector!Old(j) = Shown(memory, j)
    BY <1>1, SeenNow
  <2>2. j # i => Shown(f, j) = Shown(memory, j)
    BY <1>1, FreeOneShows
  <2> HIDE DEF f
  <2>3. Shown(Store(f, i, c, p), j) = IF j = i THEN c ELSE Shown(f, j)
    BY <1>1, <1>3, <1>4, StoreShows
  <2> QED BY <2>1, <2>2, <2>3
<1>7. Seen' = [j \in 0 .. n - 1 |-> IF j = i THEN c ELSE Vector!Old(j)]
  BY <1>5, <1>6
<1>8. i \in DOMAIN Seen /\ Vector!Length = n /\ n < MAX_SIZE
  BY <1>1, SeenNow
<1> HIDE DEF n
<1> QED BY <1>1, <1>5, <1>7, <1>8, Zenon DEF Vector!AbsSet, Vector!Becomes, Seen

\* The insertion that the gap makes room for; an append is one at the end.
LEMMA InsertRefines ==
  ASSUME IInv, status = "alive", NEW i \in 0 .. MAX_SIZE, NEW c \in Entry,
         NEW n, n = InsertSize(memory, i), n < MAX_SIZE,
         NEW p \in Cells \ Live(Resize(memory, n)),
         Returns(Store(ShiftUp(Resize(memory, n), i), i, c, p))
  PROVE  Vector!AbsInsert(i, c)
<1> DEFINE m == Resize(memory, n)
           u == ShiftUp(m, i)
<1>1. Good(memory) /\ memory.size \in Nat /\ Slots(memory) = 0 .. memory.size - 1
  BY DEF IInv, Good, Typed, Slots
<1>2. n \in 0 .. MAX_SIZE - 1 /\ memory.size < n /\ i \in 0 .. n - 1
      /\ n - 1 \in memory.size .. n - 1
  BY <1>1 DEF InsertSize
<1>3. Good(m) /\ m.size = n /\ m.array[n - 1] = NULL
  BY <1>1, <1>2, ResizeGood
<1>4. \A j \in 0 .. n - 1 : Shown(m, j) = Vector!Old(j)
  <2> SUFFICES ASSUME NEW j \in 0 .. n - 1 PROVE Shown(m, j) = Vector!Old(j)
    OBVIOUS
  <2>1. j \in Slots(memory) <=> j < memory.size
    BY <1>1, <1>2
  <2>2. Shown(m, j) = IF j < memory.size THEN Shown(memory, j) ELSE NULL
    BY <1>1, <1>2, ResizeShows
  <2> HIDE DEF m
  <2> QED BY <2>1, <2>2, SeenNow
<1>5. p \in Cells \ Live(m)
  OBVIOUS
<1> HIDE DEF m
<1>6. i \in Slots(m) /\ m.array[m.size - 1] = NULL /\ Slots(m) = 0 .. n - 1
  BY <1>2, <1>3 DEF Slots
<1>7. GoodBut(u, i) /\ Slots(u) = Slots(m) /\ Live(u) = Live(m)
  BY <1>3, <1>6, ShiftUpGood DEF ShiftUp, Struct, Slots, Live
<1>8. Returns(Store(u, i, c, p)) /\ Store(u, i, c, p).size = n
  BY <1>3 DEF ShiftUp, Store, Struct, m
<1>9. /\ Seen' = [j \in 0 .. n - 1 |-> Shown(Store(u, i, c, p), j)]
      /\ status' = "alive" /\ ret' = ret
  BY <1>8, SeenNext
<1>10. ASSUME NEW j \in 0 .. n - 1
       PROVE  Shown(Store(u, i, c, p), j) =
                IF j < i THEN Vector!Old(j) ELSE IF j = i THEN c ELSE Vector!Old(j - 1)
  <2>1. j # i => Shown(u, j) = Shown(m, IF j < i THEN j ELSE j - 1)
    BY <1>3, <1>6, ShiftUpShows
  <2> HIDE DEF u
  <2>2. Shown(Store(u, i, c, p), j) = IF j = i THEN c ELSE Shown(u, j)
    <3>1. p \in Cells \ Live(u) /\ j \in Slots(u) /\ GoodBut(u, i)
      BY <1>5, <1>6, <1>7
    <3> QED BY <3>1, StoreShows
  <2>3. j > i => j - 1 \in 0 .. n - 1
    BY <1>2
  <2> QED BY <1>2, <1>4, <2>1, <2>2, <2>3
<1> HIDE DEF u
<1>11. Seen' = [j \in 0 .. n - 1 |-> IF j < i THEN Vector!Old(j)
                                     ELSE IF j = i THEN c ELSE Vector!Old(j - 1)]
  BY <1>9, <1>10
<1>12. n = IF i < Vector!Length THEN Vector!Length + 1 ELSE i + 1
  BY SeenNow DEF InsertSize
<1> QED BY <1>9, <1>11, <1>12, Zenon DEF Vector!AbsInsert, Vector!Becomes, Seen

LEMMA AppendRefines ==
  ASSUME IInv, NEW c \in Entry, Memory_append(c), memory.size + 1 < MAX_SIZE
  PROVE  Vector!AbsAppend(c)
<1> DEFINE n == memory.size + 1
           m == Resize(memory, n)
           i == memory.size
<1>1. status = "alive" /\ Good(memory) /\ memory.size \in Nat /\ memory.size < MAX_SIZE
  BY DEF Memory_append, IInv, Good, Typed
<1>2. PICK p \in Cells \ Live(m) : Returns(Store(m, m.size - 1, c, p))
  BY DEF Memory_append
<1>3. n \in 0 .. MAX_SIZE - 1 /\ n = InsertSize(memory, i) /\ i \in 0 .. MAX_SIZE
  BY <1>1 DEF InsertSize
<1>4. m.size = n /\ Good(m)
  BY <1>1, <1>3, ResizeGood
<1>5. m.size - 1 = i
  BY <1>1, <1>4
<1>6. ShiftUp(m, i) = m
  <2>1. i + 1 .. m.size - 1 = {}
    BY <1>1, <1>5
  <2>2. /\ m.array = [j \in DOMAIN m.array |-> m.array[j]]
    BY <1>4 DEF Good, Typed
  <2>3. m = Struct(m.array, m.size, m.capacity, m.heap, m.bad)
    <3>1. m = Extend(memory, n) \/ m = Grow(memory, n)
      BY <1>1 DEF Resize
    <3> QED BY <3>1 DEF Extend, Grow, Struct
  <2> HIDE DEF m, i
  <2> QED BY <2>1, <2>2, <2>3 DEF ShiftUp
<1>7. Vector!AbsInsert(i, c)
  BY <1>1, <1>2, <1>3, <1>5, <1>6, InsertRefines
<1>8. Vector!Length = i
  BY <1>1, SeenNow
<1> QED BY <1>7, <1>8 DEF Vector!AbsAppend

LEMMA DeleteRefines ==
  ASSUME IInv, NEW i \in 0 .. MAX_SIZE, Memory_delete(i), i < memory.size
  PROVE  Vector!AbsDelete(i)
<1> DEFINE n == memory.size - 1
<1>1. /\ status = "alive" /\ Good(memory) /\ i \in Slots(memory)
      /\ n \in 0 .. MAX_SIZE - 1 /\ memory.size = n + 1 /\ Slots(memory) = 0 .. n
  BY DEF Memory_delete, IInv, Good, Typed, Slots
<1> HIDE DEF n
<1>2. /\ Seen' = [j \in 0 .. n - 1 |-> IF j < i THEN Vector!Old(j) ELSE Vector!Old(j + 1)]
      /\ status' = "alive" /\ ret' = ret
  <2>1. CASE i = n
    <3>1. Returns(Resize(memory, n))
      BY <1>1, <2>1 DEF Memory_delete
    <3>2. Resize(memory, n).size = n
      BY <1>1, ResizeGood
    <3>3. /\ Seen' = [j \in 0 .. n - 1 |-> Shown(Resize(memory, n), j)]
          /\ status' = "alive" /\ ret' = ret
      BY <1>1, <3>1, <3>2, SeenNext
    <3>4. ASSUME NEW j \in 0 .. n - 1
          PROVE  j < i /\ Shown(Resize(memory, n), j) = Vector!Old(j)
      <4>1. j < i /\ j < memory.size /\ j \in Slots(memory)
        BY <1>1, <2>1
      <4>2. Shown(Resize(memory, n), j) = Shown(memory, j)
        BY <1>1, <4>1, ResizeShows
      <4> QED BY <1>1, <4>1, <4>2, SeenNow
    <3> QED BY <3>3, <3>4
  <2>2. CASE i # n
    <3> DEFINE f == FreeSlots(memory, {i})
               d == ShiftDown(f, i)
    <3>1. Returns(Resize(d, d.size - 1))
      BY <1>1, <2>2 DEF Memory_delete
    <3>2. GoodBut(f, i) /\ f.size = n + 1
      BY <1>1, FreeOneGood
    <3>3. Good(d) /\ d.size = n + 1
      <4> HIDE DEF f
      <4> QED BY <3>2, ShiftDownGood
    <3>4. \A j \in Slots(memory) \ {i} : Shown(f, j) = Vector!Old(j)
      BY <1>1, FreeOneShows, SeenNow
    <3> HIDE DEF f
    <3>5. ASSUME NEW j \in 0 .. n - 1
          PROVE  Shown(d, j) = IF j < i THEN Vector!Old(j) ELSE Vector!Old(j + 1)
      <4>1. j \in 0 .. f.size - 2
        BY <1>1, <3>2
      <4>2. Shown(d, j) = Shown(f, IF j < i THEN j ELSE j + 1)
        BY <3>2, <4>1, ShiftDownShows
      <4>3. (IF j < i THEN j ELSE j + 1) \in Slots(memory) \ {i}
        BY <1>1
      <4> HIDE DEF d
      <4> QED BY <3>4, <4>2, <4>3
    <3> HIDE DEF d
    <3>6. d.size - 1 = n
      BY <1>1, <3>3
    <3>7. Resize(d, n).size = n
      BY <1>1, <3>3, ResizeGood
    <3>8. /\ Seen' = [j \in 0 .. n - 1 |-> Shown(Resize(d, n), j)]
          /\ status' = "alive" /\ ret' = ret
      BY <1>1, <3>1, <3>6, <3>7, SeenNext
    <3>9. \A j \in 0 .. n - 1 : Shown(Resize(d, n), j) = Shown(d, j)
      <4>1. \A j \in 0 .. n - 1 : j < d.size
        BY <1>1, <3>3
      <4> QED BY <1>1, <3>3, <4>1, ResizeShows
    <3> QED BY <3>5, <3>8, <3>9
  <2> QED BY <2>1, <2>2
<1>3. i \in DOMAIN Seen /\ Vector!Length - 1 = n /\ n < MAX_SIZE
  BY <1>1, SeenNow
<1> QED BY <1>1, <1>2, <1>3, Zenon DEF Vector!AbsDelete, Vector!Becomes, Seen

\* A lookup finds the entry of its slot, or NULL outside the vector.
LEMMA GetRefines ==
  ASSUME IInv, NEW i \in 0 .. MAX_SIZE, Memory_get(i),
         ~(i < memory.size /\ memory.array[i] = NULL)
  PROVE  Vector!AbsGet(i)
<1>1. /\ status = "alive" /\ UNCHANGED <<memory, status>>
      /\ ret' = IF i < memory.size THEN memory.heap[memory.array[i]] ELSE NULL
  BY DEF Memory_get
<1>2. i \in Slots(memory) <=> i < memory.size
  BY DEF IInv, TypeOK, Typed, Slots
<1>3. ret' = Vector!Old(i)
  BY <1>1, <1>2, SeenNow DEF Shown
<1>4. Seen' = Seen
  BY <1>1 DEF Seen, Contents, Slots
<1> QED BY <1>1, <1>3, <1>4, Zenon DEF Vector!AbsGet, Seen

LEMMA EndRefines ==
  ASSUME status = "alive", status' # "alive", ret' = ret
  PROVE  Vector!AbsEnd
BY DEF Vector!AbsEnd

\* Every sequence of calls has the effect mem.h states on the vector of cells,
\* whichever way Memory_resize goes and whatever stale pointers stay behind.
THEOREM MemoryImplements == Spec => ImplementsVector
<1>1. Init => Vector!AbsInit
  <2> SUFFICES ASSUME Init PROVE Vector!AbsInit
    OBVIOUS
  <2>1. memory.size = 0 /\ status = "alive" /\ ret = NULL
    BY DEF Init, Create, Struct
  <2>2. Slots(memory) = 0 .. 0 - 1 /\ 0 .. 0 - 1 = {}
    BY <2>1 DEF Slots
  <2>3. Seen = [i \in 0 .. 0 - 1 |-> NULL]
    BY <2>1, <2>2 DEF Seen, Contents
  <2> QED BY <2>1, <2>3 DEF Vector!AbsInit, Seen
<1>2. IInv /\ [Next]_vars => [Vector!AbsNext]_(Vector!absVars)
  <2> SUFFICES ASSUME IInv, [Next]_vars PROVE [Vector!AbsNext]_(Vector!absVars)
    OBVIOUS
  <2>1. Vector!Entry = Entry
    BY DEF Vector!Entry, Entry
  <2>2. ASSUME status = "alive", Abort PROVE Vector!AbsNext
    BY <2>2, EndRefines DEF Abort, Vector!AbsNext
  <2>3. ASSUME NEW n \in 0 .. MAX_SIZE, Memory_resize(n) PROVE Vector!AbsNext
    BY <2>2, <2>3, ResizeRefines DEF Memory_resize, Vector!AbsNext
  <2>4. ASSUME NEW i \in 0 .. MAX_SIZE, NEW c \in Entry, Memory_set(i, c)
        PROVE  Vector!AbsNext
    BY <2>1, <2>2, <2>4, SetRefines DEF Memory_set, Vector!AbsNext
  <2>5. ASSUME NEW i \in 0 .. MAX_SIZE, Memory_get(i) PROVE Vector!AbsNext
    BY <2>2, <2>5, GetRefines DEF Memory_get, Vector!AbsNext
  <2>6. ASSUME NEW i \in 0 .. MAX_SIZE, NEW c \in Entry, Memory_insert(i, c)
        PROVE  Vector!AbsNext
    BY <2>1, <2>2, <2>6, InsertRefines DEF Memory_insert, Vector!AbsNext
  <2>7. ASSUME NEW i \in 0 .. MAX_SIZE, Memory_delete(i) PROVE Vector!AbsNext
    BY <2>2, <2>7, DeleteRefines DEF Memory_delete, Vector!AbsNext
  <2>8. ASSUME NEW c \in Entry, Memory_append(c) PROVE Vector!AbsNext
    BY <2>1, <2>2, <2>8, AppendRefines DEF Memory_append, Vector!AbsNext
  <2>9. CASE Memory_destroy
    BY <2>9, EndRefines DEF Memory_destroy, Vector!AbsNext
  <2>10. CASE Terminated \/ UNCHANGED vars
    <3>1. UNCHANGED <<memory, status, ret>>
      BY <2>10 DEF Terminated, vars
    <3>2. UNCHANGED Seen
      BY <3>1 DEF Seen, Contents, Slots
    <3> QED BY <3>1, <3>2, Zenon DEF Vector!absVars, Seen
  <2> QED BY <2>3, <2>4, <2>5, <2>6, <2>7, <2>8, <2>9, <2>10 DEF Next
<1> QED BY <1>1, <1>2, Invariance, PTL DEF Spec, ImplementsVector, Vector!AbsSpec
=============================================================================

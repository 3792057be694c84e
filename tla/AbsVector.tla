----------------------------- MODULE AbsVector -----------------------------
(***************************************************************************)
(* What a Memory promises its callers (src/include/mem.h): a vector of     *)
(* cells and NULLs that grows and shrinks, without arrays, capacities or   *)
(* pointers.  A call outside its precondition ends the process.            *)
(***************************************************************************)
EXTENDS Integers

CONSTANTS Content,  \* what a cell holds
          NULL,
          MAX_SIZE

VARIABLES vec, alive, result

Entry  == Content \cup {NULL}
Length == CHOOSE n \in 0 .. MAX_SIZE : DOMAIN vec = 0 .. n - 1
absVars == <<vec, alive, result>>

AbsInit == vec = [i \in 0 .. 0 - 1 |-> NULL] /\ alive = TRUE /\ result = NULL

Becomes(n, At(_)) ==
  /\ alive /\ n < MAX_SIZE
  /\ vec' = [i \in 0 .. n - 1 |-> At(i)]
  /\ UNCHANGED <<alive, result>>

Old(i) == IF i \in DOMAIN vec THEN vec[i] ELSE NULL

AbsResize(n) == Becomes(n, Old)

AbsSet(k, c) ==
  LET At(i) == IF i = k THEN c ELSE Old(i)
  IN  k \in DOMAIN vec /\ Becomes(Length, At)

AbsInsert(k, c) ==
  LET At(i) == IF i < k THEN Old(i) ELSE IF i = k THEN c ELSE Old(i - 1)
  IN  Becomes(IF k < Length THEN Length + 1 ELSE k + 1, At)

AbsDelete(k) ==
  LET At(i) == IF i < k THEN Old(i) ELSE Old(i + 1)
  IN  k \in DOMAIN vec /\ Becomes(Length - 1, At)

AbsAppend(c) == AbsInsert(Length, c)

\* A lookup outside the vector finds NULL
AbsGet(k) == alive /\ result' = Old(k) /\ UNCHANGED <<vec, alive>>

\* An abort or a destroy; the entries are gone
AbsEnd == alive /\ alive' = FALSE /\ UNCHANGED result

AbsNext ==
  \/ \E k \in 0 .. MAX_SIZE : AbsResize(k) \/ AbsDelete(k) \/ AbsGet(k)
  \/ \E k \in 0 .. MAX_SIZE, c \in Entry : AbsSet(k, c) \/ AbsInsert(k, c)
  \/ \E c \in Entry : AbsAppend(c)
  \/ AbsEnd

AbsSpec == AbsInit /\ [][AbsNext]_absVars
=============================================================================

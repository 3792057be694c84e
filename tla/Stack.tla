------------------------------- MODULE Stack --------------------------------
(***************************************************************************)
(* The stack of the virtual machine (src/src/stack.c), a linked list of    *)
(* heap nodes with a count, and state_dump (src/src/logging.c), which      *)
(* takes the whole stack apart and builds it again by way of a second one. *)
(* An operation of stack.h is one action, an iteration of a loop of the    *)
(* dump too; nothing else runs before the dump is finished.                *)
(***************************************************************************)
EXTENDS Integers, Sequences, FiniteSets

CONSTANTS Nodes,  \* the addresses malloc may return
          Vals,   \* words
          NULL,
          NoVal   \* nothing has been returned yet

ASSUME StackAssumption ==
  IsFiniteSet(Nodes) /\ NULL \notin Nodes /\ NoVal \notin Vals

VARIABLES heap,   \* node -> its val and next
          stk,    \* the struct of the VM's stack
          tmp,    \* the struct of the dump's stack
          tmp_at, \* the address Stack_create took for it, NULL outside a dump
          phase,  \* the dump's loop: "out", "back", or "idle" outside a dump
          i,      \* its index
          stk_size, \* the number of elements the dump started with
          status, \* "alive", "abort" or "destroyed"
          ret     \* what a pop or a peek has returned last

dumpVars == <<tmp, tmp_at, phase, i, stk_size>>
vars     == <<heap, stk, dumpVars, status, ret>>

MaxNodes == Cardinality(Nodes)
Struct   == [head : Nodes \cup {NULL}, num_elements : 0 .. MaxNodes]
Stack_create == [head |-> NULL, num_elements |-> 0]

TypeOK ==
  /\ \E live \in SUBSET Nodes : heap \in [live -> [val : Vals, next : Nodes \cup {NULL}]]
  /\ stk \in Struct /\ tmp \in Struct /\ tmp_at \in Nodes \cup {NULL}
  /\ phase \in {"idle", "out", "back"}
  /\ i \in 0 .. MaxNodes /\ stk_size \in 0 .. MaxNodes
  /\ status \in {"alive", "abort", "destroyed"}
  /\ ret \in Vals \cup {NoVal}

Init ==
  /\ heap = [n \in {} |-> NULL]
  /\ stk = Stack_create /\ tmp = Stack_create /\ tmp_at = NULL
  /\ phase = "idle" /\ i = 0 /\ stk_size = 0
  /\ status = "alive" /\ ret = NoVal

-----------------------------------------------------------------------------
(* The list *)

\* What malloc may return when the nodes of h are taken; nothing on a full heap
Room(h) == Nodes \ (DOMAIN h \cup {tmp_at})

Free(h, freed) == [n \in DOMAIN h \ freed |-> h[n]]

\* node n is put in front of s
Pushed(s, n)        == [head |-> n, num_elements |-> s.num_elements + 1]
WithNode(h, s, n, v) ==
  [m \in DOMAIN h \cup {n} |-> IF m = n THEN [val |-> v, next |-> s.head] ELSE h[m]]

\* A slip: the head is not freed
PopFreesNothing(s) == heap

Popped(s)   == [head |-> heap[s.head].next, num_elements |-> s.num_elements - 1]
PopFrees(s) == Free(heap, {s.head})

\* c is the list from a head on: next leads from node to node, and at last to
\* NULL, where the loops of stack.c stop
IsChain(h, head, c) ==
  /\ \A k \in DOMAIN c : c[k] \in DOMAIN h
  /\ \A j, k \in DOMAIN c : c[j] = c[k] => j = k
  /\ head = IF c = <<>> THEN NULL ELSE c[1]
  /\ \A k \in DOMAIN c : h[c[k]].next = IF k = Len(c) THEN NULL ELSE c[k + 1]

\* The nodes of s from the top down, and their values
Lists            == UNION {[1 .. n -> Nodes] : n \in 0 .. MaxNodes}
Chain(h, s)      == CHOOSE c \in Lists : IsChain(h, s.head, c)
ChainNodes(h, s) == {Chain(h, s)[k] : k \in DOMAIN Chain(h, s)}
Contents(h, s)   == [k \in DOMAIN Chain(h, s) |-> h[Chain(h, s)[k]].val]

-----------------------------------------------------------------------------
(* The operations of stack.h *)

Ready == status = "alive" /\ phase = "idle"

Stack_push(v) ==
  /\ Ready
  /\ \E n \in Room(heap) :
       heap' = WithNode(heap, stk, n, v) /\ stk' = Pushed(stk, n)
  /\ UNCHANGED <<dumpVars, status, ret>>

Stack_pop ==
  /\ Ready /\ stk.num_elements > 0
  /\ ret' = heap[stk.head].val
  /\ stk' = Popped(stk) /\ heap' = PopFrees(stk)
  /\ UNCHANGED <<dumpVars, status>>

\* A slip: the walk starts one node further, and may find none
Stack_peekNext(idx) ==
  /\ Ready /\ stk.num_elements > idx
  /\ ret' = IF idx + 2 \in DOMAIN Contents(heap, stk) THEN Contents(heap, stk)[idx + 2] ELSE NULL
  /\ UNCHANGED <<heap, stk, dumpVars, status>>

\* The assertion comes first, so that the walk past the last node, which would
\* return -1, is not reached
Stack_peek(idx) ==
  /\ Ready /\ stk.num_elements > idx
  /\ ret' = Contents(heap, stk)[idx + 1]
  /\ UNCHANGED <<heap, stk, dumpVars, status>>

\* A slip: the loop looks one node ahead and leaves the last one
Stack_destroyShort ==
  /\ Ready /\ status' = "destroyed"
  /\ heap' = Free(heap, {n \in ChainNodes(heap, stk) : heap[n].next # NULL})
  /\ UNCHANGED <<stk, dumpVars, ret>>

\* The loop frees node after node along next (shutdown_vm)
Stack_destroy ==
  /\ Ready /\ status' = "destroyed"
  /\ heap' = Free(heap, ChainNodes(heap, stk))
  /\ UNCHANGED <<stk, dumpVars, ret>>

-----------------------------------------------------------------------------
(* state_dump *)

\* The second stack's struct needs room of its own
Dump ==
  /\ Ready
  /\ tmp_at' \in Room(heap) /\ tmp' = Stack_create
  /\ phase' = "out" /\ i' = 0 /\ stk_size' = stk.num_elements
  /\ UNCHANGED <<heap, stk, status, ret>>

More == i < stk_size

\* pop from one, push on the other; malloc may return the node just freed
DumpOut ==
  /\ status = "alive" /\ phase = "out" /\ More /\ stk.num_elements > 0
  /\ \E n \in Room(PopFrees(stk)) :
       /\ heap' = WithNode(PopFrees(stk), tmp, n, heap[stk.head].val)
       /\ tmp' = Pushed(tmp, n)
  /\ stk' = Popped(stk) /\ i' = i + 1
  /\ UNCHANGED <<tmp_at, phase, stk_size, status, ret>>

\* A slip: the second stack becomes the VM's instead of being emptied into it
DumpTurnSwaps ==
  /\ status = "alive" /\ phase = "out" /\ ~More
  /\ phase' = "back" /\ i' = stk_size /\ stk' = tmp /\ tmp' = stk
  /\ UNCHANGED <<heap, tmp_at, stk_size, status, ret>>

DumpTurn ==
  /\ status = "alive" /\ phase = "out" /\ ~More
  /\ phase' = "back" /\ i' = 0
  /\ UNCHANGED <<heap, stk, tmp, tmp_at, stk_size, status, ret>>

DumpBack ==
  /\ status = "alive" /\ phase = "back" /\ More /\ tmp.num_elements > 0
  /\ \E n \in Room(PopFrees(tmp)) :
       /\ heap' = WithNode(PopFrees(tmp), stk, n, heap[tmp.head].val)
       /\ stk' = Pushed(stk, n)
  /\ tmp' = Popped(tmp) /\ i' = i + 1
  /\ UNCHANGED <<tmp_at, phase, stk_size, status, ret>>

\* The second stack must be empty before it is destroyed
DumpEnd ==
  /\ status = "alive" /\ phase = "back" /\ ~More /\ tmp.num_elements = 0
  /\ heap' = Free(heap, ChainNodes(heap, tmp)) /\ tmp_at' = NULL
  /\ phase' = "idle" /\ i' = 0 /\ stk_size' = 0
  /\ UNCHANGED <<stk, tmp, status, ret>>

\* A pop from s and the push that follows it: a failed assertion of either
MoveFails(s) == More /\ (s.num_elements = 0 \/ Room(PopFrees(s)) = {})

\* A failed assertion. Outside a dump: a pop from an empty stack, a peek past the
\* end, a push without room; a dump without room writes through the NULL that
\* Stack_create's malloc has returned. In a dump: that of either call in a loop,
\* or a second stack with elements at the end.
Abort ==
  /\ status = "alive"
  /\ \/ phase = "idle" /\ (stk.num_elements = 0 \/ Room(heap) = {})
     \/ phase = "idle" /\ \E idx \in 0 .. MaxNodes : stk.num_elements <= idx
     \/ phase = "out" /\ MoveFails(stk)
     \/ phase = "back" /\ MoveFails(tmp)
     \/ phase = "back" /\ ~More /\ tmp.num_elements > 0
  /\ status' = "abort"
  /\ UNCHANGED <<heap, stk, dumpVars, ret>>

Terminated == status # "alive" /\ UNCHANGED vars

Next ==
  \/ \E v \in Vals : Stack_push(v)
  \/ \E idx \in 0 .. MaxNodes - 1 : Stack_peek(idx)
  \/ Stack_pop \/ Stack_destroy
  \/ Dump \/ DumpOut \/ DumpTurn \/ DumpBack \/ DumpEnd
  \/ Abort \/ Terminated

Spec == Init /\ [][Next]_vars

-----------------------------------------------------------------------------
(* Properties *)

\* While the process lives, each node malloc has handed out is in exactly one of
\* the two lists, each list is as long as its count and ends in NULL: no leak, no
\* shared tail, no pointer to a freed node, in the middle of a dump as well, and
\* none of them is the struct that a dump, and only a dump, holds beside them.
NodesOwned ==
  status = "alive" =>
    /\ \A s \in {stk, tmp} : /\ \E c \in Lists : IsChain(heap, s.head, c)
                             /\ Len(Chain(heap, s)) = s.num_elements
    /\ ChainNodes(heap, stk) \cap ChainNodes(heap, tmp) = {}
    /\ ChainNodes(heap, stk) \cup ChainNodes(heap, tmp) = DOMAIN heap
    /\ tmp_at \notin DOMAIN heap /\ (tmp_at = NULL <=> phase = "idle")

\* shutdown_vm after any mixture of calls gives every node back.
DestroyFreesAll == status = "destroyed" => DOMAIN heap = {} /\ tmp_at = NULL

\* Once the dump has its second stack it ends: no assertion fails in it
\* (logging.c:276 and those of Stack_pop and Stack_push), on a heap without room
\* either, since each push finds the room that the pop before it has made. (On a
\* full heap the dump dies at its start, see Abort.)
DumpNeverAborts == [][phase # "idle" => status' = "alive"]_vars

Reversed(s) == [k \in DOMAIN s |-> s[Len(s) + 1 - k]]

\* The stack a caller sees: during a dump, the second stack bottom up and below
\* it the rest of the first, so that a dump changes nothing.
Abstract == INSTANCE AbsStack WITH
  content  <- IF status = "alive" THEN Reversed(Contents(heap, tmp)) \o Contents(heap, stk) ELSE <<>>,
  alive    <- status = "alive",
  returned <- ret

\* Nodes, count and the detour of the dump implement last in, first out.
ImplementsStack == Abstract!AbsSpec
=============================================================================

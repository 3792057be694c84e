---------------------------- MODULE StackProofs -----------------------------
(***************************************************************************)
(* Theorems about the stack and the dump, for every set of nodes and words.*)
(***************************************************************************)
EXTENDS Stack, NatLemmas, FiniteSetTheorems, TLAPS

-----------------------------------------------------------------------------
(* Lists in a heap *)

LEMMA ListSequences ==
  ASSUME NEW c \in Lists
  PROVE  c \in Seq(Nodes) /\ DOMAIN c = 1 .. Len(c) /\ Len(c) \in Nat
BY DEF Lists

\* A list without a repetition is no longer than there are nodes.
LEMMA ListBound ==
  ASSUME NEW c \in Seq(Nodes), \A j, k \in DOMAIN c : c[j] = c[k] => j = k
  PROVE  c \in Lists /\ Len(c) <= MaxNodes
<1>1. c \in [1 .. Len(c) -> Nodes] /\ Len(c) \in Nat
  OBVIOUS
<1>2. c \in Injection(1 .. Len(c), Nodes)
  BY <1>1 DEF Injection, IsInjective
<1>3. Cardinality(1 .. Len(c)) <= Cardinality(Nodes)
  BY <1>2, FS_Injection, StackAssumption DEF StackAssumption
<1>4. \A n \in Nat : Cardinality(1 .. n) = n
  BY FS_Interval
<1> QED BY <1>1, <1>3, <1>4, FS_CardinalityType, StackAssumption DEF Lists, MaxNodes, StackAssumption

\* Two lists from the same head agree as far as the first one goes.
LEMMA SameSoFar ==
  ASSUME NEW h, NEW x, NEW c \in Lists, NEW d \in Lists, IsChain(h, x, c), IsChain(h, x, d),
         NEW k \in DOMAIN c
  PROVE  k \in DOMAIN d /\ c[k] = d[k]
<1> DEFINE T == {j \in DOMAIN c : ~(j \in DOMAIN d /\ c[j] = d[j])}
<1>1. SUFFICES ASSUME T # {} PROVE FALSE
  OBVIOUS
<1>2. /\ c \in Seq(Nodes) /\ DOMAIN c = 1 .. Len(c) /\ Len(c) \in Nat
      /\ d \in Seq(Nodes) /\ DOMAIN d = 1 .. Len(d) /\ Len(d) \in Nat
  BY ListSequences
<1>3. PICK m \in T : \A j \in T : m <= j
  <2>1. T \in SUBSET Nat
    BY <1>2
  <2> HIDE DEF T
  <2> QED BY <1>1, <2>1, LeastElement
<1>4. c[m] \in Nodes /\ c[m] # NULL
  BY <1>2, StackAssumption DEF StackAssumption
<1>5. CASE m = 1
  BY <1>2, <1>4, <1>5 DEF IsChain
<1>6. CASE m # 1
  <2>1. m - 1 \in DOMAIN c /\ m - 1 \in DOMAIN d /\ c[m - 1] = d[m - 1]
    BY <1>2, <1>3, <1>6
  <2>2. h[c[m - 1]].next = c[m]
    BY <1>2, <1>6, <2>1 DEF IsChain
  <2>3. m \in DOMAIN d /\ d[m] = c[m]
    BY <1>2, <1>4, <2>1, <2>2 DEF IsChain
  <2> QED BY <2>3
<1> QED BY <1>5, <1>6

\* The list from a head is the one that Chain chooses.
LEMMA ChainUnique ==
  ASSUME NEW h, NEW s, NEW c \in Lists, IsChain(h, s.head, c)
  PROVE  Chain(h, s) = c
<1>1. Chain(h, s) \in Lists /\ IsChain(h, s.head, Chain(h, s))
  BY DEF Chain
<1> DEFINE d == Chain(h, s)
<1>2. /\ c \in Seq(Nodes) /\ DOMAIN c = 1 .. Len(c) /\ Len(c) \in Nat
      /\ d \in Seq(Nodes) /\ DOMAIN d = 1 .. Len(d) /\ Len(d) \in Nat
  BY <1>1, ListSequences
<1>3. \A k \in DOMAIN c : k \in DOMAIN d /\ c[k] = d[k]
  BY <1>1, SameSoFar
<1>4. \A k \in DOMAIN d : k \in DOMAIN c /\ c[k] = d[k]
  BY <1>1, SameSoFar
<1> HIDE DEF d
<1>5. Len(c) = Len(d)
  <2>1. Len(c) = 0 \/ Len(c) \in 1 .. Len(d)
    BY <1>2, <1>3
  <2>2. Len(d) = 0 \/ Len(d) \in 1 .. Len(c)
    BY <1>2, <1>4
  <2>3. \A m, n \in Nat : (m = 0 \/ m \in 1 .. n) /\ (n = 0 \/ n \in 1 .. m) => m = n
    OBVIOUS
  <2> QED BY <1>2, <2>1, <2>2, <2>3
<1>6. c = d
  BY <1>2, <1>3, <1>5
<1> QED BY <1>6 DEF d

-----------------------------------------------------------------------------
(* Sequences *)

Cons(e, s) == <<e>> \o s

LEMMA ConsFacts ==
  ASSUME NEW S, NEW e \in S, NEW s \in Seq(S)
  PROVE  /\ Cons(e, s) \in Seq(S) /\ Len(Cons(e, s)) = Len(s) + 1 /\ Cons(e, s) # <<>>
         /\ Cons(e, s)[1] = e
         /\ \A k \in 1 .. Len(s) : Cons(e, s)[k + 1] = s[k]
         /\ \A k \in 2 .. Len(s) + 1 : Cons(e, s)[k] = s[k - 1]
BY DEF Cons

LEMMA TailFacts ==
  ASSUME NEW S, NEW s \in Seq(S), s # <<>>
  PROVE  /\ Tail(s) \in Seq(S) /\ Len(Tail(s)) = Len(s) - 1 /\ Len(s) \in Nat \ {0}
         /\ \A k \in 1 .. Len(s) - 1 : Tail(s)[k] = s[k + 1]
         /\ Head(s) = s[1] /\ Head(s) \in S
OBVIOUS

LEMMA SameSequence ==
  ASSUME NEW S, NEW s \in Seq(S), NEW t \in Seq(S), Len(s) = Len(t),
         \A k \in 1 .. Len(s) : s[k] = t[k]
  PROVE  s = t
OBVIOUS

LEMMA ReversedFacts ==
  ASSUME NEW S, NEW s \in Seq(S)
  PROVE  /\ Reversed(s) \in Seq(S) /\ Len(Reversed(s)) = Len(s)
         /\ \A k \in 1 .. Len(s) : Reversed(s)[k] = s[Len(s) + 1 - k]
<1>1. DOMAIN s = 1 .. Len(s) /\ Len(s) \in Nat
  OBVIOUS
<1>2. Reversed(s) \in [1 .. Len(s) -> S]
  BY <1>1 DEF Reversed
<1> QED BY <1>1, <1>2 DEF Reversed

LEMMA ConcatFacts ==
  ASSUME NEW S, NEW s \in Seq(S), NEW t \in Seq(S)
  PROVE  /\ s \o t \in Seq(S) /\ Len(s \o t) = Len(s) + Len(t)
         /\ \A k \in 1 .. Len(s) : (s \o t)[k] = s[k]
         /\ \A k \in Len(s) + 1 .. Len(s) + Len(t) : (s \o t)[k] = t[k - Len(s)]
OBVIOUS

\* An element that moves from the head of one sequence to the head of the other
\* leaves the one read upwards and the other read downwards as they are together.
LEMMA ReversedShift ==
  ASSUME NEW S, NEW s \in Seq(S), NEW t \in Seq(S), s # <<>>
  PROVE  Reversed(Cons(Head(s), t)) \o Tail(s) = Reversed(t) \o s
<1> DEFINE e == Head(s)
           r == Tail(s)
           u == Cons(e, t)
           n == Len(t)
           a == Reversed(u) \o r
           b == Reversed(t) \o s
<1>1. /\ r \in Seq(S) /\ Len(r) = Len(s) - 1 /\ Len(s) \in Nat \ {0}
      /\ \A k \in 1 .. Len(s) - 1 : r[k] = s[k + 1]
      /\ e = s[1] /\ e \in S /\ n \in Nat
  BY TailFacts
<1> HIDE DEF e, r
<1>2. /\ u \in Seq(S) /\ Len(u) = n + 1 /\ u[1] = s[1]
      /\ \A k \in 2 .. n + 1 : u[k] = t[k - 1]
  <2>1. e \in S /\ e = s[1]
    BY <1>1
  <2>2. ASSUME NEW f \in S
        PROVE  /\ Cons(f, t) \in Seq(S) /\ Len(Cons(f, t)) = Len(t) + 1 /\ Cons(f, t)[1] = f
               /\ \A k \in 2 .. Len(t) + 1 : Cons(f, t)[k] = t[k - 1]
    BY ConsFacts
  <2> QED BY <2>1, <2>2, Zenon
<1> HIDE DEF u
<1>3. /\ Reversed(u) \in Seq(S) /\ Len(Reversed(u)) = n + 1
      /\ \A k \in 1 .. n + 1 : Reversed(u)[k] = u[n + 2 - k]
  <2>1. Reversed(u) \in Seq(S) /\ Len(Reversed(u)) = Len(u)
    BY <1>2, ReversedFacts, Zenon
  <2>2. \A k \in 1 .. Len(u) : Reversed(u)[k] = u[Len(u) + 1 - k]
    BY <1>2, ReversedFacts, Zenon
  <2>3. Len(u) = n + 1 /\ n \in Nat
    BY <1>1, <1>2
  <2> HIDE DEF n
  <2>4. Len(u) + 1 = n + 2
    BY <2>3
  <2> QED BY <2>1, <2>2, <2>3, <2>4
<1>4. /\ Reversed(t) \in Seq(S) /\ Len(Reversed(t)) = n
      /\ \A k \in 1 .. n : Reversed(t)[k] = t[n + 1 - k]
  BY <1>1, ReversedFacts
<1>5. /\ a \in Seq(S) /\ Len(a) = n + Len(s)
      /\ \A k \in 1 .. n + 1 : a[k] = Reversed(u)[k]
      /\ \A k \in n + 2 .. n + Len(s) : a[k] = r[k - n - 1]
  <2> DEFINE v == Reversed(u)
  <2>1. v \in Seq(S) /\ r \in Seq(S) /\ Len(v) = n + 1
    BY <1>1, <1>3
  <2> HIDE DEF v, n
  <2>2. /\ v \o r \in Seq(S) /\ Len(v \o r) = Len(v) + Len(r)
        /\ \A k \in 1 .. Len(v) : (v \o r)[k] = v[k]
        /\ \A k \in Len(v) + 1 .. Len(v) + Len(r) : (v \o r)[k] = r[k - Len(v)]
    BY <2>1, ConcatFacts, Zenon
  <2>3. a = v \o r
    BY DEF v
  <2> HIDE DEF a
  <2>4. \A k \in n + 2 .. n + Len(s) : a[k] = r[k - n - 1]
    <3> SUFFICES ASSUME NEW k \in n + 2 .. n + Len(s) PROVE a[k] = r[k - n - 1]
      OBVIOUS
    <3>1. k \in Len(v) + 1 .. Len(v) + Len(r) /\ k - Len(v) = k - n - 1
      BY <1>1, <2>1
    <3>2. (v \o r)[k] = r[k - Len(v)]
      BY <2>2, <3>1
    <3> QED BY <2>3, <3>1, <3>2
  <2>5. a \in Seq(S) /\ Len(a) = n + Len(s)
    <3>1. a \in Seq(S) /\ Len(a) = Len(v) + Len(r)
      BY <2>2, <2>3
    <3> QED BY <1>1, <2>1, <3>1
  <2>6. \A k \in 1 .. n + 1 : a[k] = v[k]
    BY <2>1, <2>2, <2>3
  <2> QED BY <2>4, <2>5, <2>6 DEF v
<1>6. /\ b \in Seq(S) /\ Len(b) = n + Len(s)
      /\ \A k \in 1 .. n : b[k] = Reversed(t)[k]
      /\ \A k \in n + 1 .. n + Len(s) : b[k] = s[k - n]
  <2> DEFINE v == Reversed(t)
  <2>1. v \in Seq(S) /\ Len(v) = n
    BY <1>1, <1>4
  <2> HIDE DEF v, n
  <2>2. /\ v \o s \in Seq(S) /\ Len(v \o s) = Len(v) + Len(s)
        /\ \A k \in 1 .. Len(v) : (v \o s)[k] = v[k]
        /\ \A k \in Len(v) + 1 .. Len(v) + Len(s) : (v \o s)[k] = s[k - Len(v)]
    BY <2>1, ConcatFacts, Zenon
  <2> QED BY <2>1, <2>2 DEF v
<1> HIDE DEF n, a, b
<1>7. ASSUME NEW k \in 1 .. n + Len(s) PROVE a[k] = b[k]
  <2>1. CASE k <= n
    <3>1. a[k] = u[n + 2 - k] /\ b[k] = t[n + 1 - k]
      BY <1>1, <1>3, <1>4, <1>5, <1>6, <2>1
    <3> QED BY <1>1, <1>2, <2>1, <3>1
  <2>2. CASE k = n + 1
    <3>1. k \in 1 .. n + 1 /\ n + 2 - k = 1 /\ k \in n + 1 .. n + Len(s) /\ k - n = 1
      BY <1>1, <2>2
    <3>2. a[k] = u[1] /\ b[k] = s[1]
      BY <1>3, <1>5, <1>6, <3>1
    <3> QED BY <1>2, <3>2
  <2>3. CASE k > n + 1
    <3>1. k \in n + 2 .. n + Len(s) /\ k \in n + 1 .. n + Len(s)
      BY <1>1, <2>3
    <3>2. a[k] = r[k - n - 1] /\ b[k] = s[k - n]
      BY <1>5, <1>6, <3>1
    <3>3. k - n - 1 \in 1 .. Len(s) - 1 /\ k - n - 1 + 1 = k - n
      BY <1>1, <2>3
    <3> QED BY <1>1, <3>2, <3>3
  <2> QED BY <1>1, <2>1, <2>2, <2>3
<1>8. a = b
  BY <1>5, <1>6, <1>7, SameSequence
<1> QED BY <1>8 DEF a, b, u, e, r

-----------------------------------------------------------------------------
(* Two lists that share a heap *)

NodeRec       == [val : Vals, next : Nodes \cup {NULL}]
HeapOK(h)     == DOMAIN h \subseteq Nodes /\ h \in [DOMAIN h -> NodeRec]
NodesOf(c)    == {c[k] : k \in DOMAIN c}
Values(h, c)  == [k \in DOMAIN c |-> h[c[k]].val]

\* c and d are the lists of s and t, and nothing else is in the heap
Two(h, s, t, c, d) ==
  /\ c \in Lists /\ IsChain(h, s.head, c) /\ Len(c) = s.num_elements
  /\ d \in Lists /\ IsChain(h, t.head, d) /\ Len(d) = t.num_elements
  /\ NodesOf(c) \cap NodesOf(d) = {}
  /\ NodesOf(c) \cup NodesOf(d) = DOMAIN h

LEMMA TwoSwapped ==
  ASSUME NEW h, NEW s, NEW t, NEW c, NEW d, Two(h, s, t, c, d)
  PROVE  Two(h, t, s, d, c)
BY DEF Two

LEMMA ContentsAre ==
  ASSUME NEW h, NEW s, NEW c \in Lists, IsChain(h, s.head, c)
  PROVE  Contents(h, s) = Values(h, c) /\ ChainNodes(h, s) = NodesOf(c)
<1>1. Chain(h, s) = c
  BY ChainUnique
<1> QED BY <1>1, Zenon DEF Contents, ChainNodes, Values, NodesOf

LEMMA ValuesAre ==
  ASSUME NEW h, HeapOK(h), NEW c \in Lists, NodesOf(c) \subseteq DOMAIN h
  PROVE  /\ Values(h, c) \in Seq(Vals) /\ Len(Values(h, c)) = Len(c)
         /\ \A k \in 1 .. Len(c) : Values(h, c)[k] = h[c[k]].val
<1>1. DOMAIN c = 1 .. Len(c) /\ Len(c) \in Nat
  BY ListSequences
<1>2. \A k \in 1 .. Len(c) : c[k] \in DOMAIN h /\ h[c[k]].val \in Vals
  BY <1>1 DEF HeapOK, NodeRec, NodesOf
<1>3. Values(h, c) \in [1 .. Len(c) -> Vals]
  BY <1>1, <1>2 DEF Values
<1> QED BY <1>1, <1>3 DEF Values

\* A list does not feel a change of the heap outside it.
LEMMA ChainFrame ==
  ASSUME NEW h, NEW g, NEW x, NEW c \in Lists, IsChain(h, x, c),
         \A m \in NodesOf(c) : m \in DOMAIN g /\ g[m] = h[m]
  PROVE  IsChain(g, x, c) /\ Values(g, c) = Values(h, c)
<1>1. \A k \in DOMAIN c : c[k] \in DOMAIN g /\ g[c[k]] = h[c[k]]
  BY DEF NodesOf
<1>2. IsChain(g, x, c)
  BY <1>1 DEF IsChain
<1> QED BY <1>1, <1>2 DEF Values

AfterPush(h, s, c, n, v) ==
  /\ IsChain(WithNode(h, s, n, v), n, Cons(n, c))
  /\ Cons(n, c) \in Lists /\ Len(Cons(n, c)) = Len(c) + 1
  /\ NodesOf(Cons(n, c)) = NodesOf(c) \cup {n}
  /\ Values(WithNode(h, s, n, v), Cons(n, c)) = Cons(v, Values(h, c))
  /\ HeapOK(WithNode(h, s, n, v))
  /\ DOMAIN WithNode(h, s, n, v) = DOMAIN h \cup {n}
  /\ \A m \in DOMAIN h : WithNode(h, s, n, v)[m] = h[m]

LEMMA PushChain ==
  ASSUME NEW h, HeapOK(h), NEW s, NEW c \in Lists, IsChain(h, s.head, c),
         NEW n \in Nodes \ DOMAIN h, NEW v \in Vals
  PROVE  AfterPush(h, s, c, n, v)
<1> DEFINE g == WithNode(h, s, n, v)
           b == Cons(n, c)
<1>1. c \in Seq(Nodes) /\ DOMAIN c = 1 .. Len(c) /\ Len(c) \in Nat
  BY ListSequences
<1>2. /\ b \in Seq(Nodes) /\ Len(b) = Len(c) + 1 /\ b # <<>> /\ b[1] = n
      /\ \A k \in 2 .. Len(c) + 1 : b[k] = c[k - 1]
  BY <1>1, ConsFacts
<1>3. DOMAIN b = 1 .. Len(c) + 1
  BY <1>2
<1>4. /\ DOMAIN g = DOMAIN h \cup {n} /\ g[n] = [val |-> v, next |-> s.head]
      /\ \A m \in DOMAIN h : g[m] = h[m]
  BY DEF WithNode
<1>5. s.head \in Nodes \cup {NULL}
  <2>1. CASE c = <<>>
    BY <2>1 DEF IsChain
  <2>2. CASE c # <<>>
    BY <1>1, <2>2 DEF IsChain
  <2> QED BY <2>1, <2>2
<1>6. HeapOK(g)
  <2>1. \A m \in DOMAIN g : g[m] \in NodeRec
    BY <1>4, <1>5 DEF HeapOK, NodeRec
  <2>2. g \in [DOMAIN g -> NodeRec]
    BY <2>1 DEF WithNode
  <2> QED BY <1>4, <2>2 DEF HeapOK
<1>7. \A k \in DOMAIN c : c[k] \in DOMAIN h /\ c[k] # n
  BY DEF IsChain
<1> HIDE DEF g, b
<1>8. \A j, k \in DOMAIN b : b[j] = b[k] => j = k
  <2> SUFFICES ASSUME NEW j \in 1 .. Len(c) + 1, NEW k \in 1 .. Len(c) + 1, b[j] = b[k]
               PROVE  j = k
    BY <1>3
  <2>1. CASE j = 1 /\ k # 1
    BY <1>1, <1>2, <1>7, <2>1
  <2>2. CASE j # 1 /\ k = 1
    BY <1>1, <1>2, <1>7, <2>2
  <2>3. CASE j # 1 /\ k # 1
    <3>1. j - 1 \in DOMAIN c /\ k - 1 \in DOMAIN c /\ c[j - 1] = c[k - 1]
      BY <1>1, <1>2, <2>3
    <3>2. j - 1 = k - 1
      BY <3>1 DEF IsChain
    <3> QED BY <3>2
  <2> QED BY <2>1, <2>2, <2>3
<1>9. b \in Lists
  BY <1>2, <1>8, ListBound
<1>10. \A k \in DOMAIN b : /\ b[k] \in DOMAIN g
                          /\ g[b[k]].next = IF k = Len(b) THEN NULL ELSE b[k + 1]
  <2> SUFFICES ASSUME NEW k \in 1 .. Len(c) + 1
               PROVE  /\ b[k] \in DOMAIN g
                      /\ g[b[k]].next = IF k = Len(b) THEN NULL ELSE b[k + 1]
    BY <1>3
  <2>1. CASE k = 1
    <3>1. b[k] \in DOMAIN g /\ g[b[k]].next = s.head
      BY <1>2, <1>4, <2>1
    <3>2. CASE Len(c) = 0
      BY <1>1, <1>2, <2>1, <3>1, <3>2 DEF IsChain
    <3>3. CASE Len(c) > 0
      <4>1. s.head = c[1]
        BY <1>1, <3>3 DEF IsChain
      <4>2. b[2] = c[1]
        BY <1>1, <1>2, <3>3
      <4> QED BY <1>1, <1>2, <2>1, <3>1, <3>3, <4>1, <4>2
    <3> QED BY <1>1, <3>2, <3>3
  <2>2. CASE k # 1
    <3>1. k - 1 \in DOMAIN c /\ b[k] = c[k - 1]
      BY <1>1, <1>2, <2>2
    <3>2. b[k] \in DOMAIN g /\ g[b[k]].next = IF k - 1 = Len(c) THEN NULL ELSE c[k - 1 + 1]
      BY <1>4, <1>7, <3>1 DEF IsChain
    <3>3. k # Len(b) => b[k + 1] = c[k]
      BY <1>1, <1>2
    <3> QED BY <1>1, <1>2, <3>2, <3>3
  <2> QED BY <2>1, <2>2
<1>11. IsChain(g, n, b)
  BY <1>2, <1>8, <1>10 DEF IsChain
<1>12. NodesOf(b) = NodesOf(c) \cup {n}
  <2>1. ASSUME NEW k \in DOMAIN b PROVE b[k] \in NodesOf(c) \cup {n}
    BY <1>1, <1>2, <1>3 DEF NodesOf
  <2>2. ASSUME NEW k \in DOMAIN c PROVE c[k] \in NodesOf(b)
    <3>1. k + 1 \in DOMAIN b /\ b[k + 1] = c[k]
      BY <1>1, <1>2, <1>3
    <3> QED BY <3>1 DEF NodesOf
  <2>3. n \in NodesOf(b)
    BY <1>1, <1>2, <1>3 DEF NodesOf
  <2> QED BY <2>1, <2>2, <2>3 DEF NodesOf
<1>13. Values(g, b) = Cons(v, Values(h, c))
  <2>1. NodesOf(c) \subseteq DOMAIN h /\ NodesOf(b) \subseteq DOMAIN g
    BY <1>4, <1>7, <1>12 DEF NodesOf
  <2>2. /\ Values(h, c) \in Seq(Vals) /\ Len(Values(h, c)) = Len(c)
        /\ \A k \in 1 .. Len(c) : Values(h, c)[k] = h[c[k]].val
    BY <2>1, ValuesAre
  <2>3. /\ Values(g, b) \in Seq(Vals) /\ Len(Values(g, b)) = Len(b)
        /\ \A k \in 1 .. Len(b) : Values(g, b)[k] = g[b[k]].val
    BY <1>6, <1>9, <2>1, ValuesAre
  <2> DEFINE w == Cons(v, Values(h, c))
  <2>4. /\ w \in Seq(Vals) /\ Len(w) = Len(c) + 1 /\ w[1] = v
        /\ \A k \in 2 .. Len(c) + 1 : w[k] = Values(h, c)[k - 1]
    <3>1. ASSUME NEW q \in Seq(Vals)
          PROVE  /\ Cons(v, q) \in Seq(Vals) /\ Len(Cons(v, q)) = Len(q) + 1 /\ Cons(v, q)[1] = v
                 /\ \A k \in 2 .. Len(q) + 1 : Cons(v, q)[k] = q[k - 1]
      BY ConsFacts
    <3> QED BY <2>2, <3>1
  <2> HIDE DEF w
  <2>5. ASSUME NEW k \in 1 .. Len(b) PROVE Values(g, b)[k] = w[k]
    <3>1. Values(g, b)[k] = g[b[k]].val
      BY <2>3
    <3>2. CASE k = 1
      BY <1>2, <1>4, <2>4, <3>1, <3>2
    <3>3. CASE k # 1
      <4>1. k - 1 \in 1 .. Len(c) /\ b[k] = c[k - 1] /\ w[k] = Values(h, c)[k - 1]
        BY <1>1, <1>2, <2>4, <3>3
      <4>2. g[b[k]] = h[c[k - 1]]
        BY <1>1, <1>4, <1>7, <4>1
      <4> QED BY <2>2, <3>1, <4>1, <4>2
    <3> QED BY <3>2, <3>3
  <2>6. Values(g, b) = w
    BY <1>2, <2>3, <2>4, <2>5, SameSequence
  <2> QED BY <2>6 DEF w
<1> QED BY <1>2, <1>4, <1>6, <1>9, <1>11, <1>12, <1>13 DEF g, b, AfterPush

AfterPop(h, s, c) ==
  /\ s.head = c[1] /\ s.head \in DOMAIN h /\ h[s.head] \in NodeRec
  /\ IsChain(Free(h, {s.head}), h[s.head].next, Tail(c))
  /\ Tail(c) \in Lists /\ Len(Tail(c)) = Len(c) - 1
  /\ NodesOf(Tail(c)) = NodesOf(c) \ {s.head}
  /\ Values(Free(h, {s.head}), Tail(c)) = Tail(Values(h, c))
  /\ Values(h, c) # <<>> /\ Head(Values(h, c)) = h[s.head].val
  /\ HeapOK(Free(h, {s.head}))
  /\ DOMAIN Free(h, {s.head}) = DOMAIN h \ {s.head}
  /\ \A m \in DOMAIN h \ {s.head} : Free(h, {s.head})[m] = h[m]

LEMMA PopChain ==
  ASSUME NEW h, HeapOK(h), NEW s, NEW c \in Lists, IsChain(h, s.head, c), c # <<>>
  PROVE  AfterPop(h, s, c)
<1> DEFINE g == Free(h, {s.head})
           b == Tail(c)
<1>1. c \in Seq(Nodes) /\ DOMAIN c = 1 .. Len(c) /\ Len(c) \in Nat \ {0}
  BY ListSequences
<1>2. /\ b \in Seq(Nodes) /\ Len(b) = Len(c) - 1
      /\ \A k \in 1 .. Len(c) - 1 : b[k] = c[k + 1]
  BY <1>1, TailFacts
<1>3. DOMAIN b = 1 .. Len(c) - 1
  BY <1>1, <1>2
<1>4. /\ s.head = c[1] /\ s.head \in DOMAIN h
      /\ \A k \in DOMAIN c : c[k] \in DOMAIN h /\ (c[k] = c[1] => k = 1)
  BY <1>1 DEF IsChain
<1>5. h[s.head] \in NodeRec
  BY <1>4 DEF HeapOK
<1>6. DOMAIN g = DOMAIN h \ {s.head} /\ \A m \in DOMAIN h \ {s.head} : g[m] = h[m]
  BY DEF Free
<1>7. HeapOK(g)
  BY DEF Free, HeapOK
<1> HIDE DEF g, b
<1>8. \A j, k \in DOMAIN b : b[j] = b[k] => j = k
  <2> SUFFICES ASSUME NEW j \in 1 .. Len(c) - 1, NEW k \in 1 .. Len(c) - 1, b[j] = b[k]
               PROVE  j = k
    BY <1>3
  <2>1. j + 1 \in DOMAIN c /\ k + 1 \in DOMAIN c /\ c[j + 1] = c[k + 1]
    BY <1>1, <1>2
  <2>2. j + 1 = k + 1
    BY <2>1 DEF IsChain
  <2> QED BY <2>2
<1>9. b \in Lists
  BY <1>2, <1>8, ListBound
<1>10. ASSUME NEW k \in DOMAIN b
       PROVE  /\ k + 1 \in DOMAIN c /\ b[k] = c[k + 1] /\ b[k] \in DOMAIN g /\ g[b[k]] = h[c[k + 1]]
              /\ g[b[k]].next = IF k = Len(b) THEN NULL ELSE b[k + 1]
  <2>1. k + 1 \in DOMAIN c /\ b[k] = c[k + 1]
    BY <1>1, <1>2, <1>3
  <2>2. b[k] # s.head
    BY <1>1, <1>3, <1>4, <2>1
  <2>3. b[k] \in DOMAIN g /\ g[b[k]] = h[c[k + 1]]
    BY <1>4, <1>6, <2>1, <2>2
  <2>4. h[c[k + 1]].next = IF k + 1 = Len(c) THEN NULL ELSE c[k + 1 + 1]
    BY <2>1 DEF IsChain
  <2>5. k # Len(b) => b[k + 1] = c[k + 1 + 1]
    BY <1>1, <1>2, <1>3
  <2> QED BY <1>1, <1>2, <1>3, <2>1, <2>3, <2>4, <2>5
<1>11. IsChain(g, h[s.head].next, b)
  <2>1. h[s.head].next = IF b = <<>> THEN NULL ELSE b[1]
    <3>1. h[c[1]].next = IF 1 = Len(c) THEN NULL ELSE c[2]
      BY <1>1 DEF IsChain
    <3>2. b = <<>> <=> Len(c) = 1
      BY <1>1, <1>2
    <3>3. Len(c) # 1 => b[1] = c[2]
      BY <1>1, <1>2
    <3> QED BY <1>1, <1>4, <3>1, <3>2, <3>3
  <2> QED BY <1>8, <1>10, <2>1 DEF IsChain
<1>12. NodesOf(b) = NodesOf(c) \ {s.head}
  <2>1. ASSUME NEW k \in DOMAIN b PROVE b[k] \in NodesOf(c) \ {s.head}
    BY <1>6, <1>10 DEF NodesOf
  <2>2. ASSUME NEW k \in DOMAIN c, c[k] # s.head PROVE c[k] \in NodesOf(b)
    <3>1. k # 1
      BY <1>4, <2>2
    <3>2. k - 1 \in DOMAIN b /\ b[k - 1] = c[k]
      BY <1>1, <1>2, <1>3, <3>1
    <3> QED BY <3>2 DEF NodesOf
  <2> QED BY <2>1, <2>2 DEF NodesOf
<1>13. /\ Values(g, b) = Tail(Values(h, c))
       /\ Values(h, c) # <<>> /\ Head(Values(h, c)) = h[s.head].val
  <2>1. NodesOf(c) \subseteq DOMAIN h /\ NodesOf(b) \subseteq DOMAIN g
    BY <1>4, <1>10 DEF NodesOf
  <2>2. /\ Values(h, c) \in Seq(Vals) /\ Len(Values(h, c)) = Len(c)
        /\ \A k \in 1 .. Len(c) : Values(h, c)[k] = h[c[k]].val
    BY <2>1, ValuesAre
  <2>3. /\ Values(g, b) \in Seq(Vals) /\ Len(Values(g, b)) = Len(b)
        /\ \A k \in 1 .. Len(b) : Values(g, b)[k] = g[b[k]].val
    BY <1>7, <1>9, <2>1, ValuesAre
  <2> DEFINE q == Values(h, c)
             w == Tail(q)
  <2>4. q # <<>>
    BY <1>1, <2>2
  <2> HIDE DEF q
  <2>5. /\ q \in Seq(Vals) /\ Len(q) = Len(c)
        /\ \A k \in 1 .. Len(c) : q[k] = h[c[k]].val
    BY <2>2 DEF q
  <2>6. /\ w \in Seq(Vals) /\ Len(w) = Len(q) - 1 /\ Head(q) = q[1]
        /\ \A k \in 1 .. Len(q) - 1 : w[k] = q[k + 1]
    BY <2>4, <2>5, TailFacts
  <2>7. Head(q) = h[s.head].val
    BY <1>1, <1>4, <2>5, <2>6
  <2> HIDE DEF w
  <2>8. ASSUME NEW k \in 1 .. Len(b) PROVE Values(g, b)[k] = w[k]
    <3>1. k \in DOMAIN b /\ k \in 1 .. Len(c) - 1 /\ k + 1 \in 1 .. Len(c)
      BY <1>1, <1>2, <1>3
    <3>2. Values(g, b)[k] = h[c[k + 1]].val
      BY <1>10, <2>3, <3>1
    <3>3. w[k] = q[k + 1]
      BY <2>5, <2>6, <3>1
    <3> QED BY <2>5, <3>1, <3>2, <3>3
  <2>9. Values(g, b) = w
    BY <1>2, <2>3, <2>5, <2>6, <2>8, SameSequence
  <2> QED BY <2>4, <2>7, <2>9 DEF q, w
<1> QED BY <1>2, <1>4, <1>5, <1>6, <1>7, <1>9, <1>11, <1>12, <1>13 DEF g, b, AfterPop

\* A push on one of two lists leaves two lists.
LEMMA PushTwo ==
  ASSUME NEW h, HeapOK(h), NEW s, NEW t, NEW c, NEW d, Two(h, s, t, c, d),
         NEW n \in Nodes \ DOMAIN h, NEW v \in Vals
  PROVE  /\ Two(WithNode(h, s, n, v), Pushed(s, n), t, Cons(n, c), d)
         /\ Values(WithNode(h, s, n, v), Cons(n, c)) = Cons(v, Values(h, c))
         /\ Values(WithNode(h, s, n, v), d) = Values(h, d)
         /\ HeapOK(WithNode(h, s, n, v))
<1> DEFINE g == WithNode(h, s, n, v)
           b == Cons(n, c)
<1>1. /\ c \in Lists /\ IsChain(h, s.head, c) /\ Len(c) = s.num_elements
      /\ d \in Lists /\ IsChain(h, t.head, d) /\ Len(d) = t.num_elements
      /\ NodesOf(c) \cap NodesOf(d) = {} /\ NodesOf(c) \cup NodesOf(d) = DOMAIN h
  BY Zenon DEF Two
<1>2. /\ IsChain(g, n, b) /\ b \in Lists /\ Len(b) = Len(c) + 1
      /\ NodesOf(b) = NodesOf(c) \cup {n}
      /\ Values(g, b) = Cons(v, Values(h, c))
      /\ HeapOK(g) /\ DOMAIN g = DOMAIN h \cup {n}
      /\ \A m \in DOMAIN h : g[m] = h[m]
  <2>1. AfterPush(h, s, c, n, v)
    BY <1>1, PushChain
  <2> QED BY <2>1, Zenon DEF AfterPush
<1> HIDE DEF g, b
<1>3. \A m \in NodesOf(d) : m \in DOMAIN g /\ g[m] = h[m]
  BY <1>1, <1>2
<1>4. IsChain(g, t.head, d) /\ Values(g, d) = Values(h, d)
  BY <1>1, <1>3, ChainFrame, Zenon
<1>5. Pushed(s, n).head = n /\ Pushed(s, n).num_elements = s.num_elements + 1
  BY DEF Pushed
<1>6. NodesOf(b) \cap NodesOf(d) = {} /\ NodesOf(b) \cup NodesOf(d) = DOMAIN g
  BY <1>1, <1>2
<1>7. IsChain(g, Pushed(s, n).head, b) /\ Len(b) = Pushed(s, n).num_elements
  BY <1>1, <1>2, <1>5
<1>8. Two(g, Pushed(s, n), t, b, d)
  BY <1>1, <1>2, <1>4, <1>6, <1>7, Zenon DEF Two
<1> QED BY <1>2, <1>4, <1>8, Zenon DEF g, b

\* So does a pop from one of them, which is not empty when its count is not 0;
\* u is the struct of s afterwards.
TwoAfterPop(h, s, u, t, c, d) ==
  /\ Two(Free(h, {s.head}), u, t, Tail(c), d)
  /\ Values(Free(h, {s.head}), Tail(c)) = Tail(Values(h, c))
  /\ Values(Free(h, {s.head}), d) = Values(h, d)
  /\ HeapOK(Free(h, {s.head}))
  /\ Values(h, c) # <<>> /\ Head(Values(h, c)) = h[s.head].val
  /\ s.head \in DOMAIN h /\ h[s.head] \in NodeRec

LEMMA PopTwo ==
  ASSUME NEW h, HeapOK(h), NEW s, NEW t, NEW c, NEW d, Two(h, s, t, c, d),
         s.num_elements > 0,
         NEW u, u.head = h[s.head].next, u.num_elements = s.num_elements - 1
  PROVE  TwoAfterPop(h, s, u, t, c, d)
<1> DEFINE g == Free(h, {s.head})
           b == Tail(c)
<1>1. /\ c \in Lists /\ IsChain(h, s.head, c) /\ Len(c) = s.num_elements
      /\ d \in Lists /\ IsChain(h, t.head, d) /\ Len(d) = t.num_elements
      /\ NodesOf(c) \cap NodesOf(d) = {} /\ NodesOf(c) \cup NodesOf(d) = DOMAIN h
  BY Zenon DEF Two
<1>2. c # <<>>
  BY <1>1, ListSequences
<1>3. /\ s.head = c[1] /\ s.head \in DOMAIN h /\ h[s.head] \in NodeRec
      /\ IsChain(g, h[s.head].next, b)
      /\ b \in Lists /\ Len(b) = Len(c) - 1
      /\ NodesOf(b) = NodesOf(c) \ {s.head}
      /\ Values(g, b) = Tail(Values(h, c))
      /\ Values(h, c) # <<>> /\ Head(Values(h, c)) = h[s.head].val
      /\ HeapOK(g) /\ DOMAIN g = DOMAIN h \ {s.head}
      /\ \A m \in DOMAIN h \ {s.head} : g[m] = h[m]
  <2>1. AfterPop(h, s, c)
    BY <1>1, <1>2, PopChain
  <2> QED BY <2>1, Zenon DEF AfterPop
<1> HIDE DEF g, b
<1>4. s.head \in NodesOf(c)
  BY <1>1, <1>2, <1>3, ListSequences DEF NodesOf
<1>5. \A m \in NodesOf(d) : m \in DOMAIN g /\ g[m] = h[m]
  BY <1>1, <1>3, <1>4
<1>6. IsChain(g, t.head, d) /\ Values(g, d) = Values(h, d)
  BY <1>1, <1>5, ChainFrame, Zenon
<1>7. NodesOf(b) \cap NodesOf(d) = {} /\ NodesOf(b) \cup NodesOf(d) = DOMAIN g
  BY <1>1, <1>3, <1>4
<1>8. IsChain(g, u.head, b) /\ Len(b) = u.num_elements
  BY <1>1, <1>3
<1>9. Two(g, u, t, b, d)
  BY <1>1, <1>3, <1>6, <1>7, <1>8, Zenon DEF Two
<1> QED BY <1>3, <1>6, <1>9, Zenon DEF g, b, TwoAfterPop

-----------------------------------------------------------------------------
(* The inductive invariant *)

\* Where the dump's loops are decides how many elements are on which stack.
Counts ==
  status = "alive" =>
    /\ i \in 0 .. MaxNodes /\ stk_size \in 0 .. MaxNodes /\ i <= stk_size
    /\ phase = "idle" => tmp.num_elements = 0
    /\ phase = "out"  => tmp.num_elements = i /\ stk.num_elements = stk_size - i
    /\ phase = "back" => stk.num_elements = i /\ tmp.num_elements = stk_size - i

\* While the process lives the heap is the two lists.
TwoLists == status = "alive" => \E c, d \in Lists : Two(heap, stk, tmp, c, d)

\* The struct of the dump's stack is no node, and is there during a dump only.
Placed ==
  status = "alive" => tmp_at \notin DOMAIN heap /\ (tmp_at = NULL <=> phase = "idle")

StackInv == TypeOK /\ HeapOK(heap) /\ TwoLists /\ Counts /\ Placed /\ DestroyFreesAll

\* Malloc returns an address that is neither a node nor the struct.
LEMMA RoomIs ==
  ASSUME NEW h, NEW n \in Room(h)
  PROVE  n \in Nodes \ DOMAIN h /\ n # tmp_at
BY DEF Room

\* A pop makes the room that the push after it needs, on a full heap as well.
LEMMA PopMakesRoom ==
  ASSUME StackInv, status = "alive", NEW s \in {stk, tmp}, s.num_elements > 0
  PROVE  Room(PopFrees(s)) # {}
<1>1. PICK c \in Lists, d \in Lists : Two(heap, stk, tmp, c, d)
  BY DEF StackInv, TwoLists
<1>2. \E b \in Lists : IsChain(heap, s.head, b) /\ Len(b) = s.num_elements
  BY <1>1 DEF Two
<1>3. s.head \in DOMAIN heap
  <2>1. PICK b \in Lists : IsChain(heap, s.head, b) /\ Len(b) = s.num_elements
    BY <1>2
  <2>2. b \in Seq(Nodes) /\ DOMAIN b = 1 .. Len(b) /\ Len(b) \in Nat
    BY ListSequences
  <2>3. 1 \in DOMAIN b /\ b # <<>>
    BY <2>1, <2>2
  <2> QED BY <2>1, <2>3 DEF IsChain
<1>4. s.head \in Nodes /\ s.head # tmp_at
  BY <1>3 DEF StackInv, HeapOK, Placed
<1>5. s.head \notin DOMAIN PopFrees(s)
  BY DEF PopFrees, Free
<1> QED BY <1>4, <1>5 DEF Room

LEMMA Bounds ==
  ASSUME NEW h, NEW s, NEW t, NEW c, NEW d, Two(h, s, t, c, d)
  PROVE  /\ s.num_elements \in 0 .. MaxNodes /\ t.num_elements \in 0 .. MaxNodes
         /\ s.head \in Nodes \cup {NULL} /\ t.head \in Nodes \cup {NULL}
<1>1. ASSUME NEW x, NEW b \in Lists, IsChain(h, x, b)
      PROVE  Len(b) \in 0 .. MaxNodes /\ x \in Nodes \cup {NULL}
  <2>1. b \in Seq(Nodes) /\ DOMAIN b = 1 .. Len(b) /\ Len(b) \in Nat
    BY ListSequences
  <2>2. \A j, k \in DOMAIN b : b[j] = b[k] => j = k
    BY <1>1 DEF IsChain
  <2>3. Len(b) <= MaxNodes /\ MaxNodes \in Nat
    BY <2>1, <2>2, ListBound, FS_CardinalityType, StackAssumption DEF MaxNodes, StackAssumption
  <2>4. x \in Nodes \cup {NULL}
    <3>1. CASE b = <<>>
      BY <1>1, <3>1 DEF IsChain
    <3>2. CASE b # <<>>
      <4>1. 1 \in DOMAIN b
        BY <2>1, <3>2
      <4> QED BY <1>1, <2>1, <3>2, <4>1 DEF IsChain
    <3> QED BY <3>1, <3>2
  <2> QED BY <2>1, <2>3, <2>4
<1> QED BY <1>1 DEF Two

\* The empty heap is two empty lists, and a stack that is just created may take
\* the place of an empty one.
LEMMA EmptyTwo ==
  /\ <<>> \in Lists
  /\ Two([n \in {} |-> NULL], Stack_create, Stack_create, <<>>, <<>>)
  /\ HeapOK([n \in {} |-> NULL])
<1>1. <<>> \in Lists
  <2>1. <<>> \in Seq(Nodes) /\ DOMAIN <<>> = {}
    OBVIOUS
  <2> QED BY <2>1, ListBound
<1>2. \A h : IsChain(h, NULL, <<>>)
  BY DEF IsChain
<1>3. NodesOf(<<>>) = {}
  BY DEF NodesOf
<1>4. HeapOK([n \in {} |-> NULL])
  BY DEF HeapOK
<1>5. DOMAIN [n \in {} |-> NULL] = {}
  OBVIOUS
<1>6. Stack_create.head = NULL /\ Stack_create.num_elements = 0 /\ Len(<<>>) = 0
  BY DEF Stack_create
<1> QED BY <1>1, <1>2, <1>3, <1>4, <1>5, <1>6 DEF Two

LEMMA EmptyList ==
  ASSUME NEW h, NEW s, NEW t, NEW c, NEW d, Two(h, s, t, c, d), t.num_elements = 0
  PROVE  /\ d = <<>> /\ NodesOf(d) = {} /\ Values(h, d) = <<>>
         /\ Two(h, s, Stack_create, c, d)
<1>1. d \in Seq(Nodes) /\ Len(d) = 0
  BY ListSequences DEF Two
<1>2. d = <<>>
  BY <1>1
<1>3. NodesOf(d) = {} /\ Values(h, d) = <<>>
  BY <1>2 DEF NodesOf, Values
<1>4. Stack_create.head = NULL /\ Stack_create.num_elements = 0
  BY DEF Stack_create
<1>5. t.head = NULL
  BY <1>2 DEF Two, IsChain
<1> QED BY <1>2, <1>3, <1>4, <1>5 DEF Two

LEMMA HeapType ==
  ASSUME NEW h, HeapOK(h)
  PROVE  \E live \in SUBSET Nodes : h \in [live -> [val : Vals, next : Nodes \cup {NULL}]]
<1>1. DOMAIN h \in SUBSET Nodes /\ h \in [DOMAIN h -> [val : Vals, next : Nodes \cup {NULL}]]
  BY DEF HeapOK, NodeRec
<1> QED BY <1>1

LEMMA MaxType == MaxNodes \in Nat
BY FS_CardinalityType, StackAssumption DEF MaxNodes, StackAssumption

\* The lists of a living process, and their values.
LEMMA ListsOf ==
  ASSUME StackInv, status = "alive"
  PROVE  \E c, d \in Lists :
           /\ Two(heap, stk, tmp, c, d)
           /\ Contents(heap, stk) = Values(heap, c) /\ ChainNodes(heap, stk) = NodesOf(c)
           /\ Contents(heap, tmp) = Values(heap, d) /\ ChainNodes(heap, tmp) = NodesOf(d)
           /\ Contents(heap, stk) \in Seq(Vals) /\ Len(Contents(heap, stk)) = stk.num_elements
           /\ Contents(heap, tmp) \in Seq(Vals) /\ Len(Contents(heap, tmp)) = tmp.num_elements
<1>1. PICK c \in Lists, d \in Lists : Two(heap, stk, tmp, c, d)
  BY DEF StackInv, TwoLists
<1>2. Contents(heap, stk) = Values(heap, c) /\ ChainNodes(heap, stk) = NodesOf(c)
  BY <1>1, ContentsAre DEF Two
<1>3. Contents(heap, tmp) = Values(heap, d) /\ ChainNodes(heap, tmp) = NodesOf(d)
  BY <1>1, ContentsAre DEF Two
<1>4. HeapOK(heap) /\ NodesOf(c) \subseteq DOMAIN heap /\ NodesOf(d) \subseteq DOMAIN heap
  BY <1>1 DEF Two, StackInv
<1>5. Values(heap, c) \in Seq(Vals) /\ Len(Values(heap, c)) = Len(c)
  BY <1>4, ValuesAre
<1>6. Values(heap, d) \in Seq(Vals) /\ Len(Values(heap, d)) = Len(d)
  BY <1>4, ValuesAre
<1>7. Len(c) = stk.num_elements /\ Len(d) = tmp.num_elements
  BY <1>1 DEF Two
<1> QED BY <1>1, <1>2, <1>3, <1>5, <1>6, <1>7

\* What is left to show of a step that leaves two lists.
LEMMA TwoListsGive ==
  ASSUME NEW c, NEW d, Two(heap', stk', tmp', c, d), HeapOK(heap'),
         stk' = [head |-> stk'.head, num_elements |-> stk'.num_elements],
         tmp' = [head |-> tmp'.head, num_elements |-> tmp'.num_elements]
  PROVE  /\ TwoLists'
         /\ \E live \in SUBSET Nodes : heap' \in [live -> [val : Vals, next : Nodes \cup {NULL}]]
         /\ stk' \in Struct /\ tmp' \in Struct
         /\ Contents(heap', stk') = Values(heap', c) /\ Contents(heap', tmp') = Values(heap', d)
<1>1. TwoLists'
  BY DEF TwoLists, Two
<1>2. /\ stk'.num_elements \in 0 .. MaxNodes /\ tmp'.num_elements \in 0 .. MaxNodes
      /\ stk'.head \in Nodes \cup {NULL} /\ tmp'.head \in Nodes \cup {NULL}
  BY Bounds
<1>3. stk' \in Struct /\ tmp' \in Struct
  BY <1>2 DEF Struct
<1>4. Contents(heap', stk') = Values(heap', c) /\ Contents(heap', tmp') = Values(heap', d)
  BY ContentsAre DEF Two
<1> QED BY <1>1, <1>3, <1>4, HeapType

LEMMA InitInv == Init => StackInv
<1> SUFFICES ASSUME Init PROVE StackInv
  OBVIOUS
<1>1. Two(heap, stk, tmp, <<>>, <<>>) /\ <<>> \in Lists /\ HeapOK(heap)
  BY EmptyTwo DEF Init
<1>2. TwoLists
  BY <1>1 DEF TwoLists
<1>3. 0 \in 0 .. MaxNodes
  BY MaxType
<1>4. TypeOK
  <2>1. \E live \in SUBSET Nodes : heap \in [live -> [val : Vals, next : Nodes \cup {NULL}]]
    BY <1>1, HeapType
  <2> QED BY <1>3, <2>1 DEF Init, TypeOK, Struct, Stack_create
<1>5. Counts /\ Placed /\ DestroyFreesAll
  BY <1>3 DEF Init, Counts, Placed, DestroyFreesAll, Stack_create
<1> QED BY <1>1, <1>2, <1>4, <1>5 DEF StackInv

LEMMA PushStep ==
  ASSUME StackInv, NEW v \in Vals, Stack_push(v)
  PROVE  /\ StackInv'
         /\ Contents(heap', stk') = Cons(v, Contents(heap, stk))
         /\ Contents(heap', tmp') = Contents(heap, tmp)
<1>1. PICK n \in Nodes \ DOMAIN heap :
        n # tmp_at /\ heap' = WithNode(heap, stk, n, v) /\ stk' = Pushed(stk, n)
  BY RoomIs DEF Stack_push
<1>2. /\ status = "alive" /\ phase = "idle" /\ status' = status /\ ret' = ret
      /\ tmp' = tmp /\ tmp_at' = tmp_at /\ phase' = phase /\ i' = i /\ stk_size' = stk_size
  BY DEF Stack_push, Ready, dumpVars
<1>3. PICK c \in Lists, d \in Lists :
        /\ Two(heap, stk, tmp, c, d)
        /\ Contents(heap, stk) = Values(heap, c) /\ Contents(heap, tmp) = Values(heap, d)
  BY <1>2, ListsOf
<1>4. TypeOK /\ HeapOK(heap) /\ Counts
  BY DEF StackInv
<1>5. /\ Two(heap', stk', tmp', Cons(n, c), d) /\ HeapOK(heap')
      /\ Values(heap', Cons(n, c)) = Cons(v, Values(heap, c))
      /\ Values(heap', d) = Values(heap, d)
  BY <1>1, <1>2, <1>3, <1>4, PushTwo
<1>6. /\ stk' = [head |-> stk'.head, num_elements |-> stk'.num_elements]
      /\ tmp' = [head |-> tmp'.head, num_elements |-> tmp'.num_elements]
  BY <1>1, <1>2, <1>4 DEF TypeOK, Struct, Pushed
<1>7. /\ TwoLists'
      /\ \E live \in SUBSET Nodes : heap' \in [live -> [val : Vals, next : Nodes \cup {NULL}]]
      /\ stk' \in Struct /\ tmp' \in Struct
      /\ Contents(heap', stk') = Values(heap', Cons(n, c)) /\ Contents(heap', tmp') = Values(heap', d)
  BY <1>5, <1>6, TwoListsGive
<1>8. TypeOK'
  BY <1>2, <1>4, <1>7 DEF TypeOK
<1>9. Counts' /\ DestroyFreesAll'
  BY <1>2, <1>4 DEF Counts, DestroyFreesAll
<1>10. Placed'
  <2>1. DOMAIN heap' = DOMAIN heap \cup {n}
    BY <1>1 DEF WithNode
  <2> QED BY <1>1, <1>2, <2>1 DEF StackInv, Placed
<1> QED BY <1>3, <1>5, <1>7, <1>8, <1>9, <1>10 DEF StackInv

LEMMA PopStep ==
  ASSUME StackInv, Stack_pop
  PROVE  /\ StackInv'
         /\ Contents(heap, stk) # <<>> /\ ret' = Head(Contents(heap, stk))
         /\ Contents(heap', stk') = Tail(Contents(heap, stk))
         /\ Contents(heap', tmp') = Contents(heap, tmp)
<1>1. /\ status = "alive" /\ phase = "idle" /\ status' = status
      /\ tmp' = tmp /\ tmp_at' = tmp_at /\ phase' = phase /\ i' = i /\ stk_size' = stk_size
      /\ stk.num_elements > 0 /\ ret' = heap[stk.head].val
      /\ stk' = [head |-> heap[stk.head].next, num_elements |-> stk.num_elements - 1]
      /\ heap' = Free(heap, {stk.head})
  BY DEF Stack_pop, Ready, dumpVars, Popped, PopFrees
<1>2. PICK c \in Lists, d \in Lists :
        /\ Two(heap, stk, tmp, c, d)
        /\ Contents(heap, stk) = Values(heap, c) /\ Contents(heap, tmp) = Values(heap, d)
  BY <1>1, ListsOf
<1>3. TypeOK /\ HeapOK(heap) /\ Counts
  BY DEF StackInv
<1>4. stk'.head = heap[stk.head].next /\ stk'.num_elements = stk.num_elements - 1
  BY <1>1
<1>5. /\ Two(heap', stk', tmp', Tail(c), d) /\ HeapOK(heap')
      /\ Values(heap', Tail(c)) = Tail(Values(heap, c))
      /\ Values(heap', d) = Values(heap, d)
      /\ Values(heap, c) # <<>> /\ Head(Values(heap, c)) = heap[stk.head].val
      /\ heap[stk.head] \in NodeRec
  <2>1. TwoAfterPop(heap, stk, stk', tmp, c, d)
    BY <1>1, <1>2, <1>3, <1>4, PopTwo
  <2> QED BY <1>1, <2>1 DEF TwoAfterPop
<1>6. /\ stk' = [head |-> stk'.head, num_elements |-> stk'.num_elements]
      /\ tmp' = [head |-> tmp'.head, num_elements |-> tmp'.num_elements]
  BY <1>1, <1>3 DEF TypeOK, Struct
<1>7. /\ TwoLists'
      /\ \E live \in SUBSET Nodes : heap' \in [live -> [val : Vals, next : Nodes \cup {NULL}]]
      /\ stk' \in Struct /\ tmp' \in Struct
      /\ Contents(heap', stk') = Values(heap', Tail(c)) /\ Contents(heap', tmp') = Values(heap', d)
  BY <1>5, <1>6, TwoListsGive
<1>8. TypeOK'
  BY <1>1, <1>3, <1>5, <1>7 DEF TypeOK, NodeRec
<1>9. Counts' /\ DestroyFreesAll'
  BY <1>1, <1>3 DEF Counts, DestroyFreesAll
<1>10. Placed'
  <2>1. DOMAIN heap' = DOMAIN heap \ {stk.head}
    BY <1>1 DEF Free
  <2> QED BY <1>1, <2>1 DEF StackInv, Placed
<1> QED BY <1>1, <1>2, <1>5, <1>7, <1>8, <1>9, <1>10 DEF StackInv

LEMMA PeekStep ==
  ASSUME StackInv, NEW idx \in 0 .. MaxNodes - 1, Stack_peek(idx)
  PROVE  /\ StackInv'
         /\ \E k \in DOMAIN Contents(heap, stk) : ret' = Contents(heap, stk)[k]
         /\ Contents(heap', stk') = Contents(heap, stk)
         /\ Contents(heap', tmp') = Contents(heap, tmp)
<1>1. /\ status = "alive" /\ status' = status /\ heap' = heap /\ stk' = stk
      /\ tmp' = tmp /\ tmp_at' = tmp_at /\ phase' = phase /\ i' = i /\ stk_size' = stk_size
      /\ stk.num_elements > idx /\ ret' = Contents(heap, stk)[idx + 1]
  BY DEF Stack_peek, Ready, dumpVars
<1>2. Contents(heap, stk) \in Seq(Vals) /\ Len(Contents(heap, stk)) = stk.num_elements
  BY <1>1, ListsOf
<1>3. idx + 1 \in DOMAIN Contents(heap, stk) /\ Contents(heap, stk)[idx + 1] \in Vals
  <2>1. stk.num_elements \in Nat /\ idx \in Nat
    BY MaxType DEF StackInv, TypeOK, Struct
  <2>2. idx + 1 \in 1 .. stk.num_elements
    BY <1>1, <2>1
  <2> QED BY <1>2, <2>2
<1>4. TypeOK' /\ TwoLists' /\ Counts' /\ Placed' /\ DestroyFreesAll' /\ HeapOK(heap)'
  BY <1>1, <1>3 DEF StackInv, TypeOK, TwoLists, Counts, Placed, DestroyFreesAll
<1> QED BY <1>1, <1>3, <1>4 DEF StackInv

\* With nothing on the dump's stack, the loop along next meets every node there is.
LEMMA DestroyStep ==
  ASSUME StackInv, Stack_destroy
  PROVE  StackInv' /\ ret' = ret
<1>1. /\ status = "alive" /\ phase = "idle" /\ status' = "destroyed" /\ ret' = ret /\ stk' = stk
      /\ tmp' = tmp /\ tmp_at' = tmp_at /\ tmp_at = NULL /\ phase' = phase /\ i' = i /\ stk_size' = stk_size
      /\ heap' = Free(heap, ChainNodes(heap, stk))
  BY DEF Stack_destroy, Ready, dumpVars, StackInv, Placed
<1>2. PICK c \in Lists, d \in Lists :
        Two(heap, stk, tmp, c, d) /\ ChainNodes(heap, stk) = NodesOf(c)
  BY <1>1, ListsOf
<1>3. NodesOf(d) = {}
  BY <1>1, <1>2, EmptyList DEF StackInv, Counts
<1>4. DOMAIN heap' = {}
  BY <1>1, <1>2, <1>3 DEF Two, Free
<1>5. HeapOK(heap')
  BY <1>1, <1>4 DEF HeapOK, Free
<1>6. TypeOK'
  <2>1. \E live \in SUBSET Nodes : heap' \in [live -> [val : Vals, next : Nodes \cup {NULL}]]
    BY <1>5, HeapType
  <2> QED BY <1>1, <2>1 DEF StackInv, TypeOK
<1> QED BY <1>1, <1>4, <1>5, <1>6 DEF StackInv, TwoLists, Counts, Placed, DestroyFreesAll

LEMMA DumpStep ==
  ASSUME StackInv, Dump
  PROVE  /\ StackInv' /\ Contents(heap', stk') = Contents(heap, stk)
         /\ Contents(heap', tmp') = Contents(heap, tmp)
<1>1. /\ status = "alive" /\ phase = "idle" /\ status' = status /\ ret' = ret /\ heap' = heap /\ stk' = stk
      /\ tmp' = Stack_create /\ phase' = "out" /\ i' = 0 /\ stk_size' = stk.num_elements
      /\ tmp_at' \in Nodes \ DOMAIN heap
  BY RoomIs DEF Dump, Ready
<1>2. PICK c \in Lists, d \in Lists :
        /\ Two(heap, stk, tmp, c, d)
        /\ Contents(heap, stk) = Values(heap, c) /\ Contents(heap, tmp) = Values(heap, d)
  BY <1>1, ListsOf
<1>3. TypeOK /\ HeapOK(heap) /\ Counts
  BY DEF StackInv
<1>4. Two(heap', stk', tmp', c, d) /\ HeapOK(heap')
  BY <1>1, <1>2, <1>3, EmptyList DEF Counts
<1>5. /\ stk' = [head |-> stk'.head, num_elements |-> stk'.num_elements]
      /\ tmp' = [head |-> tmp'.head, num_elements |-> tmp'.num_elements]
      /\ tmp'.num_elements = 0 /\ stk.num_elements \in 0 .. MaxNodes
  BY <1>1, <1>3 DEF TypeOK, Struct, Stack_create
<1>6. /\ TwoLists'
      /\ \E live \in SUBSET Nodes : heap' \in [live -> [val : Vals, next : Nodes \cup {NULL}]]
      /\ stk' \in Struct /\ tmp' \in Struct
      /\ Contents(heap', stk') = Values(heap', c) /\ Contents(heap', tmp') = Values(heap', d)
  BY <1>4, <1>5, TwoListsGive
<1>7. 0 \in 0 .. MaxNodes
  BY MaxType
<1>8. TypeOK'
  BY <1>1, <1>3, <1>5, <1>6, <1>7 DEF TypeOK
<1>9. Counts' /\ DestroyFreesAll'
  BY <1>1, <1>3, <1>5, <1>7, MaxType DEF Counts, DestroyFreesAll
<1>10. Placed'
  BY <1>1, StackAssumption DEF Placed, StackAssumption
<1> QED BY <1>1, <1>2, <1>4, <1>6, <1>8, <1>9, <1>10 DEF StackInv

\* The pop of one iteration frees a node, and the push that follows may take it.
LEMMA DumpOutStep ==
  ASSUME StackInv, DumpOut
  PROVE  /\ StackInv' /\ status' = "alive"
         /\ Contents(heap, stk) # <<>>
         /\ Contents(heap', tmp') = Cons(Head(Contents(heap, stk)), Contents(heap, tmp))
         /\ Contents(heap', stk') = Tail(Contents(heap, stk))
<1> DEFINE h  == Free(heap, {stk.head})
           vv == heap[stk.head].val
<1>1. PICK n \in Nodes \ DOMAIN h :
        n # tmp_at /\ heap' = WithNode(h, tmp, n, vv) /\ tmp' = Pushed(tmp, n)
  BY RoomIs DEF DumpOut, PopFrees
<1>2. /\ status = "alive" /\ phase = "out" /\ status' = status /\ phase' = phase /\ stk_size' = stk_size
      /\ tmp_at' = tmp_at
      /\ ret' = ret /\ i' = i + 1 /\ i < stk_size /\ stk.num_elements > 0
      /\ stk' = [head |-> heap[stk.head].next, num_elements |-> stk.num_elements - 1]
  BY DEF DumpOut, More, Popped
<1>3. PICK c \in Lists, d \in Lists :
        /\ Two(heap, stk, tmp, c, d)
        /\ Contents(heap, stk) = Values(heap, c) /\ Contents(heap, tmp) = Values(heap, d)
  BY <1>2, ListsOf
<1>4. TypeOK /\ HeapOK(heap) /\ Counts
  BY DEF StackInv
<1>5. TwoAfterPop(heap, stk, stk', tmp, c, d)
  BY <1>2, <1>3, <1>4, PopTwo
<1>6. /\ Two(h, stk', tmp, Tail(c), d) /\ HeapOK(h)
      /\ Values(h, Tail(c)) = Tail(Values(heap, c)) /\ Values(h, d) = Values(heap, d)
      /\ Values(heap, c) # <<>> /\ Head(Values(heap, c)) = vv /\ vv \in Vals
  BY <1>5 DEF TwoAfterPop, NodeRec
<1> HIDE DEF h, vv
<1>7. Two(h, tmp, stk', d, Tail(c))
  BY <1>6, TwoSwapped
<1>8. /\ Two(heap', tmp', stk', Cons(n, d), Tail(c)) /\ HeapOK(heap')
      /\ Values(heap', Cons(n, d)) = Cons(vv, Values(h, d))
      /\ Values(heap', Tail(c)) = Values(h, Tail(c))
  BY <1>1, <1>6, <1>7, PushTwo
<1>9. Two(heap', stk', tmp', Tail(c), Cons(n, d))
  BY <1>8, TwoSwapped
<1>10. /\ stk' = [head |-> stk'.head, num_elements |-> stk'.num_elements]
       /\ tmp' = [head |-> tmp'.head, num_elements |-> tmp'.num_elements]
       /\ tmp'.num_elements = tmp.num_elements + 1
  BY <1>1, <1>2 DEF Pushed
<1>11. /\ TwoLists'
       /\ \E live \in SUBSET Nodes : heap' \in [live -> [val : Vals, next : Nodes \cup {NULL}]]
       /\ stk' \in Struct /\ tmp' \in Struct
       /\ Contents(heap', stk') = Values(heap', Tail(c)) /\ Contents(heap', tmp') = Values(heap', Cons(n, d))
  BY <1>8, <1>9, <1>10, TwoListsGive
<1>12. i \in Nat /\ stk_size \in 0 .. MaxNodes /\ MaxNodes \in Nat /\ i + 1 \in 0 .. MaxNodes
  BY <1>2, <1>4, MaxType DEF Counts
<1>13. TypeOK'
  BY <1>2, <1>4, <1>11, <1>12 DEF TypeOK
<1>14. Counts' /\ DestroyFreesAll'
  BY <1>2, <1>4, <1>10, <1>12 DEF Counts, DestroyFreesAll
<1>15. Placed'
  <2>1. DOMAIN h = DOMAIN heap \ {stk.head}
    BY DEF h, Free
  <2>2. DOMAIN heap' = DOMAIN h \cup {n}
    BY <1>1 DEF WithNode
  <2> QED BY <1>1, <1>2, <2>1, <2>2 DEF StackInv, Placed
<1> QED BY <1>2, <1>3, <1>6, <1>8, <1>11, <1>13, <1>14, <1>15 DEF StackInv

LEMMA DumpBackStep ==
  ASSUME StackInv, DumpBack
  PROVE  /\ StackInv' /\ status' = "alive"
         /\ Contents(heap, tmp) # <<>>
         /\ Contents(heap', stk') = Cons(Head(Contents(heap, tmp)), Contents(heap, stk))
         /\ Contents(heap', tmp') = Tail(Contents(heap, tmp))
<1> DEFINE h  == Free(heap, {tmp.head})
           vv == heap[tmp.head].val
<1>1. PICK n \in Nodes \ DOMAIN h :
        n # tmp_at /\ heap' = WithNode(h, stk, n, vv) /\ stk' = Pushed(stk, n)
  BY RoomIs DEF DumpBack, PopFrees
<1>2. /\ status = "alive" /\ phase = "back" /\ status' = status /\ phase' = phase /\ stk_size' = stk_size
      /\ tmp_at' = tmp_at
      /\ ret' = ret /\ i' = i + 1 /\ i < stk_size /\ tmp.num_elements > 0
      /\ tmp' = [head |-> heap[tmp.head].next, num_elements |-> tmp.num_elements - 1]
  BY DEF DumpBack, More, Popped
<1>3. PICK c \in Lists, d \in Lists :
        /\ Two(heap, stk, tmp, c, d)
        /\ Contents(heap, stk) = Values(heap, c) /\ Contents(heap, tmp) = Values(heap, d)
  BY <1>2, ListsOf
<1>4. TypeOK /\ HeapOK(heap) /\ Counts
  BY DEF StackInv
<1>5. TwoAfterPop(heap, tmp, tmp', stk, d, c)
  <2>1. Two(heap, tmp, stk, d, c)
    BY <1>3, TwoSwapped
  <2> QED BY <1>2, <1>4, <2>1, PopTwo
<1>6. /\ Two(h, tmp', stk, Tail(d), c) /\ HeapOK(h)
      /\ Values(h, Tail(d)) = Tail(Values(heap, d)) /\ Values(h, c) = Values(heap, c)
      /\ Values(heap, d) # <<>> /\ Head(Values(heap, d)) = vv /\ vv \in Vals
  BY <1>5 DEF TwoAfterPop, NodeRec
<1> HIDE DEF h, vv
<1>7. Two(h, stk, tmp', c, Tail(d))
  BY <1>6, TwoSwapped
<1>8. /\ Two(heap', stk', tmp', Cons(n, c), Tail(d)) /\ HeapOK(heap')
      /\ Values(heap', Cons(n, c)) = Cons(vv, Values(h, c))
      /\ Values(heap', Tail(d)) = Values(h, Tail(d))
  BY <1>1, <1>6, <1>7, PushTwo
<1>9. /\ stk' = [head |-> stk'.head, num_elements |-> stk'.num_elements]
      /\ tmp' = [head |-> tmp'.head, num_elements |-> tmp'.num_elements]
      /\ stk'.num_elements = stk.num_elements + 1
  BY <1>1, <1>2 DEF Pushed
<1>10. /\ TwoLists'
       /\ \E live \in SUBSET Nodes : heap' \in [live -> [val : Vals, next : Nodes \cup {NULL}]]
       /\ stk' \in Struct /\ tmp' \in Struct
       /\ Contents(heap', stk') = Values(heap', Cons(n, c)) /\ Contents(heap', tmp') = Values(heap', Tail(d))
  BY <1>8, <1>9, TwoListsGive
<1>11. i \in Nat /\ stk_size \in 0 .. MaxNodes /\ MaxNodes \in Nat /\ i + 1 \in 0 .. MaxNodes
  BY <1>2, <1>4, MaxType DEF Counts
<1>12. TypeOK'
  BY <1>2, <1>4, <1>10, <1>11 DEF TypeOK
<1>13. Counts' /\ DestroyFreesAll'
  BY <1>2, <1>4, <1>9, <1>11 DEF Counts, DestroyFreesAll
<1>14. Placed'
  <2>1. DOMAIN h = DOMAIN heap \ {tmp.head}
    BY DEF h, Free
  <2>2. DOMAIN heap' = DOMAIN h \cup {n}
    BY <1>1 DEF WithNode
  <2> QED BY <1>1, <1>2, <2>1, <2>2 DEF StackInv, Placed
<1> QED BY <1>2, <1>3, <1>6, <1>8, <1>10, <1>12, <1>13, <1>14 DEF StackInv

LEMMA DumpTurnStep ==
  ASSUME StackInv, DumpTurn
  PROVE  StackInv' /\ status' = "alive" /\ UNCHANGED <<heap, stk, tmp, ret>>
<1>1. /\ status = "alive" /\ phase = "out" /\ ~(i < stk_size) /\ phase' = "back" /\ i' = 0
      /\ heap' = heap /\ stk' = stk /\ tmp' = tmp /\ tmp_at' = tmp_at /\ stk_size' = stk_size /\ status' = status /\ ret' = ret
  BY DEF DumpTurn, More
<1>2. 0 \in 0 .. MaxNodes /\ MaxNodes \in Nat
  BY MaxType
<1>3. TypeOK' /\ TwoLists' /\ HeapOK(heap)' /\ DestroyFreesAll'
  BY <1>1, <1>2 DEF StackInv, TypeOK, TwoLists, DestroyFreesAll
<1>5. Placed'
  BY <1>1 DEF StackInv, Placed
<1>4. Counts'
  BY <1>1, <1>2 DEF StackInv, Counts
<1> QED BY <1>1, <1>3, <1>4, <1>5 DEF StackInv

\* The second stack is empty by then, and destroying it frees nothing.
LEMMA DumpEndStep ==
  ASSUME StackInv, DumpEnd
  PROVE  StackInv' /\ status' = "alive" /\ UNCHANGED <<heap, stk, tmp, ret>>
<1>1. /\ status = "alive" /\ phase = "back" /\ tmp.num_elements = 0 /\ phase' = "idle" /\ i' = 0
      /\ heap' = Free(heap, ChainNodes(heap, tmp))
      /\ stk' = stk /\ tmp' = tmp /\ tmp_at' = NULL /\ stk_size' = 0 /\ status' = status /\ ret' = ret
  BY DEF DumpEnd
<1>2. PICK c \in Lists, d \in Lists :
        Two(heap, stk, tmp, c, d) /\ ChainNodes(heap, tmp) = NodesOf(d)
  BY <1>1, ListsOf
<1>3. ChainNodes(heap, tmp) = {}
  BY <1>1, <1>2, EmptyList
<1>4. heap' = heap
  BY <1>1, <1>3 DEF StackInv, HeapOK, Free
<1>5. 0 \in 0 .. MaxNodes /\ MaxNodes \in Nat
  BY MaxType
<1>6. TypeOK' /\ TwoLists' /\ HeapOK(heap)' /\ DestroyFreesAll'
  BY <1>1, <1>4, <1>5 DEF StackInv, TypeOK, TwoLists, DestroyFreesAll
<1>8. Placed'
  BY <1>1, <1>4, StackAssumption DEF StackInv, HeapOK, Placed, StackAssumption
<1>7. Counts'
  BY <1>1, <1>5 DEF StackInv, Counts
<1> QED BY <1>1, <1>4, <1>6, <1>7, <1>8 DEF StackInv

\* In a dump no assertion can fail: the counts say that there is something to pop,
\* and the pop makes the room that the push needs.
LEMMA AbortStep ==
  ASSUME StackInv, Abort
  PROVE  StackInv' /\ phase = "idle" /\ status = "alive" /\ status' = "abort" /\ ret' = ret
<1>1. /\ status = "alive" /\ status' = "abort" /\ heap' = heap /\ stk' = stk /\ tmp' = tmp
      /\ tmp_at' = tmp_at /\ phase' = phase /\ i' = i /\ stk_size' = stk_size /\ ret' = ret
  BY DEF Abort, dumpVars
<1>2. phase = "idle"
  <2>1. /\ phase = "out" /\ i < stk_size => stk.num_elements > 0
        /\ phase = "back" /\ i < stk_size => tmp.num_elements > 0
        /\ phase = "back" /\ ~(i < stk_size) => tmp.num_elements = 0
    BY <1>1 DEF StackInv, Counts
  <2>2. ~(phase = "out" /\ MoveFails(stk))
    BY <1>1, <2>1, PopMakesRoom DEF MoveFails, More
  <2>3. ~(phase = "back" /\ MoveFails(tmp))
    BY <1>1, <2>1, PopMakesRoom DEF MoveFails, More
  <2> QED BY <2>1, <2>2, <2>3 DEF Abort, More
<1>3. TypeOK' /\ TwoLists' /\ HeapOK(heap)' /\ DestroyFreesAll' /\ Counts' /\ Placed'
  BY <1>1 DEF StackInv, TypeOK, TwoLists, DestroyFreesAll, Counts, Placed
<1> QED BY <1>1, <1>2, <1>3 DEF StackInv

LEMMA StutterStep ==
  ASSUME StackInv, UNCHANGED vars
  PROVE  StackInv'
BY DEF StackInv, TypeOK, TwoLists, Counts, Placed, DestroyFreesAll, vars, dumpVars

LEMMA NextInv == StackInv /\ [Next]_vars => StackInv'
<1> SUFFICES ASSUME StackInv, [Next]_vars PROVE StackInv'
  OBVIOUS
<1>1. ASSUME NEW v \in Vals, Stack_push(v) PROVE StackInv'
  BY <1>1, PushStep
<1>2. ASSUME NEW idx \in 0 .. MaxNodes - 1, Stack_peek(idx) PROVE StackInv'
  BY <1>2, PeekStep
<1>3. CASE Stack_pop
  BY <1>3, PopStep
<1>4. CASE Stack_destroy
  BY <1>4, DestroyStep
<1>5. CASE Dump
  BY <1>5, DumpStep
<1>6. CASE DumpOut
  BY <1>6, DumpOutStep
<1>7. CASE DumpTurn
  BY <1>7, DumpTurnStep
<1>8. CASE DumpBack
  BY <1>8, DumpBackStep
<1>9. CASE DumpEnd
  BY <1>9, DumpEndStep
<1>10. CASE Abort
  BY <1>10, AbortStep
<1>11. CASE Terminated
  BY <1>11, StutterStep DEF Terminated
<1>12. CASE UNCHANGED vars
  BY <1>12, StutterStep
<1> QED BY <1>1, <1>2, <1>3, <1>4, <1>5, <1>6, <1>7, <1>8, <1>9, <1>10, <1>11, <1>12 DEF Next

LEMMA AlwaysStackInv == Spec => []StackInv
BY InitInv, NextInv, PTL DEF Spec

-----------------------------------------------------------------------------
(* The theorems *)

\* Every variable keeps its type.
THEOREM TypeCorrect == Spec => []TypeOK
<1>1. StackInv => TypeOK
  BY DEF StackInv
<1> QED BY <1>1, AlwaysStackInv, PTL

\* Stack_push, Stack_pop and the loops of state_dump leave no node outside the two
\* lists, in none of them twice and in no freed memory.
THEOREM NodesAreOwned == Spec => []NodesOwned
<1>1. StackInv => NodesOwned
  <2> SUFFICES ASSUME StackInv, status = "alive"
               PROVE  /\ \A s \in {stk, tmp} : /\ \E c \in Lists : IsChain(heap, s.head, c)
                                               /\ Len(Chain(heap, s)) = s.num_elements
                      /\ ChainNodes(heap, stk) \cap ChainNodes(heap, tmp) = {}
                      /\ ChainNodes(heap, stk) \cup ChainNodes(heap, tmp) = DOMAIN heap
    BY DEF NodesOwned, StackInv, Placed
  <2>1. PICK c \in Lists, d \in Lists :
          /\ Two(heap, stk, tmp, c, d)
          /\ ChainNodes(heap, stk) = NodesOf(c) /\ ChainNodes(heap, tmp) = NodesOf(d)
    BY ListsOf
  <2>2. Chain(heap, stk) = c /\ Chain(heap, tmp) = d
    BY <2>1, ChainUnique DEF Two
  <2> QED BY <2>1, <2>2 DEF Two
<1> QED BY <1>1, AlwaysStackInv, PTL

\* Stack_destroy frees all that Stack_push allocated.
THEOREM DestroyLeavesNothing == Spec => []DestroyFreesAll
<1>1. StackInv => DestroyFreesAll
  BY DEF StackInv
<1> QED BY <1>1, AlwaysStackInv, PTL

\* state_dump ends without a failed assertion once its second stack is there,
\* however many elements there are and however full the heap is.
THEOREM DumpIsSafe == Spec => DumpNeverAborts
<1>1. StackInv /\ [Next]_vars => [phase # "idle" => status' = "alive"]_vars
  <2> SUFFICES ASSUME StackInv, Next, phase # "idle", status' # "alive" PROVE UNCHANGED vars
    OBVIOUS
  <2>1. ~DumpOut /\ ~DumpBack /\ ~DumpTurn /\ ~DumpEnd
    BY DumpOutStep, DumpBackStep, DumpTurnStep, DumpEndStep
  <2>2. ~Abort
    BY AbortStep
  <2>3. (\A v \in Vals : ~Stack_push(v)) /\ ~Stack_pop /\ ~Stack_destroy /\ ~Dump
    BY DEF Stack_push, Stack_pop, Stack_destroy, Dump, Ready
  <2>4. \A idx \in 0 .. MaxNodes - 1 : ~Stack_peek(idx)
    BY DEF Stack_peek, Ready
  <2>5. Terminated
    BY <2>1, <2>2, <2>3, <2>4 DEF Next
  <2> QED BY <2>5 DEF Terminated
<1> QED BY <1>1, AlwaysStackInv, PTL DEF Spec, DumpNeverAborts

-----------------------------------------------------------------------------
(* The refinement *)

\* What the caller sees while the process lives.
Seen == Reversed(Contents(heap, tmp)) \o Contents(heap, stk)

LEMMA NothingAbove == \A q : q \in Seq(Vals) => Reversed(<<>>) \o q = q
<1>1. Reversed(<<>>) = <<>>
  BY DEF Reversed
<1> QED BY <1>1

LEMMA IdleSeen ==
  ASSUME StackInv, status = "alive", phase = "idle"
  PROVE  /\ Contents(heap, tmp) = <<>> /\ Seen = Contents(heap, stk)
         /\ Contents(heap, stk) \in Seq(Vals)
<1>1. /\ Contents(heap, stk) \in Seq(Vals)
      /\ Contents(heap, tmp) \in Seq(Vals) /\ Len(Contents(heap, tmp)) = tmp.num_elements
  BY ListsOf
<1>2. tmp.num_elements = 0
  BY DEF StackInv, Counts
<1>3. Contents(heap, tmp) = <<>>
  BY <1>1, <1>2
<1> QED BY <1>1, <1>3, NothingAbove DEF Seen

\* An iteration of either loop is no change to the caller.
LEMMA DumpUnseen ==
  ASSUME StackInv, DumpOut \/ DumpBack
  PROVE  Seen' = Seen
<1> DEFINE S  == Contents(heap, stk)
           T  == Contents(heap, tmp)
           S2 == Contents(heap', stk')
           T2 == Contents(heap', tmp')
<1>1. S \in Seq(Vals) /\ T \in Seq(Vals)
  <2>1. status = "alive"
    BY DEF DumpOut, DumpBack
  <2> QED BY <2>1, ListsOf
<1>2. CASE DumpOut
  <2>1. S # <<>> /\ T2 = Cons(Head(S), T) /\ S2 = Tail(S)
    BY <1>2, DumpOutStep
  <2> HIDE DEF S, T, S2, T2
  <2>2. Reversed(T2) \o S2 = Reversed(T) \o S
    BY <1>1, <2>1, ReversedShift
  <2> QED BY <2>2 DEF Seen, S, T, S2, T2
<1>3. CASE DumpBack
  <2>1. T # <<>> /\ S2 = Cons(Head(T), S) /\ T2 = Tail(T)
    BY <1>3, DumpBackStep
  <2> HIDE DEF S, T, S2, T2
  <2>2. T2 \in Seq(Vals) /\ Head(T) \in Vals
    BY <1>1, <2>1
  <2>3. S2 \in Seq(Vals) /\ S2 # <<>> /\ Head(S2) = Head(T) /\ Tail(S2) = S
    BY <1>1, <2>1, <2>2 DEF Cons
  <2>4. Cons(Head(T), T2) = T
    BY <1>1, <2>1 DEF Cons
  <2>5. Reversed(Cons(Head(S2), T2)) \o Tail(S2) = Reversed(T2) \o S2
    BY <2>2, <2>3, ReversedShift
  <2>6. Reversed(T) \o S = Reversed(T2) \o S2
    BY <2>3, <2>4, <2>5
  <2> QED BY <2>6 DEF Seen, S, T, S2, T2
<1> QED BY <1>2, <1>3

\* The list of nodes with its count, taken apart and built again by each dump, is
\* a last in, first out stack.
THEOREM StackImplements == Spec => ImplementsStack
<1>1. Init => Abstract!AbsInit
  <2> SUFFICES ASSUME Init PROVE Abstract!AbsInit
    OBVIOUS
  <2>1. StackInv /\ status = "alive" /\ phase = "idle" /\ stk.num_elements = 0 /\ ret = NoVal
    BY InitInv DEF Init, Stack_create
  <2>2. Len(Contents(heap, stk)) = 0 /\ Contents(heap, stk) \in Seq(Vals)
    BY <2>1, ListsOf
  <2>3. Seen = <<>>
    BY <2>1, <2>2, IdleSeen
  <2> QED BY <2>1, <2>3 DEF Abstract!AbsInit, Seen
<1>2. StackInv /\ [Next]_vars => [Abstract!AbsNext]_(Abstract!absVars)
  <2> SUFFICES ASSUME StackInv, [Next]_vars PROVE [Abstract!AbsNext]_(Abstract!absVars)
    OBVIOUS
  <2>1. ASSUME NEW v \in Vals, Stack_push(v) PROVE Abstract!AbsNext
    <3>1. status = "alive" /\ status' = "alive" /\ phase = "idle" /\ ret' = ret
      BY <2>1 DEF Stack_push, Ready, dumpVars
    <3>2. Seen = Contents(heap, stk) /\ Contents(heap, stk) \in Seq(Vals) /\ Contents(heap, tmp) = <<>>
      BY <3>1, IdleSeen
    <3>3. /\ Contents(heap', stk') = Cons(v, Contents(heap, stk))
          /\ Contents(heap', tmp') = Contents(heap, tmp)
      BY <2>1, PushStep
    <3>4. Cons(v, Contents(heap, stk)) \in Seq(Vals)
      BY <3>2 DEF Cons
    <3>5. Seen' = Cons(v, Seen)
      BY <3>2, <3>3, <3>4, NothingAbove DEF Seen
    <3> QED BY <3>1, <3>5, Zenon DEF Abstract!AbsNext, Abstract!AbsPush, Seen, Cons
  <2>2. CASE Stack_pop
    <3>1. status = "alive" /\ status' = "alive" /\ phase = "idle"
      BY <2>2 DEF Stack_pop, Ready
    <3>2. Seen = Contents(heap, stk) /\ Contents(heap, stk) \in Seq(Vals) /\ Contents(heap, tmp) = <<>>
      BY <3>1, IdleSeen
    <3>3. /\ Contents(heap, stk) # <<>> /\ ret' = Head(Contents(heap, stk))
          /\ Contents(heap', stk') = Tail(Contents(heap, stk))
          /\ Contents(heap', tmp') = Contents(heap, tmp)
      BY <2>2, PopStep
    <3>4. Tail(Contents(heap, stk)) \in Seq(Vals)
      BY <3>2, <3>3
    <3>5. Seen' = Tail(Seen) /\ Seen # <<>> /\ ret' = Head(Seen)
      BY <3>2, <3>3, <3>4, NothingAbove DEF Seen
    <3> QED BY <3>1, <3>5, Zenon DEF Abstract!AbsNext, Abstract!AbsPop, Seen
  <2>3. ASSUME NEW idx \in 0 .. MaxNodes - 1, Stack_peek(idx) PROVE Abstract!AbsNext
    <3>1. status = "alive" /\ status' = "alive" /\ phase = "idle"
      BY <2>3 DEF Stack_peek, Ready
    <3>2. Seen = Contents(heap, stk)
      BY <3>1, IdleSeen
    <3>3. /\ \E k \in DOMAIN Contents(heap, stk) : ret' = Contents(heap, stk)[k]
          /\ Contents(heap', stk') = Contents(heap, stk)
          /\ Contents(heap', tmp') = Contents(heap, tmp)
      BY <2>3, PeekStep
    <3>4. Seen' = Seen /\ \E k \in DOMAIN Seen : ret' = Seen[k]
      BY <3>2, <3>3 DEF Seen
    <3> QED BY <3>1, <3>4, Zenon DEF Abstract!AbsNext, Abstract!AbsPeek, Seen
  <2>4. CASE Stack_destroy
    <3>1. status = "alive" /\ status' = "destroyed" /\ ret' = ret
      BY <2>4, DestroyStep DEF Stack_destroy, Ready
    <3> QED BY <3>1 DEF Abstract!AbsNext, Abstract!AbsEnd
  <2>5. CASE Abort
    <3>1. status = "alive" /\ status' = "abort" /\ ret' = ret
      BY <2>5, AbortStep
    <3> QED BY <3>1 DEF Abstract!AbsNext, Abstract!AbsEnd
  <2>6. CASE Dump \/ DumpTurn \/ DumpEnd
    <3>1. status = "alive" /\ status' = "alive" /\ ret' = ret
      BY <2>6, DumpTurnStep, DumpEndStep DEF Dump, Ready, DumpTurn, DumpEnd
    <3>2. Seen' = Seen
      BY <2>6, DumpStep, DumpTurnStep, DumpEndStep DEF Seen
    <3> QED BY <3>1, <3>2, Zenon DEF Abstract!absVars, Seen
  <2>7. CASE DumpOut \/ DumpBack
    <3>1. status = "alive" /\ status' = "alive" /\ ret' = ret
      BY <2>7, DumpOutStep, DumpBackStep DEF DumpOut, DumpBack
    <3>2. Seen' = Seen
      BY <2>7, DumpUnseen
    <3> QED BY <3>1, <3>2, Zenon DEF Abstract!absVars, Seen
  <2>8. CASE Terminated \/ UNCHANGED vars
    <3>1. UNCHANGED <<heap, stk, tmp, status, ret>>
      BY <2>8 DEF Terminated, vars, dumpVars
    <3>2. UNCHANGED Seen
      BY <3>1 DEF Seen
    <3> QED BY <3>1, <3>2, Zenon DEF Abstract!absVars, Seen
  <2> QED BY <2>1, <2>2, <2>3, <2>4, <2>5, <2>6, <2>7, <2>8 DEF Next
<1> QED BY <1>1, <1>2, AlwaysStackInv, PTL DEF Spec, ImplementsStack, Abstract!AbsSpec
=============================================================================

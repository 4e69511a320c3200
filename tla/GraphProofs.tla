----------------------------- MODULE GraphProofs -----------------------------
(***************************************************************************)
(* Theorems about _dag.py, for every graph: the verdict of find_cycle is   *)
(* right and the cycle it reports is a real one with the new id on it;     *)
(* topo_order puts dependencies first, and agrees with find_cycle.         *)
(***************************************************************************)
EXTENDS GraphChecks, ListProofs, FiniteSetTheorems, SequenceTheorems, TLAPS

-----------------------------------------------------------------------------
(* Sequences.                                                              *)

LEMMA FrontElements ==
  ASSUME NEW T, NEW s \in Seq(T), s # <<>>
  PROVE  /\ Front(s) \in Seq(T) /\ Len(Front(s)) = Len(s) - 1
         /\ \A i \in 1..(Len(s) - 1) : Front(s)[i] = s[i]
<1>1. Len(s) \in Nat /\ Len(s) > 0 /\ \A i \in 1..(Len(s) - 1) : s[i] \in T
  OBVIOUS
<1>2. /\ SubSeq(s, 1, Len(s) - 1) \in Seq(T)
      /\ Len(SubSeq(s, 1, Len(s) - 1)) = IF 1 <= Len(s) - 1 THEN Len(s) - 1 - 1 + 1 ELSE 0
      /\ \A i \in 1..(Len(s) - 1 - 1 + 1) : SubSeq(s, 1, Len(s) - 1)[i] = s[1 + i - 1]
  BY <1>1, SubSeqProperties
<1>3. /\ Front(s) \in Seq(T)
      /\ Len(Front(s)) = IF 1 <= Len(s) - 1 THEN Len(s) - 1 - 1 + 1 ELSE 0
      /\ \A i \in 1..(Len(s) - 1 - 1 + 1) : Front(s)[i] = s[1 + i - 1]
  BY <1>2, Zenon DEF Front
<1>4. Len(Front(s)) = Len(s) - 1
  <2>1. \A n \in Nat : n > 0 => (IF 1 <= n - 1 THEN n - 1 - 1 + 1 ELSE 0) = n - 1
    OBVIOUS
  <2> QED BY <1>1, <1>3, <2>1, Zenon
<1>5. ASSUME NEW i \in 1..(Len(s) - 1) PROVE Front(s)[i] = s[i]
  <2>1. i \in 1..(Len(s) - 1 - 1 + 1) /\ 1 + i - 1 = i
    BY <1>1
  <2> QED BY <1>3, <2>1
<1> QED BY <1>3, <1>4, <1>5

LEMMA AppendElements ==
  ASSUME NEW T, NEW s \in Seq(T), NEW e \in T
  PROVE  /\ Append(s, e) \in Seq(T) /\ Len(Append(s, e)) = Len(s) + 1
         /\ \A i \in 1..Len(s) : Append(s, e)[i] = s[i]
         /\ Append(s, e)[Len(s) + 1] = e
OBVIOUS

LEMMA ReplaceLastElements ==
  ASSUME NEW T, NEW s \in Seq(T), s # <<>>, NEW e \in T
  PROVE  LET r == [s EXCEPT ![Len(s)] = e]
         IN  /\ r \in Seq(T) /\ Len(r) = Len(s)
             /\ \A i \in 1..(Len(s) - 1) : r[i] = s[i]
             /\ r[Len(s)] = e
OBVIOUS

-----------------------------------------------------------------------------
(* The order of the dict: every id, once.                                  *)

LEMMA OrderElements ==
  /\ IsFiniteSet(Nodes) /\ Len(Order) = Cardinality(Nodes) /\ Len(Order) \in Nat
  /\ Order \in Seq(Nodes)
  /\ \A n \in Nodes : \E t \in 1..Len(Order) : Order[t] = n
<1> DEFINE N == Cardinality(Existing)
           F == SetToSeq(Existing)
<1>1. N \in Nat /\ ExistsBijection(1..N, Existing)
  BY CycleCheckAssumption, FS_CardinalityType
<1>2. \E f \in [1..N -> Existing] : IsInjective(f)
  BY <1>1 DEF ExistsBijection, Bijection, Injection
<1>3. F \in [1..N -> Existing] /\ IsInjective(F)
  BY <1>2 DEF SetToSeq
<1>4. IsFiniteSet(1..N) /\ Cardinality(1..N) = N
  BY <1>1, FS_Interval
<1>5. F \in Surjection(1..N, Existing)
  BY <1>3, <1>4, CycleCheckAssumption, FS_Injection DEF Injection
<1>6. \A n \in Existing : \E t \in 1..N : F[t] = n
  BY <1>5 DEF Surjection
<1>7. F \in Seq(Existing) /\ Len(F) = N
  BY <1>1, <1>3
<1>8. F \in Seq(Nodes) /\ NewId \in Nodes
  BY <1>7 DEF Nodes
<1>9. /\ Order \in Seq(Nodes) /\ Len(Order) = N + 1
      /\ \A i \in 1..N : Order[i] = F[i]
      /\ Order[N + 1] = NewId
  BY <1>7, <1>8, AppendElements DEF Order
<1>10. IsFiniteSet(Nodes) /\ Cardinality(Nodes) = N + 1
  BY CycleCheckAssumption, FS_AddElement DEF Nodes
<1>11. ASSUME NEW n \in Nodes PROVE \E t \in 1..(N + 1) : Order[t] = n
  <2>1. CASE n = NewId
    BY <1>1, <1>9, <2>1
  <2>2. CASE n \in Existing
    <3>1. PICK t \in 1..N : F[t] = n
      BY <1>6, <2>2
    <3> QED BY <1>1, <1>9, <3>1
  <2> QED BY <2>1, <2>2 DEF Nodes
<1> QED BY <1>1, <1>9, <1>10, <1>11
-----------------------------------------------------------------------------
(* The invariant of the search.                                            *)

At(i)  == stack[i][1]
Pos(i) == stack[i][2]
Black  == {n \in Nodes : color[n] = "black"}

SearchType ==
  /\ graph \in [Nodes -> DepLists]
  /\ color \in [Nodes -> {"white", "gray", "black"}]
  /\ parent \in [Nodes -> Nodes \cup {NoNode}]
  /\ stack \in Seq(Nodes \X (Nat \ {0}))
  /\ todo \in 1..(Len(Order) + 1)
  /\ done \in BOOLEAN

(* The gray ids are those on the stack, each once; each was reached from   *)
(* the one below by the neighbour that one looked at last.                 *)
PathInv ==
  /\ \A i \in 1..Len(stack) : color[At(i)] = "gray"
  /\ \A i, j \in 1..Len(stack) : At(i) = At(j) => i = j
  /\ \A n \in Nodes : color[n] = "gray" => \E i \in 1..Len(stack) : At(i) = n
  /\ \A i \in 1..(Len(stack) - 1) :
       /\ Pos(i) - 1 \in 1..Len(graph[At(i)])
       /\ graph[At(i)][Pos(i) - 1] = At(i + 1)
       /\ parent[At(i + 1)] = At(i)
  /\ stack # <<>> => Pos(Len(stack)) <= Len(graph[At(Len(stack))]) + 1
  /\ stack # <<>> => parent[At(1)] = NoNode
  /\ \A n \in Nodes : color[n] = "white" => parent[n] = NoNode

(* What the search has left behind holds no cycle and leads nowhere else.  *)
(* On the path, the neighbours before the current one are black.           *)
ExploredInv ==
  /\ \A i \in 1..Len(stack) : \A j \in 1..(Pos(i) - 1) :
       graph[At(i)][j] \in Nodes =>
         color[graph[At(i)][j]] = "black" \/ (i < Len(stack) /\ j = Pos(i) - 1)
  /\ \A n, d \in Nodes : color[n] = "black" /\ Edge(n, d) => color[d] = "black"
  /\ ~HasCycle(Black)
  /\ \A t \in 1..(todo - 1) : color[Order[t]] # "white"

RealCycle ==
  /\ Len(found) >= 2 /\ Head(found) = Last(found)
  /\ \A i \in 1..(Len(found) - 1) : Edge(found[i], found[i + 1])
  /\ IsInjective(Front(found))
  /\ NewId \in ToSet(found)

SearchInv ==
  /\ SearchType /\ ~HasCycle(Existing)
  /\ ~done => PathInv /\ ExploredInv /\ found = <<>>
  /\ done => \/ found = <<>> /\ ~HasCycle(Nodes)
             \/ found # <<>> /\ HasCycle(Nodes) /\ RealCycle

LEMMA InitSearch == Init => SearchInv
<1> SUFFICES ASSUME Init PROVE SearchInv
  OBVIOUS
<1>1. SearchType
  <2>1. stack \in Seq(Nodes \X (Nat \ {0})) /\ todo \in 1..(Len(Order) + 1)
    BY OrderElements DEF Init
  <2> QED BY <2>1 DEF Init, SearchType
<1>2. PathInv
  BY DEF Init, PathInv
<1>3. ~HasCycle(Black)
  <2>1. Black = {}
    BY DEF Init, Black
  <2> QED BY <2>1 DEF HasCycle
<1>4. ExploredInv
  BY <1>3 DEF Init, ExploredInv
<1> QED BY <1>1, <1>2, <1>4 DEF Init, SearchInv

LEMMA DepListType ==
  ASSUME NEW l \in DepLists
  PROVE  /\ Len(l) \in Nat /\ DOMAIN l = 1..Len(l)
         /\ \A j \in 1..Len(l) : l[j] \in Nodes \cup {Unknown}
<1>1. PICK m \in 0..MaxDeps : l \in [1..m -> Nodes \cup {Unknown}]
  BY Zenon DEF DepLists, SeqOf
<1>2. m \in Nat
  BY <1>1, CycleCheckAssumption
<1>3. l \in Seq(Nodes \cup {Unknown})
  BY <1>1, <1>2
<1>4. Len(l) = m
  BY <1>1, <1>2
<1> QED BY <1>1, <1>2, <1>4

(* The id at the top of the stack and its current neighbour.               *)
LEMMA TopType ==
  ASSUME SearchType, stack # <<>>
  PROVE  /\ Len(stack) \in Nat \ {0}
         /\ \A i \in 1..Len(stack) : At(i) \in Nodes /\ Pos(i) \in Nat \ {0}
         /\ Node = At(Len(stack)) /\ Idx = Pos(Len(stack))
         /\ \A n \in Nodes : Len(graph[n]) \in Nat
<1>1. Len(stack) \in Nat \ {0} /\ \A i \in 1..Len(stack) : stack[i] \in Nodes \X (Nat \ {0})
  BY DEF SearchType
<1>2. \A n \in Nodes : Len(graph[n]) \in Nat
  BY DepListType DEF SearchType
<1> QED BY <1>1, <1>2 DEF At, Pos, Node, Idx, Last

(* An id is a neighbour of another if and only if it is in its list.       *)
LEMMA EdgeByIndex ==
  ASSUME SearchType, NEW n \in Nodes, NEW d
  PROVE  Edge(n, d) <=> \E j \in 1..Len(graph[n]) : graph[n][j] = d
<1>1. DOMAIN graph[n] = 1..Len(graph[n])
  BY DepListType DEF SearchType
<1> QED BY <1>1 DEF Edge, ToSet

LEMMA SameGraph == UNCHANGED graph => \A N : HasCycle(N)' <=> HasCycle(N)
BY DEF HasCycle, Edge

(* An id all of whose neighbours are black can be black itself.            *)
LEMMA CloseKeepsAcyclic ==
  ASSUME NEW N, NEW n, n \notin N, ~HasCycle(N),
         \A k \in N, d \in N \cup {n} : Edge(k, d) => d \in N,
         \A d \in N \cup {n} : Edge(n, d) => d \in N
  PROVE  ~HasCycle(N \cup {n})
<1> SUFFICES ASSUME NEW S \in SUBSET (N \cup {n}), S # {}, \A k \in S : \E d \in S : Edge(k, d)
             PROVE  FALSE
  BY DEF HasCycle
<1>1. S \cap N # {}
  <2>1. CASE n \in S
    BY <2>1
  <2>2. CASE n \notin S
    BY <2>2
  <2> QED BY <2>1, <2>2
<1>2. \A k \in S \cap N : \E d \in S \cap N : Edge(k, d)
  OBVIOUS
<1> QED BY <1>1, <1>2 DEF HasCycle

LEMMA SkipStartSearch == SearchInv /\ SkipStart => SearchInv'
<1> SUFFICES ASSUME SearchInv, SkipStart PROVE SearchInv'
  OBVIOUS
<1>1. /\ UNCHANGED <<graph, color, parent, stack, found, done>> /\ todo' = todo + 1
      /\ ~done /\ color[Order[todo]] # "white" /\ todo <= Len(Order)
  BY DEF SkipStart
<1>2. SearchType'
  BY <1>1, OrderElements DEF SearchInv, SearchType
<1>3. PathInv'
  BY <1>1 DEF SearchInv, PathInv, At, Pos
<1>4. ExploredInv'
  <2>1. todo \in Nat \ {0}
    BY OrderElements DEF SearchInv, SearchType
  <2>2. \A t \in 1..(todo' - 1) : color'[Order[t]] # "white"
    BY <1>1, <2>1 DEF SearchInv, ExploredInv
  <2> QED BY <1>1, <2>2 DEF SearchInv, ExploredInv, At, Pos, Black, HasCycle, Edge
<1> QED BY <1>1, <1>2, <1>3, <1>4, SameGraph DEF SearchInv

LEMMA OpenStartSearch == SearchInv /\ OpenStart => SearchInv'
<1> SUFFICES ASSUME SearchInv, OpenStart PROVE SearchInv'
  OBVIOUS
<1> DEFINE s == Order[todo]
<1>1. /\ UNCHANGED <<graph, parent, found, done>> /\ todo' = todo + 1
      /\ ~done /\ color[s] = "white" /\ todo <= Len(Order) /\ stack = <<>>
      /\ stack' = <<<<s, 1>>>> /\ color' = [color EXCEPT ![s] = "gray"]
  BY DEF OpenStart
<1>2. todo \in 1..Len(Order) /\ s \in Nodes
  <2>1. todo \in 1..Len(Order)
    BY <1>1, OrderElements DEF SearchInv, SearchType
  <2> QED BY <2>1, OrderElements
<1>3. SearchType'
  BY <1>1, <1>2, OrderElements DEF SearchInv, SearchType
<1>4. Len(stack') = 1 /\ At(1)' = s /\ Pos(1)' = 1 /\ stack' # <<>>
  BY <1>1 DEF At, Pos
<1>5. /\ color \in [Nodes -> {"white", "gray", "black"}]
      /\ \A n \in Nodes : color[n] # "gray"
      /\ color'[s] = "gray" /\ \A n \in Nodes \ {s} : color'[n] = color[n]
  BY <1>1, <1>2 DEF SearchInv, PathInv, SearchType
<1>6. Len(graph[s]) \in Nat
  BY <1>2, DepListType DEF SearchInv, SearchType
<1>7. PathInv'
  BY <1>1, <1>2, <1>4, <1>5, <1>6 DEF SearchInv, PathInv
<1>8. ExploredInv'
  <2>1. Black' = Black
    BY <1>1, <1>2, <1>5 DEF Black
  <2>2. \A t \in 1..(todo' - 1) : color'[Order[t]] # "white"
    BY <1>1, <1>2, <1>5, OrderElements DEF SearchInv, ExploredInv
  <2>3. \A n, d \in Nodes : color'[n] = "black" /\ Edge(n, d)' => color'[d] = "black"
    BY <1>1, <1>2, <1>5 DEF SearchInv, ExploredInv, Edge
  <2>4. \A i \in 1..Len(stack') : \A j \in 1..(Pos(i)' - 1) : FALSE
    BY <1>4
  <2> QED BY <1>1, <2>1, <2>2, <2>3, <2>4, SameGraph DEF SearchInv, ExploredInv
<1> QED BY <1>1, <1>3, <1>7, <1>8, SameGraph DEF SearchInv

LEMMA CloseSearch == SearchInv /\ Close => SearchInv'
<1> SUFFICES ASSUME SearchInv, Close PROVE SearchInv'
  OBVIOUS
<1> DEFINE L == Len(stack)
           n == At(L)
<1>0. SearchType /\ PathInv /\ ExploredInv /\ stack # <<>> /\ ~done /\ found = <<>>
  BY DEF SearchInv, Close, Searching
<1>1. /\ L \in Nat \ {0} /\ \A i \in 1..L : At(i) \in Nodes /\ Pos(i) \in Nat \ {0}
      /\ Node = n /\ Idx = Pos(L) /\ n \in Nodes /\ Len(graph[n]) \in Nat
  BY <1>0, TopType
<1>2. /\ UNCHANGED <<graph, parent, todo, found, done>> /\ Pos(L) > Len(graph[n])
      /\ stack' = Front(stack) /\ color' = [color EXCEPT ![n] = "black"]
  BY <1>1 DEF Close
<1>3. /\ stack' \in Seq(Nodes \X (Nat \ {0})) /\ Len(stack') = L - 1
      /\ \A i \in 1..(L - 1) : stack'[i] = stack[i]
  BY <1>0, <1>2, FrontElements DEF SearchType
<1>4. \A i \in 1..(L - 1) : At(i)' = At(i) /\ Pos(i)' = Pos(i)
  BY <1>3 DEF At, Pos
<1>5. /\ color'[n] = "black" /\ color[n] = "gray"
      /\ \A k \in Nodes \ {n} : color'[k] = color[k]
  BY <1>0, <1>1, <1>2 DEF SearchType, PathInv
<1>6. \A i \in 1..(L - 1) : At(i) # n
  BY <1>0, <1>1 DEF PathInv
<1>7. SearchType'
  BY <1>0, <1>1, <1>2, <1>3 DEF SearchType
<1>8. PathInv'
  <2>1. ASSUME NEW i \in 1..(L - 1) PROVE color'[At(i)'] = "gray"
    <3>1. i \in 1..L /\ At(i) \in Nodes \ {n} /\ At(i)' = At(i)
      BY <1>1, <1>4, <1>6, <2>1
    <3>2. color[At(i)] = "gray"
      <4>1. \A k \in 1..L : color[At(k)] = "gray"
        BY <1>0 DEF PathInv
      <4> QED BY <3>1, <4>1
    <3> QED BY <1>5, <3>1, <3>2
  <2>2. ASSUME NEW i \in 1..(L - 1), NEW j \in 1..(L - 1), At(i)' = At(j)' PROVE i = j
    <3>1. i \in 1..L /\ j \in 1..L /\ At(i) = At(j)
      BY <1>1, <1>4, <2>2
    <3>2. \A k, l \in 1..L : At(k) = At(l) => k = l
      BY <1>0 DEF PathInv
    <3> QED BY <3>1, <3>2
  <2>3. ASSUME NEW k \in Nodes, color'[k] = "gray" PROVE \E i \in 1..(L - 1) : At(i)' = k
    <3>1. k # n /\ color[k] = "gray"
      BY <1>5, <2>3
    <3>2. PICK i \in 1..L : At(i) = k
      BY <1>0, <3>1 DEF PathInv
    <3> QED BY <1>1, <1>4, <3>1, <3>2
  <2>4. ASSUME NEW i \in 1..(L - 1 - 1)
        PROVE  /\ Pos(i)' - 1 \in 1..Len(graph'[At(i)'])
               /\ graph'[At(i)'][Pos(i)' - 1] = At(i + 1)'
               /\ parent'[At(i + 1)'] = At(i)'
    <3>1. i \in 1..(L - 1) /\ i + 1 \in 1..(L - 1)
      BY <1>1, <2>4
    <3>2. At(i)' = At(i) /\ Pos(i)' = Pos(i) /\ At(i + 1)' = At(i + 1)
      BY <1>4, <3>1
    <3> QED BY <1>0, <1>2, <3>1, <3>2 DEF PathInv
  <2>5. ASSUME NEW m, m = L - 1, m # 0 PROVE Pos(m)' <= Len(graph'[At(m)']) + 1
    <3>1. m \in 1..(L - 1) /\ Pos(m) \in Nat /\ At(m) \in Nodes
      BY <1>1, <2>5
    <3>2. Pos(m) - 1 \in 1..Len(graph[At(m)])
      BY <1>0, <3>1 DEF PathInv
    <3>3. Len(graph[At(m)]) \in Nat
      BY <1>0, <3>1, TopType
    <3>4. Pos(m)' = Pos(m) /\ At(m)' = At(m)
      BY <1>4, <3>1
    <3>5. Pos(m) <= Len(graph[At(m)]) + 1
      BY <3>1, <3>2, <3>3
    <3> QED BY <1>2, <3>4, <3>5
  <2>6. ASSUME L - 1 # 0 PROVE parent'[At(1)'] = NoNode
    <3>1. 1 \in 1..(L - 1)
      BY <1>1, <2>6
    <3> QED BY <1>0, <1>2, <1>4, <3>1 DEF PathInv
  <2>7. \A k \in Nodes : color'[k] = "white" => parent'[k] = NoNode
    BY <1>0, <1>2, <1>5 DEF PathInv
  <2>8. stack' # <<>> => L - 1 # 0
    BY <1>1, <1>3
  <2> QED BY <1>3, <2>1, <2>2, <2>3, <2>4, <2>5, <2>6, <2>7, <2>8 DEF PathInv
<1>9. \A d \in Nodes : Edge(n, d) => color[d] = "black"
  <2>1. ASSUME NEW j \in 1..Len(graph[n]), graph[n][j] \in Nodes PROVE color[graph[n][j]] = "black"
    BY <1>0, <1>1, <1>2, <2>1 DEF ExploredInv
  <2> QED BY <1>0, <1>1, <2>1, EdgeByIndex
<1>10. ExploredInv'
  <2>1. ASSUME NEW i \in 1..(L - 1), NEW j \in 1..(Pos(i)' - 1), graph'[At(i)'][j] \in Nodes
        PROVE  color'[graph'[At(i)'][j]] = "black" \/ (i < L - 1 /\ j = Pos(i)' - 1)
    <3>1. At(i)' = At(i) /\ Pos(i)' = Pos(i) /\ graph' = graph /\ i \in 1..L /\ i < L
      BY <1>1, <1>2, <1>4
    <3>2. CASE color[graph[At(i)][j]] = "black"
      BY <1>5, <2>1, <3>1, <3>2
    <3>3. CASE j = Pos(i) - 1
      <4>1. graph[At(i)][j] = At(i + 1)
        BY <1>0, <1>1, <3>3 DEF PathInv
      <4>2. CASE i + 1 = L
        BY <1>5, <3>1, <4>1, <4>2
      <4>3. CASE i + 1 # L
        BY <1>1, <3>1, <3>3, <4>3
      <4> QED BY <4>2, <4>3
    <3> QED BY <1>0, <2>1, <3>1, <3>2, <3>3 DEF ExploredInv
  <2>2. \A k, d \in Nodes : color'[k] = "black" /\ Edge(k, d)' => color'[d] = "black"
    BY <1>0, <1>1, <1>2, <1>5, <1>9 DEF ExploredInv, Edge
  <2>3. Black' = Black \cup {n} /\ n \notin Black
    BY <1>1, <1>5 DEF Black
  <2>4. ~HasCycle(Black \cup {n})
    <3>1. /\ \A k \in Black, d \in Black \cup {n} : Edge(k, d) => d \in Black
          /\ \A d \in Black \cup {n} : Edge(n, d) => d \in Black
      BY <1>0, <1>1, <1>9 DEF ExploredInv, Black
    <3>2. ~HasCycle(Black)
      BY <1>0 DEF ExploredInv
    <3> QED BY <2>3, <3>1, <3>2, CloseKeepsAcyclic
  <2>5. \A t \in 1..(todo' - 1) : color'[Order[t]] # "white"
    <3>1. \A t \in 1..(todo - 1) : Order[t] \in Nodes
      BY <1>0, OrderElements DEF SearchType
    <3> QED BY <1>0, <1>2, <1>5, <3>1 DEF ExploredInv
  <2> QED BY <1>2, <1>3, <2>1, <2>2, <2>3, <2>4, <2>5, SameGraph DEF ExploredInv
<1> QED BY <1>0, <1>2, <1>7, <1>8, <1>10, SameGraph DEF SearchInv
LEMMA AdvancedElements ==
  ASSUME SearchType, stack # <<>>
  PROVE  /\ Advanced \in Seq(Nodes \X (Nat \ {0})) /\ Len(Advanced) = Len(stack)
         /\ \A i \in 1..(Len(stack) - 1) : Advanced[i] = stack[i]
         /\ Advanced[Len(stack)] = <<Node, Idx + 1>>
<1>1. <<Node, Idx + 1>> \in Nodes \X (Nat \ {0})
  BY TopType
<1>2. stack \in Seq(Nodes \X (Nat \ {0}))
  BY DEF SearchType
<1> QED BY <1>1, <1>2, ReplaceLastElements DEF Advanced

LEMMA PassOverSearch == SearchInv /\ PassOver => SearchInv'
<1> SUFFICES ASSUME SearchInv, PassOver,
                    NEW L, L = Len(stack), NEW n, n = At(L), NEW p, p = Pos(L)
             PROVE  SearchInv'
  OBVIOUS
<1>0. SearchType /\ PathInv /\ ExploredInv /\ stack # <<>> /\ ~done /\ found = <<>>
  BY DEF SearchInv, PassOver, AtNeighbour, Searching
<1>1. /\ L \in Nat \ {0} /\ \A i \in 1..L : At(i) \in Nodes /\ Pos(i) \in Nat \ {0}
      /\ Node = n /\ Idx = p /\ n \in Nodes /\ p \in Nat \ {0} /\ Len(graph[n]) \in Nat
      /\ Len(stack) = L
  BY <1>0, TopType
<1>2. /\ UNCHANGED <<graph, color, parent, todo, found, done>> /\ stack' = Advanced
      /\ p <= Len(graph[n]) /\ (graph[n][p] \in Nodes => color[graph[n][p]] = "black")
  BY <1>1 DEF PassOver, AtNeighbour, Next1
<1>3. /\ stack' \in Seq(Nodes \X (Nat \ {0})) /\ Len(stack') = L
      /\ \A i \in 1..(L - 1) : stack'[i] = stack[i]
      /\ stack'[L] = <<n, p + 1>>
  BY <1>0, <1>1, <1>2, AdvancedElements
<1>4. /\ \A i \in 1..L : At(i)' = At(i)
      /\ \A i \in 1..(L - 1) : Pos(i)' = Pos(i)
      /\ stack'[L][2] = p + 1
  <2>1. ASSUME NEW i \in 1..(L - 1) PROVE At(i)' = At(i) /\ Pos(i)' = Pos(i)
    BY <1>3, <2>1 DEF At, Pos
  <2>2. stack'[L][1] = n /\ stack'[L][2] = p + 1
    BY <1>3
  <2>3. At(L)' = At(L)
    BY <2>2 DEF At
  <2>4. \A i \in 1..L : i \in 1..(L - 1) \/ i = L
    BY <1>1
  <2> QED BY <2>1, <2>2, <2>3, <2>4
<1>5. SearchType'
  BY <1>0, <1>2, <1>3 DEF SearchType
<1>6. PathInv'
  <2>1. \A i \in 1..L : color'[At(i)'] = "gray"
    BY <1>0, <1>2, <1>4 DEF PathInv
  <2>2. \A i, j \in 1..L : At(i)' = At(j)' => i = j
    BY <1>0, <1>4 DEF PathInv
  <2>3. \A k \in Nodes : color'[k] = "gray" => \E i \in 1..L : At(i)' = k
    BY <1>0, <1>2, <1>4 DEF PathInv
  <2>4. ASSUME NEW i \in 1..(L - 1)
        PROVE  /\ Pos(i)' - 1 \in 1..Len(graph'[At(i)'])
               /\ graph'[At(i)'][Pos(i)' - 1] = At(i + 1)'
               /\ parent'[At(i + 1)'] = At(i)'
    <3>1. i \in 1..L /\ i + 1 \in 1..L
      BY <1>1, <2>4
    <3>2. At(i)' = At(i) /\ Pos(i)' = Pos(i) /\ At(i + 1)' = At(i + 1)
      BY <1>4, <2>4, <3>1
    <3> QED BY <1>0, <1>2, <2>4, <3>2 DEF PathInv
  <2>5. stack'[L][2] <= Len(graph'[stack'[L][1]]) + 1
    BY <1>1, <1>2, <1>3, <1>4
  <2>6. parent'[At(1)'] = NoNode
    BY <1>0, <1>1, <1>2, <1>4 DEF PathInv
  <2> QED BY <1>0, <1>2, <1>3, <2>1, <2>2, <2>3, <2>4, <2>5, <2>6 DEF PathInv, At, Pos
<1>7. ExploredInv'
  <2>1. ASSUME NEW i \in 1..L, NEW j \in 1..(stack'[i][2] - 1), graph'[At(i)'][j] \in Nodes
        PROVE  color'[graph'[At(i)'][j]] = "black" \/ (i < L /\ j = stack'[i][2] - 1)
    <3>1. CASE i # L
      <4>0. i \in 1..(L - 1)
        BY <1>1, <2>1, <3>1
      <4>1. i \in 1..(L - 1) /\ stack'[i][2] = Pos(i) /\ At(i)' = At(i)
        BY <1>3, <1>4, <2>1, <4>0 DEF Pos
      <4> QED BY <1>0, <1>2, <2>1, <4>1 DEF ExploredInv
    <3>2. CASE i = L /\ j = p
      BY <1>2, <1>4, <2>1, <3>2
    <3>3. CASE i = L /\ j # p
      <4>1. j \in 1..(p - 1) /\ ~(i < L)
        BY <1>1, <1>4, <2>1, <3>3
      <4> QED BY <1>0, <1>2, <1>4, <2>1, <3>3, <4>1 DEF ExploredInv
    <3> QED BY <3>1, <3>2, <3>3
  <2>2. Black' = Black
    BY <1>2 DEF Black
  <2> QED BY <1>0, <1>2, <1>3, <2>1, <2>2, SameGraph DEF ExploredInv, Edge, Pos
<1> QED BY <1>0, <1>2, <1>5, <1>6, <1>7, SameGraph DEF SearchInv

LEMMA DescendSearch == SearchInv /\ Descend => SearchInv'
<1> SUFFICES ASSUME SearchInv, Descend,
                    NEW L, L = Len(stack), NEW n, n = At(L), NEW p, p = Pos(L),
                    NEW d, d = graph[n][p]
             PROVE  SearchInv'
  OBVIOUS
<1>0. SearchType /\ PathInv /\ ExploredInv /\ stack # <<>> /\ ~done /\ found = <<>>
  BY DEF SearchInv, Descend, AtNeighbour, Searching
<1>1. /\ L \in Nat \ {0} /\ \A i \in 1..L : At(i) \in Nodes /\ Pos(i) \in Nat \ {0}
      /\ Node = n /\ Idx = p /\ n \in Nodes /\ p \in Nat \ {0} /\ Len(graph[n]) \in Nat
      /\ Len(stack) = L
  BY <1>0, TopType
<1>2. /\ UNCHANGED <<graph, todo, found, done>> /\ stack' = Append(Advanced, <<d, 1>>)
      /\ p <= Len(graph[n]) /\ d \in Nodes /\ color[d] = "white"
      /\ color' = [color EXCEPT ![d] = "gray"] /\ parent' = [parent EXCEPT ![d] = n]
  BY <1>1 DEF Descend, AtNeighbour, Next1
<1>3. /\ stack' \in Seq(Nodes \X (Nat \ {0})) /\ Len(stack') = L + 1
      /\ \A i \in 1..(L - 1) : stack'[i] = stack[i]
      /\ stack'[L] = <<n, p + 1>> /\ stack'[L + 1] = <<d, 1>>
  <2>1. /\ Advanced \in Seq(Nodes \X (Nat \ {0})) /\ Len(Advanced) = L
        /\ \A i \in 1..(L - 1) : Advanced[i] = stack[i]
        /\ Advanced[L] = <<n, p + 1>>
    BY <1>0, <1>1, AdvancedElements
  <2>2. <<d, 1>> \in Nodes \X (Nat \ {0})
    BY <1>2
  <2>3. /\ stack' \in Seq(Nodes \X (Nat \ {0})) /\ Len(stack') = L + 1
        /\ \A i \in 1..L : stack'[i] = Advanced[i]
        /\ stack'[L + 1] = <<d, 1>>
    BY <1>2, <2>1, <2>2, AppendElements
  <2>4. L \in 1..L /\ \A i \in 1..(L - 1) : i \in 1..L
    BY <1>1
  <2> QED BY <2>1, <2>3, <2>4
<1>4. /\ \A i \in 1..L : At(i)' = At(i) /\ stack'[i][1] = At(i)
      /\ \A i \in 1..(L - 1) : Pos(i)' = Pos(i) /\ stack'[i][2] = Pos(i)
      /\ stack'[L][2] = p + 1 /\ stack'[L + 1][1] = d /\ stack'[L + 1][2] = 1
  <2>1. ASSUME NEW i \in 1..(L - 1)
        PROVE  At(i)' = At(i) /\ Pos(i)' = Pos(i) /\ stack'[i][1] = At(i) /\ stack'[i][2] = Pos(i)
    BY <1>3, <2>1 DEF At, Pos
  <2>2. stack'[L][1] = n /\ stack'[L][2] = p + 1 /\ stack'[L + 1][1] = d /\ stack'[L + 1][2] = 1
    BY <1>3
  <2>3. At(L)' = At(L) /\ stack'[L][1] = At(L)
    BY <2>2 DEF At
  <2>4. \A i \in 1..L : i \in 1..(L - 1) \/ i = L
    BY <1>1
  <2> QED BY <2>1, <2>2, <2>3, <2>4
<1>5. /\ color'[d] = "gray" /\ \A k \in Nodes \ {d} : color'[k] = color[k]
      /\ parent'[d] = n /\ \A k \in Nodes \ {d} : parent'[k] = parent[k]
  BY <1>0, <1>2 DEF SearchType
<1>6. \A i \in 1..L : At(i) # d
  BY <1>0, <1>2 DEF PathInv
<1>7. SearchType'
  BY <1>0, <1>1, <1>2, <1>3 DEF SearchType
<1>8. PathInv'
  <2>1. ASSUME NEW i \in 1..(L + 1) PROVE color'[stack'[i][1]] = "gray"
    <3>1. CASE i = L + 1
      BY <1>4, <1>5, <3>1
    <3>2. CASE i # L + 1
      <4>0. i \in 1..L
        BY <1>1, <2>1, <3>2
      <4>1. i \in 1..L /\ stack'[i][1] = At(i)
        BY <1>4, <4>0
      <4>2. At(i) \in Nodes \ {d} /\ color[At(i)] = "gray"
        BY <1>0, <1>1, <1>6, <4>1 DEF PathInv
      <4> QED BY <1>5, <4>1, <4>2
    <3> QED BY <3>1, <3>2
  <2>2. ASSUME NEW i \in 1..(L + 1), NEW j \in 1..(L + 1), stack'[i][1] = stack'[j][1]
        PROVE  i = j
    <3>1. ASSUME NEW k \in 1..(L + 1), k # L + 1 PROVE k \in 1..L /\ stack'[k][1] = At(k)
      <4>1. k \in 1..L
        BY <1>1, <3>1
      <4> QED BY <1>4, <4>1
    <3>2. \A k, l \in 1..L : At(k) = At(l) => k = l
      BY <1>0 DEF PathInv
    <3>3. stack'[L + 1][1] = d
      BY <1>4
    <3>4. CASE i = L + 1 \/ j = L + 1
      BY <1>6, <2>2, <3>1, <3>3, <3>4
    <3>5. CASE i # L + 1 /\ j # L + 1
      BY <2>2, <3>1, <3>2, <3>5
    <3> QED BY <3>4, <3>5
  <2>3. ASSUME NEW k \in Nodes, color'[k] = "gray" PROVE \E i \in 1..(L + 1) : stack'[i][1] = k
    <3>1. CASE k = d
      BY <1>1, <1>4, <3>1
    <3>2. CASE k # d
      <4>1. PICK i \in 1..L : At(i) = k
        BY <1>0, <1>5, <2>3, <3>2 DEF PathInv
      <4>2. i \in 1..(L + 1) /\ stack'[i][1] = k
        BY <1>1, <1>4, <4>1
      <4> QED BY <4>2
    <3> QED BY <3>1, <3>2
  <2>4. ASSUME NEW i \in 1..L
        PROVE  /\ stack'[i][2] - 1 \in 1..Len(graph'[stack'[i][1]])
               /\ graph'[stack'[i][1]][stack'[i][2] - 1] = stack'[i + 1][1]
               /\ parent'[stack'[i + 1][1]] = stack'[i][1]
    <3>1. CASE i = L
      BY <1>1, <1>2, <1>3, <1>4, <1>5, <3>1
    <3>2. CASE i # L
      <4>1. i \in 1..(L - 1) /\ i + 1 \in 1..L
        BY <1>1, <2>4, <3>2
      <4>2. stack'[i][1] = At(i) /\ stack'[i][2] = Pos(i) /\ stack'[i + 1][1] = At(i + 1)
        BY <1>4, <2>4, <4>1 DEF At, Pos
      <4>3. At(i + 1) \in Nodes \ {d} /\ parent'[At(i + 1)] = parent[At(i + 1)]
        BY <1>1, <1>5, <1>6, <4>1
      <4>4. /\ Pos(i) - 1 \in 1..Len(graph[At(i)]) /\ graph[At(i)][Pos(i) - 1] = At(i + 1)
            /\ parent[At(i + 1)] = At(i)
        BY <1>0, <4>1 DEF PathInv
      <4> QED BY <1>2, <4>2, <4>3, <4>4
    <3> QED BY <3>1, <3>2
  <2>5. stack'[L + 1][2] <= Len(graph'[stack'[L + 1][1]]) + 1
    <3>1. Len(graph[d]) \in Nat
      BY <1>0, <1>2, TopType
    <3>2. graph' = graph /\ stack'[L + 1][1] = d /\ stack'[L + 1][2] = 1
      BY <1>2, <1>4
    <3>3. 1 <= Len(graph[d]) + 1
      BY <3>1
    <3> QED BY <3>2, <3>3
  <2>6. parent'[stack'[1][1]] = NoNode
    <3>1. 1 \in 1..L /\ stack'[1][1] = At(1) /\ At(1) \in Nodes \ {d}
      BY <1>1, <1>4, <1>6 DEF At
    <3> QED BY <1>0, <1>5, <3>1 DEF PathInv
  <2>7. \A k \in Nodes : color'[k] = "white" => parent'[k] = NoNode
    BY <1>0, <1>5 DEF PathInv
  <2>8. Len(stack') - 1 = L
    BY <1>1, <1>3
  <2> QED BY <1>3, <2>1, <2>2, <2>3, <2>4, <2>5, <2>6, <2>7, <2>8 DEF PathInv, At, Pos
<1>9. ExploredInv'
  <2>1. ASSUME NEW i \in 1..(L + 1), NEW j \in 1..(stack'[i][2] - 1),
               graph'[stack'[i][1]][j] \in Nodes
        PROVE  \/ color'[graph'[stack'[i][1]][j]] = "black"
               \/ i < L + 1 /\ j = stack'[i][2] - 1
    <3>0. \A k \in Nodes : color[k] = "black" => color'[k] = "black"
      BY <1>2, <1>5
    <3>1. CASE i = L + 1
      BY <1>4, <2>1, <3>1
    <3>2. CASE i = L
      <4>1. CASE j = p
        BY <1>1, <1>4, <3>2, <4>1
      <4>2. CASE j # p
        <5>1. j \in 1..(p - 1) /\ ~(i < L) /\ stack'[i][1] = n /\ L \in 1..L /\ graph' = graph
          BY <1>1, <1>2, <1>3, <1>4, <2>1, <3>2, <4>2
        <5>2. graph[n][j] \in Nodes
          BY <2>1, <5>1
        <5>3. color[graph[n][j]] = "black"
          BY <1>0, <3>2, <5>1, <5>2 DEF ExploredInv
        <5> QED BY <3>0, <5>1, <5>2, <5>3
      <4> QED BY <4>1, <4>2
    <3>3. CASE i # L /\ i # L + 1
      <4>1. i \in 1..(L - 1) /\ i \in 1..L /\ i < L + 1
        BY <1>1, <2>1, <3>3
      <4>2. stack'[i][1] = At(i) /\ stack'[i][2] = Pos(i)
        BY <1>4, <4>1 DEF At, Pos
      <4>3. j \in 1..(Pos(i) - 1) /\ graph[At(i)][j] \in Nodes /\ graph' = graph
        BY <1>2, <2>1, <4>2
      <4>4. color[graph[At(i)][j]] = "black" \/ j = Pos(i) - 1
        BY <1>0, <4>1, <4>3 DEF ExploredInv
      <4> QED BY <3>0, <4>1, <4>2, <4>3, <4>4
    <3> QED BY <3>1, <3>2, <3>3
  <2>2. Black' = Black
    BY <1>2, <1>5 DEF Black
  <2>3. \A k, c \in Nodes : color'[k] = "black" /\ Edge(k, c)' => color'[c] = "black"
    BY <1>0, <1>2, <1>5 DEF ExploredInv, Edge
  <2>4. \A t \in 1..(todo' - 1) : color'[Order[t]] # "white"
    <3>1. \A t \in 1..(todo - 1) : Order[t] \in Nodes
      BY <1>0, OrderElements DEF SearchType
    <3> QED BY <1>0, <1>2, <1>5, <3>1 DEF ExploredInv
  <2>5. ~HasCycle(Black)'
    BY <1>0, <1>2, <2>2, SameGraph DEF ExploredInv
  <2>6. \A i \in 1..Len(stack') : \A j \in 1..(stack'[i][2] - 1) :
          graph'[stack'[i][1]][j] \in Nodes =>
            \/ color'[graph'[stack'[i][1]][j]] = "black"
            \/ i < Len(stack') /\ j = stack'[i][2] - 1
    BY <1>3, <2>1
  <2> QED BY <2>3, <2>4, <2>5, <2>6 DEF ExploredInv, At, Pos
<1> QED BY <1>0, <1>2, <1>7, <1>8, <1>9, SameGraph DEF SearchInv

LEMMA ReturnNoneSearch == SearchInv /\ ReturnNone => SearchInv'
<1> SUFFICES ASSUME SearchInv, ReturnNone PROVE SearchInv'
  OBVIOUS
<1>0. SearchType /\ PathInv /\ ExploredInv /\ found = <<>>
  BY DEF SearchInv, ReturnNone
<1>1. /\ UNCHANGED <<graph, color, parent, stack, todo, found>> /\ done' = TRUE
      /\ stack = <<>> /\ todo > Len(Order)
  BY DEF ReturnNone
<1>2. SearchType'
  BY <1>0, <1>1 DEF SearchType
<1>3. Black = Nodes
  <2>1. ASSUME NEW n \in Nodes PROVE color[n] = "black"
    <3>1. PICK t \in 1..Len(Order) : Order[t] = n
      BY OrderElements
    <3>2. t \in 1..(todo - 1)
      BY <1>0, <1>1, OrderElements DEF SearchType
    <3>3. color[n] # "white"
      BY <1>0, <3>1, <3>2 DEF ExploredInv
    <3>4. color[n] # "gray"
      BY <1>0, <1>1 DEF PathInv
    <3> QED BY <1>0, <3>3, <3>4 DEF SearchType
  <2> QED BY <2>1 DEF Black
<1>4. ~HasCycle(Nodes)
  BY <1>0, <1>3 DEF ExploredInv
<1> QED BY <1>0, <1>1, <1>2, <1>4, SameGraph DEF SearchInv
-----------------------------------------------------------------------------
(* The cycle that is reported.                                             *)

(* The stack holds distinct ids: it is no longer than the dict.            *)
LEMMA StackBound ==
  ASSUME SearchType, PathInv, stack # <<>>
  PROVE  Len(stack) <= Len(Order)
<1> DEFINE f == [i \in 1..Len(stack) |-> At(i)]
<1>1. Len(stack) \in Nat /\ \A i \in 1..Len(stack) : At(i) \in Nodes
  BY TopType
<1>2. f \in [1..Len(stack) -> Nodes]
  BY <1>1
<1>3. IsInjective(f)
  BY DEF PathInv, IsInjective
<1>4. f \in Injection(1..Len(stack), Nodes)
  BY <1>2, <1>3 DEF Injection
<1>5. Cardinality(1..Len(stack)) <= Cardinality(Nodes)
  BY <1>4, OrderElements, FS_Injection
<1>6. Cardinality(1..Len(stack)) = Len(stack)
  BY <1>1, FS_Interval
<1> QED BY <1>5, <1>6, OrderElements

Step(up, n, k) ==
  IF k = 0 THEN n ELSE IF up[k - 1] \in Nodes THEN parent[up[k - 1]] ELSE NoNode

LEMMA AncestorUnfolds ==
  ASSUME NEW n, NEW w, w = [k \in Nat |-> Step(w, n, k)]
  PROVE  \A k \in Nat : Ancestor(n)[k] = Step(Ancestor(n), n, k)
<1>1. Ancestor(n) = CHOOSE up : up = [k \in Nat |-> Step(up, n, k)]
  BY DEF Ancestor, Step
<1>2. Ancestor(n) = [k \in Nat |-> Step(Ancestor(n), n, k)]
  BY <1>1
<1> QED BY <1>2

(* The walk up the parents goes down the stack.                            *)
LEMMA AncestorWalk ==
  ASSUME SearchType, PathInv, stack # <<>>, NEW L, L = Len(stack)
  PROVE  \A k \in Nat : Ancestor(At(L))[k] = IF k < L THEN At(L - k) ELSE NoNode
<1> DEFINE w == [k \in Nat |-> IF k < L THEN At(L - k) ELSE NoNode]
           up == Ancestor(At(L))
<1>1. L \in Nat \ {0} /\ (\A i \in 1..L : At(i) \in Nodes) /\ NoNode \notin Nodes
  BY TopType, CycleCheckAssumption
<1>2. ASSUME NEW k \in Nat PROVE w[k] = Step(w, At(L), k)
  <2>1. CASE k = 0
    BY <1>1, <2>1 DEF Step
  <2>2. CASE k # 0 /\ k < L
    <3>1. w[k - 1] = At(L - k + 1) /\ L - k + 1 \in 1..L /\ L - k \in 1..(L - 1)
      BY <1>1, <2>2
    <3>2. parent[At(L - k + 1)] = At(L - k)
      BY <3>1 DEF PathInv
    <3> QED BY <1>1, <2>2, <3>1, <3>2 DEF Step
  <2>3. CASE k = L
    <3>1. w[k - 1] = At(1) /\ 1 \in 1..L
      BY <1>1, <2>3
    <3>2. parent[At(1)] = NoNode
      BY DEF PathInv
    <3> QED BY <1>1, <2>3, <3>1, <3>2 DEF Step
  <2>4. CASE k > L
    BY <1>1, <2>4 DEF Step
  <2> QED BY <1>1, <2>1, <2>2, <2>3, <2>4
<1>3. w = [k \in Nat |-> Step(w, At(L), k)]
  BY <1>2
<1>4. \A k \in Nat : up[k] = Step(up, At(L), k)
  BY <1>3, AncestorUnfolds
<1>5. {k \in Nat : up[k] # w[k]} = {}
  <2>1. SUFFICES ASSUME {k \in Nat : up[k] # w[k]} # {} PROVE FALSE
    OBVIOUS
  <2>2. PICK k \in {i \in Nat : up[i] # w[i]} : \A i \in {j \in Nat : up[j] # w[j]} : k <= i
    BY <2>1, NatMin
  <2>3. CASE k = 0
    BY <1>2, <1>4, <2>2, <2>3 DEF Step
  <2>4. CASE k # 0
    <3>1. k - 1 \in Nat /\ up[k - 1] = w[k - 1]
      BY <2>2, <2>4
    <3> QED BY <1>2, <1>4, <2>2, <2>4, <3>1 DEF Step
  <2> QED BY <2>3, <2>4
<1> QED BY <1>5

LEMMA ReverseElements ==
  ASSUME NEW T, NEW s \in Seq(T)
  PROVE  /\ Reverse(s) \in Seq(T) /\ Len(Reverse(s)) = Len(s)
         /\ \A i \in 1..Len(s) : Reverse(s)[i] = s[Len(s) - i + 1]
<1>1. Len(s) \in Nat /\ \A i \in 1..Len(s) : s[Len(s) - i + 1] \in T
  OBVIOUS
<1>2. Reverse(s) = [i \in 1..Len(s) |-> s[Len(s) - i + 1]]
  BY DEF Reverse
<1> QED BY <1>1, <1>2

(* <<x>>, then c of length k, then <<x>>.                                  *)
LEMMA EnclosedElements ==
  ASSUME NEW T, NEW x \in T, NEW c \in Seq(T), NEW k, k = Len(c)
  PROVE  LET s == <<x>> \o c \o <<x>>
         IN  /\ s \in Seq(T) /\ Len(s) = k + 2 /\ k \in Nat
             /\ s[1] = x /\ s[k + 2] = x
             /\ \A i \in 1..k : s[i + 1] = c[i]
<1> DEFINE a == <<x>> \o c
<1>1. <<x>> \in Seq(T) /\ Len(<<x>>) = 1 /\ <<x>>[1] = x /\ k \in Nat
  OBVIOUS
<1>2. /\ a \in Seq(T) /\ Len(a) = 1 + k
      /\ \A i \in 1..(1 + k) : a[i] = IF i <= 1 THEN <<x>>[i] ELSE c[i - 1]
  BY <1>1, ConcatProperties
<1>3. a[1] = x /\ \A i \in 1..k : a[i + 1] = c[i]
  BY <1>1, <1>2
<1> HIDE DEF a
<1>4. /\ a \o <<x>> \in Seq(T) /\ Len(a \o <<x>>) = 1 + k + 1
      /\ \A i \in 1..(1 + k + 1) : (a \o <<x>>)[i] = IF i <= 1 + k THEN a[i] ELSE <<x>>[i - (1 + k)]
  BY <1>1, <1>2, ConcatProperties
<1>5. (a \o <<x>>)[1] = a[1] /\ \A i \in 1..k : (a \o <<x>>)[i + 1] = a[i + 1]
  BY <1>1, <1>4
<1>6. (a \o <<x>>)[k + 2] = x
  BY <1>1, <1>4
<1>7. Len(a \o <<x>>) = k + 2
  BY <1>1, <1>4
<1> QED BY <1>1, <1>3, <1>4, <1>5, <1>6, <1>7 DEF a

(* c is the stack from its m-th id up, closed on that id.                  *)
ClosedPath(c, m) ==
  /\ c \in Seq(Nodes) /\ Len(c) = Len(stack) - m + 2
  /\ \A i \in 1..(Len(stack) - m + 1) : c[i] = At(m + i - 1)
  /\ c[Len(stack) - m + 2] = At(m)

(* Such a path is what the walk up the parents finds.                      *)
LEMMA CyclePathIsStack ==
  ASSUME SearchType, PathInv, stack # <<>>, NEW m \in 1..Len(stack)
  PROVE  ClosedPath(CyclePath(At(Len(stack)), At(m)), m)
<1> SUFFICES ASSUME NEW L, L = Len(stack), NEW x, x = At(m)
             PROVE  ClosedPath(CyclePath(At(L), x), m)
  OBVIOUS
<1> DEFINE up == Ancestor(At(L))
           Stops(k) == up[k] \in {x, NoNode} /\ \A j \in 0..(k - 1) : up[j] \notin {x, NoNode}
           top == CHOOSE k \in 0..Len(Order) : Stops(k)
           q == [k \in 1..(L - m) |-> up[k - 1]]
           s == <<x>> \o q \o <<x>>
<1>1. L \in Nat \ {0} /\ (\A i \in 1..L : At(i) \in Nodes) /\ NoNode \notin Nodes /\ x \in Nodes
  BY TopType, CycleCheckAssumption
<1>2. L <= Len(Order) /\ Len(Order) \in Nat
  BY StackBound, OrderElements
<1>3. \A k \in 0..(L - 1) : up[k] = At(L - k)
  BY <1>1, AncestorWalk
<1>4. ASSUME NEW j \in 0..(L - m - 1) PROVE up[j] \notin {x, NoNode}
  <2>1. L - j \in 1..L /\ L - j # m /\ up[j] = At(L - j)
    BY <1>1, <1>3
  <2>2. At(L - j) # x /\ At(L - j) # NoNode
    BY <1>1, <2>1 DEF PathInv
  <2> QED BY <2>1, <2>2
<1>5. L - m \in 0..Len(Order) /\ up[L - m] = x
  <2>1. L - m \in 0..(L - 1) /\ L - (L - m) = m
    BY <1>1
  <2> QED BY <1>1, <1>2, <1>3, <2>1
<1>6. Stops(L - m)
  BY <1>4, <1>5
<1>7. \A k \in 0..Len(Order) : Stops(k) => k = L - m
  <2> SUFFICES ASSUME NEW k \in 0..Len(Order), Stops(k), k # L - m PROVE FALSE
    OBVIOUS
  <2>1. CASE k < L - m
    BY <1>1, <1>4, <2>1
  <2>2. CASE k > L - m
    BY <1>1, <1>5, <2>2
  <2> QED BY <1>1, <2>1, <2>2
<1>8. top = L - m
  BY <1>5, <1>6, <1>7
<1>9. CyclePath(At(L), x) = Reverse(s)
  <2>1. CyclePath(At(L), x) = Reverse(<<x>> \o [k \in 1..top |-> up[k - 1]] \o <<x>>)
    BY DEF CyclePath
  <2> QED BY <1>8, <2>1
<1>10. /\ q \in Seq(Nodes) /\ Len(q) = L - m
       /\ \A k \in 1..(L - m) : q[k] = At(L - k + 1)
  <2>1. L - m \in Nat
    BY <1>1
  <2>2. ASSUME NEW k \in 1..(L - m) PROVE up[k - 1] = At(L - k + 1) /\ At(L - k + 1) \in Nodes
    <3>1. k - 1 \in 0..(L - 1) /\ L - (k - 1) = L - k + 1 /\ L - k + 1 \in 1..L
      BY <1>1, <2>2
    <3> QED BY <1>1, <1>3, <3>1
  <2> QED BY <2>1, <2>2
<1> HIDE DEF q
<1>11. /\ s \in Seq(Nodes) /\ Len(s) = L - m + 2
       /\ s[1] = x /\ s[L - m + 2] = x
       /\ \A i \in 1..(L - m) : s[i + 1] = q[i]
  BY <1>1, <1>10, EnclosedElements
<1> HIDE DEF s
<1>12. /\ Reverse(s) \in Seq(Nodes) /\ Len(Reverse(s)) = L - m + 2
       /\ \A i \in 1..(L - m + 2) : Reverse(s)[i] = s[L - m + 2 - i + 1]
  <2>1. /\ Reverse(s) \in Seq(Nodes) /\ Len(Reverse(s)) = Len(s)
        /\ \A i \in 1..Len(s) : Reverse(s)[i] = s[Len(s) - i + 1]
    BY <1>11, ReverseElements, Zenon
  <2> DEFINE r == Reverse(s)
  <2>2. r \in Seq(Nodes) /\ Len(r) = Len(s) /\ \A i \in 1..Len(s) : r[i] = s[Len(s) - i + 1]
    BY <2>1
  <2> HIDE DEF r
  <2>3. r \in Seq(Nodes) /\ Len(r) = L - m + 2
    BY <1>11, <2>2
  <2>4. ASSUME NEW i \in 1..(L - m + 2) PROVE r[i] = s[L - m + 2 - i + 1]
    <3>1. i \in 1..Len(s) /\ Len(s) - i + 1 = L - m + 2 - i + 1
      BY <1>11
    <3>2. r[i] = s[Len(s) - i + 1]
      BY <2>2, <3>1, Zenon
    <3> QED BY <3>1, <3>2, Zenon
  <2> QED BY <2>3, <2>4, Zenon DEF r
<1>13. ASSUME NEW i \in 1..(L - m + 1) PROVE Reverse(s)[i] = At(m + i - 1)
  <2>1. CASE i = 1
    <3>1. L - m + 2 - i + 1 = L - m + 2 /\ m + i - 1 = m /\ i \in 1..(L - m + 2)
      BY <1>1, <2>1
    <3> QED BY <1>11, <1>12, <3>1
  <2>2. CASE i # 1
    <3>1. /\ L - m + 2 - i \in 1..(L - m) /\ i \in 1..(L - m + 2)
          /\ L - (L - m + 2 - i) + 1 = m + i - 1
      BY <1>1, <1>13, <2>2
    <3>2. s[L - m + 2 - i + 1] = q[L - m + 2 - i]
      BY <1>11, <3>1
    <3> QED BY <1>10, <1>12, <3>1, <3>2
  <2> QED BY <2>1, <2>2
<1>14. Reverse(s)[L - m + 2] = x
  <2>1. L - m + 2 \in 1..(L - m + 2) /\ L - m + 2 - (L - m + 2) + 1 = 1
    BY <1>1
  <2> QED BY <1>11, <1>12, <2>1
<1> QED BY <1>9, <1>12, <1>13, <1>14, Zenon DEF ClosedPath

(* The stack from m up, closed by an edge from the top back to At(m), is a *)
(* simple cycle, and one that the graph before the insertion did not have. *)
LEMMA StackCycleIsReal ==
  ASSUME SearchType, PathInv, ~HasCycle(Existing), stack # <<>>,
         NEW m \in 1..Len(stack), Edge(At(Len(stack)), At(m)), NEW c, ClosedPath(c, m)
  PROVE  /\ Len(c) >= 2 /\ Head(c) = Last(c)
         /\ \A i \in 1..(Len(c) - 1) : Edge(c[i], c[i + 1])
         /\ IsInjective(Front(c)) /\ NewId \in ToSet(c) /\ HasCycle(Nodes)
<1> SUFFICES ASSUME NEW L, L = Len(stack), NEW x, x = At(m), NEW k, k = L - m + 1
             PROVE  /\ Len(c) >= 2 /\ Head(c) = Last(c)
                    /\ \A i \in 1..(Len(c) - 1) : Edge(c[i], c[i + 1])
                    /\ IsInjective(Front(c)) /\ NewId \in ToSet(c) /\ HasCycle(Nodes)
  OBVIOUS
<1>0. L \in Nat \ {0} /\ \A i \in 1..L : At(i) \in Nodes
  BY TopType
<1>1. /\ k \in Nat \ {0} /\ m + k - 1 = L /\ L - m + 2 = k + 1
      /\ \A i \in 1..k : m + i - 1 \in 1..L /\ (i # k => i + 1 \in 1..k /\ m + i - 1 \in 1..(L - 1))
  BY <1>0
<1>11. c \in Seq(Nodes) /\ Len(c) = k + 1
  BY <1>1 DEF ClosedPath
<1>12. ASSUME NEW i \in 1..k PROVE c[i] = At(m + i - 1)
  BY <1>1 DEF ClosedPath
<1>13. c[k + 1] = x
  BY <1>1, Zenon DEF ClosedPath
<1>2. ASSUME NEW i \in 1..(L - 1) PROVE Edge(At(i), At(i + 1))
  <2>1. /\ Pos(i) - 1 \in 1..Len(graph[At(i)]) /\ graph[At(i)][Pos(i) - 1] = At(i + 1)
        /\ At(i) \in Nodes
    BY <1>0, <1>2 DEF PathInv
  <2> QED BY <2>1, EdgeByIndex
<1>3. ASSUME NEW i \in 1..k PROVE Edge(c[i], c[i + 1])
  <2>1. CASE i = k
    <3>1. c[i] = At(L) /\ c[i + 1] = x
      BY <1>1, <1>12, <1>13, <2>1
    <3> QED BY <3>1
  <2>2. CASE i # k
    <3>1. m + i - 1 \in 1..(L - 1) /\ i + 1 \in 1..k
      BY <1>1, <2>2, Zenon
    <3>3. m + (i + 1) - 1 = (m + i - 1) + 1
      <4>1. \A a, b \in Int : a + (b + 1) - 1 = (a + b - 1) + 1
        OBVIOUS
      <4> QED BY <4>1
    <3>2. c[i] = At(m + i - 1) /\ c[i + 1] = At(m + i - 1 + 1)
      BY <1>12, <3>1, <3>3, Zenon
    <3> QED BY <1>2, <3>1, <3>2, Zenon
  <2> QED BY <2>1, <2>2
<1>4. Len(c) >= 2 /\ Len(c) - 1 = k /\ c # <<>>
  BY <1>1, <1>11
<1>5. Head(c) = Last(c)
  <2>1. Head(c) = c[1]
    BY <1>4, <1>11
  <2>2. 1 \in 1..k /\ m + 1 - 1 = m
    BY <1>1
  <2>3. c[1] = x
    BY <1>12, <2>2
  <2> QED BY <1>11, <1>13, <2>1, <2>3 DEF Last
<1>6. IsInjective(Front(c))
  <2>1. Front(c) \in Seq(Nodes) /\ Len(Front(c)) = k /\ \A i \in 1..k : Front(c)[i] = c[i]
    BY <1>4, <1>11, FrontElements
  <2>2. DOMAIN Front(c) = 1..k
    BY <2>1
  <2>3. ASSUME NEW i \in 1..k, NEW j \in 1..k, Front(c)[i] = Front(c)[j] PROVE i = j
    <3>1. At(m + i - 1) = At(m + j - 1)
      BY <1>12, <2>1, <2>3
    <3>2. m + i - 1 = m + j - 1
      BY <1>0, <1>1, <3>1 DEF PathInv
    <3> QED BY <1>1, <3>2
  <2> QED BY <2>2, <2>3 DEF IsInjective
<1> DEFINE S == {c[i] : i \in 1..k}
<1>7. S # {} /\ S \subseteq Nodes /\ \A n \in S : \E d \in S : Edge(n, d)
  <2>1. S # {} /\ S \subseteq Nodes
    BY <1>1, <1>11
  <2>2. ASSUME NEW i \in 1..k PROVE \E d \in S : Edge(c[i], d)
    <3>1. CASE i = k
      <4>1. c[i + 1] = c[1] /\ 1 \in 1..k
        <5>1. 1 \in 1..k /\ m + 1 - 1 = m
          BY <1>1
        <5>2. c[1] = x
          BY <1>12, <5>1
        <5> QED BY <1>13, <3>1, <5>1, <5>2
      <4>2. c[i + 1] \in S
        BY <4>1
      <4> QED BY <1>3, <4>2
    <3>2. CASE i # k
      <4>1. c[i + 1] \in S
        BY <1>1, <3>2
      <4> QED BY <1>3, <4>1
    <3> QED BY <3>1, <3>2
  <2>3. ASSUME NEW n \in S PROVE \E d \in S : Edge(n, d)
    <3>1. PICK i \in 1..k : n = c[i]
      BY <2>3
    <3> QED BY <2>2, <3>1
  <2> QED BY <2>1, <2>3
<1>8. NewId \in S
  <2>1. SUFFICES ASSUME NewId \notin S PROVE FALSE
    OBVIOUS
  <2>2. S \subseteq Existing
    BY <1>7, <2>1 DEF Nodes
  <2> QED BY <1>7, <2>2 DEF HasCycle
<1>9. NewId \in ToSet(c)
  <2>1. PICK i \in 1..k : c[i] = NewId
    BY <1>8
  <2>2. i \in DOMAIN c
    BY <1>1, <1>11
  <2> QED BY <2>1, <2>2 DEF ToSet
<1>10. HasCycle(Nodes)
  BY <1>7 DEF HasCycle
<1> QED BY <1>3, <1>4, <1>5, <1>6, <1>9, <1>10, Zenon

LEMMA ReportCycleSearch == SearchInv /\ ReportCycle => SearchInv'
<1> SUFFICES ASSUME SearchInv, ReportCycle, NEW L, L = Len(stack), NEW n, n = At(L),
                    NEW p, p = Pos(L), NEW x, x = graph[n][p], NEW c, c = found'
             PROVE  SearchInv'
  OBVIOUS
<1>0. /\ SearchType /\ PathInv /\ ~HasCycle(Existing) /\ stack # <<>>
  BY DEF SearchInv, ReportCycle, AtNeighbour, Searching
<1>1. /\ L \in Nat \ {0} /\ Node = n /\ Idx = p /\ n \in Nodes /\ p \in Nat \ {0}
      /\ Len(graph[n]) \in Nat /\ Next1 = x
  BY <1>0, TopType DEF Next1
<1>2. /\ UNCHANGED <<graph, color, parent, todo>> /\ stack' = Advanced /\ done' = TRUE
      /\ p <= Len(graph[n]) /\ x \in Nodes /\ color[x] = "gray" /\ c = CyclePath(n, x)
  BY <1>1 DEF ReportCycle, AtNeighbour
<1>3. PICK m \in 1..L : At(m) = x
  BY <1>0, <1>2 DEF PathInv
<1>4. Edge(n, x)
  <2>1. p \in 1..Len(graph[n])
    BY <1>1, <1>2
  <2> QED BY <1>0, <1>1, <2>1, EdgeByIndex
<1>5. ClosedPath(c, m)
  BY <1>0, <1>2, <1>3, CyclePathIsStack, Zenon
<1>9. /\ Len(c) >= 2 /\ Head(c) = Last(c)
      /\ \A i \in 1..(Len(c) - 1) : Edge(c[i], c[i + 1])
      /\ IsInjective(Front(c)) /\ NewId \in ToSet(c) /\ HasCycle(Nodes)
  BY <1>0, <1>3, <1>4, <1>5, StackCycleIsReal, Zenon
<1>10. c # <<>>
  BY <1>9
<1>11. RealCycle'
  BY <1>2, <1>9, Zenon DEF RealCycle, Edge
<1>12. stack' \in Seq(Nodes \X (Nat \ {0}))
  BY <1>0, <1>1, <1>2, AdvancedElements
<1>13. SearchType'
  BY <1>0, <1>2, <1>12 DEF SearchType
<1>14. HasCycle(Nodes)' /\ ~HasCycle(Existing)'
  BY <1>0, <1>2, <1>9, SameGraph
<1> QED BY <1>2, <1>10, <1>11, <1>13, <1>14 DEF SearchInv

-----------------------------------------------------------------------------
(* At every state of submit() and the sort that follows it, the search is  *)
(* where its colours say: find_cycle's path is the stack, what is black    *)
(* leads only to black and holds no cycle (_dag.py).                       *)
THEOREM SearchInvariance == ChecksSpec => []SearchInv
<1>1. ChecksInit => SearchInv
  BY InitSearch DEF ChecksInit
<1>2. SearchInv /\ [ChecksNext]_allVars => SearchInv'
  <2> SUFFICES ASSUME SearchInv, [ChecksNext]_allVars PROVE SearchInv'
    OBVIOUS
  <2>1. CASE Search
    <3>1. CASE SkipStart
      BY <3>1, SkipStartSearch
    <3>2. CASE OpenStart
      BY <3>2, OpenStartSearch
    <3>3. CASE Close
      BY <3>3, CloseSearch
    <3>4. CASE PassOver
      BY <3>4, PassOverSearch
    <3>5. CASE Descend
      BY <3>5, DescendSearch
    <3>6. CASE ReportCycle
      BY <3>6, ReportCycleSearch
    <3>7. CASE ReturnNone
      BY <3>7, ReturnNoneSearch
    <3> QED BY <2>1, <3>1, <3>2, <3>3, <3>4, <3>5, <3>6, <3>7 DEF Search, Next
  <2>2. CASE UNCHANGED vars
    <3>1. /\ graph' = graph /\ color' = color /\ parent' = parent /\ stack' = stack
          /\ todo' = todo /\ found' = found /\ done' = done
      BY <2>2 DEF vars
    <3>2. SearchType' <=> SearchType
      BY <3>1 DEF SearchType
    <3>3. PathInv' <=> PathInv
      BY <3>1 DEF PathInv, At, Pos
    <3>4. \A N : HasCycle(N)' <=> HasCycle(N)
      BY <3>1, SameGraph
    <3>5. ExploredInv' <=> ExploredInv
      <4>1. Black' = Black
        BY <3>1 DEF Black
      <4> QED BY <3>1, <3>4, <4>1 DEF ExploredInv, At, Pos, Edge
    <3>6. RealCycle' <=> RealCycle
      BY <3>1, Zenon DEF RealCycle, Edge
    <3> QED BY <3>1, <3>2, <3>3, <3>4, <3>5, <3>6 DEF SearchInv
  <2> QED BY <2>1, <2>2 DEF ChecksNext, BeginSort, SortStep, allVars
<1> QED BY <1>1, <1>2, PTL DEF ChecksSpec

(* submit() raises CycleError exactly when the new handle closes a cycle:  *)
(* find_cycle neither misses one nor reports one that is not there.        *)
THEOREM FindCycleVerdict == ChecksSpec => []VerdictCorrect
<1>1. SearchInv => VerdictCorrect
  BY DEF SearchInv, VerdictCorrect
<1> QED BY <1>1, SearchInvariance, PTL

(* The path in CycleError is a simple cycle of dependencies, closed on its *)
(* first id, with the id being submitted on it.                            *)
THEOREM ReportedCycleAlwaysReal == ChecksSpec => []ReportedCycleIsReal
<1>1. SearchInv => ReportedCycleIsReal
  BY DEF SearchInv, ReportedCycleIsReal, RealCycle
<1> QED BY <1>1, SearchInvariance, PTL

-----------------------------------------------------------------------------
(* How often an element stands in a list.                                  *)
Places(s, x)       == {i \in 1..Len(s) : s[i] = x}
SameCount(s, t, x) == Cardinality(Places(s, x)) = Cardinality(Places(t, x))

LEMMA PlacesFinite ==
  ASSUME NEW T, NEW s \in Seq(T), NEW x
  PROVE  IsFiniteSet(Places(s, x)) /\ Cardinality(Places(s, x)) \in Nat
<1>1. Len(s) \in Nat
  OBVIOUS
<1>2. IsFiniteSet(1..Len(s))
  BY <1>1, FS_Interval
<1>3. Places(s, x) \in SUBSET (1..Len(s))
  BY DEF Places
<1>4. IsFiniteSet(Places(s, x))
  BY <1>2, <1>3, FS_Subset
<1> QED BY <1>4, FS_CardinalityType

LEMMA ConcatPlaces ==
  ASSUME NEW T, NEW s \in Seq(T), NEW t \in Seq(T), NEW x
  PROVE  Cardinality(Places(s \o t, x)) = Cardinality(Places(s, x)) + Cardinality(Places(t, x))
<1> DEFINE n == Len(s)
           m == Len(t)
           A == Places(s, x)
           B == Places(t, x)
           C == {j \in (n + 1)..(n + m) : (s \o t)[j] = x}
<1>1. /\ n \in Nat /\ m \in Nat /\ Len(s \o t) = n + m
      /\ \A i \in 1..n : (s \o t)[i] = s[i]
      /\ \A i \in 1..m : (s \o t)[i + n] = t[i]
  <2>1. n \in Nat /\ m \in Nat
    OBVIOUS
  <2>2. /\ Len(s \o t) = n + m
        /\ \A i \in 1..(n + m) : (s \o t)[i] = IF i <= n THEN s[i] ELSE t[i - n]
    BY ConcatProperties
  <2>3. \A i \in 1..n : i \in 1..(n + m) /\ i <= n
    BY <2>1
  <2>4. \A i \in 1..m : i + n \in 1..(n + m) /\ ~(i + n <= n) /\ (i + n) - n = i
    BY <2>1
  <2> QED BY <2>1, <2>2, <2>3, <2>4
<1>2. Places(s \o t, x) = A \cup C
  <2>1. 1..(n + m) = 1..n \cup (n + 1)..(n + m)
    BY <1>1
  <2> QED BY <1>1, <2>1 DEF Places
<1>3. A \cap C = {}
  BY <1>1 DEF Places
<1> DEFINE shift == [i \in B |-> i + n]
<1>4. shift \in Bijection(B, C)
  <2>1. \A i \in B : i \in 1..m /\ t[i] = x
    BY DEF Places
  <2>2. \A i \in B : i + n \in C
    BY <1>1, <2>1
  <2>3. shift \in [B -> C]
    BY <2>2
  <2>4. \A i, j \in B : shift[i] = shift[j] => i = j
    BY <1>1, <2>1
  <2>5. ASSUME NEW j \in C PROVE \E i \in B : shift[i] = j
    <3>1. j - n \in 1..m /\ (j - n) + n = j
      BY <1>1
    <3>2. j - n \in B
      BY <1>1, <3>1 DEF Places
    <3> QED BY <3>1, <3>2
  <2> HIDE DEF shift
  <2>6. DOMAIN shift = B
    BY <2>3
  <2>7. IsInjective(shift)
    BY <2>4, <2>6 DEF IsInjective
  <2> QED BY <2>3, <2>5, <2>7 DEF Bijection, Injection, Surjection
<1>5. IsFiniteSet(A) /\ IsFiniteSet(B) /\ Cardinality(A) \in Nat /\ Cardinality(B) \in Nat
  BY PlacesFinite
<1>6. ExistsBijection(B, C)
  BY <1>4 DEF ExistsBijection
<1>7. IsFiniteSet(C) /\ Cardinality(C) = Cardinality(B)
  BY <1>5, <1>6, FS_Bijection
<1>8. Cardinality(A \cup C) = Cardinality(A) + Cardinality(C) - Cardinality(A \cap C)
  BY <1>5, <1>7, FS_Union
<1>9. Cardinality(A \cap C) = 0
  BY <1>3, FS_EmptySet
<1> HIDE DEF A, B, C
<1>10. Cardinality(A \cup C) = Cardinality(A) + Cardinality(B)
  BY <1>5, <1>7, <1>8, <1>9
<1> QED BY <1>2, <1>10 DEF A, B

LEMMA RepeatedPlaces ==
  ASSUME NEW T, NEW y \in T, NEW k \in Nat, NEW x
  PROVE  LET s == [j \in 1..k |-> y]
         IN  s \in Seq(T) /\ Cardinality(Places(s, x)) = IF x = y THEN k ELSE 0
<1> DEFINE s == [j \in 1..k |-> y]
<1>1. s \in Seq(T) /\ Len(s) = k /\ \A j \in 1..k : s[j] = y
  OBVIOUS
<1> HIDE DEF s
<1>2. CASE x = y
  <2>1. Places(s, x) = 1..k
    BY <1>1, <1>2 DEF Places
  <2>2. Cardinality(1..k) = k
    BY FS_Interval
  <2> QED BY <1>1, <1>2, <2>1, <2>2 DEF s
<1>3. CASE x # y
  <2>1. Places(s, x) = {}
    BY <1>1, <1>3 DEF Places
  <2> QED BY <1>1, <1>3, <2>1, FS_EmptySet DEF s
<1> QED BY <1>2, <1>3

-----------------------------------------------------------------------------
(* FlattenSeq, by its recursion.                                           *)
FlatStep(flat, ss, i) == IF i = 1 THEN ss[i] ELSE flat[i - 1] \o ss[i]

LEMMA FlatExists ==
  ASSUME NEW ss, NEW n \in Nat
  PROVE  \E flat : flat = [i \in 1..n |-> FlatStep(flat, ss, i)]
<1> DEFINE Solves(m, flat) == flat = [i \in 1..m |-> FlatStep(flat, ss, i)]
           Bad == {m \in Nat : ~\E flat : Solves(m, flat)}
<1>1. SUFFICES ASSUME Bad # {} PROVE FALSE
  OBVIOUS
<1>2. PICK m \in Bad : \A k \in Bad : m <= k
  <2>1. Bad \in SUBSET Nat
    OBVIOUS
  <2> HIDE DEF Bad
  <2> QED BY <1>1, <2>1, NatMin
<1>3. m # 0
  <2>1. SUFFICES ASSUME m = 0 PROVE FALSE
    OBVIOUS
  <2> DEFINE none == [i \in 1..0 |-> <<>>]
  <2>2. none = [i \in 1..0 |-> FlatStep(none, ss, i)]
    OBVIOUS
  <2>3. Solves(m, none)
    BY <2>1, <2>2
  <2> QED BY <2>3
<1>4. m \in Nat /\ m - 1 \in Nat /\ m - 1 \notin Bad
  BY <1>2, <1>3
<1>5. PICK flat : Solves(m - 1, flat)
  BY <1>4
<1> DEFINE more == [i \in 1..m |-> IF i = m THEN FlatStep(flat, ss, m) ELSE flat[i]]
<1>6. ASSUME NEW i \in 1..m PROVE more[i] = FlatStep(more, ss, i)
  <2>1. i # 1 => i - 1 \in 1..(m - 1) /\ i - 1 \in 1..m /\ i - 1 # m
    BY <1>4
  <2>2. i # 1 => more[i - 1] = flat[i - 1]
    BY <2>1
  <2>3. FlatStep(more, ss, i) = FlatStep(flat, ss, i)
    BY <2>2 DEF FlatStep
  <2>4. CASE i = m
    BY <2>3, <2>4
  <2>5. CASE i # m
    <3>1. i \in 1..(m - 1)
      BY <1>4, <2>5
    <3>2. flat[i] = FlatStep(flat, ss, i)
      BY <1>5, <3>1
    <3> QED BY <2>3, <2>5, <3>2
  <2> QED BY <2>4, <2>5
<1>7. Solves(m, more)
  BY <1>6
<1> QED BY <1>2, <1>7

(* An element that one of the lists consists of, and no other list holds.  *)
LEMMA FlatPlaces ==
  ASSUME NEW T, NEW n \in Nat \ {0}, NEW ss \in [1..n -> Seq(T)], NEW x,
         NEW a \in 1..n, \A i \in 1..n : i # a => Cardinality(Places(ss[i], x)) = 0
  PROVE  FlattenSeq(ss) \in Seq(T) /\ SameCount(FlattenSeq(ss), ss[a], x)
<1> DEFINE Solves(f) == f = [i \in 1..n |-> FlatStep(f, ss, i)]
           flat == CHOOSE f : Solves(f)
<1>1. Len(ss) = n /\ n # 0
  <2>1. ss \in Seq(Seq(T)) /\ DOMAIN ss = 1..n
    OBVIOUS
  <2> QED BY <2>1
<1>2. FlattenSeq(ss) = flat[n]
  BY <1>1 DEF FlattenSeq, FlatStep
<1>3. flat = [i \in 1..n |-> FlatStep(flat, ss, i)]
  <2>1. \E f : Solves(f)
    BY FlatExists
  <2>2. Solves(flat)
    <3> HIDE DEF Solves
    <3> QED BY <2>1
  <2> QED BY <2>2
<1> HIDE DEF flat
<1>4. \A i \in 1..n : flat[i] = FlatStep(flat, ss, i)
  BY <1>3
<1> DEFINE Count(s) == Cardinality(Places(s, x))
           Good(i) == /\ flat[i] \in Seq(T)
                      /\ Count(flat[i]) = IF a <= i THEN Count(ss[a]) ELSE 0
           Bad == {i \in 1..n : ~Good(i)}
<1>5. Good(1)
  <2>1. 1 \in 1..n /\ flat[1] = ss[1]
    BY <1>4 DEF FlatStep
  <2>2. ss[1] \in Seq(T)
    BY <2>1
  <2>3. a <= 1 => a = 1
    OBVIOUS
  <2> QED BY <2>1, <2>2, <2>3
<1>6. ASSUME NEW i \in 1..n, i # 1, Good(i - 1) PROVE Good(i)
  <2>1. i - 1 \in 1..n /\ ss[i] \in Seq(T) /\ ss[a] \in Seq(T)
    BY <1>6
  <2>2. flat[i] = flat[i - 1] \o ss[i] /\ flat[i - 1] \in Seq(T)
    BY <1>4, <1>6 DEF FlatStep
  <2>3. flat[i] \in Seq(T)
    BY <2>1, <2>2
  <2>4. Count(flat[i]) = Count(flat[i - 1]) + Count(ss[i])
    BY <2>1, <2>2, ConcatPlaces
  <2>5. Count(ss[i]) \in Nat /\ Count(ss[a]) \in Nat
    BY <2>1, PlacesFinite
  <2>6. Count(flat[i - 1]) = IF a <= i - 1 THEN Count(ss[a]) ELSE 0
    BY <1>6
  <2>7. i # a => Count(ss[i]) = 0
    OBVIOUS
  <2> HIDE DEF Count
  <2>8. Count(flat[i]) = IF a <= i THEN Count(ss[a]) ELSE 0
    <3>1. CASE i = a
      BY <2>4, <2>5, <2>6, <3>1
    <3>2. CASE i # a
      BY <2>4, <2>5, <2>6, <2>7, <3>2
    <3> QED BY <3>1, <3>2
  <2> QED BY <2>3, <2>8
<1> HIDE DEF Good
<1>7. Bad = {}
  <2>1. SUFFICES ASSUME Bad # {} PROVE FALSE
    OBVIOUS
  <2>2. Bad \in SUBSET Nat
    OBVIOUS
  <2>3. PICK i \in Bad : \A k \in Bad : i <= k
    <3> HIDE DEF Bad
    <3> QED BY <2>1, <2>2, NatMin
  <2>4. i \in 1..n /\ i # 1
    BY <1>5, <2>3
  <2>5. i - 1 \in 1..n /\ i - 1 \notin Bad
    <3>1. i \in Int /\ ~(i <= i - 1) /\ i - 1 \in 1..n
      BY <2>4
    <3> HIDE DEF Bad
    <3> QED BY <2>3, <3>1
  <2> QED BY <1>6, <2>3, <2>4, <2>5
<1>8. Good(n)
  BY <1>7
<1> QED BY <1>2, <1>8 DEF Good, SameCount
-----------------------------------------------------------------------------
(* The sort.                                                               *)

LEMMA PairNotEmpty == ASSUME NEW a, NEW b PROVE <<a, b>> # <<>>
OBVIOUS

(* The listings of d by n, and those of known ids outside a set.           *)
Listed(d, n) == {i \in DOMAIN graph[n] : graph[n][i] = d}
Open(n, E)   == {i \in DOMAIN graph[n] : graph[n][i] \in Nodes \ E}

LEMMA SortUnfolds ==
  /\ \A S : Sort!Cardinality(S) = Cardinality(S)
  /\ \A s : Sort!ToSet(s) = ToSet(s)
  /\ \A s, S : Sort!Kept(s, S) = Kept(s, S)
  /\ \A ss : Sort!FlattenSeq(ss) = FlattenSeq(ss)
  /\ \A S : Sort!SetToSeq(S) = SetToSeq(S)
  /\ \A f : Sort!IsInjective(f) = IsInjective(f)
<1>1. \A S : Sort!Cardinality(S) = Cardinality(S)
  BY DEF Sort!Cardinality, Cardinality
<1>2. \A s : Sort!ToSet(s) = ToSet(s)
  BY DEF Sort!ToSet, ToSet
<1>3. \A s, S : Sort!Kept(s, S) = Kept(s, S)
  BY DEF Sort!Kept, Kept
<1>4. \A ss : Sort!FlattenSeq(ss) = FlattenSeq(ss)
  BY DEF Sort!FlattenSeq, FlattenSeq
<1>5. \A f : Sort!IsInjective(f) = IsInjective(f)
  BY DEF Sort!IsInjective, IsInjective
<1>6. \A S : Sort!SetToSeq(S) = SetToSeq(S)
  BY <1>1, <1>5 DEF Sort!SetToSeq, SetToSeq
<1> QED BY <1>1, <1>2, <1>3, <1>4, <1>5, <1>6

LEMMA CountsUnfold ==
  ASSUME NEW d, NEW n
  PROVE  /\ Sort!Occurrences(d, n) = Cardinality(Listed(d, n))
         /\ Sort!Indegree(n) = Cardinality(Open(n, {}))
<1>1. Open(n, {}) = {i \in DOMAIN graph[n] : graph[n][i] \in Nodes}
  BY DEF Open
<1> QED BY <1>1, SortUnfolds DEF Sort!Occurrences, Sort!Indegree, Listed

LEMMA ListingsFinite ==
  ASSUME SearchType, NEW n \in Nodes, NEW d, NEW E
  PROVE  /\ IsFiniteSet(Listed(d, n)) /\ Cardinality(Listed(d, n)) \in Nat
         /\ IsFiniteSet(Open(n, E)) /\ Cardinality(Open(n, E)) \in Nat
<1>1. Len(graph[n]) \in Nat /\ DOMAIN graph[n] = 1..Len(graph[n])
  BY DepListType DEF SearchType
<1>2. IsFiniteSet(DOMAIN graph[n])
  BY <1>1, FS_Interval
<1>3. Listed(d, n) \in SUBSET DOMAIN graph[n] /\ Open(n, E) \in SUBSET DOMAIN graph[n]
  BY DEF Listed, Open
<1>4. IsFiniteSet(Listed(d, n)) /\ IsFiniteSet(Open(n, E))
  BY <1>2, <1>3, FS_Subset
<1> QED BY <1>4, FS_CardinalityType

(* Once d is done, what it closes are its listings.                        *)
LEMMA OpenWithout ==
  ASSUME SearchType, NEW n \in Nodes, NEW d \in Nodes, NEW E, d \notin E
  PROVE  Cardinality(Open(n, E)) = Cardinality(Open(n, E \cup {d})) + Cardinality(Listed(d, n))
<1> DEFINE A == Open(n, E \cup {d})
           B == Listed(d, n)
<1>1. Open(n, E) = A \cup B
  BY DEF Open, Listed
<1>2. A \cap B = {}
  BY DEF Open, Listed
<1>3. IsFiniteSet(A) /\ IsFiniteSet(B) /\ Cardinality(A) \in Nat /\ Cardinality(B) \in Nat
  BY ListingsFinite
<1>4. Cardinality(A \cap B) = 0
  BY <1>2, FS_EmptySet
<1> HIDE DEF A, B
<1>5. Cardinality(A \cup B) = Cardinality(A) + Cardinality(B) - Cardinality(A \cap B)
  BY <1>3, FS_Union
<1>6. Cardinality(A \cup B) = Cardinality(A) + Cardinality(B)
  BY <1>3, <1>4, <1>5
<1> QED BY <1>1, <1>6 DEF A, B

LEMMA DictOrder ==
  /\ Sort!Order \in Seq(Nodes) /\ Len(Sort!Order) \in Nat \ {0} /\ Distinct(Sort!Order)
  /\ ListElements(Sort!Order) = Nodes
<1> DEFINE N == Cardinality(Nodes)
           F == SetToSeq(Nodes)
<1>1. IsFiniteSet(Nodes) /\ NewId \in Nodes
  BY CycleCheckAssumption, FS_AddElement DEF Nodes
<1>2. N \in Nat /\ ExistsBijection(1..N, Nodes)
  BY <1>1, FS_CardinalityType
<1>3. \E f \in [1..N -> Nodes] : IsInjective(f)
  BY <1>2 DEF ExistsBijection, Bijection, Injection
<1>4. F \in [1..N -> Nodes] /\ IsInjective(F)
  BY <1>3 DEF SetToSeq
<1>5. IsFiniteSet(1..N) /\ Cardinality(1..N) = N
  BY <1>2, FS_Interval
<1>6. F \in Surjection(1..N, Nodes)
  BY <1>1, <1>4, <1>5, FS_Injection DEF Injection
<1>7. F \in Seq(Nodes) /\ Len(F) = N /\ DOMAIN F = 1..N
  BY <1>2, <1>4
<1>8. Sort!Order = F
  BY SortUnfolds DEF Sort!Order
<1>9. N # 0
  BY <1>1, FS_EmptySet
<1>10. ListElements(F) = Nodes
  BY <1>4, <1>6, <1>7 DEF ListElements, Surjection
<1>11. Distinct(F)
  BY <1>4, <1>7 DEF Distinct, IsInjective
<1> QED BY <1>2, <1>7, <1>8, <1>9, <1>10, <1>11

LEMMA ChildrenPlaces ==
  ASSUME SearchType, NEW d \in Nodes, NEW n \in Nodes
  PROVE  /\ Sort!ChildrenOf(d) \in Seq(Nodes)
         /\ Cardinality(Places(Sort!ChildrenOf(d), n)) = Cardinality(Listed(d, n))
<1> DEFINE O  == Sort!Order
           L  == Len(O)
           ss == [i \in 1..L |-> [j \in 1..Cardinality(Listed(d, O[i])) |-> O[i]]]
<1>1. /\ O \in Seq(Nodes) /\ L \in Nat \ {0} /\ Distinct(O) /\ ListElements(O) = Nodes
      /\ \A i \in 1..L : O[i] \in Nodes
  BY DictOrder
<1>2. Sort!ChildrenOf(d) = FlattenSeq(ss)
  BY SortUnfolds, CountsUnfold DEF Sort!ChildrenOf
<1> HIDE DEF O
<1>3. \A i \in 1..L : /\ ss[i] \in Seq(Nodes)
                      /\ Cardinality(Places(ss[i], n))
                           = IF n = O[i] THEN Cardinality(Listed(d, O[i])) ELSE 0
  <2> SUFFICES ASSUME NEW i \in 1..L
               PROVE  /\ ss[i] \in Seq(Nodes)
                      /\ Cardinality(Places(ss[i], n))
                           = IF n = O[i] THEN Cardinality(Listed(d, O[i])) ELSE 0
    OBVIOUS
  <2> DEFINE y == O[i]
             k == Cardinality(Listed(d, y))
             s == [j \in 1..k |-> y]
  <2>1. y \in Nodes /\ k \in Nat
    BY <1>1, ListingsFinite
  <2>2. ss[i] = s
    OBVIOUS
  <2> HIDE DEF y, k, ss
  <2>3. s \in Seq(Nodes) /\ Cardinality(Places(s, n)) = IF n = y THEN k ELSE 0
    BY <2>1, RepeatedPlaces
  <2> QED BY <2>2, <2>3 DEF y, k
<1>4. PICK a \in 1..L : O[a] = n
  BY <1>1 DEF ListElements
<1>5. \A i \in 1..L : i # a => O[i] # n
  BY <1>1, <1>4 DEF Distinct
<1>6. ss \in [1..L -> Seq(Nodes)]
  BY <1>3
<1>7. \A i \in 1..L : i # a => Cardinality(Places(ss[i], n)) = 0
  BY <1>3, <1>5
<1> HIDE DEF ss, L
<1>8. FlattenSeq(ss) \in Seq(Nodes) /\ SameCount(FlattenSeq(ss), ss[a], n)
  <2>1. L \in Nat \ {0}
    BY <1>1 DEF L
  <2> QED BY <2>1, <1>4, <1>6, <1>7, FlatPlaces
<1> QED BY <1>2, <1>3, <1>4, <1>8 DEF SameCount
-----------------------------------------------------------------------------
(* The invariant of the sort.  An id has as many dependencies left as it   *)
(* lists ids that are not done, less the listings of the current id that   *)
(* have been released; it is ready, or emitted, when none is left.         *)
OrderIds == ListElements(order)
ReadyIds == ListElements(ready)
Done     == IF node = <<>> THEN OrderIds ELSE OrderIds \ {node[1]}
Released(n) == IF node = <<>> THEN {} ELSE {q \in 1..(node[2] - 1) : children[node[1]][q] = n}

SortType ==
  /\ indegree \in [Nodes -> Int] /\ children \in [Nodes -> Seq(Nodes)]
  /\ ready \in Seq(Nodes) /\ order \in Seq(Nodes)
  /\ node # <<>> => /\ node = <<node[1], node[2]>> /\ node[1] \in OrderIds
                    /\ node[2] \in 1..(Len(children[node[1]]) + 1)

ChildrenInv == \A d, n \in Nodes : Cardinality(Places(children[d], n)) = Cardinality(Listed(d, n))

CountInv == \A n \in Nodes : indegree[n] = Cardinality(Open(n, Done)) - Cardinality(Released(n))

ReadyInv ==
  /\ Distinct(ready) /\ Distinct(order) /\ ReadyIds \cap OrderIds = {}
  /\ \A n \in Nodes : indegree[n] = 0 <=> n \in ReadyIds \cup OrderIds

OrderInv == \A i \in 1..Len(order) : \A d \in Nodes :
  Edge(order[i], d) => \E j \in 1..(i - 1) : order[j] = d

KahnInv == SortType /\ ChildrenInv /\ CountInv /\ ReadyInv /\ OrderInv

SortInv ==
  /\ verdict = "none" => order = <<>> /\ node = <<>>
  /\ verdict # "none" => done /\ KahnInv
  /\ verdict \in {"order", "cycle"} => node = <<>> /\ ready = <<>>
  /\ verdict = "order" => Len(order) = Cardinality(Nodes)
  /\ verdict = "cycle" => Len(order) # Cardinality(Nodes)
  /\ verdict \in {"none", "running", "order", "cycle"}

LEMMA EmptyCount == IsFiniteSet({}) /\ Cardinality({}) = 0
BY FS_EmptySet

LEMMA BeginSortKahn == ASSUME SearchType, BeginSort PROVE KahnInv'
<1>1. /\ graph' = graph /\ order' = <<>> /\ node' = <<>>
      /\ indegree' = [n \in Nodes |-> Cardinality(Open(n, {}))]
      /\ children' = [n \in Nodes |-> Sort!ChildrenOf(n)]
      /\ ready' = Kept(Sort!Order, {n \in Nodes : Cardinality(Open(n, {})) = 0})
  BY SortUnfolds, CountsUnfold
     DEF BeginSort, vars, Sort!FirstIndegree, Sort!FirstChildren, Sort!FirstReady
<1>2. /\ OrderIds' = {} /\ Done' = {} /\ Distinct(order)' /\ order' \in Seq(Nodes)
      /\ \A n \in Nodes : Released(n)' = {} /\ Open(n, {})' = Open(n, {})
      /\ \A d, n \in Nodes : Listed(d, n)' = Listed(d, n)
  BY <1>1, EmptyElements DEF OrderIds, Done, Released, Open, Listed
<1>3. \A n \in Nodes : Cardinality(Open(n, {})) \in Nat
  BY ListingsFinite
<1>4. /\ ready' \in Seq(Nodes) /\ Distinct(ready)'
      /\ ReadyIds' = {n \in Nodes : Cardinality(Open(n, {})) = 0}
  BY <1>1, DictOrder, KeptElements DEF ReadyIds
<1>5. SortType'
  BY <1>1, <1>2, <1>3, <1>4, ChildrenPlaces DEF SortType
<1>6. ChildrenInv'
  BY <1>1, <1>2, ChildrenPlaces DEF ChildrenInv
<1>7. CountInv'
  <2>1. ASSUME NEW n \in Nodes
        PROVE  indegree'[n] = Cardinality(Open(n, Done)') - Cardinality(Released(n)')
    <3>1. Open(n, Done)' = Open(n, {}) /\ Released(n)' = {}
      BY <1>1, <1>2 DEF Open
    <3>2. indegree'[n] = Cardinality(Open(n, {})) /\ Cardinality(Open(n, {})) \in Nat
      BY <1>1, <1>3
    <3>3. Cardinality(Open(n, {})) = Cardinality(Open(n, {})) - Cardinality({})
      BY <3>2, EmptyCount
    <3> QED BY <3>1, <3>2, <3>3
  <2> QED BY <2>1 DEF CountInv
<1>8. ReadyInv'
  BY <1>1, <1>2, <1>4 DEF ReadyInv
<1>9. OrderInv'
  BY <1>1 DEF OrderInv
<1> QED BY <1>5, <1>6, <1>7, <1>8, <1>9 DEF KahnInv

LEMMA EmitKahn == ASSUME SearchType, KahnInv, graph' = graph, Sort!Emit PROVE KahnInv'
<1> DEFINE h == Head(ready)
<1>1. /\ node = <<>> /\ ready # <<>>
      /\ node' = <<h, 1>> /\ order' = Append(order, h) /\ ready' = Tail(ready)
      /\ indegree' = indegree /\ children' = children
  BY DEF Sort!Emit
<1>2. node' # <<>> /\ node'[1] = h /\ node'[2] = 1 /\ node' = <<node'[1], node'[2]>>
  BY <1>1, PairNotEmpty
<1>3. SortType /\ ChildrenInv /\ CountInv /\ ReadyInv /\ OrderInv
  BY DEF KahnInv
<1>4. h \in Nodes /\ ready \in Seq(Nodes) /\ order \in Seq(Nodes) /\ h = ready[1] /\ 1 \in 1..Len(ready)
  BY <1>1, <1>3 DEF SortType
<1>5. /\ h \in ReadyIds /\ h \notin OrderIds
      /\ order' \in Seq(Nodes) /\ OrderIds' = OrderIds \cup {h} /\ Distinct(order')
  <2>1. h \in ReadyIds
    BY <1>4 DEF ReadyIds, ListElements
  <2>2. h \notin OrderIds /\ Distinct(order)
    BY <1>3, <2>1 DEF ReadyInv
  <2> QED BY <1>1, <1>4, <2>1, <2>2, AppendedElements DEF OrderIds
<1>6. /\ ready' \in Seq(Nodes) /\ Distinct(ready') /\ ReadyIds' = ReadyIds \ {h}
  BY <1>1, <1>3, <1>4, TailElements DEF ReadyInv, ReadyIds
<1>7. /\ Done' = Done /\ \A n \in Nodes : Released(n) = {} /\ Released(n)' = {}
  BY <1>1, <1>2, <1>5 DEF Done, Released
<1>8. \A n \in Nodes : Open(n, Done)' = Open(n, Done)
  BY <1>7 DEF Open
<1>9. SortType'
  BY <1>1, <1>2, <1>3, <1>4, <1>5, <1>6 DEF SortType
<1>10. ChildrenInv'
  BY <1>1, <1>3 DEF ChildrenInv, Listed
<1>11. CountInv'
  BY <1>1, <1>3, <1>7, <1>8 DEF CountInv
<1>12. ReadyInv'
  BY <1>1, <1>3, <1>5, <1>6 DEF ReadyInv
<1>13. OrderInv'
  <2>1. Len(order') = Len(order) + 1 /\ Len(order) \in Nat /\ order'[Len(order) + 1] = h
        /\ \A i \in 1..Len(order) : order'[i] = order[i]
    BY <1>1, <1>4, AppendElements
  <2>2. ASSUME NEW d \in Nodes, Edge(h, d) PROVE \E j \in 1..Len(order) : order[j] = d
    <3>1. Cardinality(Open(h, OrderIds)) = 0
      <4>1. indegree[h] = 0
        BY <1>3, <1>4, <1>5 DEF ReadyInv
      <4>2. indegree[h] = Cardinality(Open(h, OrderIds)) - Cardinality({})
        BY <1>1, <1>3, <1>4, <1>7 DEF CountInv, Done
      <4>3. Cardinality(Open(h, OrderIds)) \in Nat
        BY <1>4, ListingsFinite
      <4> HIDE DEF h
      <4> QED BY <4>1, <4>2, <4>3, EmptyCount
    <3>2. Open(h, OrderIds) = {}
      BY <1>4, <3>1, ListingsFinite, FS_EmptySet
    <3>3. d \in OrderIds
      BY <2>2, <3>2 DEF Edge, ToSet, Open
    <3> QED BY <3>3 DEF OrderIds, ListElements
  <2>3. ASSUME NEW i \in 1..Len(order)', NEW d \in Nodes, Edge(order'[i], d)
        PROVE  \E j \in 1..(i - 1) : order'[j] = d
    <3>1. CASE i = Len(order) + 1
      BY <2>1, <2>2, <2>3, <3>1
    <3>2. CASE i # Len(order) + 1
      <4>1. i \in 1..Len(order) /\ order'[i] = order[i]
        BY <2>1, <3>2
      <4>2. PICK j \in 1..(i - 1) : order[j] = d
        BY <1>3, <2>3, <4>1 DEF OrderInv
      <4> QED BY <2>1, <4>1, <4>2
    <3> QED BY <3>1, <3>2
  <2> QED BY <2>3 DEF OrderInv, Edge
<1> QED BY <1>9, <1>10, <1>11, <1>12, <1>13 DEF KahnInv

LEMMA ReleaseKahn == ASSUME SearchType, KahnInv, graph' = graph, Sort!Release PROVE KahnInv'
<1> DEFINE d == node[1]
           p == node[2]
<1>0. PICK c : c = children[d][p]
  OBVIOUS
<1>1. /\ node # <<>> /\ p <= Len(children[d])
      /\ indegree' = [indegree EXCEPT ![c] = @ - 1]
      /\ ready' = IF indegree'[c] = 0 THEN Append(ready, c) ELSE ready
      /\ node' = <<d, p + 1>> /\ order' = order /\ children' = children
  BY <1>0 DEF Sort!Release
<1>2. SortType /\ ChildrenInv /\ CountInv /\ ReadyInv /\ OrderInv
  BY DEF KahnInv
<1>3. /\ d \in OrderIds /\ d \in Nodes /\ children[d] \in Seq(Nodes)
      /\ p \in 1..Len(children[d]) /\ c \in Nodes /\ Len(children[d]) \in Nat
  <2>1. d \in OrderIds /\ p \in 1..(Len(children[d]) + 1)
    BY <1>1, <1>2 DEF SortType
  <2>2. d \in Nodes
    <3>1. order \in Seq(Nodes)
      BY <1>2 DEF SortType
    <3>2. \A i \in 1..Len(order) : order[i] \in Nodes
      BY <3>1
    <3> QED BY <2>1, <3>2 DEF OrderIds, ListElements
  <2>3. children[d] \in Seq(Nodes)
    BY <1>2, <2>2 DEF SortType
  <2> QED BY <1>0, <1>1, <2>1, <2>2, <2>3
<1>4. /\ node' # <<>> /\ node'[1] = d /\ node'[2] = p + 1 /\ node' = <<node'[1], node'[2]>>
      /\ OrderIds' = OrderIds
  BY <1>1, PairNotEmpty DEF OrderIds
<1>5. Done' = Done /\ Done = OrderIds \ {d}
  BY <1>1, <1>4 DEF Done
<1>6. \A n \in Nodes : Open(n, Done)' = Open(n, Done)
  BY <1>5 DEF Open
<1>7. /\ \A n \in Nodes : Released(n) = {q \in 1..(p - 1) : children[d][q] = n}
      /\ \A n \in Nodes : Released(n)' = {q \in 1..p : children[d][q] = n}
  <2>1. (p + 1) - 1 = p
    BY <1>3
  <2> QED BY <1>1, <1>4, <2>1 DEF Released
<1>8. 1..p = 1..(p - 1) \cup {p} /\ p \notin 1..(p - 1) /\ children[d][p] = c
  BY <1>0, <1>3
<1>9. /\ \A n \in Nodes : n # c => Released(n)' = Released(n)
      /\ Released(c)' = Released(c) \cup {p} /\ p \notin Released(c)
  <2>1. \A n \in Nodes : n # c => Released(n)' = Released(n)
    BY <1>7, <1>8
  <2>2. Released(c)' = Released(c) \cup {p} /\ p \notin Released(c)
    BY <1>3, <1>7, <1>8
  <2> QED BY <2>1, <2>2
<1>10. ASSUME NEW n \in Nodes
       PROVE  /\ IsFiniteSet(Released(n)) /\ Cardinality(Released(n)) \in Nat
              /\ IsFiniteSet(Released(n)') /\ Cardinality(Released(n)') \in Nat
              /\ Cardinality(Released(n)') <= Cardinality(Listed(d, n))
  <2>1. IsFiniteSet(Places(children[d], n)) /\ Cardinality(Places(children[d], n)) = Cardinality(Listed(d, n))
    BY <1>2, <1>3, PlacesFinite DEF ChildrenInv
  <2>2. Released(n) \in SUBSET Places(children[d], n) /\ Released(n)' \in SUBSET Places(children[d], n)
    BY <1>3, <1>7 DEF Places
  <2> QED BY <2>1, <2>2, FS_Subset, FS_CardinalityType
<1>11. Cardinality(Released(c)') = Cardinality(Released(c)) + 1
  BY <1>3, <1>9, <1>10, FS_AddElement
<1>12. \A n \in Nodes : indegree[n] = Cardinality(Open(n, Done)) - Cardinality(Released(n))
  BY <1>2 DEF CountInv
(* What is left of the current id keeps c from being ready.                *)
<1>13. indegree[c] \in Nat /\ indegree[c] # 0
  <2>1. Cardinality(Open(c, Done))
          = Cardinality(Open(c, Done \cup {d})) + Cardinality(Listed(d, c))
    BY <1>3, <1>5, OpenWithout
  <2>2. /\ Cardinality(Open(c, Done)) \in Nat /\ Cardinality(Open(c, Done \cup {d})) \in Nat
        /\ Cardinality(Listed(d, c)) \in Nat
    BY <1>3, ListingsFinite
  <2>3. Cardinality(Released(c)) \in Nat /\ Cardinality(Released(c)) + 1 <= Cardinality(Listed(d, c))
    BY <1>3, <1>10, <1>11
  <2> QED BY <1>3, <1>12, <2>1, <2>2, <2>3
<1>14. c \notin ReadyIds /\ c \notin OrderIds
  BY <1>2, <1>3, <1>13 DEF ReadyInv
<1>15. /\ indegree' \in [Nodes -> Int] /\ indegree'[c] = indegree[c] - 1
       /\ \A n \in Nodes : n # c => indegree'[n] = indegree[n]
  <2>1. indegree \in [Nodes -> Int] /\ c \in Nodes /\ indegree' = [indegree EXCEPT ![c] = @ - 1]
    BY <1>1, <1>2, <1>3 DEF SortType
  <2> QED BY <2>1
<1>16. /\ ready' \in Seq(Nodes) /\ Distinct(ready')
       /\ ReadyIds' = IF indegree'[c] = 0 THEN ReadyIds \cup {c} ELSE ReadyIds
  <2>1. ready \in Seq(Nodes) /\ Distinct(ready)
    BY <1>2 DEF SortType, ReadyInv
  <2>2. CASE indegree'[c] = 0
    BY <1>1, <1>3, <1>14, <2>1, <2>2, AppendedElements DEF ReadyIds
  <2>3. CASE indegree'[c] # 0
    BY <1>1, <2>1, <2>3 DEF ReadyIds
  <2> QED BY <2>2, <2>3
<1>17. SortType'
  <2>1. p + 1 \in 1..(Len(children[d]) + 1)
    BY <1>3
  <2> QED BY <1>1, <1>2, <1>3, <1>4, <1>15, <1>16, <2>1 DEF SortType
<1>18. ChildrenInv'
  BY <1>1, <1>2 DEF ChildrenInv, Listed
<1>19. CountInv'
  <2>1. ASSUME NEW n \in Nodes
        PROVE  indegree'[n] = Cardinality(Open(n, Done)') - Cardinality(Released(n)')
    <3>1. Cardinality(Open(n, Done)) \in Nat
      BY ListingsFinite
    <3>2. CASE n = c
      BY <1>3, <1>6, <1>10, <1>11, <1>12, <1>15, <3>1, <3>2
    <3>3. CASE n # c
      BY <1>6, <1>9, <1>12, <1>15, <3>3
    <3> QED BY <3>2, <3>3
  <2> QED BY <2>1 DEF CountInv
<1>20. ReadyInv'
  <2>1. ReadyIds' \cap OrderIds' = {}
    BY <1>2, <1>4, <1>14, <1>16 DEF ReadyInv
  <2>2. Distinct(order')
    BY <1>1, <1>2 DEF ReadyInv
  <2>3. ASSUME NEW n \in Nodes PROVE indegree'[n] = 0 <=> n \in ReadyIds' \cup OrderIds'
    <3>1. CASE n = c
      BY <1>4, <1>14, <1>16, <3>1
    <3>2. CASE n # c
      BY <1>2, <1>4, <1>15, <1>16, <3>2 DEF ReadyInv
    <3> QED BY <3>1, <3>2
  <2> QED BY <1>16, <2>1, <2>2, <2>3 DEF ReadyInv
<1>21. OrderInv'
  BY <1>1, <1>2 DEF OrderInv, Edge
<1> QED BY <1>17, <1>18, <1>19, <1>20, <1>21 DEF KahnInv

LEMMA EndReleaseKahn == ASSUME SearchType, KahnInv, graph' = graph, Sort!EndRelease PROVE KahnInv'
<1> DEFINE d == node[1]
<1>1. /\ node # <<>> /\ node[2] > Len(children[d]) /\ node' = <<>>
      /\ UNCHANGED <<indegree, children, ready, order>>
  BY DEF Sort!EndRelease
<1>2. SortType /\ ChildrenInv /\ CountInv /\ ReadyInv /\ OrderInv
  BY DEF KahnInv
<1>3. /\ d \in OrderIds /\ d \in Nodes /\ children[d] \in Seq(Nodes)
      /\ Len(children[d]) \in Nat /\ node[2] - 1 = Len(children[d])
  <2>1. d \in OrderIds /\ node[2] \in 1..(Len(children[d]) + 1)
    BY <1>1, <1>2 DEF SortType
  <2>2. d \in Nodes
    BY <1>2, <2>1 DEF SortType, OrderIds, ListElements
  <2>3. children[d] \in Seq(Nodes)
    BY <1>2, <2>2 DEF SortType
  <2> QED BY <1>1, <2>1, <2>2, <2>3
<1>4. OrderIds' = OrderIds /\ ReadyIds' = ReadyIds
  BY <1>1 DEF OrderIds, ReadyIds
<1>5. Done = OrderIds \ {d} /\ Done' = OrderIds /\ Done' = Done \cup {d} /\ d \notin Done
  BY <1>1, <1>3, <1>4 DEF Done
<1>6. \A n \in Nodes : Released(n) = Places(children[d], n) /\ Released(n)' = {}
  BY <1>1, <1>3 DEF Released, Places
<1>7. ASSUME NEW n \in Nodes
      PROVE  indegree'[n] = Cardinality(Open(n, Done)') - Cardinality(Released(n)')
  <2>1. Open(n, Done)' = Open(n, Done \cup {d})
    BY <1>5 DEF Open
  <2>2. Cardinality(Open(n, Done))
          = Cardinality(Open(n, Done \cup {d})) + Cardinality(Listed(d, n))
    BY <1>3, <1>5, OpenWithout
  <2>3. Cardinality(Open(n, Done \cup {d})) \in Nat /\ Cardinality(Listed(d, n)) \in Nat
    BY ListingsFinite
  <2>4. indegree'[n] = Cardinality(Open(n, Done)) - Cardinality(Listed(d, n))
    BY <1>1, <1>2, <1>3, <1>6 DEF CountInv, ChildrenInv
  <2>5. indegree'[n] = Cardinality(Open(n, Done \cup {d})) - Cardinality({})
    BY <2>2, <2>3, <2>4, EmptyCount
  <2> QED BY <1>6, <2>1, <2>5
<1>8. SortType'
  BY <1>1, <1>2 DEF SortType
<1>9. ChildrenInv' /\ OrderInv'
  BY <1>1, <1>2 DEF ChildrenInv, Listed, OrderInv, Edge
<1>10. ReadyInv'
  BY <1>1, <1>2, <1>4 DEF ReadyInv
<1> QED BY <1>7, <1>8, <1>9, <1>10 DEF KahnInv, CountInv

LEMMA SameKahn ==
  ASSUME KahnInv, UNCHANGED <<graph, indegree, children, ready, order, node>> PROVE KahnInv'
<1>1. OrderIds' = OrderIds /\ ReadyIds' = ReadyIds /\ Done' = Done
  BY DEF OrderIds, ReadyIds, Done
<1>2. SortType'
  BY <1>1 DEF KahnInv, SortType
<1>3. ChildrenInv' /\ OrderInv'
  BY DEF KahnInv, ChildrenInv, Listed, OrderInv, Edge
<1>4. CountInv'
  <2>1. \A n \in Nodes : Open(n, Done)' = Open(n, Done) /\ Released(n)' = Released(n)
    BY <1>1 DEF Open, Released
  <2> QED BY <2>1 DEF KahnInv, CountInv
<1>5. ReadyInv'
  BY <1>1 DEF KahnInv, ReadyInv
<1> QED BY <1>2, <1>3, <1>4, <1>5 DEF KahnInv

(* At the end, the ids left over are those no order can contain.           *)
LEMMA LeftOver ==
  ASSUME SearchType, KahnInv, node = <<>>, ready = <<>>
  PROVE  Nodes \ OrderIds = Sort!Stuck
<1> DEFINE R == Nodes \ OrderIds
           Trapped(S) == \A n \in S : ToSet(graph[n]) \cap S # {}
<1>1. SortType /\ CountInv /\ ReadyInv /\ OrderInv
  BY DEF KahnInv
<1>2. Sort!Stuck = UNION {S \in SUBSET Nodes : Trapped(S)}
  BY SortUnfolds DEF Sort!Stuck
<1>3. Trapped(R)
  <2>1. SUFFICES ASSUME NEW n \in R PROVE \E e \in R : e \in ToSet(graph[n])
    OBVIOUS
  <2>2. indegree[n] # 0
    <3>1. ReadyIds = {}
      BY EmptyElements DEF ReadyIds
    <3> QED BY <1>1, <3>1 DEF ReadyInv
  <2>3. indegree[n] = Cardinality(Open(n, OrderIds)) - Cardinality({})
    BY <1>1 DEF CountInv, Done, Released
  <2>4. Open(n, OrderIds) # {}
    <3>1. SUFFICES ASSUME Open(n, OrderIds) = {} PROVE FALSE
      OBVIOUS
    <3> QED BY <2>2, <2>3, <3>1, EmptyCount
  <2>5. PICK i \in DOMAIN graph[n] : graph[n][i] \in Nodes \ OrderIds
    BY <2>4 DEF Open
  <2> QED BY <2>5 DEF ToSet
<1>4. ASSUME NEW S \in SUBSET Nodes, Trapped(S) PROVE S \cap OrderIds = {}
  <2>1. SUFFICES ASSUME S \cap OrderIds # {} PROVE FALSE
    OBVIOUS
  <2> DEFINE I == {i \in 1..Len(order) : order[i] \in S}
  <2>2. I \in SUBSET Nat /\ I # {}
    <3>1. PICK e \in S : e \in OrderIds
      BY <2>1
    <3>2. PICK i \in 1..Len(order) : order[i] = e
      BY <3>1 DEF OrderIds, ListElements
    <3> QED BY <3>1, <3>2
  <2> HIDE DEF I
  <2>3. PICK i \in I : \A k \in I : i <= k
    BY <2>2, NatMin
  <2>4. i \in 1..Len(order) /\ order[i] \in S /\ Len(order) \in Nat
    BY <1>1 DEF I, SortType
  <2>5. PICK e \in S : e \in ToSet(graph[order[i]])
    BY <1>4, <2>4
  <2>6. PICK j \in 1..(i - 1) : order[j] = e
    BY <1>1, <2>4, <2>5 DEF OrderInv, Edge
  <2>7. j \in I /\ ~(i <= j)
    BY <2>4, <2>5, <2>6 DEF I
  <2> QED BY <2>3, <2>7
<1> HIDE DEF Trapped
<1>5. R \subseteq Sort!Stuck
  BY <1>2, <1>3
<1>6. Sort!Stuck \subseteq R
  BY <1>2, <1>4
<1> QED BY <1>5, <1>6

(* All ids are emitted when as many are emitted as there are.              *)
LEMMA AllEmitted ==
  ASSUME KahnInv PROVE Len(order) = Cardinality(Nodes) <=> OrderIds = Nodes
<1>1. order \in Seq(Nodes) /\ Distinct(order) /\ Len(order) \in Nat
  BY DEF KahnInv, SortType, ReadyInv
<1>2. IsFiniteSet(Nodes)
  BY OrderElements
<1>3. OrderIds \in SUBSET Nodes
  BY <1>1 DEF OrderIds, ListElements
<1>4. order \in Bijection(1..Len(order), OrderIds)
  BY <1>1 DEF Distinct, OrderIds, ListElements, Bijection, Injection, Surjection, IsInjective
<1>5. IsFiniteSet(1..Len(order)) /\ Cardinality(1..Len(order)) = Len(order)
  BY <1>1, FS_Interval
<1>6. Cardinality(OrderIds) = Len(order)
  BY <1>4, <1>5, FS_Bijection DEF ExistsBijection
<1> QED BY <1>2, <1>3, <1>6, FS_Subset

LEMMA SearchEnds == Next => ~done
BY DEF Next, SkipStart, OpenStart, Close, PassOver, Descend, ReportCycle, ReturnNone, AtNeighbour, Searching

LEMMA StepSort ==
  ASSUME SearchInv, SortInv, ChecksNext, graph' = graph PROVE SortInv'
<1>0. SearchType
  BY DEF SearchInv
<1>1. CASE Search
  <2>1. verdict = "none" /\ UNCHANGED <<indegree, children, ready, order, node, verdict>>
    BY <1>1, SearchEnds DEF Search, SortInv, sortVars
  <2> QED BY <2>1 DEF SortInv
<1>2. CASE BeginSort
  <2>1. KahnInv' /\ verdict' = "running" /\ done'
    BY <1>0, <1>2, BeginSortKahn DEF BeginSort, vars
  <2> QED BY <2>1 DEF SortInv
<1>3. CASE SortStep
  <2>1. done /\ done' = done
    BY <1>3 DEF SortStep, vars
  <2>2. CASE Sort!Emit
    <3>1. verdict = "running" /\ verdict' = verdict /\ KahnInv
      BY <2>2 DEF Sort!Emit, SortInv
    <3> QED BY <1>0, <2>1, <2>2, <3>1, EmitKahn DEF SortInv
  <2>3. CASE Sort!Release
    <3>1. verdict = "running" /\ verdict' = verdict /\ KahnInv
      BY <2>3 DEF Sort!Release, SortInv
    <3> QED BY <1>0, <2>1, <2>3, <3>1, ReleaseKahn DEF SortInv
  <2>4. CASE Sort!EndRelease
    <3>1. verdict = "running" /\ verdict' = verdict /\ KahnInv
      BY <2>4 DEF Sort!EndRelease, SortInv
    <3> QED BY <1>0, <2>1, <2>4, <3>1, EndReleaseKahn DEF SortInv
  <2>5. CASE Sort!Conclude
    <3>1. /\ verdict = "running" /\ node = <<>> /\ ready = <<>> /\ KahnInv
          /\ verdict' = IF Len(order) = Cardinality(Nodes) THEN "order" ELSE "cycle"
          /\ UNCHANGED <<indegree, children, ready, order, node>>
      BY <2>5, SortUnfolds DEF Sort!Conclude, SortInv
    <3>2. KahnInv'
      BY <3>1, SameKahn
    <3> QED BY <2>1, <3>1, <3>2 DEF SortInv
  <2> QED BY <1>3, <2>2, <2>3, <2>4, <2>5 DEF SortStep, Sort!Next
<1> QED BY <1>1, <1>2, <1>3 DEF ChecksNext

LEMMA GraphStays == [ChecksNext]_allVars => graph' = graph
BY DEF ChecksNext, Search, BeginSort, SortStep, Next, SkipStart, OpenStart, Close, PassOver, Descend,
       ReportCycle, ReturnNone, vars, allVars

(* At every state of the sort that follows, the counts of topo_order are   *)
(* the dependencies an id still waits for, and what is ready waits for     *)
(* none (_dag.py).                                                         *)
THEOREM SortInvariance == ChecksSpec => []SortInv
<1>1. ChecksInit => SortInv
  BY DEF ChecksInit, SortInv
<1>2. SearchInv /\ SortInv /\ [ChecksNext]_allVars => SortInv'
  <2> SUFFICES ASSUME SearchInv, SortInv, [ChecksNext]_allVars PROVE SortInv'
    OBVIOUS
  <2>1. CASE ChecksNext
    BY <2>1, GraphStays, StepSort
  <2>2. CASE UNCHANGED allVars
    <3>1. UNCHANGED <<graph, done, indegree, children, ready, order, node, verdict>>
      BY <2>2 DEF allVars, vars, sortVars
    <3>2. KahnInv => KahnInv'
      BY <3>1, SameKahn
    <3> QED BY <3>1, <3>2 DEF SortInv
  <2> QED BY <2>1, <2>2
<1> QED BY <1>1, <1>2, SearchInvariance, PTL DEF ChecksSpec

(* topo_order emits an id at most once, and only after every id it depends *)
(* on, however often it lists one.                                         *)
THEOREM DependenciesAlwaysFirst == ChecksSpec => []DependenciesFirst
<1>1. SortInv => DependenciesFirst
  <2> SUFFICES ASSUME SortInv PROVE DependenciesFirst
    OBVIOUS
  <2>1. order \in Seq(Nodes) /\ Distinct(order) /\ OrderInv
    <3>1. CASE verdict = "none"
      BY <3>1, EmptyElements DEF SortInv, OrderInv
    <3>2. CASE verdict # "none"
      BY <3>2 DEF SortInv, KahnInv, SortType, ReadyInv
    <3> QED BY <3>1, <3>2
  <2>2. DOMAIN order = 1..Len(order) /\ Len(order) \in Nat
    BY <2>1
  <2>3. IsInjective(order)
    BY <2>1, <2>2 DEF IsInjective, Distinct
  <2>4. ASSUME NEW i \in 1..Len(order), NEW d \in ToSet(graph[order[i]]) \cap Nodes
        PROVE  d \in ToSet(SubSeq(order, 1, i - 1))
    <3>1. PICK j \in 1..(i - 1) : order[j] = d
      BY <2>1, <2>4 DEF OrderInv, Edge
    <3> DEFINE s == SubSeq(order, 1, i - 1)
    <3>2. j \in DOMAIN s /\ s[j] = order[j]
      BY <2>1, <2>2, <3>1
    <3> QED BY <3>1, <3>2 DEF ToSet
  <2> QED BY <2>2, <2>3, <2>4, SortUnfolds DEF DependenciesFirst, Sort!DependenciesFirst
<1> QED BY <1>1, SortInvariance, PTL

(* What submit() accepted, arun() and aserve() can order, and what it      *)
(* refused, they refuse: CycleError is then raised exactly on a cyclic     *)
(* graph, and names what no order can contain.                             *)
THEOREM ChecksAlwaysAgree == ChecksSpec => []ChecksAgree
<1>1. SearchInv /\ SortInv => ChecksAgree
  <2> SUFFICES ASSUME SearchInv, SortInv, verdict \in {"order", "cycle"} PROVE ChecksAgree
    BY DEF ChecksAgree, Sort!VerdictCorrect
  <2>1. SearchType /\ KahnInv /\ done /\ node = <<>> /\ ready = <<>>
    BY DEF SearchInv, SortInv
  <2>2. Nodes \ OrderIds = Sort!Stuck
    BY <2>1, LeftOver
  <2>3. OrderIds \subseteq Nodes /\ Sort!Emitted = OrderIds
    <3>1. order \in Seq(Nodes)
      BY <2>1 DEF KahnInv, SortType
    <3> QED BY <3>1, SortUnfolds DEF Sort!Emitted, OrderIds, ListElements, ToSet
  <2>4. verdict = "order" => Sort!Stuck = {}
    BY <2>1, <2>2, AllEmitted DEF SortInv
  <2>5. verdict = "cycle" => Sort!Stuck # {}
    BY <2>1, <2>2, <2>3, AllEmitted DEF SortInv
  <2>6. Sort!Stuck = {} <=> ~HasCycle(Nodes)
    BY SortUnfolds DEF Sort!Stuck, HasCycle, Edge
  <2>7. found = <<>> <=> ~HasCycle(Nodes)
    BY <2>1 DEF SearchInv
  <2> QED BY <2>2, <2>3, <2>4, <2>5, <2>6, <2>7 DEF ChecksAgree, Sort!VerdictCorrect
<1> QED BY <1>1, SearchInvariance, SortInvariance, PTL
=============================================================================

----------------------------- MODULE CycleCheck -----------------------------
(***************************************************************************)
(* find_cycle of _dag.py: the iterative depth-first search that submit()   *)
(* runs, under the lock, over the dependency graph with the new handle in  *)
(* it.  depends_on is a sequence: a dependency may be listed twice, and a  *)
(* listed id may be unknown to the graph.                                  *)
(***************************************************************************)
EXTENDS Integers, Sequences, FiniteSets, SequencesExt

CONSTANTS Existing,  \* the ids already in the graph
          NewId,     \* the id being inserted
          Unknown,   \* an id the graph does not hold
          NoNode,    \* Python's None
          MaxDeps    \* bound on the length of a dependency list

Nodes == Existing \cup {NewId}
Order == Append(SetToSeq(Existing), NewId)     \* a dict iterates in insertion order
DepLists == SeqOf(Nodes \cup {Unknown}, MaxDeps)

ASSUME CycleCheckAssumption ==
  /\ IsFiniteSet(Existing) /\ NewId \notin Existing
  /\ Unknown \notin Nodes /\ NoNode \notin Nodes /\ MaxDeps \in Nat

VARIABLES graph,   \* id -> its dependency list
          color,   \* id -> "white", "gray" or "black"
          parent,  \* id -> the id the search came from
          stack,   \* the search path, each id with the index of its next neighbour
          todo,    \* the position in Order of the next start
          found,   \* the cycle reported, <<>> if none
          done     \* the function has returned

vars == <<graph, color, parent, stack, todo, found, done>>

Edge(n, d) == d \in ToSet(graph[n])
(* A set of nodes each of which has an edge inside the set holds a cycle.  *)
HasCycle(N) == \E S \in SUBSET N : S # {} /\ \A n \in S : \E d \in S : Edge(n, d)

(* The graph before the insertion is acyclic: every earlier submission was *)
(* checked.                                                                *)
Init ==
  /\ graph \in [Nodes -> DepLists] /\ ~HasCycle(Existing)
  /\ color = [n \in Nodes |-> "white"] /\ parent = [n \in Nodes |-> NoNode]
  /\ stack = <<>> /\ todo = 1
  /\ found = <<>> /\ done = FALSE

Node == Last(stack)[1]
Idx  == Last(stack)[2]
Next1 == graph[Node][Idx]                   \* the neighbour looked at
Searching == ~done /\ stack # <<>>
AtNeighbour == Searching /\ Idx <= Len(graph[Node])

Advanced == [stack EXCEPT ![Len(stack)] = <<Node, Idx + 1>>]

(* The outer loop: the next start that is still white.                     *)
SkipStart ==
  /\ ~done /\ stack = <<>> /\ todo <= Len(Order)
  /\ color[Order[todo]] # "white"
  /\ todo' = todo + 1
  /\ UNCHANGED <<graph, color, parent, stack, found, done>>

OpenStart ==
  /\ ~done /\ stack = <<>> /\ todo <= Len(Order)
  /\ color[Order[todo]] = "white"
  /\ stack' = <<<<Order[todo], 1>>>>
  /\ color' = [color EXCEPT ![Order[todo]] = "gray"]
  /\ todo' = todo + 1
  /\ UNCHANGED <<graph, parent, found, done>>

(* All neighbours seen.                                                    *)
Close ==
  /\ Searching /\ Idx > Len(graph[Node])
  /\ color' = [color EXCEPT ![Node] = "black"]
  /\ stack' = Front(stack)
  /\ UNCHANGED <<graph, parent, todo, found, done>>

(* Mutant: an id on the path is passed over like an explored one.          *)
PassOverSeen ==
  /\ AtNeighbour
  /\ Next1 \in Nodes => color[Next1] # "white"
  /\ stack' = Advanced
  /\ UNCHANGED <<graph, color, parent, todo, found, done>>

(* An unknown or a black neighbour is passed over.                         *)
PassOver ==
  /\ AtNeighbour
  /\ Next1 \in Nodes => color[Next1] = "black"
  /\ stack' = Advanced
  /\ UNCHANGED <<graph, color, parent, todo, found, done>>

Descend ==
  /\ AtNeighbour /\ Next1 \in Nodes /\ color[Next1] = "white"
  /\ stack' = Append(Advanced, <<Next1, 1>>)
  /\ color' = [color EXCEPT ![Next1] = "gray"]
  /\ parent' = [parent EXCEPT ![Next1] = Node]
  /\ UNCHANGED <<graph, todo, found, done>>

(* The walk up the parents from n: its k-th id, NoNode once past a root.   *)
Ancestor(n) ==
  LET up[k \in Nat] == IF k = 0 THEN n
                       ELSE IF up[k - 1] \in Nodes THEN parent[up[k - 1]] ELSE NoNode
  IN  up

(* Mutant: the path left in the order of the walk.                        *)
CyclePathUnreversed(n, nxt) ==
  LET up  == Ancestor(n)
      top == CHOOSE k \in 0..Len(Order) :
               up[k] \in {nxt, NoNode} /\ \A j \in 0..(k - 1) : up[j] \notin {nxt, NoNode}
  IN  <<nxt>> \o [k \in 1..top |-> up[k - 1]] \o <<nxt>>

(* The cycle read off the parents, from nxt back to nxt.                   *)
CyclePath(n, nxt) ==
  LET up  == Ancestor(n)
      top == CHOOSE k \in 0..Len(Order) :
               up[k] \in {nxt, NoNode} /\ \A j \in 0..(k - 1) : up[j] \notin {nxt, NoNode}
  IN  Reverse(<<nxt>> \o [k \in 1..top |-> up[k - 1]] \o <<nxt>>)

ReportCycle ==
  /\ AtNeighbour /\ Next1 \in Nodes /\ color[Next1] = "gray"
  /\ found' = CyclePath(Node, Next1)
  /\ done' = TRUE
  /\ stack' = Advanced
  /\ UNCHANGED <<graph, color, parent, todo>>

ReturnNone ==
  /\ ~done /\ stack = <<>> /\ todo > Len(Order)
  /\ done' = TRUE
  /\ UNCHANGED <<graph, color, parent, stack, todo, found>>

Next == SkipStart \/ OpenStart \/ Close \/ PassOver \/ Descend \/ ReportCycle \/ ReturnNone

-----------------------------------------------------------------------------
(* None is returned exactly when the graph stays acyclic: CycleError at    *)
(* submit() is neither missed nor spurious.                                *)
VerdictCorrect == done => (found # <<>> <=> HasCycle(Nodes))

(* The path reported is a simple cycle of dependencies, closed on its      *)
(* first id, and the new id is on it.                                      *)
ReportedCycleIsReal ==
  done /\ found # <<>> =>
    /\ Len(found) >= 2 /\ Head(found) = Last(found)
    /\ \A i \in 1..(Len(found) - 1) : Edge(found[i], found[i + 1])
    /\ IsInjective(Front(found))
    /\ NewId \in ToSet(found)
=============================================================================

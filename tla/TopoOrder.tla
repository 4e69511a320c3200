----------------------------- MODULE TopoOrder ------------------------------
(***************************************************************************)
(* topo_order of _dag.py: Kahn's algorithm, the defensive check that       *)
(* arun() and aserve() run over every registered handle.  GraphChecks runs *)
(* it on the graph that find_cycle has searched.                           *)
(***************************************************************************)
EXTENDS Integers, Sequences, FiniteSets, SequencesExt, Lists

CONSTANTS Nodes,    \* the ids of the graph
          Unknown,  \* an id the graph does not hold
          MaxDeps   \* bound on the length of a dependency list

DepLists == SeqOf(Nodes \cup {Unknown}, MaxDeps)
Order    == SetToSeq(Nodes)     \* a dict iterates in insertion order

VARIABLES deps,      \* id -> its dependency list
          indegree,  \* id -> the dependencies not yet emitted
          children,  \* id -> the ids that list it, once per listing
          ready,     \* the queue of ids with no dependency left
          order,     \* the ids emitted
          node,      \* the id being emitted and the position of its next child
          verdict    \* "running", "order" or "cycle"

vars == <<deps, indegree, children, ready, order, node, verdict>>

(* How often n lists d.                                                    *)
Occurrences(d, n) == Cardinality({i \in DOMAIN deps[n] : deps[n][i] = d})

(* The listings of known ids.                                              *)
Indegree(n) == Cardinality({i \in DOMAIN deps[n] : deps[n][i] \in Nodes})

(* n once per listing of d by n, over the ids in the order of the dict.    *)
ChildrenOf(d) ==
  FlattenSeq([i \in 1..Len(Order) |-> [j \in 1..Occurrences(d, Order[i]) |-> Order[i]]])

(* The loops that build indegree, children and the first ready list.       *)
FirstIndegree == [n \in Nodes |-> Indegree(n)]
FirstChildren == [n \in Nodes |-> ChildrenOf(n)]
FirstReady    == Kept(Order, {n \in Nodes : Indegree(n) = 0})

(* n = ready.pop(0); order.append(n).                                      *)
Emit ==
  /\ verdict = "running" /\ node = <<>> /\ ready # <<>>
  /\ node' = <<Head(ready), 1>>
  /\ order' = Append(order, Head(ready))
  /\ ready' = Tail(ready)
  /\ UNCHANGED <<deps, indegree, children, verdict>>

(* Mutant: an id is released one dependency early.                         *)
ReleaseEarly ==
  /\ node # <<>> /\ node[2] <= Len(children[node[1]])
  /\ LET c == children[node[1]][node[2]] IN
     /\ indegree' = [indegree EXCEPT ![c] = @ - 1]
     /\ ready' = IF indegree'[c] = 1 THEN Append(ready, c) ELSE ready
  /\ node' = <<node[1], node[2] + 1>>
  /\ UNCHANGED <<deps, children, order, verdict>>

(* One child of the emitted id.                                            *)
Release ==
  /\ node # <<>> /\ node[2] <= Len(children[node[1]])
  /\ LET c == children[node[1]][node[2]] IN
     /\ indegree' = [indegree EXCEPT ![c] = @ - 1]
     /\ ready' = IF indegree'[c] = 0 THEN Append(ready, c) ELSE ready
  /\ node' = <<node[1], node[2] + 1>>
  /\ UNCHANGED <<deps, children, order, verdict>>

EndRelease ==
  /\ node # <<>> /\ node[2] > Len(children[node[1]])
  /\ node' = <<>>
  /\ UNCHANGED <<deps, indegree, children, ready, order, verdict>>

(* Mutant: no error when ids are left over.                                *)
ConcludeNoError ==
  /\ verdict = "running" /\ node = <<>> /\ ready = <<>>
  /\ verdict' = "order"
  /\ UNCHANGED <<deps, indegree, children, ready, order, node>>

Conclude ==
  /\ verdict = "running" /\ node = <<>> /\ ready = <<>>
  /\ verdict' = IF Len(order) = Cardinality(Nodes) THEN "order" ELSE "cycle"
  /\ UNCHANGED <<deps, indegree, children, ready, order, node>>

Next == Emit \/ Release \/ EndRelease \/ Conclude

-----------------------------------------------------------------------------
Emitted == ToSet(order)
(* The ids caught in a cycle or downstream of one: the largest set each of *)
(* whose members depends on a member.                                      *)
Stuck == UNION {S \in SUBSET Nodes : \A n \in S : ToSet(deps[n]) \cap S # {}}

(* Nothing is emitted twice, nor before everything it depends on.          *)
DependenciesFirst ==
  /\ IsInjective(order)
  /\ \A i \in DOMAIN order : ToSet(deps[order[i]]) \cap Nodes \subseteq ToSet(SubSeq(order, 1, i - 1))

(* CycleError is raised exactly on a cyclic graph, and what it names is    *)
(* what no order can contain.                                              *)
VerdictCorrect ==
  /\ verdict = "order" => Stuck = {}
  /\ verdict = "cycle" => Stuck # {} /\ Nodes \ Emitted = Stuck
=============================================================================

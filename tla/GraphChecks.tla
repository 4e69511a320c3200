---------------------------- MODULE GraphChecks ----------------------------
(* The two checks of _dag.py on one graph: submit() searches it for a      *)
(* cycle with the new handle in it, and arun() or aserve() sorts it before *)
(* the dispatch loop starts.  The sort is run on the graphs the search has *)
(* refused as well: it is there "in case state was prepped via resume"     *)
(* (_runner.py:447), and each algorithm is then the reference of the other. *)
EXTENDS CycleCheck

VARIABLES indegree, children, ready, order, node, verdict

sortVars == <<indegree, children, ready, order, node, verdict>>
allVars  == <<vars, sortVars>>

Sort == INSTANCE TopoOrder WITH deps <- graph

ChecksInit ==
  /\ Init
  /\ indegree = <<>> /\ children = <<>> /\ ready = <<>>
  /\ order = <<>> /\ node = <<>> /\ verdict = "none"

Search == Next /\ UNCHANGED sortVars

BeginSort ==
  /\ done /\ verdict = "none"
  /\ UNCHANGED vars
  /\ indegree' = Sort!FirstIndegree /\ children' = Sort!FirstChildren
  /\ ready' = Sort!FirstReady
  /\ order' = <<>> /\ node' = <<>> /\ verdict' = "running"

SortStep ==
  /\ done
  /\ Sort!Next
  /\ UNCHANGED vars

ChecksNext == Search \/ BeginSort \/ SortStep

ChecksSpec == ChecksInit /\ [][ChecksNext]_allVars

-----------------------------------------------------------------------------
(* Nothing is emitted twice, nor before everything it depends on, though a *)
(* dependency listed twice is counted and released twice.                  *)
DependenciesFirst == Sort!DependenciesFirst

(* What submit() accepted, arun() can order, and what it refused, arun()   *)
(* refuses: CycleError then names what no order can contain.               *)
ChecksAgree ==
  /\ verdict = "order" => found = <<>>
  /\ verdict = "cycle" => found # <<>>
  /\ Sort!VerdictCorrect
=============================================================================

--------------------------- MODULE CycleDetection ---------------------------
(***************************************************************************)
(* The check dynamod-svmgr makes before it starts anything: a depth-first  *)
(* search with three colours over the dependency graph                     *)
(* (rust/dynamod-svmgr/src/dependency/cycle.rs).                           *)
(*                                                                         *)
(* The recursion of dfs is unfolded into steps.  Its call stack is the     *)
(* vector `path` itself, since dfs pushes its node on entry and pops it on *)
(* return; todo[n] is what is left of the loop over the dependencies of n. *)
(* Both loops run over hash sets, so any member may come next.             *)
(***************************************************************************)
EXTENDS DependencyGraph, Sequences

VARIABLES
  graph,    \* the dependency graph, fixed once built
  colors,   \* "White", "Gray" or "Black", per service
  path,     \* the services being visited, outermost first
  todo,     \* dependencies the loop of dfs has not looked at yet
  cycles    \* the cycles reported (a set: the order is for display)

vars == <<graph, colors, path, todo, cycles>>

Colored(c) == {s \in Services : colors[s] = c}

Top == path[Len(path)]

-----------------------------------------------------------------------------
(* detect_cycles before its first call of dfs *)
NewSearch ==
  /\ colors = [s \in Services |-> "White"]
  /\ path = <<>>
  /\ todo = [s \in Services |-> {}]
  /\ cycles = {}

Init == graph \in {build(defs) : defs \in Defs} /\ NewSearch

(* The entry of dfs, with the loop over todo[n] about to start. *)
Enter(n, rest) ==
  /\ colors' = [colors EXCEPT ![n] = "Gray"]
  /\ path' = Append(path, n)
  /\ todo' = [rest EXCEPT ![n] = graph.hard_deps[n]]

(* detect_cycles calls dfs for a service not visited yet. *)
detect_cycles ==
  /\ path = <<>>
  /\ \E s \in Colored("White") : Enter(s, todo)
  /\ UNCHANGED <<graph, cycles>>

(* The part of path from dep on; dep is gray, so it occurs there. *)
CycleAt(dep) ==
  LET start == CHOOSE i \in 1..Len(path) : path[i] = dep
  IN  SubSeq(path, start, Len(path))

SeeGray(dep) ==
  /\ colors[dep] = "Gray"
  /\ cycles' = cycles \cup {CycleAt(dep)}
  /\ todo' = [todo EXCEPT ![Top] = @ \ {dep}]
  /\ UNCHANGED <<graph, colors, path>>

SeeWhite(dep) ==
  /\ colors[dep] = "White"
  /\ Enter(dep, [todo EXCEPT ![Top] = @ \ {dep}])
  /\ UNCHANGED <<graph, cycles>>

SeeBlack(dep) ==
  /\ colors[dep] = "Black"
  /\ todo' = [todo EXCEPT ![Top] = @ \ {dep}]
  /\ UNCHANGED <<graph, colors, path, cycles>>

dfs ==
  /\ path # <<>>
  /\ \E dep \in todo[Top] : SeeGray(dep) \/ SeeWhite(dep) \/ SeeBlack(dep)

Return ==
  /\ path # <<>> /\ todo[Top] = {}
  /\ colors' = [colors EXCEPT ![Top] = "Black"]
  /\ path' = SubSeq(path, 1, Len(path) - 1)
  /\ UNCHANGED <<graph, todo, cycles>>

Next == detect_cycles \/ dfs \/ Return

(* The search is a plain function call: it takes a step while it can. *)
Spec == Init /\ [][Next]_vars /\ WF_vars(Next)

Done == path = <<>> /\ Colored("White") = {}

(* What validate_no_cycles answers once the search is over. *)
validate_no_cycles == cycles = {}

-----------------------------------------------------------------------------
TypeOK ==
  /\ graph \in Graph
  /\ colors \in [Services -> {"White", "Gray", "Black"}]
  /\ path \in Seq(Services)
  /\ todo \in [Services -> SUBSET Services]
  /\ cycles \subseteq Seq(Services)

(***************************************************************************)
(* The answer is right: when the search is over, no cycle was reported     *)
(* exactly when the graph is acyclic.  svmgr exits on a cycle and builds   *)
(* the frontier otherwise, which stalls on a cycle it was not told of.     *)
(***************************************************************************)
VerdictExact == Done => (validate_no_cycles <=> Acyclic(graph))

(***************************************************************************)
(* Every reported cycle is one: each service of it waits for the next, the *)
(* last waits for the first, and none occurs twice.                        *)
(***************************************************************************)
IsCycle(c) ==
  /\ Len(c) > 0
  /\ \A i, j \in 1..Len(c) : c[i] = c[j] => i = j
  /\ \A i \in 1..(Len(c) - 1) : c[i + 1] \in graph.hard_deps[c[i]]
  /\ c[1] \in graph.hard_deps[c[Len(c)]]

CyclesAreReal == \A c \in cycles : IsCycle(c)

(***************************************************************************)
(* As long as no cycle has been reported, whatever a finished service      *)
(* waits for is finished too: the early exit on a black node never hides   *)
(* an unfinished part of the graph.                                        *)
(***************************************************************************)
BlackIsClosed ==
  cycles = {} => \A s \in Colored("Black") :
                    graph.hard_deps[s] \subseteq Colored("Black")

(***************************************************************************)
(* The graph that is searched is consistent: build fills its three maps by *)
(* separate inserts, `before` with the roles of the two names exchanged,   *)
(* and the maps still describe the same edges.                             *)
(***************************************************************************)
BuiltConsistent == Consistent(graph)

(* The search of every graph, cyclic ones included, comes to an end. *)
Termination == <>Done
=============================================================================

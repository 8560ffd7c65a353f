--------------------------- MODULE DependencyGraph ---------------------------
(***************************************************************************)
(* The dependency graph of dynamod-svmgr                                   *)
(* (rust/dynamod-svmgr/src/dependency/graph.rs).                           *)
(*                                                                         *)
(* A definition names the services it `requires`, `wants`, comes `after`   *)
(* or `before`.  Names that are not loaded are ignored.  The graph keeps   *)
(* three maps: every ordering edge (hard_deps), the edges along which a    *)
(* failure spreads (requires), and the reverse of the first                *)
(* (reverse_deps), each filled by its own inserts.                         *)
(***************************************************************************)
EXTENDS FiniteSets, Naturals

CONSTANTS
  Names,     \* every name a definition may mention
  Services,  \* the names that have a definition
  Defs       \* the sets of definitions that may be loaded

ASSUME GraphAssumption ==
  /\ IsFiniteSet(Services)
  /\ Services \subseteq Names

ServiceDef ==
  [requires : SUBSET Names, wants : SUBSET Names,
   after : SUBSET Names, before : SUBSET Names]

ASSUME DefsAssumption == Defs \subseteq [Services -> ServiceDef]

(* What a definition must wait for, by its own declaration. *)
DeclaredDeps(def) == def.requires \cup def.wants \cup def.after

build(defs) ==
  [hard_deps |-> [s \in Services |->
      {d \in Services : d \in DeclaredDeps(defs[s]) \/ s \in defs[d].before}],
   requires |-> [s \in Services |-> defs[s].requires \cap Services],
   reverse_deps |-> [s \in Services |->
      {t \in Services : s \in DeclaredDeps(defs[t]) \/ t \in defs[s].before}]]

Graph ==
  [hard_deps : [Services -> SUBSET Services],
   requires : [Services -> SUBSET Services],
   reverse_deps : [Services -> SUBSET Services]]

unmet_count(graph, s, ready) == Cardinality(graph.hard_deps[s] \ ready)

(***************************************************************************)
(* A graph is acyclic when every non-empty set of services has a member    *)
(* that waits for nobody in the set.  This is the reference the depth-first *)
(* search of dependency/cycle.rs is compared with.                         *)
(***************************************************************************)
Acyclic(graph) ==
  \A S \in SUBSET Services :
    S # {} => \E s \in S : graph.hard_deps[s] \cap S = {}

(***************************************************************************)
(* The two directions of the ordering edges agree, and every edge along    *)
(* which a failure spreads is an ordering edge.  The frontier decrements   *)
(* through reverse_deps what it counted through hard_deps, so it is wrong  *)
(* the moment the two differ.                                              *)
(***************************************************************************)
Consistent(graph) ==
  \A s, t \in Services :
    /\ t \in graph.reverse_deps[s] <=> s \in graph.hard_deps[t]
    /\ s \in graph.requires[t] => s \in graph.hard_deps[t]
=============================================================================

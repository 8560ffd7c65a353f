-------------------------------- MODULE Load --------------------------------
(***************************************************************************)
(* What main of dynamod-svmgr does before it starts anything: it reads the *)
(* definitions of services and supervisors, builds the supervisor tree     *)
(* (supervisor/tree.rs) and the dependency graph, searches the graph for   *)
(* cycles, and exits or hands the graph to the startup frontier.           *)
(*                                                                         *)
(* The two directories are listed in an arbitrary order, and the tree is   *)
(* built in that order, so the model picks the next file as it goes.       *)
(* Services are the names that some file that parses defines; two files    *)
(* may define one name, and the graph takes the edges of both.             *)
(* validate_all only reports.  The search is CycleDetection, extended; the *)
(* frontier is StartupFrontier, instantiated.                              *)
(***************************************************************************)
EXTENDS CycleDetection, Functions

CONSTANTS
  root,    \* the name of the root supervisor
  Cases    \* what the directories hold: files and the definitions in them

VARIABLES
  boot,            \* where main is
  conf,            \* the contents of the directories
  supervisor_defs, \* the supervisor files that were read
  listed,          \* those the loop has gone through, in the order of the listing
  placed,          \* the service files the loop over them has gone through
  tree,            \* the nodes of the supervisor tree
  unmet, ready_to_start, ready, pending, blocked, completed, taken

tree_vars == <<conf, supervisor_defs, listed, placed, tree>>
frontier == <<unmet, ready_to_start, ready, pending, blocked, completed, taken>>
load_vars == <<vars, boot, tree_vars, frontier>>

F == INSTANCE StartupFrontier WITH
  graph <- graph, unmet <- unmet, ready_to_start <- ready_to_start, ready <- ready,
  pending <- pending, blocked <- blocked, completed <- completed, taken <- taken

-----------------------------------------------------------------------------
(* A file is [kind, name, parent], the kind being that of the node it adds  *)
(* and the parent of a service its `supervisor`.  A file that does not      *)
(* parse is skipped, and so not part of the case.                           *)
File == [kind : {"Supervisor", "Worker"}, name : Names \cup {root}, parent : Names \cup {root}]

ASSUME LoadAssumption ==
  \A case \in Cases :
    /\ IsFiniteSet(case.services)
    /\ case.supervisors \subseteq {f \in File : f.kind = "Supervisor"}
    /\ case.services \subseteq {f \in File : f.kind = "Worker"}
    /\ {f.name : f \in case.services} = Services
    /\ case.defs \in Defs

services == conf.services

Nodes == DOMAIN tree
NodesOf(kind) == {n \in Nodes : tree[n].kind = kind}

SupervisorTree(name) ==
  [n \in {name} |-> [kind |-> "Supervisor", parent |-> name, children |-> {}]]

AddUnlisted(f, up) ==    \* a mutant: the parent's list is not updated
  IF f.name \in Nodes \/ up \notin NodesOf("Supervisor") THEN tree
  ELSE [n \in Nodes \cup {f.name} |->
          IF n = f.name THEN [kind |-> f.kind, parent |-> up, children |-> {}] ELSE tree[n]]

(* add_supervisor and add_worker: DuplicateNode, ParentNotFound and         *)
(* ParentIsWorker are logged and leave the tree as it is.                   *)
AddNode(f, up) ==
  IF f.name \in Nodes \/ up \notin NodesOf("Supervisor") THEN tree
  ELSE [n \in Nodes \cup {f.name} |->
          CASE n = f.name -> [kind |-> f.kind, parent |-> up, children |-> {}]
            [] n = up -> [tree[up] EXCEPT !.children = @ \cup {f.name}]
            [] OTHER -> tree[n]]

-----------------------------------------------------------------------------
LoadInit ==
  /\ boot = "load"
  /\ conf \in Cases
  /\ supervisor_defs = {} /\ listed = <<>> /\ placed = {}
  /\ tree = SupervisorTree(root)
  /\ graph = build(conf.defs)
  /\ NewSearch /\ F!New

(* A directory that cannot be read counts as empty.  Without services there *)
(* is nothing to start.                                                     *)
load_services_dir ==
  /\ boot = "load"
  /\ boot' \in {"supervisors", "nothing"}
  /\ UNCHANGED <<vars, tree_vars, frontier>>

load_supervisors_dir ==
  /\ boot = "supervisors"
  /\ boot' = "tree"
  /\ supervisor_defs' \in {conf.supervisors, {}}
  /\ UNCHANGED <<vars, conf, listed, placed, tree, frontier>>

(* The file of root only changes the strategy and intensity of the root. *)
add_supervisor ==
  /\ boot = "tree"
  /\ \E f \in supervisor_defs \ Range(listed) :
       /\ listed' = Append(listed, f)
       /\ tree' = IF f.name = root THEN tree ELSE AddNode(f, f.parent)
  /\ UNCHANGED <<vars, boot, conf, supervisor_defs, placed, frontier>>

ParentAsNamed(f) == f.parent    \* a mutant: no fallback to root

(* A name that is not in the tree falls back to root.  A name that is there *)
(* is taken, be it that of a supervisor or of a worker.                     *)
parent_id(f) == IF f.parent \in Nodes THEN f.parent ELSE root

add_worker ==
  /\ boot = "tree" /\ supervisor_defs \subseteq Range(listed)
  /\ \E f \in services \ placed :
       /\ placed' = placed \cup {f}
       /\ tree' = AddNode(f, parent_id(f))
  /\ UNCHANGED <<vars, boot, conf, supervisor_defs, listed, frontier>>

(* DependencyGraph::build and detect_cycles *)
StartSearch ==
  /\ boot = "tree" /\ supervisor_defs \subseteq Range(listed) /\ placed = services
  /\ boot' = "search"
  /\ UNCHANGED <<vars, tree_vars, frontier>>

Search == boot = "search" /\ Next /\ UNCHANGED <<boot, tree_vars, frontier>>

ExitIgnoresVerdict ==    \* a mutant: the error of validate_no_cycles is only logged
  /\ boot = "search" /\ Done
  /\ boot' = "startup"
  /\ UNCHANGED <<vars, tree_vars, frontier>>

(* "refusing to boot with cyclic dependencies" *)
Decide ==
  /\ boot = "search" /\ Done
  /\ boot' = IF validate_no_cycles THEN "startup" ELSE "exit"
  /\ UNCHANGED <<vars, tree_vars, frontier>>

(* The startup loop, reduced to what it does to the frontier: it tracks and *)
(* settles those of the services it takes that get_worker finds.            *)
Tracked == pending \cap NodesOf("Worker")

StartupLoop ==
  /\ boot = "startup"
  /\ \/ F!take_ready
     \/ \E s \in Tracked : F!mark_ready(s) \/ F!mark_failed(s)
  /\ UNCHANGED <<boot, tree_vars, colors, path, todo, cycles>>

BreakWaitsForPending ==    \* a mutant: waits for everything that was handed out
  /\ boot = "startup" /\ ~F!has_ready /\ pending = {}
  /\ boot' = "complete"
  /\ UNCHANGED <<vars, tree_vars, frontier>>

(* No trackers and no oneshots left: "startup complete" *)
Break ==
  /\ boot = "startup" /\ ~F!has_ready /\ Tracked = {}
  /\ boot' = "complete"
  /\ UNCHANGED <<vars, tree_vars, frontier>>

LoadNext ==
  \/ load_services_dir \/ load_supervisors_dir \/ add_supervisor \/ add_worker
  \/ StartSearch \/ Search \/ Decide \/ StartupLoop \/ Break

(* main is one thread.  What it waits for in the startup loop gets settled: *)
(* every readiness check has a timeout; a oneshot is assumed to exit.       *)
LoadSpec == LoadInit /\ [][LoadNext]_load_vars /\ WF_load_vars(LoadNext)

-----------------------------------------------------------------------------
(***************************************************************************)
(* The tree is a tree: every node but the root is a child of exactly one,  *)
(* the supervisor it has as its parent, and the parents lead to the root   *)
(* (add_supervisor, add_worker).  A supervisor is in it exactly when its   *)
(* file was listed after one that added its parent: an order of the        *)
(* listing that puts the child first drops the child.                      *)
(***************************************************************************)
HasOneParent(n) ==
  /\ tree[n].parent \in NodesOf("Supervisor")
  /\ {s \in Nodes : n \in tree[s].children} = {tree[n].parent}

NoLoop ==
  \A S \in SUBSET (Nodes \ {root}) : S # {} => \E n \in S : tree[n].parent \notin S

(* The positions of the files in the listing that add a supervisor. *)
Adds(A) ==
  \A j \in DOMAIN listed :
    j \in A <=>
      /\ listed[j].name # root
      /\ \A k \in A : k < j => listed[k].name # listed[j].name
      /\ listed[j].parent = root \/ \E k \in A : k < j /\ listed[k].name = listed[j].parent

TreeIsWhole ==
  /\ \A n \in Nodes \ {root} : HasOneParent(n)
  /\ NoLoop
  /\ \E A \in SUBSET DOMAIN listed :
       Adds(A) /\ NodesOf("Supervisor") = {root} \cup {listed[j].name : j \in A}

(***************************************************************************)
(* A configuration validate_all has nothing to say about, and in which no  *)
(* service has the name of a supervisor, gives every service a worker that *)
(* the startup loop finds, whatever the order of the listing and whichever *)
(* supervisors it dropped: under the supervisor the file names, if that is *)
(* in the tree, and under root otherwise.                                  *)
(***************************************************************************)
ServiceNames == {f.name : f \in services}
SupervisorNames == {f.name : f \in supervisor_defs}

(* validate_all's cross-references; validate_service is about one file *)
validate_all ==
  {<<"Duplicate", n>> : n \in {m \in Names \cup {root} : \E files \in {services, supervisor_defs} :
                               Cardinality({f \in files : f.name = m}) > 1}}
  \cup {<<"UnknownSupervisor", f.name>> :
         f \in {g \in services : g.parent \notin SupervisorNames \cup {root}}}
  \cup {<<"UnknownDependency", s>> :
         s \in {u \in Services : ~(conf.defs[u].requires \subseteq ServiceNames)}}

ValidIsPlaced ==
  /\ boot \in {"search", "startup", "complete"}
  /\ validate_all = {}
  /\ ServiceNames \cap (SupervisorNames \cup {root}) = {}
  => \A f \in services :
       /\ f.name \in NodesOf("Worker")
       /\ tree[f.name].parent = IF f.parent \in NodesOf("Supervisor") THEN f.parent ELSE root

(***************************************************************************)
(* main enters the startup loop with an acyclic graph and exits on cycles  *)
(* and on nothing else; every cycle it names is one.                       *)
(***************************************************************************)
EntersAcyclic ==
  /\ boot \in {"startup", "complete"} => Acyclic(graph)
  /\ boot = "exit" => ~Acyclic(graph)
  /\ CyclesAreReal

(***************************************************************************)
(* The invariants of the frontier, for the graphs that main lets through.  *)
(* A service is handed out only after everything it is ordered after is    *)
(* ready or failed and everything it requires is ready.                    *)
(***************************************************************************)
StartsAfterDependencies == boot = "startup" => F!StartsAfterItsDependencies

(* What is blocked is what requires, directly or not, a failed service. *)
BlocksExactly == boot = "startup" => F!BlockedExactly

(***************************************************************************)
(* When the startup loop is over, a service that was never handed out is   *)
(* blocked, waits for one that is, or waits for one that is not in the     *)
(* tree: those are handed out and settled by nobody.                       *)
(***************************************************************************)
LeftOut == {s \in Services : taken[s] = 0}

LeftOutHasCause ==
  boot = "complete" =>
    \A s \in LeftOut \ blocked :
      graph.hard_deps[s] \cap (LeftOut \cup (Services \ NodesOf("Worker"))) # {}

(***************************************************************************)
(* svmgr gets through: the search ends, and the startup loop with it, even *)
(* when a service it handed out is not in the tree.                        *)
(***************************************************************************)
LoadEnds == <>(boot \in {"exit", "nothing", "complete"})
=============================================================================

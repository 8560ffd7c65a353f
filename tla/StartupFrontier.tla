--------------------------- MODULE StartupFrontier ---------------------------
(***************************************************************************)
(* The startup frontier of dynamod-svmgr                                   *)
(* (rust/dynamod-svmgr/src/dependency/frontier.rs): which services may be  *)
(* started now, as the services started before become ready or fail.       *)
(*                                                                         *)
(* One action per method that changes the frontier.  The caller, the       *)
(* startup loop of main.rs, marks a service only after taking it, and once *)
(* (\E s \in pending below).  The queue ready_to_start is filled in the    *)
(* arbitrary order of a HashSet and drained whole, so the model keeps how  *)
(* many entries each service has in it and leaves the order out; a second  *)
(* entry for a service stays visible.                                      *)
(***************************************************************************)
EXTENDS DependencyGraph

VARIABLES
  graph,            \* the dependency graph, fixed once built
  unmet,            \* dependencies not resolved yet, per service
  ready_to_start,   \* entries in the queue, per service
  ready,            \* started and confirmed operational
  pending,          \* taken from the queue, neither ready nor failed yet
  blocked,          \* a required service failed or is blocked
  completed,        \* ready, failed or blocked
  taken             \* history: how often take_ready handed a service out

vars == <<graph, unmet, ready_to_start, ready, pending, blocked, completed,
          taken>>

-----------------------------------------------------------------------------
Dec(n) == IF n = 0 THEN 0 ELSE n - 1        \* usize::saturating_sub(1)

(* Not a variable of the code: mark_failed records a failure by completing *)
(* the service without making it ready or blocked.                         *)
failed == completed \ (ready \cup blocked)

resolved == ready \cup failed

(* Services that require t, found the way the code finds them: through the *)
(* reverse edges, filtered by requires_of.                                 *)
requirers(t) == {u \in graph.reverse_deps[t] : t \in graph.requires[u]}

(***************************************************************************)
(* The services mark_failed(s) visits from its queue: the least set that   *)
(* holds the requirers of s and those of every visited service not blocked *)
(* before.                                                                 *)
(***************************************************************************)
ClosedFrom(s, B) ==
  /\ requirers(s) \subseteq B
  /\ \A t \in B \ blocked : requirers(t) \subseteq B

ToBlockDirectOnly(s) == requirers(s)   \* a mutant: no transitive step

to_block(s) ==
  {t \in Services : \A B \in SUBSET Services : ClosedFrom(s, B) => t \in B}

-----------------------------------------------------------------------------
NewQueuesEverything ==   \* a mutant: the test on count dropped
  /\ unmet = [s \in Services |-> Cardinality(graph.hard_deps[s])]
  /\ ready_to_start = [s \in Services |-> 1]
  /\ ready = {} /\ pending = {} /\ blocked = {} /\ completed = {}
  /\ taken = [s \in Services |-> 0]

(* StartupFrontier::new for the graph *)
New ==
  /\ unmet = [s \in Services |-> Cardinality(graph.hard_deps[s])]
  /\ ready_to_start =
       [s \in Services |-> IF graph.hard_deps[s] = {} THEN 1 ELSE 0]
  /\ ready = {} /\ pending = {} /\ blocked = {} /\ completed = {}
  /\ taken = [s \in Services |-> 0]

(* main.rs exits before it builds the frontier when the graph has a cycle. *)
Init == graph \in {g \in {build(defs) : defs \in Defs} : Acyclic(g)} /\ New

has_ready == \E s \in Services : ready_to_start[s] > 0

take_ready ==
  /\ has_ready
  /\ pending' = pending \cup {s \in Services : ready_to_start[s] > 0}
  /\ ready_to_start' = [s \in Services |-> 0]
  /\ taken' = [s \in Services |-> taken[s] + ready_to_start[s]]
  /\ UNCHANGED <<graph, unmet, ready, blocked, completed>>

ReleaseQueuesNobody(s, S) ==   \* a mutant: counts, and never queues
  /\ unmet' = [t \in Services |-> IF t \in S THEN Dec(unmet[t]) ELSE unmet[t]]
  /\ UNCHANGED ready_to_start

(***************************************************************************)
(* Decrement the members of S, dependents of s, and queue those that reach *)
(* 0 and may start.  s has just left pending and entered completed.        *)
(***************************************************************************)
Release(s, S) ==
  /\ unmet' = [t \in Services |-> IF t \in S THEN Dec(unmet[t]) ELSE unmet[t]]
  /\ ready_to_start' =
       [t \in Services |->
          IF /\ t \in S /\ Dec(unmet[t]) = 0
             /\ t \notin completed \cup {s} \cup (pending \ {s}) \cup blocked
          THEN ready_to_start[t] + 1 ELSE ready_to_start[t]]

mark_ready(s) ==
  /\ pending' = pending \ {s}
  /\ ready' = ready \cup {s}
  /\ completed' = completed \cup {s}
  /\ Release(s, graph.reverse_deps[s] \ blocked)
  /\ UNCHANGED <<graph, blocked, taken>>

(* The soft dependents are released first; completed then gains s and     *)
(* everything blocked in this call.                                       *)
mark_failed(s) ==
  /\ pending' = pending \ {s}
  /\ blocked' = blocked \cup to_block(s)
  /\ completed' = completed \cup {s} \cup (to_block(s) \ blocked)
  /\ Release(s, graph.reverse_deps[s] \ requirers(s))
  /\ UNCHANGED <<graph, ready, taken>>

Next ==
  \/ take_ready
  \/ \E s \in pending : mark_ready(s)
  \/ \E s \in pending : mark_failed(s)

Spec == Init /\ [][Next]_vars

-----------------------------------------------------------------------------
TypeOK ==
  /\ graph \in Graph
  /\ unmet \in [Services -> Nat]
  /\ ready_to_start \in [Services -> Nat]
  /\ ready \in SUBSET Services
  /\ pending \in SUBSET Services
  /\ blocked \in SUBSET Services
  /\ completed \in SUBSET Services
  /\ taken \in [Services -> Nat]

(* A service the frontier has handed out or queued. *)
Released(s) == ready_to_start[s] > 0 \/ taken[s] > 0

(***************************************************************************)
(* A service is queued or handed out only once everything it is ordered    *)
(* after has become ready or failed, and everything it requires is ready.  *)
(* This is what mark_ready and mark_failed keep through the unmet counters *)
(* alone: neither looks at the dependencies themselves.                    *)
(***************************************************************************)
StartsAfterItsDependencies ==
  \A s \in Services : Released(s) =>
    /\ graph.hard_deps[s] \subseteq resolved
    /\ graph.requires[s] \subseteq ready

(***************************************************************************)
(* No service is handed out twice: one pass of the frontier spawns each    *)
(* service at most once, although a counter that is already 0 may be       *)
(* decremented again (saturating_sub) and would then queue it again.       *)
(***************************************************************************)
HandedOutOnce == \A s \in Services : ready_to_start[s] + taken[s] <= 1

(***************************************************************************)
(* Exactly the services that require a failed or blocked service are       *)
(* blocked: the breadth-first search of mark_failed neither stops early    *)
(* nor reaches a service through an ordering-only edge.                    *)
(***************************************************************************)
BlockedExactly ==
  \A s \in Services :
    s \in blocked <=> graph.requires[s] \cap (failed \cup blocked) # {}

(***************************************************************************)
(* The counter of a service that is not blocked is the number of its       *)
(* dependencies that are neither ready nor failed.                         *)
(***************************************************************************)
UnmetExact ==
  \A s \in Services \ blocked : unmet[s] = unmet_count(graph, s, resolved)

(***************************************************************************)
(* A verdict is final: no step of the frontier takes a service out of      *)
(* ready, blocked or failed, and none blocks a service that was handed out *)
(* or queued before.                                                       *)
(***************************************************************************)
VerdictsAreFinal ==
  [][/\ ready \subseteq ready' /\ blocked \subseteq blocked'
     /\ failed \subseteq failed'
     /\ \A s \in blocked' : ~Released(s)]_vars

(***************************************************************************)
(* When nothing is queued or pending, which is when the startup loop       *)
(* stops, a service that was never started and is not blocked waits,       *)
(* directly or not, for a service that is blocked.  Such services exist:   *)
(* mark_failed releases the ordering-only dependents of the service that   *)
(* failed, and not those of the services it blocks.                        *)
(***************************************************************************)
Quiet == ~has_ready /\ pending = {}

OnlyWaitersOfBlockedAreLeft ==
  Quiet => \A s \in Services \ completed :
             graph.hard_deps[s] \cap (blocked \cup (Services \ completed)) # {}
=============================================================================

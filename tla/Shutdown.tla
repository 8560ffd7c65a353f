------------------------------ MODULE Shutdown ------------------------------
(***************************************************************************)
(* The graceful shutdown of dynamod-svmgr                                  *)
(* (rust/dynamod-svmgr/src/shutdown.rs): Kahn's algorithm over the         *)
(* dependency graph, reversed, and then every service stopped in that      *)
(* order, one at a time, with its stop command, its stop signal, a timeout *)
(* and SIGKILL.  Nothing is supervised any more: the only exits svmgr      *)
(* looks at are those of the service it is stopping.                       *)
(*                                                                         *)
(* Timeouts expire at any moment after they are armed.  A worker has at    *)
(* most one process here; what it looks like to svmgr is the pid field,    *)
(* what it is in the kernel is proc.                                       *)
(***************************************************************************)
EXTENDS DependencyGraph, Sequences, Functions

CONSTANTS
  Added,        \* workers a reload added to the tree, not to the graph
  has_stop_exec,\* services with a stop-exec command
  Unkillable    \* services that may outlive SIGKILL by the 3 seconds allowed

Workers == Services \cup Added

ASSUME ShutdownAssumption ==
  /\ Added \cap Names = {}
  /\ has_stop_exec \subseteq Workers /\ Unkillable \subseteq Workers

VARIABLES
  graph,          \* the dependency graph built at startup
  in_degree,      \* forward_in_degree
  queue, visited, forward_order,    \* of Kahn's algorithm
  stop_order,     \* the services still to be stopped, in order
  step,           \* where execute_shutdown is
  pid,            \* the workers whose pid field is set
  proc,           \* per worker: "none", "alive" or "zombie"
  sent            \* history: the signals sent to each worker's process

order_vars == <<in_degree, queue, visited, forward_order>>
shutdown_vars == <<graph, in_degree, queue, visited, forward_order, stop_order, step,
          pid, proc, sent>>

Name == Head(stop_order)

(* The ways to iterate over a hash set, and Vec::reverse. *)
Orders(S) == {q \in [1..Cardinality(S) -> S] : Range(q) = S}
reverse(q) == [i \in 1..Len(q) |-> q[Len(q) - i + 1]]

-----------------------------------------------------------------------------
ShutdownInit ==
  /\ graph \in {g \in {build(defs) : defs \in Defs} : Acyclic(g)}
  /\ in_degree = [s \in Services |-> Cardinality(graph.hard_deps[s])]
  /\ queue \in Orders({s \in Services : graph.hard_deps[s] = {}})
  /\ visited = {} /\ forward_order = <<>> /\ stop_order = <<>>
  /\ step = "order"
  /\ proc \in [Workers -> {"none", "alive", "zombie"}]
  /\ pid = {w \in Workers : proc[w] # "none"}
  /\ sent = [w \in Workers |-> {}]

(* A service exits, by itself or because it was told to. *)
Exit(w) ==
  /\ proc[w] = "alive"
  /\ proc' = [proc EXCEPT ![w] = "zombie"]
  /\ UNCHANGED <<graph, order_vars, stop_order, step, pid, sent>>

-----------------------------------------------------------------------------
(***************************************************************************)
(* One round of Kahn's algorithm for a service not visited before.  Each   *)
(* dependent of svc is decremented, saturating; those that reach 0 are     *)
(* queued, in the order of a hash set.                                     *)
(***************************************************************************)
Freed(svc) ==
  {t \in graph.reverse_deps[svc] \ (visited \cup {svc}) : in_degree[t] <= 1}

VisitNew(svc) ==
  /\ visited' = visited \cup {svc}
  /\ forward_order' = Append(forward_order, svc)
  /\ in_degree' = [t \in Services |->
                      IF t \in graph.reverse_deps[svc] /\ in_degree[t] > 0
                      THEN in_degree[t] - 1 ELSE in_degree[t]]
  /\ \E more \in Orders(Freed(svc)) : queue' = Tail(queue) \o more

Visit ==
  /\ step = "order" /\ queue # <<>>
  /\ IF Head(queue) \in visited
     THEN queue' = Tail(queue) /\ UNCHANGED <<in_degree, visited, forward_order>>
     ELSE VisitNew(Head(queue))
  /\ UNCHANGED <<graph, stop_order, step, pid, proc, sent>>

ReverseForgotten ==    \* a mutant: the forward order is used for stopping
  /\ step = "order" /\ queue = <<>>
  /\ \E rest \in Orders(Services \ visited) :
       stop_order' = forward_order \o rest
  /\ step' = "next"
  /\ UNCHANGED <<graph, order_vars, pid, proc, sent>>

OrderSkipsIsolated ==    \* a mutant: services without any edge are not listed
  /\ step = "order" /\ queue = <<>>
  /\ stop_order' = reverse(SelectSeq(forward_order, LAMBDA s :
                       graph.hard_deps[s] \cup graph.reverse_deps[s] # {}))
  /\ step' = "next"
  /\ UNCHANGED <<graph, order_vars, pid, proc, sent>>

(* The services Kahn's algorithm did not reach, if any, come last, which   *)
(* after the reversal is first.                                            *)
compute_reverse_topo_order ==
  /\ step = "order" /\ queue = <<>>
  /\ \E rest \in Orders(Services \ visited) :
       stop_order' = reverse(forward_order \o rest)
  /\ step' = "next"
  /\ UNCHANGED <<graph, order_vars, pid, proc, sent>>

-----------------------------------------------------------------------------
(* stop_service_graceful returns at once for a worker without a pid. *)
NotRunning ==
  /\ step = "next" /\ stop_order # <<>> /\ Name \notin pid
  /\ stop_order' = Tail(stop_order)
  /\ UNCHANGED <<graph, order_vars, step, pid, proc, sent>>

RunStopExec ==
  /\ step = "next" /\ stop_order # <<>> /\ Name \in pid
  /\ step' = IF Name \in has_stop_exec THEN "stop_exec" ELSE "signal"
  /\ UNCHANGED <<graph, order_vars, stop_order, pid, proc, sent>>

(* Command::status returns; it waits for the command without a limit.      *)
(* Whether the command succeeded is only logged.                           *)
StopExecReturns ==
  /\ step = "stop_exec"
  /\ step' = "signal"
  /\ UNCHANGED <<graph, order_vars, stop_order, pid, proc, sent>>

SendStopSignal ==
  /\ step = "signal"
  /\ sent' = [sent EXCEPT ![Name] = @ \cup {"stop"}]
  /\ step' = "wait"
  /\ UNCHANGED <<graph, order_vars, stop_order, pid, proc>>

(* The first of waitpid's answers that ends a wait; finalize_stop. *)
finalize_stop ==
  /\ pid' = pid \ {Name}
  /\ stop_order' = Tail(stop_order)
  /\ step' = "next"

ReapStopped ==
  /\ step \in {"wait", "killed"} /\ proc[Name] = "zombie"
  /\ proc' = [proc EXCEPT ![Name] = "none"]
  /\ finalize_stop
  /\ UNCHANGED <<graph, order_vars, sent>>

TimeoutAsksAgain ==    \* a mutant: the stop signal is sent once more
  /\ step = "wait" /\ proc[Name] = "alive"
  /\ sent' = [sent EXCEPT ![Name] = @ \cup {"stop"}]
  /\ UNCHANGED <<graph, order_vars, stop_order, step, pid, proc>>

StopTimeout ==
  /\ step = "wait" /\ proc[Name] = "alive"
  /\ sent' = [sent EXCEPT ![Name] = @ \cup {"SIGKILL"}]
  /\ step' = "killed"
  /\ UNCHANGED <<graph, order_vars, stop_order, pid, proc>>

(* 3 seconds after SIGKILL: the service is finalized all the same. *)
KillTimeout ==
  /\ step = "killed" /\ proc[Name] = "alive" /\ Name \in Unkillable
  /\ finalize_stop
  /\ UNCHANGED <<graph, order_vars, proc, sent>>

reap_remaining ==
  /\ step = "next" /\ stop_order = <<>>
  /\ proc' = [w \in Workers |-> IF proc[w] = "zombie" THEN "none" ELSE proc[w]]
  /\ step' = "done"
  /\ UNCHANGED <<graph, order_vars, stop_order, pid, sent>>

Svmgr ==
  \/ Visit \/ compute_reverse_topo_order
  \/ NotRunning \/ RunStopExec \/ SendStopSignal
  \/ ReapStopped \/ StopTimeout \/ KillTimeout \/ reap_remaining

ShutdownNext == Svmgr \/ StopExecReturns \/ \E w \in Workers : Exit(w)

(***************************************************************************)
(* svmgr keeps running and its timeouts expire; a process that was sent    *)
(* SIGKILL dies, unless it is one of the Unkillable.  Nothing is assumed   *)
(* of stop commands and of services that are only asked to stop.           *)
(***************************************************************************)
Dies(w) == "SIGKILL" \in sent[w] /\ w \notin Unkillable /\ Exit(w)

ShutdownSpec ==
  /\ ShutdownInit /\ [][ShutdownNext]_shutdown_vars
  /\ WF_shutdown_vars(Svmgr) /\ \A w \in Workers : WF_shutdown_vars(Dies(w))

-----------------------------------------------------------------------------
ShutdownTypeOK ==
  /\ graph \in Graph
  /\ in_degree \in [Services -> Nat]
  /\ queue \in Seq(Services) /\ visited \subseteq Services
  /\ forward_order \in Seq(Services) /\ stop_order \in Seq(Services)
  /\ step \in {"order", "next", "stop_exec", "signal", "wait", "killed", "done"}
  /\ pid \subseteq Workers
  /\ proc \in [Workers -> {"none", "alive", "zombie"}]
  /\ sent \in [Workers -> SUBSET {"stop", "SIGKILL"}]
  /\ step \in {"stop_exec", "signal", "wait", "killed"} => stop_order # <<>> /\ Name \in pid

(***************************************************************************)
(* While a service is asked to stop, everything ordered after it has been  *)
(* dealt with: it has no process, or one that outlived SIGKILL.            *)
(***************************************************************************)
Gone(w) == proc[w] # "alive" \/ (w \in Unkillable /\ "SIGKILL" \in sent[w])

DependentsStopFirst ==
  step \in {"stop_exec", "signal", "wait", "killed"} =>
    \A t \in Services : Name \in graph.hard_deps[t] => Gone(t)

(***************************************************************************)
(* Apart from the types: Kahn's algorithm puts every service of the graph  *)
(* into the order, and each only once, so that none is stopped twice; and  *)
(* at the end none of the graph is running, except what outlived SIGKILL,  *)
(* and none is left registered.                                            *)
(***************************************************************************)
NoneLeftOut ==
  /\ ShutdownTypeOK
  /\ \A i, j \in 1..Len(forward_order) :
       forward_order[i] = forward_order[j] => i = j
  /\ step # "order" => visited = Services
  /\ step = "done" => \A s \in Services : Gone(s) /\ s \notin pid

(***************************************************************************)
(* shutdown.rs:3-4: "respects per-service stop-signal and stop-timeout,    *)
(* escalates to SIGKILL after timeout": the shutdown comes to an end       *)
(* whatever the services do, unless a stop-exec command never returns,     *)
(* which the code waits for without a limit.                               *)
(***************************************************************************)
ShutdownCompletes == <>(step = "done") \/ <>[](step = "stop_exec")
=============================================================================

--------------------------- MODULE ShutdownProofs ---------------------------
(***************************************************************************)
(* The graceful shutdown stops dependents first and leaves nobody out:     *)
(* proofs about Shutdown for any acyclic set of definitions, any number of *)
(* services and any choice of those that have a stop command or outlive    *)
(* SIGKILL. And the power actions heed the inhibitors: proofs about        *)
(* PowerActions for any number of calls and inhibitors.                    *)
(***************************************************************************)
EXTENDS PowerActions, Shutdown, FiniteSetTheorems, SequenceTheorems, TLAPS

(***************************************************************************)
(* The inductive invariant.  Kahn's algorithm: in_degree counts the        *)
(* dependencies not visited yet, the queue and the visited services are    *)
(* together the ones all of whose dependencies have been visited, and in   *)
(* forward_order every service comes after its dependencies.  The reversed *)
(* order is then consumed from its head, so what is left of it is a prefix *)
(* of forward_order, backwards, and what it no longer holds is finalized.  *)
(***************************************************************************)
GraphInv == graph \in Graph /\ Consistent(graph) /\ Acyclic(graph)

Unvisited(s) == graph.hard_deps[s] \ visited

CountInv == \A s \in Services : in_degree[s] = Cardinality(Unvisited(s))

QueueInv ==
  \A s \in Services :
    s \in visited \cup Range(queue) <=> Unvisited(s) = {}

Earlier(s, t) ==
  \A j \in 1..Len(forward_order) : forward_order[j] = t =>
    \E i \in 1..(j - 1) : forward_order[i] = s

OrderInv ==
  /\ visited = Range(forward_order)
  /\ \A i, j \in 1..Len(forward_order) :
       forward_order[i] = forward_order[j] => i = j
  /\ \A t \in Services : \A s \in graph.hard_deps[t] : Earlier(s, t)

StopInv ==
  step # "order" =>
    /\ visited = Services
    /\ Len(stop_order) <= Len(forward_order)
    /\ \A i \in 1..Len(stop_order) :
         stop_order[i] = forward_order[Len(stop_order) - i + 1]
    /\ \A i \in (Len(stop_order) + 1)..Len(forward_order) : forward_order[i] \notin pid

GoneInv ==
  /\ \A w \in Workers \ pid : Gone(w)
  /\ step = "killed" => "SIGKILL" \in sent[Name]
  /\ step = "done" => stop_order = <<>>

ShutdownInv ==
  /\ ShutdownTypeOK /\ GraphInv /\ CountInv /\ QueueInv /\ OrderInv /\ StopInv /\ GoneInv

-----------------------------------------------------------------------------
(***************************************************************************)
(* The graph that build returns is well-formed and consistent, whatever    *)
(* the definitions say.                                                    *)
(***************************************************************************)
LEMMA BuildConsistent ==
  ASSUME NEW defs \in [Services -> ServiceDef]
  PROVE  build(defs) \in Graph /\ Consistent(build(defs))
BY DEF build, Graph, Consistent, DeclaredDeps, ServiceDef

(***************************************************************************)
(* The iteration over a hash set, in any order, gives each member once.    *)
(***************************************************************************)
LEMMA EachOnce ==
  ASSUME NEW T, NEW S \in SUBSET T, IsFiniteSet(S), NEW q \in Orders(S)
  PROVE  q \in Seq(T) /\ Range(q) = S
<1>1. Cardinality(S) \in Nat
  BY FS_CardinalityType
<1>2. q \in [1..Cardinality(S) -> S] /\ Range(q) = S
  BY DEF Orders
<1> QED
  BY <1>1, <1>2

(* The queue without its head. *)
LEMMA RangeOfTail ==
  ASSUME NEW T, NEW q \in Seq(T), q # <<>>
  PROVE  /\ Head(q) \in T /\ Tail(q) \in Seq(T)
         /\ Range(q) = {Head(q)} \cup Range(Tail(q))
<1>1. /\ Head(q) \in T /\ Tail(q) \in Seq(T) /\ Len(Tail(q)) = Len(q) - 1
      /\ \A i \in 1..Len(Tail(q)) : Tail(q)[i] = q[i + 1]
      /\ Head(q) = q[1] /\ Len(q) \in Nat \ {0}
  BY HeadTailProperties, EmptySeq
<1>2. /\ Range(q) = {q[i] : i \in 1..Len(q)}
      /\ Range(Tail(q)) = {Tail(q)[i] : i \in 1..Len(Tail(q))}
  <2>1. \A r \in Seq(T) : Range(r) = {r[i] : i \in 1..Len(r)}
    BY RangeEquality, Zenon
  <2> QED
    BY <1>1, <2>1, Zenon
<1>3. ASSUME NEW i \in 1..Len(q), i # 1
      PROVE  q[i] \in Range(Tail(q))
  <2>1. i - 1 \in 1..Len(Tail(q)) /\ Tail(q)[i - 1] = q[i]
    BY <1>1, <1>3
  <2> QED BY <1>2, <2>1, Zenon
<1>4. ASSUME NEW i \in 1..Len(Tail(q))
      PROVE  Tail(q)[i] \in Range(q)
  <2>1. i + 1 \in 1..Len(q) /\ Tail(q)[i] = q[i + 1]
    BY <1>1
  <2> QED BY <1>2, <2>1, Zenon
<1>5. q[1] \in Range(q)
  BY <1>1, <1>2
<1> QED
  BY <1>1, <1>2, <1>3, <1>4, <1>5, SMTT(30)

(* Removing one member of a finite set takes one from its size. *)
LEMMA OneLess ==
  ASSUME NEW S \in SUBSET Services, NEW x
  PROVE  /\ Cardinality(S) \in Nat
         /\ Cardinality(S \ {x}) = IF x \in S THEN Cardinality(S) - 1 ELSE Cardinality(S)
         /\ Cardinality(S) = 0 <=> S = {}
BY GraphAssumption, FS_Subset, FS_CardinalityType, FS_RemoveElement, FS_EmptySet, Zenon

-----------------------------------------------------------------------------
LEMMA ShutdownInitInv == ShutdownInit => ShutdownInv
<1> SUFFICES ASSUME ShutdownInit PROVE ShutdownInv
  BY Zenon
<1> DEFINE free == {s \in Services : graph.hard_deps[s] = {}}
<1>1. GraphInv
  BY BuildConsistent, DefsAssumption, Zenon DEF ShutdownInit, GraphInv
<1>2. queue \in Seq(Services) /\ Range(queue) = free
  <2>1. IsFiniteSet(free)
    BY GraphAssumption, FS_Subset, Zenon
  <2>2. queue \in Orders(free)
    BY Zenon DEF ShutdownInit
  <2> QED
    BY <2>1, <2>2, EachOnce, Zenon
<1>3. \A s \in Services : Unvisited(s) = graph.hard_deps[s] /\ Unvisited(s) \in SUBSET Services
  BY <1>1, Zenon DEF ShutdownInit, Unvisited, GraphInv, Graph
<1>4. CountInv /\ in_degree \in [Services -> Nat]
  BY <1>3, OneLess, Zenon DEF CountInv, ShutdownInit
<1>5. QueueInv
  BY <1>2, <1>3, Zenon DEF QueueInv, ShutdownInit
<1>6. OrderInv
  <2>1. forward_order = <<>> /\ Len(forward_order) = 0 /\ Range(forward_order) = {}
    BY DEF ShutdownInit, Range
  <2> QED
    BY <2>1 DEF OrderInv, Earlier, ShutdownInit
<1>7. StopInv /\ GoneInv
  BY Zenon DEF ShutdownInit, StopInv, GoneInv, Gone
<1>8. ShutdownTypeOK
  BY <1>1, <1>2, <1>4 DEF ShutdownTypeOK, ShutdownInit, GraphInv
<1> QED
  BY <1>1, <1>4, <1>5, <1>6, <1>7, <1>8, Zenon DEF ShutdownInv

(***************************************************************************)
(* One round of Kahn's algorithm for a new service: the queue is extended  *)
(* by exactly the services that waited for it alone.                       *)
(***************************************************************************)
LEMMA VisitNewKahn ==
  ASSUME ShutdownTypeOK, GraphInv, CountInv, QueueInv, OrderInv, UNCHANGED graph, queue # <<>>,
         Head(queue) \notin visited, VisitNew(Head(queue))
  PROVE  /\ in_degree' \in [Services -> Nat] /\ queue' \in Seq(Services)
         /\ visited' \subseteq Services /\ forward_order' \in Seq(Services)
         /\ CountInv' /\ QueueInv' /\ OrderInv'
<1> PICK svc : svc = Head(queue)
  BY Zenon
<1>1. /\ svc \in Services /\ svc \notin visited /\ Unvisited(svc) = {}
      /\ Tail(queue) \in Seq(Services)
      /\ Range(queue) = {svc} \cup Range(Tail(queue))
  <2>1. /\ svc \in Services /\ Tail(queue) \in Seq(Services)
        /\ Range(queue) = {svc} \cup Range(Tail(queue))
    BY RangeOfTail, Zenon DEF ShutdownTypeOK
  <2>2. svc \notin visited
    BY Zenon
  <2> QED
    BY <2>1, <2>2, Zenon DEF QueueInv
<1>2. graph \in Graph /\ visited \subseteq Services
  BY Zenon DEF ShutdownTypeOK
<1>3. \A t \in Services : t \in graph.reverse_deps[svc] <=> svc \in graph.hard_deps[t]
  BY <1>1, Zenon DEF GraphInv, Consistent
<1>4. svc \notin graph.hard_deps[svc]
  BY <1>1, Zenon DEF Unvisited
<1>5. visited' = visited \cup {svc} /\ Unvisited(svc)' = {}
      /\ \A t \in Services : Unvisited(t)' = Unvisited(t) \ {svc}
  BY <1>1, Zenon DEF VisitNew, Unvisited
<1>6. \A t \in Services : /\ Unvisited(t) \subseteq Services
                          /\ svc \in Unvisited(t) <=> t \in graph.reverse_deps[svc]
  BY <1>1, <1>2, <1>3, Zenon DEF Unvisited, Graph
<1>7. ASSUME NEW t \in Services
      PROVE  /\ in_degree[t] \in Nat
             /\ in_degree'[t] = Cardinality(Unvisited(t)')
             /\ in_degree'[t] \in Nat
             /\ t \in graph.reverse_deps[svc] => (in_degree[t] <= 1 <=> Unvisited(t)' = {})
  <2>1. /\ in_degree[t] = Cardinality(Unvisited(t)) /\ in_degree[t] \in Nat
        /\ Cardinality(Unvisited(t) \ {svc}) =
             IF svc \in Unvisited(t) THEN in_degree[t] - 1 ELSE in_degree[t]
        /\ in_degree[t] = 0 <=> Unvisited(t) = {}
    BY <1>6, OneLess, SMTT(30) DEF CountInv
  <2>2. in_degree'[t] = IF t \in graph.reverse_deps[svc] /\ in_degree[t] > 0
                        THEN in_degree[t] - 1 ELSE in_degree[t]
    BY Zenon DEF VisitNew
  <2>3. Cardinality(Unvisited(t) \ {svc}) = 0 <=> Unvisited(t) \ {svc} = {}
    BY <1>6, OneLess, Zenon
  <2>4. Unvisited(t)' = Unvisited(t) \ {svc}
    BY <1>5, Zenon
  <2>5. svc \in Unvisited(t) <=> t \in graph.reverse_deps[svc]
    BY <1>6, Zenon
  <2>6. svc \in Unvisited(t) => in_degree[t] > 0
    BY <2>1, SMTT(30)
  <2>7. in_degree'[t] = Cardinality(Unvisited(t) \ {svc}) /\ in_degree'[t] \in Nat
    BY <2>1, <2>2, <2>5, <2>6, SMTT(30)
  <2>8. t \in graph.reverse_deps[svc] =>
          (in_degree[t] <= 1 <=> Cardinality(Unvisited(t) \ {svc}) = 0)
    BY <2>1, <2>5, <2>6
  <2> QED
    BY <2>1, <2>3, <2>4, <2>7, <2>8, ZenonT(30)
<1>8. in_degree' \in [Services -> Nat] /\ CountInv'
  <2>1. in_degree' = [t \in Services |-> in_degree'[t]]
    BY DEF VisitNew
  <2> QED
    BY <1>7, <2>1, Zenon DEF CountInv
<1>9. Freed(svc) = {t \in Services : t \notin visited' /\ svc \in graph.hard_deps[t] /\ Unvisited(t)' = {}}
  BY <1>1, <1>2, <1>3, <1>5, <1>7, Zenon DEF Freed, Graph
<1>10. PICK more \in Orders(Freed(svc)) : queue' = Tail(queue) \o more
  BY Zenon DEF VisitNew
<1>11. more \in Seq(Services) /\ Range(more) = Freed(svc)
  BY <1>9, <1>10, EachOnce, FS_Subset, GraphAssumption, Zenon
<1>12. queue' \in Seq(Services) /\ Range(queue') = Range(Tail(queue)) \cup Freed(svc)
  <2>1. Tail(queue) \o more \in Seq(Services)
    BY <1>1, <1>11, SMTT(30)
  <2>2. \A q \in Seq(Services) : Range(q \o more) = Range(q) \cup Range(more)
    BY <1>11, RangeConcatenation, SMTT(30)
  <2> QED
    BY <1>1, <1>10, <1>11, <2>1, <2>2, Zenon
<1>13. QueueInv'
  <2> SUFFICES ASSUME NEW t \in Services
               PROVE  t \in visited' \cup Range(queue') <=> Unvisited(t)' = {}
    BY Zenon DEF QueueInv
  <2>1. t \in visited \cup Range(queue) <=> Unvisited(t) = {}
    BY DEF QueueInv
  <2>2. svc \in graph.hard_deps[t] <=> svc \in Unvisited(t)
    BY <1>1, ZenonT(30) DEF Unvisited
  <2> QED
    BY <1>1, <1>5, <1>9, <1>12, <2>1, <2>2, SMTT(30)
<1>14. /\ forward_order' = Append(forward_order, svc)
       /\ forward_order' \in Seq(Services) /\ Len(forward_order') = Len(forward_order) + 1
       /\ \A i \in 1..Len(forward_order) : forward_order'[i] = forward_order[i]
       /\ forward_order'[Len(forward_order) + 1] = svc
       /\ Len(forward_order) \in Nat
  BY <1>1, AppendProperties DEF VisitNew, ShutdownTypeOK
<1>15. visited = {forward_order[i] : i \in 1..Len(forward_order)}
  BY RangeEquality, Zenon DEF ShutdownTypeOK, OrderInv
<1>16. visited' = Range(forward_order')
  <2>1. Range(forward_order') = {forward_order'[i] : i \in 1..(Len(forward_order) + 1)}
    <3>1. \A q \in Seq(Services) : Range(q) = {q[i] : i \in 1..Len(q)}
      BY RangeEquality, Zenon
    <3> QED
      BY <1>14, <3>1, Zenon
  <2>2. 1..(Len(forward_order) + 1) = 1..Len(forward_order) \cup {Len(forward_order) + 1}
    BY <1>14, SMTT(30)
  <2> QED
    BY <1>5, <1>14, <1>15, <2>1, <2>2, SMTT(30)
<1>17. ASSUME NEW i \in 1..Len(forward_order'), NEW j \in 1..Len(forward_order'),
              forward_order'[i] = forward_order'[j]
       PROVE  i = j
  BY <1>1, <1>14, <1>15, <1>17, SMTT(30) DEF OrderInv
<1>18. ASSUME NEW t \in Services, NEW s \in graph.hard_deps[t]
       PROVE  Earlier(s, t)'
  <2> SUFFICES ASSUME NEW j \in 1..Len(forward_order'), forward_order'[j] = t
               PROVE  \E i \in 1..(j - 1) : forward_order'[i] = s
    BY Zenon DEF Earlier
  <2>1. CASE j = Len(forward_order) + 1
    <3>1. t = svc /\ s \in visited
      BY <1>1, <1>14, <2>1, Zenon DEF Unvisited
    <3> QED
      BY <1>14, <1>15, <2>1, <3>1, SMTT(30)
  <2>2. CASE j \in 1..Len(forward_order)
    <3>1. PICK i \in 1..(j - 1) : forward_order[i] = s
      BY <1>14, <2>2 DEF OrderInv, Earlier
    <3> QED
      BY <1>14, <2>2, <3>1, SMTT(30)
  <2> QED
    BY <1>14, <2>1, <2>2, SMTT(30)
<1>19. OrderInv'
  BY <1>16, <1>17, <1>18, Zenon DEF OrderInv
<1> QED
  BY <1>5, <1>1, <1>2, <1>8, <1>12, <1>13, <1>14, <1>19, Zenon

(* A round that finds its service visited leaves the order alone. *)
LEMMA OrderUntouched ==
  ASSUME OrderInv, UNCHANGED <<graph, visited, forward_order>>
  PROVE  OrderInv'
<1>1. \A s, t : Earlier(s, t) <=> Earlier(s, t)'
  BY DEF Earlier
<1> QED
  BY <1>1, Zenon DEF OrderInv

LEMMA VisitIInv == ASSUME ShutdownInv, Visit PROVE ShutdownInv'
<1> USE DEF ShutdownInv
<1>1. /\ in_degree' \in [Services -> Nat] /\ queue' \in Seq(Services)
      /\ visited' \subseteq Services /\ forward_order' \in Seq(Services)
      /\ CountInv' /\ QueueInv' /\ OrderInv'
  <2>1. CASE Head(queue) \notin visited
    BY <2>1, VisitNewKahn, Zenon DEF Visit
  <2>2. CASE Head(queue) \in visited
    <3>1. /\ queue # <<>> /\ queue' = Tail(queue)
          /\ UNCHANGED <<graph, in_degree, visited, forward_order>>
      BY <2>2, Zenon DEF Visit
    <3>2. /\ Tail(queue) \in Seq(Services)
          /\ Range(queue) = {Head(queue)} \cup Range(Tail(queue))
      BY <3>1, RangeOfTail, Zenon DEF ShutdownTypeOK
    <3>3. CountInv' /\ OrderInv'
      BY <3>1, OrderUntouched, Zenon DEF CountInv, Unvisited
    <3>4. QueueInv'
      BY <2>2, <3>1, <3>2, Zenon DEF QueueInv, Unvisited
    <3> QED
      BY <3>1, <3>2, <3>3, <3>4, Zenon DEF ShutdownTypeOK
  <2> QED
    BY <2>1, <2>2, Zenon
<1>2. /\ UNCHANGED <<graph, stop_order, step, pid, proc, sent>> /\ step = "order"
  BY DEF Visit
<1>3. ShutdownTypeOK' /\ GraphInv'
  BY <1>1, <1>2, Zenon DEF ShutdownTypeOK, GraphInv, Name
<1>4. StopInv' /\ GoneInv'
  BY <1>2, Zenon DEF StopInv, GoneInv, Gone, Name
<1> QED
  BY <1>1, <1>3, <1>4, Zenon

(***************************************************************************)
(* The queue of Kahn's algorithm runs empty only when every service has    *)
(* been visited: among the others, one would have no dependency left.      *)
(***************************************************************************)
LEMMA AllVisited ==
  ASSUME ShutdownTypeOK, GraphInv, QueueInv, queue = <<>>
  PROVE  visited = Services
<1> SUFFICES ASSUME Services \ visited # {} PROVE FALSE
  BY Zenon DEF ShutdownTypeOK
<1>1. PICK s \in Services \ visited : graph.hard_deps[s] \cap (Services \ visited) = {}
  BY Zenon DEF GraphInv, Acyclic
<1>2. Unvisited(s) = {}
  BY <1>1, Zenon DEF Unvisited, GraphInv, Graph
<1>3. Range(queue) = {}
  BY DEF Range
<1> QED
  BY <1>1, <1>2, <1>3, Zenon DEF QueueInv

LEMMA ReversalIInv == ASSUME ShutdownInv, compute_reverse_topo_order PROVE ShutdownInv'
<1> USE DEF ShutdownInv
<1>1. /\ UNCHANGED <<graph, in_degree, queue, visited, forward_order, pid, proc, sent>>
      /\ step' = "next" /\ step = "order"
  BY DEF compute_reverse_topo_order, order_vars
<1>2. visited = Services
  BY AllVisited DEF compute_reverse_topo_order
<1>3. PICK rest \in Orders({}) : stop_order' = reverse(forward_order \o rest)
  BY <1>2, Zenon DEF compute_reverse_topo_order
<1>4. stop_order' = reverse(forward_order)
  <2>1. rest \in Seq({})
    BY <1>3, EachOnce, FS_EmptySet, Zenon
  <2>2. rest = <<>>
    BY <2>1
  <2>3. forward_order \o <<>> = forward_order
    BY DEF ShutdownTypeOK
  <2> QED
    BY <1>3, <2>2, <2>3, Zenon
<1>5. /\ Len(forward_order) \in Nat
      /\ stop_order' = [i \in 1..Len(forward_order) |-> forward_order[Len(forward_order) - i + 1]]
  BY <1>4 DEF ShutdownTypeOK, reverse
<1>6. stop_order' \in Seq(Services) /\ Len(stop_order') = Len(forward_order)
  <2>1. \A i \in 1..Len(forward_order) : forward_order[Len(forward_order) - i + 1] \in Services
    BY <1>5, ElementOfSeq DEF ShutdownTypeOK
  <2> QED
    BY <1>5, <2>1
<1>7. ShutdownTypeOK' /\ GraphInv' /\ CountInv' /\ QueueInv' /\ OrderInv'
  <2>1. GraphInv' /\ CountInv' /\ QueueInv'
    <3>1. GraphInv'
      BY <1>1, Zenon DEF GraphInv
    <3>2. CountInv'
      BY <1>1, Zenon DEF CountInv, Unvisited
    <3>3. QueueInv'
      BY <1>1, Zenon DEF QueueInv, Unvisited
    <3> QED
      BY <3>1, <3>2, <3>3, Zenon
  <2>2. OrderInv'
    <3>1. \A s, t : Earlier(s, t)' = Earlier(s, t)
      BY <1>1, Zenon DEF Earlier
    <3>2. graph' = graph /\ visited' = visited /\ forward_order' = forward_order
      BY <1>1, Zenon
    <3> QED
      BY <3>1, <3>2, Zenon DEF OrderInv
  <2>3. ShutdownTypeOK'
    BY <1>1, <1>6, SMTT(30) DEF ShutdownTypeOK, Name
  <2> QED
    BY <2>1, <2>2, <2>3, Zenon
<1>8. StopInv'
  BY <1>1, <1>2, <1>5, <1>6, SMTT(30) DEF StopInv
<1>9. GoneInv'
  BY <1>1 DEF GoneInv, Gone
<1> QED
  BY <1>7, <1>8, <1>9, Zenon

-----------------------------------------------------------------------------
(* Kahn's part of the invariant does not look at what is being stopped. *)
LEMMA KahnUntouched ==
  ASSUME ShutdownInv, UNCHANGED <<graph, order_vars>>
  PROVE  GraphInv' /\ CountInv' /\ QueueInv' /\ OrderInv'
<1>1. UNCHANGED <<graph, in_degree, queue, visited, forward_order>>
  BY Zenon DEF order_vars
<1>2. GraphInv'
  BY <1>1, Zenon DEF ShutdownInv, GraphInv
<1>3. CountInv' /\ QueueInv'
  BY <1>1, Zenon DEF ShutdownInv, CountInv, QueueInv, Unvisited
<1>4. OrderInv'
  BY <1>1, OrderUntouched, ZenonT(30) DEF ShutdownInv
<1> QED
  BY <1>2, <1>3, <1>4, SMTT(30)

(***************************************************************************)
(* The head of the order is dropped once its service has no pid, which is  *)
(* how NotRunning and finalize_stop both end.                              *)
(***************************************************************************)
LEMMA HeadIsFinalized ==
  ASSUME ShutdownInv, step # "order", stop_order # <<>>, stop_order' = Tail(stop_order),
         UNCHANGED <<visited, forward_order>>, pid' \subseteq pid \ {Name}
  PROVE  stop_order' \in Seq(Services) /\ StopInv'
<1> USE DEF ShutdownInv
<1>1. /\ stop_order \in Seq(Services) /\ forward_order \in Seq(Services)
      /\ Len(forward_order) \in Nat /\ Len(stop_order) \in Nat
  BY DEF ShutdownTypeOK
<1>2. /\ stop_order' \in Seq(Services) /\ Len(stop_order') = Len(stop_order) - 1
      /\ \A i \in 1..Len(stop_order') : stop_order'[i] = stop_order[i + 1]
      /\ Name = stop_order[1] /\ Len(stop_order) > 0
  BY <1>1, HeadTailProperties, SMTT(30) DEF Name
<1>3. /\ visited = Services /\ Len(stop_order) <= Len(forward_order)
      /\ \A i \in 1..Len(stop_order) :
           stop_order[i] = forward_order[Len(stop_order) - i + 1]
      /\ \A i \in (Len(stop_order) + 1)..Len(forward_order) : forward_order[i] \notin pid
  BY Zenon DEF StopInv
<1>4. \A i \in 1..Len(stop_order') : stop_order'[i] = forward_order[Len(stop_order') - i + 1]
  BY <1>1, <1>2, <1>3, SMTT(30)
<1>5. \A i \in (Len(stop_order') + 1)..Len(forward_order) : forward_order[i] \notin pid'
  BY <1>1, <1>2, <1>3
<1> QED
  BY <1>1, <1>2, <1>3, <1>4, <1>5, SMTT(30) DEF StopInv

(* Steps that leave the order alone, before or while it is carried out. *)
LEMMA StopUntouched ==
  ASSUME StopInv, UNCHANGED <<visited, forward_order, stop_order>>,
         pid' \subseteq pid, step = "order" <=> step' = "order"
  PROVE  StopInv'
BY Zenon DEF StopInv

(* Nothing that is gone comes back: no process is started any more. *)
LEMMA GoneStays ==
  ASSUME ShutdownTypeOK, NEW w \in Workers, Gone(w), proc'[w] # "alive" \/ proc'[w] = proc[w],
         sent[w] \subseteq sent'[w]
  PROVE  Gone(w)'
BY DEF Gone

LEMMA NotRunningIInv == ASSUME ShutdownInv, NotRunning PROVE ShutdownInv'
<1> USE DEF ShutdownInv
<1>1. GraphInv' /\ CountInv' /\ QueueInv' /\ OrderInv'
  BY KahnUntouched, Zenon DEF NotRunning
<1>2. stop_order' \in Seq(Services) /\ StopInv'
  BY HeadIsFinalized, Zenon DEF NotRunning, order_vars
<1>3. ShutdownTypeOK'
  BY <1>2, Zenon DEF NotRunning, ShutdownTypeOK, order_vars
<1>4. GoneInv'
  BY DEF NotRunning, GoneInv, Gone
<1> QED
  BY <1>1, <1>2, <1>3, <1>4, Zenon

(***************************************************************************)
(* The steps at one service that neither take it off the order nor touch   *)
(* its process: the stop command, the stop signal and SIGKILL.             *)
(***************************************************************************)
LEMMA AskingIInv ==
  ASSUME ShutdownInv, RunStopExec \/ StopExecReturns \/ SendStopSignal \/ StopTimeout
  PROVE  ShutdownInv'
<1> USE DEF ShutdownInv
<1>1. /\ UNCHANGED <<graph, order_vars, stop_order, pid, proc>>
      /\ step' \in {"stop_exec", "signal", "wait", "killed"}
      /\ step \in {"next", "stop_exec", "signal", "wait"}
      /\ stop_order # <<>> /\ Name \in pid
  BY Zenon DEF RunStopExec, StopExecReturns, SendStopSignal, StopTimeout, ShutdownTypeOK
<1>2. /\ sent' \in [Workers -> SUBSET {"stop", "SIGKILL"}]
      /\ \A w \in Workers : sent[w] \subseteq sent'[w]
      /\ step' = "killed" => "SIGKILL" \in sent'[Name]
  <2>1. Name \in Workers /\ sent \in [Workers -> SUBSET {"stop", "SIGKILL"}]
    BY <1>1, Zenon DEF ShutdownTypeOK
  <2>2. CASE UNCHANGED sent /\ step' # "killed"
    BY <2>1, <2>2, Zenon
  <2>3. CASE sent' = [sent EXCEPT ![Name] = @ \cup {"stop"}] /\ step' # "killed"
    BY <2>1, <2>3, Zenon
  <2>4. CASE sent' = [sent EXCEPT ![Name] = @ \cup {"SIGKILL"}]
    BY <2>1, <2>4, Zenon
  <2> QED
    BY <2>2, <2>3, <2>4, Zenon DEF RunStopExec, StopExecReturns, SendStopSignal, StopTimeout
<1>3. GraphInv' /\ CountInv' /\ QueueInv' /\ OrderInv'
  BY <1>1, KahnUntouched, Zenon
<1>4. ShutdownTypeOK'
  BY <1>1, <1>2, Zenon DEF ShutdownTypeOK, order_vars, Name
<1>5. StopInv'
  BY <1>1, StopUntouched, Zenon DEF order_vars
<1>6. GoneInv'
  BY <1>1, <1>2, GoneStays, Zenon DEF GoneInv, Name
<1> QED
  BY <1>3, <1>4, <1>5, <1>6, Zenon

(***************************************************************************)
(* finalize_stop: the service was reaped, or it outlived SIGKILL.          *)
(***************************************************************************)
LEMMA FinalizeIInv == ASSUME ShutdownInv, ReapStopped \/ KillTimeout PROVE ShutdownInv'
<1> USE DEF ShutdownInv
<1>1. PICK w : w = Name
  BY Zenon
<1>2. /\ step \in {"wait", "killed"} /\ stop_order # <<>> /\ w \in pid /\ w \in Workers
      /\ UNCHANGED <<graph, order_vars, sent>> /\ stop_order' = Tail(stop_order)
      /\ pid' = pid \ {w} /\ step' = "next"
  BY <1>1, Zenon DEF ReapStopped, KillTimeout, finalize_stop, ShutdownTypeOK
<1>3. /\ proc' \in [Workers -> {"none", "alive", "zombie"}]
      /\ \A u \in Workers : proc'[u] # "alive" \/ proc'[u] = proc[u]
  BY <1>1, <1>2, Zenon DEF ReapStopped, KillTimeout, ShutdownTypeOK
<1>4. GraphInv' /\ CountInv' /\ QueueInv' /\ OrderInv'
  BY <1>2, KahnUntouched, Zenon
<1>5. stop_order' \in Seq(Services) /\ StopInv'
  BY <1>1, <1>2, HeadIsFinalized, Zenon DEF order_vars
<1>6. ShutdownTypeOK'
  BY <1>2, <1>3, <1>5, Zenon DEF ShutdownTypeOK, order_vars
<1>7. Gone(w)'
  BY <1>1, <1>2, Zenon DEF ReapStopped, KillTimeout, Gone, GoneInv, ShutdownTypeOK
<1>8. GoneInv'
  BY <1>2, <1>3, <1>7, GoneStays, Zenon DEF GoneInv
<1> QED
  BY <1>4, <1>5, <1>6, <1>8, Zenon

LEMMA ReapRemainingIInv == ASSUME ShutdownInv, reap_remaining PROVE ShutdownInv'
<1> USE DEF ShutdownInv
<1>1. /\ UNCHANGED <<graph, order_vars, stop_order, pid, sent>>
      /\ step = "next" /\ step' = "done" /\ stop_order = <<>>
  BY Zenon DEF reap_remaining
<1>2. /\ proc' \in [Workers -> {"none", "alive", "zombie"}]
      /\ \A w \in Workers : proc'[w] # "alive" \/ proc'[w] = proc[w]
  BY DEF reap_remaining, ShutdownTypeOK
<1>3. GraphInv' /\ CountInv' /\ QueueInv' /\ OrderInv'
  BY <1>1, KahnUntouched, Zenon
<1>4. StopInv'
  BY <1>1, StopUntouched, Zenon DEF order_vars
<1>5. ShutdownTypeOK'
  BY <1>1, <1>2, Zenon DEF ShutdownTypeOK, order_vars
<1>6. GoneInv'
  BY <1>1, <1>2, GoneStays, Zenon DEF GoneInv
<1> QED
  BY <1>3, <1>4, <1>5, <1>6, Zenon

LEMMA ExitIInv == ASSUME ShutdownInv, NEW w \in Workers, Exit(w) PROVE ShutdownInv'
<1> USE DEF ShutdownInv
<1>1. UNCHANGED <<graph, order_vars, stop_order, step, pid, sent>>
  BY Zenon DEF Exit
<1>2. /\ proc' \in [Workers -> {"none", "alive", "zombie"}]
      /\ \A u \in Workers : proc'[u] # "alive" \/ proc'[u] = proc[u]
  BY DEF Exit, ShutdownTypeOK
<1>3. GraphInv' /\ CountInv' /\ QueueInv' /\ OrderInv'
  BY <1>1, KahnUntouched, Zenon
<1>4. StopInv'
  BY <1>1, StopUntouched, Zenon DEF order_vars
<1>5. ShutdownTypeOK'
  BY <1>1, <1>2, Zenon DEF ShutdownTypeOK, order_vars, Name
<1>6. GoneInv'
  BY <1>1, <1>2, GoneStays, Zenon DEF GoneInv, Name
<1> QED
  BY <1>3, <1>4, <1>5, <1>6, Zenon

LEMMA NextIInv == ShutdownInv /\ [ShutdownNext]_shutdown_vars => ShutdownInv'
<1> SUFFICES ASSUME ShutdownInv, [ShutdownNext]_shutdown_vars PROVE ShutdownInv'
  BY Zenon
<1>1. CASE Visit
  BY <1>1, VisitIInv, Zenon
<1>2. CASE compute_reverse_topo_order
  BY <1>2, ReversalIInv, Zenon
<1>3. CASE NotRunning
  BY <1>3, NotRunningIInv
<1>4. CASE RunStopExec \/ StopExecReturns \/ SendStopSignal \/ StopTimeout
  BY <1>4, AskingIInv, Zenon
<1>5. CASE ReapStopped \/ KillTimeout
  BY <1>5, FinalizeIInv, Zenon
<1>6. CASE reap_remaining
  BY <1>6, ReapRemainingIInv
<1>7. CASE \E w \in Workers : Exit(w)
  BY <1>7, ExitIInv, Zenon
<1>8. CASE UNCHANGED shutdown_vars
  <2>1. UNCHANGED <<graph, order_vars, stop_order, step, pid, proc, sent>>
    BY <1>8, Zenon DEF shutdown_vars, order_vars
  <2>2. GraphInv' /\ CountInv' /\ QueueInv' /\ OrderInv'
    BY <2>1, KahnUntouched, Zenon
  <2>3. ShutdownTypeOK' /\ StopInv' /\ GoneInv'
    BY <2>1, Zenon DEF ShutdownInv, ShutdownTypeOK, StopInv, GoneInv, Gone, Name, order_vars
  <2> QED
    BY <2>2, <2>3, Zenon DEF ShutdownInv
<1> QED
  BY <1>1, <1>2, <1>3, <1>4, <1>5, <1>6, <1>7, <1>8, Zenon DEF ShutdownNext, Svmgr

(* The inductive invariant holds in every reachable state. *)
THEOREM ShutdownInvariance == ShutdownSpec => []ShutdownInv
BY ShutdownInitInv, NextIInv, PTL DEF ShutdownSpec

-----------------------------------------------------------------------------
(* A visited service has a place in the order. *)
LEMMA Position ==
  ASSUME ShutdownTypeOK, OrderInv, NEW s \in visited
  PROVE  \E j \in 1..Len(forward_order) : forward_order[j] = s
<1>1. forward_order \in Seq(Services) /\ s \in Range(forward_order)
  BY Zenon DEF ShutdownTypeOK, OrderInv
<1>2. DOMAIN forward_order = 1..Len(forward_order)
  BY <1>1
<1> QED
  BY <1>1, <1>2, Zenon DEF Range

(***************************************************************************)
(* While a service is being stopped, every service ordered after it has no *)
(* running process any more, except one that outlived SIGKILL              *)
(* (compute_reverse_topo_order and execute_shutdown), for every acyclic    *)
(* graph.                                                                  *)
(***************************************************************************)
THEOREM StopsDependentsFirst == ShutdownSpec => []DependentsStopFirst
<1>1. ShutdownInv => DependentsStopFirst
  <2> SUFFICES ASSUME ShutdownInv, step \in {"stop_exec", "signal", "wait", "killed"},
                      NEW t \in Services, Name \in graph.hard_deps[t]
               PROVE  Gone(t)
    BY Zenon DEF DependentsStopFirst
  <2> USE DEF ShutdownInv
  <2>1. /\ stop_order \in Seq(Services) /\ forward_order \in Seq(Services)
        /\ stop_order # <<>> /\ Len(stop_order) \in Nat /\ Len(stop_order) > 0
        /\ Len(forward_order) \in Nat
    BY DEF ShutdownTypeOK
  <2>2. /\ visited = Services /\ Len(stop_order) <= Len(forward_order)
        /\ Name = forward_order[Len(stop_order)]
    BY <2>1 DEF StopInv, Name
  <2>3. PICK j \in 1..Len(forward_order) : forward_order[j] = t
    BY <2>2, Position, Zenon
  <2>4. PICK i \in 1..(j - 1) : forward_order[i] = Name
    BY <2>3, Zenon DEF OrderInv, Earlier
  <2>5. i = Len(stop_order)
    BY <2>1, <2>2, <2>3, <2>4, SMTT(30) DEF OrderInv
  <2>6. t \notin pid
    BY <2>1, <2>2, <2>3, <2>4, <2>5, SMTT(30) DEF StopInv
  <2> QED
    BY <2>6, Zenon DEF GoneInv, Workers
<1> QED
  BY ShutdownInvariance, <1>1, PTL

(***************************************************************************)
(* Kahn's algorithm puts every service of the graph into the order and     *)
(* each only once; and when the shutdown is done, every service is off the *)
(* books and not running, except what outlived SIGKILL.                    *)
(***************************************************************************)
THEOREM StopsEveryService == ShutdownSpec => []NoneLeftOut
<1>1. ShutdownInv => NoneLeftOut
  <2> SUFFICES ASSUME ShutdownInv PROVE NoneLeftOut
    BY Zenon
  <2> USE DEF ShutdownInv
  <2>1. ASSUME step = "done", NEW s \in Services
        PROVE  Gone(s) /\ s \notin pid
    <3>1. /\ forward_order \in Seq(Services) /\ Len(stop_order) = 0 /\ visited = Services
      BY <2>1, Zenon DEF ShutdownTypeOK, GoneInv, StopInv
    <3>2. PICK j \in 1..Len(forward_order) : forward_order[j] = s
      BY <3>1, Position, Zenon
    <3>3. s \notin pid
      BY <2>1, <3>1, <3>2, SMTT(30) DEF StopInv
    <3> QED
      BY <3>3, Zenon DEF GoneInv, Workers
  <2> QED
    BY <2>1, Zenon DEF NoneLeftOut, OrderInv, StopInv
<1> QED
  BY ShutdownInvariance, <1>1, PTL

-----------------------------------------------------------------------------
(* The power actions: the locks and the calls of PowerActions. *)
Lock == [what : SUBSET Kinds, mode : {"block", "delay"}]
Call == [kind : Kinds, source : Sources, late : BOOLEAN,
         pc : {"idle", "queued", "prepare", "wait", "act", "resume", "done"}]

(* Whoever holds a pipe open is in the table (inhibitor.rs). *)
HeldAreListed ==
  /\ DOMAIN inhibitors \subseteq InhibitorIds /\ open \subseteq DOMAIN inhibitors
  /\ \A i \in DOMAIN inhibitors : inhibitors[i] \in Lock

(* The ACPI channel holds each queued call once. *)
QueuedOnce ==
  /\ rx \in Seq(Calls)
  /\ \A c \in Calls : At(c, "queued") <=> \E i \in DOMAIN rx : rx[i] = c
  /\ \A i, j \in DOMAIN rx : rx[i] = rx[j] => i = j

(* An announcement is made by a call that has got that far. *)
AnnouncedOnce ==
  /\ emitting \subseteq Announcement /\ announced \subseteq Announcement
  /\ emitting \cap announced = {}
  /\ \A c \in Calls :
       /\ [by |-> c, on |-> TRUE] \in emitting \cup announced
            => call[c].pc \in {"wait", "act", "resume", "done"}
       /\ [by |-> c, on |-> FALSE] \in emitting \cup announced => call[c].pc = "done"

(* The inductive invariant. *)
PowerInv ==
  /\ call \in [Calls -> Call]
  /\ HeldAreListed /\ QueuedOnce /\ AnnouncedOnce

-----------------------------------------------------------------------------
LEMMA PowerInitInv == PowerInit => PowerInv
<1> SUFFICES ASSUME PowerInit PROVE PowerInv
  OBVIOUS
<1>1. call \in [Calls -> Call]
  BY PowerAssumption, Zenon DEF PowerInit, Call, Sources
<1>2. HeldAreListed
  BY DEF PowerInit, HeldAreListed
<1>3. QueuedOnce
  BY DEF PowerInit, QueuedOnce, At
<1>4. AnnouncedOnce
  BY DEF PowerInit, AnnouncedOnce
<1> QED
  BY <1>1, <1>2, <1>3, <1>4, Zenon DEF PowerInv

LEMMA SameQueue ==
  ASSUME QueuedOnce, rx' = rx, \A c \in Calls : At(c, "queued")' <=> At(c, "queued")
  PROVE  QueuedOnce'
BY Zenon DEF QueuedOnce

LEMMA SameAnnouncements ==
  ASSUME AnnouncedOnce, emitting' = emitting, announced' = announced,
         NEW c \in Calls, call' = [call EXCEPT ![c] = call'[c]], call \in [Calls -> Call],
         call[c].pc \in {"wait", "act", "resume", "done"}
            => call'[c].pc \in {"wait", "act", "resume", "done"},
         call[c].pc = "done" => call'[c].pc = "done"
  PROVE  AnnouncedOnce'
BY Zenon DEF AnnouncedOnce

(* retain keeps every lock whose pipe is open. *)
LEMMA RetainKeeps ==
  ASSUME HeldAreListed, inhibitors' = Retained, open' = open
  PROVE  HeldAreListed'
BY Zenon DEF HeldAreListed, Retained, Restrict, is_released

LEMMA GotoIs ==
  ASSUME call \in [Calls -> Call], NEW c \in Calls,
         NEW pc \in {"idle", "queued", "prepare", "wait", "act", "resume", "done"},
         call' = Goto(c, pc)
  PROVE  /\ call' \in [Calls -> Call] /\ call'[c].pc = pc
         /\ call' = [call EXCEPT ![c] = call'[c]]
         /\ \A d \in Calls \ {c} : call'[d] = call[d]
BY ZenonT(30) DEF Goto, Call

LEMMA AnnouncesOne ==
  ASSUME AnnouncedOnce, call \in [Calls -> Call], NEW c \in Calls, NEW on \in BOOLEAN,
         emitting' = emitting \cup {[by |-> c, on |-> on]}, announced' = announced,
         \A d \in Calls \ {c} : call'[d] = call[d],
         \/ on = TRUE /\ call[c].pc = "prepare" /\ call'[c].pc = "wait"
         \/ on = FALSE /\ call[c].pc = "resume" /\ call'[c].pc = "done"
  PROVE  AnnouncedOnce'
<1> DEFINE a == [by |-> c, on |-> on]
<1>1. a \in Announcement
  BY Zenon DEF Announcement
<1>2. a \notin emitting \cup announced
  BY Zenon DEF AnnouncedOnce
<1>3. \A d \in Calls, b \in BOOLEAN :
        [by |-> d, on |-> b] \in emitting' \cup announced'
          => [by |-> d, on |-> b] \in emitting \cup announced \/ (d = c /\ b = on)
  <2> SUFFICES ASSUME NEW d \in Calls, NEW b \in BOOLEAN, [by |-> d, on |-> b] = a
               PROVE  d = c /\ b = on
    BY Zenon
  <2> QED
    OBVIOUS
<1>4. emitting' \subseteq Announcement /\ announced' \subseteq Announcement /\ emitting' \cap announced' = {}
  BY <1>1, <1>2, Zenon DEF AnnouncedOnce
<1>5. ASSUME NEW d \in Calls, [by |-> d, on |-> TRUE] \in emitting' \cup announced'
      PROVE  call'[d].pc \in {"wait", "act", "resume", "done"}
  <2>1. [by |-> d, on |-> TRUE] \in emitting \cup announced \/ (d = c /\ on = TRUE)
    BY <1>3, <1>5, Zenon
  <2> QED
    BY <2>1, Zenon DEF AnnouncedOnce
<1>6. ASSUME NEW d \in Calls, [by |-> d, on |-> FALSE] \in emitting' \cup announced'
      PROVE  call'[d].pc = "done"
  <2>1. [by |-> d, on |-> FALSE] \in emitting \cup announced \/ (d = c /\ on = FALSE)
    BY <1>3, <1>6, Zenon
  <2> QED
    BY <2>1, Zenon DEF AnnouncedOnce
<1> QED
  BY <1>4, <1>5, <1>6, Zenon DEF AnnouncedOnce

LEMMA PowerKeeps ==
  ASSUME PowerInv, PowerNext
  PROVE  PowerInv'
<1> USE DEF PowerInv
<1>1. ASSUME NEW i \in InhibitorIds, inhibit(i) PROVE PowerInv'
  <2>1. HeldAreListed'
    BY <1>1, PowerAssumption DEF inhibit, HeldAreListed, Lock
  <2>2. QueuedOnce'
    BY <1>1, Zenon, SameQueue DEF inhibit, At
  <2> QED
    BY <1>1, <2>1, <2>2, ZenonT(30) DEF inhibit, AnnouncedOnce
<1>2. ASSUME NEW i \in InhibitorIds, ClientCloses(i) PROVE PowerInv'
  <2>1. HeldAreListed'
    BY <1>2, Zenon DEF ClientCloses, HeldAreListed
  <2>2. QueuedOnce'
    BY <1>2, Zenon, SameQueue DEF ClientCloses, At
  <2> QED
    BY <1>2, <2>1, <2>2, Zenon DEF ClientCloses, AnnouncedOnce
<1>3. ASSUME CollectGarbage PROVE PowerInv'
  <2>1. HeldAreListed'
    BY <1>3, RetainKeeps, Zenon DEF CollectGarbage
  <2>2. QueuedOnce'
    BY <1>3, Zenon, SameQueue DEF CollectGarbage, At
  <2> QED
    BY <1>3, <2>1, <2>2, Zenon DEF CollectGarbage, AnnouncedOnce
<1>4. ASSUME Emit PROVE PowerInv'
  <2>1. HeldAreListed'
    BY <1>4, Zenon DEF Emit, HeldAreListed
  <2>2. QueuedOnce'
    BY <1>4, Zenon, SameQueue DEF Emit, At
  <2>3. AnnouncedOnce'
    BY <1>4, Zenon DEF Emit, AnnouncedOnce
  <2> QED
    BY <1>4, <2>1, <2>2, <2>3, Zenon DEF Emit
<1>5. ASSUME NEW c \in Calls, Begin(c) PROVE PowerInv'
  <2> PICK kind \in Kinds, source \in Sources :
         /\ call' = [call EXCEPT ![c] = [kind |-> kind, source |-> source, late |-> FALSE,
                                         pc |-> IF source = "dbus" THEN "prepare" ELSE "queued"]]
         /\ rx' = IF source = "acpi" THEN Append(rx, c) ELSE rx
    BY <1>5, Zenon DEF Begin
  <2>1. call' \in [Calls -> Call]
    BY DEF Call, Sources
  <2>2. HeldAreListed'
    BY <1>5, Zenon DEF Begin, HeldAreListed
  <2>3. QueuedOnce'
    <3>1. CASE source = "dbus"
      <4>1. rx' = rx /\ \A d \in Calls : At(d, "queued")' <=> At(d, "queued")
        BY <3>1, <1>5, ZenonT(30) DEF At, Begin, Call
      <4> QED
        BY <4>1, SameQueue, Zenon
    <3>2. CASE source = "acpi"
      <4>1. rx' = Append(rx, c) /\ \A d \in Calls : At(d, "queued")' <=> At(d, "queued") \/ d = c
        BY <3>2, Zenon DEF At, Call
      <4>2. ~At(c, "queued")
        BY <1>5, Zenon DEF At, Begin
      <4>3. rx' \in Seq(Calls) /\ Len(rx') = Len(rx) + 1 /\ rx'[Len(rx')] = c
            /\ \A i \in DOMAIN rx : rx'[i] = rx[i] /\ i \in DOMAIN rx'
        BY <4>1, SMTT(30) DEF QueuedOnce
      <4>4. \A i \in DOMAIN rx' : i \in DOMAIN rx \/ i = Len(rx')
        BY <4>3 DEF QueuedOnce
      <4>5. \A i \in DOMAIN rx : rx[i] # c
        BY <4>2, ZenonT(30) DEF QueuedOnce
      <4>6. Len(rx') \in DOMAIN rx'
        BY <4>3 DEF QueuedOnce
      <4> QED
        BY <4>1, <4>3, <4>4, <4>5, <4>6, SMTT(30) DEF QueuedOnce
    <3> QED
      BY <3>1, <3>2, Zenon DEF Sources
  <2>4. AnnouncedOnce'
    BY <1>5, Zenon DEF Begin, At, AnnouncedOnce, Call
  <2> QED
    BY <2>1, <2>2, <2>3, <2>4, Zenon
<1>6. ASSUME NEW c \in Calls, has_block_inhibitor(c) PROVE PowerInv'
  <2>1. At(c, "queued") /\ rx # <<>> /\ Head(rx) = c /\ rx' = Tail(rx)
    <3>1. rx # <<>> /\ Head(rx) = c /\ rx' = Tail(rx)
      BY <1>6, Zenon DEF has_block_inhibitor, Receive
    <3>2. 1 \in DOMAIN rx /\ rx[1] = c
      BY <3>1 DEF QueuedOnce
    <3> QED
      BY <3>1, <3>2, Zenon DEF QueuedOnce
  <2>2. PICK pc \in {"done", "prepare"} : call' = Goto(c, pc)
    BY <1>6, Zenon DEF has_block_inhibitor
  <2>3. /\ call' \in [Calls -> Call] /\ call'[c].pc = pc
        /\ call' = [call EXCEPT ![c] = call'[c]]
        /\ \A d \in Calls \ {c} : call'[d] = call[d]
    BY <2>2, GotoIs, Zenon
  <2>4. HeldAreListed'
    BY <1>6, RetainKeeps, Zenon DEF has_block_inhibitor
  <2>5. QueuedOnce'
    <3>1. rx' \in Seq(Calls) /\ \A i \in DOMAIN rx' : i + 1 \in DOMAIN rx /\ rx'[i] = rx[i + 1] /\ i \in Nat
      BY <2>1 DEF QueuedOnce
    <3>2. \A i \in DOMAIN rx : i = 1 \/ (i \in Nat /\ i - 1 \in DOMAIN rx' /\ rx'[i - 1] = rx[i])
      BY <2>1 DEF QueuedOnce
    <3>3. \A d \in Calls : At(d, "queued")' <=> At(d, "queued") /\ d # c
      BY <2>3, Zenon DEF At
    <3>4. 1 \in DOMAIN rx /\ rx[1] = c
      BY <2>1, SMTT(30) DEF QueuedOnce
    <3>5. \A i, j \in DOMAIN rx' : rx'[i] = rx'[j] => i = j
      BY <3>1 DEF QueuedOnce
    <3>6. ASSUME NEW d \in Calls PROVE At(d, "queued")' <=> \E i \in DOMAIN rx' : rx'[i] = d
      <4>1. ASSUME At(d, "queued")' PROVE \E i \in DOMAIN rx' : rx'[i] = d
        <5>1. PICK i \in DOMAIN rx : rx[i] = d
          BY <4>1, <3>3, Zenon DEF QueuedOnce
        <5> QED
          BY <5>1, <4>1, <3>2, <3>3, <3>4, Zenon
      <4>2. ASSUME NEW i \in DOMAIN rx', rx'[i] = d PROVE At(d, "queued")'
        <5>1. i + 1 \in DOMAIN rx /\ rx[i + 1] = d /\ i + 1 # 1
          BY <4>2, <3>1 DEF QueuedOnce
        <5>2. d # c
          BY <5>1, <3>4, ZenonT(30) DEF QueuedOnce
        <5> QED
          BY <5>1, <5>2, <3>3, ZenonT(30) DEF QueuedOnce
      <4> QED
        BY <4>1, <4>2, ZenonT(30)
    <3> QED
      BY <3>1, <3>5, <3>6, Zenon DEF QueuedOnce
  <2>6. AnnouncedOnce'
    <3>1. emitting' = emitting /\ announced' = announced
      BY <1>6, Zenon DEF has_block_inhibitor
    <3> QED
      BY <3>1, <2>1, <2>3, SameAnnouncements, Zenon DEF At
  <2> QED
    BY <2>3, <2>4, <2>5, <2>6, Zenon
<1>7. ASSUME NEW c \in Calls, prepare(c) PROVE PowerInv'
  <2>1. call' = Goto(c, "wait") /\ At(c, "prepare")
    BY <1>7, Zenon DEF prepare
  <2>2. /\ call' \in [Calls -> Call] /\ call'[c].pc = "wait"
        /\ call' = [call EXCEPT ![c] = call'[c]]
        /\ \A d \in Calls \ {c} : call'[d] = call[d]
    BY <2>1, GotoIs, Zenon
  <2>3. HeldAreListed'
    BY <1>7, Zenon DEF prepare, HeldAreListed
  <2>4. \A d \in Calls : At(d, "queued")' <=> At(d, "queued")
    BY <2>1, <2>2, Zenon DEF At
  <2>5. QueuedOnce'
    BY <1>7, <2>4, SameQueue, Zenon DEF prepare
  <2>6. AnnouncedOnce'
    <3>1. emitting' = emitting \cup {[by |-> c, on |-> TRUE]} /\ announced' = announced /\ call[c].pc = "prepare"
      BY <1>7, Zenon DEF prepare, At
    <3> QED
      BY <3>1, <2>2, AnnouncesOne, Zenon
  <2> QED
    BY <2>2, <2>3, <2>5, <2>6, Zenon
<1>8. ASSUME NEW c \in Calls, Deadline(c) PROVE PowerInv'
  <2>1. /\ call' \in [Calls -> Call] /\ call'[c].pc = call[c].pc
        /\ call' = [call EXCEPT ![c] = call'[c]]
        /\ \A d \in Calls : call'[d].pc = call[d].pc
    BY <1>8, ZenonT(30) DEF Deadline, Call
  <2>2. HeldAreListed'
    BY <1>8, Zenon DEF Deadline, HeldAreListed
  <2>3. QueuedOnce'
    BY <1>8, <2>1, SameQueue, Zenon DEF Deadline, At
  <2>4. AnnouncedOnce'
    BY <1>8, <2>1, Zenon DEF Deadline, AnnouncedOnce
  <2> QED
    BY <2>1, <2>2, <2>3, <2>4, Zenon
<1>9. ASSUME NEW c \in Calls, wait_for_delay_inhibitors(c) PROVE PowerInv'
  <2>1. call' = Goto(c, "act") /\ At(c, "wait")
    BY <1>9, Zenon DEF wait_for_delay_inhibitors
  <2>2. /\ call' \in [Calls -> Call] /\ call'[c].pc = "act"
        /\ call' = [call EXCEPT ![c] = call'[c]]
        /\ \A d \in Calls \ {c} : call'[d] = call[d]
    BY <2>1, GotoIs, Zenon
  <2>3. HeldAreListed'
    BY <1>9, RetainKeeps, Zenon DEF wait_for_delay_inhibitors
  <2>4. \A d \in Calls : At(d, "queued")' <=> At(d, "queued")
    BY <2>1, <2>2, Zenon DEF At
  <2>5. QueuedOnce'
    BY <1>9, <2>4, SameQueue, Zenon DEF wait_for_delay_inhibitors
  <2>6. AnnouncedOnce'
    BY <1>9, <2>1, <2>2, SameAnnouncements, Zenon DEF wait_for_delay_inhibitors, At
  <2> QED
    BY <2>2, <2>3, <2>5, <2>6, Zenon
<1>10. ASSUME NEW c \in Calls, Act(c) PROVE PowerInv'
  <2>1. PICK pc \in {"resume", "done"} : call' = Goto(c, pc)
    BY <1>10, Zenon DEF Act
  <2>2. /\ call' \in [Calls -> Call] /\ call'[c].pc = pc
        /\ call' = [call EXCEPT ![c] = call'[c]]
        /\ \A d \in Calls \ {c} : call'[d] = call[d]
    BY <2>1, GotoIs, Zenon
  <2>3. HeldAreListed'
    BY <1>10, Zenon DEF Act, HeldAreListed
  <2>4. At(c, "act") /\ emitting' = emitting /\ announced' = announced /\ rx' = rx
    BY <1>10, Zenon DEF Act
  <2>5. \A d \in Calls : At(d, "queued")' <=> At(d, "queued")
    BY <2>2, <2>4, Zenon DEF At
  <2>6. QueuedOnce'
    BY <2>4, <2>5, SameQueue, Zenon
  <2>7. AnnouncedOnce'
    BY <2>2, <2>4, SameAnnouncements, Zenon DEF At
  <2> QED
    BY <2>2, <2>3, <2>6, <2>7, Zenon
<1>11. ASSUME NEW c \in Calls, resume(c) PROVE PowerInv'
  <2>1. call' = Goto(c, "done") /\ At(c, "resume")
    BY <1>11, Zenon DEF resume
  <2>2. /\ call' \in [Calls -> Call] /\ call'[c].pc = "done"
        /\ call' = [call EXCEPT ![c] = call'[c]]
        /\ \A d \in Calls \ {c} : call'[d] = call[d]
    BY <2>1, GotoIs, Zenon
  <2>3. HeldAreListed'
    BY <1>11, Zenon DEF resume, HeldAreListed
  <2>4. \A d \in Calls : At(d, "queued")' <=> At(d, "queued")
    BY <2>1, <2>2, Zenon DEF At
  <2>5. QueuedOnce'
    BY <1>11, <2>4, SameQueue, Zenon DEF resume
  <2>6. AnnouncedOnce'
    <3>1. emitting' = emitting \cup {[by |-> c, on |-> FALSE]} /\ announced' = announced /\ call[c].pc = "resume"
      BY <1>11, Zenon DEF resume, At
    <3> QED
      BY <3>1, <2>2, AnnouncesOne, Zenon
  <2> QED
    BY <2>2, <2>3, <2>5, <2>6, Zenon
<1> QED
  BY <1>1, <1>2, <1>3, <1>4, <1>5, <1>6, <1>7, <1>8, <1>9, <1>10, <1>11, Zenon
  DEF PowerNext, CallStep

LEMMA PowerStutter == PowerInv /\ UNCHANGED power_vars => PowerInv'
<1> SUFFICES ASSUME PowerInv, UNCHANGED power_vars PROVE PowerInv'
  OBVIOUS
<1>1. UNCHANGED <<inhibitors, open, call, rx, emitting, announced>>
  BY Zenon DEF power_vars
<1>2. call' \in [Calls -> Call] /\ HeldAreListed'
  BY <1>1, Zenon DEF PowerInv, HeldAreListed
<1>3. QueuedOnce'
  BY <1>1, Zenon DEF PowerInv, QueuedOnce, At
<1>4. AnnouncedOnce'
  BY <1>1, Zenon DEF PowerInv, AnnouncedOnce
<1> QED
  BY <1>2, <1>3, <1>4, Zenon DEF PowerInv

(***************************************************************************)
(* PowerInv is an invariant of the power actions (power.rs, inhibitor.rs). *)
(***************************************************************************)
THEOREM PowerInvariance == PowerSpec => []PowerInv
<1>1. PowerInv /\ [PowerNext]_power_vars => PowerInv'
  BY PowerKeeps, PowerStutter, Zenon
<1> QED
  BY <1>1, PowerInitInv, PTL DEF PowerSpec

-----------------------------------------------------------------------------
LEMMA TypeFollows == PowerInv => PowerTypeOK
<1> SUFFICES ASSUME PowerInv PROVE PowerTypeOK
  OBVIOUS
<1>1. Range(inhibitors) \subseteq [what : SUBSET Kinds, mode : {"block", "delay"}]
  BY Zenon DEF PowerInv, HeldAreListed, Range, Lock
<1>2. Range(rx) = {c \in Calls : At(c, "queued")}
  BY SMTT(30) DEF PowerInv, QueuedOnce, Range
<1> QED
  BY <1>1, <1>2, Zenon DEF PowerInv, PowerTypeOK, HeldAreListed, QueuedOnce, AnnouncedOnce, Call

LEMMA WaitEnds ==
  ASSUME PowerInv, PowerNext, NEW c \in Calls, At(c, "wait"), call'[c].pc = "act"
  PROVE  wait_for_delay_inhibitors(c)
<1>1. call' # call
  BY DEF At
<1>2. PICK d \in Calls : Begin(d) \/ CallStep(d)
  BY <1>1, Zenon DEF PowerNext, inhibit, ClientCloses, CollectGarbage, Emit
<1>3. d = c
  BY <1>2, Zenon DEF PowerInv, At, Goto, Begin, CallStep, has_block_inhibitor, prepare, Deadline,
       wait_for_delay_inhibitors, Act, resume
<1> QED
  BY <1>2, <1>3, SMTT(30) DEF PowerInv, At, Goto, Begin, CallStep, has_block_inhibitor, prepare, Deadline,
       Receive, QueuedOnce, Act, resume, Call

LEMMA DroppedWhenBlocked ==
  ASSUME PowerInv, PowerNext, NEW c \in Calls, At(c, "queued"), call'[c].pc = "done"
  PROVE  has_block_inhibitor(c)
<1>1. call' # call
  BY Zenon DEF At
<1>2. PICK d \in Calls : Begin(d) \/ CallStep(d)
  BY <1>1, Zenon DEF PowerNext, inhibit, ClientCloses, CollectGarbage, Emit
<1>3. d = c
  BY <1>2, Zenon DEF PowerInv, At, Goto, Begin, CallStep, has_block_inhibitor, prepare, Deadline,
       wait_for_delay_inhibitors, Act, resume
<1> QED
  BY <1>2, <1>3, Zenon DEF At, Begin, CallStep, prepare, Deadline, wait_for_delay_inhibitors, Act, resume

LEMMA StepCounts ==
  ASSUME PowerInv, PowerNext
  PROVE  CountsInhibitors
<1>1. PowerTypeOK'
  <2>1. PowerInv'
    BY PowerKeeps, Zenon
  <2> QED
    BY <2>1, TypeFollows, PTL
<1>2. open' \subseteq DOMAIN inhibitors'
  BY PowerKeeps DEF PowerInv, HeldAreListed
<1>3. ASSUME NEW c \in Calls, At(c, "wait"), call'[c].pc = "act", ~call[c].late
      PROVE  ~Held("delay", call[c].kind)
  <2>1. wait_for_delay_inhibitors(c)
    BY <1>3, WaitEnds, Zenon
  <2>2. ~\E i \in DOMAIN Retained : Wants(Retained[i], "delay", call[c].kind)
    BY <2>1, <1>3, Zenon DEF wait_for_delay_inhibitors
  <2>3. \A i \in open : i \in DOMAIN Retained /\ Retained[i] = inhibitors[i]
    BY DEF PowerInv, HeldAreListed, Retained, Restrict, is_released
  <2> QED
    BY <2>2, <2>3, Zenon DEF Held
<1>4. ASSUME NEW c \in Calls, At(c, "queued"), call'[c].pc = "done"
      PROVE  Held("block", call[c].kind)
  <2>1. has_block_inhibitor(c)
    BY <1>4, DroppedWhenBlocked, Zenon
  <2>2. \E i \in DOMAIN Retained : Wants(Retained[i], "block", call[c].kind)
    BY <2>1, <1>4, Zenon DEF has_block_inhibitor, PowerInv, Goto, Call
  <2>3. \A i \in DOMAIN Retained : i \in open /\ Retained[i] = inhibitors[i]
    BY DEF Retained, Restrict, is_released
  <2> QED
    BY <2>2, <2>3, Zenon DEF Held
<1> QED
  BY <1>1, <1>2, <1>3, <1>4, Zenon DEF CountsInhibitors

(***************************************************************************)
(* Inhibitors count while they are held (power.rs, inhibitor.rs): one      *)
(* whose pipe is open is in the list, a call goes on to act before its     *)
(* deadline only when nobody holds a delay of its action, and an event is  *)
(* dropped only under a block that somebody holds, whichever pipes other   *)
(* calls open, close and collect in between.                               *)
(***************************************************************************)
THEOREM HeldInhibitorsCount == PowerSpec => InhibitorsCount
<1>1. PowerInv /\ [PowerNext]_power_vars => [CountsInhibitors]_power_vars
  BY StepCounts, Zenon
<1> QED
  BY <1>1, PowerInvariance, PTL DEF PowerSpec, InhibitorsCount
============================================================================

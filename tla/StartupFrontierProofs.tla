----------------------- MODULE StartupFrontierProofs -----------------------
(***************************************************************************)
(* Proofs about StartupFrontier for any finite set of services and any     *)
(* definitions of them.                                                    *)
(***************************************************************************)
EXTENDS StartupFrontier, FiniteSetTheorems, TLAPS

(* The graph build returns is well-formed and consistent. *)
LEMMA BuildConsistent ==
  ASSUME NEW defs \in [Services -> ServiceDef]
  PROVE  build(defs) \in Graph /\ Consistent(build(defs))
BY DEF build, Graph, Consistent, DeclaredDeps, ServiceDef

(***************************************************************************)
(* The inductive invariant.  A service has been handed out exactly when it *)
(* is pending or completed without being blocked; what is queued is none   *)
(* of these; and a service whose counter is 0 has been queued or handed    *)
(* out, so no step can be the one that forgets it.                         *)
(***************************************************************************)
Bookkeeping ==
  /\ pending \cap completed = {}
  /\ ready \subseteq completed /\ blocked \subseteq completed
  /\ ready \cap blocked = {}
  /\ \A s \in Services : taken[s] > 0 <=> s \in pending \cup (completed \ blocked)
  /\ \A s \in blocked : ~Released(s)

NobodyIsForgotten ==
  \A s \in Services \ blocked : unmet[s] = 0 => Released(s)

IInv ==
  /\ TypeOK /\ Consistent(graph) /\ Bookkeeping
  /\ StartsAfterItsDependencies /\ HandedOutOnce
  /\ UnmetExact /\ BlockedExactly /\ NobodyIsForgotten

-----------------------------------------------------------------------------
(* What a subset D of the services lacks of R can be counted, is nothing *)
(* when the count is 0, and is one less once a member of it is added to R. *)
LEMMA CountZero ==
  ASSUME NEW D, D \subseteq Services, NEW R
  PROVE  /\ Cardinality(D \ R) \in Nat
         /\ Cardinality(D \ R) = 0 <=> D \subseteq R
<1>1. IsFiniteSet(D \ R)
  BY GraphAssumption, FS_Subset
<1> QED
  BY <1>1, FS_CardinalityType, FS_EmptySet, Zenon

LEMMA CountOneLess ==
  ASSUME NEW D, D \subseteq Services, NEW R, NEW s, s \in D, s \notin R
  PROVE  /\ Cardinality(D \ R) > 0
         /\ Cardinality(D \ (R \cup {s})) = Cardinality(D \ R) - 1
<1>1. IsFiniteSet(D \ R)
  BY GraphAssumption, FS_Subset
<1>2. Cardinality(D \ R) \in Nat /\ Cardinality(D \ R) # 0
  <2>1. Cardinality(D \ R) \in Nat /\ (Cardinality(D \ R) = 0 <=> D \subseteq R)
    BY CountZero
  <2> QED
    BY <2>1
<1>3. Cardinality((D \ R) \ {s}) = Cardinality(D \ R) - 1
  BY <1>1, FS_RemoveElement, Zenon
<1>4. Cardinality(D \ R) > 0
  BY <1>2
<1>5. D \ (R \cup {s}) = (D \ R) \ {s}
  OBVIOUS
<1>6. Cardinality(D \ (R \cup {s})) = Cardinality((D \ R) \ {s})
  BY <1>5, Zenon
<1> QED
  BY <1>3, <1>4, <1>6, Zenon

(* A new frontier satisfies the invariant on every graph, acyclic or not. *)
LEMMA NewIInv ==
  ASSUME NEW defs \in Defs, graph = build(defs), New
  PROVE  IInv
<1>1. graph \in Graph /\ Consistent(graph)
  BY BuildConsistent, DefsAssumption
<1>2. \A s \in Services : graph.hard_deps[s] \in SUBSET Services
                          /\ graph.requires[s] \in SUBSET Services
  BY <1>1 DEF Graph
<1>3. resolved = {} /\ failed = {}
  BY DEF New, resolved, failed
<1>4. \A s \in Services : /\ unmet[s] \in Nat
                          /\ unmet[s] = Cardinality(graph.hard_deps[s] \ {})
                          /\ unmet[s] = 0 <=> graph.hard_deps[s] = {}
  <2> TAKE s \in Services
  <2>1. graph.hard_deps[s] \ {} = graph.hard_deps[s]
    OBVIOUS
  <2>2. unmet[s] = Cardinality(graph.hard_deps[s] \ {})
    BY <2>1, Zenon DEF New
  <2> DEFINE D == graph.hard_deps[s]
  <2>3. D \subseteq Services
    BY <1>2, Zenon
  <2> HIDE DEF D
  <2>4. IsFiniteSet(D)
    BY <2>3, GraphAssumption, FS_Subset, Zenon
  <2>5. Cardinality(D) \in Nat /\ (Cardinality(D) = 0 <=> D = {})
    BY <2>4, FS_CardinalityType, FS_EmptySet, Zenon
  <2> QED
    BY <2>1, <2>2, <2>5, Zenon DEF D
<1>5. TypeOK
  BY <1>1, <1>4 DEF New, TypeOK
<1>6. UnmetExact
  BY <1>3, <1>4 DEF UnmetExact, unmet_count
<1>7. StartsAfterItsDependencies
  BY <1>1, <1>2 DEF New, StartsAfterItsDependencies, Released, Consistent
<1>8. HandedOutOnce
  BY DEF New, HandedOutOnce
<1>9. BlockedExactly
  BY <1>3 DEF New, BlockedExactly
<1>10. NobodyIsForgotten /\ Bookkeeping
  BY <1>4 DEF New, NobodyIsForgotten, Bookkeeping, Released
<1> QED
  BY <1>1, <1>5, <1>6, <1>7, <1>8, <1>9, <1>10 DEF IInv

LEMMA InitIInv == Init => IInv
BY NewIInv DEF Init

LEMMA TakeReadyIInv ==
  ASSUME IInv, take_ready
  PROVE  IInv'
<1> USE DEF IInv
<1>1. TypeOK' /\ Consistent(graph)'
  BY DEF take_ready, TypeOK, Consistent
<1>2. \A s \in Services : /\ taken'[s] = taken[s] + ready_to_start[s]
                          /\ ready_to_start'[s] = 0
                          /\ taken[s] \in Nat /\ ready_to_start[s] \in Nat
  BY DEF take_ready, TypeOK
<1>3. \A s \in Services : Released(s)' <=> Released(s)
  BY <1>2 DEF Released
<1>4. resolved' = resolved /\ failed' = failed
  BY DEF take_ready, resolved, failed
<1>5. Bookkeeping'
  <2>1. \A s \in Services : ready_to_start[s] > 0 => s \notin completed
    BY <1>2 DEF Bookkeeping, HandedOutOnce, Released
  <2>2. pending' \cap completed' = {}
    BY <2>1 DEF take_ready, Bookkeeping
  <2>3. \A s \in Services :
           taken'[s] > 0 <=> s \in pending' \cup (completed' \ blocked')
    BY <1>2 DEF take_ready, Bookkeeping
  <2>4. \A s \in blocked' : ~Released(s)'
    BY <1>3, Zenon DEF take_ready, Bookkeeping, TypeOK
  <2> QED
    BY <2>2, <2>3, <2>4 DEF take_ready, Bookkeeping
<1>6. StartsAfterItsDependencies'
  BY <1>3, <1>4 DEF take_ready, StartsAfterItsDependencies
<1>7. HandedOutOnce'
  BY <1>2 DEF HandedOutOnce
<1>8. UnmetExact' /\ BlockedExactly' /\ NobodyIsForgotten'
  BY <1>3, <1>4, Zenon DEF take_ready, UnmetExact, BlockedExactly, NobodyIsForgotten,
                    unmet_count
<1> QED
  BY <1>1, <1>5, <1>6, <1>7, <1>8

-----------------------------------------------------------------------------
(***************************************************************************)
(* Releasing dependents of s, a pending service that is being resolved:    *)
(* the counters of the services that stay unblocked remain exact, and the  *)
(* newly queued ones have everything they wait for resolved and were not   *)
(* queued or handed out before.  S is the set of dependents the code       *)
(* decrements and B what is blocked when the call returns.                 *)
(***************************************************************************)
NewlyQueued(S, s) ==
  {t \in Services : /\ t \in S /\ Dec(unmet[t]) = 0
                    /\ t \notin completed \cup {s} \cup (pending \ {s}) \cup blocked}

LEMMA ReleaseFacts ==
  ASSUME IInv, NEW s \in pending, NEW S \in SUBSET graph.reverse_deps[s],
         NEW B \in SUBSET Services, Release(s, S),
         graph.reverse_deps[s] \ B \subseteq S, blocked \subseteq B
  PROVE  /\ unmet' \in [Services -> Nat] /\ ready_to_start' \in [Services -> Nat]
         /\ \A t \in Services \ B :
              unmet'[t] = Cardinality(graph.hard_deps[t] \ (resolved \cup {s}))
         /\ \A t \in Services : t \in NewlyQueued(S, s) =>
              /\ ready_to_start'[t] = 1 /\ ready_to_start[t] = 0 /\ taken[t] = 0
              /\ graph.hard_deps[t] \subseteq resolved \cup {s}
         /\ \A t \in Services : t \notin NewlyQueued(S, s) =>
              ready_to_start'[t] = ready_to_start[t]
         /\ \A t \in Services \ B :
              unmet'[t] = 0 => Released(t) \/ t \in NewlyQueued(S, s)
<1> USE DEF IInv
<1>1. /\ s \in Services /\ s \notin resolved
      /\ graph.reverse_deps[s] \in SUBSET Services
  BY Zenon DEF TypeOK, Bookkeeping, resolved, failed, Graph
<1>2. /\ unmet' \in [Services -> Nat]
      /\ \A t \in Services : /\ unmet[t] \in Nat
                             /\ unmet'[t] = IF t \in S THEN Dec(unmet[t]) ELSE unmet[t]
  BY DEF Release, TypeOK, Dec
<1>3. \A t \in Services : /\ graph.hard_deps[t] \subseteq Services
                          /\ t \in graph.reverse_deps[s] <=> s \in graph.hard_deps[t]
  BY <1>1, Zenon DEF TypeOK, Graph, Consistent
<1>4. \A t \in Services \ blocked :
         /\ unmet[t] = Cardinality(graph.hard_deps[t] \ resolved)
         /\ t \in graph.reverse_deps[s] =>
              /\ unmet[t] > 0
              /\ Cardinality(graph.hard_deps[t] \ (resolved \cup {s})) = Dec(unmet[t])
  <2> SUFFICES ASSUME NEW t \in Services \ blocked
               PROVE  /\ unmet[t] = Cardinality(graph.hard_deps[t] \ resolved)
                      /\ t \in graph.reverse_deps[s] =>
                           /\ unmet[t] > 0
                           /\ Cardinality(graph.hard_deps[t] \ (resolved \cup {s}))
                                = Dec(unmet[t])
    BY Zenon
  <2>1. unmet[t] = Cardinality(graph.hard_deps[t] \ resolved)
    BY DEF UnmetExact, unmet_count
  <2>2. CASE t \in graph.reverse_deps[s]
    <3>1. s \in graph.hard_deps[t] \ resolved
      BY <2>2, <1>1, <1>3, Zenon
    <3>2. /\ Cardinality(graph.hard_deps[t] \ resolved) > 0
          /\ Cardinality(graph.hard_deps[t] \ (resolved \cup {s}))
               = Cardinality(graph.hard_deps[t] \ resolved) - 1
      BY <3>1, <1>3, CountOneLess, Zenon
    <3> QED
      BY <2>1, <3>2, <1>2 DEF Dec
  <2> QED
    BY <2>1, <2>2, Zenon
<1>5. \A t \in Services \ B :
         unmet'[t] = Cardinality(graph.hard_deps[t] \ (resolved \cup {s}))
  <2> TAKE t \in Services \ B
  <2>1. CASE t \in graph.reverse_deps[s]
    BY <2>1, <1>2, <1>4, Zenon
  <2>2. CASE t \notin graph.reverse_deps[s]
    <3>1. graph.hard_deps[t] \ (resolved \cup {s}) = graph.hard_deps[t] \ resolved
      BY <2>2, <1>3
    <3> QED
      BY <2>2, <3>1, <1>2, <1>4
  <2> QED
    BY <2>1, <2>2
<1>6. /\ ready_to_start' \in [Services -> Nat]
      /\ \A t \in Services :
           /\ ready_to_start[t] \in Nat /\ taken[t] \in Nat
           /\ ready_to_start'[t] = IF t \in NewlyQueued(S, s)
                                  THEN ready_to_start[t] + 1 ELSE ready_to_start[t]
  BY DEF Release, TypeOK, NewlyQueued
<1>7. ASSUME NEW t \in NewlyQueued(S, s)
      PROVE  /\ ready_to_start[t] = 0 /\ taken[t] = 0
             /\ graph.hard_deps[t] \subseteq resolved \cup {s}
  <2>1. t \in Services \ blocked /\ t \in graph.reverse_deps[s] /\ t \notin pending
        /\ t \notin completed /\ Dec(unmet[t]) = 0
    BY Zenon DEF NewlyQueued
  <2>2. ~(taken[t] > 0)
    BY <2>1, Zenon DEF Bookkeeping
  <2>3. ~Released(t)
    BY <2>1, <1>1, <1>3, Zenon DEF StartsAfterItsDependencies
  <2>4. Cardinality(graph.hard_deps[t] \ (resolved \cup {s})) = 0
    BY <2>1, <1>4, Zenon
  <2>5. graph.hard_deps[t] \subseteq resolved \cup {s}
    BY <2>1, <2>4, <1>3, CountZero, ZenonT(30)
  <2> QED
    BY <2>1, <2>2, <2>3, <2>5, <1>6 DEF Released
<1>8. ASSUME NEW t \in Services \ B, unmet'[t] = 0
      PROVE  Released(t) \/ t \in NewlyQueued(S, s)
  <2>1. CASE t \notin S
    BY <2>1, <1>8, <1>2 DEF NobodyIsForgotten
  <2>2. CASE t \in completed \cup pending
    BY <2>2, Zenon DEF Bookkeeping, Released
  <2>3. CASE t \in S /\ t \notin completed \cup pending
    BY <2>3, <1>8, <1>2, Zenon DEF NewlyQueued
  <2> QED
    BY <2>1, <2>2, <2>3
<1> QED
  BY <1>2, <1>5, <1>6, <1>7, <1>8

LEMMA MarkReadyIInv ==
  ASSUME IInv, NEW s \in pending, mark_ready(s)
  PROVE  IInv'
<1> USE DEF IInv
<1> DEFINE S == graph.reverse_deps[s] \ blocked
           Q == NewlyQueued(S, s)
<1>1. /\ s \in Services /\ s \notin completed /\ s \notin blocked
      /\ S \in SUBSET graph.reverse_deps[s] /\ Release(s, S)
      /\ graph.reverse_deps[s] \ blocked \subseteq S /\ blocked \in SUBSET Services
      /\ blocked \subseteq blocked
  BY Zenon DEF TypeOK, Bookkeeping, mark_ready
<1>2. /\ ready' = ready \cup {s} /\ completed' = completed \cup {s}
      /\ pending' = pending \ {s}
      /\ blocked' = blocked /\ graph' = graph /\ taken' = taken
  BY Zenon DEF mark_ready
<1>3. failed' = failed /\ resolved' = resolved \cup {s}
  BY <1>1, <1>2, Zenon DEF failed, resolved
<1>4. /\ unmet' \in [Services -> Nat] /\ ready_to_start' \in [Services -> Nat]
      /\ \A t \in Services \ blocked :
           unmet'[t] = Cardinality(graph.hard_deps[t] \ (resolved \cup {s}))
      /\ \A t \in Services : t \in Q =>
           /\ ready_to_start'[t] = 1 /\ ready_to_start[t] = 0 /\ taken[t] = 0
           /\ graph.hard_deps[t] \subseteq resolved \cup {s}
      /\ \A t \in Services : t \notin Q => ready_to_start'[t] = ready_to_start[t]
      /\ \A t \in Services \ blocked : unmet'[t] = 0 => Released(t) \/ t \in Q
  BY <1>1, ReleaseFacts, Zenon
<1>5. Q \in SUBSET Services /\ Q \cap blocked = {}
  BY SMTT(30) DEF NewlyQueued
<1> HIDE DEF Q, S
<1>6. TypeOK' /\ Consistent(graph)'
  BY <1>1, <1>2, <1>4, SMTT(30) DEF TypeOK, Consistent
<1>7. \A t \in Services : Released(t)' <=> Released(t) \/ t \in Q
  BY <1>2, <1>4 DEF Released
<1>8. Bookkeeping'
  <2>1. \A t \in blocked' : ~Released(t)'
    BY <1>1, <1>2, <1>5, <1>7, Zenon DEF Bookkeeping
  <2>2. pending' \cup (completed' \ blocked') = pending \cup (completed \ blocked)
    BY <1>1, <1>2, Zenon
  <2> QED
    BY <1>1, <1>2, <2>1, <2>2, Zenon DEF Bookkeeping
<1>9. BlockedExactly'
  BY <1>2, <1>3, Zenon DEF BlockedExactly
<1>10. StartsAfterItsDependencies'
  <2> SUFFICES ASSUME NEW t \in Services, Released(t)'
               PROVE  /\ graph.hard_deps[t] \subseteq resolved'
                      /\ graph.requires[t] \subseteq ready'
    BY <1>2, Zenon DEF StartsAfterItsDependencies
  <2>1. CASE Released(t)
    BY <2>1, <1>2, <1>3, Zenon DEF StartsAfterItsDependencies
  <2>2. CASE t \in Q
    <3>1. graph.hard_deps[t] \subseteq resolved \cup {s}
      BY <2>2, <1>4, Zenon
    <3>2. graph.requires[t] \subseteq graph.hard_deps[t]
      BY Zenon DEF Consistent, TypeOK, Graph
    <3>3. graph.requires[t] \cap (failed \cup blocked) = {}
      BY <2>2, <1>5, Zenon DEF BlockedExactly
    <3> QED
      BY <3>1, <3>2, <3>3, <1>2, <1>3, Zenon DEF resolved
  <2> QED
    BY <2>1, <2>2, <1>7, Zenon
<1>11. HandedOutOnce'
  BY <1>2, <1>4 DEF HandedOutOnce
<1>12. UnmetExact' /\ NobodyIsForgotten'
  BY <1>2, <1>3, <1>4, <1>7, Zenon DEF UnmetExact, NobodyIsForgotten, unmet_count
<1> QED
  BY <1>6, <1>8, <1>9, <1>10, <1>11, <1>12, Zenon

-----------------------------------------------------------------------------
(***************************************************************************)
(* The services mark_failed blocks form a closed set, and every one of     *)
(* them requires the failed service or a blocked one.                      *)
(***************************************************************************)
LEMMA ToBlockFacts ==
  ASSUME IInv, NEW s \in pending
  PROVE  /\ to_block(s) \in SUBSET Services
         /\ ClosedFrom(s, to_block(s))
         /\ \A t \in to_block(s) :
              graph.requires[t] \cap ({s} \cup to_block(s)) # {}
<1>0. \A t \in Services : requirers(t) \in SUBSET Services
  BY Zenon DEF requirers, IInv, TypeOK, Graph
<1>1. s \in Services
  BY DEF IInv, TypeOK
<1>2. \A t \in to_block(s) : \A B \in SUBSET Services : ClosedFrom(s, B) => t \in B
  BY DEF to_block
<1>3. \A t \in Services :
        (\A B \in SUBSET Services : ClosedFrom(s, B) => t \in B) => t \in to_block(s)
  BY DEF to_block
<1>4. to_block(s) \in SUBSET Services
  BY Zenon DEF to_block
<1>5. ClosedFrom(s, to_block(s))
  BY <1>0, <1>1, <1>2, <1>3, <1>4, Zenon DEF ClosedFrom
<1>6. ASSUME NEW t \in to_block(s)
      PROVE  graph.requires[t] \cap ({s} \cup to_block(s)) # {}
  <2> DEFINE J == {u \in to_block(s) :
                     graph.requires[u] \cap ({s} \cup to_block(s)) # {}}
  <2>1. J \in SUBSET Services
    BY <1>4, Zenon
  <2>2. ClosedFrom(s, J)
    BY <1>4, <1>5, Zenon DEF ClosedFrom, requirers
  <2> QED
    BY <1>2, <2>1, <2>2, Zenon
<1> QED
  BY <1>4, <1>5, <1>6, Zenon

(***************************************************************************)
(* mark_failed blocks nobody that was queued, handed out or resolved, nor  *)
(* anybody it queues itself in the loop over the soft dependents.          *)
(***************************************************************************)
LEMMA ToBlockIsFresh ==
  ASSUME IInv, NEW s \in pending, NEW Q \in SUBSET Services,
         Q \cap requirers(s) = {},
         \A t \in Q : graph.hard_deps[t] \subseteq resolved \cup {s}
  PROVE  \A t \in to_block(s) : t \notin Q /\ ~Released(t)
<1> USE DEF IInv
<1> DEFINE B == {t \in Services : t \notin Q /\ ~Released(t)}
<1>1. /\ s \in Services /\ s \notin ready /\ s \notin resolved /\ Released(s)
  BY Zenon DEF TypeOK, Bookkeeping, resolved, failed, Released
<1>2. \A t \in Services : t \in resolved => Released(t)
  BY Zenon DEF Bookkeeping, Released, resolved, failed
<1>3. \A t \in Services : \A u \in requirers(t) :
         u \in Services /\ t \in graph.requires[u] /\ t \in graph.hard_deps[u]
  BY Zenon DEF requirers, TypeOK, Graph, Consistent
<1>4. requirers(s) \subseteq B
  BY <1>1, <1>3, Zenon DEF StartsAfterItsDependencies
<1>5. ASSUME NEW t \in B, NEW u \in requirers(t) PROVE u \in B
  <2>1. t \notin ready /\ t \notin resolved /\ t # s
    BY <1>1, <1>2, Zenon DEF resolved
  <2>2. u \notin Q
    BY <1>3, <2>1, Zenon
  <2>3. ~Released(u)
    BY <1>3, <2>1, Zenon DEF StartsAfterItsDependencies
  <2> QED
    BY <2>2, <2>3, <1>3, Zenon
<1>6. ClosedFrom(s, B)
  BY <1>4, <1>5, Zenon DEF ClosedFrom
<1> QED
  BY <1>6, Zenon DEF to_block

LEMMA MarkFailedIInv ==
  ASSUME IInv, NEW s \in pending, mark_failed(s)
  PROVE  IInv' /\ failed' = failed \cup {s} /\ \A t \in blocked' : ~Released(t)
<1> USE DEF IInv
<1> DEFINE S == graph.reverse_deps[s] \ requirers(s)
           Q == NewlyQueued(S, s)
           K == to_block(s)
<1>1. /\ K \in SUBSET Services /\ ClosedFrom(s, K)
      /\ \A t \in K : graph.requires[t] \cap ({s} \cup K) # {}
  BY ToBlockFacts, Zenon
<1>2. /\ s \in Services /\ s \notin completed /\ s \notin blocked
      /\ S \in SUBSET graph.reverse_deps[s] /\ Release(s, S)
      /\ graph.reverse_deps[s] \ (blocked \cup K) \subseteq S
      /\ blocked \cup K \in SUBSET Services /\ blocked \subseteq blocked \cup K
  BY <1>1, Zenon DEF TypeOK, Bookkeeping, mark_failed, ClosedFrom
<1>3. /\ ready' = ready /\ completed' = completed \cup {s} \cup (K \ blocked)
      /\ pending' = pending \ {s} /\ blocked' = blocked \cup K
      /\ graph' = graph /\ taken' = taken
  BY Zenon DEF mark_failed
<1>4. /\ unmet' \in [Services -> Nat] /\ ready_to_start' \in [Services -> Nat]
      /\ \A t \in Services \ (blocked \cup K) :
           unmet'[t] = Cardinality(graph.hard_deps[t] \ (resolved \cup {s}))
      /\ \A t \in Services : t \in Q =>
           /\ ready_to_start'[t] = 1 /\ ready_to_start[t] = 0 /\ taken[t] = 0
           /\ graph.hard_deps[t] \subseteq resolved \cup {s}
      /\ \A t \in Services : t \notin Q => ready_to_start'[t] = ready_to_start[t]
      /\ \A t \in Services \ (blocked \cup K) :
           unmet'[t] = 0 => Released(t) \/ t \in Q
  BY <1>2, ReleaseFacts, Zenon
<1>5. Q \in SUBSET Services /\ Q \cap blocked = {} /\ Q \cap requirers(s) = {}
  BY DEF NewlyQueued
<1> HIDE DEF Q, S, K
<1>6. \A t \in K : t \notin Q /\ ~Released(t)
  BY <1>4, <1>5, ToBlockIsFresh, Zenon DEF K
<1>7. \A t \in K : t \notin ready /\ t \notin failed /\ t \notin pending
  BY <1>1, <1>6 DEF Released, Bookkeeping, failed
<1>8. s \notin K /\ failed' = failed \cup {s} /\ resolved' = resolved \cup {s}
  <2>1. s \notin K
    BY <1>7, Zenon
  <2>2. failed' = failed \cup {s}
    BY <2>1, <1>2, <1>3, <1>7, Zenon DEF failed, Bookkeeping
  <2> QED
    BY <2>1, <2>2, <1>3, Zenon DEF resolved
<1>9. TypeOK' /\ Consistent(graph)'
  BY <1>1, <1>2, <1>3, <1>4, Zenon DEF TypeOK, Consistent
<1>10. \A t \in Services : Released(t)' <=> Released(t) \/ t \in Q
  BY <1>3, <1>4 DEF Released
<1>11. \A t \in blocked' : ~Released(t) /\ ~Released(t)'
  BY <1>2, <1>3, <1>5, <1>6, <1>10, Zenon DEF Bookkeeping
<1>12. Bookkeeping'
  <2>1. pending' \cup (completed' \ blocked') = pending \cup (completed \ blocked)
    BY <1>2, <1>3, <1>7, <1>8 DEF failed, Bookkeeping
  <2>2. pending' \cap completed' = {} /\ ready' \cap blocked' = {}
    BY <1>2, <1>3, <1>7, Zenon DEF Bookkeeping
  <2>3. ready' \subseteq completed' /\ blocked' \subseteq completed'
    BY <1>3, Zenon DEF Bookkeeping
  <2> QED
    BY <1>3, <1>11, <2>1, <2>2, <2>3, ZenonT(30) DEF Bookkeeping
<1>13. BlockedExactly'
  <2> SUFFICES ASSUME NEW t \in Services
               PROVE  t \in blocked \cup K <=>
                        graph.requires[t] \cap (failed \cup {s} \cup blocked \cup K) # {}
    BY <1>3, <1>8 DEF BlockedExactly
  <2>1. ASSUME t \in blocked \cup K
        PROVE  graph.requires[t] \cap (failed \cup {s} \cup blocked \cup K) # {}
    BY <2>1, <1>1 DEF BlockedExactly
  <2>2. ASSUME NEW u \in graph.requires[t], u \in failed \cup {s} \cup blocked \cup K
        PROVE  t \in blocked \cup K
    <3>1. CASE u \in failed \cup blocked
      BY <3>1, Zenon DEF BlockedExactly
    <3>2. u \in Services /\ t \in requirers(u)
      BY Zenon DEF requirers, Consistent, TypeOK, Graph
    <3>3. CASE u = s
      BY <3>2, <3>3, <1>1, Zenon DEF ClosedFrom
    <3>4. CASE u \in K \ blocked
      BY <3>2, <3>4, <1>1, Zenon DEF ClosedFrom
    <3> QED
      BY <2>2, <3>1, <3>3, <3>4, Zenon
  <2> QED
    BY <2>1, <2>2, Zenon
<1>14. StartsAfterItsDependencies'
  <2> SUFFICES ASSUME NEW t \in Services, Released(t)'
               PROVE  /\ graph.hard_deps[t] \subseteq resolved'
                      /\ graph.requires[t] \subseteq ready'
    BY <1>3, Zenon DEF StartsAfterItsDependencies
  <2>1. CASE Released(t)
    BY <2>1, <1>3, <1>8, Zenon DEF StartsAfterItsDependencies
  <2>2. CASE t \in Q
    <3>1. graph.hard_deps[t] \subseteq resolved'
      BY <2>2, <1>4, <1>8, Zenon
    <3>2. graph.requires[t] \subseteq graph.hard_deps[t]
      BY DEF Consistent, TypeOK, Graph
    <3>3. t \notin blocked'
      BY <2>2, <1>3, <1>5, <1>6, Zenon
    <3>4. graph.requires[t] \cap failed' = {}
      BY <3>3, <1>3, <1>13, Zenon DEF BlockedExactly
    <3> QED
      BY <3>1, <3>2, <3>4, Zenon DEF resolved
  <2> QED
    BY <2>1, <2>2, <1>10
<1>15. HandedOutOnce'
  BY <1>3, <1>4 DEF HandedOutOnce
<1>16. UnmetExact' /\ NobodyIsForgotten'
  BY <1>3, <1>4, <1>8, <1>10, Zenon DEF UnmetExact, NobodyIsForgotten, unmet_count
<1> QED
  BY <1>8, <1>9, <1>11, <1>12, <1>13, <1>14, <1>15, <1>16, Zenon

LEMMA NextIInv == IInv /\ [Next]_vars => IInv'
<1> SUFFICES ASSUME IInv, [Next]_vars PROVE IInv'
  OBVIOUS
<1>1. CASE take_ready
  BY <1>1, TakeReadyIInv, Zenon
<1>2. CASE \E s \in pending : mark_ready(s)
  BY <1>2, MarkReadyIInv, Zenon
<1>3. CASE \E s \in pending : mark_failed(s)
  BY <1>3, MarkFailedIInv, Zenon
<1>4. CASE UNCHANGED vars
  <2>1. failed' = failed /\ resolved' = resolved
    BY <1>4, Zenon DEF vars, failed, resolved
  <2>2. \A s : Released(s)' <=> Released(s)
    BY <1>4 DEF vars, Released
  <2> QED
    BY <1>4, <2>1, <2>2, Zenon
       DEF vars, IInv, TypeOK, Consistent, Bookkeeping,
           StartsAfterItsDependencies, HandedOutOnce, UnmetExact,
           BlockedExactly, NobodyIsForgotten, unmet_count
<1> QED
  BY <1>1, <1>2, <1>3, <1>4, Zenon DEF Next

(* The inductive invariant holds throughout startup. *)
THEOREM Invariance == Spec => []IInv
BY InitIInv, NextIInv, PTL DEF Spec

-----------------------------------------------------------------------------
(* Every variable of the frontier keeps its type. *)
THEOREM TypeCorrect == Spec => []TypeOK
<1>1. IInv => TypeOK
  BY Zenon DEF IInv
<1> QED
  BY <1>1, Invariance, PTL

(***************************************************************************)
(* Whatever becomes ready or fails, and in whatever order, take_ready      *)
(* hands out a service only after everything it is ordered after has been  *)
(* resolved and everything it requires is ready.                           *)
(***************************************************************************)
THEOREM DependencyOrder == Spec => []StartsAfterItsDependencies
<1>1. IInv => StartsAfterItsDependencies
  BY Zenon DEF IInv
<1> QED
  BY <1>1, Invariance, PTL

(* take_ready hands out no service twice. *)
THEOREM AtMostOnce == Spec => []HandedOutOnce
<1>1. IInv => HandedOutOnce
  BY Zenon DEF IInv
<1> QED
  BY <1>1, Invariance, PTL

(***************************************************************************)
(* mark_failed blocks exactly the services that require, directly or not,  *)
(* a service that failed.                                                  *)
(***************************************************************************)
THEOREM ExactBlocking == Spec => []BlockedExactly
<1>1. IInv => BlockedExactly
  BY Zenon DEF IInv
<1> QED
  BY <1>1, Invariance, PTL

(***************************************************************************)
(* When the startup loop has nothing queued or pending, a service that is  *)
(* left over waits for a blocked one or for another one that is left over. *)
(***************************************************************************)
THEOREM LeftOversWait == Spec => []OnlyWaitersOfBlockedAreLeft
<1>1. IInv => OnlyWaitersOfBlockedAreLeft
  <2> SUFFICES ASSUME IInv, Quiet, NEW s \in Services \ completed
               PROVE  graph.hard_deps[s] \cap (blocked \cup (Services \ completed)) # {}
    BY Zenon DEF OnlyWaitersOfBlockedAreLeft
  <2>1. s \notin blocked /\ ~Released(s)
    BY Zenon DEF IInv, Bookkeeping, Released, Quiet, has_ready
  <2>2. Cardinality(graph.hard_deps[s] \ resolved) # 0
    BY <2>1, Zenon DEF IInv, NobodyIsForgotten, UnmetExact, unmet_count
  <2>3. graph.hard_deps[s] \subseteq Services
    BY Zenon DEF IInv, TypeOK, Graph
  <2>4. ~(graph.hard_deps[s] \subseteq resolved)
    BY <2>2, <2>3, CountZero, Zenon
  <2> QED
    BY <2>3, <2>4, Zenon DEF resolved, failed
<1> QED
  BY <1>1, Invariance, PTL

(***************************************************************************)
(* No step of the frontier withdraws a verdict, and none blocks a service  *)
(* that was queued or handed out before.                                   *)
(***************************************************************************)
THEOREM FinalVerdicts == Spec => VerdictsAreFinal
<1> DEFINE Final == /\ ready \subseteq ready' /\ blocked \subseteq blocked'
                    /\ failed \subseteq failed'
                    /\ \A s \in blocked' : ~Released(s)
<1>1. IInv /\ [Next]_vars => [Final]_vars
  <2> SUFFICES ASSUME IInv, Next PROVE Final
    BY Zenon
  <2>1. CASE take_ready
    BY <2>1, Zenon DEF take_ready, failed, IInv, Bookkeeping
  <2>2. ASSUME NEW s \in pending, mark_ready(s) PROVE Final
    BY <2>2, Zenon DEF mark_ready, failed, IInv, Bookkeeping
  <2>3. ASSUME NEW s \in pending, mark_failed(s) PROVE Final
    <3>1. failed' = failed \cup {s} /\ \A t \in blocked' : ~Released(t)
      BY <2>3, MarkFailedIInv
    <3> QED
      BY <2>3, <3>1, Zenon DEF mark_failed
  <2> QED
    BY <2>1, <2>2, <2>3, Zenon DEF Next
<1> QED
  BY <1>1, Invariance, PTL DEF Spec, VerdictsAreFinal
=============================================================================

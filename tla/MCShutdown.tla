----------------------------- MODULE MCShutdown -----------------------------
(* Every dependency graph on three or four services up to renaming: a       *)
(* service is ordered only after lower numbers.                             *)
EXTENDS Shutdown

CONSTANT N          \* the number of services

MCServices == 1..N
late == N + 1       \* the worker a reload adds
MCAdded == {late}

Edges == {e \in MCServices \X MCServices : e[2] < e[1]}

DefOf(edges, s) ==
  [requires |-> {d \in MCServices : <<s, d>> \in edges},
   wants |-> {}, after |-> {}, before |-> {}]

MCDefs == {[s \in MCServices |-> DefOf(edges, s)] : edges \in SUBSET Edges}
=============================================================================

------------------------------- MODULE MCLoad -------------------------------
(* Two families of cases.  One has every supervisor tree problem and two    *)
(* graphs; the other has plain files and many graphs: all acyclic ones on   *)
(* four services up to renaming, and the cyclic ones on the first three.    *)
EXTENDS Load

MCServices == 1..4
sup == 5
sub == 6
MCroot == 7
MCNames == 0..6    \* 0 is defined by nobody

Sup(n, up) == [kind |-> "Supervisor", name |-> n, parent |-> up]
Svc(n, up) == [kind |-> "Worker", name |-> n, parent |-> up]

(* sub is below sup: the listing decides whether it gets in *)
Supervisors == {
  {Sup(sup, MCroot), Sup(sub, sup)},
  {Sup(sup, sub), Sup(sub, sup), Sup(MCroot, MCroot)},
  {Sup(sup, MCroot), Sup(sup, sub), Sup(sub, sup)},
  {Sup(sup, MCroot), Sup(1, sup), Sup(sub, 1)} }

(* by the book; a name nobody has; under a service; defined twice *)
Placements == {
  {Svc(1, MCroot), Svc(2, sup), Svc(3, sub), Svc(4, MCroot)},
  {Svc(1, sup), Svc(2, 0), Svc(3, sub), Svc(4, 1)},
  {Svc(1, sub), Svc(2, 3), Svc(2, sup), Svc(3, MCroot), Svc(4, sup)} }

Plain == {Svc(s, MCroot) : s \in MCServices}

Kinds == {"none", "requires", "order"}
Lower(s) == {d \in MCServices : d < s}
Edges == {e \in MCServices \X MCServices : e[2] < e[1]}

(* What 4 is ordered after, it declares as `wants`; 2 declares `before`. *)
DownDef(kind, s) ==
  [requires |-> {d \in Lower(s) : kind[<<s, d>>] = "requires"},
   wants |-> {d \in Lower(s) \ {2} : s = 4 /\ kind[<<s, d>>] = "order"},
   after |-> {d \in Lower(s) \ {2} : s # 4 /\ kind[<<s, d>>] = "order"},
   before |-> {u \in {3, 4} : s = 2 /\ kind[<<u, 2>>] = "order"}]

DownDefs == {[s \in MCServices |-> DownDef(kind, s)] : kind \in [Edges -> Kinds]}

(* Any edges among the first three; 1 also requires 0. *)
AnyDef(e, s) ==
  [requires |-> {d \in 1..3 : d >= s /\ <<s, d>> \in e} \cup (IF s = 1 THEN {0} ELSE {}),
   wants |-> {}, after |-> {d \in 1..3 : d < s /\ d # 1 /\ <<s, d>> \in e},
   before |-> {u \in 2..3 : s = 1 /\ <<u, 1>> \in e}]

AnyDefs == {[s \in MCServices |-> AnyDef(e, s)] : e \in SUBSET ((1..3) \X (1..3))}
CyclicDefs == {defs \in AnyDefs : ~Acyclic(build(defs))}

Chain == [s \in MCServices |->
            [requires |-> IF s = 3 THEN {2} ELSE {}, wants |-> {},
             after |-> IF s = 4 THEN {3} ELSE {}, before |-> IF s = 1 THEN {2} ELSE {}]]

MCDefs == DownDefs \cup CyclicDefs \cup {Chain}

MCCases ==
  {[supervisors |-> sups, services |-> svcs, defs |-> Chain] :
     sups \in Supervisors, svcs \in Placements}
  \cup {[supervisors |-> {}, services |-> Plain, defs |-> defs] : defs \in MCDefs}
=============================================================================

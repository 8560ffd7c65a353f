------------------------------- MODULE MCStartup -------------------------------
(* Three services: c depends on b and b on a, or c on both others.          *)
EXTENDS Startup

MCServices == {"a", "b", "c"}
MCNames == MCServices

Def(required, earlier) ==
  [requires |-> required, wants |-> {}, after |-> earlier, before |-> {}]

Chain == [s \in MCServices |->
  CASE s = "a" -> Def({}, {}) [] s = "b" -> Def({"a"}, {}) [] s = "c" -> Def({"b"}, {})]

Join == [s \in MCServices |->
  CASE s = "a" -> Def({}, {}) [] s = "b" -> Def({}, {}) [] s = "c" -> Def({"a"}, {"b"})]

MCDefs == {Chain, Join}

(* c has no dependent: how it becomes ready matters only to the end of the loop. *)
SomeReadiness ==
  {[s \in MCServices |-> CASE s = "a" -> f[1] [] s = "b" -> f[2] [] s = "c" -> "none"] :
     f \in (ReadinessKinds \X {"oneshot"}) \cup {<<"oneshot", "fd">>}}

GroupAB == <<"a", "b">>
GroupBC == <<"b", "c">>
=============================================================================

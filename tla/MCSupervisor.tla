---------------------------- MODULE MCSupervisor ----------------------------
EXTENDS Supervisor, TLC

CONSTANTS a, b, c,          \* workers
          root, net,        \* supervisors
          p1, p2, p3, p4

(* a and b under net, c under the root; c may be added by a reload. *)
MCParent == (a :> net) @@ (b :> net) @@ (c :> root) @@ (net :> root) @@ (root :> None)
MCLoadedFlat == (root :> <<net>>) @@ (net :> <<a, b>>)
MCGroup == (root :> "OneForOne") @@ (net :> "OneForAll")
MCRest == (root :> "OneForAll") @@ (net :> "RestForOne")
MCSingle == (root :> "OneForOne") @@ (net :> "OneForOne")
MCStrategies == {MCGroup, MCRest, MCSingle}
SingleOnly == {MCSingle}
MCLimits == (root :> 1) @@ (net :> 2)
MCPolicy == (a :> "Permanent") @@ (b :> "Transient") @@ (c :> "Permanent")

PidSymmetry == Permutations(Pids)
=============================================================================

--------------------------- MODULE MCServiceLife ---------------------------
EXTENDS ServiceLife

Def(enable, protect, tmp, bind, user, wd, cg) ==
  [enable |-> enable, protect |-> protect, private_tmp |-> tmp, bind |-> bind, writable |-> bind = "missing",
   user |-> user, workdir |-> wd, cgroup |-> cg]

(* A plain service in a group; one with everything; one for each way the    *)
(* steps can get in each other's way.                                       *)
MCDefs == {
  Def({}, "none", FALSE, "none", {}, FALSE, TRUE),
  Def({"mnt", "pid"}, "strict", TRUE, "present", {"groups", "gid", "uid"}, TRUE, FALSE),
  Def({"mnt"}, "strict", FALSE, "missing", {}, FALSE, FALSE),
  Def({"user"}, "full", FALSE, "none", {"uid"}, FALSE, FALSE),
  Def({"mnt"}, "full", FALSE, "missing", {"gid", "uid"}, FALSE, FALSE) }

MClimits == <<"memory.max", "pids.max">>
=============================================================================

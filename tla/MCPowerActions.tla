---------------------------- MODULE MCPowerActions ----------------------------
(* PowerActions for TLC.                                                     *)
EXTENDS PowerActions

MCLocks ==
  {[what |-> Kinds, mode |-> "block"], [what |-> {"sleep"}, mode |-> "delay"],
   [what |-> Kinds, mode |-> "delay"]}
===============================================================================

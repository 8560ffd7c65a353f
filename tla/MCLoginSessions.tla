--------------------------- MODULE MCLoginSessions ---------------------------
(* LoginSessions for TLC: the slots of tasks and the process ids are        *)
(* interchangeable.                                                         *)
EXTENDS LoginSessions, TLC

MCSymmetry == Permutations(Slots) \cup Permutations(Pids)
==============================================================================

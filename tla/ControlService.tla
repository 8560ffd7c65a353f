--------------------------- MODULE ControlService ---------------------------
(***************************************************************************)
(* What the control socket of dynamod-svmgr promises to a caller, without  *)
(* connections, messages or timeouts.  A call is accepted, answered or     *)
(* dropped; what is accepted is performed afterwards, in the order of      *)
(* acceptance, or lost when svmgr goes down first; and what the caller is  *)
(* told agrees with that.  A caller who is told of an error knows nothing. *)
(***************************************************************************)
EXTENDS Naturals, Sequences

CONSTANT Calls

VARIABLES
  fate,       \* of every call
  queue,      \* the accepted calls, oldest first
  told        \* what each caller has been told

absvars == <<fate, queue, told>>

AbsInit ==
  /\ fate = [c \in Calls |-> "none"]
  /\ queue = <<>>
  /\ told = [c \in Calls |-> "nothing"]

Goes(c, from, to) == fate[c] = from /\ fate' = [fate EXCEPT ![c] = to]

Issue(c) == Goes(c, "none", "pending") /\ UNCHANGED <<queue, told>>

(* Nobody accepts a call whose caller has already been told something. *)
Accept(c) ==
  /\ Goes(c, "pending", "accepted") /\ told[c] = "nothing"
  /\ queue' = Append(queue, c) /\ UNCHANGED told

Answer(c) == Goes(c, "pending", "answered") /\ told[c] = "nothing" /\ UNCHANGED <<queue, told>>

Drop(c) == Goes(c, "pending", "dropped") /\ UNCHANGED <<queue, told>>

Perform ==
  /\ queue # <<>> /\ Goes(Head(queue), "accepted", "performed")
  /\ queue' = Tail(queue) /\ UNCHANGED told

(* svmgr goes down, after it has performed the shutdown at the head of the  *)
(* queue or at any other time.                                              *)
GoDown(doing) ==
  /\ fate' = [c \in Calls |->
       CASE fate[c] = "pending" -> "dropped"
         [] c \in doing -> "performed"
         [] fate[c] = "accepted" /\ c \notin doing -> "lost"
         [] OTHER -> fate[c]]
  /\ queue' = <<>> /\ UNCHANGED told

(* "ok" is for calls that were accepted, an answer for calls that were      *)
(* answered, an error for any.  A call may fail before it is made.          *)
Tell(c) ==
  /\ told[c] = "nothing"
  /\ \/ fate[c] \in {"accepted", "performed", "lost"} /\ told' = [told EXCEPT ![c] = "ok"]
     \/ fate[c] = "answered" /\ told' = [told EXCEPT ![c] = "answer"]
     \/ told' = [told EXCEPT ![c] = "error"]
  /\ UNCHANGED <<queue, fate>>

Settle(c) == Accept(c) \/ Answer(c) \/ Drop(c)

Down == GoDown({}) \/ (queue # <<>> /\ GoDown({Head(queue)}))

AbsNext ==
  \/ \E c \in Calls : Issue(c) \/ Settle(c) \/ Tell(c)
  \/ Perform \/ Down

AbsSpec == AbsInit /\ [][AbsNext]_absvars
=============================================================================

--------------------------- MODULE StartupProofs ---------------------------
(***************************************************************************)
(* Proofs about Startup for any set of services, any definitions, any      *)
(* kinds of readiness, any supervision group and any number of processes   *)
(* per service: the startup loop implements StartupFrontier, whose own     *)
(* invariant (proved in StartupFrontierProofs) is taken over through the   *)
(* refinement.                                                             *)
(***************************************************************************)
EXTENDS Startup, TLAPS

(***************************************************************************)
(* What the loop itself keeps: where it is, the services of the current    *)
(* batch, the one-shots it waits for and the trackers of the others.       *)
(***************************************************************************)
LoopType ==
  /\ readiness \in [Services -> ReadinessKinds]
  /\ pc \in {"reap", "start", "poll", "control", "main"}
  /\ batch \subseteq Services /\ setting_up \in batch \cup {None}
  /\ pending_oneshots \subseteq {s \in Services : readiness[s] = "oneshot"}
  /\ readiness_trackers \subseteq
       {s \in Services : readiness[s] \in {"notify", "fd", "tcp-port"}}
  /\ to_poll \subseteq readiness_trackers
  /\ late \subseteq Services

(* What the services and the kernel keep. *)
OsType ==
  /\ kernel \in [Procs -> {"free", "alive", "ok", "bad"}]
  /\ reported \subseteq Procs
  /\ heard \in [Services -> {"no", "yes", "closed"}]

(* A call of the supervisor in progress has somebody left to start. *)
Call == {c \in [reaps : BOOLEAN, to_start : Seq(Services)] : c.to_start # <<>>}

CallsType == calls \in Seq(Call)

(***************************************************************************)
(* The frontier's pending services are the ones the loop keeps track of,   *)
(* each in one place: still to be set up, waited for as a one-shot, or     *)
(* waited for by a tracker. Outside the phase that owns it, a place is     *)
(* empty.                                                                  *)
(***************************************************************************)
EveryoneIsSomewhere ==
  /\ pending = batch \cup pending_oneshots \cup readiness_trackers
  /\ batch \cap (pending_oneshots \cup readiness_trackers) = {}
  /\ pc # "start" => batch = {} /\ setting_up = None
  /\ pc # "poll" => to_poll = {}
  /\ pc = "main" => F!Quiet

(***************************************************************************)
(* Every sign of readiness the loop may read comes from a service that has *)
(* worked: a one-shot's exit status 0, a report, a notification that was   *)
(* heard, and for a service without readiness the fact that its process    *)
(* was started (or that it could not be).                                  *)
(***************************************************************************)
SignsAreTrue ==
  /\ \A p \in Procs : kernel[p] = "ok" /\ readiness[p[1]] = "oneshot" => p[1] \in worked
  /\ \A p \in reported : p[1] \in worked
  /\ \A s \in Services : heard[s] = "yes" => s \in worked
  /\ setting_up # None /\ readiness[setting_up] = "none" => setting_up \in worked \cup unstarted

(***************************************************************************)
(* What the frontier holds as ready has worked, except a service without   *)
(* readiness whose process could not be started.                           *)
(***************************************************************************)
ReadyHasWorked ==
  \A s \in ready : s \in worked \/ (readiness[s] = "none" /\ s \in unstarted)

LoopInv ==
  /\ LoopType /\ OsType /\ CallsType
  /\ EveryoneIsSomewhere /\ SignsAreTrue /\ ReadyHasWorked

-----------------------------------------------------------------------------
LEMMA LoopInitInv == Init => LoopInv
<1> SUFFICES ASSUME Init PROVE LoopInv
  OBVIOUS
<1>2. LoopType
  BY StartupAssumption DEF Init, LoopType
<1>3. OsType
  BY DEF Init, OsType
<1>4. CallsType
  BY DEF Init, CallsType
<1>5. EveryoneIsSomewhere
  BY DEF Init, F!Init, F!New, EveryoneIsSomewhere
<1>6. SignsAreTrue
  BY Zenon DEF Init, SignsAreTrue
<1>7. ReadyHasWorked
  BY DEF Init, F!Init, F!New, ReadyHasWorked
<1> QED
  BY <1>2, <1>3, <1>4, <1>5, <1>6, <1>7, Zenon DEF LoopInv

-----------------------------------------------------------------------------
(* A tracker says Ready only upon a sign. *)
LEMMA CheckIs ==
  ASSUME LoopType, OsType, NEW s \in readiness_trackers
  PROVE  /\ check(s) \in {"Ready", "NotReady", "TimedOut", "Failed"}
         /\ check(s) = "Ready" => heard[s] = "yes" \/ \E p \in reported : p[1] = s
BY DEF check, LoopType, OsType

(* worked and unstarted only grow. *)
LEMMA Grows ==
  ASSUME ReadyHasWorked, ready' = ready, readiness' = readiness,
         worked \subseteq worked', unstarted \subseteq unstarted'
  PROVE  ReadyHasWorked'
BY Zenon DEF ReadyHasWorked

(***************************************************************************)
(* The conjuncts about the loop and about the processes, when nothing they *)
(* mention changes.                                                        *)
(***************************************************************************)
LEMMA SameLoop ==
  ASSUME LoopType, EveryoneIsSomewhere,
         UNCHANGED <<frontier, readiness, pc, batch, setting_up, pending_oneshots,
                     readiness_trackers, to_poll>>, late' \subseteq Services
  PROVE  LoopType' /\ EveryoneIsSomewhere'
<1>1. LoopType'
  BY Zenon DEF LoopType
<1>2. EveryoneIsSomewhere'
  BY Zenon DEF EveryoneIsSomewhere, frontier, F!Quiet, F!has_ready
<1> QED
  BY <1>1, <1>2, Zenon

LEMMA SameOs ==
  ASSUME OsType, SignsAreTrue, UNCHANGED <<os, readiness>>, setting_up' \in {setting_up, None}
  PROVE  OsType' /\ SignsAreTrue'
<1>1. OsType'
  BY Zenon DEF OsType, os
<1>2. SignsAreTrue'
  BY Zenon DEF SignsAreTrue, os
<1> QED
  BY <1>1, <1>2, Zenon

LEMMA ProcsPair == \A p \in Procs : p[1] \in Services
BY DEF Procs

(* Processes are reaped, handled and started. *)
LEMMA ReapedKeeps ==
  ASSUME OsType, SignsAreTrue, NEW p \in Procs, Reaped(p), UNCHANGED <<readiness, setting_up>>
  PROVE  OsType' /\ SignsAreTrue'
<1>1. OsType'
  BY DEF OsType, Reaped
<1>2. SignsAreTrue'
  BY DEF OsType, SignsAreTrue, Reaped
<1> QED
  BY <1>1, <1>2, Zenon

LEMMA HandleKeeps ==
  ASSUME CallsType, NEW s \in Services, handle_child_exit(s)
  PROVE  CallsType'
<1>1. [reaps |-> FALSE, to_start |-> <<s>>] \in Call
  BY DEF Call
<1>2. s \in Range(Group) => Group # <<>>
  BY DEF Range
<1>3. s \in Range(Group) => [reaps |-> TRUE, to_start |-> Group] \in Call
  BY <1>2, StartupAssumption, Zenon DEF Call
<1>4. PICK c \in Call : calls' \in {calls, Append(calls, c)}
  BY <1>1, <1>3, Zenon DEF handle_child_exit
<1> QED
  BY <1>4 DEF CallsType

LEMMA StartKeeps ==
  ASSUME OsType, SignsAreTrue, NEW s \in Services, start_worker(s),
         UNCHANGED <<readiness, setting_up>>
  PROVE  /\ OsType' /\ SignsAreTrue'
         /\ worked \subseteq worked' /\ unstarted' = unstarted
<1>1. reported' = reported /\ heard' = heard /\ unstarted' = unstarted
  BY DEF start_worker
<1>2. CASE UNCHANGED <<kernel, started, worked>>
  BY <1>1, <1>2, Zenon DEF OsType, SignsAreTrue
<1>3. ASSUME FreeProcs(s) # {},
             Spawn(s, CHOOSE p \in FreeProcs(s) : \A q \in FreeProcs(s) : p[2] <= q[2])
      PROVE  OsType' /\ SignsAreTrue' /\ worked \subseteq worked'
  <2> DEFINE p == CHOOSE p \in FreeProcs(s) : \A q \in FreeProcs(s) : p[2] <= q[2]
  <2>1. kernel' = [kernel EXCEPT ![p] = "alive"] /\ worked \subseteq worked'
    BY <1>3 DEF Spawn
  <2> HIDE DEF p
  <2>2. OsType'
    BY <1>1, <2>1, Zenon DEF OsType
  <2>3. \A q \in Procs : kernel'[q] = "ok" => kernel[q] = "ok"
    BY <2>1 DEF OsType
  <2>4. SignsAreTrue'
    BY <1>1, <2>1, <2>3, ProcsPair DEF SignsAreTrue
  <2> QED
    BY <2>1, <2>2, <2>4, Zenon
<1> QED
  BY <1>1, <1>2, <1>3, Zenon DEF start_worker

(* The calls in progress are a stack. *)
LEMMA SeqTop ==
  ASSUME NEW S, NEW s \in Seq(S), s # <<>>
  PROVE  /\ s[Len(s)] \in S /\ SubSeq(s, 1, Len(s) - 1) \in Seq(S)
         /\ \A c \in S : [s EXCEPT ![Len(s)] = c] \in Seq(S)
<1>1. Len(s) \in DOMAIN s /\ Len(s) \in Nat /\ Len(s) # 0 /\ DOMAIN s = 1..Len(s)
  OBVIOUS
<1>2. SubSeq(s, 1, Len(s) - 1) \in Seq(S)
  BY <1>1
<1>3. \A c \in S : [s EXCEPT ![Len(s)] = c] \in Seq(S)
  BY <1>1
<1> QED
  BY <1>1, <1>2, <1>3

LEMMA TailRest ==
  ASSUME NEW S, NEW s \in Seq(S), s # <<>>, Len(s) # 1
  PROVE  Tail(s) \in Seq(S) /\ Tail(s) # <<>>
<1>1. Len(s) \in Nat /\ Len(s) # 0
  OBVIOUS
<1>2. PICK n \in Nat : n = Len(s) /\ n > 1
  BY <1>1
<1>3. Tail(s) \in Seq(S) /\ Len(Tail(s)) = n - 1
  BY <1>2
<1>4. Len(Tail(s)) # 0
  BY <1>2, <1>3
<1>5. Len(<<>>) = 0
  OBVIOUS
<1> QED
  BY <1>3, <1>4, <1>5, Zenon

LEMMA CallKeeps ==
  ASSUME CallsType, ~Idle
  PROVE  /\ Head(Top.to_start) \in Services
         /\ calls' = SubSeq(calls, 1, Len(calls) - 1) => CallsType'
         /\ calls' = [calls EXCEPT ![Len(calls)].reaps = FALSE] => CallsType'
         /\ Len(Top.to_start) # 1 /\ calls' = [calls EXCEPT ![Len(calls)].to_start = Tail(@)]
              => CallsType'
<1>1. Top \in Call
  BY SeqTop, Zenon DEF CallsType, Idle, Top
<1>2. Head(Top.to_start) \in Services
  BY <1>1 DEF Call
<1>3. /\ SubSeq(calls, 1, Len(calls) - 1) \in Seq(Call)
      /\ \A c \in Call : [calls EXCEPT ![Len(calls)] = c] \in Seq(Call)
  BY SeqTop DEF CallsType, Idle
<1>4. [Top EXCEPT !.reaps = FALSE] \in Call
  BY <1>1, Zenon DEF Call
<1>5. ASSUME Len(Top.to_start) # 1 PROVE [Top EXCEPT !.to_start = Tail(@)] \in Call
  <2>1. Top.to_start \in Seq(Services) /\ Top.to_start # <<>>
    BY <1>1, Zenon DEF Call
  <2>2. Tail(Top.to_start) \in Seq(Services) /\ Tail(Top.to_start) # <<>>
    BY <1>5, <2>1, TailRest, Zenon
  <2> QED
    BY <1>1, <2>2, Zenon DEF Call
<1> QED
  BY <1>2, <1>3, <1>4, <1>5, Zenon DEF CallsType, Top

-----------------------------------------------------------------------------
(* What the services do. *)
LEMMA ExitKeeps ==
  ASSUME LoopInv, NEW p \in Procs, Exit(p)
  PROVE  LoopInv' /\ UNCHANGED frontier
<1> USE DEF LoopInv
<1>1. UNCHANGED frontier /\ readiness' = readiness /\ setting_up' = setting_up /\ calls' = calls
      /\ late' = late /\ unstarted' = unstarted
  BY Zenon DEF Exit
<1>2. LoopType' /\ EveryoneIsSomewhere'
  <2>1. LoopType /\ late' \subseteq Services
    BY <1>1, Zenon DEF LoopType
  <2> QED
    BY <2>1, SameLoop, Zenon DEF Exit
<1>3. p[1] \in Services /\ kernel[p] = "alive"
  BY ProcsPair DEF Exit
<1>4. PICK status \in {"ok", "bad"} :
        /\ kernel' = [kernel EXCEPT ![p] = status]
        /\ worked' = IF status = "ok" /\ readiness[p[1]] = "oneshot"
                     THEN worked \cup {p[1]} ELSE worked
  BY Zenon DEF Exit
<1>5. reported' = reported \ {p} /\ heard' \in {heard, [heard EXCEPT ![p[1]] = "closed"]}
  BY Zenon DEF Exit
<1>6. OsType'
  BY <1>3, <1>4, <1>5, Zenon DEF OsType
<1>7. worked \subseteq worked'
  BY <1>4, Zenon
<1>8. SignsAreTrue'
  BY <1>1, <1>3, <1>4, <1>5, <1>7, Zenon DEF SignsAreTrue, OsType
<1>9. ReadyHasWorked'
  BY <1>1, <1>7, Grows, Zenon DEF frontier
<1> QED
  BY <1>1, <1>2, <1>6, <1>8, <1>9, Zenon DEF CallsType, frontier, F!vars

LEMMA ReportKeeps ==
  ASSUME LoopInv, NEW p \in Procs, Report(p)
  PROVE  LoopInv' /\ UNCHANGED frontier
<1> USE DEF LoopInv
<1>1. UNCHANGED frontier /\ readiness' = readiness /\ setting_up' = setting_up /\ calls' = calls
      /\ late' = late /\ unstarted' = unstarted /\ kernel' = kernel
  BY Zenon DEF Report
<1>2. LoopType' /\ EveryoneIsSomewhere'
  <2>1. LoopType /\ late' \subseteq Services
    BY <1>1, Zenon DEF LoopType
  <2> QED
    BY <2>1, SameLoop, Zenon DEF Report
<1>3. p[1] \in Services
  BY ProcsPair
<1>4. /\ reported' = reported \cup {p} /\ worked' = worked \cup {p[1]}
      /\ heard' \in {heard, [heard EXCEPT ![p[1]] = "yes"]}
  BY Zenon DEF Report
<1>6. OsType'
  BY <1>1, <1>3, <1>4, Zenon DEF OsType
<1>8. SignsAreTrue'
  BY <1>1, <1>3, <1>4, Zenon DEF SignsAreTrue, OsType
<1>9. ReadyHasWorked'
  BY <1>1, <1>4, Grows, Zenon DEF frontier
<1> QED
  BY <1>1, <1>2, <1>6, <1>8, <1>9, Zenon DEF CallsType, frontier, F!vars

(* Steps that leave the frontier, the processes and the calls alone. *)
LEMMA OnlyLoop ==
  ASSUME LoopInv, UNCHANGED <<frontier, os, readiness>>, setting_up' \in {setting_up, None},
         CallsType', LoopType', EveryoneIsSomewhere'
  PROVE  LoopInv'
<1> USE DEF LoopInv
<1>1. OsType' /\ SignsAreTrue'
  BY SameOs, Zenon
<1>2. ReadyHasWorked'
  BY Zenon DEF ReadyHasWorked, frontier, os
<1> QED
  BY <1>1, <1>2, Zenon DEF frontier, F!vars

LEMMA DeadlineKeeps ==
  ASSUME LoopInv, NEW s \in Services, Deadline(s)
  PROVE  LoopInv' /\ UNCHANGED frontier
<1>1. late' \subseteq Services
  BY DEF Deadline, LoopInv, LoopType
<1>2. LoopType' /\ EveryoneIsSomewhere'
  BY <1>1, SameLoop, Zenon DEF Deadline, LoopInv
<1>3. CallsType'
  BY Zenon DEF Deadline, LoopInv, CallsType
<1> QED
  BY <1>2, <1>3, OnlyLoop, Zenon DEF Deadline

LEMMA StillAliveKeeps ==
  ASSUME LoopInv, StillAlive
  PROVE  LoopInv' /\ UNCHANGED frontier
<1>1. late' \subseteq Services
  BY DEF StillAlive, LoopInv, LoopType
<1>2. LoopType' /\ EveryoneIsSomewhere'
  BY <1>1, SameLoop, Zenon DEF StillAlive, LoopInv
<1>3. CallsType'
  BY CallKeeps DEF StillAlive, LoopInv
<1> QED
  BY <1>2, <1>3, OnlyLoop, Zenon DEF StillAlive

LEMMA ControlKeeps ==
  ASSUME LoopInv, Control
  PROVE  LoopInv' /\ UNCHANGED frontier
<1>1. LoopType'
  BY DEF Control, LoopInv, LoopType
<1>2. pc = "control" /\ pc' = "reap" /\ UNCHANGED <<frontier, batch, setting_up, pending_oneshots,
                 readiness_trackers, to_poll>>
  BY Zenon DEF Control
<1>3. EveryoneIsSomewhere'
  BY <1>2 DEF LoopInv, EveryoneIsSomewhere, frontier
<1>4. CallsType'
  <2>1. ASSUME NEW s \in Services, NEW r \in BOOLEAN PROVE [reaps |-> r, to_start |-> <<s>>] \in Call
    BY DEF Call
  <2>2. CASE calls' = calls
    BY <2>2, Zenon DEF LoopInv, CallsType
  <2>3. ASSUME NEW c \in Call, calls' = <<c>> PROVE CallsType'
    BY <2>3 DEF CallsType
  <2>4. ASSUME NEW s \in Services
        PROVE  (\E p \in Procs : p[1] = s /\ kernel[p] # "free") \in BOOLEAN
    BY Zenon
  <2> QED
    BY <2>1, <2>2, <2>3, <2>4, Zenon DEF Control
<1> QED
  BY <1>1, <1>3, <1>4, OnlyLoop, Zenon DEF Control

LEMMA BatchStartedKeeps ==
  ASSUME LoopInv, BatchStarted
  PROVE  LoopInv' /\ UNCHANGED frontier
<1>1. LoopType'
  BY DEF BatchStarted, LoopInv, LoopType
<1>2. /\ pc = "start" /\ setting_up = None /\ batch = {} /\ pc' = "poll"
      /\ UNCHANGED <<frontier, batch, setting_up, pending_oneshots, readiness_trackers>>
  BY Zenon DEF BatchStarted
<1>3. EveryoneIsSomewhere'
  BY <1>2 DEF LoopInv, EveryoneIsSomewhere, frontier
<1>4. CallsType'
  BY Zenon DEF BatchStarted, LoopInv, CallsType
<1> QED
  BY <1>1, <1>3, <1>4, OnlyLoop, Zenon DEF BatchStarted

LEMMA PollDoneKeeps ==
  ASSUME LoopInv, PollDone
  PROVE  LoopInv' /\ UNCHANGED frontier
<1>1. LoopType'
  BY DEF PollDone, LoopInv, LoopType
<1>2. /\ pc = "poll" /\ to_poll = {} /\ pc' = IF NoMoreWork THEN "main" ELSE "control"
      /\ UNCHANGED <<frontier, batch, setting_up, pending_oneshots, readiness_trackers, to_poll>>
  BY Zenon DEF PollDone
<1>3. NoMoreWork => F!Quiet
  BY <1>2 DEF NoMoreWork, F!Quiet, LoopInv, EveryoneIsSomewhere
<1>4. F!Quiet' <=> F!Quiet
  BY <1>2, Zenon DEF frontier, F!Quiet, F!has_ready
<1>5. EveryoneIsSomewhere'
  BY <1>2, <1>3, <1>4, Zenon DEF LoopInv, EveryoneIsSomewhere, frontier
<1>6. CallsType'
  BY Zenon DEF PollDone, LoopInv, CallsType
<1> QED
  BY <1>1, <1>5, <1>6, OnlyLoop, Zenon DEF PollDone

-----------------------------------------------------------------------------
(* The calls of supervision. *)
LEMMA NestedReapKeeps ==
  ASSUME LoopInv, NEW p \in Procs, reap_and_handle_exits(p)
  PROVE  LoopInv' /\ UNCHANGED frontier
<1> USE DEF LoopInv
<1>1. LoopType' /\ EveryoneIsSomewhere'
  <2>1. late' \subseteq Services
    BY DEF reap_and_handle_exits, LoopType
  <2> QED
    BY <2>1, SameLoop, Zenon DEF reap_and_handle_exits
<1>2. OsType' /\ SignsAreTrue'
  BY ReapedKeeps, Zenon DEF reap_and_handle_exits
<1>3. CallsType'
  BY HandleKeeps, ProcsPair, Zenon DEF reap_and_handle_exits
<1>4. UNCHANGED <<frontier, readiness, worked, unstarted>>
  BY Zenon DEF reap_and_handle_exits, Reaped
<1>5. ReadyHasWorked'
  BY <1>4, Zenon DEF ReadyHasWorked, frontier
<1> QED
  BY <1>1, <1>2, <1>3, <1>4, <1>5, Zenon DEF frontier, F!vars

LEMMA StrategyKeeps ==
  ASSUME LoopInv, execute_strategy_action
  PROVE  LoopInv' /\ UNCHANGED frontier
<1> USE DEF LoopInv
<1>1. LoopType' /\ EveryoneIsSomewhere'
  <2>1. late' \subseteq Services
    BY Zenon DEF execute_strategy_action, LoopType
  <2> QED
    BY <2>1, SameLoop, Zenon DEF execute_strategy_action
<1>2. Head(Top.to_start) \in Services /\ CallsType'
  BY CallKeeps DEF execute_strategy_action
<1>3. /\ start_worker(Head(Top.to_start))
      /\ UNCHANGED <<frontier, readiness, setting_up>>
  BY Zenon DEF execute_strategy_action
<1>4. OsType' /\ SignsAreTrue' /\ worked \subseteq worked' /\ unstarted' = unstarted
  BY <1>2, <1>3, StartKeeps, Zenon
<1>5. ReadyHasWorked'
  BY <1>3, <1>4, Grows, Zenon DEF frontier
<1> QED
  BY <1>1, <1>2, <1>3, <1>4, <1>5, Zenon DEF frontier, F!vars

-----------------------------------------------------------------------------
(* The loop and its frontier. *)
LEMMA ReapKeeps ==
  ASSUME LoopInv, NEW p \in Procs, reap_oneshots_during_startup(p)
  PROVE  LoopInv' /\ [F!Next]_F!vars
<1> USE DEF LoopInv
<1>1. /\ pc = "reap" /\ p \in Zombies /\ Reaped(p)
      /\ UNCHANGED <<readiness, pc, batch, setting_up, readiness_trackers, to_poll, late>>
  BY Zenon DEF reap_oneshots_during_startup
<1>2. OsType' /\ SignsAreTrue' /\ worked' = worked /\ unstarted' = unstarted
  BY <1>1, ReapedKeeps, Zenon DEF Reaped
<1>3. CASE p[1] \notin pending_oneshots
  <2>1. handle_child_exit(p[1]) /\ UNCHANGED <<frontier, pending_oneshots>>
    BY <1>3, Zenon DEF reap_oneshots_during_startup
  <2>2. CallsType'
    BY <2>1, HandleKeeps, ProcsPair, Zenon
  <2>3. late' \subseteq Services
    BY <1>1, Zenon DEF LoopType
  <2>4. LoopType' /\ EveryoneIsSomewhere'
    BY <1>1, <2>1, <2>3, SameLoop, Zenon
  <2>5. ReadyHasWorked'
    BY <1>1, <1>2, <2>1, Grows, Zenon DEF frontier
  <2> QED
    BY <1>2, <2>1, <2>2, <2>4, <2>5, Zenon DEF frontier, F!vars
<1>4. CASE p[1] \in pending_oneshots
  <2> DEFINE s == p[1]
  <2>1. /\ pending_oneshots' = pending_oneshots \ {s} /\ calls' = calls
        /\ IF kernel[p] = "ok" THEN F!mark_ready(s) ELSE F!mark_failed(s)
    BY <1>4, Zenon DEF reap_oneshots_during_startup
  <2>2. s \in pending /\ s \in Services /\ readiness[s] = "oneshot"
    BY <1>4 DEF EveryoneIsSomewhere, LoopType
  <2>3. F!Next
    BY <2>1, <2>2, Zenon DEF F!Next
  <2>4. pending' = pending \ {s} /\ ready' \in {ready, ready \cup {s}}
        /\ (kernel[p] # "ok" => ready' = ready)
    BY <2>1, Zenon DEF F!mark_ready, F!mark_failed
  <2>5. LoopType'
    BY <1>1, <2>1, Zenon DEF LoopType
  <2>6. EveryoneIsSomewhere'
    BY <1>1, <2>1, <2>2, <2>4, Zenon DEF EveryoneIsSomewhere, LoopType
  <2>7. ReadyHasWorked'
    BY <1>1, <1>2, <2>2, <2>4, Zenon DEF ReadyHasWorked, SignsAreTrue
  <2> QED
    BY <1>2, <2>1, <2>3, <2>5, <2>6, <2>7, Zenon DEF CallsType
<1> QED
  BY <1>3, <1>4, Zenon

LEMMA TakeKeeps ==
  ASSUME LoopInv, TakeBatch, \A s \in pending : ~(ready_to_start[s] > 0)
  PROVE  LoopInv' /\ [F!Next]_F!vars
<1> USE DEF LoopInv
<1>1. /\ pc = "reap" /\ pc' = "start" /\ batch' = {s \in Services : ready_to_start[s] > 0}
      /\ UNCHANGED <<os, readiness, setting_up, pending_oneshots, readiness_trackers,
                     to_poll, calls, late>>
      /\ IF F!has_ready THEN F!take_ready ELSE UNCHANGED frontier
  BY Zenon DEF TakeBatch
<1>2. pending' = pending \cup batch' /\ ready' = ready
  BY <1>1 DEF F!take_ready, F!has_ready, frontier
<1>3. [F!Next]_F!vars
  BY <1>1, Zenon DEF F!Next, F!vars, frontier
<1>4. batch = {} /\ setting_up = None /\ to_poll = {}
  BY <1>1, Zenon DEF EveryoneIsSomewhere
<1>5. LoopType'
  BY <1>1, <1>4, Zenon DEF LoopType
<1>6. \A s \in pending : s \notin batch'
  BY <1>1, Zenon
<1>7. EveryoneIsSomewhere'
  BY <1>1, <1>2, <1>4, <1>6, Zenon DEF EveryoneIsSomewhere
<1>8. OsType' /\ SignsAreTrue'
  BY <1>1, SameOs, Zenon
<1>9. ReadyHasWorked'
  BY <1>1, <1>2, Zenon DEF ReadyHasWorked, os
<1> QED
  BY <1>1, <1>3, <1>5, <1>7, <1>8, <1>9, Zenon DEF CallsType

LEMMA StartNextKeeps ==
  ASSUME LoopInv, StartNext
  PROVE  LoopInv' /\ UNCHANGED frontier
<1> USE DEF LoopInv
<1>1. PICK s \in batch :
        /\ setting_up' = s
        /\ \/ \E p \in FreeProcs(s) : Spawn(s, p) /\ UNCHANGED <<heard, unstarted>>
           \/ /\ unstarted' = unstarted \cup {s} /\ UNCHANGED <<kernel, worked>>
              /\ heard' = [heard EXCEPT ![s] = IF readiness[s] = "fd" THEN "closed" ELSE @]
  BY Zenon DEF StartNext
<1>2. /\ pc = "start" /\ setting_up = None
      /\ UNCHANGED <<frontier, reported, readiness, pc, batch, pending_oneshots,
                     readiness_trackers, to_poll, calls, late>>
  BY Zenon DEF StartNext
<1>3. LoopType'
  BY <1>1, <1>2, Zenon DEF LoopType
<1>4. EveryoneIsSomewhere'
  BY <1>2, Zenon DEF EveryoneIsSomewhere, frontier
<1>5. s \in Services /\ s # None
  BY StartupAssumption, Zenon DEF LoopType
<1>6. CASE \E p \in FreeProcs(s) : Spawn(s, p) /\ UNCHANGED <<heard, unstarted>>
  <2>1. PICK p \in FreeProcs(s) : Spawn(s, p) /\ UNCHANGED <<heard, unstarted>>
    BY <1>6, Zenon
  <2>2. kernel' = [kernel EXCEPT ![p] = "alive"] /\ worked \subseteq worked' /\ p \in Procs
        /\ (readiness[s] = "none" => s \in worked')
    BY <2>1, Zenon DEF Spawn, FreeProcs
  <2>3. OsType'
    BY <1>2, <2>1, <2>2, Zenon DEF OsType
  <2>4. \A q \in Procs : kernel'[q] = "ok" => kernel[q] = "ok"
    BY <2>2, Zenon DEF OsType
  <2>5. SignsAreTrue'
    BY <1>1, <1>2, <2>1, <2>2, <2>4, Zenon DEF SignsAreTrue
  <2>6. ReadyHasWorked'
    BY <1>2, <2>1, <2>2, Grows, Zenon DEF frontier
  <2> QED
    BY <1>2, <1>3, <1>4, <2>3, <2>5, <2>6, Zenon DEF CallsType, frontier, F!vars
<1>7. CASE /\ unstarted' = unstarted \cup {s} /\ UNCHANGED <<kernel, worked>>
           /\ heard' = [heard EXCEPT ![s] = IF readiness[s] = "fd" THEN "closed" ELSE @]
  <2>1. heard' \in [Services -> {"no", "yes", "closed"}]
        /\ \A t \in Services : heard'[t] = "yes" => heard[t] = "yes"
    BY <1>5, <1>7, Zenon DEF OsType
  <2>2. OsType'
    BY <1>2, <1>7, <2>1, Zenon DEF OsType
  <2>3. SignsAreTrue'
    BY <1>1, <1>2, <1>7, <2>1, Zenon DEF SignsAreTrue
  <2>4. ReadyHasWorked'
    BY <1>2, <1>7, Grows, Zenon DEF frontier
  <2> QED
    BY <1>2, <1>3, <1>4, <2>2, <2>3, <2>4, Zenon DEF CallsType, frontier, F!vars
<1> QED
  BY <1>1, <1>6, <1>7, Zenon

LEMMA SetUpKeeps ==
  ASSUME LoopInv, SetUp
  PROVE  LoopInv' /\ [F!Next]_F!vars
<1> USE DEF LoopInv
<1> DEFINE s == setting_up
<1>1. /\ pc = "start" /\ s # None /\ batch' = batch \ {s} /\ setting_up' = None
      /\ UNCHANGED <<os, readiness, pc, to_poll, calls, late>>
  BY Zenon DEF SetUp
<1>2. s \in batch /\ s \in Services /\ s \in pending /\ readiness[s] \in ReadinessKinds
  BY <1>1 DEF LoopType, EveryoneIsSomewhere
<1>3. OsType' /\ SignsAreTrue'
  BY <1>1, SameOs, Zenon
<1>4. CallsType'
  BY <1>1, Zenon DEF CallsType
<1>5. CASE readiness[s] = "oneshot"
  <2>1. pending_oneshots' = pending_oneshots \cup {s} /\ UNCHANGED <<frontier, readiness_trackers>>
    BY <1>1, <1>5, Zenon DEF SetUp
  <2>2. LoopType'
    BY <1>1, <1>2, <1>5, <2>1, Zenon DEF LoopType
  <2>3. EveryoneIsSomewhere'
    BY <1>1, <1>2, <2>1, Zenon DEF EveryoneIsSomewhere, frontier
  <2> QED
    BY <1>1, <1>4, <2>1, <2>2, <2>3, OnlyLoop, Zenon DEF frontier, F!vars
<1>6. CASE readiness[s] = "none"
  <2>1. F!mark_ready(s) /\ UNCHANGED <<pending_oneshots, readiness_trackers>>
    BY <1>1, <1>6, Zenon DEF SetUp
  <2>2. pending' = pending \ {s} /\ ready' = ready \cup {s}
    BY <2>1, Zenon DEF F!mark_ready
  <2>3. F!Next
    BY <1>2, <2>1, Zenon DEF F!Next
  <2>4. LoopType'
    BY <1>1, <2>1, Zenon DEF LoopType
  <2>5. EveryoneIsSomewhere'
    BY <1>1, <1>2, <2>1, <2>2, Zenon DEF EveryoneIsSomewhere
  <2>6. ReadyHasWorked'
    BY <1>1, <1>6, <2>2, Zenon DEF ReadyHasWorked, SignsAreTrue, os
  <2> QED
    BY <1>3, <1>4, <2>3, <2>4, <2>5, <2>6, Zenon
<1>7. CASE readiness[s] \in {"notify", "fd", "tcp-port"}
  <2>1. readiness_trackers' = readiness_trackers \cup {s} /\ UNCHANGED <<frontier, pending_oneshots>>
    BY <1>1, <1>7, Zenon DEF SetUp
  <2>2. LoopType'
    BY <1>1, <1>2, <1>7, <2>1, Zenon DEF LoopType
  <2>3. EveryoneIsSomewhere'
    BY <1>1, <1>2, <2>1, Zenon DEF EveryoneIsSomewhere, frontier
  <2> QED
    BY <1>1, <1>4, <2>1, <2>2, <2>3, OnlyLoop, Zenon DEF frontier, F!vars
<1> QED
  BY <1>2, <1>5, <1>6, <1>7, Zenon DEF ReadinessKinds

LEMMA PollKeeps ==
  ASSUME LoopInv, Poll
  PROVE  LoopInv' /\ [F!Next]_F!vars
<1> USE DEF LoopInv
<1>1. PICK s \in to_poll :
       /\ to_poll' = to_poll \ {s}
       /\ readiness_trackers' = IF check(s) = "NotReady" THEN readiness_trackers
                                ELSE readiness_trackers \ {s}
       /\ CASE check(s) = "Ready" -> F!mark_ready(s)
            [] check(s) \in {"TimedOut", "Failed"} -> F!mark_failed(s)
            [] check(s) = "NotReady" -> UNCHANGED frontier
  BY Zenon DEF Poll
<1>2. /\ pc = "poll"
      /\ UNCHANGED <<os, readiness, pc, batch, setting_up, pending_oneshots, calls, late>>
  BY Zenon DEF Poll
<1>3. /\ s \in readiness_trackers /\ s \in Services /\ s \in pending
      /\ s \notin pending_oneshots /\ s \notin batch /\ batch = {}
  BY <1>2, Zenon DEF LoopType, EveryoneIsSomewhere
<1>4. /\ check(s) \in {"Ready", "NotReady", "TimedOut", "Failed"}
      /\ check(s) = "Ready" => s \in worked
  BY <1>3, CheckIs, Zenon DEF SignsAreTrue
<1>5. OsType' /\ SignsAreTrue'
  BY <1>2, SameOs, Zenon
<1>6. CallsType'
  BY <1>2, Zenon DEF CallsType
<1>7. LoopType'
  BY <1>1, <1>2, Zenon DEF LoopType
<1>8. CASE check(s) = "NotReady"
  <2>1. readiness_trackers' = readiness_trackers /\ UNCHANGED frontier
    BY <1>1, <1>8, Zenon
  <2>2. EveryoneIsSomewhere'
    BY <1>2, <2>1, Zenon DEF EveryoneIsSomewhere, frontier
  <2> QED
    BY <1>2, <1>6, <1>7, <2>1, <2>2, OnlyLoop, Zenon DEF frontier, F!vars
<1>9. CASE check(s) # "NotReady"
  <2>1. /\ readiness_trackers' = readiness_trackers \ {s}
        /\ (F!mark_ready(s) /\ s \in worked) \/ F!mark_failed(s)
    BY <1>1, <1>4, <1>9, Zenon
  <2>2. F!Next
    BY <1>3, <2>1, Zenon DEF F!Next
  <2>3. pending' = pending \ {s} /\ (ready' = ready \/ (s \in worked /\ ready' = ready \cup {s}))
    BY <2>1 DEF F!mark_ready, F!mark_failed
  <2>4. EveryoneIsSomewhere'
    BY <1>2, <1>3, <2>1, <2>3, Zenon DEF EveryoneIsSomewhere
  <2>5. ReadyHasWorked'
    BY <1>2, <2>3, Zenon DEF ReadyHasWorked, os
  <2> QED
    BY <1>5, <1>6, <1>7, <2>2, <2>4, <2>5, Zenon
<1> QED
  BY <1>8, <1>9, Zenon

-----------------------------------------------------------------------------
(***************************************************************************)
(* One step of Startup keeps the loop's invariant and is a step of the     *)
(* frontier or leaves it alone. That a pending service is not also waiting *)
(* to be handed out again is a fact of the frontier.                       *)
(***************************************************************************)
LEMMA LoopStep ==
  ASSUME LoopInv, [Next]_vars, \A s \in pending : ~(ready_to_start[s] > 0)
  PROVE  LoopInv' /\ [F!Next]_F!vars
<1>1. UNCHANGED frontier => [F!Next]_F!vars
  BY Zenon DEF frontier, F!vars
<1>2. CASE Svmgr
  BY <1>1, <1>2, ReapKeeps, NestedReapKeeps, StillAliveKeeps, StrategyKeeps, TakeKeeps, StartNextKeeps,
     SetUpKeeps, BatchStartedKeeps, PollKeeps, PollDoneKeeps, ControlKeeps, Zenon DEF Svmgr
<1>3. CASE UNCHANGED vars
  <2>1. UNCHANGED <<frontier, os, readiness, calls, setting_up>> /\ late' = late
    BY <1>3, Zenon DEF vars
  <2>2. LoopType' /\ EveryoneIsSomewhere'
    <3>1. late' \subseteq Services
      BY <2>1, Zenon DEF LoopInv, LoopType
    <3> QED
      BY <1>3, <3>1, SameLoop, Zenon DEF vars, LoopInv
  <2>3. CallsType'
    BY <2>1, Zenon DEF LoopInv, CallsType
  <2> QED
    BY <1>1, <2>1, <2>2, <2>3, OnlyLoop, Zenon
<1> QED
  BY <1>1, <1>2, <1>3, ExitKeeps, ReportKeeps, DeadlineKeeps, Zenon DEF Next

LEMMA LoopTypeFollows == F!TypeOK /\ LoopInv => TypeOK
<1> SUFFICES ASSUME F!TypeOK, LoopInv PROVE TypeOK
  OBVIOUS
<1>1. Call \subseteq [reaps : BOOLEAN, to_start : Seq(Services)]
  BY Zenon DEF Call
<1>2. \A R : Call \subseteq R => calls \in Seq(R)
  BY DEF LoopInv, CallsType
<1>3. calls \in Seq([reaps : BOOLEAN, to_start : Seq(Services)])
  BY <1>1, <1>2, ZenonT(30)
<1> QED
  BY <1>3, Zenon DEF LoopInv, LoopType, OsType, TypeOK

-----------------------------------------------------------------------------
(***************************************************************************)
(* The frontier's own invariant, in the state of the loop. F and FP are    *)
(* two instances of the same definitions, so each fact crosses from one to *)
(* the other by expanding both.                                            *)
(***************************************************************************)
FP == INSTANCE StartupFrontierProofs

LEMMA FrontierAssumptions ==
  /\ Defs \subseteq [Services -> FP!ServiceDef]
  /\ FP!IsFiniteSet(Services) /\ Services \subseteq Names
BY GraphAssumption, DefsAssumption, ZenonT(30) DEF FP!IsFiniteSet, IsFiniteSet, FP!ServiceDef, ServiceDef

LEMMA NewFrontier == F!Init => FP!IInv
<1> SUFFICES ASSUME F!Init PROVE FP!IInv
  OBVIOUS
<1>1. PICK defs \in Defs : graph = FP!build(defs)
  BY ZenonT(30) DEF F!Init, F!build, FP!build, F!DeclaredDeps, FP!DeclaredDeps
<1>2. \A S : F!Cardinality(S) = FP!Cardinality(S)
  BY ZenonT(30) DEF FP!Cardinality, F!Cardinality
<1>3. FP!New
  BY <1>2, Zenon DEF F!Init, F!New, FP!New
<1> QED
  BY <1>1, <1>3, FP!NewIInv, FrontierAssumptions, Zenon

LEMMA FrontierStep ==
  ASSUME FP!IInv, [F!Next]_F!vars
  PROVE  FP!IInv'
<1>2. F!take_ready => FP!take_ready
  BY Zenon DEF F!take_ready, FP!take_ready, F!has_ready, FP!has_ready
<1>3. ASSUME NEW s PROVE F!mark_ready(s) => FP!mark_ready(s)
  BY ZenonT(30) DEF F!mark_ready, FP!mark_ready, F!Release, FP!Release, F!Dec, FP!Dec
<1>4. ASSUME NEW s PROVE F!mark_failed(s) => FP!mark_failed(s)
  BY ZenonT(30) DEF F!mark_failed, FP!mark_failed, F!to_block, FP!to_block, F!ClosedFrom,
               FP!ClosedFrom, F!requirers, FP!requirers, F!Release, FP!Release, F!Dec, FP!Dec
<1>5. [FP!Next]_FP!vars
  BY <1>2, <1>3, <1>4, ZenonT(30) DEF F!Next, FP!Next, F!vars, FP!vars
<1> QED
  BY <1>5, FP!NextIInv, FrontierAssumptions, ZenonT(30)

LEMMA FrontierFacts ==
  ASSUME FP!IInv
  PROVE  /\ F!TypeOK /\ ready \subseteq Services /\ pending \subseteq Services
         /\ \A s \in pending : ~(ready_to_start[s] > 0)
         /\ \A s \in Services : taken[s] > 0 => graph.requires[s] \subseteq ready
<1>1. F!TypeOK /\ ready \subseteq Services /\ pending \subseteq Services
  BY ZenonT(30) DEF FP!IInv, FP!TypeOK, F!TypeOK, FP!Graph, F!Graph
<1>2. ASSUME NEW s \in pending PROVE ~(ready_to_start[s] > 0)
  BY <1>1, SMTT(30) DEF FP!IInv, FP!TypeOK, FP!Bookkeeping, FP!HandedOutOnce
<1>3. \A s \in Services : taken[s] > 0 => graph.requires[s] \subseteq ready
  BY Zenon DEF FP!IInv, FP!StartsAfterItsDependencies, FP!Released
<1> QED
  BY <1>1, <1>2, <1>3, Zenon

(* The inductive invariant: the frontier's and the loop's. *)
StartupInv == FP!IInv /\ LoopInv

LEMMA StartupInitInv == Init => StartupInv
BY LoopInitInv, NewFrontier, ZenonT(30) DEF Init, StartupInv

LEMMA StartupStep == StartupInv /\ [Next]_vars => StartupInv' /\ [F!Next]_F!vars
<1> SUFFICES ASSUME StartupInv, [Next]_vars PROVE StartupInv' /\ [F!Next]_F!vars
  BY Zenon
<1>1. LoopInv' /\ [F!Next]_F!vars
  BY LoopStep, FrontierFacts, Zenon DEF StartupInv
<1> QED
  BY <1>1, FrontierStep, ZenonT(30) DEF StartupInv

(* StartupInv is an invariant of the startup loop (main.rs). *)
THEOREM StartupInvariance == Spec => []StartupInv
BY StartupInitInv, StartupStep, PTL DEF Spec

(***************************************************************************)
(* The startup loop of svmgr (main.rs) uses the frontier (frontier.rs) as  *)
(* it promises to be used: whatever the services do, and however           *)
(* supervision restarts them meanwhile, every change of the frontier is    *)
(* one of its operations, called with a service that is pending.           *)
(***************************************************************************)
THEOREM LoopImplementsFrontier == Spec => ImplementsFrontier
<1>1. Init => F!Init
  BY Zenon DEF Init
<1> QED
  BY <1>1, StartupStep, StartupInvariance, PTL DEF Spec, ImplementsFrontier, F!Spec

(***************************************************************************)
(* A service that the frontier holds as pending is one the loop still has  *)
(* to set up, a one-shot whose exit it waits for, or has a readiness       *)
(* tracker: no order of exits, reports, deadlines and restarts leaves the  *)
(* startup loop waiting for a service nobody looks at.                     *)
(***************************************************************************)
THEOREM NobodyIsLost == Spec => []PendingIsWaitedFor
<1>1. StartupInv => PendingIsWaitedFor
  <2> SUFFICES ASSUME StartupInv PROVE PendingIsWaitedFor
    BY ZenonT(30)
  <2>1. TypeOK
    BY FrontierFacts, LoopTypeFollows, ZenonT(30) DEF StartupInv
  <2> QED
    BY <2>1, ZenonT(30) DEF StartupInv, LoopInv, EveryoneIsSomewhere, PendingIsWaitedFor
<1> QED
  BY <1>1, StartupInvariance, PTL

(***************************************************************************)
(* A service is handed out to be started only once everything it requires  *)
(* has really worked, in the sense of its readiness: the reports, exits    *)
(* and probes that the loop turned into mark_ready came from the service   *)
(* itself.                                                                 *)
(***************************************************************************)
THEOREM RequirementsHaveWorked == Spec => []RequiredHasWorked
<1>1. StartupInv => RequiredHasWorked
  BY FrontierFacts, ZenonT(30) DEF StartupInv, LoopInv, ReadyHasWorked, RequiredHasWorked
<1> QED
  BY <1>1, StartupInvariance, PTL
============================================================================

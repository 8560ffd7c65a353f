------------------------------- MODULE Startup -------------------------------
(***************************************************************************)
(* The startup loop of dynamod-svmgr (main.rs): it drives the frontier     *)
(* with what becomes of the processes it spawns.  A oneshot is ready when  *)
(* its process ends well, a service without a readiness check as soon as   *)
(* it is started, any other when its tracker (process/readiness.rs) says   *)
(* so or fails.  Meanwhile exits are supervised and commands are served,   *)
(* and both may start services and reap processes behind the back of the   *)
(* loop.                                                                   *)
(*                                                                         *)
(* The frontier is StartupFrontier, instantiated; supervision is reduced   *)
(* to which services an exit starts again, and whether it reaps first      *)
(* (Supervisor has the rest).  A process is the k-th of its service.       *)
(***************************************************************************)
EXTENDS DependencyGraph, Sequences, Functions

CONSTANTS
  Readiness,     \* how the services become ready: functions to ReadinessKinds
  Permanent,     \* the services restarted whenever they exit
  Group,         \* the children of a one-for-all supervisor, in start order
  Commands,      \* the commands operators send
  SpawnMayFail,
  MaxInstances,  \* bound: processes of one service at a time
  MaxRestarts,   \* bound: restarts by supervisors
  MaxCommands    \* bound: commands received

ReadinessKinds == {"oneshot", "none", "notify", "fd", "tcp-port"}
Procs == Services \X (1..MaxInstances)

None == "none"     \* no service; its name is not used for one

ASSUME StartupAssumption ==
  /\ None \notin Services
  /\ Readiness \subseteq [Services -> ReadinessKinds]
  /\ Group \in Seq(Services)

VARIABLES
  graph, unmet, ready_to_start, ready, pending, blocked, completed, taken,
  readiness,         \* how each service becomes ready
  pc,                \* where the loop is
  batch,             \* taken from the frontier, still to be started
  setting_up,        \* the member of batch that was just started, if any
  pending_oneshots, readiness_trackers,
  to_poll,           \* trackers still to be polled in this round
  calls,             \* supervision in progress, innermost last
  kernel,            \* of each process: "free", "alive", "ok" or "bad"
  reported,          \* live processes that are operational and said so
  heard,             \* per service: "no", "yes" or "closed", what a tracker sees
  writer,            \* per service: the live process that holds its ready fd, or
                     \* number 0
  late,              \* trackers whose timeout has passed
  restarts, commands,\* counters for the bounds
  started,           \* history: services that have had a process
  unstarted,         \* history: services the loop failed to start
  worked             \* history: services that have been operational

frontier == <<graph, unmet, ready_to_start, ready, pending, blocked, completed,
              taken>>
os == <<kernel, reported, heard, writer, started, unstarted, worked>>
vars == <<frontier, os, readiness, pc, batch, setting_up, pending_oneshots,
          readiness_trackers, to_poll, calls, late, restarts, commands>>

F == INSTANCE StartupFrontier WITH
  graph <- graph, unmet <- unmet, ready_to_start <- ready_to_start, ready <- ready,
  pending <- pending, blocked <- blocked, completed <- completed, taken <- taken

Idle == calls = <<>>
Top == calls[Len(calls)]
Zombies == {p \in Procs : kernel[p] \in {"ok", "bad"}}

-----------------------------------------------------------------------------
(* What the services do. *)
Exit(p) ==
  /\ kernel[p] = "alive"
  /\ \E status \in {"ok", "bad"} :
       /\ kernel' = [kernel EXCEPT ![p] = status]
       /\ worked' = IF status = "ok" /\ readiness[p[1]] = "oneshot"
                    THEN worked \cup {p[1]} ELSE worked
  /\ reported' = reported \ {p}
  /\ heard' = IF writer[p[1]] = p /\ heard[p[1]] = "no"
              THEN [heard EXCEPT ![p[1]] = "closed"] ELSE heard
  /\ writer' = [writer EXCEPT ![p[1]] = IF @ = p THEN <<p[1], 0>> ELSE @]
  /\ UNCHANGED <<frontier, started, unstarted, readiness, pc, batch, setting_up,
                 pending_oneshots, readiness_trackers, to_poll, calls, late,
                 restarts, commands>>

(* A service comes up and says so, once: READY=1 to the notify socket, which *)
(* is bound when the tracker is made, or a byte to the ready fd.             *)
Report(p) ==
  LET s == p[1]
  IN /\ kernel[p] = "alive" /\ p \notin reported
     /\ readiness[s] \in {"notify", "fd", "tcp-port"}
     /\ reported' = reported \cup {p}
     /\ worked' = worked \cup {s}
     /\ heard' = IF \/ readiness[s] = "notify" /\ s \in readiness_trackers
                    \/ readiness[s] = "fd" /\ writer[s] = p
                 THEN [heard EXCEPT ![s] = "yes"] ELSE heard
     /\ UNCHANGED <<frontier, kernel, writer, started, unstarted, readiness, pc,
                    batch, setting_up, pending_oneshots, readiness_trackers,
                    to_poll, calls, late, restarts, commands>>

Deadline(s) ==
  /\ s \in readiness_trackers \ late
  /\ late' = late \cup {s}
  /\ UNCHANGED <<frontier, os, readiness, pc, batch, setting_up, pending_oneshots,
                 readiness_trackers, to_poll, calls, restarts, commands>>

-----------------------------------------------------------------------------
FreeProcs(s) == {p \in Procs : p[1] = s /\ kernel[p] = "free"}

Spawn(s, p) ==
  /\ kernel' = [kernel EXCEPT ![p] = "alive"]
  /\ started' = started \cup {s}
  /\ worked' = IF readiness[s] = "none" THEN worked \cup {s} ELSE worked

(* start_worker by a supervisor or an operator: nobody keeps the ready fd. *)
start_worker(s) ==
  /\ \/ /\ FreeProcs(s) # {}
        /\ Spawn(s, CHOOSE p \in FreeProcs(s) : \A q \in FreeProcs(s) : p[2] <= q[2])
     \/ /\ SpawnMayFail \/ FreeProcs(s) = {}
        /\ UNCHANGED <<kernel, started, worked>>
  /\ UNCHANGED <<reported, heard, writer, unstarted>>

(* handle_child_exit: which services the strategy starts again.  A group is *)
(* stopped and reaped first.  Nobody is restarted once the intensity is     *)
(* exceeded.                                                                *)
handle_child_exit(s) ==
  \/ /\ s \in Permanent /\ restarts < MaxRestarts
     /\ restarts' = restarts + 1
     /\ calls' = Append(calls, IF s \in Range(Group)
                               THEN [reaps |-> TRUE, to_start |-> Group]
                               ELSE [reaps |-> FALSE, to_start |-> <<s>>])
  \/ /\ s \notin Permanent \/ restarts = MaxRestarts
     /\ UNCHANGED <<restarts, calls>>

Reaped(p) ==
  /\ kernel' = [kernel EXCEPT ![p] = "free"]
  /\ UNCHANGED <<reported, heard, writer, started, unstarted, worked>>

ReapSettlesImmediate(p) ==    \* a mutant: does not ask whether p is still pending
  /\ pc = "reap" /\ Idle /\ p \in Zombies
  /\ Reaped(p)
  /\ pending_oneshots' = pending_oneshots \ {p[1]}
  /\ IF readiness[p[1]] \in {"oneshot", "none"}
     THEN /\ IF kernel[p] = "ok" THEN F!mark_ready(p[1]) ELSE F!mark_failed(p[1])
          /\ UNCHANGED <<restarts, calls>>
     ELSE handle_child_exit(p[1]) /\ UNCHANGED frontier
  /\ UNCHANGED <<readiness, pc, batch, setting_up, readiness_trackers, to_poll,
                 late, commands>>

reap_oneshots_during_startup(p) ==
  /\ pc = "reap" /\ Idle /\ p \in Zombies
  /\ Reaped(p)
  /\ IF p[1] \in pending_oneshots
     THEN /\ pending_oneshots' = pending_oneshots \ {p[1]}
          /\ IF kernel[p] = "ok" THEN F!mark_ready(p[1]) ELSE F!mark_failed(p[1])
          /\ UNCHANGED <<restarts, calls>>
     ELSE /\ handle_child_exit(p[1])
          /\ UNCHANGED <<frontier, pending_oneshots>>
  /\ UNCHANGED <<readiness, pc, batch, setting_up, readiness_trackers, to_poll,
                 late, commands>>

(* The same in the calls of supervision and of RestartService: these do not *)
(* know the frontier.                                                       *)
reap_and_handle_exits(p) ==
  /\ ~Idle /\ Top.reaps /\ p \in Zombies
  /\ Reaped(p)
  /\ handle_child_exit(p[1])
  /\ UNCHANGED <<frontier, readiness, pc, batch, setting_up, pending_oneshots,
                 readiness_trackers, to_poll, late, commands>>

StillAlive ==
  /\ ~Idle /\ Top.reaps /\ Zombies = {}
  /\ calls' = [calls EXCEPT ![Len(calls)].reaps = FALSE]
  /\ UNCHANGED <<frontier, os, readiness, pc, batch, setting_up, pending_oneshots,
                 readiness_trackers, to_poll, late, restarts, commands>>

execute_strategy_action ==
  /\ ~Idle /\ ~Top.reaps
  /\ start_worker(Head(Top.to_start))
  /\ calls' = IF Len(Top.to_start) = 1 THEN SubSeq(calls, 1, Len(calls) - 1)
              ELSE [calls EXCEPT ![Len(calls)].to_start = Tail(@)]
  /\ UNCHANGED <<frontier, readiness, pc, batch, setting_up, pending_oneshots,
                 readiness_trackers, to_poll, late, restarts, commands>>

-----------------------------------------------------------------------------
(* One iteration of the loop. *)
TakeBatch ==
  /\ pc = "reap" /\ Idle /\ Zombies = {}
  /\ pc' = "start"
  /\ batch' = {s \in Services : ready_to_start[s] > 0}
  /\ IF F!has_ready THEN F!take_ready ELSE UNCHANGED frontier
  /\ UNCHANGED <<os, readiness, setting_up, pending_oneshots, readiness_trackers,
                 to_poll, calls, late, restarts, commands>>

(* start_worker by the loop, which keeps the ready fd for the tracker. *)
StartNext ==
  /\ pc = "start" /\ setting_up = None
  /\ \E s \in batch :
       /\ setting_up' = s
       /\ \/ \E p \in FreeProcs(s) :
               /\ \A q \in FreeProcs(s) : p[2] <= q[2]
               /\ Spawn(s, p)
               /\ writer' = [writer EXCEPT ![s] = p]
               /\ UNCHANGED <<heard, unstarted>>
          \/ /\ SpawnMayFail \/ FreeProcs(s) = {}
             /\ unstarted' = unstarted \cup {s}
             /\ heard' = [heard EXCEPT ![s] =
                            IF readiness[s] = "fd" THEN "closed" ELSE @]
             /\ UNCHANGED <<kernel, started, worked, writer>>
  /\ UNCHANGED <<frontier, reported, readiness, pc, batch, pending_oneshots,
                 readiness_trackers, to_poll, calls, late, restarts, commands>>

SetUpForgetsOneshots ==    \* a mutant: is_immediate alone decides
  /\ pc = "start" /\ setting_up # None
  /\ batch' = batch \ {setting_up} /\ setting_up' = None
  /\ IF readiness[setting_up] \in {"none", "oneshot"}
     THEN F!mark_ready(setting_up) /\ UNCHANGED readiness_trackers
     ELSE /\ readiness_trackers' = readiness_trackers \cup {setting_up}
          /\ UNCHANGED frontier
  /\ UNCHANGED <<os, readiness, pc, pending_oneshots, to_poll, calls, late, restarts,
                 commands>>

(* The tracker is made, which binds the notify socket, and decides. *)
SetUp ==
  /\ pc = "start" /\ setting_up # None
  /\ batch' = batch \ {setting_up} /\ setting_up' = None
  /\ CASE readiness[setting_up] = "oneshot" ->
            /\ pending_oneshots' = pending_oneshots \cup {setting_up}
            /\ UNCHANGED <<frontier, readiness_trackers>>
       [] readiness[setting_up] = "none" ->
            /\ F!mark_ready(setting_up)
            /\ UNCHANGED <<pending_oneshots, readiness_trackers>>
       [] OTHER ->
            /\ readiness_trackers' = readiness_trackers \cup {setting_up}
            /\ UNCHANGED <<frontier, pending_oneshots>>
  /\ UNCHANGED <<os, readiness, pc, to_poll, calls, late, restarts, commands>>

BatchStarted ==
  /\ pc = "start" /\ setting_up = None /\ batch = {}
  /\ pc' = "poll" /\ to_poll' = readiness_trackers
  /\ UNCHANGED <<frontier, os, readiness, batch, setting_up, pending_oneshots,
                 readiness_trackers, calls, late, restarts, commands>>

CheckNeverTimesOut(s) ==    \* a mutant: started_at is not looked at
  IF readiness[s] = "tcp-port"
  THEN IF \E p \in reported : p[1] = s THEN "Ready" ELSE "NotReady"
  ELSE CASE heard[s] = "yes" -> "Ready" [] heard[s] = "no" -> "NotReady"
         [] heard[s] = "closed" -> "Failed"

(* ReadinessTracker::check.  exec is like tcp-port: asked anew every time. *)
check(s) ==
  CASE s \in late -> "TimedOut"
    [] s \notin late /\ readiness[s] = "tcp-port" ->
         IF \E p \in reported : p[1] = s THEN "Ready" ELSE "NotReady"
    [] OTHER ->
         CASE heard[s] = "yes" -> "Ready" [] heard[s] = "no" -> "NotReady"
           [] heard[s] = "closed" -> "Failed"

PollForgetsToFail ==    \* a mutant: a timeout is not told to the frontier
  /\ pc = "poll"
  /\ \E s \in to_poll :
       /\ to_poll' = to_poll \ {s}
       /\ readiness_trackers' = IF check(s) = "NotReady" THEN readiness_trackers
                                ELSE readiness_trackers \ {s}
       /\ IF check(s) = "Ready" THEN F!mark_ready(s) ELSE UNCHANGED frontier
  /\ UNCHANGED <<os, readiness, pc, batch, setting_up, pending_oneshots, calls, late,
                 restarts, commands>>

Poll ==
  /\ pc = "poll"
  /\ \E s \in to_poll :
       /\ to_poll' = to_poll \ {s}
       /\ readiness_trackers' = IF check(s) = "NotReady" THEN readiness_trackers
                                ELSE readiness_trackers \ {s}
       /\ CASE check(s) = "Ready" -> F!mark_ready(s)
            [] check(s) \in {"TimedOut", "Failed"} -> F!mark_failed(s)
            [] check(s) = "NotReady" -> UNCHANGED frontier
  /\ UNCHANGED <<os, readiness, pc, batch, setting_up, pending_oneshots, calls, late,
                 restarts, commands>>

NoMoreWork ==
  ~F!has_ready /\ readiness_trackers = {} /\ pending_oneshots = {}

PollDone ==
  /\ pc = "poll" /\ to_poll = {}
  /\ pc' = IF NoMoreWork THEN "main" ELSE "control"
  /\ UNCHANGED <<frontier, os, readiness, batch, setting_up, pending_oneshots,
                 readiness_trackers, to_poll, calls, late, restarts, commands>>

(* dispatch_control_actions; RestartService reaps until the old process is  *)
(* gone or its deadline passes.                                             *)
Control ==
  /\ pc = "control" /\ pc' = "reap"
  /\ \/ UNCHANGED <<calls, commands>>
     \/ /\ commands < MaxCommands /\ commands' = commands + 1
        /\ \E s \in Services :
             \/ /\ "start" \in Commands
                /\ calls' = <<[reaps |-> FALSE, to_start |-> <<s>>]>>
             \/ /\ "restart" \in Commands
                /\ calls' = <<[reaps |-> \E p \in Procs : p[1] = s /\ kernel[p] # "free",
                               to_start |-> <<s>>]>>
  /\ UNCHANGED <<frontier, os, readiness, batch, setting_up, pending_oneshots,
                 readiness_trackers, to_poll, late, restarts>>

-----------------------------------------------------------------------------
Init ==
  /\ F!Init
  /\ readiness \in Readiness
  /\ pc = "reap" /\ batch = {} /\ setting_up = None
  /\ pending_oneshots = {} /\ readiness_trackers = {} /\ to_poll = {}
  /\ calls = <<>>
  /\ kernel = [p \in Procs |-> "free"] /\ reported = {}
  /\ heard = [s \in Services |-> "no"] /\ writer = [s \in Services |-> <<s, 0>>]
  /\ late = {} /\ restarts = 0 /\ commands = 0
  /\ started = {} /\ unstarted = {} /\ worked = {}

Svmgr ==
  \/ \E p \in Procs : reap_oneshots_during_startup(p) \/ reap_and_handle_exits(p)
  \/ StillAlive \/ execute_strategy_action
  \/ TakeBatch \/ StartNext \/ SetUp \/ BatchStarted \/ Poll \/ PollDone \/ Control

Next ==
  \/ Svmgr
  \/ \E p \in Procs : Exit(p) \/ Report(p)
  \/ \E s \in Services : Deadline(s)

(***************************************************************************)
(* svmgr runs, timeouts expire, and oneshots come to an end: nothing in    *)
(* the code limits how long a oneshot takes.  Nothing is assumed of the    *)
(* other services.                                                         *)
(***************************************************************************)
Spec ==
  /\ Init /\ [][Next]_vars
  /\ WF_vars(Svmgr)
  /\ \A s \in Services : WF_vars(Deadline(s))
  /\ \A p \in Procs : WF_vars(readiness[p[1]] = "oneshot" /\ Exit(p))

-----------------------------------------------------------------------------
TypeOK ==
  /\ F!TypeOK
  /\ readiness \in [Services -> ReadinessKinds]
  /\ pc \in {"reap", "start", "poll", "control", "main"}
  /\ batch \subseteq Services /\ setting_up \in batch \cup {None}
  /\ pending_oneshots \subseteq {s \in Services : readiness[s] = "oneshot"}
  /\ readiness_trackers \subseteq
       {s \in Services : readiness[s] \in {"notify", "fd", "tcp-port"}}
  /\ to_poll \subseteq readiness_trackers
  /\ calls \in Seq([reaps : BOOLEAN, to_start : Seq(Services)])
  /\ kernel \in [Procs -> {"free", "alive", "ok", "bad"}]
  /\ reported \subseteq Procs
  /\ heard \in [Services -> {"no", "yes", "closed"}]
  /\ late \subseteq Services

(***************************************************************************)
(* The loop uses the frontier as StartupFrontier assumes: it marks only    *)
(* services it has taken, and each of them once.  What is proved of the    *)
(* frontier therefore holds in the running loop.                           *)
(***************************************************************************)
ImplementsFrontier == F!Spec

(***************************************************************************)
(* Apart from the types: whatever the frontier has handed out and not      *)
(* heard of again is waited for, being about to be started, a pending      *)
(* oneshot, or tracked; and when the loop leaves for the main loop nobody  *)
(* is pending and nobody queued.                                           *)
(***************************************************************************)
PendingIsWaitedFor ==
  /\ TypeOK
  /\ pending = batch \cup pending_oneshots \cup readiness_trackers
  /\ pc = "main" => F!Quiet

(***************************************************************************)
(* A service is handed out only when everything it requires has really     *)
(* worked: the oneshots have ended well, the tracked services have         *)
(* reported, the others have been started.  The frontier alone knows only  *)
(* what it was told.  The one exception is a service without a readiness   *)
(* check that could not be started: the loop does not look at the result   *)
(* of start_worker and counts it as ready.                                 *)
(***************************************************************************)
RequiredHasWorked ==
  \A s \in Services : taken[s] > 0 =>
    \A d \in graph.requires[s] :
      d \in worked \/ (readiness[d] = "none" /\ d \in unstarted)

(***************************************************************************)
(* Startup comes to an end, and svmgr gets to its main loop, where init is *)
(* answered, unless it waits for a oneshot that has no process any more:   *)
(* one that could not be started, or that supervision has reaped.          *)
(***************************************************************************)
Lost(s) == s \in pending_oneshots /\ \A p \in Procs : p[1] = s => kernel[p] = "free"

StartupEnds == <>(pc = "main" \/ \E s \in Services : Lost(s))
=============================================================================

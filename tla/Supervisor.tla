----------------------------- MODULE Supervisor -----------------------------
(***************************************************************************)
(* Supervision in dynamod-svmgr after startup: the tree of supervisors and *)
(* workers (supervisor/tree.rs), the restart strategies                    *)
(* (supervisor/strategy.rs), and the main loop that reaps children and     *)
(* executes operator commands (main.rs).                                   *)
(*                                                                         *)
(* svmgr has one thread, but its handlers sleep and call each other:       *)
(* handle_child_exit executes a strategy, which stops children, sleeps,    *)
(* and reaps, which handles further exits.  `stack` is that call stack.    *)
(* Processes exit between any two steps of it.                             *)
(*                                                                         *)
(* The kernel's process table is external.  Process ids are reused as soon *)
(* as they are reaped.  `owner` is the ground truth of whose process a pid *)
(* is, which svmgr knows only through pid_map and the pid field of its     *)
(* workers.                                                                *)
(***************************************************************************)
EXTENDS Naturals, Sequences, Functions

CONSTANTS
  Workers, Supervisors,
  Parent,        \* the supervisor of each node; None for the root
  Strategies,    \* choices of "OneForOne", "OneForAll" or "RestForOne" per supervisor
  max_restarts,  \* per supervisor
  restart_policy,\* "Permanent", "Transient" or "Temporary", per worker
  Loaded,        \* the children of each supervisor at startup, in start order
  Pids, None,
  Commands,      \* the commands operators send
  MaxSpawns,     \* bound: successful spawns after startup
  MaxCommands    \* bound: commands received

ASSUME SupervisorAssumption ==
  /\ None \notin Workers \cup Pids
  /\ Strategies \subseteq [Supervisors -> {"OneForOne", "OneForAll", "RestForOne"}]
  /\ max_restarts \in [Supervisors -> Nat]
  /\ \A w \in Workers : Parent[w] \in Supervisors
  /\ Loaded \in [Supervisors -> Seq(Workers \cup Supervisors)]
  /\ \A s \in Supervisors :
       IsInjective(Loaded[s]) /\ \A w \in Workers \cap Range(Loaded[s]) : Parent[w] = s

VARIABLES
  strategy,   \* of each supervisor, as configured
  children,   \* of each supervisor, in start order
  state,      \* ServiceState of each worker
  pid,        \* the pid field of each worker, or None
  pid_map,    \* pid -> worker
  recent,     \* timestamps in the restart window of each supervisor
  stack,      \* the calls in progress, innermost last
  kernel,     \* per pid: "free", "alive", "ok" or "bad" (zombies)
  owner,      \* the worker a process was spawned for
  termed,     \* live processes that have been sent SIGTERM
  on_disk,    \* the workers that have a definition file now
  spawned, commands, \* counters for the bounds
  spawn_failed,      \* history: the last start of the worker failed
  commanded          \* history: the workers an operator has started or restarted

tree == <<strategy, children, state, pid, pid_map, recent>>
os == <<kernel, owner, termed, spawned>>
vars == <<strategy, children, state, pid, pid_map, recent, stack, kernel, owner,
          termed, on_disk, spawned, commands, spawn_failed, commanded>>

all_workers == Workers \cap UNION {Range(children[s]) : s \in Supervisors}

LoadedWorkers == Workers \cap UNION {Range(Loaded[s]) : s \in Supervisors}

Zombie(p) == kernel[p] \in {"ok", "bad"}

-----------------------------------------------------------------------------
(* The calls in progress. *)
ReapCall == [call |-> "reap_and_handle_exits"]
ExecuteCall(sup, to_start) ==
  [call |-> "execute_strategy_action", sup |-> sup, to_start |-> to_start]
RestartCall(w, old_pid) ==
  [call |-> "RestartService", name |-> w, old_pid |-> old_pid]
ReloadCall(add, remove) ==
  [call |-> "reload_services", add |-> add, remove |-> remove]

Idle == stack = <<>>
Top == stack[Len(stack)]
In(call) == ~Idle /\ Top.call = call
Callers == SubSeq(stack, 1, Len(stack) - 1)
Replace(frame) == Append(Callers, frame)

-----------------------------------------------------------------------------
Init ==
  /\ strategy \in Strategies
  /\ children = Loaded
  /\ pid \in {f \in [Workers -> Pids \cup {None}] :
                /\ \A w \in Workers : f[w] = None <=> w \notin LoadedWorkers
                /\ \A v, w \in LoadedWorkers : f[v] = f[w] => v = w}
  /\ state = [w \in Workers |-> IF pid[w] = None THEN "Stopped" ELSE "Running"]
  /\ pid_map = [p \in Pids |-> IF \E w \in Workers : pid[w] = p
                               THEN CHOOSE w \in Workers : pid[w] = p ELSE None]
  /\ owner = pid_map
  /\ kernel = [p \in Pids |-> IF owner[p] = None THEN "free" ELSE "alive"]
  /\ termed = {}
  /\ recent = [s \in Supervisors |-> 0]
  /\ stack = <<>>
  /\ on_disk = LoadedWorkers
  /\ spawned = 0 /\ commands = 0
  /\ spawn_failed = {} /\ commanded = {}

-----------------------------------------------------------------------------
(* What the kernel and the services do. *)
Exit(p) ==
  /\ kernel[p] = "alive"
  /\ \E status \in {"ok", "bad"} : kernel' = [kernel EXCEPT ![p] = status]
  /\ termed' = termed \ {p}
  /\ UNCHANGED <<tree, stack, owner, on_disk, spawned, commands, spawn_failed,
                 commanded>>

(* Somebody edits the directory of service definitions. *)
EditConfig ==
  /\ "reload" \in Commands /\ commands < MaxCommands
  /\ \E files \in SUBSET Workers : on_disk' = files
  /\ on_disk' # on_disk
  /\ commands' = commands + 1
  /\ UNCHANGED <<tree, os, stack, spawn_failed, commanded>>

(* kill(pid, SIGTERM) for each pid of a set. *)
Sigterm(P) == termed \cup {p \in P \cap Pids : kernel[p] = "alive"}

-----------------------------------------------------------------------------
(* tree.rs *)
RegisterForgetsPidMap(w, p) ==    \* a mutant: only the worker is told
  /\ pid' = [pid EXCEPT ![w] = p]
  /\ state' = [state EXCEPT ![w] = "Running"]
  /\ UNCHANGED pid_map

register_pid(w, p) ==
  /\ pid' = [pid EXCEPT ![w] = p]
  /\ state' = [state EXCEPT ![w] = "Running"]
  /\ pid_map' = [pid_map EXCEPT ![p] = w]

unregister_pid(p) == pid_map' = [pid_map EXCEPT ![p] = None]

(* The last child of its supervisor; a node of that name must not exist. *)
add_worker(w) ==
  /\ w \notin all_workers
  /\ children' = [children EXCEPT ![Parent[w]] = Append(@, w)]

(***************************************************************************)
(* start_worker spawns and registers a process, whatever the worker is     *)
(* doing, or fails to spawn one.  It leaves pid alone when it fails.       *)
(***************************************************************************)
start_worker(w) ==
  \/ /\ spawned < MaxSpawns
     /\ \E p \in Pids :
          /\ kernel[p] = "free"
          /\ kernel' = [kernel EXCEPT ![p] = "alive"]
          /\ owner' = [owner EXCEPT ![p] = w]
          /\ register_pid(w, p)
     /\ spawned' = spawned + 1
     /\ spawn_failed' = spawn_failed \ {w}
     /\ UNCHANGED termed
  \/ /\ state' = [state EXCEPT ![w] = "Failed"]
     /\ spawn_failed' = spawn_failed \cup {w}
     /\ UNCHANGED <<pid, pid_map, os>>

stop_worker(w) ==
  /\ termed' = Sigterm({pid[w]})
  /\ state' = [state EXCEPT ![w] = IF pid[w] = None THEN @ ELSE "Stopping"]

-----------------------------------------------------------------------------
(* strategy.rs.  to_stop and to_start list children, supervisors included; *)
(* only workers are stopped and started.                                   *)
should_restart(policy, is_normal) ==
  \/ policy = "Permanent"
  \/ policy = "Transient" /\ ~is_normal

reverse(seq) == [i \in 1..Len(seq) |-> seq[Len(seq) + 1 - i]]

apply_one_for_one(child) == [to_stop |-> <<>>, to_start |-> <<child>>]

apply_one_for_all(siblings) ==
  [to_stop |-> reverse(siblings), to_start |-> siblings]

apply_rest_for_one(siblings, child) ==
  LET failed_idx == CHOOSE i \in 1..Len(siblings) : siblings[i] = child
      affected == SubSeq(siblings, failed_idx, Len(siblings))
  IN  [to_stop |-> reverse(affected), to_start |-> affected]

StrategyRestartsNobody(sup, child) ==    \* a mutant: an empty to_start
  [to_stop |-> reverse(children[sup]), to_start |-> <<>>]

StrategyRestartsTwice(sup, child) ==     \* a mutant: the child listed twice
  [to_stop |-> <<>>, to_start |-> <<child, child>>]

StrategyAction(sup, child) ==
  CASE strategy[sup] = "OneForOne" -> apply_one_for_one(child)
    [] strategy[sup] = "OneForAll" -> apply_one_for_all(children[sup])
    [] strategy[sup] = "RestForOne" -> apply_rest_for_one(children[sup], child)

(* The window is a matter of RestartIntensity: any number of timestamps    *)
(* may have expired since the last restart.  Counts beyond the limit are   *)
(* not told apart.                                                         *)
AfterRestart(sup) ==
  {IF n > max_restarts[sup] THEN max_restarts[sup] + 1 ELSE n :
     n \in 1..(recent[sup] + 1)}

IsRunning(w) == state[w] = "Running"

(***************************************************************************)
(* handle_child_exit for the zombie p, with the stops of                   *)
(* execute_strategy_action.  A worker that is not registered for p leaves  *)
(* nothing to do; neither does a worker its policy does not restart.       *)
(***************************************************************************)
Deregister(p, w) ==
  /\ kernel' = [kernel EXCEPT ![p] = "free"]
  /\ owner' = [owner EXCEPT ![p] = None]
  /\ unregister_pid(p)
  /\ pid' = IF w = None THEN pid ELSE [pid EXCEPT ![w] = None]
  /\ UNCHANGED <<strategy, children, spawned, commands, on_disk, spawn_failed, commanded>>

AfterExit(p, w) ==
  [state EXCEPT ![w] = IF kernel[p] = "ok" THEN "Stopped" ELSE "Failed"]

NoRestart(p, w) ==
  /\ state' = IF w = None THEN state ELSE AfterExit(p, w)
  /\ UNCHANGED <<recent, stack, termed>>

(* It applies the strategy of the parent to a supervisor, for which        *)
(* get_worker is None: nobody is stopped and nobody started.               *)
escalate_failure == UNCHANGED <<stack, termed>>

GiveUp(p, w, sup) ==
  /\ max_restarts[sup] + 1 \in AfterRestart(sup)
  /\ recent' = [recent EXCEPT ![sup] = max_restarts[sup] + 1]
  /\ state' = [v \in Workers |-> IF v \in Range(children[sup]) THEN "Abandoned"
                                  ELSE AfterExit(p, w)[v]]
  /\ escalate_failure

Supervise(p, w, sup) ==
  LET action == StrategyAction(sup, w)
      stops == {v \in (Range(action.to_stop) \cap Workers) \ {w} : IsRunning(v)}
      execute == ExecuteCall(sup, action.to_start)
  IN  /\ \E n \in AfterRestart(sup) \cap 1..max_restarts[sup] :
           recent' = [recent EXCEPT ![sup] = n]
      /\ termed' = Sigterm({pid[v] : v \in stops})
      /\ state' = [v \in Workers |-> IF v \in stops THEN "Stopping"
                                     ELSE AfterExit(p, w)[v]]
      /\ stack' = IF action.to_stop = <<>> THEN Append(stack, execute)
                   ELSE Append(Append(stack, execute), ReapCall)

handle_child_exit(p) ==
  LET w == pid_map[p]
  IN  /\ Deregister(p, w)
      /\ IF w = None \/ ~should_restart(restart_policy[w], kernel[p] = "ok")
         THEN NoRestart(p, w)
         ELSE GiveUp(p, w, Parent[w]) \/ Supervise(p, w, Parent[w])

-----------------------------------------------------------------------------
(* The steps of the main loop and of the calls in progress. *)
MainLoopReaps ==
  /\ Idle
  /\ \E p \in Pids : Zombie(p)    \* otherwise nothing happens
  /\ stack' = <<ReapCall>>
  /\ UNCHANGED <<tree, os, on_disk, commands, spawn_failed, commanded>>

Waitpid ==
  /\ In("reap_and_handle_exits")
  /\ \E p \in Pids : Zombie(p) /\ handle_child_exit(p)

StillAlive ==
  /\ In("reap_and_handle_exits")
  /\ \A p \in Pids : ~Zombie(p)
  /\ stack' = Callers
  /\ UNCHANGED <<tree, os, on_disk, commands, spawn_failed, commanded>>

(* One child of to_start, after its restart delay. *)
ExecuteStarts ==
  /\ In("execute_strategy_action") /\ Top.to_start # <<>>
  /\ stack' = Replace(ExecuteCall(Top.sup, Tail(Top.to_start)))
  /\ IF Head(Top.to_start) \in all_workers
     THEN start_worker(Head(Top.to_start))
     ELSE UNCHANGED <<state, pid, pid_map, os, spawn_failed>>
  /\ UNCHANGED <<strategy, children, recent, on_disk, commands, commanded>>

ExecuteDone ==
  /\ In("execute_strategy_action") /\ Top.to_start = <<>>
  /\ stack' = Callers
  /\ UNCHANGED <<tree, os, on_disk, commands, spawn_failed, commanded>>

(* dispatch_control_actions.  A name that is not in the tree is refused.   *)
Receive(command) ==
  /\ Idle /\ command \in Commands /\ commands < MaxCommands
  /\ commands' = commands + 1

StartService(w) ==
  /\ Receive("start") /\ w \in all_workers
  /\ start_worker(w)
  /\ commanded' = commanded \cup {w}
  /\ UNCHANGED <<strategy, children, recent, stack, on_disk>>

StopService(w) ==
  /\ Receive("stop") /\ w \in all_workers
  /\ stop_worker(w)
  /\ UNCHANGED <<strategy, children, pid, pid_map, recent, stack, kernel, owner, on_disk,
                 spawned, spawn_failed, commanded>>

RestartService(w) ==
  /\ Receive("restart") /\ w \in all_workers
  /\ stop_worker(w)
  /\ stack' = IF pid[w] = None THEN <<RestartCall(w, None)>>
               ELSE <<RestartCall(w, pid[w]), ReapCall>>
  /\ commanded' = commanded \cup {w}
  /\ UNCHANGED <<strategy, children, pid, pid_map, recent, kernel, owner, on_disk,
                 spawned, spawn_failed>>

(* Back from reaping: the old process is still there and time is left.     *)
RestartWaits ==
  /\ In("RestartService") /\ Top.old_pid # None
  /\ pid[Top.name] = Top.old_pid
  /\ stack' = Append(stack, ReapCall)
  /\ UNCHANGED <<tree, os, on_disk, commands, spawn_failed, commanded>>

(* The old process is gone, or the deadline has passed: start a new one.   *)
RestartStarts ==
  /\ In("RestartService")
  /\ start_worker(Top.name)
  /\ stack' = Callers
  /\ UNCHANGED <<strategy, children, recent, on_disk, commands, commanded>>

(* reload_services compares the files with the workers of the tree once,   *)
(* then adds and starts the new ones and stops the removed ones, which     *)
(* stay in the tree.                                                       *)
Reload ==
  /\ Receive("reload")
  /\ stack' = <<ReloadCall(on_disk \ all_workers, all_workers \ on_disk)>>
  /\ UNCHANGED <<tree, os, on_disk, spawn_failed, commanded>>

ReloadAdds ==
  /\ In("reload_services")
  /\ \E w \in Top.add :
       /\ add_worker(w)
       /\ start_worker(w)
       /\ stack' = Replace(ReloadCall(Top.add \ {w}, Top.remove))
  /\ UNCHANGED <<strategy, recent, on_disk, commands, commanded>>

ReloadRemoves ==
  /\ In("reload_services") /\ Top.add = {}
  /\ \E w \in Top.remove :
       /\ stop_worker(w)
       /\ stack' = Replace(ReloadCall(Top.add, Top.remove \ {w}))
  /\ UNCHANGED <<strategy, children, pid, pid_map, recent, kernel, owner, on_disk,
                 spawned, commands, spawn_failed, commanded>>

ReloadDone ==
  /\ In("reload_services") /\ Top.add = {} /\ Top.remove = {}
  /\ stack' = Callers
  /\ UNCHANGED <<tree, os, on_disk, commands, spawn_failed, commanded>>

Svmgr ==
  \/ MainLoopReaps \/ Waitpid \/ StillAlive \/ ExecuteStarts \/ ExecuteDone
  \/ RestartWaits \/ RestartStarts \/ ReloadAdds \/ ReloadRemoves \/ ReloadDone

Operator ==
  \/ \E w \in Workers : StartService(w) \/ StopService(w) \/ RestartService(w)
  \/ Reload

Next == Svmgr \/ Operator \/ EditConfig \/ \E p \in Pids : Exit(p)

(***************************************************************************)
(* svmgr runs whenever it can; while it waits for a restarted service, the *)
(* deadline passes in the end.  Nothing is assumed of services or          *)
(* operators.                                                              *)
(***************************************************************************)
Spec == Init /\ [][Next]_vars /\ WF_vars(Svmgr) /\ SF_vars(RestartStarts)

-----------------------------------------------------------------------------
TypeOK ==
  /\ strategy \in Strategies
  /\ children \in [Supervisors -> Seq(Workers \cup Supervisors)]
  /\ \A s \in Supervisors : IsInjective(children[s])
  /\ state \in [Workers -> {"Stopped", "Running", "Stopping", "Failed", "Abandoned"}]
  /\ pid \in [Workers -> Pids \cup {None}]
  /\ pid_map \in [Pids -> Workers \cup {None}]
  /\ recent \in [Supervisors -> Nat]
  /\ kernel \in [Pids -> {"free", "alive", "ok", "bad"}]
  /\ owner \in [Pids -> Workers \cup {None}]
  /\ termed \subseteq Pids
  /\ on_disk \subseteq Workers
  /\ spawn_failed \subseteq Workers /\ commanded \subseteq Workers

(***************************************************************************)
(* svmgr's book of processes agrees with the kernel's, although pids are   *)
(* reused and a service may have several processes: an exit is charged to  *)
(* the service whose process it was, and to nobody once it is reaped; the  *)
(* pid that signals go to is a process of that very service; and what      *)
(* dynamodctl shows as running or stopping has a process.                  *)
(***************************************************************************)
BookAgrees ==
  /\ TypeOK
  /\ \A p \in Pids : pid_map[p] = owner[p]
  /\ \A w \in Workers : pid[w] # None => kernel[pid[w]] # "free" /\ owner[pid[w]] = w
  /\ \A w \in Workers : state[w] \in {"Running", "Stopping"} => pid[w] # None

(***************************************************************************)
(* A permanent service without a process is not forgotten: its supervisor  *)
(* has given up on it, or its last start failed, or one of the calls in    *)
(* progress is about to start it.                                          *)
(***************************************************************************)
AboutToStart(w) ==
  \E i \in 1..Len(stack) :
    \/ stack[i].call = "execute_strategy_action" /\ w \in Range(stack[i].to_start)
    \/ stack[i].call = "RestartService" /\ stack[i].name = w

PermanentIsNotForgotten ==
  \A w \in all_workers :
    restart_policy[w] = "Permanent" /\ pid[w] = None
      => state[w] = "Abandoned" \/ w \in spawn_failed \/ AboutToStart(w)

(***************************************************************************)
(* A service of a one-for-one supervisor has at most one process as long   *)
(* as no operator has started or restarted it.  start_worker does not look *)
(* whether the service is running, so this rests on who calls it: the exit *)
(* of the only process, and a reload that has just added the service.      *)
(***************************************************************************)
Instances(w) == {p \in Pids : kernel[p] = "alive" /\ owner[p] = w}

AtMostOneInstance ==
  \A w \in Workers :
    strategy[Parent[w]] = "OneForOne" /\ w \notin commanded
      => \A p, q \in Instances(w) : p = q

(***************************************************************************)
(* A permanent service that has lost its process gets one again, unless    *)
(* its supervisor gives up or the start fails, whatever calls are nested   *)
(* between the exit and the start.                                         *)
(***************************************************************************)
PermanentComesBack ==
  \A w \in Workers :
    (w \in all_workers /\ restart_policy[w] = "Permanent" /\ pid[w] = None)
      ~> (pid[w] # None \/ state[w] = "Abandoned" \/ w \in spawn_failed)

(***************************************************************************)
(* README.md:137: "dynamodctl restart myapp     # Restart it".  A restart  *)
(* starts the service unless something has started it already; only when   *)
(* the old process outlives the deadline may a second one join it.  The    *)
(* exit the restart waits for is handled like any other, so the supervisor *)
(* of a permanent service starts it, and RestartService starts it again.   *)
(***************************************************************************)
RestartStartsOnce ==
  [][RestartStarts => pid[Top.name] \in {None, Top.old_pid}]_vars
=============================================================================

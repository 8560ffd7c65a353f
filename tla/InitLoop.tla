------------------------------ MODULE InitLoop ------------------------------
(***************************************************************************)
(* dynamod-init, PID 1: the epoll loop (event_loop.zig), the child it      *)
(* babysits (child.zig), the emergency shell and the final shutdown.       *)
(*                                                                         *)
(* The service manager, the kernel and the operator are the environment.   *)
(* svmgr is what main.rs shows of it on the init socket: it boots, serves, *)
(* and stops the services when told to, by dynamodctl or by init; it can   *)
(* die at any time.  The signals init reads from its signalfd are blocked  *)
(* before svmgr is forked, the mask survives fork and exec, and nothing    *)
(* unblocks them: a SIGTERM sent to svmgr stays pending in it.             *)
(*                                                                         *)
(* One epoll_pwait returns everything that is ready, in an order the       *)
(* kernel chooses; the events are then handled one after the other, and a  *)
(* handler may replace the child that a later event was about.             *)
(*                                                                         *)
(* Uptimes are measured in classes: 0 is below the rapid-failure limit     *)
(* (30 s), 1 below the post-emergency grace (60 s), 2 above it.            *)
(***************************************************************************)
EXTENDS Naturals, Sequences, FiniteSets, Functions

CONSTANTS
  NoKind,
  Threshold,    \* svmgr_rapid_failure_threshold
  MaxMessages,  \* bound: messages queued towards init
  MaxSignals,   \* bound: signals from outside, and settings of the clock
  Faults        \* the combinations of faults considered, see Fault

(* The kernel has no pidfd_open; fork or socketpair can fail; the wall clock *)
(* is set while svmgr runs.                                                 *)
Fault == {"no_pidfd", "spawn_fails", "clock_is_set"}

ASSUME InitLoopAssumption ==
  /\ Threshold \in Nat \ {0} /\ MaxMessages \in Nat \ {0} /\ MaxSignals \in Nat
  /\ Faults \subseteq SUBSET Fault

VARIABLES
  svmgr,      \* the process, see Managers
  stopping,   \* the ShutdownKind svmgr was told by dynamodctl, or NoKind
  to_init, to_svmgr,     \* the two directions of the socket pair
  sigs, sent,            \* pending signals of PID 1; MaxSignals used up
  age, seen,  \* uptime class of svmgr: real, and by the wall clock
  fault_set,  \* what can go wrong in this run
  has_pid, rapid_failure_count, intentional_stop, backoff_ms, \* child.zig
  registered, \* the child's descriptors in the epoll set
  pc, events, \* where the loop is, and the events of the batch still to do
  shutdown_requested, post_emergency_armed, pending_emergency,
  shells,     \* history: crash-loop shells since svmgr last proved stable
  asked       \* history: a shutdown has been asked for

manager == <<svmgr, stopping, to_init, to_svmgr, age, seen>>
child == <<has_pid, rapid_failure_count, intentional_stop, backoff_ms, registered>>
flags == <<shutdown_requested, post_emergency_armed, pending_emergency>>
loop_vars == <<manager, sigs, sent, fault_set, child, pc, events, flags, shells, asked>>

svmgr_restart_initial_ms == 500
svmgr_restart_max_ms == 30000

Kinds == {"poweroff", "reboot"}
Messages == {"Heartbeat"} \cup Kinds   \* a kind stands for RequestShutdown
Signals == {"USR1", "USR2", "TERM", "CHLD"}  \* SIGINT is handled as SIGTERM
Live == {"boot", "main", "draining", "leaving"}
Managers == Live \cup {"zombie", "gone"}
Alive == svmgr \in Live

-----------------------------------------------------------------------------
(* svmgr, the operator and the kernel. *)
SvmgrSteps ==
  /\ pc # "off"
  /\ \/ /\ svmgr = "boot" /\ svmgr' = "main"
        /\ UNCHANGED <<stopping, to_init, to_svmgr, asked>>
     \/ /\ svmgr = "main" /\ Len(to_init) < MaxMessages
        /\ to_init' = Append(to_init, "Heartbeat")
        /\ UNCHANGED <<svmgr, stopping, to_svmgr, asked>>
     \/ /\ svmgr = "main" /\ to_svmgr
        /\ to_svmgr' = FALSE /\ svmgr' = "draining" /\ stopping' = NoKind
        /\ UNCHANGED <<to_init, asked>>
     \/ /\ svmgr = "draining" /\ svmgr' = "leaving"
        /\ to_init' = to_init \o (IF stopping = NoKind THEN <<>> ELSE <<stopping>>)
        /\ asked' = (asked \/ stopping # NoKind) /\ stopping' = NoKind
        /\ UNCHANGED to_svmgr
  /\ UNCHANGED <<sigs, sent, age, seen, fault_set, child, pc, events, flags,
                 shells>>

(* dynamodctl shutdown; the control socket is served during startup too. *)
Dynamodctl ==
  /\ pc # "off" /\ svmgr \in {"boot", "main"} /\ svmgr' = "draining"
  /\ stopping' \in Kinds
  /\ UNCHANGED <<to_init, to_svmgr, sigs, sent, age, seen, fault_set, child, pc,
                 events, flags, shells, asked>>

SvmgrExits ==
  /\ Alive /\ svmgr' = "zombie" /\ stopping' = NoKind
  /\ sigs' = sigs \cup {"CHLD"}
  /\ UNCHANGED <<to_init, to_svmgr, sent, age, seen, fault_set, child,
                 pc, events, flags, shells, asked>>

Signal(s) ==
  /\ pc # "off" /\ sent < MaxSignals /\ sent' = sent + 1
  /\ sigs' = sigs \cup {s}
  /\ asked' = (asked \/ s \in {"TERM", "USR1"})
  /\ UNCHANGED <<manager, fault_set, child, pc, events, flags, shells>>

(* read() on the init socket has nothing to return. *)
NothingToRead == to_init = <<>> /\ Alive

(* Time passes while init waits, in epoll_pwait or in a read that blocks. *)
Tick ==
  /\ pc = "wait" \/ (pc = "batch" /\ events # <<>> /\ Head(events) = "init_sock"
                       /\ NothingToRead)
  /\ has_pid /\ age < 2 /\ age' = age + 1
  /\ seen' = IF seen < 2 THEN seen + 1 ELSE seen
  /\ shells' = IF age' = 2 THEN 0 ELSE shells
  /\ UNCHANGED <<svmgr, stopping, to_init, to_svmgr, sigs, sent, fault_set, child,
                 pc, events, flags, asked>>

ClockIsSet ==
  /\ "clock_is_set" \in fault_set /\ pc = "wait" /\ Alive /\ seen' \in 0..2 /\ seen' # seen
  /\ sent < MaxSignals /\ sent' = sent + 1
  /\ UNCHANGED <<svmgr, stopping, to_init, to_svmgr, sigs, age, fault_set,
                 child, pc, events, flags, shells, asked>>

-----------------------------------------------------------------------------
(* child.zig *)
pidfd_ok == "no_pidfd" \notin fault_set

getPidfd == has_pid /\ pidfd_ok

(* The descriptors registerSvmgr adds for a child that has just been spawned. *)
registerSvmgr == {"init_sock"} \cup (IF pidfd_ok THEN {"svmgr_pidfd"} ELSE {})

(* spawn followed by registerSvmgr, as both of its callers do. *)
spawn ==
  /\ svmgr' = "boot" /\ stopping' = NoKind
  /\ to_init' = <<>> /\ to_svmgr' = FALSE
  /\ age' = 0 /\ seen' = 0
  /\ has_pid' = TRUE /\ registered' = registerSvmgr
  /\ backoff_ms' = svmgr_restart_initial_ms

(* The rapid-failure count onExit leaves behind. *)
onExitCount ==
  CASE intentional_stop -> rapid_failure_count
    [] ~intentional_stop /\ seen = 0 -> rapid_failure_count + 1
    [] OTHER -> 0

onExitBackoff ==
  IF backoff_ms * 2 < svmgr_restart_max_ms THEN backoff_ms * 2 ELSE svmgr_restart_max_ms

CrashLoopOffByOne(count) ==    \* a mutant: one rapid failure more is tolerated
  count > Threshold

isInCrashLoop(count) == count >= Threshold

GraceForgotten == TRUE    \* a mutant: every exit after the shell counts

(* The uptime handleSvmgrExit compares with the grace. *)
WithinGrace == seen < 2

-----------------------------------------------------------------------------
(* event_loop.zig.  The child is dead; its process is left as corpse unless *)
(* a new one is spawned.                                                    *)
Gone(corpse) ==
  /\ svmgr' = corpse /\ has_pid' = FALSE /\ registered' = {}
  /\ to_init' = <<>> /\ to_svmgr' = FALSE
  /\ backoff_ms' = onExitBackoff
  /\ stopping' = NoKind /\ age' = 0 /\ seen' = 0

handleSvmgrExit(corpse) ==
  LET count == onExitCount IN
  /\ rapid_failure_count' = count
  /\ intentional_stop' = FALSE
  /\ \/ /\ pending_emergency /\ pending_emergency' = FALSE
        /\ pc' = "shell" /\ shells' = 0
        /\ Gone(corpse)
        /\ UNCHANGED <<shutdown_requested, post_emergency_armed>>
     \/ /\ ~pending_emergency /\ post_emergency_armed /\ WithinGrace
        /\ shutdown_requested' = "reboot"
        /\ Gone(corpse)
        /\ UNCHANGED <<pc, post_emergency_armed, pending_emergency, shells>>
     \/ /\ ~pending_emergency /\ (post_emergency_armed => ~WithinGrace)
        /\ post_emergency_armed' = FALSE
        /\ \/ /\ isInCrashLoop(count)
              /\ pc' = "shell" /\ shells' = IF shells < 2 THEN shells + 1 ELSE 2
              /\ Gone(corpse)
           \/ /\ ~isInCrashLoop(count)
              /\ (spawn \/ ("spawn_fails" \in fault_set /\ Gone(corpse)))
              /\ UNCHANGED <<pc, shells>>
        /\ UNCHANGED <<shutdown_requested, pending_emergency>>

(* enterEmergencyMode blocks in the shell (pc = "shell", with the wait loop *)
(* of runShell reaping everything) and goes on from here when it exits.     *)
ShellForgetsToArm ==    \* a mutant: the post-emergency check is not armed
  /\ pc = "shell" /\ pc' = "batch"
  /\ rapid_failure_count' = 0
  /\ \/ spawn /\ UNCHANGED shutdown_requested
     \/ /\ "spawn_fails" \in fault_set /\ shutdown_requested' = "reboot" /\ svmgr' = "gone"
        /\ backoff_ms' = svmgr_restart_initial_ms
        /\ UNCHANGED <<stopping, to_init, to_svmgr, age, seen, has_pid, registered>>
  /\ UNCHANGED <<sigs, sent, fault_set, intentional_stop, events, pending_emergency,
                 post_emergency_armed, shells, asked>>

enterEmergencyMode ==
  /\ pc = "shell" /\ pc' = "batch"
  /\ rapid_failure_count' = 0 /\ post_emergency_armed' = TRUE
  /\ \/ spawn /\ UNCHANGED shutdown_requested
     \/ /\ "spawn_fails" \in fault_set /\ shutdown_requested' = "reboot" /\ svmgr' = "gone"
        /\ backoff_ms' = svmgr_restart_initial_ms
        /\ UNCHANGED <<stopping, to_init, to_svmgr, age, seen, has_pid, registered>>
  /\ UNCHANGED <<sigs, sent, fault_set, intentional_stop, events, pending_emergency,
                 shells, asked>>

-----------------------------------------------------------------------------
Handling(source) == pc = "batch" /\ events # <<>> /\ Head(events) = source

(* The signal the next read of the signalfd returns: the lowest number. *)
NextSignal == CHOOSE s \in sigs :
  \A t \in sigs : LET Number == [USR1 |-> 10, USR2 |-> 12, TERM |-> 15, CHLD |-> 17]
                  IN Number[s] <= Number[t]

Reaped == IF svmgr = "zombie" THEN "gone" ELSE svmgr

child_exited ==
  /\ Handling("signal_fd") /\ sigs # {} /\ NextSignal = "CHLD"
  /\ sigs' = sigs \ {"CHLD"}
  /\ IF ~getPidfd /\ has_pid /\ ~Alive
     THEN handleSvmgrExit("gone")
     ELSE /\ svmgr' = Reaped
          /\ UNCHANGED <<stopping, to_init, to_svmgr, age, seen, child, pc, flags,
                         shells>>
  /\ UNCHANGED <<sent, fault_set, events, asked>>

shutdown_signal(s, kind) ==
  /\ Handling("signal_fd") /\ sigs # {} /\ NextSignal = s
  /\ sigs' = sigs \ {s}
  /\ to_svmgr' = (to_svmgr \/ (has_pid /\ Alive))
  /\ shutdown_requested' = kind
  /\ UNCHANGED <<svmgr, stopping, to_init, age, seen, sent, fault_set, child, pc,
                 events, post_emergency_armed, pending_emergency, shells,
                 asked>>

user2 ==
  /\ Handling("signal_fd") /\ sigs # {} /\ NextSignal = "USR2"
  /\ sigs' = sigs \ {"USR2"}
  /\ IF has_pid
     THEN /\ intentional_stop' = TRUE /\ pending_emergency' = TRUE
          /\ UNCHANGED <<pc, shells>>
     ELSE /\ pc' = "shell" /\ shells' = 0
          /\ UNCHANGED <<intentional_stop, pending_emergency>>
  /\ UNCHANGED <<manager, sent, fault_set, has_pid, rapid_failure_count, backoff_ms,
                 registered, events, shutdown_requested, post_emergency_armed,
                 asked>>

(* The signalfd is drained: the next event of the batch is handled. *)
SignalsDone ==
  /\ Handling("signal_fd") /\ sigs = {}
  /\ events' = Tail(events)
  /\ UNCHANGED <<manager, sigs, sent, fault_set, child, pc, flags, shells,
                 asked>>

PidfdTrustsReaper ==    \* a mutant: an exit SIGCHLD has reaped is taken for handled
  /\ Handling("svmgr_pidfd") /\ events' = Tail(events)
  /\ IF svmgr = "zombie" THEN handleSvmgrExit(svmgr)
     ELSE UNCHANGED <<manager, child, pc, flags, shells>>
  /\ UNCHANGED <<sigs, sent, fault_set, asked>>

svmgr_pidfd ==
  /\ Handling("svmgr_pidfd") /\ events' = Tail(events)
  /\ handleSvmgrExit(svmgr)
  /\ UNCHANGED <<sigs, sent, fault_set, asked>>

(* One read returns what is queued, end of file included, and the last     *)
(* request counts.  The socket pair has no O_NONBLOCK: with nothing to read *)
(* the action waits.                                                       *)
handleSvmgrMessage ==
  /\ Handling("init_sock") /\ (has_pid => ~NothingToRead)
  /\ events' = Tail(events)
  /\ to_init' = IF has_pid THEN <<>> ELSE to_init
  /\ LET requests == {i \in DOMAIN to_init : has_pid /\ to_init[i] \in Kinds}
     IN \/ requests = {} /\ UNCHANGED shutdown_requested
        \/ \E i \in requests : /\ \A j \in requests : j <= i
                               /\ shutdown_requested' = to_init[i]
  /\ UNCHANGED <<svmgr, stopping, to_svmgr, age, seen, sigs, sent, fault_set, child,
                 pc, post_emergency_armed, pending_emergency, shells, asked>>

-----------------------------------------------------------------------------
(* run *)
Ready ==
  {"signal_fd" : x \in sigs}
    \cup {f \in registered \cap {"svmgr_pidfd"} : ~Alive}
    \cup {f \in registered \cap {"init_sock"} : ~NothingToRead}

(* The order of a batch is the kernel's.  It queues descriptors as they     *)
(* become ready, so what svmgr wrote before it died is not overtaken by its *)
(* death; the end of file alone may be.                                     *)
Batches ==
  {b \in Injection(1..Cardinality(Ready), Ready) :
     \A i, j \in DOMAIN b :
        b[i] = "svmgr_pidfd" /\ b[j] = "init_sock" /\ to_init # <<>> => j < i}

epoll_pwait ==
  /\ pc = "wait" /\ Ready # {}
  /\ pc' = "batch" /\ events' \in Batches
  /\ UNCHANGED <<manager, sigs, sent, fault_set, child, flags, shells, asked>>

BatchIgnoresRequest ==    \* a mutant: the loop has no way out
  /\ pc = "batch" /\ events = <<>>
  /\ pc' = "wait"
  /\ UNCHANGED <<manager, sigs, sent, fault_set, child, events, flags, shells,
                 asked>>

BatchDone ==
  /\ pc = "batch" /\ events = <<>>
  /\ pc' = IF shutdown_requested = NoKind THEN "wait" ELSE "term"
  /\ UNCHANGED <<manager, sigs, sent, fault_set, child, events, flags, shells,
                 asked>>

(* shutdown.execute: SIGTERM to all (pc = "term"), a pause, SIGKILL to all, *)
(* file systems, reboot(2).                                                 *)
execute ==
  /\ pc = "term" /\ pc' = "off" /\ svmgr' = "gone"
  /\ UNCHANGED <<stopping, to_init, to_svmgr, age, seen, sigs, sent, fault_set, child,
                 events, flags, shells, asked>>

-----------------------------------------------------------------------------
(* main.zig: svmgr has been spawned and registered, or dynamod.emergency is *)
(* on the kernel command line and the shell comes first.                    *)
LoopInit ==
  /\ fault_set \in Faults
  /\ \/ /\ svmgr = "boot" /\ has_pid = TRUE /\ pc = "wait"
        /\ registered = registerSvmgr
     \/ /\ svmgr = "gone" /\ has_pid = FALSE /\ pc = "shell"
        /\ registered = {}
  /\ stopping = NoKind /\ to_init = <<>> /\ to_svmgr = FALSE
  /\ sigs = {} /\ sent = 0 /\ age = 0 /\ seen = 0
  /\ rapid_failure_count = 0 /\ intentional_stop = FALSE
  /\ backoff_ms = svmgr_restart_initial_ms
  /\ events = <<>> /\ shutdown_requested = NoKind
  /\ post_emergency_armed = FALSE /\ pending_emergency = FALSE
  /\ shells = 0 /\ asked = FALSE

InitSteps ==
  \/ epoll_pwait \/ child_exited \/ user2 \/ SignalsDone
  \/ shutdown_signal("TERM", "poweroff") \/ shutdown_signal("USR1", "reboot")
  \/ svmgr_pidfd \/ handleSvmgrMessage \/ BatchDone \/ execute

LoopNext ==
  \/ InitSteps \/ enterEmergencyMode
  \/ SvmgrSteps \/ Dynamodctl \/ SvmgrExits
  \/ \E s \in Signals : Signal(s)
  \/ Tick \/ ClockIsSet

(* init runs whenever it can; the operator leaves the shell in the end; and *)
(* svmgr finishes booting, sends its heartbeats, finishes stopping, exits.  *)
LoopSpec == LoopInit /\ [][LoopNext]_loop_vars
            /\ WF_loop_vars(InitSteps) /\ WF_loop_vars(enterEmergencyMode)
            /\ WF_loop_vars(SvmgrSteps) /\ WF_loop_vars(svmgr = "leaving" /\ SvmgrExits)

-----------------------------------------------------------------------------
LoopTypeOK ==
  /\ svmgr \in Managers /\ stopping \in Kinds \cup {NoKind}
  /\ to_init \in Seq(Messages) /\ Len(to_init) <= MaxMessages + 1
  /\ to_svmgr \in BOOLEAN
  /\ sigs \in SUBSET Signals /\ sent \in 0..MaxSignals
  /\ age \in 0..2 /\ seen \in 0..2
  /\ fault_set \in Faults /\ has_pid \in BOOLEAN
  /\ rapid_failure_count \in 0..Threshold
  /\ intentional_stop \in BOOLEAN
  /\ backoff_ms \in svmgr_restart_initial_ms..svmgr_restart_max_ms
  /\ registered \in SUBSET {"svmgr_pidfd", "init_sock"}
  /\ pc \in {"wait", "batch", "shell", "term", "off"}
  /\ events \in Seq({"signal_fd", "svmgr_pidfd", "init_sock"})
  /\ shutdown_requested \in Kinds \cup {NoKind}
  /\ post_emergency_armed \in BOOLEAN /\ pending_emergency \in BOOLEAN
  /\ shells \in 0..2 /\ asked \in BOOLEAN

(***************************************************************************)
(* Apart from the types: a running svmgr is always one init knows and      *)
(* watches, since an unregistered child would die unnoticed (registerSvmgr *)
(* after every successful spawn), and one that is not in a crash loop      *)
(* (isInCrashLoop in handleSvmgrExit).                                     *)
(***************************************************************************)
LiveManagerIsWatched ==
  /\ LoopTypeOK
  /\ Alive => has_pid /\ registered = registerSvmgr /\ rapid_failure_count < Threshold

(***************************************************************************)
(* Without the operator asking for it, the shell is not entered twice      *)
(* unless an svmgr outlived the grace period in between, as long as nobody *)
(* sets the wall clock: "a quick re-crash forces a reboot rather than      *)
(* another emergency loop" (event_loop.zig).                               *)
(***************************************************************************)
NoEmergencyLoop == "clock_is_set" \notin fault_set => shells <= 1

ReplacesWhenDue ==
  /\ svmgr' = "boot" /\ svmgr # "boot" => ~Alive
  /\ post_emergency_armed /\ age = 2 /\ has_pid /\ ~has_pid'
       => "clock_is_set" \in fault_set \/ shutdown_requested' = shutdown_requested

(***************************************************************************)
(* A new svmgr is spawned only when the old one is dead, by                *)
(* handleSvmgrExit and by enterEmergencyMode, also when SIGUSR2 and exits  *)
(* race.  And one that outlived the grace period is restarted, not         *)
(* answered with a reboot (post_emergency_armed in handleSvmgrExit), as    *)
(* long as nobody sets the wall clock, with which the code measures the    *)
(* uptime.                                                                 *)
(***************************************************************************)
ReplacedWhenDue == [][ReplacesWhenDue]_loop_vars

(***************************************************************************)
(* A shutdown that was asked for, by a signal or by the RequestShutdown of *)
(* an svmgr that then exits, is carried out where there are pidfds:        *)
(* neither handleSvmgrExit, which closes the socket, nor a blocking read,  *)
(* nor the shell, nor a failing spawn loses it.  Without a pidfd, SIGCHLD  *)
(* may have the socket closed before it is read.                           *)
(***************************************************************************)
ShutdownHappens == (asked /\ pidfd_ok) ~> pc = "off"

(***************************************************************************)
(* A dead svmgr is replaced, unless the machine goes down or the one       *)
(* attempt to spawn a new one fails.                                       *)
(***************************************************************************)
SvmgrComesBack ==
  (~Alive /\ "spawn_fails" \notin fault_set) ~> (Alive \/ pc = "off")
=============================================================================

# A TLA+ verification of dynamod

dynamod is an init system.  `dynamod-init` (Zig) is PID 1: it boots the machine,
spawns the service manager, reaps orphans, and shuts the machine down.
`dynamod-svmgr` (Rust) reads the service definitions, starts the services along
their dependencies, supervises them in a tree of supervisors, serves `dynamodctl`
and stops everything at the end.  Beside them run `dynamod-logind` (sessions,
seats, devices, power), a log daemon and small D-Bus services.

This directory models the parts whose correctness depends on order, interleaving
and failure, checks them with TLC on small instances, and proves with TLAPS what
can be proved for every instance.  `PROJECT.json` maps every definition to the
lines it was translated from.

## The system and its modules

| Part | Source | Module |
|------|--------|--------|
| dependency graph | `svmgr/dependency/graph.rs` | `DependencyGraph` |
| startup frontier | `svmgr/dependency/frontier.rs` | `StartupFrontier`, `StartupFrontierProofs` |
| cycle detection | `svmgr/dependency/cycle.rs` | `CycleDetection`, `LoadProofs` |
| reading the definitions, supervisor tree, way into the startup | `svmgr/main.rs`, `supervisor/tree.rs`, `config/*.rs` | `Load`, `LoadProofs` |
| startup loop, readiness | `svmgr/main.rs`, `process/readiness.rs`, `process/spawn.rs` | `Startup`, `StartupProofs` |
| supervision, commands, reload | `svmgr/main.rs`, `supervisor/*.rs`, `ipc/control.rs` | `Supervisor`, `SupervisorProofs` |
| restart intensity | `svmgr/supervisor/intensity.rs` | `RestartIntensity`, `ServiceLifeProofs` |
| spawning, namespaces, control groups | `svmgr/process/spawn.rs`, `namespace/setup.rs`, `cgroup/*.rs` | `ServiceLife`, `ServiceLifeProofs` |
| control socket and its clients | `svmgr/ipc/control.rs`, `common/protocol.rs`, `dynamodctl`, `logind/svmgr_client.rs`, `sd1bridge` | `ControlSocket`, `ControlService`, `LoopProofs` |
| graceful shutdown | `svmgr/shutdown.rs` | `Shutdown`, `ShutdownProofs` |
| PID 1 and svmgr as its child | `zig/event_loop.zig`, `child.zig`, `signal.zig`, `reaper.zig` | `InitLoop`, `LoopProofs` |
| boot, switch of the root, final shutdown | `zig/main.zig`, `boot.zig`, `switchroot.zig`, `rootdev.zig`, `live.zig`, `shutdown.zig` | `Boot` |
| sessions, seat, users, devices, runtime directories | `logind/state.rs`, `manager.rs`, `session.rs`, `seat.rs`, `user.rs`, `device.rs`, `runtime_dir.rs` | `LoginSessions`, `LoginProofs` |
| inhibitors, power actions, ACPI | `logind/power.rs`, `inhibitor.rs`, `acpi.rs`, `manager.rs` | `PowerActions`, `ShutdownProofs` |

How they interact: `main.rs` of svmgr builds the tree and the graph and exits when the
search of `CycleDetection` finds a cycle (`Load`, which extends `CycleDetection` and
instantiates `StartupFrontier`), runs the loop of `Startup` over the frontier, then
the main loop of `Supervisor`, and on a shutdown command the order of `Shutdown`;
it then sends `RequestShutdown` to the loop of `InitLoop` and exits.  `Startup`
instantiates `StartupFrontier` and is proved to implement it.  `ServiceLife` looks at
one worker of `Supervisor` from the side of the kernel, and extends `RestartIntensity`.
The commands that `Startup` and `Supervisor` serve come through `ControlSocket`, which is
proved to implement `ControlService`, the promise made to a caller.  `Boot` is the life of
init around that loop: everything before it, and the shutdown it ends in.  logind talks to
svmgr only to shut the machine down, through the same socket.

### How state and actions correspond to the code

* **DependencyGraph** has the three maps of the struct and `build`.
* **StartupFrontier**: the fields of the struct; `take_ready`, `mark_ready` and
  `mark_failed` are the methods.  The queue is kept as a count of entries per
  service, because it is filled from hash sets and drained whole.
* **CycleDetection**: `dfs` is recursive; its call stack is `path`, and what a frame
  has left to look at is `todo`.
* **Load**: the two loops over the files, in any order of listing, then the steps of the
  search, then the frontier with readiness and failure in any order.  `tree` has the
  nodes with their kind, parent and children.
* **ServiceLife**: svmgr goes through `start_worker`, the reaping, the commands and the
  poll of the groups; a child works off its list of system calls, any of which may fail;
  helpers outlive the service, and the OOM killer strikes.  `nested` says whether the
  kernel lets a service's group enable controllers for children.
* **ControlSocket**: `conn` has both ends of every connection, with messages counted in
  pieces.  Clients connect, send, read, time out and are killed; svmgr reads, gives up,
  answers, collects the action and performs the batch when nobody is left to accept.
  The response fits into the buffer of the socket, so that a write does not block.
* **Startup**: one action per part of an iteration (reap, take the batch, start and
  set up one service after the other, poll, serve commands).  `calls` is the stack of
  supervision in progress, which starts and reaps without knowing the frontier.
  Services exit, report and run into timeouts at any time.
* **Supervisor**: `stack` is the call stack of svmgr, since handling an exit may reap
  further exits recursively; pids are reused.  One action per command of the control
  socket and per phase of a reload.
* **RestartIntensity**: the queue of timestamps and its eviction by `record_restart`.
* **Shutdown**: Kahn's algorithm step by step, then the phases of stopping a service.
* **InitLoop**: the batch of epoll events (in any order), the drain of the signalfd
  (lowest signal first), the two ends of the socket, the child record, the flags.
* **Boot**: the state is the mount table of the two trees, that of the initramfs and
  that of the real root; `todo` is what the current loop over mount points has left.
  One action per step of `main`, of the two ways to a new root (`doSwitchRoot`,
  `doLiveSwitchRoot`), of `finishAfterRootMounted` and of `execute`.  Any system call
  whose result the code looks at may fail, up to a bound.  The device appears at any
  time or never.
* **LoginSessions**: `st` is the `LoginState` behind the mutex.  A D-Bus method changes
  it in one step, and what it does after dropping the lock (chown, runtime directory,
  cleanup task) becomes a task that interleaves with everything.  The loops of
  `Terminate` in the Seat and User objects remove one session per step and keep the mutex
  (`Locked`).
* **PowerActions**: the calls walk through the handshake; inhibitors are created and
  closed at any time; the signal emitters are tasks; the ACPI channel is a queue.
* `Shutdown`, `InitLoop` and `PowerActions` name their specifications `ShutdownSpec`,
  `LoopSpec` and `PowerSpec`, because a proof module extends two of them.

Definitions marked "a mutant" are plausible mistakes in the code.  Each is used
to show that the property named in `PROJECT.json` would notice it.

## What the runs show

Where a module has a type invariant, it is a conjunct of one of the properties, or is proved
(the frontier, the control socket, the life of a service).

* `Load`: on supervisor files with missing, cyclic and duplicate parents and names that
  clash, in every order of listing, and on all graphs of four services: the tree is a
  tree that holds exactly the supervisors whose parent came first, every service of a
  valid configuration is placed, svmgr starts exactly on acyclic graphs, services start
  after their dependencies, exactly the transitive requirers of failures are blocked,
  whatever is left out has a cause, and the startup ends.
* `Startup`: the loop implements the frontier (refinement), waits for whoever is
  pending, leaves when the frontier is quiet and hands a service out only when what it
  requires has worked, though spawns fail, groups restart and operators start and
  restart services.  It ends, unless it waits for a oneshot that has no process.
* `Supervisor`: exits and signals concern the right process although pids are reused;
  permanent services are not forgotten; under one-for-one a service that no operator
  started has one instance.  `SupervisorLive`: a permanent service comes back unless
  its supervisor gives up or its start fails.
* `SupervisorRestartTwice` ends in a violation: `dynamodctl restart` of a permanent
  service starts it twice, because reaping the old process already restarts it.
* `ServiceLife`: what runs is confined as its definition says, whatever failed on the
  way; without a failure a child gives up only on definitions no order of the steps can
  satisfy; OOM kills are reported at most once; groups are removed unless a helper holds
  them; and the window of restarts answers exactly at its boundaries.
* `ControlSocket`: whatever is split, delayed, killed or timed out, an acknowledged
  command is performed once, in order, unless svmgr goes down first, and never for a
  caller that had given up before svmgr came to it; every call returns, although other
  clients hang, and the queue of actions is worked off.
* `Shutdown`: dependents stop first, every service is in the order once, none of the
  graph is left running, and it ends unless a `stop-exec` hangs.
* `InitLoop`: a live svmgr is watched, there is one at a time, a dead one comes back,
  crash loops end in one shell, the grace window works and requests for shutdown are
  carried out, each under the faults it tolerates.
* `Boot`: when svmgr runs the essential file systems are in place, and after a switch
  of the root one failing call costs at most `/run`; the deletion of the initramfs
  spares what the new root rests on; the shutdown detaches leaves first, leaves
  nothing unwritten and, with a complete list, nothing mounted; init reaches its loop,
  the sleep of `halt()` or the reboot.
* `LoginSessions`: the tables agree under any interleaving, also when pids are reused;
  with one Manager method at a time devices follow the active session and directories
  left behind have a cleanup task; a user who has logged in has the directory.
* `PowerActions`: held inhibitors are listed and waited for, ACPI respects blocks,
  calls finish, sleeps are followed by `PrepareForSleep(false)`.

### Exceptions in the properties

Where the code does less than one might expect, the property states the exact
exception and the model contains the behaviour.  The ones worth knowing:

* A service ordered after a blocked one never starts.  A service whose spawn failed
  counts as ready, or, as a oneshot, is waited for without end; so is a oneshot that
  exits while a group restart reaps.
* Services added by a reload are not part of the stop order.  A `stop-exec` has no
  timeout.
* Without pidfds init may lose a request when svmgr exits right after it; the grace
  window is measured on the wall clock; a spawn that fails is not retried.
* A supervisor file that is listed before that of its parent is dropped, and its
  services fall to the root.  A service that shares its name with a supervisor, or is
  put under a worker, is not in the tree: it is handed out and settled by nobody.
* `create_service_cgroup` enables controllers for the children of the service's own
  group.  Under cgroup v2's rule against internal processes the kernel then refuses to
  move the service into it: on such a kernel (`nested`) the limits apply to nobody,
  which svmgr only logs.  (The rule is taken from the kernel's documentation.)
* An OOM kill of the service itself is not reported when svmgr reaps it before the next
  poll, since that unwatches the group.  `OomReportsAreReal` is about what is reported.
* `unshare(CLONE_NEWPID)` concerns the children of the caller; the service itself stays
  in the old PID namespace.
* A definition with ids and a new user namespace, or with a read-only root and a mount
  point that is missing, never starts.
* A shutdown request that is acknowledged together with other commands exits before the
  commands behind it.  logind and the bridge read their response once: a response in two
  pieces is an error to them although the command is performed.
* Concurrent D-Bus methods may hand devices over out of order.  Removing a session drops
  the index entry of its leader's pid even if a newer session has that pid.  A login that
  arrives when the cleanup has seen the user gone loses its runtime directory.
* Without a tmpfs on `/run` the overlay's directories are deleted with the initramfs.
* `unmountAll` reads `/proc/mounts` with one `read(2)`, which returns about a page;
  mounts beyond it are not in its list (`Pages`).
* The comment on rootwait in `cmdline.zig` says init waits indefinitely; `rootdev.zig`
  gives up after 30 seconds, which is what `Boot` models.

## Bounds

* Load: four services, so that a failure spreads over two steps with an ordering-only
  dependent beside it; all acyclic graphs on them up to renaming, the cyclic ones on
  three, which hold every shape of overlapping cycle, self-loops included; up to three
  supervisor files, so that a chain of parents can be listed in any order.
* Startup: three services in a chain and in a join, the first with every kind of
  readiness, the second a oneshot or an fd service; one restart and one command are
  enough to enter supervision while the loop waits; a service has one process at a
  time.
* Supervisor: three workers under two supervisors, four pids so that numbers are
  reused, two spawns and two commands beyond the start, so that a command can run into
  the handling of an exit.  The live run has one spawn and one restart beyond the start.
* Shutdown: all graphs on three services and a worker added by a reload, one service
  with a stop command, one unkillable.
* ServiceLife: a limit of one restart in a window of one tick, so that an entry can be as
  old as the window; three processes, so that a command can start a second instance and
  a restart a third; one failing call, two OOM kills, a definition for each way the steps
  get in each other's way.
* ControlSocket: one call of each kind of client, the one of dynamodctl unreliable;
  messages of up to two pieces and one that is too large; one crash or failing accept.
* InitLoop: a crash-loop threshold of two, two signals or settings of the clock, one
  message in flight; ages of svmgr are counted as young, past the rapid-failure limit,
  past the grace window; one kind of fault at a time (no pidfds, failing spawns, a
  clock that is set).
* Boot: ten boots, with each form of `root=` and `dynamod.media=` and each path through
  the live code; two failing calls, so that a failure can meet the consequence of
  another; two polls in place of 120; a read of `/proc/mounts` returns all lines or six,
  fewer than there are.
* LoginSessions: two users, two pids, three sessions, two methods and their tasks at a time.
  PowerActions: two calls, two inhibitors.

`CHECK_DEADLOCK FALSE` stands in every configuration because each of these
models comes to rest: startup and shutdown end, and the others run out of the
bounded inputs.  Symmetry is used for the pids of `Supervisor` and the pids
and task slots of `LoginSessions`, in runs without liveness properties.

## Fairness

Only what the code itself drives is fair.  svmgr and init run whenever they can take
a step; tokio polls every task that can run; deadlines pass; in `Supervisor` the wait
of a restart ends with its deadline (strong fairness, since the wait is a loop).  In
`Startup` oneshots end, because nothing in the code limits them: that a hanging oneshot
holds startup for ever is part of the design.  In `InitLoop` the operator leaves the
shell, and svmgr boots, sends heartbeats and exits once it has decided to.  In
`Shutdown` a process dies of SIGKILL unless it is unkillable.  In `ControlSocket` svmgr's
loop and the reading clients are fair, since their reads have timeouts; a client need not
send what it has to send.  In `Load` what the startup loop waits for gets settled, as
`Startup` shows.  Nothing is assumed of
services, clients or operators otherwise.  In `Boot` only init's own steps are fair; a
device need not appear.

## What is proved

`StartupFrontierProofs` proves for every finite set of services and every set of
definitions: type correctness, `StartsAfterItsDependencies`, `HandedOutOnce`,
`BlockedExactly`, `OnlyWaitersOfBlockedAreLeft` and the action property
`VerdictsAreFinal`.  None of them is inductive by itself.  The code decides by
counters, so the invariant must say what a counter is (`UnmetExact`: the number of
dependencies neither ready nor failed, for services that are not blocked), how the
sets relate (`Bookkeeping`), that the maps of the graph agree (`Consistent`) and that
whoever may be started is queued, pending or settled (`NobodyIsForgotten`).  The
hardest step is `mark_failed`: `ToBlockFacts` shows that the set it computes is closed
under requiring, and `ToBlockIsFresh` that it meets nobody handed out.  Assumptions: the
services are finite and named, and definitions are definitions (`GraphAssumption`,
`DefsAssumption`).

`LoadProofs` is about `main` before it starts anything, for every contents of the
directories.  `BuildsATree` proves `TreeIsWhole` (invariant `TInv`): as long as
supervisors are being added the tree holds supervisors only, so the listing alone decides
who gets in; and a new node is put under one that is there, so no set of nodes without
the root becomes closed under parents.  `ValidServicesArePlaced` proves `ValidIsPlaced`:
a configuration about which `validate_all` is silent keeps its names apart
(`ValidIsApart`), and then so does the tree (`PInv`), so that every service finds its name
free and its supervisor's name taken by a supervisor or by nobody.  `VerdictIsExact` and
`ReportedCyclesAreReal` prove that the search reports a cycle exactly when there is one,
and only cycles.  Their invariant: the path holds the gray services once each and is a
chain; what the loop has passed is black; black is closed and acyclic while nothing has
been reported.  Acyclicity is stated without paths: every non-empty set of services has a
member that waits for nobody in it, which avoids induction over sequences.  Assumptions:
files have the fields of a definition and a directory holds finitely many services
(`LoadAssumption`).

The second half of `LoadProofs` composes the search with the frontier.  Its invariant is the
conjunction of theirs with what `main` has learnt by the time it gets to a phase
(`PhaseIsEarned`); the graph is fixed by then, so a step of the search leaves the
frontier's invariant alone and the other way round.  From it follow `EntersAcyclic`,
`StartsAfterDependencies`, `BlocksExactly` and `LeftOutHasCause`.

`SupervisorProofs` proves the three invariants of the `Supervisor` run for every tree,
strategy, policy, limit, number of processes and depth of the call stack: `BookAgrees`,
`PermanentIsNotForgotten` and `AtMostOneInstance`.  What the properties leave open is what the
frames of the stack may still do, so the invariant is mostly about them (`StackInv`): a
strategy in progress starts children of its own supervisor, one at most if that is
one-for-one, and what an operator restarts is in the tree and marked as commanded.
`OneInv` gives `AtMostOneInstance`: such a service has one process, or one frame that is
about to start it, never both.  `TreeInv` says that only workers of the tree have
processes; with it a reload that adds a service adds one without a process.  A nested exit
may push a frame below which others wait, so every lemma about a step says what it does to
the frames that stay.  Assumptions (`SupervisorAssumption`): `None` is no worker and no
pid, strategies and limits have their types, and the tree as loaded lists every child once
and below its parent, which is what `BuildsATree` shows of the load.

`ServiceLifeProofs` proves the four invariants of a service's life for every definition
and any number of processes, failing calls and OOM kills.  `RunsAsConfigured` and
`AbortsHaveCause` need what a child has still to do: done and to do together are what
its confinement takes and nothing its definition does not ask for, and `setuid` comes last
(`OnCourse`).  `OomReportsAreReal` needs that the watch is not ahead of the counter of the
group, except between the creation of a new group and its watch, when nobody is in it
(`OomInv`).  `GroupIsRemoved` needs that a group is there while svmgr has its path
(`SvmgrInv`).  `ImplementsWindow` shows that every behaviour of `ServiceLife` is one of
`RestartIntensity`.  For that, `WindowAnswersExactly` proves `AnswerIsExact` for every
limit, window and history (invariant `WindowInv`: the log is sorted, and the queue is its
end from the first entry in the window on); together they give `ServiceAnswersExactly`.
Assumptions: the limit and the window are numbers (`IntensityAssumption`), definitions are
definitions and the limits are names (`LifeAssumption`).

`ShutdownProofs` proves `DependentsStopFirst` and `NoneLeftOut` for every acyclic graph
and every order in which the hash maps are iterated.  In-degrees count the dependencies
not visited, the queue holds whoever has none, and the order built so far lists
dependencies before their dependents; when the queue is empty, the services not visited
would each wait for another one, so in an acyclic graph there are none.  After the
reversal the rest of the order is a front of the original one, and whoever is behind it
is gone.  Assumptions: services added by a reload are not among those of the graph, and
stop commands and unkillable processes belong to workers (`ShutdownAssumption`).

`LoopProofs` proves that `ControlSocket` implements `ControlService`
(`KeepsPromises`, which is `ImplementsControl`) for every set of clients, size of
messages and number of crashes.  A caller believes a response when it has all its
pieces, and the queue is filled when svmgr has written the last one, so the invariant
(`CInv`) counts pieces: as long as the client is there, those it has, those on their way
and those not yet written do not exceed the response; what a dropped response leaves
behind is less than one.  It also says that svmgr has open exactly the connections of its
backlog, each of them once, and that what is queued or performed was written to the last
piece, and is not both.  Each action is then one step of `ControlService` or none, with
one lemma for each.  Assumptions: `None` is none of the other values
(`NoneAssumption`), and the largest message has at least one piece (`PiecesAssumption`).

It also proves the two invariants of `InitLoop` and its action property `ReplacedWhenDue`,
for every crash-loop threshold, number of signals and set of faults.  The invariant
(`LoopInv`) says what init has on record about its child: from the spawn to the exit that
init handles, the child is registered and its failures are below the threshold
(`ChildIsKnown`).  An event of the pidfd that waits in a batch is about that child, which is
dead, and there is only one of it (`EventsAreDue`): without this a signal handled earlier in
the batch could have replaced the child, and the event would then be taken for the death of
the new one.  `ShellsAreCounted` says that between the shell and the first svmgr to outlive
the grace period `post_emergency_armed` is set, as long as the wall clock tells the real
uptime; hence `NoEmergencyLoop`.  Assumptions: the threshold and the capacity of the socket
are positive (`InitLoopAssumption`).

`StartupProofs` proves that `Startup` implements `StartupFrontier`
(`LoopImplementsFrontier`), and `PendingIsWaitedFor` and `RequiredHasWorked`, for any
services, kinds of readiness, supervision group and number of processes.  A step of the loop
is an operation of the frontier only if the service it marks is pending, and that is known
from the loop's own variables: `EveryoneIsSomewhere` splits the pending services into the
batch, the oneshots and the trackers, without overlap.  The other direction needs the
frontier: a service that is pending is not queued again, which is part of the invariant of
`StartupFrontierProofs`, taken over as an instance.  The two invariants are therefore proved
together (`StartupStep`), and the refinement comes out with them.  `SignsAreTrue` says where
every sign of readiness comes from, and with `ReadyHasWorked` gives `RequiredHasWorked`.
Assumptions: `"none"` is not the name of a service, and the kinds of readiness and the group
have their types (`StartupAssumption`).

`LoginProofs` proves `TablesAgree`, `DevicesFollowActive` and `RuntimeDirFollowsUser` for
any number of sessions, users, pids, methods and tasks.  `Tables` is what `create_session`,
`remove_session` and `activate_session` keep, table by table.  The rest is about what tasks
have still to do.  A task is a method, which ensures first and finalizes last, or the cleanup
of one user (`TasksType`).  Devices: as long as the Manager's methods come one after the
other, one of them at most is under way, and its remaining changes of owner end where the
devices belong (`OneAfterTheOther`, `EndsAt`).  Directories: a handle in
`pending_user_cleanups` is of a task that still runs, that nobody aborted and whose user has
not come back (`HandlesAreFresh`), so a login aborts the task it means to; and a directory
left behind has a task that will look at it (`DirectoryIsKnown`).  The longest case is
`finalize_session_removal` of a user's last session, which puts changes of owner in front of
what the method has left and starts a cleanup in the same step (`CleanupBegins`).
Assumptions: `None` is no session, user, pid or slot (`LoginAssumption`).

The last part of `ShutdownProofs` proves `InhibitorsCount` of `PowerActions` for any number
of calls and inhibitors.  The invariant (`PowerInv`) says that an inhibitor that is held is
listed, that the ACPI channel holds each queued call once, and which announcements a call can
have made.  Assumptions: sleep is among the actions and locks are locks (`PowerAssumption`).

Every inductive invariant was also checked with TLC, and holds, on the instance of its
module's run.

Only model-checked:

* all liveness, which rests on fairness and `ENABLED`;
* `EssentialsAreThere`, `RootIsWhole` and `CleanShutdown` of `Boot`.  They are not beyond the
  provers in principle; no proof of them has been written.

## What is not modelled

* Parsing of configuration files, formatting, D-Bus properties that only read, the relay
  of log lines.
* `Boot` leaves out host name, machine id and entropy, and takes the answer of the
  ISO 9660 reader as found or not found.
* `process/monitor.rs`, `read_usage`, `wait_for_ready` and `drm_drop_master` are not used
  by the program.
* In `Startup` the `exec` check is merged with `tcp-port`: both are asked anew at every
  poll; a check command that does not return is not modelled.
* Session controllers (`TakeControl`, `TakeDevice`): every method is one critical section
  on one session, and who is DRM master is up to the kernel.
* The PAM module and `sd_notify` gather arguments and make one call; the other end of
  the call is modelled.
* The log daemon: appending and rotating files.  Two rotations in one second have the
  same file name, and the second replaces the first.
* The hostname, locale and time services: single files behind D-Bus properties.
* The framing on the channel between init and svmgr; that of the control socket is in
  `ControlSocket`.

The components are listed one by one in `PROJECT.json`.

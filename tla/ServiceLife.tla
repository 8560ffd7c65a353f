---------------------------- MODULE ServiceLife ----------------------------
(***************************************************************************)
(* The life of one permanent service at the border to the kernel: its      *)
(* control group (cgroup/hierarchy.rs, limits.rs, monitor.rs), the child   *)
(* between fork and exec (process/spawn.rs, namespace/setup.rs), and the   *)
(* way back through handle_child_exit and RestartIntensity to the next     *)
(* start.  svmgr is one thread; the child, its helper and the OOM killer   *)
(* run beside it.                                                          *)
(***************************************************************************)
EXTENDS RestartIntensity, Functions

CONSTANTS
  ServiceDefs,   \* the definitions the service may have
  limits,        \* the limits of the cgroup section, in the order they are written
  Procs,         \* bound: the processes of the service are 1..Procs
  MaxFaults,     \* bound: system calls that fail
  MaxKills       \* bound: OOM kills

ServiceDef ==
  [enable : SUBSET STRING, protect : {"none", "full", "strict"}, private_tmp : BOOLEAN,
   bind : {"none", "present", "missing"}, writable : BOOLEAN,
   user : SUBSET {"groups", "gid", "uid"}, workdir : BOOLEAN, cgroup : BOOLEAN]

ASSUME LifeAssumption ==
  ServiceDefs \subseteq ServiceDef /\ limits \in Seq(STRING) /\ Procs \in Nat

VARIABLES
  def,       \* the definition of the service
  nested,    \* whether a service's group can enable controllers for its children
  cgroup,    \* the directory of the service below the hierarchy
  monitor,   \* CgroupMonitor: the watch and the last count
  proc,      \* the processes of the service
  svmgr,     \* where svmgr is
  pid_map,   \* the processes registered for the worker
  faults,
  kills, reported,   \* history: OOM kills in the group, and those reported
  refused            \* history: the group could not be removed

life == <<def, nested, cgroup, monitor, proc, svmgr, pid_map, faults, kills, reported, refused>>

-----------------------------------------------------------------------------
(* What the child does between fork and exec.  A definition says which      *)
(* namespaces to enter, what to protect, whether /tmp is private, what to   *)
(* bind (to a target that may be missing) and which ids to set.             *)
Opt(b, s) == IF b THEN s ELSE <<>>

setup_mount_namespace(d) ==
  <<"private">>
  \o Opt(d.protect = "strict", <<"readonly">>)
  \o Opt(d.protect = "full", <<"usr">>)
  \o Opt(d.private_tmp, <<"tmp">>)
  \o Opt(d.bind # "none", Opt(d.bind = "missing", <<"mkdir">>) \o <<"bind">>
                           \o Opt(~d.writable, <<"bind_readonly">>))

apply_namespaces(d) ==
  Opt(d.enable # {}, <<"unshare">>)
  \o Opt("mnt" \in d.enable, setup_mount_namespace(d) \o Opt("pid" \in d.enable, <<"proc">>))

DropUserFirst(d) ==    \* a mutant: setuid before setgid
  Opt("uid" \in d.user, <<"setuid">>) \o Opt("groups" \in d.user, <<"setgroups">>)
  \o Opt("gid" \in d.user, <<"setgid">>)

drop_privileges(d) ==
  Opt("groups" \in d.user, <<"setgroups">>) \o Opt("gid" \in d.user, <<"setgid">>)
  \o Opt("uid" \in d.user, <<"setuid">>)

ChildSteps(d, log_pipe) ==
  Opt(log_pipe, <<"logs">>) \o apply_namespaces(d) \o Opt(d.workdir, <<"workdir">>) \o drop_privileges(d)

(* Failures the child lives with; after any other it exits with 126. *)
Tolerated == {"usr", "workdir"}

(* What the kernel refuses: ids without the privilege to set them, or that  *)
(* a new user namespace has no mapping for, and files on a read-only root.  *)
Refuses(d, done, step) ==
  \/ step \in {"setgroups", "setgid", "setuid"} /\ ("setuid" \in done \/ "user" \in d.enable)
  \/ step = "mkdir" /\ "readonly" \in done

-----------------------------------------------------------------------------
NoProc == [at |-> "none", todo |-> <<>>, done |-> {}, code |-> 0]

Live(p) == proc[p].at \in {"child", "running"}
NoGroup == [exists |-> FALSE, subtree |-> FALSE, limits |-> {}, oom |-> 0, procs |-> {}, helpers |-> {}]
Empty(cg) == cg.procs \cup cg.helpers = {}
Unwatched == [watched |-> FALSE, last |-> 0]

Fails == faults < MaxFaults /\ faults' = faults + 1

LifeInit ==
  /\ Init
  /\ def \in ServiceDefs /\ nested \in (IF def.cgroup THEN BOOLEAN ELSE {FALSE})
  /\ cgroup = NoGroup /\ monitor = Unwatched
  /\ proc = [p \in 1..Procs |-> NoProc]
  /\ svmgr = [at |-> "start", back |-> "reap", path |-> FALSE]
  /\ pid_map = {} /\ faults = 0 /\ kills = 0 /\ reported = 0 /\ refused = FALSE

Fresh == {p \in 1..Procs : proc[p].at = "none"}

(* A limit that cannot be written ends it: only the first n are. *)
apply_limits(n) == Range(SubSeq(limits, 1, n))

(* init_at and create_service_cgroup enable the controllers for children of *)
(* the group, which works when the kernel has them.  The directory may be   *)
(* there.                                                                   *)
create_service_cgroup ==
  /\ svmgr.at = "start" /\ Fresh # {}
  /\ \/ /\ def.cgroup
        /\ cgroup' = [cgroup EXCEPT !.exists = TRUE, !.subtree = nested,
                                    !.limits = @ \cup apply_limits(Len(limits))]
        /\ svmgr' = [svmgr EXCEPT !.at = "spawn", !.path = TRUE]
        /\ UNCHANGED faults
     \/ /\ def.cgroup /\ Fails
        /\ \E n \in 0..(Len(limits) - 1) :
             cgroup' = [cgroup EXCEPT !.exists = TRUE, !.subtree = nested,
                                      !.limits = @ \cup apply_limits(n)]
        /\ svmgr' = [svmgr EXCEPT !.at = "spawn", !.path = TRUE]
     \/ /\ def.cgroup /\ Fails    \* create_dir_all fails
        /\ svmgr' = [svmgr EXCEPT !.at = "spawn", !.path = FALSE]
        /\ UNCHANGED cgroup
     \/ /\ ~def.cgroup
        /\ svmgr' = [svmgr EXCEPT !.at = "spawn", !.path = FALSE]
        /\ UNCHANGED <<cgroup, faults>>
  /\ UNCHANGED <<vars, def, nested, monitor, proc, pid_map, kills, reported, refused>>

RemoveForgets == UNCHANGED <<cgroup, refused>>    \* a mutant: the directory stays

(* rmdir of a group with members fails, and so does the recursive removal. *)
remove_service_cgroup ==
  /\ cgroup' = IF Empty(cgroup) THEN NoGroup ELSE cgroup
  /\ refused' = ~Empty(cgroup)

(* The processes are named in the order they are forked. *)
Forked(steps) ==
  \E p \in Fresh :
    /\ \A q \in Fresh : p <= q
    /\ proc' = [proc EXCEPT ![p] = [NoProc EXCEPT !.at = "child", !.todo = steps]]
    /\ pid_map' = pid_map \cup {p}

spawn_service ==
  /\ svmgr.at = "spawn"
  /\ \/ /\ \/ Forked(ChildSteps(def, TRUE)) /\ UNCHANGED faults
           \/ Forked(ChildSteps(def, FALSE)) /\ Fails    \* create_pipe
        /\ svmgr' = [svmgr EXCEPT !.at = IF svmgr.path THEN "adopt" ELSE svmgr.back]
        /\ UNCHANGED <<cgroup, refused>>
     \/ /\ Fails
        /\ remove_service_cgroup
        /\ svmgr' = [svmgr EXCEPT !.at = svmgr.back]
        /\ UNCHANGED <<proc, pid_map>>
  /\ UNCHANGED <<vars, def, nested, monitor, kills, reported>>

(* A group that distributes domain controllers takes no processes (EBUSY),  *)
(* and a process that has exited is not moved.                              *)
add_process(p) ==
  LET takes == ~cgroup.subtree /\ Live(p) IN
  \/ takes /\ cgroup' = [cgroup EXCEPT !.procs = @ \cup {p}] /\ UNCHANGED faults
  \/ takes /\ Fails /\ UNCHANGED cgroup
  \/ ~takes /\ UNCHANGED <<cgroup, faults>>

(* A group that is gone counts 0. *)
read_oom_kill_count == cgroup.oom

watch == monitor' = [watched |-> TRUE, last |-> read_oom_kill_count]
unwatch == monitor' = Unwatched

(* svmgr watches the group whether or not the process is in it. *)
Adopt ==
  /\ svmgr.at = "adopt"
  /\ \E p \in pid_map : (\A q \in pid_map : q <= p) /\ add_process(p)
  /\ watch
  /\ svmgr' = [svmgr EXCEPT !.at = svmgr.back]
  /\ UNCHANGED <<vars, def, nested, proc, pid_map, kills, reported, refused>>

-----------------------------------------------------------------------------
(* The child, its exec, and what becomes of it. *)
Leaves(p) == [cgroup EXCEPT !.procs = @ \ {p}]

ChildIgnoresErrors(p) ==    \* a mutant: the error of a step is only printed
  /\ proc[p].at = "child" /\ proc[p].todo # <<>>
  /\ LET step == Head(proc[p].todo) IN
     \/ /\ ~Refuses(def, proc[p].done, step) /\ UNCHANGED faults
        /\ proc' = [proc EXCEPT ![p].todo = Tail(@), ![p].done = @ \cup {step}]
     \/ /\ IF Refuses(def, proc[p].done, step) THEN UNCHANGED faults ELSE Fails
        /\ proc' = [proc EXCEPT ![p].todo = Tail(@)]
  /\ UNCHANGED <<vars, def, nested, cgroup, monitor, svmgr, pid_map, kills, reported, refused>>

ChildStep(p) ==
  /\ proc[p].at = "child" /\ proc[p].todo # <<>>
  /\ LET step == Head(proc[p].todo) IN
     \/ /\ ~Refuses(def, proc[p].done, step)
        /\ proc' = [proc EXCEPT ![p].todo = Tail(@), ![p].done = @ \cup {step}]
        /\ UNCHANGED <<cgroup, faults>>
     \/ /\ step \in Tolerated /\ Fails
        /\ proc' = [proc EXCEPT ![p].todo = Tail(@)]
        /\ UNCHANGED cgroup
     \/ /\ step \notin Tolerated
        /\ IF Refuses(def, proc[p].done, step) THEN UNCHANGED faults ELSE Fails
        /\ proc' = [proc EXCEPT ![p].at = "zombie", ![p].code = 126]
        /\ cgroup' = Leaves(p)
  /\ UNCHANGED <<vars, def, nested, monitor, svmgr, pid_map, kills, reported, refused>>

Execve(p) ==
  /\ proc[p].at = "child" /\ proc[p].todo = <<>>
  /\ \/ proc' = [proc EXCEPT ![p].at = "running"] /\ UNCHANGED <<cgroup, faults>>
     \/ /\ Fails
        /\ proc' = [proc EXCEPT ![p].at = "zombie", ![p].code = 127]
        /\ cgroup' = Leaves(p)
  /\ UNCHANGED <<vars, def, nested, monitor, svmgr, pid_map, kills, reported, refused>>

(* The service forks a helper into its group and may exit before it. *)
ForkHelper(p) ==
  /\ proc[p].at = "running" /\ p \in cgroup.procs
  /\ cgroup' = [cgroup EXCEPT !.helpers = @ \cup {p}]
  /\ UNCHANGED <<vars, def, nested, monitor, proc, svmgr, pid_map, faults, kills, reported, refused>>

ServiceExits(p) ==
  /\ proc[p].at = "running"
  /\ proc' = [proc EXCEPT ![p].at = "zombie"]
  /\ cgroup' = Leaves(p)
  /\ UNCHANGED <<vars, def, nested, monitor, svmgr, pid_map, faults, kills, reported, refused>>

HelperExits(p) ==
  /\ p \in cgroup.helpers
  /\ cgroup' = [cgroup EXCEPT !.helpers = @ \ {p}]
  /\ UNCHANGED <<vars, def, nested, monitor, proc, svmgr, pid_map, faults, kills, reported, refused>>

OomKill ==
  /\ kills < MaxKills /\ kills' = kills + 1
  /\ \/ \E p \in cgroup.procs :
          /\ proc' = [proc EXCEPT ![p].at = "zombie", ![p].code = 137]
          /\ cgroup' = [Leaves(p) EXCEPT !.oom = @ + 1]
     \/ \E p \in cgroup.helpers :
          /\ cgroup' = [cgroup EXCEPT !.helpers = @ \ {p}, !.oom = @ + 1]
          /\ UNCHANGED proc
  /\ UNCHANGED <<vars, def, nested, monitor, svmgr, pid_map, faults, reported, refused>>

-----------------------------------------------------------------------------
(* The main loop: reap what there is, serve a command, poll the groups. *)
Zombies == {p \in 1..Procs : proc[p].at = "zombie"}

handle_child_exit ==
  /\ svmgr.at = "reap"
  /\ \E p \in Zombies :
       /\ proc' = [proc EXCEPT ![p] = [NoProc EXCEPT !.at = "reaped"]]
       /\ pid_map' = pid_map \ {p}
  /\ unwatch
  /\ remove_service_cgroup
  /\ record_restart
  /\ svmgr' = [svmgr EXCEPT !.at = IF exceeded' THEN "reap" ELSE "start", !.back = "reap"]
  /\ UNCHANGED <<def, nested, faults, kills, reported>>

NothingToReap ==
  /\ svmgr.at = "reap" /\ Zombies = {}
  /\ svmgr' = [svmgr EXCEPT !.at = "control"]
  /\ UNCHANGED <<vars, def, nested, cgroup, monitor, proc, pid_map, faults, kills, reported, refused>>

(* StartService starts the worker whether or not it runs. *)
ServeCommand ==
  /\ svmgr.at = "control"
  /\ \/ svmgr' = [svmgr EXCEPT !.at = "poll"]
     \/ svmgr' = [svmgr EXCEPT !.at = "start", !.back = "poll"]
  /\ UNCHANGED <<vars, def, nested, cgroup, monitor, proc, pid_map, faults, kills, reported, refused>>

PollKeepsCount ==    \* a mutant: last_oom_count is not updated
  /\ svmgr.at = "poll"
  /\ reported' = reported + IF monitor.watched /\ read_oom_kill_count > monitor.last
                            THEN read_oom_kill_count - monitor.last ELSE 0
  /\ svmgr' = [svmgr EXCEPT !.at = "reap"]
  /\ UNCHANGED <<vars, def, nested, cgroup, monitor, proc, pid_map, faults, kills, refused>>

poll ==
  /\ svmgr.at = "poll"
  /\ reported' = reported + IF monitor.watched /\ read_oom_kill_count > monitor.last
                            THEN read_oom_kill_count - monitor.last ELSE 0
  /\ monitor' = IF monitor.watched THEN [monitor EXCEPT !.last = read_oom_kill_count] ELSE monitor
  /\ svmgr' = [svmgr EXCEPT !.at = "reap"]
  /\ UNCHANGED <<vars, def, nested, cgroup, proc, pid_map, faults, kills, refused>>

(* Time is read only when a restart is recorded. *)
Clock == Zombies # {} /\ svmgr.at = "reap" /\ Tick /\ UNCHANGED life

LifeNext ==
  \/ create_service_cgroup \/ spawn_service \/ Adopt
  \/ handle_child_exit \/ NothingToReap \/ ServeCommand \/ poll \/ Clock
  \/ \E p \in 1..Procs : \/ ChildStep(p) \/ Execve(p)
                         \/ ForkHelper(p) \/ ServiceExits(p) \/ HelperExits(p)
  \/ OomKill

LifeSpec == LifeInit /\ [][LifeNext]_<<vars, life>>
-----------------------------------------------------------------------------
(***************************************************************************)
(* A process that runs the program of the service is confined as the       *)
(* definition says, whichever system calls failed on the way: the child of *)
(* spawn_service exits rather than go on.  (protect = "full", the working  *)
(* directory and the output are best effort.)                              *)
(***************************************************************************)
Confinement(d) ==
  (IF d.enable # {} THEN {"unshare"} ELSE {})
  \cup (IF "mnt" \notin d.enable THEN {} ELSE
          {"private"}
          \cup (IF d.protect = "strict" THEN {"readonly"} ELSE {})
          \cup (IF d.private_tmp THEN {"tmp"} ELSE {})
          \cup (IF d.bind # "none" THEN {"bind"} ELSE {})
          \cup (IF d.bind # "none" /\ ~d.writable THEN {"bind_readonly"} ELSE {})
          \cup (IF "pid" \in d.enable THEN {"proc"} ELSE {}))
  \cup {CASE i = "uid" -> "setuid" [] i = "gid" -> "setgid" [] i = "groups" -> "setgroups" :
          i \in d.user}

RunsAsConfigured ==
  \A p \in 1..Procs : proc[p].at = "running" => Confinement(def) \subseteq proc[p].done

(***************************************************************************)
(* The order of the steps gets every service started: without a fault, a   *)
(* child gives up (126) only on a definition that asks for ids in a new    *)
(* user namespace, or for a mount point on the root it made read-only.     *)
(***************************************************************************)
Unsatisfiable(d) ==
  \/ "user" \in d.enable /\ d.user # {}
  \/ "mnt" \in d.enable /\ d.protect = "strict" /\ d.bind = "missing"

AbortsHaveCause ==
  \A p \in 1..Procs : proc[p].code = 126 => faults > 0 \/ Unsatisfiable(def)

(***************************************************************************)
(* No OOM kill is reported twice or without having happened, although the  *)
(* group and its counter survive a restart when a helper holds them, or    *)
(* vanish under the watch when a second start fails; and the monitor never *)
(* holds a count from the future of the group, which would hide kills.     *)
(***************************************************************************)
AtRest == svmgr.at \in {"reap", "control", "poll"}

OomReportsAreReal ==
  /\ reported <= kills
  /\ AtRest /\ monitor.watched /\ cgroup.exists =>
       /\ monitor.last <= cgroup.oom
       /\ reported + (cgroup.oom - monitor.last) <= kills

(***************************************************************************)
(* A service without processes leaves neither a watch nor a group behind   *)
(* (handle_child_exit, the error path of start_worker), unless a helper    *)
(* was in the group when it was to be removed: nobody tries again then.    *)
(***************************************************************************)
GroupIsRemoved ==
  AtRest /\ pid_map = {} => ~monitor.watched /\ (cgroup.exists => refused)
=============================================================================

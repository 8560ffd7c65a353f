-------------------------------- MODULE Boot --------------------------------
(***************************************************************************)
(* The life of dynamod-init around its event loop: early mounts, the way   *)
(* from the initramfs to the real root (switchroot.zig, or live.zig for    *)
(* live media), the second start of the same binary from that root, and    *)
(* the final shutdown with the unmounting (main.zig, boot.zig,             *)
(* rootdev.zig, shutdown.zig).  The event loop itself is InitLoop.         *)
(*                                                                         *)
(* The state is the mount table, in the order /proc/mounts lists it.  A    *)
(* mount belongs to the tree of the initramfs or to that of the real root; *)
(* MS_MOVE takes a mount and what is mounted below it to the other tree,   *)
(* and only one tree is reachable after chroot.  "/" itself is not in the  *)
(* table: root and newroot are what is mounted on / and on /newroot.       *)
(*                                                                         *)
(* Any system call the code checks may fail; faults counts the failures.   *)
(***************************************************************************)
EXTENDS Integers, Sequences, FiniteSets, SequencesExt

CONSTANTS
  None,
  Boots,        \* the ways to boot considered, see Cmdline
  MaxAttempts,  \* rootwait_max_s * 1000 / rootwait_poll_ms
  MaxFaults,    \* bound: system calls that fail
  Pages         \* how many lines of /proc/mounts one read(2) may return

(* Forms of root= and dynamod.media=; "relative" is a path not below "/". *)
Param == {"path", "label", "uuid", "partuuid", "relative", "empty"}

(* The kernel command line, whether there is an initramfs, and /bin/blkid. *)
Cmdline ==
  [initramfs : BOOLEAN, blkid : BOOLEAN,
   live : BOOLEAN, root : Param \cup {None}, media : Param \cup {None},
   rootwait : BOOLEAN, rootflags : Seq({"rw", "ro", "noatime", "data=ordered"}),
   skip_copy : BOOLEAN, iso_parse : BOOLEAN, overlay : BOOLEAN,
   squashfs_absolute : BOOLEAN]

ASSUME BootAssumption ==
  /\ \A c \in Boots : c \in Cmdline
  /\ MaxAttempts \in Nat \ {0} /\ MaxFaults \in Nat
  /\ Pages \subseteq Nat \ {0} /\ Pages # {}

VARIABLES
  pc,        \* what init does next
  cl,        \* the kernel command line and the initramfs
  root, newroot, ro,  \* the file systems on / and /newroot; / is read-only
  mounts,    \* the mount table; id is the order of /proc/mounts
  devs,      \* what of the root device has appeared: its node, its symlink
  attempt,   \* polls for it so far
  staged,    \* files put below /run/dynamod/live
  gone,      \* files of the initramfs deleted by switch_root
  execs,     \* how often init has been executed again
  failed,    \* history: mounts that failed since then
  faults,    \* history: system calls that failed
  procs,     \* the other processes: all of them, those ignoring SIGTERM, none
  dirty,     \* something is written and not synced
  todo,      \* mount points the current loop has left
  missed     \* history: a mount was not in the list, or umount2 failed

boot == <<cl, devs, attempt, staged, gone, execs, failed>>
table == <<root, newroot, ro, mounts>>
down == <<procs, dirty, todo, missed>>
vars == <<pc, boot, table, down, faults>>

ShutdownSteps ==
  {"SIGTERM", "SIGKILL", "seed", "sync", "unmount", "umount2", "remount",
   "final sync", "reboot"}

-----------------------------------------------------------------------------
(* The mount table. *)
Above(p) ==
  CASE p \in {"/dev/pts", "/dev/shm"} -> {"/dev"}
    [] p = "/sys/fs/cgroup" -> {"/sys"}
    [] p \in {"live/iso", "live/squash", "live/upper", "live/work", "live/copy"} -> {"/run"}
    [] p = "/home/data" -> {"/home"}
    [] p = "/newroot/sbin" -> {"/newroot"}
    [] OTHER -> {}

DataMounts == {"/home", "/home/data"}   \* what services mount

Tree == IF root = "ramfs" THEN "initramfs" ELSE "real"

(* The mount a path leads to is the last one made on it or above it. *)
Along(tree, p) == {m \in mounts : m.tree = tree /\ m.at \in {p} \cup Above(p)}
Top(tree, p) == CHOOSE m \in Along(tree, p) : \A n \in Along(tree, p) : n.id <= m.id
Shows(tree, p) == Along(tree, p) # {} /\ Top(tree, p).at = p

(* A mount that shows at p, with what is mounted below it. *)
Subtree(tree, p) ==
  {m \in mounts : /\ m.tree = tree /\ p \in {m.at} \cup Above(m.at)
                  /\ m.id >= Top(tree, p).id}

(* mount(2): one that has only one instance is BUSY where it is already. *)
Mount(fs, p) ==
  mounts' = mounts \cup
    IF /\ fs \in {"proc", "sysfs", "devtmpfs", "cgroup2"}
       /\ Shows(Tree, p) /\ Top(Tree, p).fs = fs
    THEN {}
    ELSE {[id |-> Cardinality(mounts) + 1, fs |-> fs, at |-> p, tree |-> Tree]}

(* mount(2) with MS_MOVE *)
MoveMount(p) ==
  mounts' = {IF Shows("initramfs", p) /\ m \in Subtree("initramfs", p)
             THEN [m EXCEPT !.tree = "real"] ELSE m : m \in mounts}

(* umount2(2) with MNT_DETACH takes everything below along. *)
Umount(p) ==
  mounts' = IF Shows(Tree, p) THEN mounts \ Subtree(Tree, p) ELSE mounts

Fail == faults < MaxFaults /\ faults' = faults + 1
Fine == UNCHANGED faults
Go(step) == pc' = step /\ Fine
Halt == pc' = "halted"     \* switchroot.zig and live.zig: sync and sleep

-----------------------------------------------------------------------------
(* Early boot. *)
MountsDevLast ==   \* a mutant: /dev hides what is mounted below it
  <<"/proc", "/sys", "/dev/pts", "/dev/shm", "/run", "/sys/fs/cgroup", "/dev">>

essential_mounts ==
  <<"/proc", "/sys", "/dev", "/dev/pts", "/dev/shm", "/run", "/sys/fs/cgroup">>

Essential == ToSet(essential_mounts)

fstype(p) ==
  CASE p = "/proc" -> "proc" [] p = "/sys" -> "sysfs" [] p = "/dev" -> "devtmpfs"
    [] p = "/dev/pts" -> "devpts" [] p = "/sys/fs/cgroup" -> "cgroup2"
    [] p \in {"/dev/shm", "/run"} -> "tmpfs"

(* Every entry is tried, whatever became of the others; the mount point of *)
(* the cgroups exists only in a sysfs.                                      *)
mountEssentialFilesystems ==
  /\ pc = "start"
  /\ IF todo = <<>> THEN Go("detect") /\ UNCHANGED <<todo, mounts, failed>>
     ELSE LET p == Head(todo)
              possible == p = "/sys/fs/cgroup" => Shows(Tree, "/sys")
          IN  /\ todo' = Tail(todo) /\ UNCHANGED pc
              /\ \/ possible /\ Mount(fstype(p), p) /\ Fine /\ UNCHANGED failed
                 \/ (IF possible THEN Fail ELSE Fine) /\ failed' = failed \cup {p} /\ UNCHANGED mounts
  /\ UNCHANGED <<cl, devs, attempt, staged, gone, execs, root, newroot, ro, procs, dirty, missed>>

isInitramfs == root = "ramfs"

(* Cmdline.read: without /proc the command line is empty. *)
Read == Shows(Tree, "/proc")

(* main up to the switch of the root.  A live boot without dynamod.media   *)
(* halts; without root= and dynamod.live init stays where it is.           *)
Detect ==
  /\ pc = "detect"
  /\ \/ Go(CASE ~isInitramfs \/ ~Read -> "early"
             [] isInitramfs /\ Read /\ cl.live -> IF cl.media = None THEN "halted" ELSE "resolve"
             [] isInitramfs /\ Read /\ ~cl.live -> IF cl.root = None THEN "early" ELSE "resolve")
     \/ isInitramfs /\ Fail /\ pc' = "early"   \* statfs
  /\ UNCHANGED <<boot, table, down>>

-----------------------------------------------------------------------------
(* The root device. *)
param == IF cl.live THEN cl.media ELSE cl.root

(* Coldplug, modprobe and the kernel make the device appear, if ever. *)
Appear ==
  /\ pc = "resolve"
  /\ \/ "node" \notin devs /\ devs' = devs \cup {"node"}
     \/ "node" \in devs /\ "link" \notin devs /\ devs' = devs \cup {"link"}
  /\ UNCHANGED <<pc, cl, attempt, staged, gone, execs, failed, table, down, faults>>

deviceExists == "node" \in devs
SymlinkExists == "link" \in devs     \* below /dev/disk/by-*
tryBlkidUuidDevice == cl.blkid /\ deviceExists
tryBlkidLabelDevice == cl.blkid /\ deviceExists   \* blkid -L, or all of its output

resolveUuidValue == SymlinkExists \/ tryBlkidUuidDevice
resolveLabelValue == SymlinkExists \/ tryBlkidLabelDevice

(* One look for the device. *)
Found ==
  CASE param = "path" -> deviceExists
    [] param = "partuuid" -> SymlinkExists
    [] param = "uuid" -> resolveUuidValue
    [] param = "label" -> resolveLabelValue
    [] param \in {"relative", "empty"} -> FALSE

(* A path is looked for once before waitForDevice starts to count. *)
Looks ==
  IF param = "empty" \/ ~cl.rootwait THEN 1
  ELSE IF param \in {"path", "relative"} THEN MaxAttempts + 1 ELSE MaxAttempts

PollsOn ==   \* a mutant: the count starts again
  attempt' = (IF attempt + 1 = Looks THEN 0 ELSE attempt + 1) /\ UNCHANGED pc

NextPoll ==
  attempt' = attempt + 1 /\ (IF attempt + 1 = Looks THEN Halt ELSE UNCHANGED pc)

resolve ==
  /\ pc = "resolve"
  /\ \/ Found /\ pc' = (IF cl.live THEN "media" ELSE "mount") /\ Fine /\ UNCHANGED attempt
     \/ ~Found /\ NextPoll /\ Fine
     \/ Found /\ param \in {"uuid", "label"} /\ ~SymlinkExists /\ NextPoll /\ Fail \* fork
  /\ UNCHANGED <<cl, devs, staged, gone, execs, failed, table, down>>

-----------------------------------------------------------------------------
(* The new root: a disk, or a squashfs from live media. *)

moves == <<"/proc", "/sys", "/dev">>

(* "rw" and "ro" set and clear MS_RDONLY in turn; the default is set. *)
parseRootFlags(flags) ==
  FoldLeft(LAMBDA r, o : IF o \in {"rw", "ro"} THEN o = "ro" ELSE r, TRUE, flags)

mountRootDevice ==
  /\ pc = "mount"
  /\ \/ /\ newroot' = [fs |-> "disk", ro |-> parseRootFlags(cl.rootflags)]
        /\ Go("move") /\ todo' = moves
     \/ /\ Fail /\ Halt /\ UNCHANGED <<newroot, todo>>
  /\ UNCHANGED <<boot, root, ro, mounts, procs, dirty, missed>>

(* doLiveSwitchRoot looks for the image: its extents are found by parsing   *)
(* the media, or, when that fails or is not wanted, the media is mounted.   *)
LocateImage ==
  /\ pc = "media" /\ staged' = {"live/upper", "live/work"}
  /\ Go("iso") \/ (~cl.skip_copy /\ cl.iso_parse /\ Go("pread"))
  /\ UNCHANGED <<cl, devs, attempt, gone, execs, failed, table, down>>

CopyImage(step) ==
  /\ pc = step
  /\ \/ staged' = staged \cup {"live/copy"} /\ Go("attach")
     \/ Fail /\ Halt /\ UNCHANGED staged
  /\ UNCHANGED <<cl, devs, attempt, gone, execs, failed, table, down>>

copySquashFromBlockDev == CopyImage("pread")
copyLiveSquashToTmpfs == CopyImage("copy")

(* As iso9660 or udf; the image is copied from it, or used where it is. *)
mountIso ==
  /\ pc = "iso"
  /\ \/ /\ Mount("iso9660", "live/iso")
        /\ Go(IF ~cl.squashfs_absolute THEN "halted"
              ELSE IF cl.skip_copy THEN "attach" ELSE "copy")
     \/ Fail /\ Halt /\ UNCHANGED mounts
  /\ UNCHANGED <<boot, root, newroot, ro, down>>

attachLoopAndMountSquash ==
  /\ pc = "attach"
  /\ \/ /\ Mount("squashfs", "live/squash")
        /\ Go("newroot")
     \/ Fail /\ Halt /\ UNCHANGED mounts
  /\ UNCHANGED <<boot, root, newroot, ro, down>>

mountOverlayNewroot == newroot' = [fs |-> "overlay", ro |-> FALSE]

(* An overlay, or the squashfs bound to /newroot. *)
LiveNewroot ==
  /\ pc = "newroot"
  /\ \/ /\ IF cl.overlay THEN mountOverlayNewroot
                         ELSE newroot' = [fs |-> "squashfs", ro |-> TRUE]
        /\ Go("move") /\ todo' = moves
     \/ Fail /\ Halt /\ UNCHANGED <<newroot, todo>>
  /\ UNCHANGED <<boot, root, ro, mounts, procs, dirty, missed>>

-----------------------------------------------------------------------------
(* finishAfterRootMounted *)
moveMounts ==
  /\ pc = "move"
  /\ IF todo = <<>> THEN Go("delete") /\ UNCHANGED <<todo, mounts>>
     ELSE /\ todo' = Tail(todo) /\ UNCHANGED pc
          /\ (MoveMount(Head(todo)) /\ Fine) \/ (Fail /\ UNCHANGED mounts)
  /\ UNCHANGED <<boot, root, newroot, ro, procs, dirty, missed>>

(* The files recursiveDelete can meet: those of the initramfs itself, the   *)
(* staged ones, and those of the new root.                                  *)
Files == {"/bin", "/newroot/sbin"} \cup staged

(* The device of a file is that of the mount above it. *)
OnRootDev(p) == Along("initramfs", p) = {} /\ "/newroot" \notin Above(p)

DeletesMounted(p) == "/newroot" \notin Above(p)   \* a mutant: other devices are not skipped

(* recursiveDelete skips /newroot by name and every mount by its device. *)
recursiveDelete(p) == "/newroot" \notin Above(p) /\ OnRootDev(p)

deleteInitramfsContents ==
  /\ pc = "delete" /\ pc' = "switch"
  /\ \/ gone' = {p \in Files : recursiveDelete(p)} /\ Fine
     \/ gone' = {} /\ Fail
  /\ UNCHANGED <<cl, devs, attempt, staged, execs, failed, table, down>>

(* chdir, MS_MOVE, chroot, chdir and execve, each of which may fail. *)
execSwitchRoot ==
  /\ pc = "switch"
  /\ \/ /\ root' = newroot.fs /\ ro' = newroot.ro /\ newroot' = None
        /\ execs' = execs + 1 /\ failed' = {}
        /\ todo' = essential_mounts /\ Go("start")
     \/ /\ Fail /\ Halt /\ UNCHANGED <<root, ro, newroot, execs, failed, todo>>
  /\ UNCHANGED <<cl, devs, attempt, staged, gone, mounts, procs, dirty, missed>>

-----------------------------------------------------------------------------
(* main after the switch: signals, svmgr, the epoll set; then the loop. *)
EarlyBoot ==
  /\ pc = "early"
  /\ Go("running") \/ (Fail /\ pc' = "SIGTERM")
  /\ UNCHANGED <<boot, table, down>>

(* The system in use: services mount, remount / read-write and write. *)
Use ==
  /\ pc = "running" /\ Fine
  /\ \/ /\ \E p \in DataMounts :
             (\A m \in mounts : m.at # p) /\ Mount("disk", p)
        /\ UNCHANGED <<pc, ro>>
     \/ ro /\ root = "disk" /\ ro' = FALSE /\ UNCHANGED <<pc, mounts>>
     \/ pc' = "SIGTERM" /\ UNCHANGED <<mounts, ro>>
  /\ UNCHANGED <<boot, root, newroot, down>>

(* A process that is alive may write at any time. *)
Write ==
  /\ procs # "none" /\ ~ro /\ ~dirty /\ pc \in {"running"} \cup ShutdownSteps
  /\ dirty' = TRUE
  /\ UNCHANGED <<pc, boot, table, procs, todo, missed, faults>>

-----------------------------------------------------------------------------
(* shutdown.zig, execute *)
SIGTERM ==
  /\ pc = "SIGTERM" /\ Go("SIGKILL")
  /\ procs' \in {"stubborn", "none"}
  /\ UNCHANGED <<boot, table, dirty, todo, missed>>

SIGKILL ==
  /\ pc = "SIGKILL" /\ Go("seed") /\ procs' = "none"
  /\ UNCHANGED <<boot, table, dirty, todo, missed>>

(* saveRandomSeed gives up on the first error, a read-only / for one. *)
saveRandomSeed ==
  /\ pc = "seed" /\ Go("sync")
  /\ dirty' = (dirty \/ (~ro /\ Shows(Tree, "/dev")))
  /\ UNCHANGED <<boot, table, procs, todo, missed>>

sync ==
  /\ \/ pc = "sync" /\ Go("unmount")
     \/ pc = "final sync" /\ Go("reboot")
  /\ dirty' = FALSE
  /\ UNCHANGED <<boot, table, procs, todo, missed>>

Own == {m \in mounts : m.tree = Tree}
Line(i) == CHOOSE m \in Own : Cardinality({n \in Own : n.id <= m.id}) = i

UnmountsInOrder(n) ==   \* a mutant: the first one mounted first
  [i \in 1..n |-> Line(i).at]

(* The mount points in the first n lines, the last one mounted first. *)
unmountFromProc(n) == [i \in 1..n |-> Line(n + 1 - i).at]

unmountHardcoded ==
  <<"/sys/fs/cgroup", "/dev/shm", "/dev/pts", "/run", "/dev", "/sys", "/proc">>

(* One read(2) of /proc/mounts, which lists the mounts of the own tree and *)
(* may return only the first lines; without it the hardcoded list.         *)
unmountAll ==
  /\ pc = "unmount"
  /\ LET lines == Cardinality(Own)
     IN  \/ /\ Shows(Tree, "/proc") /\ Go("umount2")
            /\ \E page \in Pages :
                 /\ todo' = unmountFromProc(IF page < lines THEN page ELSE lines)
                 /\ missed' = (page < lines)
         \/ /\ (~Shows(Tree, "/proc") /\ Fine) \/ Fail
            /\ pc' = "umount2" /\ todo' = unmountHardcoded /\ missed' = TRUE
  /\ UNCHANGED <<boot, table, procs, dirty>>

(* A path that is gone, or not a mount point, is passed over in silence. *)
umount2 ==
  /\ pc = "umount2"
  /\ IF todo = <<>> THEN Go("remount") /\ UNCHANGED <<mounts, todo, missed>>
     ELSE /\ todo' = Tail(todo) /\ UNCHANGED pc
          /\ \/ Umount(Head(todo)) /\ Fine /\ UNCHANGED missed
             \/ Fail /\ missed' = TRUE /\ UNCHANGED mounts
  /\ UNCHANGED <<boot, root, newroot, ro, procs, dirty>>

remountRootReadonly ==
  /\ pc = "remount" /\ pc' = "final sync"
  /\ (ro' = TRUE /\ Fine) \/ (Fail /\ UNCHANGED ro)
  /\ UNCHANGED <<boot, root, newroot, mounts, down>>

reboot ==
  /\ pc = "reboot" /\ Go("off") /\ UNCHANGED <<boot, table, down>>

execute ==
  \/ SIGTERM \/ SIGKILL \/ saveRandomSeed \/ sync
  \/ unmountAll \/ umount2 \/ remountRootReadonly \/ reboot

-----------------------------------------------------------------------------
Init ==
  /\ pc = "start" /\ cl \in Boots
  /\ root = (IF cl.initramfs THEN "ramfs" ELSE "disk") /\ newroot = None /\ ro = ~cl.initramfs
  /\ mounts = {} /\ devs = {} /\ attempt = 0 /\ staged = {} /\ gone = {}
  /\ execs = 0 /\ failed = {} /\ faults = 0
  /\ procs = "all" /\ dirty = FALSE /\ todo = essential_mounts /\ missed = FALSE

SwitchRoot ==
  \/ resolve \/ mountRootDevice
  \/ LocateImage \/ copySquashFromBlockDev \/ mountIso \/ copyLiveSquashToTmpfs
  \/ attachLoopAndMountSquash \/ LiveNewroot
  \/ moveMounts \/ deleteInitramfsContents \/ execSwitchRoot

InitStep ==
  mountEssentialFilesystems \/ Detect \/ SwitchRoot \/ EarlyBoot \/ execute

Next == InitStep \/ Appear \/ Use \/ Write

(* Init is one thread that nothing but its own system calls holds up. *)
Spec == Init /\ [][Next]_vars /\ WF_vars(InitStep)

-----------------------------------------------------------------------------
TypeOK ==
  /\ pc \in {"start", "detect", "resolve", "mount", "media", "pread", "iso", "copy", "attach", "newroot", "move",
             "delete", "switch", "early", "running", "halted", "off"} \cup ShutdownSteps
  /\ cl \in Boots /\ ro \in BOOLEAN
  /\ root \in {"ramfs", "disk", "overlay", "squashfs"}
  /\ newroot \in [fs : {"disk", "overlay", "squashfs"}, ro : BOOLEAN] \cup {None}
  /\ \A m \in mounts : m.id \in Nat \ {0} /\ m.tree \in {"initramfs", "real"}
  /\ devs \subseteq {"node", "link"} /\ attempt \in 0..MaxAttempts + 1
  /\ gone \subseteq Files /\ execs \in 0..1
  /\ failed \subseteq Essential /\ faults \in 0..MaxFaults
  /\ procs \in {"all", "stubborn", "none"} /\ dirty \in BOOLEAN /\ missed \in BOOLEAN

InPlace(p) == Shows(Tree, p) /\ Top(Tree, p).fs = fstype(p)

(***************************************************************************)
(* When svmgr runs, every file system of essential_mounts is at its place, *)
(* not hidden by another, unless mounting it failed since init was         *)
(* executed; and after a switch of the root one failure, of any system     *)
(* call, costs at most /run: what moveMounts does not bring along is       *)
(* mounted again, and what cannot be mounted again was brought along.      *)
(***************************************************************************)
EssentialsAreThere ==
  /\ TypeOK
  /\ pc = "running" => \A p \in Essential :
       /\ InPlace(p) \/ p \in failed
       /\ execs = 1 /\ faults <= 1 => InPlace(p) \/ p = "/run"

(***************************************************************************)
(* switch_root deletes nothing the new root rests on, neither its own      *)
(* files nor the upper and work directories of an overlay, as long as /run *)
(* could be mounted: without it they lie on the device of the initramfs    *)
(* and are deleted with it.  The files of the initramfs itself are gone    *)
(* then, unless a call has failed.                                         *)
(***************************************************************************)
RootIsWhole ==
  execs = 1 =>
    /\ "/newroot/sbin" \notin gone
    /\ root = "overlay" /\ (\E m \in mounts : m.at = "/run" /\ m.tree = "initramfs")
         => {"live/upper", "live/work"} \cap gone = {}
    /\ faults = 0 => gone = {"/bin"}

(***************************************************************************)
(* When the machine goes off nothing that was written is unwritten: the    *)
(* last sync comes after the last process and after the random seed.  And  *)
(* everything but / has been unmounted, also mounts stacked by the second  *)
(* start of init and those services made, unless the list was incomplete   *)
(* or umount2 failed; "unmount in reverse order" (unmountFromProc): none   *)
(* of them was detached with another one still mounted below it.           *)
(***************************************************************************)
UmountsOne == Cardinality(mounts \ mounts') <= 1

CleanShutdown ==
  [][/\ pc' = "off" => ~dirty' /\ (missed' \/ \A m \in mounts' : m.tree # Tree')
     /\ pc = "umount2" /\ pc' = "umount2" => missed' \/ UmountsOne]_vars

(***************************************************************************)
(* Init never gets stuck on the way and never boots in circles: it reaches *)
(* its event loop, the endless sleep of halt() or the reboot.  The wait    *)
(* for a device that never comes ends, with rootwait too.                  *)
(***************************************************************************)
Settles == []<>(pc \in {"running", "halted", "off"})
=============================================================================

------------------------- MODULE ServiceLifeProofs -------------------------
(***************************************************************************)
(* Proofs about ServiceLife, for any definitions and any number of         *)
(* processes, of failing system calls and of OOM kills; and, at the end,   *)
(* about the window of restarts that it extends.                           *)
(***************************************************************************)
EXTENDS ServiceLife, TLAPS

(***************************************************************************)
(* The inductive invariant of the service.                                 *)
(***************************************************************************)
Step ==
  {"logs", "unshare", "private", "readonly", "usr", "tmp", "mkdir", "bind", "bind_readonly",
   "proc", "workdir", "setgroups", "setgid", "setuid"}

Process ==
  [at : {"none", "child", "running", "zombie", "reaped"}, todo : Seq(Step),
   done : SUBSET Step, code : {0, 126, 127, 137}]

Group ==
  [exists : BOOLEAN, subtree : BOOLEAN, limits : SUBSET STRING, oom : Nat,
   procs : SUBSET (1..Procs), helpers : SUBSET (1..Procs)]

LifeTypeOK ==
  /\ def \in ServiceDef /\ nested \in BOOLEAN
  /\ cgroup \in Group /\ monitor \in [watched : BOOLEAN, last : Nat]
  /\ proc \in [1..Procs -> Process]
  /\ svmgr \in [at : {"start", "spawn", "adopt", "reap", "control", "poll"},
                back : {"reap", "poll"}, path : BOOLEAN]
  /\ pid_map \subseteq 1..Procs
  /\ faults \in Nat /\ kills \in Nat /\ reported \in Nat /\ refused \in BOOLEAN

(* A child has done, or has still to do, all that its confinement takes,    *)
(* and nothing its definition does not ask for; setuid comes last.          *)
SetuidIsLast(todo) == \A i \in 1..Len(todo) : todo[i] = "setuid" => i = Len(todo)

OnCourse(d, todo, done) ==
  /\ Confinement(d) \subseteq done \cup Range(todo)
  /\ done \cup Range(todo) \subseteq Range(ChildSteps(d, TRUE))
  /\ SetuidIsLast(todo)
  /\ "setuid" \in done => todo = <<>>

IsSound(d, p) ==
  /\ p.at = "child" => OnCourse(d, p.todo, p.done)
  /\ p.at = "running" => Confinement(d) \subseteq p.done

ProcInv ==
  \A p \in 1..Procs :
    /\ IsSound(def, proc[p])
    /\ proc[p].code = 126 => faults > 0 \/ Unsatisfiable(def)

SvmgrInv ==
  /\ \A p \in cgroup.procs : Live(p)
  /\ svmgr.at = "adopt" => pid_map # {} /\ svmgr.path
  /\ svmgr.at \in {"spawn", "adopt"} /\ svmgr.path => cgroup.exists

(* The counter of a group that is not there is 0.  The watch is not ahead   *)
(* of the group, unless the group was just made anew, and nobody is in it.  *)
Accounted ==
  /\ monitor.last <= cgroup.oom
  /\ reported + (cgroup.oom - monitor.last) <= kills

OomInv ==
  /\ ~cgroup.exists => cgroup.oom = 0 /\ Empty(cgroup)
  /\ reported <= kills
  /\ monitor.watched /\ cgroup.exists =>
       Accounted \/ (svmgr.at \in {"spawn", "adopt"} /\ svmgr.path /\ Empty(cgroup))

RemovedInv ==
  pid_map = {} => ~monitor.watched /\ (svmgr.at = "spawn" \/ ~cgroup.exists \/ refused)

LifeInv ==
  /\ LifeTypeOK /\ ProcInv /\ SvmgrInv /\ OomInv /\ RemovedInv

-----------------------------------------------------------------------------
(* The steps of the child. *)
LEMMA RangeOfNone == \A S : <<>> \in Seq(S) /\ Range(<<>>) = {}
BY DEF Range

LEMMA RangeOfOne ==
  ASSUME NEW S, NEW x \in S
  PROVE  <<x>> \in Seq(S) /\ Range(<<x>>) = {x}
BY DEF Range

LEMMA RangeOfBoth ==
  \A s, t \in Seq(Step) :
    s \o t \in Seq(Step) /\ Range(s \o t) = Range(s) \cup Range(t)
<1> SUFFICES ASSUME NEW s \in Seq(Step), NEW t \in Seq(Step)
             PROVE  s \o t \in Seq(Step) /\ Range(s \o t) = Range(s) \cup Range(t)
  OBVIOUS
<1>1. /\ s \o t \in Seq(Step) /\ Len(s) \in Nat /\ Len(t) \in Nat
      /\ DOMAIN s = 1..Len(s) /\ DOMAIN t = 1..Len(t) /\ DOMAIN (s \o t) = 1..(Len(s) + Len(t))
      /\ \A i \in 1..Len(s) : (s \o t)[i] = s[i]
      /\ \A i \in (Len(s) + 1)..(Len(s) + Len(t)) : (s \o t)[i] = t[i - Len(s)]
  OBVIOUS
<1>2. ASSUME NEW i \in 1..(Len(s) + Len(t)) PROVE (s \o t)[i] \in Range(s) \cup Range(t)
  <2>1. CASE i <= Len(s)
    BY <1>1, <2>1, SMTT(30) DEF Range
  <2>2. CASE i > Len(s)
    <3>1. i - Len(s) \in 1..Len(t) /\ i \in (Len(s) + 1)..(Len(s) + Len(t))
      BY <1>1, <2>2
    <3> QED
      BY <1>1, <3>1, Zenon DEF Range
  <2> QED
    BY <1>1, <2>1, <2>2
<1>3. ASSUME NEW i \in 1..Len(s) PROVE s[i] \in Range(s \o t)
  BY <1>1 DEF Range
<1>4. ASSUME NEW i \in 1..Len(t) PROVE t[i] \in Range(s \o t)
  <2>1. /\ Len(s) + i \in 1..(Len(s) + Len(t)) /\ (Len(s) + i) - Len(s) = i
        /\ Len(s) + i \in (Len(s) + 1)..(Len(s) + Len(t))
    BY <1>1
  <2>2. (s \o t)[Len(s) + i] = t[i]
    BY <1>1, <2>1
  <2> QED
    BY <1>1, <2>1, <2>2, Zenon DEF Range
<1>5. \A x \in Range(s \o t) : x \in Range(s) \cup Range(t)
  BY <1>1, <1>2, ZenonT(30) DEF Range
<1>6. \A x \in Range(s) \cup Range(t) : x \in Range(s \o t)
  <2>1. \A x \in Range(s) : x \in Range(s \o t)
    BY <1>1, <1>3 DEF Range
  <2>2. \A x \in Range(t) : x \in Range(s \o t)
    BY <1>1, <1>4, Zenon DEF Range
  <2> QED
    BY <2>1, <2>2, Zenon
<1> QED
  BY <1>1, <1>5, <1>6

(* Some steps, or none. *)
LEMMA RangeOfOpt ==
  ASSUME NEW b, NEW S, NEW s \in Seq(S)
  PROVE  Opt(b, s) \in Seq(S) /\ Range(Opt(b, s)) = IF b THEN Range(s) ELSE {}
BY RangeOfNone, Zenon DEF Opt

LEMMA RangeOfOptOne ==
  ASSUME NEW b, NEW S, NEW x \in S
  PROVE  Opt(b, <<x>>) \in Seq(S) /\ Range(Opt(b, <<x>>)) = IF b THEN {x} ELSE {}
BY RangeOfOne, RangeOfNone, Zenon DEF Opt

LEMMA AreSteps ==
  /\ "logs" \in Step /\ "unshare" \in Step /\ "private" \in Step /\ "readonly" \in Step
  /\ "usr" \in Step /\ "tmp" \in Step /\ "mkdir" \in Step /\ "bind" \in Step
  /\ "bind_readonly" \in Step /\ "proc" \in Step /\ "workdir" \in Step
  /\ "setgroups" \in Step /\ "setgid" \in Step /\ "setuid" \in Step
BY DEF Step

(* What the steps are, as sets. *)
MountSteps(d) ==
  {"private"}
  \cup (IF d.protect = "strict" THEN {"readonly"} ELSE {})
  \cup (IF d.protect = "full" THEN {"usr"} ELSE {})
  \cup (IF d.private_tmp THEN {"tmp"} ELSE {})
  \cup (IF d.bind # "none"
          THEN (IF d.bind = "missing" THEN {"mkdir"} ELSE {})
               \cup {"bind"} \cup (IF ~d.writable THEN {"bind_readonly"} ELSE {})
          ELSE {})

LEMMA MountRange ==
  ASSUME NEW d
  PROVE  /\ setup_mount_namespace(d) \in Seq(Step)
         /\ Range(setup_mount_namespace(d)) = MountSteps(d)
<1> DEFINE a == Opt(d.protect = "strict", <<"readonly">>)
           b == Opt(d.protect = "full", <<"usr">>)
           c == Opt(d.private_tmp, <<"tmp">>)
           m == Opt(d.bind = "missing", <<"mkdir">>)
           r == Opt(~d.writable, <<"bind_readonly">>)
           o == <<"bind">>
           e == Opt(d.bind # "none", m \o o \o r)
<1>1. /\ a \in Seq(Step) /\ Range(a) = IF d.protect = "strict" THEN {"readonly"} ELSE {}
      /\ b \in Seq(Step) /\ Range(b) = IF d.protect = "full" THEN {"usr"} ELSE {}
  BY RangeOfOptOne, AreSteps, Zenon
<1>2. c \in Seq(Step) /\ Range(c) = IF d.private_tmp THEN {"tmp"} ELSE {}
  BY RangeOfOptOne, AreSteps, Zenon
<1>3. /\ m \in Seq(Step) /\ Range(m) = IF d.bind = "missing" THEN {"mkdir"} ELSE {}
      /\ r \in Seq(Step) /\ Range(r) = IF ~d.writable THEN {"bind_readonly"} ELSE {}
  BY RangeOfOptOne, AreSteps, Zenon
<1>4. o \in Seq(Step) /\ Range(o) = {"bind"}
  BY RangeOfOne, AreSteps
<1>5. <<"private">> \in Seq(Step) /\ Range(<<"private">>) = {"private"}
  BY RangeOfOne, AreSteps
<1> HIDE DEF a, b, c, m, r, o
<1>6. /\ m \o o \o r \in Seq(Step)
      /\ Range(m \o o \o r) = Range(m) \cup {"bind"} \cup Range(r)
  <2>1. m \o o \in Seq(Step) /\ Range(m \o o) = Range(m) \cup {"bind"}
    BY <1>3, <1>4, RangeOfBoth
  <2> QED
    BY <1>3, <2>1, RangeOfBoth, Zenon
<1>7. /\ e \in Seq(Step)
      /\ Range(e) = IF d.bind # "none" THEN Range(m) \cup {"bind"} \cup Range(r) ELSE {}
  BY <1>6, RangeOfOpt, Zenon
<1> HIDE DEF e
<1>8. /\ <<"private">> \o a \o b \o c \o e \in Seq(Step)
      /\ Range(<<"private">> \o a \o b \o c \o e)
           = {"private"} \cup Range(a) \cup Range(b) \cup Range(c) \cup Range(e)
  <2>1. <<"private">> \o a \in Seq(Step) /\ Range(<<"private">> \o a) = {"private"} \cup Range(a)
    BY <1>1, <1>5, RangeOfBoth, Zenon
  <2>2. /\ <<"private">> \o a \o b \in Seq(Step)
        /\ Range(<<"private">> \o a \o b) = {"private"} \cup Range(a) \cup Range(b)
    BY <1>1, <2>1, RangeOfBoth, Zenon
  <2>3. /\ <<"private">> \o a \o b \o c \in Seq(Step)
        /\ Range(<<"private">> \o a \o b \o c) = {"private"} \cup Range(a) \cup Range(b) \cup Range(c)
    BY <1>2, <2>2, RangeOfBoth, Zenon
  <2> QED
    BY <1>7, <2>3, RangeOfBoth, ZenonT(30)
<1>9. setup_mount_namespace(d) = <<"private">> \o a \o b \o c \o e
  BY DEF setup_mount_namespace, a, b, c, e, m, r, o
<1> QED
  BY <1>1, <1>2, <1>3, <1>7, <1>8, <1>9, Zenon DEF MountSteps

IdSteps(d) ==
  (IF "groups" \in d.user THEN {"setgroups"} ELSE {})
  \cup (IF "gid" \in d.user THEN {"setgid"} ELSE {})
  \cup (IF "uid" \in d.user THEN {"setuid"} ELSE {})

NamespaceSteps(d) ==
  (IF d.enable # {} THEN {"unshare"} ELSE {})
  \cup (IF "mnt" \in d.enable
          THEN MountSteps(d) \cup (IF "pid" \in d.enable THEN {"proc"} ELSE {}) ELSE {})

LEMMA NamespaceRange ==
  ASSUME NEW d
  PROVE  /\ apply_namespaces(d) \in Seq(Step)
         /\ Range(apply_namespaces(d)) = NamespaceSteps(d)
<1> DEFINE u == Opt(d.enable # {}, <<"unshare">>)
           s == setup_mount_namespace(d)
           p == Opt("pid" \in d.enable, <<"proc">>)
           m == Opt("mnt" \in d.enable, s \o p)
<1>1. /\ u \in Seq(Step) /\ Range(u) = IF d.enable # {} THEN {"unshare"} ELSE {}
      /\ p \in Seq(Step) /\ Range(p) = IF "pid" \in d.enable THEN {"proc"} ELSE {}
  BY RangeOfOptOne, AreSteps, Zenon
<1>2. s \in Seq(Step) /\ Range(s) = MountSteps(d)
  BY MountRange
<1> HIDE DEF u, s, p
<1>3. s \o p \in Seq(Step) /\ Range(s \o p) = Range(s) \cup Range(p)
  BY <1>1, <1>2, RangeOfBoth
<1>4. m \in Seq(Step) /\ Range(m) = IF "mnt" \in d.enable THEN Range(s) \cup Range(p) ELSE {}
  BY <1>3, RangeOfOpt, Zenon
<1> HIDE DEF m
<1>5. u \o m \in Seq(Step) /\ Range(u \o m) = Range(u) \cup Range(m)
  BY <1>1, <1>4, RangeOfBoth
<1>6. apply_namespaces(d) = u \o m
  BY DEF apply_namespaces, u, m, s, p
<1> QED
  BY <1>1, <1>2, <1>4, <1>5, <1>6, Zenon DEF NamespaceSteps

LEMMA SetuidLastOfBoth ==
  ASSUME NEW a \in Seq(Step), NEW b \in Seq(Step), "setuid" \notin Range(a), SetuidIsLast(b)
  PROVE  SetuidIsLast(a \o b)
<1>1. /\ Len(a) \in Nat /\ Len(b) \in Nat /\ Len(a \o b) = Len(a) + Len(b)
      /\ \A i \in 1..(Len(a) + Len(b)) :
           (a \o b)[i] = IF i <= Len(a) THEN a[i] ELSE b[i - Len(a)]
  OBVIOUS
<1>2. \A i \in 1..Len(a) : a[i] # "setuid"
  <2>1. DOMAIN a = 1..Len(a)
    OBVIOUS
  <2> QED
    BY <2>1 DEF Range
<1>3. SUFFICES ASSUME NEW i \in 1..(Len(a) + Len(b)), (a \o b)[i] = "setuid"
               PROVE  i = Len(a) + Len(b)
  BY <1>1 DEF SetuidIsLast
<1>4. ~(i <= Len(a)) /\ i - Len(a) \in 1..Len(b)
  BY <1>1, <1>2, <1>3
<1>5. b[i - Len(a)] = "setuid"
  BY <1>1, <1>3, <1>4
<1>6. i - Len(a) = Len(b)
  BY <1>4, <1>5, Zenon DEF SetuidIsLast
<1> QED
  BY <1>1, <1>6

LEMMA PrivilegeRange ==
  ASSUME NEW d
  PROVE  /\ drop_privileges(d) \in Seq(Step)
         /\ Range(drop_privileges(d)) = IdSteps(d)
         /\ SetuidIsLast(drop_privileges(d))
<1> DEFINE g == Opt("groups" \in d.user, <<"setgroups">>)
           h == Opt("gid" \in d.user, <<"setgid">>)
           u == Opt("uid" \in d.user, <<"setuid">>)
<1>1. /\ g \in Seq(Step) /\ Range(g) = IF "groups" \in d.user THEN {"setgroups"} ELSE {}
      /\ h \in Seq(Step) /\ Range(h) = IF "gid" \in d.user THEN {"setgid"} ELSE {}
      /\ u \in Seq(Step) /\ Range(u) = IF "uid" \in d.user THEN {"setuid"} ELSE {}
  BY RangeOfOptOne, AreSteps, Zenon
<1>2. SetuidIsLast(u)
  BY DEF SetuidIsLast, Opt
<1>3. drop_privileges(d) = g \o h \o u
  BY DEF drop_privileges
<1> HIDE DEF g, h, u
<1>4. g \o h \in Seq(Step) /\ Range(g \o h) = Range(g) \cup Range(h)
  BY <1>1, RangeOfBoth, Zenon
<1>5. g \o h \o u \in Seq(Step) /\ Range(g \o h \o u) = Range(g) \cup Range(h) \cup Range(u)
  BY <1>1, <1>4, RangeOfBoth, ZenonT(30)
<1>6. "setuid" \notin Range(g \o h)
  BY <1>1, <1>4
<1>7. SetuidIsLast(g \o h \o u)
  BY <1>1, <1>2, <1>4, <1>6, SetuidLastOfBoth, Zenon
<1> QED
  BY <1>1, <1>3, <1>5, <1>7, Zenon DEF IdSteps

LEMMA ChildRange ==
  ASSUME NEW d, NEW log_pipe
  PROVE  /\ ChildSteps(d, log_pipe) \in Seq(Step)
         /\ Range(ChildSteps(d, log_pipe))
              = (IF log_pipe THEN {"logs"} ELSE {}) \cup NamespaceSteps(d)
                \cup (IF d.workdir THEN {"workdir"} ELSE {}) \cup IdSteps(d)
         /\ SetuidIsLast(ChildSteps(d, log_pipe))
<1> DEFINE l == Opt(log_pipe, <<"logs">>)
           n == apply_namespaces(d)
           w == Opt(d.workdir, <<"workdir">>)
           x == drop_privileges(d)
<1>1. /\ l \in Seq(Step) /\ Range(l) = IF log_pipe THEN {"logs"} ELSE {}
      /\ w \in Seq(Step) /\ Range(w) = IF d.workdir THEN {"workdir"} ELSE {}
  BY RangeOfOptOne, AreSteps, Zenon
<1>2. n \in Seq(Step) /\ Range(n) = NamespaceSteps(d)
  BY NamespaceRange
<1>3. x \in Seq(Step) /\ Range(x) = IdSteps(d) /\ SetuidIsLast(x)
  BY PrivilegeRange
<1>4. ChildSteps(d, log_pipe) = l \o n \o w \o x
  BY DEF ChildSteps
<1> HIDE DEF l, n, w, x
<1>5. l \o n \in Seq(Step) /\ Range(l \o n) = Range(l) \cup Range(n)
  BY <1>1, <1>2, RangeOfBoth
<1>6. l \o n \o w \in Seq(Step) /\ Range(l \o n \o w) = Range(l) \cup Range(n) \cup Range(w)
  BY <1>1, <1>5, RangeOfBoth, Zenon
<1>7. /\ l \o n \o w \o x \in Seq(Step)
      /\ Range(l \o n \o w \o x) = Range(l) \cup Range(n) \cup Range(w) \cup Range(x)
  BY <1>3, <1>6, RangeOfBoth, Zenon
<1>8. "setuid" \notin Range(l \o n \o w)
  BY <1>1, <1>2, <1>6 DEF NamespaceSteps, MountSteps
<1>9. SetuidIsLast(l \o n \o w \o x)
  BY <1>3, <1>6, <1>8, SetuidLastOfBoth, Zenon
<1> QED
  BY <1>1, <1>2, <1>3, <1>4, <1>7, <1>9, Zenon

(* The child of a fork is on course: what its definition asks for is all    *)
(* among its steps.                                                         *)
LEMMA ForkOnCourse ==
  ASSUME NEW d \in ServiceDef, NEW log_pipe \in BOOLEAN
  PROVE  ChildSteps(d, log_pipe) \in Seq(Step) /\ OnCourse(d, ChildSteps(d, log_pipe), {})
<1> DEFINE all == Range(ChildSteps(d, log_pipe))
<1>1. /\ NamespaceSteps(d) \subseteq all /\ IdSteps(d) \subseteq all
      /\ all \subseteq Range(ChildSteps(d, TRUE))
  <2>1. all = (IF log_pipe THEN {"logs"} ELSE {}) \cup NamespaceSteps(d)
              \cup (IF d.workdir THEN {"workdir"} ELSE {}) \cup IdSteps(d)
    BY ChildRange, Zenon
  <2>2. Range(ChildSteps(d, TRUE)) = {"logs"} \cup NamespaceSteps(d)
              \cup (IF d.workdir THEN {"workdir"} ELSE {}) \cup IdSteps(d)
    BY ChildRange, Zenon
  <2> HIDE DEF all
  <2> QED
    BY <2>1, <2>2, Zenon
<1>2. Confinement(d) \subseteq NamespaceSteps(d) \cup IdSteps(d)
  <2>1. \A i \in d.user :
          (CASE i = "uid" -> "setuid" [] i = "gid" -> "setgid" [] i = "groups" -> "setgroups")
            \in IdSteps(d)
    BY DEF ServiceDef, IdSteps
  <2>2. ASSUME NEW x \in Confinement(d) PROVE x \in NamespaceSteps(d) \cup IdSteps(d)
    <3>1. CASE x = "unshare" /\ d.enable # {}
      BY <3>1, Zenon DEF NamespaceSteps
    <3>2. CASE "mnt" \in d.enable /\
               \/ x = "private"
               \/ x = "readonly" /\ d.protect = "strict"
               \/ x = "tmp" /\ d.private_tmp
               \/ x = "bind" /\ d.bind # "none"
               \/ x = "bind_readonly" /\ d.bind # "none" /\ ~d.writable
               \/ x = "proc" /\ "pid" \in d.enable
      BY <3>2 DEF NamespaceSteps, MountSteps
    <3>3. CASE x \in {CASE i = "uid" -> "setuid" [] i = "gid" -> "setgid"
                        [] i = "groups" -> "setgroups" : i \in d.user}
      BY <2>1, <3>3, Zenon
    <3> DEFINE mnt == {"private"}
                      \cup (IF d.protect = "strict" THEN {"readonly"} ELSE {})
                      \cup (IF d.private_tmp THEN {"tmp"} ELSE {})
                      \cup (IF d.bind # "none" THEN {"bind"} ELSE {})
                      \cup (IF d.bind # "none" /\ ~d.writable THEN {"bind_readonly"} ELSE {})
                      \cup (IF "pid" \in d.enable THEN {"proc"} ELSE {})
    <3>4. \/ x \in (IF d.enable # {} THEN {"unshare"} ELSE {})
          \/ x \in (IF "mnt" \notin d.enable THEN {} ELSE mnt)
          \/ x \in {CASE i = "uid" -> "setuid" [] i = "gid" -> "setgid"
                      [] i = "groups" -> "setgroups" : i \in d.user}
      BY Zenon DEF Confinement
    <3>5. ASSUME x \in mnt
          PROVE  \/ x = "private"
                 \/ x = "readonly" /\ d.protect = "strict"
                 \/ x = "tmp" /\ d.private_tmp
                 \/ x = "bind" /\ d.bind # "none"
                 \/ x = "bind_readonly" /\ d.bind # "none" /\ ~d.writable
                 \/ x = "proc" /\ "pid" \in d.enable
      BY <3>5
    <3> HIDE DEF mnt
    <3> QED
      BY <3>1, <3>2, <3>3, <3>4, <3>5, Zenon
  <2> QED
    BY <2>2
<1>3. Confinement(d) \subseteq {} \cup all /\ {} \cup all \subseteq Range(ChildSteps(d, TRUE))
  BY <1>1, <1>2, Zenon
<1> QED
  BY <1>3, ChildRange, Zenon DEF OnCourse

LEMMA RangeOfTail ==
  ASSUME NEW q \in Seq(Step), q # <<>>
  PROVE  /\ Tail(q) \in Seq(Step) /\ Head(q) \in Step
         /\ Range(q) = {Head(q)} \cup Range(Tail(q))
         /\ SetuidIsLast(q) => SetuidIsLast(Tail(q)) /\ (Head(q) = "setuid" => Tail(q) = <<>>)
<1>1. /\ Len(q) \in Nat /\ Len(q) > 0 /\ Tail(q) \in Seq(Step) /\ Head(q) \in Step
      /\ Head(q) = q[1] /\ Len(Tail(q)) = Len(q) - 1
      /\ \A i \in 1..(Len(q) - 1) : Tail(q)[i] = q[i + 1]
  OBVIOUS
<1>2. DOMAIN q = 1..Len(q) /\ DOMAIN Tail(q) = 1..(Len(q) - 1)
  BY <1>1
<1>3. Range(q) = {Head(q)} \cup Range(Tail(q))
  <2>1. ASSUME NEW i \in 1..Len(q) PROVE q[i] \in {Head(q)} \cup Range(Tail(q))
    <3>1. CASE i = 1
      BY <1>1, <3>1
    <3>2. CASE i # 1
      <4>1. i - 1 \in 1..(Len(q) - 1) /\ (i - 1) + 1 = i
        BY <1>1, <3>2
      <4> QED
        BY <1>1, <1>2, <4>1, Zenon DEF Range
    <3> QED
      BY <3>1, <3>2
  <2>2. ASSUME NEW i \in 1..(Len(q) - 1) PROVE Tail(q)[i] \in Range(q)
    <3>1. i + 1 \in 1..Len(q)
      BY <1>1
    <3> QED
      BY <1>1, <1>2, <3>1 DEF Range
  <2>3. Head(q) \in Range(q)
    <3>1. 1 \in 1..Len(q)
      BY <1>1
    <3> QED
      BY <1>1, <1>2, <3>1 DEF Range
  <2>4. \A x \in Range(q) : x \in {Head(q)} \cup Range(Tail(q))
    BY <1>2, <2>1 DEF Range
  <2>5. \A x \in Range(Tail(q)) : x \in Range(q)
    BY <1>2, <2>2 DEF Range
  <2> QED
    BY <2>3, <2>4, <2>5
<1>4. ASSUME SetuidIsLast(q) PROVE SetuidIsLast(Tail(q)) /\ (Head(q) = "setuid" => Tail(q) = <<>>)
  <2>0. \A i \in 1..Len(q) : q[i] = "setuid" => i = Len(q)
    BY <1>4 DEF SetuidIsLast
  <2>1. SetuidIsLast(Tail(q))
    <3> SUFFICES ASSUME NEW i \in 1..(Len(q) - 1), Tail(q)[i] = "setuid"
                 PROVE  i = Len(q) - 1
      BY <1>1, Zenon DEF SetuidIsLast
    <3>1. i + 1 \in 1..Len(q) /\ q[i + 1] = "setuid"
      BY <1>1
    <3>2. i + 1 = Len(q)
      BY <2>0, <3>1
    <3>3. Len(q) \in Nat /\ i \in Int
      BY <1>1
    <3> QED
      BY <3>2, <3>3
  <2>2. ASSUME Head(q) = "setuid" PROVE Tail(q) = <<>>
    <3>1. Len(q) = 1
      <4>1. 1 \in 1..Len(q)
        BY <1>1
      <4> QED
        BY <1>1, <2>0, <2>2, <4>1, Zenon
    <3>2. Len(Tail(q)) = 0
      BY <1>1, <3>1
    <3>3. \A s \in Seq(Step) : Len(s) = 0 => s = <<>>
      OBVIOUS
    <3> QED
      BY <1>1, <3>2, <3>3, Zenon
  <2> QED
    BY <2>1, <2>2
<1> QED
  BY <1>1, <1>3, <1>4

(* A step that is done, or whose failure is lived with, keeps the child on  *)
(* course; a step the kernel refuses is the fault of the definition.        *)
LEMMA StepOnCourse ==
  ASSUME NEW d \in ServiceDef, NEW todo \in Seq(Step), NEW done \in SUBSET Step,
         todo # <<>>, OnCourse(d, todo, done)
  PROVE  /\ Tail(todo) \in Seq(Step) /\ Head(todo) \in Step
         /\ OnCourse(d, Tail(todo), done \cup {Head(todo)})
         /\ Head(todo) \in Tolerated => OnCourse(d, Tail(todo), done)
         /\ Refuses(d, done, Head(todo)) => Unsatisfiable(d)
<1>1. /\ Tail(todo) \in Seq(Step) /\ Head(todo) \in Step
      /\ Range(todo) = {Head(todo)} \cup Range(Tail(todo))
      /\ SetuidIsLast(Tail(todo)) /\ (Head(todo) = "setuid" => Tail(todo) = <<>>)
  BY RangeOfTail DEF OnCourse
<1>2. OnCourse(d, Tail(todo), done \cup {Head(todo)})
  BY <1>1, Zenon DEF OnCourse
<1>3. ASSUME Head(todo) \in Tolerated PROVE OnCourse(d, Tail(todo), done)
  <2>1. Head(todo) \notin Confinement(d)
    <3>1. \A i \in d.user :
            (CASE i = "uid" -> "setuid" [] i = "gid" -> "setgid" [] i = "groups" -> "setgroups")
              \in {"setuid", "setgid", "setgroups"}
      BY DEF ServiceDef
    <3> QED
      BY <1>3, <3>1, Zenon DEF Confinement, Tolerated
  <2> QED
    BY <1>1, <2>1, Zenon DEF OnCourse
<1>4. ASSUME Refuses(d, done, Head(todo)) PROVE Unsatisfiable(d)
  <2>1. \A s \in done \cup {Head(todo)} :
          s \in {"logs", "workdir"} \cup NamespaceSteps(d) \cup IdSteps(d)
    <3>1. Range(ChildSteps(d, TRUE))
            \subseteq {"logs", "workdir"} \cup NamespaceSteps(d) \cup IdSteps(d)
      BY ChildRange, Zenon
    <3> QED
      BY <1>1, <3>1, Zenon DEF OnCourse
  <2>2. CASE Head(todo) \in {"setgroups", "setgid", "setuid"} /\ ("setuid" \in done \/ "user" \in d.enable)
    <3>1. "user" \in d.enable
      BY <2>2 DEF OnCourse
    <3>2. Head(todo) \in IdSteps(d)
      BY <2>1, <2>2, ZenonT(30) DEF NamespaceSteps, MountSteps
    <3> QED
      BY <3>1, <3>2 DEF IdSteps, Unsatisfiable
  <2>3. CASE Head(todo) = "mkdir" /\ "readonly" \in done
    <3>1. "mkdir" \in NamespaceSteps(d) /\ "readonly" \in NamespaceSteps(d)
      BY <2>1, <2>3 DEF IdSteps
    <3> QED
      BY <3>1, Zenon DEF NamespaceSteps, MountSteps, Unsatisfiable
  <2> QED
    BY <1>4, <2>2, <2>3 DEF Refuses
<1> QED
  BY <1>1, <1>2, <1>3, <1>4, Zenon

-----------------------------------------------------------------------------
(* What the steps of the service leave alone. *)
LEMMA FaultsGrow ==
  ASSUME LifeTypeOK, UNCHANGED faults \/ Fails
  PROVE  faults' \in Nat /\ faults' >= faults /\ (Fails => faults' > 0)
BY DEF LifeTypeOK, Fails

LEMMA ProcKept ==
  ASSUME LifeTypeOK, ProcInv, UNCHANGED <<def, proc>>, UNCHANGED faults \/ Fails
  PROVE  ProcInv'
<1>1. faults' \in Nat /\ faults \in Nat /\ faults' >= faults
  BY FaultsGrow, Zenon DEF LifeTypeOK
<1>2. ASSUME NEW p \in 1..Procs
      PROVE  IsSound(def, proc[p]) /\ (proc[p].code = 126 => faults' > 0 \/ Unsatisfiable(def))
  BY <1>1 DEF ProcInv
<1> QED
  BY <1>2, Zenon DEF ProcInv

LEMMA ProcAssigned ==
  ASSUME LifeTypeOK, NEW p \in 1..Procs, NEW r \in Process, proc' = [proc EXCEPT ![p] = r]
  PROVE  /\ proc' \in [1..Procs -> Process] /\ proc'[p] = r
         /\ \A q \in 1..Procs : q # p => proc'[q] = proc[q]
BY Zenon DEF LifeTypeOK

LEMMA ProcChanged ==
  ASSUME LifeTypeOK, ProcInv, UNCHANGED def, UNCHANGED faults \/ Fails,
         NEW p \in 1..Procs, proc' \in [1..Procs -> Process],
         \A q \in 1..Procs : q # p => proc'[q] = proc[q],
         IsSound(def, proc'[p]), proc'[p].code = 126 => faults' > 0 \/ Unsatisfiable(def)
  PROVE  ProcInv'
<1>1. faults' \in Nat /\ faults \in Nat /\ faults' >= faults
  BY FaultsGrow, Zenon DEF LifeTypeOK
<1>2. ASSUME NEW q \in 1..Procs
      PROVE  IsSound(def, proc'[q]) /\ (proc'[q].code = 126 => faults' > 0 \/ Unsatisfiable(def))
  BY <1>1 DEF ProcInv
<1> QED
  BY <1>2, Zenon DEF ProcInv

-----------------------------------------------------------------------------
(* The service is set up. *)
LEMMA InitLife == LifeInit => LifeInv
<1> SUFFICES ASSUME LifeInit PROVE LifeInv
  OBVIOUS
<1>2. NoProc \in Process /\ NoProc.at = "none" /\ NoProc.code = 0
  BY RangeOfNone DEF NoProc, Process
<1>3. /\ NoGroup \in Group /\ ~NoGroup.exists /\ NoGroup.oom = 0 /\ Empty(NoGroup)
      /\ NoGroup.procs = {}
  BY DEF NoGroup, Group, Empty
<1>4. Unwatched \in [watched : BOOLEAN, last : Nat] /\ ~Unwatched.watched
  BY DEF Unwatched
<1>5. def \in ServiceDef /\ nested \in BOOLEAN
  BY LifeAssumption, Zenon DEF LifeInit
<1>6. /\ svmgr \in [at : {"start", "spawn", "adopt", "reap", "control", "poll"},
                    back : {"reap", "poll"}, path : BOOLEAN]
      /\ svmgr.at = "start"
  BY DEF LifeInit
<1>7. LifeTypeOK
  BY <1>2, <1>3, <1>4, <1>5, <1>6, Zenon DEF LifeInit, LifeTypeOK
<1>8. ProcInv
  BY <1>2 DEF LifeInit, ProcInv, IsSound
<1>9. SvmgrInv /\ OomInv /\ RemovedInv
  BY <1>3, <1>4, <1>6 DEF LifeInit, SvmgrInv, OomInv, RemovedInv
<1> QED
  BY <1>7, <1>8, <1>9 DEF LifeInv

LEMMA LimitsAreStrings ==
  ASSUME NEW n \in 0..Len(limits)
  PROVE  apply_limits(n) \subseteq STRING
<1>1. SubSeq(limits, 1, n) \in Seq(STRING)
  BY LifeAssumption
<1> QED
  BY <1>1 DEF apply_limits, Range

LEMMA CreateLife == LifeInv /\ create_service_cgroup => LifeInv'
<1> SUFFICES ASSUME LifeInv, create_service_cgroup PROVE LifeInv'
  OBVIOUS
<1>0. LifeTypeOK /\ ProcInv /\ SvmgrInv /\ OomInv /\ RemovedInv
  BY DEF LifeInv
<1>a. /\ svmgr.at = "start" /\ (UNCHANGED faults \/ Fails)
      /\ UNCHANGED <<vars, def, nested, monitor, proc, pid_map, kills, reported, refused>>
  <2>1. UNCHANGED faults \/ Fails
    BY Zenon DEF create_service_cgroup
  <2>2. /\ svmgr.at = "start"
        /\ UNCHANGED <<vars, def, nested, monitor, proc, pid_map, kills, reported, refused>>
    BY Zenon DEF create_service_cgroup
  <2> QED
    BY <2>1, <2>2, Zenon
<1>b. \/ UNCHANGED cgroup /\ svmgr' = [svmgr EXCEPT !.at = "spawn", !.path = FALSE]
      \/ /\ \E n \in 0..Len(limits) :
              cgroup' = [cgroup EXCEPT !.exists = TRUE, !.subtree = nested,
                                       !.limits = @ \cup apply_limits(n)]
         /\ svmgr' = [svmgr EXCEPT !.at = "spawn", !.path = TRUE]
  <2>1. Len(limits) \in 0..Len(limits) /\ \A n \in 0..(Len(limits) - 1) : n \in 0..Len(limits)
    BY LifeAssumption
  <2> QED
    BY <2>1, Zenon DEF create_service_cgroup
<1>2. UNCHANGED faults \/ Fails
  BY <1>a
<1>3. /\ svmgr' \in [at : {"start", "spawn", "adopt", "reap", "control", "poll"},
                     back : {"reap", "poll"}, path : BOOLEAN]
      /\ svmgr.at = "start" /\ svmgr'.at = "spawn" /\ (cgroup' # cgroup => svmgr'.path)
  <2>1. CASE UNCHANGED cgroup /\ svmgr' = [svmgr EXCEPT !.at = "spawn", !.path = FALSE]
    BY <1>0, <1>a, <2>1, Zenon DEF LifeTypeOK
  <2>2. CASE svmgr' = [svmgr EXCEPT !.at = "spawn", !.path = TRUE]
    BY <1>0, <1>a, <2>2, Zenon DEF LifeTypeOK
  <2> QED
    BY <1>b, <2>1, <2>2, Zenon
<1>4. /\ cgroup' \in Group /\ (cgroup' # cgroup => cgroup'.exists)
      /\ cgroup'.oom = cgroup.oom /\ cgroup'.procs = cgroup.procs /\ cgroup'.helpers = cgroup.helpers
  <2>1. CASE UNCHANGED cgroup
    BY <1>0, <2>1, Zenon DEF LifeTypeOK
  <2>2. ASSUME NEW n \in 0..Len(limits),
               cgroup' = [cgroup EXCEPT !.exists = TRUE, !.subtree = nested,
                                        !.limits = @ \cup apply_limits(n)]
        PROVE  <1>4
    <3>1. apply_limits(n) \subseteq STRING /\ cgroup \in Group /\ nested \in BOOLEAN
      BY <1>0, LimitsAreStrings, Zenon DEF LifeTypeOK
    <3> QED
      BY <2>2, <3>1, Zenon DEF Group
  <2> QED
    BY <1>b, <2>1, <2>2, Zenon
<1>5. LifeTypeOK'
  BY <1>0, <1>a, <1>3, <1>4, FaultsGrow, Zenon DEF LifeTypeOK
<1>6. ProcInv'
  BY <1>0, <1>a, ProcKept, Zenon
<1>7. SvmgrInv'
  <2>1. svmgr'.path => cgroup'.exists
    BY <1>0, <1>b, Zenon DEF LifeTypeOK, Group
  <2> QED
    BY <1>0, <1>a, <1>3, <1>4, <2>1, Zenon DEF SvmgrInv, Live
<1>8. OomInv'
  <2>1. /\ (Empty(cgroup) <=> Empty(cgroup')) /\ monitor' = monitor
        /\ reported' = reported /\ kills' = kills
    BY <1>a, <1>4, Zenon DEF Empty
  <2>2. Accounted <=> Accounted'
    BY <1>4, <2>1, Zenon DEF Accounted
  <2>3. CASE cgroup' = cgroup
    BY <1>0, <1>3, <2>1, <2>2, <2>3, Zenon DEF OomInv
  <2>4. CASE cgroup' # cgroup
    BY <1>0, <1>3, <1>4, <2>1, <2>2, <2>4, Zenon DEF OomInv
  <2> QED
    BY <2>3, <2>4
<1>9. RemovedInv'
  BY <1>0, <1>a, <1>3, Zenon DEF RemovedInv
<1> QED
  BY <1>5, <1>6, <1>7, <1>8, <1>9, Zenon DEF LifeInv

(* remove_service_cgroup. *)
LEMMA RemoveGroup ==
  ASSUME cgroup \in Group, OomInv, \A p \in cgroup.procs : Live(p), remove_service_cgroup
  PROVE  /\ cgroup' \in Group /\ refused' \in BOOLEAN
         /\ ~cgroup'.exists \/ refused'
         /\ cgroup'.exists => cgroup' = cgroup
         /\ ~cgroup'.exists => cgroup'.oom = 0 /\ Empty(cgroup')
         /\ cgroup'.procs \subseteq cgroup.procs
<1>1. /\ NoGroup \in Group /\ ~NoGroup.exists /\ NoGroup.oom = 0 /\ Empty(NoGroup)
      /\ NoGroup.procs = {}
  BY Zenon DEF NoGroup, Group, Empty
<1>2. CASE Empty(cgroup)
  BY <1>1, <1>2 DEF remove_service_cgroup
<1>3. CASE ~Empty(cgroup)
  BY <1>3, Zenon DEF remove_service_cgroup, OomInv
<1> QED
  BY <1>2, <1>3, Zenon

LEMMA SpawnLife == LifeInv /\ spawn_service => LifeInv'
<1> SUFFICES ASSUME LifeInv, spawn_service PROVE LifeInv'
  OBVIOUS
<1>0. LifeTypeOK /\ ProcInv /\ SvmgrInv /\ OomInv /\ RemovedInv
  BY DEF LifeInv
<1>2. UNCHANGED faults \/ Fails
  BY Zenon DEF spawn_service
<1>4. cgroup \in Group /\ def \in ServiceDef /\ UNCHANGED <<def, nested, monitor, kills, reported>>
  BY <1>0, Zenon DEF LifeTypeOK, spawn_service
<1>5. ASSUME NEW b \in BOOLEAN, Forked(ChildSteps(def, b)), UNCHANGED <<cgroup, refused>>,
             svmgr' = [svmgr EXCEPT !.at = IF svmgr.path THEN "adopt" ELSE svmgr.back]
      PROVE  LifeInv'
  <2> DEFINE steps == ChildSteps(def, b)
             new == [NoProc EXCEPT !.at = "child", !.todo = steps]
  <2>1. steps \in Seq(Step) /\ OnCourse(def, steps, {})
    BY <1>4, ForkOnCourse
  <2> HIDE DEF steps
  <2>2. /\ new \in Process /\ new.at = "child" /\ new.todo = steps /\ new.done = {} /\ new.code = 0
    BY <2>1, Zenon DEF NoProc, Process
  <2>3. IsSound(def, new)
    BY <2>1, <2>2, Zenon DEF IsSound
  <2>4. PICK p \in Fresh : proc' = [proc EXCEPT ![p] = new] /\ pid_map' = pid_map \cup {p}
    BY <1>5, Zenon DEF Forked, steps
  <2> HIDE DEF new
  <2>a. p \in 1..Procs /\ proc[p].at = "none"
    BY DEF Fresh
  <2>5. /\ proc' \in [1..Procs -> Process] /\ proc'[p] = new
        /\ \A q \in 1..Procs : q # p => proc'[q] = proc[q]
    BY <1>0, <2>2, <2>4, <2>a, ProcAssigned, Zenon
  <2>6. ProcInv'
    BY <1>0, <1>2, <1>4, <2>2, <2>3, <2>5, <2>a, ProcChanged
  <2>7. /\ svmgr' \in [at : {"start", "spawn", "adopt", "reap", "control", "poll"},
                       back : {"reap", "poll"}, path : BOOLEAN]
        /\ svmgr'.path = svmgr.path /\ svmgr.at = "spawn" /\ svmgr'.at # "spawn"
        /\ (svmgr'.at = "adopt" <=> svmgr.path)
    BY <1>0, <1>5, Zenon DEF LifeTypeOK, spawn_service
  <2>8. LifeTypeOK'
    BY <1>0, <1>2, <1>4, <1>5, <2>4, <2>5, <2>7, <2>a, FaultsGrow, Zenon DEF LifeTypeOK
  <2>9. SvmgrInv'
    <3>1. \A q \in cgroup.procs : Live(q)'
      BY <1>0, <1>4, <2>5, <2>a, Zenon DEF SvmgrInv, Live, Group
    <3> QED
      BY <1>0, <1>5, <2>4, <2>7, <3>1, Zenon DEF SvmgrInv
  <2>10. OomInv'
    BY <1>0, <1>4, <1>5, <2>7 DEF OomInv, Accounted
  <2>11. RemovedInv'
    BY <2>4, Zenon DEF RemovedInv
  <2> QED
    BY <2>6, <2>8, <2>9, <2>10, <2>11, Zenon DEF LifeInv
<1>6. ASSUME Fails, remove_service_cgroup, UNCHANGED <<proc, pid_map>>,
             svmgr' = [svmgr EXCEPT !.at = svmgr.back]
      PROVE  LifeInv'
  <2>1. /\ cgroup' \in Group /\ refused' \in BOOLEAN
        /\ ~cgroup'.exists \/ refused'
        /\ cgroup'.exists => cgroup' = cgroup
        /\ ~cgroup'.exists => cgroup'.oom = 0 /\ Empty(cgroup')
        /\ cgroup'.procs \subseteq cgroup.procs
    BY <1>0, <1>4, <1>6, RemoveGroup, Zenon DEF SvmgrInv
  <2>2. /\ svmgr' \in [at : {"start", "spawn", "adopt", "reap", "control", "poll"},
                       back : {"reap", "poll"}, path : BOOLEAN]
        /\ svmgr.at = "spawn" /\ svmgr'.at \notin {"spawn", "adopt"}
    BY <1>0, <1>6, Zenon DEF LifeTypeOK, spawn_service
  <2>3. LifeTypeOK'
    BY <1>0, <1>2, <1>4, <1>6, <2>1, <2>2, FaultsGrow, Zenon DEF LifeTypeOK
  <2>4. ProcInv'
    BY <1>0, <1>2, <1>4, <1>6, ProcKept, Zenon
  <2>5. SvmgrInv'
    BY <1>0, <1>6, <2>1, <2>2, Zenon DEF SvmgrInv, Live
  <2>6. OomInv'
    <3>1. ASSUME cgroup'.exists PROVE cgroup' = cgroup /\ ~Empty(cgroup)
      BY <1>6, <2>1, <3>1, Zenon DEF remove_service_cgroup, NoGroup
    <3> QED
      BY <1>0, <1>4, <2>1, <3>1, Zenon DEF OomInv, Accounted
  <2>7. RemovedInv'
    BY <1>0, <1>4, <1>6, <2>1, Zenon DEF RemovedInv
  <2> QED
    BY <2>3, <2>4, <2>5, <2>6, <2>7 DEF LifeInv
<1> QED
  BY <1>5, <1>6, Zenon DEF spawn_service
LEMMA AdoptLife == LifeInv /\ Adopt => LifeInv'
<1> SUFFICES ASSUME LifeInv, Adopt PROVE LifeInv'
  OBVIOUS
<1>0. LifeTypeOK /\ ProcInv /\ SvmgrInv /\ OomInv /\ RemovedInv
  BY DEF LifeInv
<1>2. UNCHANGED faults \/ Fails
  BY DEF Adopt, add_process
<1>3. pid_map # {} /\ UNCHANGED <<def, nested, proc, pid_map, kills, reported, refused>>
  BY <1>0 DEF Adopt, SvmgrInv
<1>4. PICK p \in 1..Procs : add_process(p)
  BY <1>0, Zenon DEF Adopt, LifeTypeOK
<1>5. /\ cgroup' \in Group /\ cgroup'.exists = cgroup.exists /\ cgroup'.oom = cgroup.oom
      /\ cgroup'.helpers = cgroup.helpers
      /\ cgroup'.procs = cgroup.procs \/ (cgroup'.procs = cgroup.procs \cup {p} /\ Live(p))
  BY <1>0, <1>4 DEF add_process, LifeTypeOK, Group
<1>6. /\ monitor' \in [watched : BOOLEAN, last : Nat] /\ monitor'.watched
      /\ monitor'.last = cgroup.oom
  BY <1>0 DEF Adopt, watch, read_oom_kill_count, LifeTypeOK, Group
<1>7. /\ svmgr' \in [at : {"start", "spawn", "adopt", "reap", "control", "poll"},
                     back : {"reap", "poll"}, path : BOOLEAN]
      /\ svmgr'.at \notin {"spawn", "adopt"}
  BY <1>0, Zenon DEF Adopt, LifeTypeOK
<1>8. LifeTypeOK'
  BY <1>0, <1>2, <1>3, <1>5, <1>6, <1>7, FaultsGrow, Zenon DEF LifeTypeOK
<1>9. ProcInv'
  BY <1>0, <1>2, <1>3, ProcKept, Zenon
<1>10. SvmgrInv'
  BY <1>0, <1>3, <1>5, <1>7, Zenon DEF SvmgrInv, Live
<1>11. OomInv'
  <2>1. cgroup.oom \in Nat /\ reported \in Nat /\ kills \in Nat
    BY <1>0, Zenon DEF LifeTypeOK, Group
  <2>2. Accounted'
    BY <1>0, <1>3, <1>5, <1>6, <2>1 DEF OomInv, Accounted
  <2>3. ASSUME ~cgroup'.exists PROVE cgroup'.oom = 0 /\ Empty(cgroup')
    BY <1>0, <1>5, <2>3, Zenon DEF Adopt, SvmgrInv
  <2> QED
    BY <1>0, <1>3, <2>2, <2>3, Zenon DEF OomInv
<1>12. RemovedInv'
  BY <1>3 DEF RemovedInv
<1> QED
  BY <1>8, <1>9, <1>10, <1>11, <1>12, Zenon DEF LifeInv
-----------------------------------------------------------------------------
(* The child, the service, its helpers and the OOM killer.  None of them    *)
(* moves svmgr or the watch: a process of the service changes, or leaves    *)
(* the group, and the counter of the group grows with the kills.            *)
LEMMA ProcessLife ==
  ASSUME LifeInv, NEW p \in 1..Procs,
         UNCHANGED <<vars, def, nested, monitor, svmgr, pid_map, reported, refused>>,
         UNCHANGED faults \/ Fails,
         proc' \in [1..Procs -> Process],
         \A q \in 1..Procs : q # p => proc'[q] = proc[q],
         IsSound(def, proc'[p]), proc'[p].code = 126 => faults' > 0 \/ Unsatisfiable(def),
         cgroup' \in Group, cgroup'.exists = cgroup.exists,
         cgroup'.procs \subseteq cgroup.procs, p \in cgroup'.procs => Live(p)',
         Empty(cgroup) => Empty(cgroup'),
         \/ cgroup'.oom = cgroup.oom /\ kills' = kills
         \/ cgroup'.oom = cgroup.oom + 1 /\ kills' = kills + 1 /\ ~Empty(cgroup)
  PROVE  LifeInv'
<1>0. LifeTypeOK /\ ProcInv /\ SvmgrInv /\ OomInv /\ RemovedInv
  BY Zenon DEF LifeInv
<1>2. LifeTypeOK'
  <2>1. kills' \in Nat
    BY <1>0 DEF LifeTypeOK
  <2> QED
    BY <1>0, <2>1, FaultsGrow, Zenon DEF LifeTypeOK
<1>3. ProcInv'
  BY <1>0, ProcChanged, Zenon
<1>4. SvmgrInv'
  <2>2. \A q \in cgroup'.procs : Live(q)'
    <3> TAKE q \in cgroup'.procs
    <3>1. CASE q = p
      BY <3>1, Zenon
    <3>2. CASE q # p
      <4>1. q \in cgroup.procs /\ q \in 1..Procs
        BY Zenon DEF Group
      <4> QED
        BY <1>0, <3>2, <4>1, Zenon DEF SvmgrInv, Live
    <3> QED
      BY <3>1, <3>2, Zenon
  <2> QED
    BY <1>0, <2>2, Zenon DEF SvmgrInv
<1>5. OomInv'
  <2>1. /\ cgroup.oom \in Nat /\ cgroup'.oom \in Nat /\ monitor.last \in Nat
        /\ reported \in Nat /\ kills \in Nat
    BY <1>0, Zenon DEF LifeTypeOK, Group
  <2>2. Accounted => Accounted'
    BY <2>1, SMTT(20) DEF Accounted
  <2>3. reported' <= kills'
    BY <1>0, <2>1 DEF OomInv
  <2>4. ASSUME ~cgroup'.exists PROVE cgroup'.oom = 0 /\ Empty(cgroup')
    BY <1>0, <2>4 DEF OomInv
  <2> QED
    BY <1>0, <2>2, <2>3, <2>4, Zenon DEF OomInv
<1>6. RemovedInv'
  BY <1>0 DEF RemovedInv
<1> QED
  BY <1>2, <1>3, <1>4, <1>5, <1>6, Zenon DEF LifeInv

LEMMA Leaving ==
  ASSUME cgroup \in Group, NEW p \in 1..Procs
  PROVE  /\ Leaves(p) \in Group /\ Leaves(p).exists = cgroup.exists /\ Leaves(p).oom = cgroup.oom
         /\ Leaves(p).procs = cgroup.procs \ {p} /\ Leaves(p).helpers = cgroup.helpers
         /\ Empty(cgroup) => Empty(Leaves(p))
<1>1. /\ Leaves(p) \in Group /\ Leaves(p).exists = cgroup.exists /\ Leaves(p).oom = cgroup.oom
      /\ Leaves(p).procs = cgroup.procs \ {p} /\ Leaves(p).helpers = cgroup.helpers
  BY Zenon DEF Leaves, Group
<1> QED
  BY <1>1 DEF Empty

LEMMA StillMember ==
  ASSUME LifeInv, NEW p \in 1..Procs, UNCHANGED cgroup, proc'[p].at \in {"child", "running"}
  PROVE  /\ cgroup' \in Group /\ cgroup'.exists = cgroup.exists
         /\ cgroup'.procs \subseteq cgroup.procs /\ (p \in cgroup'.procs => Live(p)')
         /\ (Empty(cgroup) => Empty(cgroup')) /\ cgroup'.oom = cgroup.oom
BY Zenon DEF LifeInv, LifeTypeOK, Live

LEMMA NoMember ==
  ASSUME LifeInv, NEW p \in 1..Procs, cgroup' = Leaves(p)
  PROVE  /\ cgroup' \in Group /\ cgroup'.exists = cgroup.exists
         /\ cgroup'.procs \subseteq cgroup.procs /\ p \notin cgroup'.procs
         /\ (Empty(cgroup) => Empty(cgroup')) /\ cgroup'.oom = cgroup.oom
BY Leaving DEF LifeInv, LifeTypeOK

LEMMA ChildStepLife ==
  ASSUME LifeInv, NEW p \in 1..Procs, ChildStep(p)
  PROVE  LifeInv'
<1> DEFINE r == proc[p]
           step == Head(r.todo)
<1>0. LifeTypeOK /\ ProcInv
  BY Zenon DEF LifeInv
<1>1. /\ r \in Process /\ r.todo \in Seq(Step) /\ r.done \in SUBSET Step
      /\ r.at = "child" /\ r.todo # <<>> /\ def \in ServiceDef
  BY <1>0, SMTT(30) DEF LifeTypeOK, Process, ChildStep
<1>2. OnCourse(def, r.todo, r.done) /\ (r.code = 126 => faults > 0 \/ Unsatisfiable(def))
  BY <1>0, <1>1, Zenon DEF ProcInv, IsSound
<1>3. /\ Tail(r.todo) \in Seq(Step) /\ step \in Step
      /\ OnCourse(def, Tail(r.todo), r.done \cup {step})
      /\ step \in Tolerated => OnCourse(def, Tail(r.todo), r.done)
      /\ Refuses(def, r.done, step) => Unsatisfiable(def)
  BY <1>1, <1>2, StepOnCourse, Zenon
<1>4. /\ UNCHANGED <<vars, def, nested, monitor, svmgr, pid_map, reported, refused>>
      /\ UNCHANGED kills /\ (UNCHANGED faults \/ Fails)
  BY DEF ChildStep
<1>5. proc \in [1..Procs -> Process] /\ faults \in Nat /\ faults' \in Nat /\ faults' >= faults
  BY <1>0, <1>4, FaultsGrow, Zenon DEF LifeTypeOK
<1>6. CASE /\ proc' = [proc EXCEPT ![p].todo = Tail(@), ![p].done = @ \cup {step}]
           /\ UNCHANGED <<cgroup, faults>>
  <2> DEFINE rest == Tail(r.todo)
             more == r.done \cup {step}
             new == [r EXCEPT !.todo = rest, !.done = more]
  <2>1. proc' = [proc EXCEPT ![p] = new]
    BY <1>5, <1>6, Zenon
  <2>2. /\ new \in Process /\ new.at = "child" /\ new.todo = Tail(r.todo)
        /\ new.done = r.done \cup {step} /\ new.code = r.code
    <3>1. rest \in Seq(Step) /\ more \in SUBSET Step
      BY <1>1, <1>3, Zenon
    <3> HIDE DEF rest, more, r
    <3>2. /\ new \in Process /\ new.at = "child" /\ new.todo = rest
          /\ new.done = more /\ new.code = r.code
      BY <1>1, <3>1, Zenon DEF Process
    <3> QED
      BY <3>2, Zenon DEF rest, more
  <2> HIDE DEF new
  <2>3. /\ proc' \in [1..Procs -> Process] /\ proc'[p] = new
        /\ \A q \in 1..Procs : q # p => proc'[q] = proc[q]
    BY <1>0, <2>1, <2>2, ProcAssigned, Zenon
  <2>4. IsSound(def, new) /\ (new.code = 126 => faults' > 0 \/ Unsatisfiable(def))
    <3>1. IsSound(def, new)
      BY <1>3, <2>2 DEF IsSound
    <3>2. faults > 0 => faults' > 0
      BY <1>5
    <3> QED
      BY <1>2, <2>2, <3>1, <3>2, ZenonT(30)
  <2>5. /\ cgroup' \in Group /\ cgroup'.exists = cgroup.exists
        /\ cgroup'.procs \subseteq cgroup.procs /\ (p \in cgroup'.procs => Live(p)')
        /\ (Empty(cgroup) => Empty(cgroup')) /\ cgroup'.oom = cgroup.oom
    BY <1>6, <2>2, <2>3, StillMember, Zenon
  <2> HIDE DEF r, step
  <2> QED
    BY <1>4, <2>3, <2>4, <2>5, ProcessLife, Zenon
<1>7. CASE /\ step \in Tolerated /\ proc' = [proc EXCEPT ![p].todo = Tail(@)]
           /\ UNCHANGED cgroup
  <2> DEFINE new == [r EXCEPT !.todo = Tail(r.todo)]
  <2>1. proc' = [proc EXCEPT ![p] = new]
    BY <1>5, <1>7, Zenon
  <2>2. /\ new \in Process /\ new.at = "child" /\ new.todo = Tail(r.todo)
        /\ new.done = r.done /\ new.code = r.code
    BY <1>1, <1>3, ZenonT(30) DEF Process
  <2> HIDE DEF new
  <2>3. /\ proc' \in [1..Procs -> Process] /\ proc'[p] = new
        /\ \A q \in 1..Procs : q # p => proc'[q] = proc[q]
    BY <1>0, <2>1, <2>2, ProcAssigned, Zenon
  <2>4. IsSound(def, new) /\ (new.code = 126 => faults' > 0 \/ Unsatisfiable(def))
    BY <1>2, <1>3, <1>5, <1>7, <2>2 DEF IsSound
  <2>5. /\ cgroup' \in Group /\ cgroup'.exists = cgroup.exists
        /\ cgroup'.procs \subseteq cgroup.procs /\ (p \in cgroup'.procs => Live(p)')
        /\ (Empty(cgroup) => Empty(cgroup')) /\ cgroup'.oom = cgroup.oom
    BY <1>7, <2>2, <2>3, StillMember, Zenon
  <2> HIDE DEF r, step
  <2> QED
    BY <1>4, <2>3, <2>4, <2>5, ProcessLife
<1>8. CASE /\ IF Refuses(def, r.done, step) THEN UNCHANGED faults ELSE Fails
           /\ proc' = [proc EXCEPT ![p].at = "zombie", ![p].code = 126]
           /\ cgroup' = Leaves(p)
  <2> DEFINE new == [r EXCEPT !.at = "zombie", !.code = 126]
  <2>1. proc' = [proc EXCEPT ![p] = new]
    BY <1>5, <1>8, ZenonT(30)
  <2>2. new \in Process /\ new.at = "zombie" /\ new.code = 126
    BY <1>1, ZenonT(30) DEF Process
  <2> HIDE DEF new
  <2>3. /\ proc' \in [1..Procs -> Process] /\ proc'[p] = new
        /\ \A q \in 1..Procs : q # p => proc'[q] = proc[q]
    BY <1>0, <2>1, <2>2, ProcAssigned, Zenon
  <2>4. IsSound(def, new) /\ (faults' > 0 \/ Unsatisfiable(def))
    BY <1>0, <1>3, <1>4, <1>8, <2>2, FaultsGrow, Zenon DEF IsSound
  <2>5. /\ cgroup' \in Group /\ cgroup'.exists = cgroup.exists
        /\ cgroup'.procs \subseteq cgroup.procs /\ p \notin cgroup'.procs
        /\ (Empty(cgroup) => Empty(cgroup')) /\ cgroup'.oom = cgroup.oom
    BY <1>8, NoMember, Zenon
  <2> HIDE DEF r, step
  <2> QED
    BY <1>4, <2>3, <2>4, <2>5, ProcessLife, Zenon
<1> QED
  BY <1>6, <1>7, <1>8, Zenon DEF ChildStep

LEMMA ExecveLife ==
  ASSUME LifeInv, NEW p \in 1..Procs, Execve(p)
  PROVE  LifeInv'
<1> DEFINE r == proc[p]
<1>0. LifeTypeOK /\ ProcInv
  BY DEF LifeInv
<1>1. r \in Process /\ r.at = "child" /\ r.todo = <<>>
  BY <1>0 DEF LifeTypeOK, Process, Execve
<1>2. Confinement(def) \subseteq r.done /\ (r.code = 126 => faults > 0 \/ Unsatisfiable(def))
  BY <1>0, <1>1, RangeOfNone, Zenon DEF ProcInv, IsSound, OnCourse
<1>3. /\ UNCHANGED <<vars, def, nested, monitor, svmgr, pid_map, reported, refused>>
      /\ UNCHANGED kills /\ (UNCHANGED faults \/ Fails)
  BY Zenon DEF Execve
<1>4. proc \in [1..Procs -> Process] /\ faults \in Nat /\ faults' \in Nat /\ faults' >= faults
  BY <1>0, <1>3, FaultsGrow, Zenon DEF LifeTypeOK
<1>5. CASE proc' = [proc EXCEPT ![p].at = "running"] /\ UNCHANGED <<cgroup, faults>>
  <2> DEFINE new == [r EXCEPT !.at = "running"]
  <2>1. proc' = [proc EXCEPT ![p] = new]
    BY <1>4, <1>5
  <2>2. new \in Process /\ new.at = "running" /\ new.done = r.done /\ new.code = r.code
    BY <1>1, ZenonT(30) DEF Process
  <2> HIDE DEF new
  <2>3. /\ proc' \in [1..Procs -> Process] /\ proc'[p] = new
        /\ \A q \in 1..Procs : q # p => proc'[q] = proc[q]
    BY <1>0, <2>1, <2>2, ProcAssigned, Zenon
  <2>4. IsSound(def, new) /\ (new.code = 126 => faults' > 0 \/ Unsatisfiable(def))
    BY <1>2, <1>4, <2>2 DEF IsSound
  <2>5. /\ cgroup' \in Group /\ cgroup'.exists = cgroup.exists
        /\ cgroup'.procs \subseteq cgroup.procs /\ (p \in cgroup'.procs => Live(p)')
        /\ (Empty(cgroup) => Empty(cgroup')) /\ cgroup'.oom = cgroup.oom
    BY <1>5, <2>2, <2>3, StillMember, Zenon
  <2> HIDE DEF r
  <2> QED
    BY <1>3, <2>3, <2>4, <2>5, ProcessLife
<1>6. CASE /\ proc' = [proc EXCEPT ![p].at = "zombie", ![p].code = 127]
           /\ cgroup' = Leaves(p)
  <2> DEFINE new == [r EXCEPT !.at = "zombie", !.code = 127]
  <2>1. proc' = [proc EXCEPT ![p] = new]
    BY <1>4, <1>6, ZenonT(30)
  <2>2. new \in Process /\ new.at = "zombie" /\ new.code = 127
    BY <1>1, ZenonT(30) DEF Process
  <2> HIDE DEF new
  <2>3. /\ proc' \in [1..Procs -> Process] /\ proc'[p] = new
        /\ \A q \in 1..Procs : q # p => proc'[q] = proc[q]
    BY <1>0, <2>1, <2>2, ProcAssigned, Zenon
  <2>4. IsSound(def, new) /\ new.code # 126
    BY <2>2 DEF IsSound
  <2>5. /\ cgroup' \in Group /\ cgroup'.exists = cgroup.exists
        /\ cgroup'.procs \subseteq cgroup.procs /\ p \notin cgroup'.procs
        /\ (Empty(cgroup) => Empty(cgroup')) /\ cgroup'.oom = cgroup.oom
    BY <1>6, NoMember, Zenon
  <2> HIDE DEF r
  <2> QED
    BY <1>3, <2>3, <2>4, <2>5, ProcessLife, Zenon
<1> QED
  BY <1>5, <1>6, Zenon DEF Execve

LEMMA ExitsLife ==
  ASSUME LifeInv, NEW p \in 1..Procs, ServiceExits(p)
  PROVE  LifeInv'
<1> DEFINE r == proc[p]
           new == [r EXCEPT !.at = "zombie"]
<1>0. LifeTypeOK /\ ProcInv
  BY DEF LifeInv
<1>1. r \in Process /\ r.at = "running" /\ (r.code = 126 => faults > 0 \/ Unsatisfiable(def))
  BY <1>0 DEF LifeTypeOK, ProcInv, ServiceExits
<1>2. /\ UNCHANGED <<vars, def, nested, monitor, svmgr, pid_map, reported, refused>>
      /\ UNCHANGED <<faults, kills>>
  BY DEF ServiceExits
<1>3. proc' = [proc EXCEPT ![p] = new]
  BY <1>0 DEF ServiceExits, LifeTypeOK
<1>4. new \in Process /\ new.at = "zombie" /\ new.code = r.code
  BY <1>1, ZenonT(30) DEF Process
<1> HIDE DEF new
<1>5. /\ proc' \in [1..Procs -> Process] /\ proc'[p] = new
      /\ \A q \in 1..Procs : q # p => proc'[q] = proc[q]
  BY <1>0, <1>3, <1>4, ProcAssigned, Zenon
<1>6. IsSound(def, new) /\ (new.code = 126 => faults' > 0 \/ Unsatisfiable(def))
  BY <1>1, <1>2, <1>4, Zenon DEF IsSound
<1>7. /\ cgroup' \in Group /\ cgroup'.exists = cgroup.exists
      /\ cgroup'.procs \subseteq cgroup.procs /\ p \notin cgroup'.procs
      /\ (Empty(cgroup) => Empty(cgroup')) /\ cgroup'.oom = cgroup.oom
  BY NoMember, Zenon DEF ServiceExits
<1> HIDE DEF r
<1> QED
  BY <1>2, <1>5, <1>6, <1>7, ProcessLife, Zenon
(* A helper comes or goes, or is killed: no process of the service changes. *)
LEMMA HelperLife ==
  ASSUME LifeInv, NEW p \in 1..Procs,
         UNCHANGED <<vars, def, nested, monitor, proc, svmgr, pid_map, faults, reported, refused>>,
         cgroup' \in Group, cgroup'.exists = cgroup.exists, cgroup'.procs = cgroup.procs,
         Empty(cgroup) => Empty(cgroup'),
         \/ cgroup'.oom = cgroup.oom /\ kills' = kills
         \/ cgroup'.oom = cgroup.oom + 1 /\ kills' = kills + 1 /\ ~Empty(cgroup)
  PROVE  LifeInv'
<1>1. proc' \in [1..Procs -> Process] /\ IsSound(def, proc'[p])
  BY Zenon DEF LifeInv, LifeTypeOK, ProcInv
<1>2. proc'[p].code = 126 => faults' > 0 \/ Unsatisfiable(def)
  BY Zenon DEF LifeInv, ProcInv
<1>3. p \in cgroup'.procs => Live(p)'
  BY DEF LifeInv, SvmgrInv, Live
<1> QED
  BY <1>1, <1>2, <1>3, ProcessLife, Zenon

LEMMA ForkHelperLife ==
  ASSUME LifeInv, NEW p \in 1..Procs, ForkHelper(p)
  PROVE  LifeInv'
<1>1. cgroup \in Group /\ p \in cgroup.procs
  BY DEF LifeInv, LifeTypeOK, ForkHelper
<1>2. /\ cgroup' \in Group /\ cgroup'.exists = cgroup.exists /\ cgroup'.procs = cgroup.procs
      /\ cgroup'.oom = cgroup.oom /\ ~Empty(cgroup)
  BY <1>1 DEF ForkHelper, Group, Empty
<1> QED
  BY <1>2, HelperLife, Zenon DEF ForkHelper

LEMMA HelperExitsLife ==
  ASSUME LifeInv, NEW p \in 1..Procs, HelperExits(p)
  PROVE  LifeInv'
<1>1. cgroup \in Group /\ p \in cgroup.helpers
  BY DEF LifeInv, LifeTypeOK, HelperExits
<1>2. /\ cgroup' \in Group /\ cgroup'.exists = cgroup.exists /\ cgroup'.procs = cgroup.procs
      /\ cgroup'.oom = cgroup.oom /\ ~Empty(cgroup)
  BY <1>1 DEF HelperExits, Group, Empty
<1> QED
  BY <1>2, HelperLife DEF HelperExits

LEMMA OomKillLife == LifeInv /\ OomKill => LifeInv'
<1> SUFFICES ASSUME LifeInv, OomKill PROVE LifeInv'
  OBVIOUS
<1>0. LifeTypeOK /\ SvmgrInv /\ cgroup \in Group
  BY DEF LifeInv, LifeTypeOK
<1>1. /\ UNCHANGED <<vars, def, nested, monitor, svmgr, pid_map, faults, reported, refused>>
      /\ kills' = kills + 1
  BY Zenon DEF OomKill
<1>2. ASSUME NEW p \in cgroup.procs,
             proc' = [proc EXCEPT ![p].at = "zombie", ![p].code = 137],
             cgroup' = [Leaves(p) EXCEPT !.oom = @ + 1]
      PROVE  LifeInv'
  <2> DEFINE r == proc[p]
             new == [r EXCEPT !.at = "zombie", !.code = 137]
  <2>1. p \in 1..Procs /\ r \in Process /\ r.at # "none"
    BY <1>0, Zenon DEF LifeTypeOK, SvmgrInv, Live, Group
  <2>2. proc' = [proc EXCEPT ![p] = new]
    BY <1>0, <1>2, <2>1, ZenonT(30) DEF LifeTypeOK
  <2>3. new \in Process /\ new.at = "zombie" /\ new.code = 137
    BY <2>1, ZenonT(30) DEF Process
  <2> HIDE DEF new
  <2>4. /\ proc' \in [1..Procs -> Process] /\ proc'[p] = new
        /\ \A q \in 1..Procs : q # p => proc'[q] = proc[q]
    BY <1>0, <2>1, <2>2, <2>3, ProcAssigned, Zenon
  <2>5. IsSound(def, new) /\ new.code # 126
    BY <2>3 DEF IsSound
  <2>6. /\ Leaves(p) \in Group /\ Leaves(p).exists = cgroup.exists /\ Leaves(p).oom = cgroup.oom
        /\ Leaves(p).procs = cgroup.procs \ {p} /\ Leaves(p).helpers = cgroup.helpers
    BY <1>0, <2>1, Leaving, Zenon
  <2>7. /\ cgroup' \in Group /\ cgroup'.exists = cgroup.exists
        /\ cgroup'.procs = cgroup.procs \ {p} /\ cgroup'.oom = cgroup.oom + 1
    BY <1>2, <2>6 DEF Group
  <2>8. ~Empty(cgroup)
    BY <1>2 DEF Empty
  <2> HIDE DEF r
  <2> QED
    BY <1>1, <2>1, <2>4, <2>5, <2>7, <2>8, ProcessLife, Zenon
<1>3. ASSUME NEW p \in cgroup.helpers, UNCHANGED proc,
             cgroup' = [cgroup EXCEPT !.helpers = @ \ {p}, !.oom = @ + 1]
      PROVE  LifeInv'
  <2>1. p \in 1..Procs
    BY <1>0, Zenon DEF Group
  <2>2. /\ cgroup' \in Group /\ cgroup'.exists = cgroup.exists /\ cgroup'.procs = cgroup.procs
        /\ cgroup'.oom = cgroup.oom + 1
    <3> DEFINE h == cgroup.helpers \ {p}
               o == cgroup.oom + 1
    <3>1. h \in SUBSET (1..Procs) /\ o \in Nat /\ cgroup' = [cgroup EXCEPT !.helpers = h, !.oom = o]
      BY <1>0, <1>3 DEF Group
    <3> HIDE DEF h, o
    <3>2. /\ cgroup' \in Group /\ cgroup'.exists = cgroup.exists /\ cgroup'.procs = cgroup.procs
          /\ cgroup'.oom = o
      BY <1>0, <3>1, Zenon DEF Group
    <3> QED
      BY <3>2 DEF o
  <2>3. ~Empty(cgroup)
    BY <1>3, Zenon DEF Empty
  <2> QED
    BY <1>1, <1>3, <2>1, <2>2, <2>3, HelperLife, Zenon
<1> QED
  BY <1>2, <1>3, Zenon DEF OomKill

-----------------------------------------------------------------------------
(* The main loop of svmgr. *)
LEMMA ReapLife == LifeInv /\ handle_child_exit => LifeInv'
<1> SUFFICES ASSUME LifeInv, handle_child_exit PROVE LifeInv'
  OBVIOUS
<1>0. LifeTypeOK /\ ProcInv /\ SvmgrInv /\ OomInv /\ RemovedInv
  BY DEF LifeInv
<1> DEFINE new == [NoProc EXCEPT !.at = "reaped"]
<1>2. PICK p \in Zombies : proc' = [proc EXCEPT ![p] = new] /\ pid_map' = pid_map \ {p}
  BY Zenon DEF handle_child_exit
<1>3. new \in Process /\ new.at = "reaped" /\ new.code = 0
  BY RangeOfNone, Zenon DEF NoProc, Process
<1> HIDE DEF new
<1>4. p \in 1..Procs /\ proc[p].at = "zombie"
  BY DEF Zombies
<1>5. /\ proc' \in [1..Procs -> Process] /\ proc'[p] = new
      /\ \A q \in 1..Procs : q # p => proc'[q] = proc[q]
  BY <1>0, <1>2, <1>3, <1>4, ProcAssigned, Zenon
<1>6. IsSound(def, new) /\ new.code # 126
  BY <1>3 DEF IsSound
<1>7. UNCHANGED <<def, nested, faults, kills, reported>>
  BY Zenon DEF handle_child_exit
<1>8. ProcInv'
  BY <1>0, <1>4, <1>5, <1>6, <1>7, ProcChanged, Zenon
<1>9. /\ cgroup' \in Group /\ refused' \in BOOLEAN
      /\ ~cgroup'.exists \/ refused'
      /\ cgroup'.exists => cgroup' = cgroup
      /\ ~cgroup'.exists => cgroup'.oom = 0 /\ Empty(cgroup')
      /\ cgroup'.procs \subseteq cgroup.procs
  BY <1>0, RemoveGroup DEF handle_child_exit, SvmgrInv, LifeTypeOK
<1>10. /\ svmgr' \in [at : {"start", "spawn", "adopt", "reap", "control", "poll"},
                      back : {"reap", "poll"}, path : BOOLEAN]
       /\ svmgr'.at \in {"reap", "start"}
  BY <1>0, Zenon DEF handle_child_exit, LifeTypeOK
<1>11. monitor' \in [watched : BOOLEAN, last : Nat] /\ ~monitor'.watched
  BY DEF handle_child_exit, unwatch, Unwatched
<1>12. LifeTypeOK'
  BY <1>0, <1>2, <1>5, <1>7, <1>9, <1>10, <1>11, Zenon DEF LifeTypeOK
<1>13. SvmgrInv'
  <2>1. \A q \in cgroup'.procs : Live(q)'
    <3> TAKE q \in cgroup'.procs
    <3>1. q \in cgroup.procs /\ q \in 1..Procs
      BY <1>9 DEF Group
    <3>2. Live(q) /\ q # p
      BY <1>0, <1>4, <3>1, Zenon DEF SvmgrInv, Live
    <3> QED
      BY <1>5, <3>1, <3>2, Zenon DEF Live
  <2> QED
    BY <1>10, <2>1, Zenon DEF SvmgrInv
<1>14. OomInv'
  BY <1>0, <1>7, <1>9, <1>11, Zenon DEF OomInv
<1>15. RemovedInv'
  BY <1>9, <1>11, Zenon DEF RemovedInv
<1> QED
  BY <1>8, <1>12, <1>13, <1>14, <1>15, Zenon DEF LifeInv

(* Steps that move svmgr and nothing else. *)
LEMMA LoopLife ==
  ASSUME LifeInv,
         UNCHANGED <<vars, def, nested, cgroup, monitor, proc, pid_map, faults, kills, reported, refused>>,
         svmgr' \in [at : {"start", "spawn", "adopt", "reap", "control", "poll"},
                     back : {"reap", "poll"}, path : BOOLEAN],
         svmgr.at \in {"reap", "control"}, svmgr'.at \in {"start", "control", "poll"}
  PROVE  LifeInv'
<1>0. LifeTypeOK /\ ProcInv /\ SvmgrInv /\ OomInv /\ RemovedInv
  BY Zenon DEF LifeInv
<1>1. ProcInv'
  BY <1>0, ProcKept, Zenon
<1>2. LifeTypeOK'
  BY <1>0, Zenon DEF LifeTypeOK
<1>3. SvmgrInv'
  BY <1>0, Zenon DEF SvmgrInv, Live
<1>4. OomInv'
  BY <1>0, Zenon DEF OomInv, Accounted
<1>5. RemovedInv'
  BY <1>0 DEF RemovedInv
<1> QED
  BY <1>1, <1>2, <1>3, <1>4, <1>5, Zenon DEF LifeInv

LEMMA NothingLife == LifeInv /\ NothingToReap => LifeInv'
<1> SUFFICES ASSUME LifeInv, NothingToReap PROVE LifeInv'
  OBVIOUS
<1>1. /\ svmgr' \in [at : {"start", "spawn", "adopt", "reap", "control", "poll"},
                     back : {"reap", "poll"}, path : BOOLEAN]
      /\ svmgr.at = "reap" /\ svmgr'.at = "control"
  BY DEF LifeInv, LifeTypeOK, NothingToReap
<1> QED
  BY <1>1, LoopLife, Zenon DEF NothingToReap

LEMMA CommandLife == LifeInv /\ ServeCommand => LifeInv'
<1> SUFFICES ASSUME LifeInv, ServeCommand PROVE LifeInv'
  OBVIOUS
<1>1. /\ svmgr' \in [at : {"start", "spawn", "adopt", "reap", "control", "poll"},
                     back : {"reap", "poll"}, path : BOOLEAN]
      /\ svmgr.at = "control" /\ svmgr'.at \in {"start", "poll"}
  BY Zenon DEF LifeInv, LifeTypeOK, ServeCommand
<1> QED
  BY <1>1, LoopLife DEF ServeCommand

LEMMA PollLife == LifeInv /\ poll => LifeInv'
<1> SUFFICES ASSUME LifeInv, poll PROVE LifeInv'
  OBVIOUS
<1>0. LifeTypeOK /\ ProcInv /\ SvmgrInv /\ OomInv /\ RemovedInv
  BY DEF LifeInv
<1>1. UNCHANGED <<vars, def, nested, cgroup, proc, pid_map, faults, kills, refused>>
  BY Zenon DEF poll
<1>2. /\ cgroup.oom \in Nat /\ monitor.last \in Nat /\ monitor.watched \in BOOLEAN
      /\ reported \in Nat /\ kills \in Nat
  BY <1>0, Zenon DEF LifeTypeOK, Group
<1>3. /\ svmgr' \in [at : {"start", "spawn", "adopt", "reap", "control", "poll"},
                     back : {"reap", "poll"}, path : BOOLEAN]
      /\ svmgr.at = "poll" /\ svmgr'.at = "reap"
  BY <1>0, Zenon DEF poll, LifeTypeOK
<1>4. /\ monitor' \in [watched : BOOLEAN, last : Nat] /\ monitor'.watched = monitor.watched
      /\ monitor.watched => monitor'.last = cgroup.oom
  BY <1>0, <1>2, Zenon DEF poll, read_oom_kill_count, LifeTypeOK
<1>5. /\ reported' \in Nat
      /\ ~monitor.watched => reported' = reported
      /\ cgroup.oom <= monitor.last => reported' = reported
      /\ monitor.watched /\ cgroup.oom > monitor.last
           => reported' = reported + (cgroup.oom - monitor.last)
  BY <1>2 DEF poll, read_oom_kill_count
<1>6. ProcInv'
  BY <1>0, <1>1, ProcKept, Zenon
<1>7. LifeTypeOK'
  BY <1>0, <1>1, <1>3, <1>4, <1>5, Zenon DEF LifeTypeOK
<1>8. SvmgrInv'
  BY <1>0, <1>1, <1>3, Zenon DEF SvmgrInv, Live
<1>9. OomInv'
  <2>1. CASE monitor.watched /\ cgroup.oom > monitor.last
    <3>1. cgroup.exists
      BY <1>0, <1>2, <2>1 DEF OomInv
    <3>2. Accounted
      BY <1>0, <1>3, <2>1, <3>1, Zenon DEF OomInv
    <3>3. reported' <= kills /\ reported' + (cgroup.oom - monitor'.last) <= kills
      BY <1>2, <1>4, <1>5, <2>1, <3>2, SMTT(30) DEF Accounted
    <3>4. Accounted' /\ reported' <= kills'
      BY <1>1, <1>2, <1>4, <2>1, <3>3 DEF Accounted
    <3> QED
      BY <1>1, <3>1, <3>4, Zenon DEF OomInv
  <2>2. CASE ~(monitor.watched /\ cgroup.oom > monitor.last)
    <3>1. reported' = reported
      BY <1>2, <1>5, <2>2, SMTT(30)
    <3>2. monitor'.watched => Accounted'
      BY <1>0, <1>1, <1>2, <1>4, <3>1 DEF OomInv, Accounted
    <3> QED
      BY <1>0, <1>1, <3>1, <3>2, Zenon DEF OomInv
  <2> QED
    BY <2>1, <2>2, Zenon
<1>10. RemovedInv'
  BY <1>0, <1>1, <1>3, <1>4, Zenon DEF RemovedInv
<1> QED
  BY <1>6, <1>7, <1>8, <1>9, <1>10, Zenon DEF LifeInv

LEMMA ClockLife == LifeInv /\ (Clock \/ UNCHANGED <<vars, life>>) => LifeInv'
<1> SUFFICES ASSUME LifeInv, Clock \/ UNCHANGED <<vars, life>> PROVE LifeInv'
  OBVIOUS
<1>0. LifeTypeOK /\ ProcInv /\ SvmgrInv /\ OomInv /\ RemovedInv
  BY Zenon DEF LifeInv
<1>2. /\ UNCHANGED <<def, nested, cgroup, monitor, proc, svmgr, pid_map>>
      /\ UNCHANGED <<faults, kills, reported, refused>>
  BY Zenon DEF Clock, life
<1>3. ProcInv'
  BY <1>0, <1>2, ProcKept, Zenon
<1>4. LifeTypeOK'
  BY <1>0, <1>2, Zenon DEF LifeTypeOK
<1>5. SvmgrInv'
  BY <1>0, <1>2, Zenon DEF SvmgrInv, Live
<1>6. OomInv'
  BY <1>0, <1>2, Zenon DEF OomInv, Accounted
<1>7. RemovedInv'
  BY <1>0, <1>2, Zenon DEF RemovedInv
<1> QED
  BY <1>3, <1>4, <1>5, <1>6, <1>7, Zenon DEF LifeInv

LEMMA NextLife == LifeInv /\ [LifeNext]_<<vars, life>> => LifeInv'
BY CreateLife, SpawnLife, AdoptLife, ReapLife, NothingLife, CommandLife, PollLife, ClockLife,
   ChildStepLife, ExecveLife, ForkHelperLife, ExitsLife, HelperExitsLife, OomKillLife, SMTT(30)
   DEF LifeNext

LEMMA LifeInvariance == LifeSpec => []LifeInv
BY InitLife, NextLife, PTL DEF LifeSpec

-----------------------------------------------------------------------------
(***************************************************************************)
(* handle_child_exit is the only place that records a restart, and the     *)
(* service implements the restart window: what RestartIntensity promises   *)
(* holds for a service through its whole life.                             *)
(***************************************************************************)
THEOREM ImplementsWindow == LifeSpec => Spec
<1>1. LifeInit => Init
  BY DEF LifeInit
<1>2. [LifeNext]_<<vars, life>> => [Next]_vars
  <2> SUFFICES ASSUME LifeNext \/ UNCHANGED <<vars, life>> PROVE Next \/ UNCHANGED vars
    OBVIOUS
  <2>1. CASE handle_child_exit
    BY <2>1 DEF handle_child_exit, Next
  <2>2. CASE Clock
    BY <2>2, Zenon DEF Clock, Next
  <2>3. CASE create_service_cgroup
    BY <2>3, Zenon DEF create_service_cgroup
  <2>a. CASE spawn_service \/ Adopt
    BY <2>a, Zenon DEF spawn_service, Adopt
  <2>4. CASE NothingToReap \/ ServeCommand \/ poll \/ OomKill
    BY <2>4, ZenonT(30) DEF NothingToReap, ServeCommand, poll, OomKill
  <2>5. ASSUME NEW p \in 1..Procs,
               \/ ChildStep(p) \/ Execve(p)
               \/ ForkHelper(p) \/ ServiceExits(p) \/ HelperExits(p)
        PROVE  UNCHANGED vars
    BY <2>5 DEF ChildStep, Execve, ForkHelper, ServiceExits, HelperExits
  <2> QED
    BY <2>1, <2>2, <2>3, <2>4, <2>5, <2>a, Zenon DEF LifeNext
<1> QED
  BY <1>1, <1>2, PTL DEF LifeSpec, Spec

(***************************************************************************)
(* Whichever system calls fail in the child of spawn_service, and however  *)
(* often the service is started, what execs is confined as its definition  *)
(* says, for every definition.                                             *)
(***************************************************************************)
THEOREM StartsConfined == LifeSpec => []RunsAsConfigured
<1>1. LifeInv => RunsAsConfigured
  BY Zenon DEF LifeInv, ProcInv, IsSound, RunsAsConfigured
<1> QED
  BY <1>1, LifeInvariance, PTL

(***************************************************************************)
(* The order of apply_namespaces, setup_mount_namespace and                *)
(* drop_privileges never makes a child give up that a different order      *)
(* would have started: only a failing call or the definition itself does.  *)
(***************************************************************************)
THEOREM GivesUpForCause == LifeSpec => []AbortsHaveCause
<1>1. LifeInv => AbortsHaveCause
  BY DEF LifeInv, ProcInv, AbortsHaveCause
<1> QED
  BY <1>1, LifeInvariance, PTL

(***************************************************************************)
(* CgroupMonitor::poll reports an OOM kill at most once, and none that did *)
(* not happen, through any number of restarts, failed starts and removals  *)
(* of the group.                                                           *)
(***************************************************************************)
THEOREM ReportsRealKills == LifeSpec => []OomReportsAreReal
<1>1. LifeInv => OomReportsAreReal
  BY Zenon DEF LifeInv, OomInv, Accounted, OomReportsAreReal, AtRest
<1> QED
  BY <1>1, LifeInvariance, PTL

(***************************************************************************)
(* When the main loop is at rest, a service without processes has no watch *)
(* and no group, unless a helper held the group when remove_service_cgroup *)
(* was called.                                                             *)
(***************************************************************************)
THEOREM RemovesGroup == LifeSpec => []GroupIsRemoved
<1>1. LifeInv => GroupIsRemoved
  BY DEF LifeInv, RemovedInv, GroupIsRemoved, AtRest
<1> QED
  BY <1>1, LifeInvariance, PTL

-----------------------------------------------------------------------------
(***************************************************************************)
(* The inductive invariant of the window.  The clock does not run          *)
(* backwards, so the log is sorted, and the queue is the end of the log    *)
(* that begins with the first restart not older than the cutoff.           *)
(***************************************************************************)
Sorted(L, t) == \A i, j \in 1..Len(L) : i <= j => L[i] <= L[j] /\ L[j] <= t

EndOfLog(q, L, k) ==
  /\ q = SubSeq(L, k + 1, Len(L))
  /\ \A i \in 1..Len(L) : i <= k <=> L[i] < L[Len(L)] - window

WindowInv ==
  /\ TypeOK
  /\ Sorted(log, now)
  /\ \E k \in 0..Len(log) : EndOfLog(timestamps, log, k)
  /\ log # <<>> => (exceeded <=> Len(timestamps) > max_restarts)

-----------------------------------------------------------------------------
(* r is the d elements of s that follow the first k. *)
IsPart(r, s, k, d) ==
  r \in Seq(Nat) /\ Len(r) = d /\ \A i \in 1..d : r[i] = s[k + i]

(* The part of a sequence that follows the k-th element. *)
LEMMA EndOfSeq ==
  ASSUME NEW s \in Seq(Nat), NEW n \in Nat, Len(s) = n, NEW k \in Nat, NEW d \in Nat, k + d = n
  PROVE  IsPart(SubSeq(s, k + 1, n), s, k, d)
<1>1. \A i \in 1..n : s[i] \in Nat
  OBVIOUS
<1>2. SubSeq(s, k + 1, n) \in Seq(Nat)
  BY <1>1
<1>3. Len(SubSeq(s, k + 1, n)) = d
  OBVIOUS
<1>4. \A i \in 1..d : SubSeq(s, k + 1, n)[i] = s[k + i]
  BY SMTT(30)
<1> QED
  BY <1>2, <1>3, <1>4, Zenon DEF IsPart

LEMMA SameSeq ==
  ASSUME NEW S, NEW s \in Seq(S), NEW u \in Seq(S), Len(s) = Len(u),
         \A i \in 1..Len(s) : s[i] = u[i]
  PROVE  s = u
OBVIOUS

(* What is needed of the library's theorems on cardinality. *)
FST == INSTANCE FiniteSetTheorems

LEMMA SameCount ==
  ASSUME NEW S
  PROVE  /\ IsFiniteSet(S) <=> FST!IsFiniteSet(S)
         /\ Cardinality(S) = FST!Cardinality(S)
<1>1. IsFiniteSet(S) <=> FST!IsFiniteSet(S)
  BY Zenon DEF IsFiniteSet, FST!IsFiniteSet
<1>2. Cardinality(S) = FST!Cardinality(S)
  BY Zenon DEF Cardinality, FST!Cardinality
<1> QED
  BY <1>1, <1>2, Zenon

LEMMA CountInterval ==
  ASSUME NEW a \in Int, NEW b \in Int
  PROVE  /\ IsFiniteSet(a..b)
         /\ Cardinality(a..b) = IF a > b THEN 0 ELSE b - a + 1
<1>1. /\ FST!IsFiniteSet(a..b)
      /\ FST!Cardinality(a..b) = IF a > b THEN 0 ELSE b - a + 1
  BY FST!FS_Interval, Zenon
<1> QED
  BY <1>1, SameCount, Zenon

LEMMA CountSubset ==
  ASSUME NEW S, IsFiniteSet(S), NEW T \in SUBSET S
  PROVE  /\ IsFiniteSet(T) /\ Cardinality(T) \in Nat /\ Cardinality(S) \in Nat
         /\ Cardinality(T) <= Cardinality(S)
         /\ Cardinality(T) = Cardinality(S) => T = S
<1>1. FST!IsFiniteSet(S)
  BY SameCount, Zenon
<1>2. /\ FST!IsFiniteSet(T) /\ FST!Cardinality(T) <= FST!Cardinality(S)
      /\ FST!Cardinality(T) = FST!Cardinality(S) => T = S
  BY <1>1, FST!FS_Subset, Zenon
<1>3. FST!Cardinality(T) \in Nat /\ FST!Cardinality(S) \in Nat
  BY <1>1, <1>2, FST!FS_CardinalityType, Zenon
<1> QED
  BY <1>2, <1>3, SameCount, Zenon

LEMMA CountUpTo ==
  ASSUME NEW n \in Nat, NEW S \in SUBSET (1..n), \A i \in S : \A j \in 1..i : j \in S
  PROVE  Cardinality(S) \in 0..n /\ S = 1..Cardinality(S)
<1>1. IsFiniteSet(1..n) /\ Cardinality(1..n) = n
  BY CountInterval
<1>2. IsFiniteSet(S) /\ Cardinality(S) \in Nat /\ Cardinality(S) <= n
  <2>1. IsFiniteSet(S) /\ Cardinality(S) <= Cardinality(1..n)
    BY <1>1, CountSubset, ZenonT(30)
  <2> QED
    BY <1>1, <2>1, CountSubset, Zenon
<1>3. ASSUME NEW i \in S PROVE i <= Cardinality(S)
  <2>1. i \in Nat /\ i >= 1 /\ 1..i \in SUBSET S
    BY <1>3
  <2>2. Cardinality(1..i) = i
    BY <2>1, CountInterval, SMTT(30)
  <2>3. Cardinality(1..i) <= Cardinality(S)
    BY <1>2, <2>1, CountSubset, Zenon
  <2> QED
    BY <2>2, <2>3, ZenonT(30)
<1>4. S \in SUBSET (1..Cardinality(S))
  BY <1>2, <1>3, SMTT(30)
<1>5. IsFiniteSet(1..Cardinality(S)) /\ Cardinality(1..Cardinality(S)) = Cardinality(S)
  BY <1>2, CountInterval, SMTT(30)
<1>6. S = 1..Cardinality(S)
  BY <1>4, <1>5, CountSubset, Zenon
<1> QED
  BY <1>2, <1>6, SMTT(30)

(* Evict drops the entries before the first that is not too old. *)
LEMMA EvictFront ==
  ASSUME NEW q \in Seq(Nat), NEW n \in Nat, Len(q) = n, NEW c \in Int, n > 0, q[n] >= c
  PROVE  \E m \in 0..(n - 1) :
           /\ Evict(q, c) = SubSeq(q, m + 1, n)
           /\ \A i \in 1..m : q[i] < c
           /\ q[m + 1] >= c
<1> DEFINE old == {i \in 1..n : \A j \in 1..i : q[j] < c}
<1>1. \A i \in 1..n : q[i] \in Nat
  OBVIOUS
<1>2. \A i \in old : \A j \in 1..i : j \in old
  BY <1>1
<1>3. old \in SUBSET (1..n)
  BY Zenon
<1> HIDE DEF old
<1>4. PICK m \in 0..n : m = Cardinality(old)
  BY <1>2, <1>3, CountUpTo, Zenon
<1>a. old = 1..m
  BY <1>2, <1>3, <1>4, CountUpTo, Zenon
<1>5. \A i \in 1..n : i <= m <=> \A j \in 1..i : q[j] < c
  <2>1. \A i \in 1..n : i \in old <=> \A j \in 1..i : q[j] < c
    BY Zenon DEF old
  <2>2. \A i \in 1..n : i \in old <=> i <= m
    BY <1>a, SMTT(30)
  <2> QED
    BY <2>1, <2>2, ZenonT(30)
<1>6. \A i \in 1..m : q[i] < c
  BY <1>5
<1>7. m \in 0..(n - 1)
  <2>1. n \in 1..n /\ q[n] \in Nat
    BY <1>1, SMTT(30)
  <2>2. ~(n <= m)
    BY <1>5, <2>1, SMTT(30)
  <2> QED
    BY <2>2, SMTT(30)
<1>8. q[m + 1] >= c
  <2>1. m + 1 \in 1..n /\ ~(m + 1 <= m)
    BY <1>7
  <2>2. PICK j \in 1..(m + 1) : ~(q[j] < c)
    BY <1>5, <2>1, ZenonT(30)
  <2>3. j = m + 1
    BY <1>6, <2>2, SMTT(30)
  <2> QED
    BY <1>1, <2>1, <2>2, <2>3, SMTT(30)
<1>9. Evict(q, c) = SubSeq(q, m + 1, n)
  BY <1>4, Zenon DEF Evict, old
<1> QED
  BY <1>6, <1>7, <1>8, <1>9, ZenonT(30)

(***************************************************************************)
(* One more restart, at time t, on a sorted log: the queue is again the    *)
(* end of the log from the first entry in the window.                      *)
(***************************************************************************)
LEMMA RecordsOne ==
  ASSUME NEW L \in Seq(Nat), NEW n \in Nat, n = Len(L), NEW q, NEW t \in Nat, Sorted(L, t),
         NEW k \in 0..n, EndOfLog(q, L, k)
  PROVE  /\ Append(L, t) \in Seq(Nat) /\ Append(L, t) # <<>>
         /\ Sorted(Append(L, t), t)
         /\ \E j \in 0..Len(Append(L, t)) :
              EndOfLog(Evict(Append(q, t), t - window), Append(L, t), j)
<1> DEFINE c  == t - window
           M  == Append(L, t)
           ts == Append(q, t)
           e  == n - k + 1
<1>1. \A i \in 1..n : L[i] \in Nat
  OBVIOUS
<1>2. /\ M \in Seq(Nat) /\ Len(M) = n + 1 /\ M[n + 1] = t /\ M # <<>>
      /\ \A i \in 1..n : M[i] = L[i]
  OBVIOUS
<1>3. c \in Int /\ window \in Nat
  BY IntensityAssumption
<1>4. q \in Seq(Nat) /\ Len(q) = n - k /\ \A i \in 1..(n - k) : q[i] = L[k + i]
  <2>1. q = SubSeq(L, k + 1, n)
    BY DEF EndOfLog
  <2>2. PICK d \in Nat : d = n - k
    <3>1. n - k \in Nat
      OBVIOUS
    <3> QED
      BY <3>1, Zenon
  <2>3. L \in Seq(Nat) /\ Len(L) = n /\ k \in Nat /\ k + d = n
    BY <2>2, SMTT(30)
  <2>4. IsPart(SubSeq(L, k + 1, n), L, k, d)
    BY <2>3, EndOfSeq, ZenonT(30)
  <2> QED
    BY <2>1, <2>2, <2>4, ZenonT(30) DEF IsPart
<1>5. e \in Nat /\ e > 0
  OBVIOUS
<1>6. /\ ts \in Seq(Nat) /\ Len(ts) = e /\ ts[e] = t
      /\ \A i \in 1..(n - k) : ts[i] = q[i]
  BY <1>4
<1> HIDE DEF M, ts
<1>7. \A i \in 1..e : ts[i] = M[k + i]
  <2> TAKE i \in 1..e
  <2>1. CASE i = e
    BY <1>2, <1>6, <2>1, SMTT(30)
  <2>2. CASE i # e
    <3>1. i \in 1..(n - k) /\ k + i \in 1..n
      BY <2>2, SMTT(30)
    <3> QED
      BY <1>2, <1>4, <1>6, <3>1, Zenon
  <2> QED
    BY <2>1, <2>2, Zenon
<1>8. \A i \in 1..(n + 1) : M[i] \in Nat /\ M[i] <= t
  BY <1>1, <1>2, SMTT(20) DEF Sorted
<1>9. \A i, j \in 1..(n + 1) : i <= j => M[i] <= M[j]
  <2> TAKE i, j \in 1..(n + 1)
  <2>1. CASE j = n + 1
    BY <1>2, <1>8, <2>1, Zenon
  <2>2. CASE j # n + 1 /\ i <= j
    <3>1. i \in 1..n /\ j \in 1..n
      BY <2>2, SMTT(30)
    <3> QED
      BY <1>2, <2>2, <3>1, Zenon DEF Sorted
  <2> QED
    BY <2>1, <2>2
<1>10. t >= c
  BY <1>3
<1>11. e - 1 = n - k /\ k + e = n + 1
  OBVIOUS
<1> HIDE DEF c, e
<1>12. PICK m \in 0..(e - 1) :
         /\ Evict(ts, c) = SubSeq(ts, m + 1, e)
         /\ \A i \in 1..m : ts[i] < c
         /\ ts[m + 1] >= c
  BY <1>3, <1>5, <1>6, <1>10, EvictFront, Zenon
<1>13. m \in Nat /\ m < e /\ m + 1 \in 1..e /\ e - m \in Nat
  BY <1>5
<1>14. SubSeq(ts, m + 1, e) = SubSeq(M, k + m + 1, n + 1)
  <2>1. /\ SubSeq(ts, m + 1, e) \in Seq(Nat)
        /\ Len(SubSeq(ts, m + 1, e)) = e - m
        /\ \A i \in 1..(e - m) : SubSeq(ts, m + 1, e)[i] = ts[m + i]
    <3>1. m + (e - m) = e
      BY <1>5, <1>13, SMTT(30)
    <3>2. IsPart(SubSeq(ts, m + 1, e), ts, m, e - m)
      BY <1>5, <1>6, <1>13, <3>1, EndOfSeq, ZenonT(30)
    <3> QED
      BY <3>2, ZenonT(30) DEF IsPart
  <2>2. /\ SubSeq(M, k + m + 1, n + 1) \in Seq(Nat)
        /\ Len(SubSeq(M, k + m + 1, n + 1)) = e - m
        /\ \A i \in 1..(e - m) : SubSeq(M, k + m + 1, n + 1)[i] = M[k + m + i]
    <3>1. k + m \in Nat /\ n + 1 \in Nat /\ (k + m) + (e - m) = n + 1
      BY <1>5, <1>11, <1>13, SMTT(30)
    <3>2. PICK j \in Nat : j = k + m
      BY <3>1, Zenon
    <3>3. PICK u \in Nat : u = n + 1
      BY <3>1, Zenon
    <3>4. M \in Seq(Nat) /\ Len(M) = u /\ e - m \in Nat /\ j + (e - m) = u
      BY <1>2, <1>13, <3>1, <3>2, <3>3, Zenon
    <3>5. IsPart(SubSeq(M, j + 1, u), M, j, e - m)
      BY <3>4, EndOfSeq, ZenonT(30)
    <3> QED
      BY <3>2, <3>3, <3>5, ZenonT(30) DEF IsPart
  <2>3. \A i \in 1..(e - m) : ts[m + i] = M[k + m + i]
    <3> TAKE i \in 1..(e - m)
    <3>1. m + i \in 1..e /\ k + (m + i) = k + m + i
      BY <1>5, <1>13, SMTT(30)
    <3> QED
      BY <1>7, <3>1, Zenon
  <2>4. \A i \in 1..(e - m) : SubSeq(ts, m + 1, e)[i] = SubSeq(M, k + m + 1, n + 1)[i]
    BY <2>1, <2>2, <2>3, ZenonT(30)
  <2> QED
    BY <2>1, <2>2, <2>4, SameSeq, ZenonT(30)
<1>15. \A i \in 1..(n + 1) : i <= k + m <=> M[i] < c
  <2> TAKE i \in 1..(n + 1)
  <2>1. CASE i <= k
    <3>1. n \in 1..n /\ i \in 1..n /\ L[n] \in Nat /\ L[i] \in Nat
      BY <1>1, <2>1, SMTT(30)
    <3>2. L[i] < L[n] - window /\ L[n] <= t
      BY <2>1, <3>1, SMTT(30) DEF EndOfLog, Sorted
    <3>3. M[i] < c
      BY <1>2, <1>3, <3>1, <3>2, SMTT(30) DEF c
    <3> QED
      BY <1>13, <2>1, <3>3, SMTT(30)
  <2>2. CASE k < i /\ i <= k + m
    <3>1. i - k \in 1..m /\ i - k \in 1..e /\ k + (i - k) = i
      BY <1>5, <1>13, <2>2, SMTT(30)
    <3> QED
      BY <1>7, <1>12, <2>2, <3>1, Zenon
  <2>3. CASE k + m < i
    <3>1. k + (m + 1) \in 1..(n + 1) /\ k + (m + 1) <= i
      BY <1>11, <1>13, <2>3, SMTT(30)
    <3>2. M[k + (m + 1)] >= c
      BY <1>7, <1>12, <1>13, Zenon
    <3>3. M[k + (m + 1)] <= M[i] /\ M[i] \in Nat /\ M[k + (m + 1)] \in Nat
      BY <1>8, <1>9, <3>1, Zenon
    <3> QED
      BY <1>3, <1>13, <2>3, <3>2, <3>3, SMTT(30)
  <2> QED
    BY <1>13, <2>1, <2>2, <2>3, SMTT(30)
<1>16. k + m \in 0..Len(M) /\ EndOfLog(Evict(ts, c), M, k + m)
  <2>1. k + m \in 0..(n + 1)
    BY <1>11, <1>13, SMTT(30)
  <2>2. Evict(ts, c) = SubSeq(M, k + m + 1, n + 1)
    BY <1>12, <1>14, Zenon
  <2>3. M[n + 1] - window = c
    BY <1>2, Zenon DEF c
  <2> QED
    BY <1>2, <1>15, <2>1, <2>2, <2>3, Zenon DEF EndOfLog
<1>17. Sorted(M, t)
  BY <1>2, <1>8, <1>9, Zenon DEF Sorted
<1> QED
  BY <1>2, <1>16, <1>17, Zenon DEF M, ts, c

LEMMA EndIsSeq ==
  ASSUME NEW L \in Seq(Nat), NEW q, NEW k \in 0..Len(L), EndOfLog(q, L, k)
  PROVE  q \in Seq(Nat)
BY SMTT(30) DEF EndOfLog

LEMMA WindowStep == WindowInv /\ [Next]_vars => WindowInv'
<1> SUFFICES ASSUME WindowInv, [Next]_vars PROVE WindowInv'
  OBVIOUS
<1>0. log \in Seq(Nat) /\ now \in Nat
  BY DEF WindowInv, TypeOK
<1>1. CASE Tick
  <2>1. TypeOK'
    BY <1>1, SMTT(30) DEF Tick, WindowInv, TypeOK
  <2>2. Sorted(log, now)'
    <3>1. \A i \in 1..Len(log) : log[i] \in Nat
      BY <1>0
    <3> QED
      BY <1>0, <1>1, <3>1, SMTT(30) DEF Tick, WindowInv, Sorted
  <2> QED
    BY <1>1, <2>1, <2>2, Zenon DEF Tick, WindowInv
<1>2. CASE record_restart
  <2> PICK k \in 0..Len(log) : EndOfLog(timestamps, log, k)
    BY Zenon DEF WindowInv
  <2>1. /\ log' \in Seq(Nat) /\ log' # <<>> /\ Sorted(log', now')
        /\ \E j \in 0..Len(log') : EndOfLog(timestamps', log', j)
    <3>1. Sorted(log, now)
      BY DEF WindowInv
    <3> QED
      BY <1>0, <1>2, <3>1, RecordsOne, SMTT(30) DEF record_restart
  <2>2. timestamps' \in Seq(Nat)
    BY <2>1, EndIsSeq, Zenon
  <2>3. exceeded' = (Len(timestamps') > max_restarts) /\ now' = now
    BY <1>2, Zenon DEF record_restart
  <2>4. TypeOK'
    <3>1. Len(timestamps') \in Nat /\ max_restarts \in Nat
      BY <2>2, IntensityAssumption, SMTT(30)
    <3>2. exceeded' \in BOOLEAN
      BY <2>3, <3>1, SMTT(30)
    <3> QED
      BY <1>0, <2>1, <2>2, <2>3, <3>2, Zenon DEF TypeOK
  <2> QED
    BY <2>1, <2>3, <2>4, Zenon DEF WindowInv
<1>3. CASE UNCHANGED vars
  BY <1>3, Zenon DEF vars, WindowInv, TypeOK
<1> QED
  BY <1>1, <1>2, <1>3, Zenon DEF Next

LEMMA InitWindow == Init => WindowInv
<1> SUFFICES ASSUME Init PROVE WindowInv
  OBVIOUS
<1>1. Len(log) = 0 /\ log = <<>> /\ timestamps = <<>> /\ <<>> \in Seq(Nat)
  BY DEF Init
<1>2. TypeOK
  BY <1>1, Zenon DEF Init, TypeOK
<1>3. Sorted(log, now)
  BY <1>1 DEF Sorted
<1>4. EndOfLog(timestamps, log, 0)
  BY <1>1, SMTT(30) DEF EndOfLog
<1> QED
  BY <1>1, <1>2, <1>3, <1>4, SMTT(30) DEF WindowInv

LEMMA WindowIsExact == WindowInv => AnswerIsExact
<1> SUFFICES ASSUME WindowInv, log # <<>>
             PROVE  LET recent == InWindow(log[Len(log)])
                    IN  /\ exceeded <=> Cardinality(recent) > max_restarts
                        /\ timestamps = SubSeq(log, Len(log) - Cardinality(recent) + 1, Len(log))
  BY Zenon DEF AnswerIsExact, WindowInv
<1> DEFINE n == Len(log)
<1>1. n \in Nat /\ n > 0 /\ log \in Seq(Nat) /\ \A i \in 1..n : log[i] \in Nat
  BY SMTT(30) DEF WindowInv, TypeOK
<1>2. window \in Nat /\ max_restarts \in Nat
  BY IntensityAssumption, Zenon
<1>3. PICK k \in 0..n : EndOfLog(timestamps, log, k)
  BY DEF WindowInv
<1>4. timestamps = SubSeq(log, k + 1, n) /\ Len(timestamps) = n - k
  <2>1. timestamps = SubSeq(log, k + 1, n)
    BY <1>3, Zenon DEF EndOfLog
  <2>2. PICK d \in Nat : d = n - k
    <3>1. n - k \in Nat
      BY <1>1
    <3> QED
      BY <3>1, Zenon
  <2>3. log \in Seq(Nat) /\ n \in Nat /\ Len(log) = n /\ k \in Nat /\ k + d = n
    BY <1>1, <2>2, SMTT(30)
  <2>4. Len(SubSeq(log, k + 1, n)) = d
    <3>1. IsPart(SubSeq(log, k + 1, n), log, k, d)
      BY <2>3, EndOfSeq, ZenonT(30)
    <3> QED
      BY <3>1, ZenonT(30) DEF IsPart
  <2> QED
    BY <2>1, <2>2, <2>4, Zenon
<1>5. \A i \in 1..n : i <= k <=> log[i] < log[n] - window
  BY <1>3, Zenon DEF EndOfLog
<1>6. InWindow(log[n]) = {i \in 1..n : log[i] >= log[n] - window}
  BY Zenon DEF InWindow
<1> HIDE DEF n
<1>7. InWindow(log[n]) = (k + 1)..n
  <2>1. \A i \in 1..n : log[i] >= log[n] - window <=> k + 1 <= i
    BY <1>1, <1>2, <1>5, SMTT(30)
  <2> QED
    BY <1>1, <1>6, <2>1, SMTT(30)
<1>8. Cardinality((k + 1)..n) = n - k
  <2>1. k + 1 \in Int /\ n \in Int
    BY <1>1
  <2>2. Cardinality((k + 1)..n) = IF k + 1 > n THEN 0 ELSE n - (k + 1) + 1
    BY <2>1, CountInterval, Zenon
  <2> QED
    BY <1>1, <2>2, SMTT(30)
<1>9. n - (n - k) + 1 = k + 1
  BY <1>1
<1> QED
  BY <1>4, <1>7, <1>8, <1>9, Zenon DEF WindowInv, n

(***************************************************************************)
(* RestartIntensity::record_restart answers for the whole history: the     *)
(* supervisor gives up exactly when more than max_restarts restarts lie in *)
(* the window that ends with the last one, for every limit and window.     *)
(***************************************************************************)
THEOREM WindowAnswersExactly == Spec => []AnswerIsExact
BY InitWindow, WindowStep, WindowIsExact, PTL DEF Spec

(***************************************************************************)
(* The same of the window inside a service's life, where record_restart is *)
(* called by handle_child_exit.                                            *)
(***************************************************************************)
THEOREM ServiceAnswersExactly == LifeSpec => []AnswerIsExact
BY ImplementsWindow, WindowAnswersExactly, PTL

=============================================================================

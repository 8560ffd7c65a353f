---------------------------- MODULE LoginSessions ----------------------------
(***************************************************************************)
(* dynamod-logind: sessions, the seat, users, and what is kept in step     *)
(* with them outside the process: the owner of the seat's devices and      *)
(* /run/user/$UID (state.rs, manager.rs, session.rs, seat.rs, user.rs,     *)
(* device.rs, runtime_dir.rs).                                             *)
(*                                                                         *)
(* LoginState is behind one mutex.  A D-Bus method is a task of a          *)
(* multi-threaded runtime: it changes LoginState under the mutex, drops    *)
(* it, and then changes the outside world.  What a task still has to do is *)
(* a sequence of effects; other tasks run between any two of them.         *)
(*                                                                         *)
(* There is one seat (seat0), and every session is on it: CreateSession    *)
(* puts a session without a seat there and refuses any other.              *)
(***************************************************************************)
EXTENDS Naturals, Sequences, FiniteSets, Functions

CONSTANTS
  Uids, Pids, Root, None,
  Slots,        \* the tasks that can exist at one time
  MaxSessions,  \* bound: sessions ever created
  MaxMethods,   \* how many methods run at one time
  Methods       \* the methods clients call

Ids == 1..MaxSessions

ASSUME LoginAssumption ==
  /\ MaxSessions \in Nat
  /\ None \notin Ids \cup Uids \cup Pids \cup Slots

VARIABLES
  st,         \* LoginState
  next_id,    \* NEXT_SESSION_ID
  tasks,      \* of each slot, the effects still to do and whether it is aborted
  pending_user_cleanups,  \* the cleanup task of each user, or None
  rundir,     \* the users that have /run/user/$UID
  dev_owner,  \* the owner of the devices of the seat
  plain,      \* history: only methods of the Manager so far, one at a time
  reused,     \* history: the pids that led two sessions at one time
  late        \* history: users who came back to a cleanup that did not see them

history == <<plain, reused, late>>
vars == <<st, next_id, tasks, pending_user_cleanups, rundir, dev_owner, history>>

-----------------------------------------------------------------------------
(* state.rs.  A session's state is Active exactly when its active flag is   *)
(* set (they are assigned together), so the set of active sessions is both. *)
LoginState ==
  [sessions : SUBSET Ids, active : SUBSET Ids,
   uid : [Ids -> Uids \cup {None}], leader_pid : [Ids -> Pids \cup {None}],
   seat : Seq(Ids), active_session : Ids \cup {None},
   users : SUBSET Uids, user_sessions : [Uids -> Seq(Ids)],
   user_state : [Uids -> {"Online", "Active"}],
   display_session : [Uids -> Ids \cup {None}],
   pid_to_session : [Pids -> Ids \cup {None}]]

new ==
  [sessions |-> {}, active |-> {},
   uid |-> [s \in Ids |-> None], leader_pid |-> [s \in Ids |-> None],
   seat |-> <<>>, active_session |-> None,
   users |-> {}, user_sessions |-> [u \in Uids |-> <<>>],
   user_state |-> [u \in Uids |-> "Online"],
   display_session |-> [u \in Uids |-> None],
   pid_to_session |-> [p \in Pids |-> None]]

(* The fields of a session or a user that is not there are those of new. *)
create_session(id, u, p) ==
  LET is_first_on_seat == st.active_session = None
  IN [st EXCEPT
       !.sessions = @ \cup {id},
       !.active = IF is_first_on_seat THEN @ \cup {id} ELSE @,
       !.uid[id] = u, !.leader_pid[id] = p,
       !.pid_to_session[p] = id,
       !.seat = Append(@, id),
       !.active_session = IF is_first_on_seat THEN id ELSE @,
       !.users = @ \cup {u},
       !.user_sessions[u] = Append(@, id),
       !.user_state[u] = IF is_first_on_seat THEN "Active" ELSE @,
       !.display_session[u] = IF is_first_on_seat THEN id ELSE @]

(* Vec::retain: the entries that are not s, in their order. *)
Without(seq, s) ==
  LET kept == {i \in DOMAIN seq : seq[i] # s}
      at == CHOOSE f \in UNION {Bijection(1..n, kept) : n \in 0..Len(seq)} :
              \A i, j \in DOMAIN f : i < j => f[i] < f[j]
  IN [k \in DOMAIN at |-> seq[at[k]]]

FirstOf(seq) == IF seq = <<>> THEN None ELSE Head(seq)

RemoveWithoutSuccessor(state, s) ==    \* a mutant: nobody is promoted
  IF s \notin state.sessions THEN state ELSE
  LET u == state.uid[s]
      mine == Without(state.user_sessions[u], s)
  IN [state EXCEPT
       !.sessions = @ \ {s}, !.active = @ \ {s}, !.uid[s] = None, !.leader_pid[s] = None,
       !.pid_to_session[state.leader_pid[s]] = None,
       !.seat = Without(@, s),
       !.active_session = IF @ = s THEN None ELSE @,
       !.users = IF mine = <<>> THEN @ \ {u} ELSE @,
       !.user_sessions[u] = mine,
       !.display_session[u] = IF @ = s THEN FirstOf(mine) ELSE @]

(* A user whose last session is removed goes with it. *)
remove_session(state, s) ==
  IF s \notin state.sessions THEN state ELSE
  LET u == state.uid[s]
      mine == Without(state.user_sessions[u], s)
      others == Without(state.seat, s)
      promotes == state.active_session = s
      active == (state.active \ {s})
                  \cup (IF promotes THEN {FirstOf(others)} \ {None} ELSE {})
  IN [state EXCEPT
       !.sessions = @ \ {s}, !.active = active,
       !.uid[s] = None, !.leader_pid[s] = None,
       !.pid_to_session[state.leader_pid[s]] = None,
       !.seat = others,
       !.active_session = IF promotes THEN FirstOf(others) ELSE @,
       !.users = IF mine = <<>> THEN @ \ {u} ELSE @,
       !.user_sessions[u] = mine,
       !.user_state[u] = IF Range(mine) \cap active # {} THEN "Active" ELSE "Online",
       !.display_session[u] = IF @ = s THEN FirstOf(mine) ELSE @]

activate_session(s) ==
  IF s \notin st.sessions THEN st
  ELSE [st EXCEPT !.active = (@ \ {st.active_session}) \cup {s},
                  !.active_session = s]

-----------------------------------------------------------------------------
(* Tasks and their effects. *)
Ensure(u) == [op |-> "ensure", arg |-> u]
Chown(o) == [op |-> "chown", arg |-> o]
Finalize(s) == [op |-> "finalize_session_removal", arg |-> s]
Remove(s) == [op |-> "remove_session", arg |-> s]  \* with the mutex held
Wake(u) == [op |-> "wake", arg |-> u]        \* the cleanup task: its sleep ends,
Release(u) == [op |-> "release", arg |-> u]  \* it removes the directory,
Forget(u) == [op |-> "forget", arg |-> u]    \* and its own handle

Free == [todo |-> <<>>, aborted |-> FALSE]
Task(todo) == [todo |-> todo, aborted |-> FALSE]

Doing(t, op) == tasks[t].todo # <<>> /\ Head(tasks[t].todo).op = op
Arg(t) == Head(tasks[t].todo).arg

IsMethod(t) ==
  tasks[t].todo # <<>>
    /\ Head(tasks[t].todo).op \in {"ensure", "chown", "finalize_session_removal",
                                   "remove_session"}

NoMethodRuns == \A t \in Slots : ~IsMethod(t)

(* The loops in Terminate of the objects do not let the mutex go. *)
Locked == \E t \in Slots : Doing(t, "remove_session")

(* One more method may run, from a critical section on. *)
MayBegin == ~Locked /\ Cardinality({t \in Slots : IsMethod(t)}) < MaxMethods

(* A method is called: what it leaves to do after its first critical section. *)
Call(method, todo) ==
  /\ method \in Methods /\ MayBegin
  /\ \E t \in Slots : tasks[t] = Free /\ tasks' = [tasks EXCEPT ![t] = Task(todo)]
  /\ UNCHANGED <<reused, late>>

(* It may overlap with others. *)
Concurrently == plain' = (plain /\ NoMethodRuns)

uid_of_active(state) ==
  IF state.active_session = None THEN None ELSE state.uid[state.active_session]

(* The cleanup of the user has made sure that they are gone. *)
Decided(u) == \E t \in Slots : Doing(t, "release") /\ Arg(t) = u

(* A leader that dies without closing its session leaves its pid to others. *)
CreateSession ==
  /\ next_id <= MaxSessions /\ MayBegin /\ Concurrently
  /\ \E u \in Uids, p \in Pids, t \in Slots :
       /\ tasks[t] = Free
       /\ reused' = IF \E s \in st.sessions : st.leader_pid[s] = p THEN reused \cup {p} ELSE reused
       /\ late' = CASE u \in st.users -> late
                    [] u \notin st.users /\ Decided(u) -> late \cup {u}
                    [] u \notin st.users /\ ~Decided(u) -> late \ {u}
       /\ st' = create_session(next_id, u, p)
       /\ tasks' = [x \in Slots |->
            CASE x = t -> Task(<<Ensure(u)>> \o
                               (IF next_id \in st'.active THEN <<Chown(u)>> ELSE <<>>))
              [] x # t /\ x = pending_user_cleanups[u] ->
                   [tasks[x] EXCEPT !.aborted = TRUE]
              [] OTHER -> tasks[x]]
       /\ pending_user_cleanups' = [pending_user_cleanups EXCEPT ![u] = None]
  /\ next_id' = next_id + 1
  /\ UNCHANGED <<rundir, dev_owner>>

(* Manager.ReleaseSession, TerminateSession, TerminateUser, TerminateSeat:  *)
(* the sessions are looked up first and removed one by one afterwards.      *)
ReleaseSession ==
  /\ \/ \E s \in st.sessions : Call("ReleaseSession", <<Finalize(s)>>)
     \/ \E u \in st.users :
          Call("TerminateUser", [i \in DOMAIN st.user_sessions[u] |->
                                   Finalize(st.user_sessions[u][i])])
     \/ /\ st.seat # <<>>
        /\ Call("TerminateSeat", [i \in DOMAIN st.seat |-> Finalize(st.seat[i])])
  /\ Concurrently
  /\ UNCHANGED <<st, next_id, pending_user_cleanups, rundir, dev_owner>>

(* Manager.ActivateSession and ActivateSessionOnSeat, with the handover of  *)
(* the devices after the mutex is dropped.                                  *)
ActivateSession ==
  /\ \E s \in st.sessions :
       LET old_uid == IF st.active_session = s THEN None ELSE uid_of_active(st)
           new_uid == st.uid[s]
       IN /\ Call("ActivateSession",
                  (IF old_uid # None /\ old_uid # new_uid THEN <<Chown(Root)>> ELSE <<>>)
                    \o <<Chown(new_uid)>>)
          /\ st' = activate_session(s)
  /\ Concurrently
  /\ UNCHANGED <<next_id, pending_user_cleanups, rundir, dev_owner>>

(* The methods of the Session, Seat and User objects: one critical section, *)
(* in which those of Seat and User remove one session after the other.      *)
ObjectMethods ==
  /\ \/ /\ ~Locked
        /\ \E s \in st.sessions :
             \/ "Session.Activate" \in Methods /\ st' = activate_session(s)
             \/ "Session.Terminate" \in Methods /\ st' = remove_session(st, s)
        /\ UNCHANGED <<tasks, reused, late>>
     \/ /\ \/ /\ st.seat # <<>>
              /\ Call("Seat.Terminate", [i \in DOMAIN st.seat |-> Remove(st.seat[i])])
           \/ \E u \in st.users :
                Call("User.Terminate", [i \in DOMAIN st.user_sessions[u] |->
                                          Remove(st.user_sessions[u][i])])
        /\ UNCHANGED st
  /\ plain' = FALSE
  /\ UNCHANGED <<next_id, pending_user_cleanups, rundir, dev_owner>>

-----------------------------------------------------------------------------
Rest(t) == [tasks EXCEPT ![t] = IF Len(tasks[t].todo) = 1 THEN Free
                                ELSE [tasks[t] EXCEPT !.todo = Tail(tasks[t].todo)]]

terminate(t) ==
  /\ Doing(t, "remove_session")
  /\ st' = remove_session(st, Arg(t)) /\ tasks' = Rest(t)
  /\ UNCHANGED <<next_id, pending_user_cleanups, rundir, dev_owner, history>>

ensure(t) ==
  /\ Doing(t, "ensure")
  /\ rundir' = rundir \cup {Arg(t)} /\ tasks' = Rest(t)
  /\ UNCHANGED <<st, next_id, pending_user_cleanups, dev_owner, history>>

(* apply_session_acl and revert_session_acl *)
chown_session_devices(t) ==
  /\ Doing(t, "chown")
  /\ dev_owner' = Arg(t) /\ tasks' = Rest(t)
  /\ UNCHANGED <<st, next_id, pending_user_cleanups, rundir, history>>

HandoverReverts(new_uid) == <<Chown(Root)>>    \* a mutant: the successor gets nothing

(* What happens to the devices when the active session is removed. *)
Handover(new_uid) ==
  <<Chown(Root)>> \o (IF new_uid = None THEN <<>> ELSE <<Chown(new_uid)>>)

FinalizeForgetsCleanup(t) ==    \* a mutant: no cleanup is scheduled
  /\ Doing(t, "finalize_session_removal") /\ ~Locked
  /\ st' = remove_session(st, Arg(t))
  /\ LET new_active_uid == uid_of_active(st')
         chowns == IF Arg(t) \notin st.active \/ st.uid[Arg(t)] = new_active_uid
                   THEN <<>> ELSE Handover(new_active_uid)
     IN tasks' = [Rest(t) EXCEPT ![t].todo = chowns \o @]
  /\ UNCHANGED <<next_id, pending_user_cleanups, rundir, dev_owner, history>>

finalize_session_removal(t) ==
  /\ Doing(t, "finalize_session_removal") /\ ~Locked
  /\ LET s == Arg(t)
         u == st.uid[s]
         after == remove_session(st, s)
         new_active_uid == uid_of_active(after)
         chowns == IF s \notin st.active \/ u = new_active_uid THEN <<>>
                                                                ELSE Handover(new_active_uid)
         rest == [Rest(t) EXCEPT ![t].todo = chowns \o @]
     IN IF s \notin st.sessions
        THEN tasks' = Rest(t) /\ UNCHANGED <<st, pending_user_cleanups>>
        ELSE /\ st' = after
             /\ IF u \in after.users
                THEN tasks' = rest /\ UNCHANGED pending_user_cleanups
                ELSE \E c \in Slots :
                       /\ tasks[c] = Free
                       /\ tasks' = [rest EXCEPT ![c] = Task(<<Wake(u), Release(u), Forget(u)>>)]
                       /\ pending_user_cleanups' = [pending_user_cleanups EXCEPT ![u] = c]
  /\ UNCHANGED <<next_id, rundir, dev_owner, history>>

(* The cleanup task after its sleep: it goes on if the user is still gone.  *)
(* An aborted task ends where it waits, here and for the mutex in forget;   *)
(* there it may also find the mutex free and not wait at all.               *)
still_gone(t) ==
  /\ Doing(t, "wake") /\ (tasks[t].aborted \/ ~Locked)
  /\ tasks' = IF tasks[t].aborted \/ Arg(t) \in st.users
              THEN [tasks EXCEPT ![t] = Free] ELSE Rest(t)
  /\ UNCHANGED <<st, next_id, pending_user_cleanups, rundir, dev_owner, history>>

release(t) ==
  /\ Doing(t, "release")
  /\ rundir' = rundir \ {Arg(t)} /\ tasks' = Rest(t)
  /\ UNCHANGED <<st, next_id, pending_user_cleanups, dev_owner, history>>

forget(t) ==
  /\ Doing(t, "forget")
  /\ tasks' = Rest(t)
  /\ \/ ~Locked /\ pending_user_cleanups' = [pending_user_cleanups EXCEPT ![Arg(t)] = None]
     \/ tasks[t].aborted /\ UNCHANGED pending_user_cleanups
  /\ UNCHANGED <<st, next_id, rundir, dev_owner, history>>

-----------------------------------------------------------------------------
Init ==
  /\ st = new /\ next_id = 1
  /\ tasks = [t \in Slots |-> Free]
  /\ pending_user_cleanups = [u \in Uids |-> None]
  /\ rundir = {} /\ dev_owner = Root
  /\ plain = TRUE /\ reused = {} /\ late = {}

TaskStep(t) ==
  \/ terminate(t) \/ ensure(t) \/ chown_session_devices(t) \/ finalize_session_removal(t)
  \/ still_gone(t) \/ release(t) \/ forget(t)

Next ==
  \/ CreateSession \/ ReleaseSession \/ ActivateSession \/ ObjectMethods
  \/ \E t \in Slots : TaskStep(t)

(* The runtime polls every task that can run. *)
Spec == Init /\ [][Next]_vars /\ \A t \in Slots : WF_vars(TaskStep(t))

-----------------------------------------------------------------------------
TypeOK ==
  /\ st \in LoginState
  /\ next_id \in 1..(MaxSessions + 1)
  /\ pending_user_cleanups \in [Uids -> Slots \cup {None}]
  /\ rundir \subseteq Uids /\ dev_owner \in Uids \cup {Root}
  /\ plain \in BOOLEAN /\ reused \subseteq Pids /\ late \subseteq Uids

(***************************************************************************)
(* The tables of LoginState agree, whatever methods and loops of           *)
(* TerminateUser and others are interleaved.  The seat lists its sessions  *)
(* once each and, as long as it has any, exactly one is active, the one    *)
(* the seat names (the promotion in remove_session).  A user exists        *)
(* exactly while one of their sessions does, owns exactly their sessions,  *)
(* and shows one of them, if any, as display.  GetSessionByPID finds the   *)
(* newest session of a leader or none, and none only if the pid has led    *)
(* two sessions at one time: remove_session drops the entry of the pid     *)
(* even when it is that of the other one.                                  *)
(***************************************************************************)
SeatAgrees ==
  /\ Range(st.seat) = st.sessions /\ Len(st.seat) = Cardinality(st.sessions)
  /\ st.active = {st.active_session} \ {None}
  /\ st.active_session = None => st.sessions = {}
  /\ st.active \subseteq st.sessions

UsersAgree ==
  /\ st.users = {st.uid[s] : s \in st.sessions}
  /\ \A u \in Uids :
       /\ Range(st.user_sessions[u]) = {s \in st.sessions : st.uid[s] = u}
       /\ Len(st.user_sessions[u]) = Cardinality(Range(st.user_sessions[u]))
       /\ st.display_session[u] \in Range(st.user_sessions[u]) \cup {None}

LedBy(p) == {s \in st.sessions : st.leader_pid[s] = p}

PidsAgree ==
  \A p \in Pids :
    LET found == st.pid_to_session[p] IN
    /\ found # None => found \in LedBy(p) /\ \A s \in LedBy(p) : s <= found
    /\ found = None => LedBy(p) = {} \/ p \in reused

TablesAgree == TypeOK /\ SeatAgrees /\ UsersAgree /\ PidsAgree

(***************************************************************************)
(* "When a session becomes active on a seat, the DRM and input devices on  *)
(* that seat are chowned to the session user (and reverted on              *)
(* deactivation)" (device.rs).  It holds whenever no method is under way,  *)
(* as long as the Manager's methods have been called one after the other:  *)
(* the handover works after the mutex is dropped, and the methods of the   *)
(* Session, Seat and User objects have none.                               *)
(***************************************************************************)
DevicesFollowActive ==
  NoMethodRuns /\ plain
    => dev_owner = IF st.active_session = None THEN Root ELSE uid_of_active(st)

(***************************************************************************)
(* /run/user/$UID follows the user.  "Removed (with a grace period) when   *)
(* the user's last session closes" (runtime_dir.rs): as long as the        *)
(* Manager's methods have been called one after the other, a user who has  *)
(* gone and left the directory has a cleanup task that will still look at  *)
(* it and that no login has aborted, although an older, aborted task may   *)
(* clear the handle of the newer one.  And a user whose login is complete  *)
(* has the directory, whatever is called, unless they came back after the  *)
(* cleanup had made sure that they were gone and before it removed the     *)
(* directory: abort() does not stop a task between the two.                *)
(***************************************************************************)
WillRelease(t, u) ==
  /\ Release(u) \in Range(tasks[t].todo)
  /\ Doing(t, "wake") => ~tasks[t].aborted

LogsIn(u) == \E t \in Slots : Ensure(u) \in Range(tasks[t].todo)

RuntimeDirFollowsUser ==
  /\ plain => \A u \in rundir \ st.users : \E t \in Slots : WillRelease(t, u)
  /\ \A u \in st.users : LogsIn(u) \/ u \in rundir \cup late
=============================================================================

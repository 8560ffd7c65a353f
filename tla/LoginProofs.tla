---------------------------- MODULE LoginProofs ----------------------------
(***************************************************************************)
(* Proofs about LoginSessions for any number of sessions, users, pids and  *)
(* tasks: the tables of LoginState agree after every method, the devices   *)
(* end with the user of the active session, and /run/user/$UID follows its *)
(* user, for every interleaving of the methods, the objects' methods and   *)
(* the cleanup tasks.                                                      *)
(***************************************************************************)
EXTENDS LoginSessions, TLAPS

(* What a task may have to do outside LoginState. *)
Effect ==
  [op : {"ensure", "wake", "release", "forget"}, arg : Uids]
    \cup [op : {"chown"}, arg : Uids \cup {Root}]
    \cup [op : {"finalize_session_removal", "remove_session"}, arg : Ids]

Todo(t) == tasks[t].todo

(* The tables of a LoginState x; r are the pids that led two sessions. *)
SeatTable(x) ==
  /\ IsInjective(x.seat) /\ Range(x.seat) = x.sessions
  /\ x.active = {x.active_session} \ {None}
  /\ x.active \subseteq x.sessions
  /\ x.active_session = None => x.sessions = {}

UserTables(x) ==
  /\ \A s \in x.sessions : x.uid[s] \in Uids
  /\ x.users = {x.uid[s] : s \in x.sessions}
  /\ \A u \in Uids :
       /\ IsInjective(x.user_sessions[u])
       /\ Range(x.user_sessions[u]) = {s \in x.sessions : x.uid[s] = u}
  /\ \A u \in Uids : x.display_session[u] \in Range(x.user_sessions[u]) \cup {None}

PidTable(x, r) ==
  /\ \A s \in x.sessions : x.leader_pid[s] \in Pids
  /\ \A s, t \in x.sessions : x.leader_pid[s] = x.leader_pid[t] /\ s # t => x.leader_pid[s] \in r
  /\ \A p \in Pids : x.pid_to_session[p] # None =>
       /\ x.pid_to_session[p] \in x.sessions /\ x.leader_pid[x.pid_to_session[p]] = p
       /\ \A s \in x.sessions : x.leader_pid[s] = p => s <= x.pid_to_session[p]
  /\ \A s \in x.sessions : x.pid_to_session[x.leader_pid[s]] = None => x.leader_pid[s] \in r

Tables(x, r, n) ==
  /\ x \in LoginState
  /\ n \in 1..(MaxSessions + 1) /\ \A s \in x.sessions : s \in Ids /\ s < n
  /\ SeatTable(x) /\ UserTables(x) /\ PidTable(x, r)

(* What a method has to do: it ensures first, and finalizes last. *)
MethodTodo(todo) ==
  /\ todo \in Seq(Effect)
  /\ \A i \in DOMAIN todo :
       /\ todo[i].op \in {"ensure", "chown", "finalize_session_removal", "remove_session"}
       /\ todo[i].op = "ensure" => i = 1
       /\ todo[i].op = "finalize_session_removal" =>
            \A j \in DOMAIN todo : j > i => todo[j].op = "finalize_session_removal"

(* What the cleanup of a user has to do. *)
CleanupTodo(todo, u) ==
  todo \in {<<Wake(u), Release(u), Forget(u)>>, <<Release(u), Forget(u)>>, <<Forget(u)>>}

(* Every task is a method or the cleanup of one user. *)
TasksType ==
  /\ tasks \in [Slots -> [todo : Seq(Effect), aborted : BOOLEAN]]
  /\ \A t \in Slots : MethodTodo(Todo(t)) \/ \E u \in Uids : CleanupTodo(Todo(t), u)

WorldType ==
  /\ pending_user_cleanups \in [Uids -> Slots \cup {None}]
  /\ rundir \subseteq Uids /\ dev_owner \in Uids \cup {Root}
  /\ reused \subseteq Pids /\ late \subseteq Uids

(***************************************************************************)
(* A handle in pending_user_cleanups is of a task that still runs for that *)
(* user, that nobody aborted, and whose user has not come back.            *)
(***************************************************************************)
HandlesAreFresh ==
  \A u \in Uids : pending_user_cleanups[u] # None =>
    /\ u \notin st.users
    /\ CleanupTodo(Todo(pending_user_cleanups[u]), u)
    /\ ~tasks[pending_user_cleanups[u]].aborted

(* Who should own the devices of the seat. *)
Owner(x) == IF x.active_session = None THEN Root ELSE x.uid[x.active_session]

(* After todo, with the devices at now, they are at o. *)
EndsAt(todo, now, o) ==
  \/ now = o /\ \A i \in DOMAIN todo : todo[i].op # "chown"
  \/ \E i \in DOMAIN todo :
       /\ todo[i].op = "chown" /\ todo[i].arg = o
       /\ \A j \in DOMAIN todo : j > i => todo[j].op # "chown"

(***************************************************************************)
(* As long as the Manager's methods come one after the other: at most one  *)
(* is under way, and what it has left to do ends with the devices at their *)
(* owner.                                                                  *)
(***************************************************************************)
OneAfterTheOther ==
  plain =>
    /\ \A t, x \in Slots : IsMethod(t) /\ IsMethod(x) => t = x
    /\ \A t \in Slots : \A i \in DOMAIN Todo(t) : Todo(t)[i].op # "remove_session"
    /\ NoMethodRuns => dev_owner = Owner(st)
    /\ \A t \in Slots : IsMethod(t) => EndsAt(Todo(t), dev_owner, Owner(st))

Has(todo, e) == \E i \in DOMAIN todo : todo[i] = e

(***************************************************************************)
(* A directory that outlives its user has a task that will look at it; a   *)
(* user without the directory is logging in, or came back too late to stop *)
(* the cleanup. late holds those users.                                    *)
(***************************************************************************)
DirectoryIsKnown ==
  /\ plain => \A u \in rundir \ st.users : \E t \in Slots :
                Has(Todo(t), Release(u)) /\ (Has(Todo(t), Wake(u)) => ~tasks[t].aborted)
  /\ plain => \A u \in Uids, t \in Slots : Has(Todo(t), Ensure(u)) => u \in st.users
  /\ \A u \in st.users : u \in rundir \cup late \/ \E t \in Slots : Has(Todo(t), Ensure(u))
  /\ \A u \in st.users : Decided(u) => u \in late

(* The inductive invariant. *)
LoginInv ==
  /\ Tables(st, reused, next_id) /\ TasksType /\ WorldType /\ plain \in BOOLEAN
  /\ HandlesAreFresh /\ OneAfterTheOther /\ DirectoryIsKnown

-----------------------------------------------------------------------------
(* Lists of sessions. *)
LEMMA WithoutIs ==
  ASSUME NEW S, NEW q \in Seq(S), IsInjective(q), NEW s
  PROVE  /\ Without(q, s) \in Seq(S) /\ IsInjective(Without(q, s))
         /\ Range(Without(q, s)) = Range(q) \ {s}
<1> DEFINE kept == {i \in DOMAIN q : q[i] # s}
           C == UNION {Bijection(1..n, kept) : n \in 0..Len(q)}
           Ascends(f) == \A i, j \in DOMAIN f : i < j => f[i] < f[j]
           at == CHOOSE f \in C : Ascends(f)
<1>1. PICK n \in Nat : n = Len(q) /\ DOMAIN q = 1..n /\ q \in [1..n -> S]
  OBVIOUS
<1>2. \E f \in C : Ascends(f)
  <2>1. CASE s \notin Range(q)
    <3> DEFINE g == [i \in 1..n |-> i]
    <3>1. kept = 1..n
      BY <1>1, <2>1 DEF Range
    <3>2. g \in Bijection(1..n, kept)
      BY <3>1, Zenon DEF Bijection, Injection, Surjection, IsInjective
    <3>3. n \in 0..Len(q)
      BY <1>1
    <3>4. Ascends(g)
      OBVIOUS
    <3> QED
      BY <3>2, <3>3, <3>4, Zenon
  <2>2. CASE s \in Range(q)
    <3>1. PICK k \in 1..n : q[k] = s
      BY <1>1, <2>2 DEF Range
    <3>2. kept = (1..n) \ {k}
      BY <1>1, <3>1, Zenon DEF IsInjective
    <3> DEFINE g == [i \in 1..n-1 |-> IF i < k THEN i ELSE i + 1]
    <3> HIDE DEF kept
    <3>3. g \in [1..n-1 -> kept]
      BY <1>1, <3>1, <3>2
    <3>4. Ascends(g) /\ IsInjective(g)
      BY <1>1, <3>1 DEF IsInjective
    <3>5. \A i \in kept : \E j \in 1..n-1 : g[j] = i
      <4> SUFFICES ASSUME NEW i \in kept PROVE \E j \in 1..n-1 : g[j] = i
        OBVIOUS
      <4>1. i \in 1..n /\ i # k
        BY <3>2
      <4>2. CASE i < k
        <5>1. i \in 1..n-1 /\ g[i] = i
          BY <1>1, <3>1, <4>1, <4>2
        <5> QED
          BY <5>1, Zenon
      <4>3. CASE i > k
        <5>1. i - 1 \in 1..n-1 /\ g[i - 1] = i
          BY <1>1, <3>1, <4>1, <4>3
        <5> QED
          BY <5>1, Zenon
      <4> QED
        BY <4>1, <4>2, <4>3
    <3>6. g \in Bijection(1..n-1, kept)
      BY <3>3, <3>4, <3>5, Zenon DEF Bijection, Injection, Surjection
    <3>7. n - 1 \in 0..Len(q)
      BY <1>1, <3>1
    <3> QED
      BY <3>4, <3>6, <3>7, Zenon
  <2> QED
    BY <2>1, <2>2, Zenon
<1>3. at \in C
  BY <1>2, Zenon
<1>4. PICK m \in 0..Len(q) : at \in Bijection(1..m, kept)
  BY <1>3, Zenon
<1>5. /\ m \in Nat /\ at \in [1..m -> kept] /\ \A i, j \in 1..m : at[i] = at[j] => i = j
      /\ \A i \in kept : \E k \in 1..m : at[k] = i
  <2>1. m \in Nat
    BY <1>1
  <2> QED
    BY <1>4, <2>1, Zenon DEF Bijection, Injection, Surjection, IsInjective
<1> DEFINE w == [k \in 1..m |-> q[at[k]]]
<1>6. Without(q, s) = w
  <2>1. DOMAIN at = 1..m
    BY <1>5, Zenon
  <2> QED
    BY <2>1, Zenon DEF Without
<1> HIDE DEF at
<1>7. \A k \in 1..m : at[k] \in 1..n /\ q[at[k]] # s /\ q[at[k]] \in S
  BY <1>1, <1>5
<1>8. w \in [1..m -> S]
  BY <1>7, Zenon
<1>9. w \in Seq(S) /\ DOMAIN w = 1..m
  BY <1>5, <1>8
<1>10. IsInjective(w)
  BY <1>1, <1>5, <1>7 DEF IsInjective
<1>11. \A k \in 1..m : w[k] \in Range(q) \ {s}
  BY <1>1, <1>7, Zenon DEF Range
<1>12. ASSUME NEW x \in Range(q) \ {s} PROVE \E k \in 1..m : w[k] = x
  <2>1. PICK i \in DOMAIN q : q[i] = x
    BY DEF Range
  <2>2. i \in kept
    BY <2>1, Zenon
  <2>3. PICK k \in 1..m : at[k] = i
    BY <1>5, <2>2, Zenon
  <2> QED
    BY <2>1, <2>3, Zenon
<1>13. Range(w) = Range(q) \ {s}
  <2>1. Range(w) = {w[k] : k \in 1..m}
    BY <1>9 DEF Range
  <2> HIDE DEF w
  <2> QED
    BY <2>1, <1>11, <1>12, Zenon
<1> QED
  BY <1>6, <1>9, <1>10, <1>13, Zenon

LEMMA AppendIs ==
  ASSUME NEW S, NEW q \in Seq(S), IsInjective(q), NEW s \in S, s \notin Range(q)
  PROVE  /\ Append(q, s) \in Seq(S) /\ IsInjective(Append(q, s))
         /\ Range(Append(q, s)) = Range(q) \cup {s}
<1> DEFINE a == Append(q, s)
<1>1. PICK n \in Nat : n = Len(q) /\ DOMAIN q = 1..n
  OBVIOUS
<1>2. /\ a \in Seq(S) /\ DOMAIN a = 1..n+1 /\ a[n+1] = s
      /\ \A i \in 1..n : a[i] = q[i]
  BY <1>1
<1> HIDE DEF a
<1>3. \A i \in 1..n : a[i] # s
  BY <1>1, <1>2, Zenon DEF Range
<1>4. \A i \in 1..n+1 : i \in 1..n \/ i = n + 1
  OBVIOUS
<1>5. IsInjective(a)
  BY <1>1, <1>2, <1>3, <1>4, Zenon DEF IsInjective
<1>6. Range(a) = Range(q) \cup {s}
  BY <1>1, <1>2, <1>4 DEF Range
<1> QED
  BY <1>2, <1>5, <1>6, Zenon DEF a

LEMMA FirstIs ==
  ASSUME NEW S, NEW q \in Seq(S)
  PROVE  /\ FirstOf(q) \in Range(q) \cup {None}
         /\ q # <<>> => FirstOf(q) \in Range(q)
         /\ q = <<>> => FirstOf(q) = None /\ Range(q) = {}
         /\ Range(q) = {} => q = <<>>
<1>1. q = <<>> => DOMAIN q = {}
  OBVIOUS
<1>2. q # <<>> => 1 \in DOMAIN q /\ Head(q) = q[1]
  OBVIOUS
<1> QED
  BY <1>1, <1>2 DEF FirstOf, Range

-----------------------------------------------------------------------------
(* The fields of LoginState after each of its methods. *)
LEMMA FieldTypes ==
  ASSUME NEW x \in LoginState
  PROVE  /\ x.sessions \in SUBSET Ids /\ x.active \in SUBSET Ids
         /\ x.uid \in [Ids -> Uids \cup {None}]
         /\ x.leader_pid \in [Ids -> Pids \cup {None}]
         /\ x.seat \in Seq(Ids) /\ x.active_session \in Ids \cup {None}
         /\ x.users \in SUBSET Uids /\ x.user_sessions \in [Uids -> Seq(Ids)]
         /\ x.user_state \in [Uids -> {"Online", "Active"}]
         /\ x.display_session \in [Uids -> Ids \cup {None}]
         /\ x.pid_to_session \in [Pids -> Ids \cup {None}]
BY Zenon DEF LoginState

Created(x, id, u, p) ==
  LET first == st.active_session = None IN
  /\ x.sessions = st.sessions \cup {id}
  /\ x.active = (IF first THEN st.active \cup {id} ELSE st.active)
  /\ x.uid = [st.uid EXCEPT ![id] = u]
  /\ x.leader_pid = [st.leader_pid EXCEPT ![id] = p]
  /\ x.pid_to_session = [st.pid_to_session EXCEPT ![p] = id]
  /\ x.seat = Append(st.seat, id)
  /\ x.active_session = (IF first THEN id ELSE st.active_session)
  /\ x.users = st.users \cup {u}
  /\ x.user_sessions = [st.user_sessions EXCEPT ![u] = Append(@, id)]
  /\ x.user_state = [st.user_state EXCEPT ![u] = IF first THEN "Active" ELSE @]
  /\ x.display_session = [st.display_session EXCEPT ![u] = IF first THEN id ELSE @]
  /\ x \in LoginState

LEMMA CreateFields ==
  ASSUME st \in LoginState, NEW id \in Ids, NEW u \in Uids, NEW p \in Pids,
         NEW x, x = create_session(id, u, p)
  PROVE  Created(x, id, u, p)
<1> DEFINE first == st.active_session = None
<1>1. x.sessions = st.sessions \cup {id}
  BY Zenon DEF LoginState, create_session
<1>2. x.active = (IF first THEN st.active \cup {id} ELSE st.active)
  BY Zenon DEF LoginState, create_session
<1>3. x.uid = [st.uid EXCEPT ![id] = u]
  BY Zenon DEF LoginState, create_session
<1>4. x.leader_pid = [st.leader_pid EXCEPT ![id] = p]
  BY Zenon DEF LoginState, create_session
<1>5. x.pid_to_session = [st.pid_to_session EXCEPT ![p] = id]
  BY Zenon DEF LoginState, create_session
<1>6. x.seat = Append(st.seat, id)
  BY Zenon DEF LoginState, create_session
<1>7. x.active_session = (IF first THEN id ELSE st.active_session)
  BY Zenon DEF LoginState, create_session
<1>8. x.users = st.users \cup {u}
  BY Zenon DEF LoginState, create_session
<1>9. x.user_sessions = [st.user_sessions EXCEPT ![u] = Append(@, id)]
  BY Zenon DEF LoginState, create_session
<1>10. x.user_state = [st.user_state EXCEPT ![u] = IF first THEN "Active" ELSE @]
  BY Zenon DEF LoginState, create_session
<1>11. x.display_session = [st.display_session EXCEPT ![u] = IF first THEN id ELSE @]
  BY Zenon DEF LoginState, create_session
<1>12. /\ x.sessions \in SUBSET Ids /\ x.active \in SUBSET Ids
       /\ x.uid \in [Ids -> Uids \cup {None}] /\ x.leader_pid \in [Ids -> Pids \cup {None}]
       /\ x.active_session \in Ids \cup {None}
       /\ x.pid_to_session \in [Pids -> Ids \cup {None}]
  BY <1>1, <1>2, <1>3, <1>4, <1>5, <1>7, FieldTypes
<1>13. /\ x.seat \in Seq(Ids)
       /\ x.users \in SUBSET Uids /\ x.user_sessions \in [Uids -> Seq(Ids)]
       /\ x.user_state \in [Uids -> {"Online", "Active"}]
       /\ x.display_session \in [Uids -> Ids \cup {None}]
  <2>1. Append(st.seat, id) \in Seq(Ids) /\ Append(st.user_sessions[u], id) \in Seq(Ids)
    BY FieldTypes
  <2> QED
    BY <2>1, <1>6, <1>8, <1>9, <1>10, <1>11, FieldTypes
<1>14. x = [sessions |-> x.sessions, active |-> x.active, uid |-> x.uid,
            leader_pid |-> x.leader_pid, seat |-> x.seat, active_session |-> x.active_session,
            users |-> x.users, user_sessions |-> x.user_sessions, user_state |-> x.user_state,
            display_session |-> x.display_session, pid_to_session |-> x.pid_to_session]
  BY Zenon DEF LoginState, create_session
<1>15. x \in LoginState
  BY <1>12, <1>13, <1>14, Zenon DEF LoginState
<1> QED
  BY <1>1, <1>2, <1>3, <1>4, <1>5, <1>6, <1>7, <1>8, <1>9, <1>10, <1>11, <1>15, Zenon DEF Created

Removed(x, y, s) ==
  LET u == y.uid[s]
      mine == Without(y.user_sessions[u], s)
      others == Without(y.seat, s)
  IN
  /\ x.sessions = y.sessions \ {s}
  /\ x.active = (y.active \ {s})
           \cup (IF y.active_session = s THEN {FirstOf(others)} \ {None} ELSE {})
  /\ x.uid = [y.uid EXCEPT ![s] = None]
  /\ x.leader_pid = [y.leader_pid EXCEPT ![s] = None]
  /\ x.pid_to_session = [y.pid_to_session EXCEPT ![y.leader_pid[s]] = None]
  /\ x.seat = others
  /\ x.active_session = (IF y.active_session = s THEN FirstOf(others)
                                                ELSE y.active_session)
  /\ x.users = (IF mine = <<>> THEN y.users \ {u} ELSE y.users)
  /\ x.user_sessions = [y.user_sessions EXCEPT ![u] = mine]
  /\ x.display_session = [y.display_session EXCEPT ![u] = IF @ = s THEN FirstOf(mine) ELSE @]
  /\ x \in LoginState

LEMMA RemoveFields ==
  ASSUME NEW y \in LoginState, NEW s \in y.sessions, y.uid[s] \in Uids, y.leader_pid[s] \in Pids,
         IsInjective(y.seat), IsInjective(y.user_sessions[y.uid[s]]),
         NEW x, x = remove_session(y, s)
  PROVE  Removed(x, y, s)
<1> DEFINE u == y.uid[s]
           mine == Without(y.user_sessions[u], s)
           others == Without(y.seat, s)
<1>a. /\ y.seat \in Seq(Ids) /\ y.user_sessions[u] \in Seq(Ids)
      /\ s \in Ids
  BY FieldTypes, Zenon
<1>b. mine \in Seq(Ids) /\ others \in Seq(Ids)
  BY <1>a, WithoutIs, Zenon
<1>c. FirstOf(mine) \in Ids \cup {None} /\ FirstOf(others) \in Ids \cup {None}
  BY <1>b DEF FirstOf
<1> HIDE DEF mine, others
<1> DEFINE first == FirstOf(others)
           A == y.sessions \ {s}
           B == (y.active \ {s}) \cup (IF y.active_session = s THEN {first} \ {None} ELSE {})
           J == IF Range(mine) \cap B # {} THEN "Active" ELSE "Online"
<1>0. x = [y EXCEPT !.sessions = A, !.active = B,
                    !.uid[s] = None, !.leader_pid[s] = None,
                    !.pid_to_session[y.leader_pid[s]] = None,
                    !.seat = others,
                    !.active_session = IF y.active_session = s THEN first ELSE @,
                    !.users = IF mine = <<>> THEN @ \ {u} ELSE @,
                    !.user_sessions[u] = mine, !.user_state[u] = J,
                    !.display_session[u] = IF @ = s THEN FirstOf(mine) ELSE @]
  BY Zenon DEF remove_session, mine, others
<1>1. /\ x.sessions = A /\ x.active = B
      /\ x.uid = [y.uid EXCEPT ![s] = None]
      /\ x.leader_pid = [y.leader_pid EXCEPT ![s] = None]
      /\ x.pid_to_session = [y.pid_to_session EXCEPT ![y.leader_pid[s]] = None]
      /\ x.seat = others
      /\ x.active_session = (IF y.active_session = s THEN first ELSE y.active_session)
      /\ x.users = (IF mine = <<>> THEN y.users \ {u} ELSE y.users)
      /\ x.user_sessions = [y.user_sessions EXCEPT ![u] = mine]
      /\ x.user_state = [y.user_state EXCEPT ![u] = J]
      /\ x.display_session = [y.display_session EXCEPT ![u] = IF @ = s THEN FirstOf(mine) ELSE @]
  <2> HIDE DEF A, B, J, first, u
  <2> QED
    BY <1>0 DEF LoginState
<1>10. x.user_state \in [Uids -> {"Online", "Active"}]
  <2>1. J \in {"Online", "Active"} /\ y.user_state \in [Uids -> {"Online", "Active"}]
    BY FieldTypes, Zenon
  <2> HIDE DEF J
  <2> QED
    BY <1>1, <2>1
<1>12. /\ x.sessions \in SUBSET Ids /\ x.active \in SUBSET Ids
       /\ x.uid \in [Ids -> Uids \cup {None}] /\ x.leader_pid \in [Ids -> Pids \cup {None}]
       /\ x.active_session \in Ids \cup {None}
       /\ x.pid_to_session \in [Pids -> Ids \cup {None}]
  <2>1. /\ y.sessions \in SUBSET Ids /\ y.active \in SUBSET Ids
        /\ y.uid \in [Ids -> Uids \cup {None}] /\ y.leader_pid \in [Ids -> Pids \cup {None}]
        /\ y.active_session \in Ids \cup {None}
        /\ y.pid_to_session \in [Pids -> Ids \cup {None}]
    BY FieldTypes, Zenon
  <2>2. x.sessions \in SUBSET Ids /\ x.active \in SUBSET Ids
    <3>1. {first} \ {None} \subseteq Ids
      BY <1>c, Zenon
    <3> QED
      BY ONLY <2>1, <3>1, <1>1, Zenon
  <2>3. x.uid \in [Ids -> Uids \cup {None}] /\ x.leader_pid \in [Ids -> Pids \cup {None}]
    <3>1. /\ x.uid = [y.uid EXCEPT ![s] = None]
          /\ x.leader_pid = [y.leader_pid EXCEPT ![s] = None]
      BY <1>1, Zenon
    <3> QED
      BY ONLY <2>1, <3>1
  <2>4. x.active_session \in Ids \cup {None}
    BY <2>1, <1>1, <1>c, ZenonT(30)
  <2>5. x.pid_to_session \in [Pids -> Ids \cup {None}]
    <3>1. x.pid_to_session = [y.pid_to_session EXCEPT ![y.leader_pid[s]] = None]
      BY <1>1, Zenon
    <3> QED
      BY ONLY <2>1, <3>1, Zenon
  <2> QED
    BY <2>2, <2>3, <2>4, <2>5, Zenon
<1>13. /\ x.seat \in Seq(Ids)
       /\ x.users \in SUBSET Uids /\ x.user_sessions \in [Uids -> Seq(Ids)]
       /\ x.display_session \in [Uids -> Ids \cup {None}]
  <2>1. /\ y.users \in SUBSET Uids /\ y.user_sessions \in [Uids -> Seq(Ids)]
        /\ y.display_session \in [Uids -> Ids \cup {None}]
    BY FieldTypes, Zenon
  <2>2. x.seat \in Seq(Ids) /\ x.users \in SUBSET Uids
    BY <2>1, <1>b, <1>1, Zenon
  <2>3. x.user_sessions \in [Uids -> Seq(Ids)]
    <3>1. x.user_sessions = [y.user_sessions EXCEPT ![u] = mine]
      BY <1>1, Zenon
    <3> QED
      BY ONLY <2>1, <1>b, <3>1, Zenon
  <2>4. x.display_session \in [Uids -> Ids \cup {None}]
    <3>1. x.display_session = [y.display_session EXCEPT ![u] = IF @ = s THEN FirstOf(mine) ELSE @]
      BY <1>1, Zenon
    <3> QED
      BY ONLY <2>1, <1>c, <3>1, Zenon
  <2> QED
    BY <2>2, <2>3, <2>4, Zenon
<1>14. x = [sessions |-> x.sessions, active |-> x.active, uid |-> x.uid,
            leader_pid |-> x.leader_pid, seat |-> x.seat, active_session |-> x.active_session,
            users |-> x.users, user_sessions |-> x.user_sessions, user_state |-> x.user_state,
            display_session |-> x.display_session, pid_to_session |-> x.pid_to_session]
  BY <1>0, Zenon DEF LoginState
<1>15. x \in LoginState
  BY <1>10, <1>12, <1>13, <1>14, Zenon DEF LoginState
<1> QED
  BY <1>1, <1>15, Zenon DEF Removed, mine, others

LEMMA ActivateFields ==
  ASSUME st \in LoginState, NEW s \in st.sessions, NEW x, x = activate_session(s)
  PROVE  /\ x \in LoginState
         /\ x.active = (st.active \ {st.active_session}) \cup {s}
         /\ x.active_session = s
         /\ x.sessions = st.sessions /\ x.uid = st.uid /\ x.leader_pid = st.leader_pid
         /\ x.pid_to_session = st.pid_to_session /\ x.seat = st.seat /\ x.users = st.users
         /\ x.user_sessions = st.user_sessions /\ x.user_state = st.user_state
         /\ x.display_session = st.display_session
BY ZenonT(30) DEF LoginState, activate_session

-----------------------------------------------------------------------------
(* The tables agree after each method. *)
PidsReused(r, p) ==
  IF \E s \in st.sessions : st.leader_pid[s] = p THEN r \cup {p} ELSE r

LEMMA CreateTables ==
  ASSUME NEW n, NEW r, NEW r1, Tables(st, r, n), n <= MaxSessions,
         NEW u \in Uids, NEW p \in Pids,
         r1 = PidsReused(r, p),
         NEW x, x = create_session(n, u, p)
  PROVE  /\ Tables(x, r1, n + 1) /\ n \in Ids
         /\ x.users = st.users \cup {u}
         /\ n \in x.active => Owner(x) = u
         /\ n \notin x.active => Owner(x) = Owner(st)
<1>1. n \in Nat /\ n \in Ids /\ n + 1 \in 1..(MaxSessions + 1) /\ None \notin Ids \cup Uids
  BY LoginAssumption DEF Tables, Ids
<1>2. /\ st \in LoginState /\ \A s \in st.sessions : s \in Ids /\ s < n
      /\ SeatTable(st) /\ UserTables(st) /\ PidTable(st, r)
  BY DEF Tables
<1>0. r1 = IF \E s \in st.sessions : st.leader_pid[s] = p THEN r \cup {p} ELSE r
  BY DEF PidsReused
<1> USE <1>0, <1>1, <1>2
<1>3. n \notin st.sessions
  OBVIOUS
<1> DEFINE first == st.active_session = None
<1>4. /\ x.sessions = st.sessions \cup {n}
      /\ x.active = (IF first THEN st.active \cup {n} ELSE st.active)
      /\ x.uid = [st.uid EXCEPT ![n] = u]
      /\ x.leader_pid = [st.leader_pid EXCEPT ![n] = p]
      /\ x.pid_to_session = [st.pid_to_session EXCEPT ![p] = n]
      /\ x.seat = Append(st.seat, n)
      /\ x.active_session = (IF first THEN n ELSE st.active_session)
      /\ x.users = st.users \cup {u}
      /\ x.user_sessions = [st.user_sessions EXCEPT ![u] = Append(@, n)]
      /\ x.display_session = [st.display_session EXCEPT ![u] = IF first THEN n ELSE @]
      /\ x \in LoginState
  <2>1. Created(x, n, u, p)
    BY CreateFields, Zenon
  <2> QED
    BY ONLY <2>1 DEF Created
<1>5. SeatTable(x)
  <2>1. /\ IsInjective(Append(st.seat, n)) /\ Range(Append(st.seat, n)) = st.sessions \cup {n}
    BY <1>3, AppendIs, FieldTypes, SMTT(30) DEF SeatTable
  <2> QED
    BY <1>3, <1>4, <2>1, SMTT(30) DEF SeatTable
<1>6. /\ \A s \in st.sessions : x.uid[s] = st.uid[s] /\ x.leader_pid[s] = st.leader_pid[s]
      /\ x.uid[n] = u /\ x.leader_pid[n] = p
      /\ x.uid \in [Ids -> Uids \cup {None}]
  BY <1>3, <1>4, FieldTypes, SMTT(30)
<1>7. UserTables(x)
  <2>1. \A s \in x.sessions : x.uid[s] \in Uids
    BY <1>4, <1>6, ZenonT(30) DEF UserTables
  <2>2. x.users = {x.uid[s] : s \in x.sessions}
    <3>1. st.users = {st.uid[s] : s \in st.sessions}
      BY Zenon DEF UserTables
    <3>2. x.users = st.users \cup {u} /\ x.sessions = st.sessions \cup {n}
      BY <1>4, Zenon
    <3> QED
      BY ONLY <3>1, <3>2, <1>6
  <2>3. ASSUME NEW v \in Uids
        PROVE  /\ IsInjective(x.user_sessions[v])
               /\ Range(x.user_sessions[v]) = {s \in x.sessions : x.uid[s] = v}
               /\ x.display_session[v] \in Range(x.user_sessions[v]) \cup {None}
    <3>1. /\ st.user_sessions[v] \in Seq(Ids) /\ IsInjective(st.user_sessions[v])
          /\ Range(st.user_sessions[v]) = {s \in st.sessions : st.uid[s] = v}
          /\ st.display_session[v] \in Range(st.user_sessions[v]) \cup {None}
      <4>1. st.user_sessions[v] \in Seq(Ids)
        <5>1. st.user_sessions \in [Uids -> Seq(Ids)]
          BY FieldTypes, Zenon
        <5> QED
          BY ONLY <5>1, v \in Uids
      <4> QED
        BY <4>1, Zenon DEF UserTables
    <3>2. CASE v = u
      <4> DEFINE mine == Append(st.user_sessions[v], n)
      <4>1. IsInjective(mine) /\ Range(mine) = Range(st.user_sessions[v]) \cup {n}
        <5>1. n \notin Range(st.user_sessions[v]) /\ n \in Ids
          BY <1>3, <3>1, Zenon
        <5> QED
          BY ONLY <5>1, <3>1, AppendIs
      <4>2. x.user_sessions[v] = mine
        <5>1. x.user_sessions = [st.user_sessions EXCEPT ![u] = Append(@, n)]
              /\ st.user_sessions \in [Uids -> Seq(Ids)]
          BY <1>4, FieldTypes, Zenon
        <5> QED
          BY <5>1, <3>2, Zenon
      <4>3. x.display_session[v] = IF first THEN n ELSE st.display_session[v]
        <5>1. x.display_session = [st.display_session EXCEPT ![u] = IF first THEN n ELSE @]
              /\ st.display_session \in [Uids -> Ids \cup {None}]
          BY <1>4, FieldTypes, Zenon
        <5> QED
          BY <5>1, <3>2, Zenon
      <4> HIDE DEF mine
      <4>4. {s \in x.sessions : x.uid[s] = v} = {s \in st.sessions : st.uid[s] = v} \cup {n}
        BY <1>4, <1>6, <3>2, ZenonT(30)
      <4> QED
        BY <3>1, <4>1, <4>2, <4>3, <4>4, ZenonT(30)
    <3>3. CASE v # u
      <4>1. /\ x.user_sessions[v] = st.user_sessions[v]
            /\ x.display_session[v] = st.display_session[v]
        <5>1. /\ x.user_sessions = [st.user_sessions EXCEPT ![u] = Append(@, n)]
              /\ x.display_session = [st.display_session EXCEPT ![u] = IF first THEN n ELSE @]
              /\ st.user_sessions \in [Uids -> Seq(Ids)]
              /\ st.display_session \in [Uids -> Ids \cup {None}]
          BY <1>4, FieldTypes, Zenon
        <5> QED
          BY <5>1, <3>3, Zenon
      <4>2. {s \in x.sessions : x.uid[s] = v} = {s \in st.sessions : st.uid[s] = v}
        BY <1>4, <1>6, <3>3, ZenonT(30)
      <4> QED
        BY <3>1, <4>1, <4>2, ZenonT(30)
    <3> QED
      BY <3>2, <3>3, Zenon
  <2> QED
    BY <2>1, <2>2, <2>3, Zenon DEF UserTables
<1>8. PidTable(x, r1)
  <2>1. /\ \A s \in x.sessions : x.leader_pid[s] \in Pids
        /\ x.pid_to_session[p] = n
        /\ \A q \in Pids : q # p => x.pid_to_session[q] = st.pid_to_session[q]
        /\ r \subseteq r1
    <3>1. \A s \in x.sessions : x.leader_pid[s] \in Pids
      <4>1. \A s \in st.sessions : st.leader_pid[s] \in Pids
        BY Zenon DEF PidTable
      <4>2. x.sessions = st.sessions \cup {n}
        BY <1>4, Zenon
      <4> QED
        BY ONLY <4>1, <4>2, <1>6, p \in Pids, Zenon
    <3>2. /\ x.pid_to_session = [st.pid_to_session EXCEPT ![p] = n]
          /\ st.pid_to_session \in [Pids -> Ids \cup {None}]
      BY <1>4, FieldTypes, Zenon
    <3>3. /\ x.pid_to_session[p] = n
          /\ \A q \in Pids : q # p => x.pid_to_session[q] = st.pid_to_session[q]
      BY ONLY <3>2, p \in Pids, Zenon
    <3>4. r \subseteq r1
      BY <1>0, Zenon
    <3> QED
      BY <3>1, <3>3, <3>4, Zenon
  <2>2. \A s, t \in x.sessions : x.leader_pid[s] = x.leader_pid[t] /\ s # t => x.leader_pid[s] \in r1
    <3> SUFFICES ASSUME NEW s \in x.sessions, NEW t \in x.sessions,
                        x.leader_pid[s] = x.leader_pid[t], s # t
                 PROVE  x.leader_pid[s] \in r1
      BY ZenonT(30)
    <3>1. CASE s \in st.sessions /\ t \in st.sessions
      BY <1>6, <2>1, <3>1 DEF PidTable
    <3>2. CASE s = n
      BY <1>4, <1>6, <3>2, Zenon
    <3>3. CASE t = n
      BY <1>4, <1>6, <3>3, Zenon
    <3> QED
      BY <1>4, <3>1, <3>2, <3>3, Zenon
  <2>3. ASSUME NEW q \in Pids, x.pid_to_session[q] # None
        PROVE  /\ x.pid_to_session[q] \in x.sessions /\ x.leader_pid[x.pid_to_session[q]] = q
               /\ \A s \in x.sessions : x.leader_pid[s] = q => s <= x.pid_to_session[q]
    <3>1. CASE q = p
      BY <1>4, <1>6, <2>1, <3>1, SMTT(30) DEF Ids
    <3>2. CASE q # p
      BY <1>4, <1>6, <2>1, <2>3, <3>2, SMTT(30) DEF PidTable
    <3> QED
      BY <3>1, <3>2, ZenonT(30)
  <2>4. ASSUME NEW s \in x.sessions, x.pid_to_session[x.leader_pid[s]] = None
        PROVE  x.leader_pid[s] \in r1
    <3>1. x.leader_pid[s] # p
      BY <2>1, <2>4, Zenon
    <3>2. s \in st.sessions /\ x.leader_pid[s] = st.leader_pid[s] /\ x.leader_pid[s] \in Pids
      BY <1>4, <1>6, <2>1, <3>1, ZenonT(30)
    <3> QED
      BY <2>1, <2>4, <3>1, <3>2 DEF PidTable
  <2> QED
    BY <2>1, <2>2, <2>3, <2>4, Zenon DEF PidTable
<1>9. \A s \in x.sessions : s \in Ids /\ s < n + 1
  BY <1>4 DEF Ids
<1>10. Tables(x, r1, n + 1)
  BY <1>4, <1>5, <1>7, <1>8, <1>9, Zenon DEF Tables
<1>11. st.active_session # None => st.active_session \in st.sessions
  BY ZenonT(30) DEF SeatTable
<1>12. /\ n \in x.active => Owner(x) = u
       /\ n \notin x.active => Owner(x) = Owner(st)
  BY <1>3, <1>4, <1>6, <1>11 DEF Owner, SeatTable
<1> QED
  BY <1>4, <1>10, <1>12

LEMMA RemoveTables ==
  ASSUME NEW n, NEW r, NEW y, Tables(y, r, n), NEW s \in y.sessions,
         NEW x, x = remove_session(y, s)
  PROVE  /\ Tables(x, r, n) /\ y.uid[s] \in y.users /\ y.uid[s] \in Uids
         /\ x.users \subseteq y.users /\ y.users \ {y.uid[s]} \subseteq x.users
         /\ s \notin y.active => Owner(x) = Owner(y)
         /\ s \in y.active => Owner(y) = y.uid[s]
         /\ uid_of_active(x) = (IF x.active_session = None THEN None ELSE Owner(x))
         /\ uid_of_active(x) \in Uids \cup {None}
<1>1. None \notin Ids \cup Uids \cup Pids
  BY LoginAssumption, Zenon
<1>2. /\ y \in LoginState /\ \A z \in y.sessions : z \in Ids /\ z < n
      /\ SeatTable(y) /\ UserTables(y) /\ PidTable(y, r)
  BY ZenonT(30) DEF Tables
<1> USE <1>1, <1>2
<1> DEFINE u == y.uid[s]
           q == y.leader_pid[s]
           mine == Without(y.user_sessions[u], s)
           others == Without(y.seat, s)
<1>3. /\ u \in Uids /\ q \in Pids /\ s \in Ids /\ u \in y.users
      /\ IsInjective(y.seat) /\ IsInjective(y.user_sessions[u])
      /\ y.seat \in Seq(Ids) /\ y.user_sessions[u] \in Seq(Ids)
      /\ Range(y.seat) = y.sessions
      /\ Range(y.user_sessions[u]) = {z \in y.sessions : y.uid[z] = u}
  BY FieldTypes, SMTT(30) DEF UserTables, PidTable, SeatTable
<1>4. /\ x.sessions = y.sessions \ {s}
      /\ x.active = (y.active \ {s})
                  \cup (IF y.active_session = s THEN {FirstOf(others)} \ {None} ELSE {})
      /\ x.uid = [y.uid EXCEPT ![s] = None]
      /\ x.leader_pid = [y.leader_pid EXCEPT ![s] = None]
      /\ x.pid_to_session = [y.pid_to_session EXCEPT ![q] = None]
      /\ x.seat = others
      /\ x.active_session = (IF y.active_session = s THEN FirstOf(others)
                                                    ELSE y.active_session)
      /\ x.users = (IF mine = <<>> THEN y.users \ {u} ELSE y.users)
      /\ x.user_sessions = [y.user_sessions EXCEPT ![u] = mine]
      /\ x.display_session = [y.display_session EXCEPT ![u] = IF @ = s THEN FirstOf(mine) ELSE @]
      /\ x \in LoginState
  <2>1. Removed(x, y, s)
    BY <1>3, RemoveFields, ZenonT(30)
  <2> QED
    BY ONLY <2>1 DEF Removed
<1>5. /\ mine \in Seq(Ids) /\ IsInjective(mine)
      /\ Range(mine) = {z \in y.sessions : y.uid[z] = u} \ {s}
  BY <1>3, WithoutIs, SMTT(30)
<1>6. /\ others \in Seq(Ids) /\ IsInjective(others) /\ Range(others) = y.sessions \ {s}
  BY <1>3, WithoutIs
<1> HIDE DEF mine, others, u, q
<1>7. SeatTable(x)
  <2>1. IsInjective(x.seat) /\ Range(x.seat) = x.sessions
    BY <1>4, <1>6, ZenonT(30)
  <2>2. /\ FirstOf(others) # None => FirstOf(others) \in x.sessions
        /\ FirstOf(others) = None => x.sessions = {}
    BY <1>3, <1>4, <1>6, FirstIs
  <2>3. x.active = {x.active_session} \ {None}
    BY <1>4, Zenon DEF SeatTable
  <2>4. x.active \subseteq x.sessions
    BY <1>4, <2>2, Zenon DEF SeatTable
  <2>5. x.active_session = None => x.sessions = {}
    BY <1>4, <2>2, Zenon DEF SeatTable
  <2> QED
    BY <2>1, <2>3, <2>4, <2>5, Zenon DEF SeatTable
<1>8. \A z \in x.sessions : /\ z \in y.sessions /\ z # s /\ x.uid[z] = y.uid[z]
                            /\ x.leader_pid[z] = y.leader_pid[z]
  BY <1>4, FieldTypes, ZenonT(30)
<1>9. UserTables(x)
  <2>1. \A z \in x.sessions : x.uid[z] \in Uids
    BY <1>8, Zenon DEF UserTables
  <2>2. x.users = {x.uid[z] : z \in x.sessions}
    <3>1. CASE mine = <<>>
      <4>1. \A z \in y.sessions : y.uid[z] = u => z = s
        BY <1>5, <3>1, FirstIs, ZenonT(30)
      <4> QED
        BY <1>4, <1>8, <3>1, <4>1 DEF UserTables, u
    <3>2. CASE mine # <<>>
      <4>1. PICK w \in x.sessions : x.uid[w] = u
        <5>1. FirstOf(mine) \in Range(mine)
          BY <1>5, <3>2, FirstIs, Zenon
        <5> QED
          BY <1>4, <1>5, <1>8, <5>1
      <4> QED
        BY <1>4, <1>8, <3>2, <4>1, SMTT(30) DEF UserTables, u
    <3> QED
      BY <3>1, <3>2, ZenonT(30)
  <2>3. ASSUME NEW v \in Uids
        PROVE  /\ IsInjective(x.user_sessions[v])
               /\ Range(x.user_sessions[v]) = {z \in x.sessions : x.uid[z] = v}
               /\ x.display_session[v] \in Range(x.user_sessions[v]) \cup {None}
    <3>1. /\ IsInjective(y.user_sessions[v])
          /\ Range(y.user_sessions[v]) = {z \in y.sessions : y.uid[z] = v}
          /\ y.display_session[v] \in Range(y.user_sessions[v]) \cup {None}
      BY Zenon DEF UserTables
    <3>2. CASE v = u
      <4>1. x.user_sessions[v] = mine
        BY <1>4, <3>2, FieldTypes, SMTT(30)
      <4>2. x.display_session[v] = IF y.display_session[v] = s THEN FirstOf(mine)
                                                               ELSE y.display_session[v]
        BY <1>4, <3>2, FieldTypes
      <4>3. {z \in x.sessions : x.uid[z] = v} = Range(mine)
        <5>1. x.sessions = y.sessions \ {s}
          BY <1>4, Zenon
        <5>2. Range(mine) = {z \in y.sessions : y.uid[z] = u} \ {s}
          BY <1>5, Zenon
        <5> QED
          BY ONLY <5>1, <5>2, <1>8, <3>2, ZenonT(30)
      <4>4. FirstOf(mine) \in Range(mine) \cup {None}
        BY <1>5, FirstIs, Zenon
      <4> QED
        BY <1>5, <3>1, <3>2, <4>1, <4>2, <4>3, <4>4, ZenonT(30)
    <3>3. CASE v # u
      <4>1. /\ x.user_sessions[v] = y.user_sessions[v]
            /\ x.display_session[v] = y.display_session[v]
        BY <1>4, <3>3, FieldTypes
      <4>2. {z \in x.sessions : x.uid[z] = v} = {z \in y.sessions : y.uid[z] = v}
        <5>1. x.sessions = y.sessions \ {s}
          BY <1>4, Zenon
        <5> QED
          BY ONLY <5>1, <1>8, <3>3, ZenonT(30) DEF u
      <4> QED
        BY <3>1, <4>1, <4>2, ZenonT(30)
    <3> QED
      BY <3>2, <3>3, ZenonT(30)
  <2> QED
    BY <2>1, <2>2, <2>3, Zenon DEF UserTables
<1>10. PidTable(x, r)
  <2>1. /\ x.pid_to_session[q] = None
        /\ \A p \in Pids : p # q => x.pid_to_session[p] = y.pid_to_session[p]
    BY <1>3, <1>4, FieldTypes
  <2>2. ASSUME NEW p \in Pids, x.pid_to_session[p] # None
        PROVE  /\ x.pid_to_session[p] \in x.sessions /\ x.leader_pid[x.pid_to_session[p]] = p
               /\ \A z \in x.sessions : x.leader_pid[z] = p => z <= x.pid_to_session[p]
    <3>1. p # q /\ x.pid_to_session[p] = y.pid_to_session[p]
      BY <2>1, <2>2, Zenon
    <3>2. /\ y.pid_to_session[p] \in y.sessions /\ y.leader_pid[y.pid_to_session[p]] = p
          /\ \A z \in y.sessions : y.leader_pid[z] = p => z <= y.pid_to_session[p]
      BY <2>2, <3>1, Zenon DEF PidTable
    <3>3. y.pid_to_session[p] \in x.sessions
      BY <1>4, <3>1, <3>2, Zenon DEF q
    <3> QED
      BY <1>8, <3>1, <3>2, <3>3, Zenon
  <2>3. ASSUME NEW z \in x.sessions, x.pid_to_session[x.leader_pid[z]] = None
        PROVE  x.leader_pid[z] \in r
    <3>1. CASE y.leader_pid[z] = q
      BY <1>8, <3>1, Zenon DEF PidTable, q
    <3>2. CASE y.leader_pid[z] # q
      BY <1>8, <2>1, <2>3, <3>2 DEF PidTable
    <3> QED
      BY <3>1, <3>2, Zenon
  <2> QED
    BY <1>8, <2>2, <2>3, SMTT(30) DEF PidTable
<1>11. Tables(x, r, n)
  BY <1>4, <1>7, <1>8, <1>9, <1>10, Zenon DEF Tables
<1>12. x.users \subseteq y.users /\ y.users \ {u} \subseteq x.users
  BY <1>4, ZenonT(30)
<1>13. /\ s \notin y.active => y.active_session # s
       /\ s \in y.active => y.active_session = s
       /\ y.active_session # None => y.active_session \in y.sessions
  BY <1>3, Zenon DEF SeatTable
<1>14. y.active_session # s => Owner(x) = Owner(y)
  BY <1>4, <1>13, FieldTypes DEF Owner
<1>15. s \in y.active => Owner(y) = u
  BY <1>3, <1>13, ZenonT(30) DEF Owner, u
<1>16. /\ uid_of_active(x) = (IF x.active_session = None THEN None ELSE Owner(x))
       /\ uid_of_active(x) \in Uids \cup {None}
  BY <1>4, FieldTypes DEF uid_of_active, Owner
<1> QED
  BY <1>3, <1>11, <1>12, <1>13, <1>14, <1>15, <1>16, Zenon DEF u

(* A removal takes out of users at most the session's own. *)
Shrinks(y, x, s, r, n) ==
  /\ Tables(x, r, n) /\ y.uid[s] \in Uids
  /\ x.users \subseteq y.users /\ y.users \ {y.uid[s]} \subseteq x.users

LEMMA RemoveShrinks ==
  ASSUME NEW n, NEW r, NEW y, Tables(y, r, n), NEW s \in y.sessions,
         NEW x, x = remove_session(y, s)
  PROVE  Shrinks(y, x, s, r, n)
BY RemoveTables DEF Shrinks

LEMMA ActivateTables ==
  ASSUME NEW n, NEW r, Tables(st, r, n), NEW s \in st.sessions,
         NEW x, x = activate_session(s)
  PROVE  /\ Tables(x, r, n) /\ x.users = st.users
         /\ Owner(x) = st.uid[s] /\ st.uid[s] \in Uids
<1>1. None \notin Ids \cup Uids
  BY LoginAssumption, Zenon
<1>2. /\ st \in LoginState /\ \A z \in st.sessions : z \in Ids /\ z < n
      /\ SeatTable(st) /\ UserTables(st) /\ PidTable(st, r)
  BY Zenon DEF Tables
<1>3. /\ x \in LoginState
      /\ x.active = (st.active \ {st.active_session}) \cup {s}
      /\ x.active_session = s
      /\ x.sessions = st.sessions /\ x.uid = st.uid /\ x.leader_pid = st.leader_pid
      /\ x.pid_to_session = st.pid_to_session /\ x.seat = st.seat /\ x.users = st.users
      /\ x.user_sessions = st.user_sessions /\ x.user_state = st.user_state
      /\ x.display_session = st.display_session
  BY <1>2, ActivateFields
<1>4. SeatTable(x)
  BY <1>1, <1>2, <1>3, Zenon DEF SeatTable
<1>5. UserTables(x)
  BY <1>2, <1>3, SMTT(30) DEF UserTables
<1>6. PidTable(x, r)
  BY <1>2, <1>3 DEF PidTable
<1>7. Tables(x, r, n)
  BY <1>2, <1>3, <1>4, <1>5, <1>6, Zenon DEF Tables
<1>8. st.uid[s] \in Uids /\ s # None
  BY <1>1, <1>2, Zenon DEF UserTables
<1> QED
  BY <1>3, <1>7, <1>8, Zenon DEF Owner

-----------------------------------------------------------------------------
(* What tasks have to do: lists of effects and their tails. *)
MethodHead(q) ==
  q # <<>> /\ Head(q).op \in {"ensure", "chown", "finalize_session_removal", "remove_session"}

LEMMA EffectIs ==
  /\ \A u \in Uids : /\ Ensure(u) \in Effect /\ Wake(u) \in Effect /\ Release(u) \in Effect
                     /\ Forget(u) \in Effect
  /\ \A o \in Uids \cup {Root} : Chown(o) \in Effect
  /\ \A s \in Ids : Finalize(s) \in Effect /\ Remove(s) \in Effect
BY DEF Effect, Ensure, Wake, Release, Forget, Chown, Finalize, Remove

LEMMA OpArg ==
  ASSUME NEW e \in Effect
  PROVE  /\ e = [op |-> e.op, arg |-> e.arg]
         /\ e.op \in {"ensure", "wake", "release", "forget"} => e.arg \in Uids
         /\ e.op = "chown" => e.arg \in Uids \cup {Root}
         /\ e.op \in {"finalize_session_removal", "remove_session"} => e.arg \in Ids
BY Zenon DEF Effect

LEMMA Split ==
  ASSUME NEW S, NEW q \in Seq(S), q # <<>>
  PROVE  /\ Head(q) = q[1] /\ 1 \in DOMAIN q /\ Head(q) \in S /\ Tail(q) \in Seq(S)
         /\ \A i \in DOMAIN Tail(q) : i + 1 \in DOMAIN q /\ Tail(q)[i] = q[i + 1] /\ i \in Nat
         /\ \A i \in DOMAIN q : i \in Nat /\ (i = 1 \/ (i - 1 \in DOMAIN Tail(q) /\ q[i] = Tail(q)[i - 1]))
  OBVIOUS

LEMMA TailIs ==
  ASSUME NEW S, NEW q \in Seq(S), q # <<>>
  PROVE  Tail(q) \in Seq(S) /\ (Len(q) = 1 => Tail(q) = <<>>) /\ <<>> \in Seq(S)
<1>1. Tail(q) \in Seq(S) /\ <<>> \in Seq(S)
  OBVIOUS
<1>2. Len(q) = 1 => Len(Tail(q)) = 0
  OBVIOUS
<1>3. \A r \in Seq(S) : Len(r) = 0 => r = <<>>
  OBVIOUS
<1> QED
  BY <1>1, <1>2, <1>3, Zenon

LEMMA EmptyIsMethod == MethodTodo(<<>>)
BY DEF MethodTodo

LEMMA TailMethod ==
  ASSUME NEW q, MethodTodo(q), q # <<>>
  PROVE  /\ MethodTodo(Tail(q)) /\ MethodHead(q) /\ Head(q) \in Effect
         /\ \A i \in DOMAIN Tail(q) : Tail(q)[i].op # "ensure"
         /\ Head(q).op = "finalize_session_removal" =>
              \A i \in DOMAIN Tail(q) : Tail(q)[i].op = "finalize_session_removal"
<1> DEFINE r == Tail(q)
<1>1. /\ Head(q) = q[1] /\ 1 \in DOMAIN q /\ Head(q) \in Effect /\ r \in Seq(Effect)
      /\ \A i \in DOMAIN r : i + 1 \in DOMAIN q /\ r[i] = q[i + 1] /\ i \in Nat
  BY Split, Zenon DEF MethodTodo
<1>2. \A i \in DOMAIN r : i + 1 > 1 /\ i + 1 # 1
  <2>1. \A i \in DOMAIN r : i \in 1..Len(r)
    BY <1>1
  <2> QED
    BY <2>1
<1> HIDE DEF r
<1>3. \A i \in DOMAIN r :
       /\ r[i].op \in {"ensure", "chown", "finalize_session_removal", "remove_session"}
       /\ r[i].op # "ensure"
  BY <1>1, <1>2 DEF MethodTodo
<1>4. ASSUME NEW i \in DOMAIN r, r[i].op = "finalize_session_removal", NEW j \in DOMAIN r, j > i
      PROVE  r[j].op = "finalize_session_removal"
  <2>1. j + 1 > i + 1
    BY <1>1, <1>4
  <2> QED
    BY <1>1, <1>4, <2>1, SMTT(30) DEF MethodTodo
<1>5. MethodTodo(r)
  BY <1>1, <1>3, <1>4, Zenon DEF MethodTodo
<1>6. MethodHead(q)
  BY <1>1, Zenon DEF MethodTodo, MethodHead
<1>7. Head(q).op = "finalize_session_removal" =>
              \A i \in DOMAIN r : r[i].op = "finalize_session_removal"
  BY <1>1, <1>2 DEF MethodTodo
<1> QED
  BY <1>1, <1>3, <1>5, <1>6, <1>7, Zenon DEF r

LEMMA HasTail ==
  ASSUME NEW q \in Seq(Effect), q # <<>>, NEW e
  PROVE  Has(q, e) <=> e = Head(q) \/ Has(Tail(q), e)
<1> DEFINE r == Tail(q)
<1>1. /\ Head(q) = q[1] /\ 1 \in DOMAIN q
      /\ \A i \in DOMAIN r : i + 1 \in DOMAIN q /\ r[i] = q[i + 1]
      /\ \A i \in DOMAIN q : i = 1 \/ (i - 1 \in DOMAIN r /\ q[i] = r[i - 1])
  BY Split
<1> HIDE DEF r
<1>2. ASSUME NEW i \in DOMAIN q, q[i] = e PROVE e = Head(q) \/ Has(r, e)
  BY <1>1, <1>2, Zenon DEF Has
<1>3. ASSUME NEW i \in DOMAIN r, r[i] = e PROVE Has(q, e)
  BY <1>1, <1>3, Zenon DEF Has
<1>4. e = Head(q) => Has(q, e)
  BY <1>1, Zenon DEF Has
<1> QED
  BY <1>2, <1>3, <1>4, Zenon DEF Has, r

LEMMA EndsTail ==
  ASSUME NEW q \in Seq(Effect), q # <<>>, NEW now, NEW o, EndsAt(q, now, o)
  PROVE  EndsAt(Tail(q), IF Head(q).op = "chown" THEN Head(q).arg ELSE now, o)
<1> DEFINE r == Tail(q)
<1>1. /\ Head(q) = q[1] /\ 1 \in DOMAIN q
      /\ \A i \in DOMAIN r : i + 1 \in DOMAIN q /\ r[i] = q[i + 1] /\ i \in Nat
      /\ \A i \in DOMAIN q : i \in Nat /\ (i = 1 \/ (i - 1 \in DOMAIN r /\ q[i] = r[i - 1]))
  BY Split, Zenon
<1>2. \A i \in DOMAIN r : i + 1 > 1
  <2>1. \A i \in DOMAIN r : i \in 1..Len(r)
    OBVIOUS
  <2> QED
    BY <2>1
<1> HIDE DEF r
<1>3. CASE now = o /\ \A i \in DOMAIN q : q[i].op # "chown"
  BY <1>1, <1>3, Zenon DEF EndsAt, r
<1>4. ASSUME NEW i \in DOMAIN q, q[i].op = "chown", q[i].arg = o,
             \A j \in DOMAIN q : j > i => q[j].op # "chown"
      PROVE  EndsAt(r, IF Head(q).op = "chown" THEN Head(q).arg ELSE now, o)
  <2>1. CASE i = 1
    <3>1. \A j \in DOMAIN r : r[j].op # "chown"
      BY <1>1, <1>2, <1>4, <2>1, ZenonT(30)
    <3> QED
      BY <1>1, <1>4, <2>1, <3>1, ZenonT(30) DEF EndsAt
  <2>2. CASE i # 1
    <3>1. i - 1 \in DOMAIN r /\ q[i] = r[i - 1]
      BY <1>1, <2>2, Zenon
    <3>2. ASSUME NEW j \in DOMAIN r, j > i - 1 PROVE r[j].op # "chown"
      <4>1. j + 1 > i /\ j + 1 \in DOMAIN q /\ r[j] = q[j + 1]
        BY <1>1, <3>2, SMTT(30)
      <4> QED
        BY <1>4, <4>1, Zenon
    <3> QED
      BY <1>4, <3>1, <3>2, Zenon DEF EndsAt
  <2> QED
    BY <2>1, <2>2, Zenon
<1> QED
  BY <1>3, <1>4, Zenon DEF EndsAt, r

LEMMA EndsNow ==
  ASSUME NEW q, NEW now, NEW o, \A i \in DOMAIN q : q[i].op # "chown"
  PROVE  EndsAt(q, now, o) <=> now = o
BY DEF EndsAt

LEMMA ThreeAtMost ==
  ASSUME NEW S, NEW a \in S, NEW b \in S, NEW c \in S,
         NEW q, q \in {<<a, b, c>>, <<b, c>>, <<c>>}
  PROVE  /\ q \in Seq(S) /\ q # <<>> /\ Head(q) \in {a, b, c}
         /\ Head(q) = q[1] /\ 1 \in DOMAIN q
         /\ \A i \in DOMAIN q : q[i] \in {a, b, c}
<1>1. CASE q = <<a, b, c>>
  BY <1>1
<1>2. CASE q = <<b, c>>
  BY <1>2
<1>3. CASE q = <<c>>
  BY <1>3
<1> QED
  BY <1>1, <1>2, <1>3, Zenon

LEMMA CleanupIs ==
  ASSUME NEW q, NEW u \in Uids, CleanupTodo(q, u)
  PROVE  /\ q \in Seq(Effect) /\ q # <<>> /\ ~MethodHead(q) /\ ~MethodTodo(q)
         /\ \A v : CleanupTodo(q, v) => v = u
         /\ \A e : Has(q, e) => e \in {Wake(u), Release(u), Forget(u)}
         /\ Head(q) \in {Wake(u), Release(u), Forget(u)} /\ Head(q).arg = u
         /\ Head(q).op = "wake" => q = <<Wake(u), Release(u), Forget(u)>>
         /\ Head(q).op = "release" => q = <<Release(u), Forget(u)>>
         /\ Head(q).op = "forget" => q = <<Forget(u)>>
<1>1. Wake(u) \in Effect /\ Release(u) \in Effect /\ Forget(u) \in Effect
  BY EffectIs, Zenon
<1>2. /\ Wake(u).op = "wake" /\ Release(u).op = "release" /\ Forget(u).op = "forget"
      /\ Wake(u).arg = u /\ Release(u).arg = u /\ Forget(u).arg = u
  BY Zenon DEF Wake, Release, Forget
<1>3. /\ q \in Seq(Effect) /\ q # <<>> /\ Head(q) \in {Wake(u), Release(u), Forget(u)}
      /\ Head(q) = q[1] /\ 1 \in DOMAIN q
      /\ \A i \in DOMAIN q : q[i] \in {Wake(u), Release(u), Forget(u)}
  BY <1>1, ThreeAtMost DEF CleanupTodo
<1>5. /\ Head(q).op = "wake" => q = <<Wake(u), Release(u), Forget(u)>>
      /\ Head(q).op = "release" => q = <<Release(u), Forget(u)>>
      /\ Head(q).op = "forget" => q = <<Forget(u)>>
  <2>1. /\ Head(<<Wake(u), Release(u), Forget(u)>>) = Wake(u)
        /\ Head(<<Release(u), Forget(u)>>) = Release(u)
        /\ Head(<<Forget(u)>>) = Forget(u)
    OBVIOUS
  <2> QED
    BY <1>2, <2>1, Zenon DEF CleanupTodo
<1>6. ASSUME NEW v, CleanupTodo(q, v) PROVE v = u
  <2>1. Head(q) \in {Wake(v), Release(v), Forget(v)}
    BY <1>6 DEF CleanupTodo
  <2>2. Head(q).arg = v
    BY <2>1 DEF Wake, Release, Forget
  <2> QED
    BY <1>2, <1>3, <2>2, Zenon
<1>7. ~MethodHead(q) /\ ~MethodTodo(q)
  BY <1>2, <1>3, Zenon DEF MethodHead, MethodTodo
<1> QED
  BY <1>2, <1>3, <1>5, <1>6, <1>7, Zenon DEF Has

LEMMA RestIs ==
  ASSUME tasks \in [Slots -> [todo : Seq(Effect), aborted : BOOLEAN]],
         NEW t \in Slots, tasks[t].todo # <<>>
  PROVE  /\ Rest(t) \in [Slots -> [todo : Seq(Effect), aborted : BOOLEAN]]
         /\ Rest(t)[t].todo = Tail(tasks[t].todo)
         /\ Rest(t)[t].aborted => tasks[t].aborted
         /\ Rest(t)[t].todo # <<>> => Rest(t)[t].aborted = tasks[t].aborted
         /\ \A x \in Slots \ {t} : Rest(t)[x] = tasks[x]
<1> DEFINE q == tasks[t].todo
           new1 == IF Len(q) = 1 THEN Free ELSE [tasks[t] EXCEPT !.todo = Tail(q)]
<1>1. tasks[t] \in [todo : Seq(Effect), aborted : BOOLEAN] /\ q \in Seq(Effect)
  OBVIOUS
<1>2. Tail(q) \in Seq(Effect) /\ (Len(q) = 1 => Tail(q) = <<>>) /\ <<>> \in Seq(Effect)
  BY <1>1, TailIs, Zenon
<1>3. Rest(t) = [tasks EXCEPT ![t] = new1]
  BY Zenon DEF Rest
<1>4. /\ new1 \in [todo : Seq(Effect), aborted : BOOLEAN] /\ new1.todo = Tail(q)
      /\ new1.aborted => tasks[t].aborted
      /\ new1.todo # <<>> => new1.aborted = tasks[t].aborted
  <2>1. CASE Len(q) = 1
    BY <1>2, <2>1, Zenon DEF Free
  <2>2. CASE Len(q) # 1
    <3>1. new1 = [tasks[t] EXCEPT !.todo = Tail(q)]
      BY <2>2, Zenon
    <3> QED
      BY <1>1, <1>2, <3>1, Zenon
  <2> QED
    BY <2>1, <2>2, Zenon
<1> HIDE DEF new1
<1> QED
  BY <1>3, <1>4, Zenon

-----------------------------------------------------------------------------
(* One method begins or goes on: the task in slot t is left with q to do. *)
TasksAre == [Slots -> [todo : Seq(Effect), aborted : BOOLEAN]]

MethodMoves(t, q) ==
  /\ t \in Slots /\ MethodTodo(tasks[t].todo) /\ MethodTodo(q)
  /\ tasks' \in TasksAre /\ tasks'[t].todo = q
  /\ \A x \in Slots \ {t} : tasks'[x].todo = tasks[x].todo

LEMMA HeadsAre ==
  ASSUME TasksType, NEW t \in Slots
  PROVE  /\ tasks[t].todo \in Seq(Effect)
         /\ IsMethod(t) <=> MethodHead(tasks[t].todo)
         /\ IsMethod(t) <=> MethodTodo(tasks[t].todo) /\ tasks[t].todo # <<>>
<1>1. tasks[t].todo \in Seq(Effect)
  BY Zenon DEF TasksType
<1>2. IsMethod(t) <=> MethodHead(tasks[t].todo)
  BY Zenon DEF IsMethod, MethodHead
<1>3. MethodTodo(tasks[t].todo) \/ \E u \in Uids : CleanupTodo(tasks[t].todo, u)
  BY DEF TasksType, Todo
<1>4. ASSUME NEW u \in Uids, CleanupTodo(tasks[t].todo, u)
      PROVE  ~MethodHead(tasks[t].todo) /\ ~MethodTodo(tasks[t].todo)
  BY <1>4, CleanupIs, Zenon
<1>5. MethodTodo(tasks[t].todo) /\ tasks[t].todo # <<>> => MethodHead(tasks[t].todo)
  BY TailMethod, Zenon
<1>6. MethodHead(tasks[t].todo) => tasks[t].todo # <<>>
  BY Zenon DEF MethodHead
<1> QED
  BY <1>1, <1>2, <1>3, <1>4, <1>5, <1>6, Zenon

LEMMA MovesKeepType ==
  ASSUME TasksType, NEW t, NEW q, MethodMoves(t, q)
  PROVE  /\ TasksType'
         /\ \A x \in Slots \ {t} : IsMethod(x)' <=> IsMethod(x)
         /\ IsMethod(t)' <=> q # <<>>
         /\ \A u \in Uids : Decided(u)' <=> Decided(u)
<1>1. TasksType'
  BY Zenon DEF TasksType, MethodMoves, Todo, TasksAre
<1>2. \A x \in Slots : IsMethod(x)' <=> MethodHead(tasks'[x].todo)
  BY Zenon DEF IsMethod, MethodHead
<1>3. \A x \in Slots : IsMethod(x) <=> MethodHead(tasks[x].todo)
  BY Zenon DEF IsMethod, MethodHead
<1>4. \A x \in Slots \ {t} : IsMethod(x)' <=> IsMethod(x)
  BY <1>2, <1>3, Zenon DEF MethodMoves
<1>5. MethodHead(q) <=> q # <<>>
  BY TailMethod, Zenon DEF MethodMoves, MethodHead
<1>6. IsMethod(t)' <=> q # <<>>
  BY <1>2, <1>5, Zenon DEF MethodMoves
<1>7. ASSUME NEW r, MethodTodo(r), r # <<>> PROVE Head(r).op # "release"
  BY <1>7, TailMethod, Zenon DEF MethodHead
<1>8. \A x \in Slots : Doing(x, "release") => x # t
  BY <1>7, Zenon DEF MethodMoves, Doing
<1>9. \A x \in Slots : Doing(x, "release")' => x # t
  BY <1>7, Zenon DEF MethodMoves, Doing
<1>10. \A u \in Uids : Decided(u)' <=> Decided(u)
  BY <1>8, <1>9, Zenon DEF Decided, Doing, Arg, MethodMoves
<1> QED
  BY <1>1, <1>4, <1>6, <1>10, Zenon

LEMMA MovesKeepHandles ==
  ASSUME TasksType, HandlesAreFresh, NEW t, NEW q, MethodMoves(t, q),
         pending_user_cleanups \in [Uids -> Slots \cup {None}],
         \A u \in Uids : pending_user_cleanups'[u] # None =>
           /\ pending_user_cleanups'[u] = pending_user_cleanups[u]
           /\ u \notin st'.users
           /\ tasks'[pending_user_cleanups[u]].aborted => tasks[pending_user_cleanups[u]].aborted
  PROVE  HandlesAreFresh'
<1> SUFFICES ASSUME NEW u \in Uids, pending_user_cleanups'[u] # None
             PROVE  /\ u \notin st'.users
                    /\ CleanupTodo(tasks'[pending_user_cleanups'[u]].todo, u)
                    /\ ~tasks'[pending_user_cleanups'[u]].aborted
  BY Zenon DEF HandlesAreFresh, CleanupTodo, Todo, Wake, Release, Forget
<1> DEFINE c == pending_user_cleanups[u]
<1>1. /\ c # None /\ c \in Slots /\ CleanupTodo(tasks[c].todo, u) /\ ~tasks[c].aborted
      /\ pending_user_cleanups'[u] = c /\ u \notin st'.users
      /\ tasks'[c].aborted => tasks[c].aborted
  BY DEF HandlesAreFresh, Todo
<1> HIDE DEF c
<1>2. c # t
  BY <1>1, CleanupIs, Zenon DEF MethodMoves
<1>3. tasks'[c].todo = tasks[c].todo
  BY <1>1, <1>2, Zenon DEF MethodMoves
<1> QED
  BY <1>1, <1>3, Zenon

LEMMA MovesKeepOrder ==
  ASSUME TasksType, OneAfterTheOther, NEW t, NEW q, MethodMoves(t, q),
         plain' => plain /\ \A x \in Slots \ {t} : ~IsMethod(x),
         plain' => \A i \in DOMAIN q : q[i].op # "remove_session",
         plain' => EndsAt(q, dev_owner', Owner(st'))
  PROVE  OneAfterTheOther'
<1> SUFFICES ASSUME plain'
             PROVE  /\ \A y, x \in Slots : IsMethod(y)' /\ IsMethod(x)' => y = x
                    /\ \A x \in Slots : \A i \in DOMAIN tasks'[x].todo :
                         tasks'[x].todo[i].op # "remove_session"
                    /\ NoMethodRuns' => dev_owner' = Owner(st')
                    /\ \A x \in Slots : IsMethod(x)' =>
                         EndsAt(tasks'[x].todo, dev_owner', Owner(st'))
  BY Zenon DEF OneAfterTheOther, Todo, EndsAt, Owner
<1>1. /\ t \in Slots /\ tasks'[t].todo = q
      /\ \A x \in Slots \ {t} : tasks'[x].todo = tasks[x].todo
  BY DEF MethodMoves
<1>2. /\ \A x \in Slots \ {t} : IsMethod(x)' <=> IsMethod(x)
      /\ IsMethod(t)' <=> q # <<>>
  BY MovesKeepType, Zenon
<1>3. \A x \in Slots : IsMethod(x)' => x = t
  BY <1>2, Zenon
<1>4. \A x \in Slots : \A i \in DOMAIN tasks'[x].todo : tasks'[x].todo[i].op # "remove_session"
  BY <1>1, Zenon DEF OneAfterTheOther, Todo
<1>5. NoMethodRuns' => dev_owner' = Owner(st')
  <2>1. NoMethodRuns' => q = <<>>
    BY <1>1, <1>2, Zenon DEF NoMethodRuns
  <2>2. q = <<>> => DOMAIN q = {}
    OBVIOUS
  <2> QED
    BY <2>1, <2>2, EndsNow, Zenon
<1> QED
  BY <1>1, <1>3, <1>4, <1>5, Zenon

LEMMA MovesKeepDirectories ==
  ASSUME TasksType, DirectoryIsKnown, NEW t, NEW q, MethodMoves(t, q),
         st.users \subseteq Uids, rundir \subseteq Uids, late \subseteq Uids,
         st'.users \subseteq Uids, rundir' \subseteq Uids,
         plain' => plain /\ \A x \in Slots \ {t} : ~IsMethod(x),
         plain' => rundir' \ st'.users \subseteq rundir \ st.users,
         \A x \in Slots, u \in Uids \ st'.users :
            CleanupTodo(tasks[x].todo, u) /\ tasks'[x].aborted => tasks[x].aborted,
         plain' => \A u \in Uids : Has(q, Ensure(u)) => u \in st'.users,
         \A u \in st'.users : \/ u \in rundir' \cup late' \/ Has(q, Ensure(u))
                              \/ /\ u \in st.users /\ u \notin rundir \cup late
                                 /\ ~Has(tasks[t].todo, Ensure(u)),
         \A u \in st'.users : Decided(u) => u \in late'
  PROVE  DirectoryIsKnown'
<1>1. /\ t \in Slots /\ tasks'[t].todo = q
      /\ \A x \in Slots \ {t} : tasks'[x].todo = tasks[x].todo
      /\ MethodTodo(q) /\ MethodTodo(tasks[t].todo)
  BY DEF MethodMoves
<1>2. \A u \in Uids : Decided(u)' <=> Decided(u)
  BY MovesKeepType, ZenonT(30)
<1>3. ASSUME NEW r, MethodTodo(r), NEW u, Has(r, Release(u)) PROVE FALSE
  BY <1>3 DEF MethodTodo, Has, Release
<1>4. ASSUME plain', NEW u \in rundir', u \notin st'.users
      PROVE  \E x \in Slots : /\ Has(tasks'[x].todo, Release(u))
                              /\ Has(tasks'[x].todo, Wake(u)) => ~tasks'[x].aborted
  <2>1. u \in rundir \ st.users /\ plain /\ u \in Uids
    BY <1>4, Zenon
  <2>2. PICK x \in Slots : /\ Has(tasks[x].todo, Release(u))
                           /\ Has(tasks[x].todo, Wake(u)) => ~tasks[x].aborted
    BY <2>1, Zenon DEF DirectoryIsKnown, Todo
  <2>3. x # t /\ tasks'[x].todo = tasks[x].todo
    BY <1>1, <1>3, <2>2, Zenon
  <2>4. CleanupTodo(tasks[x].todo, u)
    <3>1. PICK v \in Uids : CleanupTodo(tasks[x].todo, v)
      BY <1>3, <2>2, Zenon DEF TasksType, Todo
    <3>2. Release(u) \in {Wake(v), Release(v), Forget(v)}
      BY <2>2, <3>1, CleanupIs, Zenon
    <3>3. v = u
      BY <3>2, Zenon DEF Wake, Release, Forget
    <3> QED
      BY <3>1, <3>3, Zenon
  <2>5. tasks'[x].aborted => tasks[x].aborted
    BY <1>4, <2>1, <2>4, Zenon
  <2> QED
    BY <2>2, <2>3, <2>5, Zenon
<1>5. ASSUME plain', NEW u \in Uids, NEW x \in Slots, Has(tasks'[x].todo, Ensure(u))
      PROVE  u \in st'.users
  <2>1. CASE x = t
    BY <1>1, <1>5, <2>1, Zenon
  <2>2. CASE x # t
    <3>1. ~IsMethod(x) /\ Has(tasks[x].todo, Ensure(u))
      BY <1>1, <1>5, <2>2, ZenonT(30)
    <3>2. tasks[x].todo # <<>>
      BY <3>1 DEF Has
    <3>3. PICK v \in Uids : CleanupTodo(tasks[x].todo, v)
      BY <3>1, <3>2, HeadsAre, Zenon DEF TasksType, Todo
    <3>4. Ensure(u) \in {Wake(v), Release(v), Forget(v)}
      BY <3>1, <3>3, CleanupIs, Zenon
    <3> QED
      BY <3>4, Zenon DEF Ensure, Wake, Release, Forget
  <2> QED
    BY <2>1, <2>2, Zenon
<1>6. ASSUME NEW u \in st'.users
      PROVE  u \in rundir' \cup late' \/ \E x \in Slots : Has(tasks'[x].todo, Ensure(u))
  <2>1. CASE /\ u \in st.users /\ u \notin rundir \cup late
             /\ ~Has(tasks[t].todo, Ensure(u))
    <3>1. PICK x \in Slots : Has(tasks[x].todo, Ensure(u))
      BY <2>1, Zenon DEF DirectoryIsKnown, Todo
    <3> QED
      BY <1>1, <2>1, <3>1, Zenon
  <2> QED
    BY <1>1, <2>1, Zenon
<1>7. \A u \in st'.users : Decided(u)' => u \in late'
  BY <1>2, Zenon
<1> QED
  BY <1>4, <1>5, <1>6, <1>7, ZenonT(30) DEF DirectoryIsKnown, Todo, Has, Release, Wake, Ensure

-----------------------------------------------------------------------------
(* The steps of the methods. *)
LEMMA NextInv ==
  ASSUME Tables(st', reused', next_id'), TasksType', WorldType', plain' \in BOOLEAN,
         HandlesAreFresh', OneAfterTheOther', DirectoryIsKnown'
  PROVE  LoginInv'
<1>1. Tables(st, reused, next_id)'
  BY Zenon DEF Tables, SeatTable, UserTables, PidTable, LoginState, IsInjective, Range
<1> QED
  BY <1>1, Zenon DEF LoginInv

LEMMA UsersAre ==
  ASSUME NEW x, NEW r, NEW n, Tables(x, r, n)
  PROVE  x.users \subseteq Uids
BY FieldTypes, Zenon DEF Tables

LEMMA BeginsMove ==
  ASSUME TasksType, NEW t \in Slots, tasks[t] = Free, NEW q, MethodTodo(q),
         tasks' = [tasks EXCEPT ![t] = Task(q)]
  PROVE  /\ MethodMoves(t, q) /\ tasks[t].todo = <<>>
         /\ \A x \in Slots : tasks'[x].aborted => tasks[x].aborted
<1>1. tasks \in TasksAre /\ tasks[t].todo = <<>> /\ ~tasks[t].aborted
  BY DEF TasksType, TasksAre, Free
<1>2. Task(q) \in [todo : Seq(Effect), aborted : BOOLEAN] /\ Task(q).todo = q /\ Task(q).aborted = FALSE
  BY Zenon DEF Task, MethodTodo
<1>3. tasks' \in TasksAre /\ tasks'[t] = Task(q) /\ \A x \in Slots \ {t} : tasks'[x] = tasks[x]
  BY <1>1, <1>2, Zenon DEF TasksAre
<1>4. MethodMoves(t, q)
  BY <1>1, <1>2, <1>3, EmptyIsMethod, Zenon DEF MethodMoves
<1> QED
  BY <1>1, <1>2, <1>3, <1>4, ZenonT(30)

LEMMA CalledKeeps ==
  ASSUME LoginInv, NEW t \in Slots, tasks[t] = Free, NEW q, MethodTodo(q),
         tasks' = [tasks EXCEPT ![t] = Task(q)],
         Tables(st', reused, next_id), st'.users = st.users,
         UNCHANGED <<next_id, pending_user_cleanups, rundir, dev_owner, reused, late>>,
         plain' \in BOOLEAN, plain' => plain /\ NoMethodRuns,
         \A i \in DOMAIN q : q[i].op # "ensure",
         plain' => \A i \in DOMAIN q : q[i].op # "remove_session",
         plain' => EndsAt(q, dev_owner, Owner(st'))
  PROVE  LoginInv'
<1>1. /\ Tables(st, reused, next_id) /\ TasksType /\ WorldType
      /\ HandlesAreFresh /\ OneAfterTheOther /\ DirectoryIsKnown
  BY DEF LoginInv
<1>2. /\ MethodMoves(t, q) /\ tasks[t].todo = <<>>
      /\ \A x \in Slots : tasks'[x].aborted => tasks[x].aborted
  BY <1>1, BeginsMove, Zenon
<1>3. /\ next_id' = next_id /\ pending_user_cleanups' = pending_user_cleanups
      /\ rundir' = rundir /\ dev_owner' = dev_owner /\ reused' = reused /\ late' = late
  BY Zenon
<1>4. /\ st.users \subseteq Uids /\ st'.users \subseteq Uids
      /\ rundir \subseteq Uids /\ late \subseteq Uids
      /\ pending_user_cleanups \in [Uids -> Slots \cup {None}]
  BY <1>1, UsersAre, Zenon DEF WorldType
<1>5. TasksType'
  BY <1>1, <1>2, MovesKeepType, Zenon
<1>6. WorldType'
  BY <1>1, <1>3, Zenon DEF WorldType
<1>7. HandlesAreFresh'
  <2>1. \A u \in Uids : pending_user_cleanups'[u] # None =>
           /\ pending_user_cleanups'[u] = pending_user_cleanups[u]
           /\ u \notin st'.users
           /\ tasks'[pending_user_cleanups[u]].aborted => tasks[pending_user_cleanups[u]].aborted
    BY <1>1, <1>2, <1>3, <1>4, Zenon DEF HandlesAreFresh
  <2> QED
    BY <1>1, <1>2, <1>4, <2>1, MovesKeepHandles, ZenonT(30)
<1>8. plain' => plain /\ \A x \in Slots \ {t} : ~IsMethod(x)
  BY Zenon DEF NoMethodRuns
<1>9. OneAfterTheOther'
  BY <1>1, <1>2, <1>3, <1>8, MovesKeepOrder, Zenon
<1>10. DirectoryIsKnown'
  <2>1. \A u : ~Has(q, Ensure(u)) /\ ~Has(tasks[t].todo, Ensure(u))
    <3>1. \A u : Ensure(u).op = "ensure"
      BY Zenon DEF Ensure
    <3>2. DOMAIN tasks[t].todo = {}
      BY <1>2
    <3> QED
      BY <3>1, <3>2, Zenon DEF Has
  <2>2. \A u \in st'.users : Decided(u) => u \in late'
    BY <1>1, <1>3, Zenon DEF DirectoryIsKnown
  <2>3. rundir' \ st'.users \subseteq rundir \ st.users /\ rundir' \subseteq Uids
    BY <1>3, <1>4, Zenon
  <2>4. \A u \in st'.users : \/ u \in rundir' \cup late' \/ Has(q, Ensure(u))
                              \/ /\ u \in st.users /\ u \notin rundir \cup late
                                 /\ ~Has(tasks[t].todo, Ensure(u))
    BY <1>3, <2>1, Zenon
  <2>5. /\ plain' => rundir' \ st'.users \subseteq rundir \ st.users
        /\ \A x \in Slots, u \in Uids \ st'.users :
            CleanupTodo(tasks[x].todo, u) /\ tasks'[x].aborted => tasks[x].aborted
        /\ plain' => \A u \in Uids : Has(q, Ensure(u)) => u \in st'.users
    BY <1>2, <2>1, <2>3, Zenon
  <2> QED
    BY <1>1, <1>2, <1>4, <1>8, <2>2, <2>3, <2>4, <2>5, MovesKeepDirectories, Zenon
<1> QED
  BY <1>1, <1>3, <1>5, <1>6, <1>7, <1>9, <1>10, NextInv, Zenon

LEMMA FinalizesAre ==
  ASSUME NEW q \in Seq(Ids), NEW f, f = [i \in DOMAIN q |-> Finalize(q[i])]
  PROVE  MethodTodo(f) /\ \A i \in DOMAIN f : f[i].op = "finalize_session_removal"
<1>1. PICK n \in Nat : DOMAIN q = 1..n /\ \A i \in 1..n : q[i] \in Ids
  OBVIOUS
<1>2. \A s \in Ids : Finalize(s) \in Effect /\ Finalize(s).op = "finalize_session_removal"
  BY EffectIs, Zenon DEF Finalize
<1>3. /\ f \in [1..n -> Effect] /\ DOMAIN f = 1..n
      /\ \A i \in DOMAIN f : f[i].op = "finalize_session_removal"
  BY <1>1, <1>2, Zenon
<1>4. f \in Seq(Effect)
  BY <1>1, <1>3
<1> QED
  BY <1>3, <1>4, Zenon DEF MethodTodo

LEMMA RemovesAre ==
  ASSUME NEW q \in Seq(Ids), NEW f, f = [i \in DOMAIN q |-> Remove(q[i])]
  PROVE  MethodTodo(f) /\ \A i \in DOMAIN f : f[i].op = "remove_session"
<1>1. PICK n \in Nat : DOMAIN q = 1..n /\ \A i \in 1..n : q[i] \in Ids
  OBVIOUS
<1>2. \A s \in Ids : Remove(s) \in Effect /\ Remove(s).op = "remove_session"
  BY EffectIs, Zenon DEF Remove
<1>3. /\ f \in [1..n -> Effect] /\ DOMAIN f = 1..n
      /\ \A i \in DOMAIN f : f[i].op = "remove_session"
  BY <1>1, <1>2, Zenon
<1>4. f \in Seq(Effect)
  BY <1>1, <1>3
<1> QED
  BY <1>3, <1>4, Zenon DEF MethodTodo

(* Lists of one or two effects. *)
LEMMA PairIs ==
  ASSUME NEW S, NEW e \in S, NEW f \in S
  PROVE  <<e>> \o <<f>> = <<e, f>> /\ <<>> \o <<f>> = <<f>> /\ <<e>> \o <<>> = <<e>>
<1>1. \A a, b \in Seq(S) : Len(a) = Len(b) /\ (\A i \in 1..Len(a) : a[i] = b[i]) => a = b
  OBVIOUS
<1>2. <<>> \in Seq(S) /\ <<e>> \in Seq(S) /\ <<f>> \in Seq(S) /\ <<e, f>> \in Seq(S)
  OBVIOUS
<1>3. <<e>> \o <<f>> = <<e, f>>
  <2> DEFINE a == <<e>> \o <<f>>
             b == <<e, f>>
  <2>1. a \in Seq(S) /\ Len(a) = 2 /\ a[1] = e /\ a[2] = f
    BY <1>2
  <2>2. b \in Seq(S) /\ Len(b) = 2 /\ b[1] = e /\ b[2] = f
    BY <1>2, Zenon
  <2> HIDE DEF a, b
  <2>3. \A i \in 1..Len(a) : i = 1 \/ i = 2
    BY <2>1
  <2>4. a = b
    BY <1>1, <2>1, <2>2, <2>3, Zenon
  <2> QED
    BY <2>4, Zenon DEF a, b
<1>4. <<>> \o <<f>> = <<f>> /\ <<e>> \o <<>> = <<e>>
  <2>1. \A a \in Seq(S) : <<>> \o a = a /\ a \o <<>> = a
    OBVIOUS
  <2> QED
    BY <1>2, <2>1, Zenon
<1> QED
  BY <1>3, <1>4, Zenon

LEMMA OneEffect ==
  ASSUME NEW e \in Effect, e.op \in {"ensure", "chown", "finalize_session_removal"}
  PROVE  /\ MethodTodo(<<e>>) /\ DOMAIN <<e>> = {1} /\ <<e>>[1] = e
BY DEF MethodTodo

LEMMA TwoEffects ==
  ASSUME NEW e \in Effect, NEW f \in Effect, e.op \in {"chown", "ensure"}, f.op = "chown"
  PROVE  /\ MethodTodo(<<e, f>>) /\ DOMAIN <<e, f>> = {1, 2}
         /\ <<e, f>>[1] = e /\ <<e, f>>[2] = f
BY DEF MethodTodo

LEMMA EndsWith ==
  ASSUME NEW e \in Effect, NEW f \in Effect, f.op = "chown", NEW now
  PROVE  EndsAt(<<f>>, now, f.arg) /\ EndsAt(<<e, f>>, now, f.arg)
<1>1. DOMAIN <<f>> = {1} /\ <<f>>[1] = f /\ DOMAIN <<e, f>> = {1, 2} /\ <<e, f>>[2] = f
  OBVIOUS
<1>2. EndsAt(<<f>>, now, f.arg)
  BY <1>1 DEF EndsAt
<1>3. EndsAt(<<e, f>>, now, f.arg)
  BY <1>1 DEF EndsAt
<1> QED
  BY <1>2, <1>3, Zenon

LEMMA ReleaseKeeps ==
  ASSUME LoginInv, ReleaseSession
  PROVE  LoginInv'
<1>1. /\ st' = st /\ Concurrently
      /\ UNCHANGED <<next_id, pending_user_cleanups, rundir, dev_owner>>
  BY Zenon DEF ReleaseSession
<1>2. /\ Tables(st, reused, next_id) /\ OneAfterTheOther /\ plain \in BOOLEAN /\ st \in LoginState
      /\ \A s \in st.sessions : s \in Ids
  BY DEF LoginInv, Tables
<1>3. plain' \in BOOLEAN /\ (plain' => plain /\ NoMethodRuns)
  BY <1>1, <1>2, Zenon DEF Concurrently
<1>4. ASSUME NEW m, NEW q, Call(m, q), MethodTodo(q),
             \A i \in DOMAIN q : q[i].op = "finalize_session_removal"
      PROVE  LoginInv'
  <2>1. PICK t \in Slots : tasks[t] = Free /\ tasks' = [tasks EXCEPT ![t] = Task(q)]
    BY <1>4, Zenon DEF Call
  <2>2. UNCHANGED <<next_id, pending_user_cleanups, rundir, dev_owner, reused, late>>
    BY <1>1, <1>4, Zenon DEF Call
  <2>3. plain' => EndsAt(q, dev_owner, Owner(st))
    BY <1>2, <1>3, <1>4, EndsNow, Zenon DEF OneAfterTheOther
  <2>4. \A i \in DOMAIN q : q[i].op # "ensure" /\ q[i].op # "remove_session"
    BY <1>4, Zenon
  <2>5. Tables(st', reused, next_id) /\ st'.users = st.users /\ (plain' => EndsAt(q, dev_owner, Owner(st')))
    BY <1>1, <1>2, <2>3, Zenon
  <2> QED
    BY <1>3, <1>4, <2>1, <2>2, <2>4, <2>5, CalledKeeps, Zenon
<1>5. ASSUME NEW s \in st.sessions, Call("ReleaseSession", <<Finalize(s)>>)
      PROVE  LoginInv'
  <2>1. Finalize(s) \in Effect /\ Finalize(s).op = "finalize_session_removal"
    BY <1>2, EffectIs, Zenon DEF Finalize
  <2>2. /\ MethodTodo(<<Finalize(s)>>)
        /\ \A i \in DOMAIN <<Finalize(s)>> : <<Finalize(s)>>[i].op = "finalize_session_removal"
    BY <2>1, OneEffect, Zenon
  <2> QED
    BY <1>4, <1>5, <2>2, Zenon
<1>6. ASSUME NEW u \in st.users,
             Call("TerminateUser", [i \in DOMAIN st.user_sessions[u] |->
                                       Finalize(st.user_sessions[u][i])])
      PROVE  LoginInv'
  <2>1. st.user_sessions[u] \in Seq(Ids)
    BY <1>2, FieldTypes, Zenon
  <2> QED
    BY <1>4, <1>6, <2>1, FinalizesAre, Zenon
<1>7. ASSUME Call("TerminateSeat", [i \in DOMAIN st.seat |-> Finalize(st.seat[i])])
      PROVE  LoginInv'
  <2>1. st.seat \in Seq(Ids)
    BY <1>2, FieldTypes, Zenon
  <2> QED
    BY <1>4, <1>7, <2>1, FinalizesAre, Zenon
<1> QED
  BY <1>5, <1>6, <1>7, Zenon DEF ReleaseSession

LEMMA ActivateKeeps ==
  ASSUME LoginInv, ActivateSession
  PROVE  LoginInv'
<1>1. Concurrently /\ UNCHANGED <<next_id, pending_user_cleanups, rundir, dev_owner>>
  BY Zenon DEF ActivateSession
<1>2. /\ Tables(st, reused, next_id) /\ plain \in BOOLEAN
  BY DEF LoginInv
<1>3. plain' \in BOOLEAN /\ (plain' => plain /\ NoMethodRuns)
  BY <1>1, <1>2, Zenon DEF Concurrently
<1>4. PICK s \in st.sessions :
        /\ \/ Call("ActivateSession", <<Chown(Root)>> \o <<Chown(st.uid[s])>>)
           \/ Call("ActivateSession", <<>> \o <<Chown(st.uid[s])>>)
        /\ st' = activate_session(s)
  BY Zenon DEF ActivateSession
<1>5. /\ Tables(st', reused, next_id) /\ st'.users = st.users
      /\ Owner(st') = st.uid[s] /\ st.uid[s] \in Uids
  BY <1>2, <1>4, ActivateTables, Zenon
<1> DEFINE e == Chown(Root)
           f == Chown(st.uid[s])
<1>6. /\ e \in Effect /\ e.op = "chown" /\ f \in Effect /\ f.op = "chown" /\ f.arg = st.uid[s]
  BY <1>5, EffectIs, Zenon DEF Chown
<1>7. /\ <<e>> \o <<f>> = <<e, f>> /\ <<>> \o <<f>> = <<f>>
  BY <1>6, PairIs, Zenon
<1>8. PICK q \in {<<f>>, <<e, f>>} : Call("ActivateSession", q)
  BY <1>4, <1>7, Zenon
<1> HIDE DEF e, f
<1>9. MethodTodo(q) /\ \A i \in DOMAIN q : q[i].op = "chown"
  <2>1. CASE q = <<f>>
    BY <1>6, <2>1, OneEffect, Zenon
  <2>2. CASE q = <<e, f>>
    BY <1>6, <2>2, TwoEffects
  <2> QED
    BY <2>1, <2>2, Zenon
<1>10. EndsAt(q, dev_owner, Owner(st'))
  BY <1>5, <1>6, EndsWith, Zenon
<1>11. PICK t \in Slots : tasks[t] = Free /\ tasks' = [tasks EXCEPT ![t] = Task(q)]
  BY <1>8, Zenon DEF Call
<1>12. UNCHANGED <<next_id, pending_user_cleanups, rundir, dev_owner, reused, late>>
  BY <1>1, <1>8, Zenon DEF Call
<1>13. \A i \in DOMAIN q : q[i].op # "ensure" /\ q[i].op # "remove_session"
  BY <1>9, Zenon
<1> QED
  BY <1>3, <1>5, <1>9, <1>10, <1>11, <1>12, <1>13, CalledKeeps, Zenon

(* LoginState changes and no method of the Manager follows. *)
LEMMA ObjectKeeps ==
  ASSUME LoginInv, Tables(st', reused, next_id), st'.users \subseteq st.users, plain' = FALSE,
         UNCHANGED <<tasks, reused, late, next_id, pending_user_cleanups, rundir, dev_owner>>
  PROVE  LoginInv'
<1>1. /\ TasksType /\ WorldType /\ HandlesAreFresh /\ DirectoryIsKnown
  BY Zenon DEF LoginInv
<1>2. /\ tasks' = tasks /\ reused' = reused /\ late' = late /\ next_id' = next_id
      /\ pending_user_cleanups' = pending_user_cleanups /\ rundir' = rundir
      /\ dev_owner' = dev_owner
  OBVIOUS
<1>3. TasksType' /\ WorldType'
  BY <1>1, <1>2, Zenon DEF TasksType, WorldType, Todo
<1>4. HandlesAreFresh'
  BY <1>1, <1>2, Zenon DEF HandlesAreFresh, Todo
<1>5. OneAfterTheOther'
  BY Zenon DEF OneAfterTheOther
<1>6. DirectoryIsKnown'
  <2>1. \A u \in Uids : Decided(u)' <=> Decided(u)
    BY <1>2, Zenon DEF Decided, Doing, Arg
  <2>2. st'.users \subseteq Uids
    BY UsersAre, Zenon
  <2>3. \A u \in st'.users : u \in rundir' \cup late' \/ \E t \in Slots : Has(Todo(t), Ensure(u))'
    BY <1>1, <1>2, Zenon DEF DirectoryIsKnown, Todo
  <2>4. \A u \in st'.users : Decided(u)' => u \in late'
    BY <1>1, <1>2, <2>1, <2>2, Zenon DEF DirectoryIsKnown
  <2> QED
    BY <2>3, <2>4, Zenon DEF DirectoryIsKnown
<1> QED
  BY <1>2, <1>3, <1>4, <1>5, <1>6, NextInv, Zenon

LEMMA ObjectMethodsKeep ==
  ASSUME LoginInv, ObjectMethods
  PROVE  LoginInv'
<1>1. plain' = FALSE /\ UNCHANGED <<next_id, pending_user_cleanups, rundir, dev_owner>>
  BY Zenon DEF ObjectMethods
<1>2. /\ Tables(st, reused, next_id) /\ st \in LoginState
  BY DEF LoginInv, Tables
<1>3. ASSUME UNCHANGED <<tasks, reused, late>>,
             NEW s \in st.sessions, st' = activate_session(s) \/ st' = remove_session(st, s)
      PROVE  LoginInv'
  <2>1. Tables(st', reused, next_id) /\ st'.users \subseteq st.users
    <3>1. CASE st' = activate_session(s)
      BY <1>2, <3>1, ActivateTables, Zenon
    <3>2. CASE st' = remove_session(st, s)
      BY <1>2, <3>2, RemoveTables, Zenon
    <3> QED
      BY <1>3, <3>1, <3>2, Zenon
  <2>2. UNCHANGED <<tasks, reused, late, next_id, pending_user_cleanups, rundir, dev_owner>>
    BY <1>1, <1>3, Zenon
  <2> QED
    BY <1>1, <2>1, <2>2, ObjectKeeps, Zenon
<1>4. ASSUME st' = st, NEW m, NEW l \in Seq(Ids), Call(m, [i \in DOMAIN l |-> Remove(l[i])])
      PROVE  LoginInv'
  <2> DEFINE q == [i \in DOMAIN l |-> Remove(l[i])]
  <2>1. MethodTodo(q) /\ \A i \in DOMAIN q : q[i].op = "remove_session"
    BY RemovesAre, Zenon
  <2> HIDE DEF q
  <2>2. Call(m, q)
    BY <1>4, Zenon DEF q
  <2>3. PICK t \in Slots : tasks[t] = Free /\ tasks' = [tasks EXCEPT ![t] = Task(q)]
    BY <2>2, Zenon DEF Call
  <2>4. UNCHANGED <<next_id, pending_user_cleanups, rundir, dev_owner, reused, late>>
    BY <1>1, <2>2, Zenon DEF Call
  <2>5. \A i \in DOMAIN q : q[i].op # "ensure"
    BY <2>1, Zenon
  <2>6. Tables(st', reused, next_id) /\ st'.users = st.users /\ plain' \in BOOLEAN /\ ~plain'
    BY <1>1, <1>2, <1>4, Zenon
  <2> QED
    BY <2>1, <2>3, <2>4, <2>5, <2>6, CalledKeeps, Zenon
<1>5. st.seat \in Seq(Ids) /\ \A u \in st.users : st.user_sessions[u] \in Seq(Ids)
  BY <1>2, FieldTypes, Zenon
<1>6. \/ /\ UNCHANGED <<tasks, reused, late>>
         /\ \E s \in st.sessions : st' = activate_session(s) \/ st' = remove_session(st, s)
      \/ /\ st' = st
         /\ \/ Call("Seat.Terminate", [i \in DOMAIN st.seat |-> Remove(st.seat[i])])
            \/ \E u \in st.users :
                 Call("User.Terminate", [i \in DOMAIN st.user_sessions[u] |->
                                           Remove(st.user_sessions[u][i])])
  BY Zenon DEF ObjectMethods
<1> QED
  BY <1>3, <1>4, <1>5, <1>6, Zenon

LEMMA LoginBegins ==
  ASSUME LoginInv, NEW u \in Uids, NEW t \in Slots, tasks[t] = Free, NEW q, MethodTodo(q),
         tasks' = [x \in Slots |->
            CASE x = t -> Task(q)
              [] x # t /\ x = pending_user_cleanups[u] -> [tasks[x] EXCEPT !.aborted = TRUE]
              [] OTHER -> tasks[x]]
  PROVE  /\ MethodMoves(t, q) /\ tasks[t].todo = <<>>
         /\ \A x \in Slots : tasks'[x].aborted => tasks[x].aborted \/ x = pending_user_cleanups[u]
<1>1. tasks \in TasksAre /\ tasks[t].todo = <<>>
  BY DEF LoginInv, TasksType, TasksAre, Free
<1>2. Task(q) \in [todo : Seq(Effect), aborted : BOOLEAN] /\ Task(q).todo = q /\ Task(q).aborted = FALSE
  BY DEF Task, MethodTodo
<1>3. tasks'[t] = Task(q)
  BY Zenon
<1>4. ASSUME NEW x \in Slots, x # t
      PROVE  /\ tasks'[x] \in [todo : Seq(Effect), aborted : BOOLEAN]
             /\ tasks'[x].todo = tasks[x].todo
             /\ tasks'[x].aborted => tasks[x].aborted \/ x = pending_user_cleanups[u]
  <2>1. tasks[x] \in [todo : Seq(Effect), aborted : BOOLEAN]
    BY <1>1, Zenon DEF TasksAre
  <2>2. CASE x = pending_user_cleanups[u]
    <3>1. tasks'[x] = [tasks[x] EXCEPT !.aborted = TRUE]
      BY <1>4, <2>2, Zenon
    <3> QED
      BY <2>1, <2>2, <3>1, Zenon
  <2>3. CASE x # pending_user_cleanups[u]
    <3>1. tasks'[x] = tasks[x]
      BY <1>4, <2>3, Zenon
    <3> QED
      BY <2>1, <3>1, Zenon
  <2> QED
    BY <2>2, <2>3, Zenon
<1>5. tasks' \in TasksAre
  <2>1. \A x \in Slots : tasks'[x] \in [todo : Seq(Effect), aborted : BOOLEAN]
    BY <1>2, <1>3, <1>4, Zenon
  <2>2. tasks' = [x \in Slots |-> tasks'[x]]
    BY Zenon
  <2> HIDE DEF Task
  <2> QED
    BY <2>1, <2>2, Zenon DEF TasksAre
<1>6. MethodMoves(t, q)
  BY <1>1, <1>2, <1>3, <1>4, <1>5, EmptyIsMethod, Zenon DEF MethodMoves
<1> QED
  BY <1>1, <1>2, <1>3, <1>4, <1>6, Zenon

LEMMA CreateKeeps ==
  ASSUME LoginInv, CreateSession
  PROVE  LoginInv'
<1>1. /\ Tables(st, reused, next_id) /\ TasksType /\ WorldType /\ plain \in BOOLEAN
      /\ HandlesAreFresh /\ OneAfterTheOther /\ DirectoryIsKnown
  BY Zenon DEF LoginInv
<1>2. /\ next_id <= MaxSessions /\ Concurrently /\ next_id' = next_id + 1
      /\ rundir' = rundir /\ dev_owner' = dev_owner
  BY DEF CreateSession
<1>3. PICK u \in Uids, p \in Pids, t \in Slots :
       /\ tasks[t] = Free
       /\ reused' = IF \E s \in st.sessions : st.leader_pid[s] = p THEN reused \cup {p} ELSE reused
       /\ late' = CASE u \in st.users -> late
                    [] u \notin st.users /\ Decided(u) -> late \cup {u}
                    [] u \notin st.users /\ ~Decided(u) -> late \ {u}
       /\ st' = create_session(next_id, u, p)
       /\ tasks' = [x \in Slots |->
            CASE x = t -> Task(<<Ensure(u)>> \o
                               (IF next_id \in st'.active THEN <<Chown(u)>> ELSE <<>>))
              [] x # t /\ x = pending_user_cleanups[u] ->
                   [tasks[x] EXCEPT !.aborted = TRUE]
              [] OTHER -> tasks[x]]
       /\ pending_user_cleanups' = [pending_user_cleanups EXCEPT ![u] = None]
  BY Zenon DEF CreateSession
<1> DEFINE q == <<Ensure(u)>> \o (IF next_id \in st'.active THEN <<Chown(u)>> ELSE <<>>)
<1>4. /\ Tables(st', reused', next_id + 1) /\ st'.users = st.users \cup {u}
      /\ next_id \in st'.active => Owner(st') = u
      /\ next_id \notin st'.active => Owner(st') = Owner(st)
  <2>1. reused' = PidsReused(reused, p)
    BY <1>3, Zenon DEF PidsReused
  <2>2. st' = create_session(next_id, u, p)
    BY <1>3, Zenon
  <2> QED
    BY <1>1, <1>2, <2>1, <2>2, CreateTables, SMTT(30)
<1>5. /\ Ensure(u) \in Effect /\ Ensure(u).op = "ensure" /\ Ensure(u).arg = u
      /\ Chown(u) \in Effect /\ Chown(u).op = "chown" /\ Chown(u).arg = u
  BY EffectIs, Zenon DEF Ensure, Chown
<1>6. /\ next_id \in st'.active => q = <<Ensure(u), Chown(u)>>
      /\ next_id \notin st'.active => q = <<Ensure(u)>>
  BY <1>5, PairIs, Zenon
<1>7. tasks' = [x \in Slots |->
            CASE x = t -> Task(q)
              [] x # t /\ x = pending_user_cleanups[u] -> [tasks[x] EXCEPT !.aborted = TRUE]
              [] OTHER -> tasks[x]]
  BY <1>3, Zenon
<1> HIDE DEF q
<1>8. /\ MethodTodo(q) /\ Has(q, Ensure(u))
      /\ \A i \in DOMAIN q : q[i] \in {Ensure(u), Chown(u)}
  <2>1. CASE next_id \in st'.active
    <3>1. /\ MethodTodo(q) /\ DOMAIN q = {1, 2} /\ q[1] = Ensure(u) /\ q[2] = Chown(u)
      BY <1>5, <1>6, <2>1, TwoEffects, SMTT(30)
    <3> QED
      BY <3>1, Zenon DEF Has
  <2>2. CASE next_id \notin st'.active
    <3>1. /\ MethodTodo(q) /\ DOMAIN q = {1} /\ q[1] = Ensure(u)
      BY <1>5, <1>6, <2>2, OneEffect, Zenon
    <3> QED
      BY <3>1, Zenon DEF Has
  <2> QED
    BY <2>1, <2>2, Zenon
<1>9. /\ MethodMoves(t, q) /\ tasks[t].todo = <<>>
      /\ \A x \in Slots : tasks'[x].aborted => tasks[x].aborted \/ x = pending_user_cleanups[u]
  BY <1>3, <1>7, <1>8, LoginBegins, Zenon
<1>10. /\ Decided(u) => u \in late'
       /\ \A v \in Uids : v # u => (v \in late' <=> v \in late)
       /\ late' \subseteq Uids
       /\ u \in st.users => late' = late
  <2>1. late \subseteq Uids /\ (u \in st.users /\ Decided(u) => u \in late)
    BY <1>1, Zenon DEF WorldType, DirectoryIsKnown
  <2>2. CASE u \in st.users
    <3>1. late' = late
      BY <1>3, <2>2, Zenon
    <3> QED
      BY <2>1, <2>2, <3>1, Zenon
  <2>3. CASE u \notin st.users /\ Decided(u)
    <3>1. late' = late \cup {u}
      BY <1>3, <2>3, Zenon
    <3> QED
      BY <2>1, <2>3, <3>1, Zenon
  <2>4. CASE u \notin st.users /\ ~Decided(u)
    <3>1. late' = late \ {u}
      BY <1>3, <2>4, Zenon
    <3> QED
      BY <2>1, <2>4, <3>1, Zenon
  <2> QED
    BY <2>2, <2>3, <2>4, Zenon
<1>11. /\ pending_user_cleanups \in [Uids -> Slots \cup {None}]
       /\ pending_user_cleanups' = [pending_user_cleanups EXCEPT ![u] = None]
       /\ None \notin Slots
  BY <1>1, <1>3, LoginAssumption, Zenon DEF WorldType
<1>12. /\ pending_user_cleanups' \in [Uids -> Slots \cup {None}]
       /\ pending_user_cleanups'[u] = None
       /\ \A v \in Uids : v # u => pending_user_cleanups'[v] = pending_user_cleanups[v]
  BY <1>11, Zenon
<1>13. \A x \in Slots, v \in Uids : x = pending_user_cleanups[u] /\ CleanupTodo(tasks[x].todo, v) => v = u
  <2> SUFFICES ASSUME NEW x \in Slots, NEW v \in Uids, x = pending_user_cleanups[u],
                      CleanupTodo(tasks[x].todo, v)
               PROVE  v = u
    BY Zenon
  <2>1. CleanupTodo(tasks[x].todo, u)
    BY <1>1, <1>11, Zenon DEF HandlesAreFresh, Todo
  <2> QED
    BY <2>1, CleanupIs, Zenon
<1>14. TasksType'
  BY <1>1, <1>9, MovesKeepType, Zenon
<1>15. WorldType'
  <2>1. reused' \subseteq Pids
    BY <1>1, <1>3, Zenon DEF WorldType
  <2> QED
    BY <1>1, <1>2, <1>10, <1>12, <2>1, Zenon DEF WorldType
<1>16. HandlesAreFresh'
  <2>1. ASSUME NEW v \in Uids, pending_user_cleanups'[v] # None
        PROVE  /\ pending_user_cleanups'[v] = pending_user_cleanups[v]
               /\ v \notin st'.users
               /\ tasks'[pending_user_cleanups[v]].aborted => tasks[pending_user_cleanups[v]].aborted
    <3>1. v # u /\ pending_user_cleanups'[v] = pending_user_cleanups[v]
      BY <1>12, <2>1, Zenon
    <3>2. /\ v \notin st.users /\ CleanupTodo(tasks[pending_user_cleanups[v]].todo, v)
          /\ pending_user_cleanups[v] \in Slots
      BY <1>1, <1>11, <2>1, <3>1, Zenon DEF HandlesAreFresh, Todo
    <3>3. pending_user_cleanups[v] # pending_user_cleanups[u]
      BY <1>13, <3>1, <3>2, Zenon
    <3> QED
      BY <1>4, <1>9, <3>1, <3>2, <3>3, Zenon
  <2> QED
    BY <1>1, <1>9, <1>11, <2>1, MovesKeepHandles, Zenon
<1>17. plain' \in BOOLEAN /\ (plain' => plain /\ NoMethodRuns)
  BY <1>1, <1>2, Zenon DEF Concurrently
<1>18. plain' => plain /\ \A x \in Slots \ {t} : ~IsMethod(x)
  BY <1>17, Zenon DEF NoMethodRuns
<1>19. OneAfterTheOther'
  <2>1. \A i \in DOMAIN q : q[i].op # "remove_session"
    BY <1>5, <1>8, Zenon
  <2>2. plain' => EndsAt(q, dev_owner', Owner(st'))
    <3>1. CASE next_id \in st'.active
      BY <1>4, <1>5, <1>6, <3>1, EndsWith, Zenon
    <3>2. CASE next_id \notin st'.active
      <4>1. \A i \in DOMAIN q : q[i].op # "chown"
        BY <1>5, <1>6, <3>2, OneEffect, Zenon
      <4>2. plain' => dev_owner' = Owner(st')
        BY <1>1, <1>2, <1>4, <1>17, <3>2, Zenon DEF OneAfterTheOther
      <4> QED
        BY <4>1, <4>2, EndsNow, Zenon
    <3> QED
      BY <3>1, <3>2, Zenon
  <2> QED
    BY <1>1, <1>9, <1>18, <2>1, <2>2, MovesKeepOrder, Zenon
<1>20. DirectoryIsKnown'
  <2>1. /\ st.users \subseteq Uids /\ rundir \subseteq Uids /\ late \subseteq Uids
        /\ st'.users \subseteq Uids /\ rundir' \subseteq Uids
    BY <1>1, <1>2, <1>4, UsersAre, Zenon DEF WorldType
  <2>2. plain' => rundir' \ st'.users \subseteq rundir \ st.users
    BY <1>2, <1>4, Zenon
  <2>3. \A x \in Slots, v \in Uids \ st'.users :
            CleanupTodo(tasks[x].todo, v) /\ tasks'[x].aborted => tasks[x].aborted
    BY <1>4, <1>9, <1>13, Zenon
  <2>4. \A v \in Uids : Has(q, Ensure(v)) => v \in st'.users
    <3>1. \A v \in Uids : Ensure(v).op = "ensure" /\ Ensure(v).arg = v
      BY Zenon DEF Ensure
    <3> QED
      BY <1>4, <1>5, <1>8, <3>1, ZenonT(30) DEF Has
  <2>5. \A v \in st'.users : \/ v \in rundir' \cup late' \/ Has(q, Ensure(v))
                             \/ /\ v \in st.users /\ v \notin rundir \cup late
                                /\ ~Has(tasks[t].todo, Ensure(v))
    <3>1. \A v : ~Has(tasks[t].todo, Ensure(v))
      BY <1>9 DEF Has
    <3> QED
      BY <1>2, <1>4, <1>8, <1>10, <2>1, <3>1, Zenon
  <2>6. \A v \in st'.users : Decided(v) => v \in late'
    <3>1. \A v \in st.users : Decided(v) => v \in late
      BY <1>1, Zenon DEF DirectoryIsKnown
    <3> HIDE DEF Decided
    <3> QED
      BY <1>4, <1>10, <2>1, <3>1, Zenon
  <2> QED
    BY <1>1, <1>9, <1>18, <2>1, <2>2, <2>3, <2>4, <2>5, <2>6, MovesKeepDirectories, Zenon
<1>21. Tables(st', reused', next_id')
  BY <1>2, <1>4, Zenon
<1> QED
  BY <1>14, <1>15, <1>16, <1>17, <1>19, <1>20, <1>21, NextInv, Zenon

-----------------------------------------------------------------------------
(* The tasks go on. *)
LEMMA GoesOn ==
  ASSUME LoginInv, NEW t \in Slots, IsMethod(t), tasks' = Rest(t)
  PROVE  /\ MethodMoves(t, Tail(tasks[t].todo))
         /\ MethodTodo(tasks[t].todo) /\ tasks[t].todo # <<>> /\ tasks[t].todo \in Seq(Effect)
         /\ Head(tasks[t].todo) \in Effect
         /\ \A x \in Slots : tasks'[x].aborted => tasks[x].aborted
         /\ plain => \A x \in Slots \ {t} : ~IsMethod(x)
<1>1. TasksType /\ OneAfterTheOther /\ tasks \in TasksAre
  BY DEF LoginInv, TasksType, TasksAre
<1>2. MethodTodo(tasks[t].todo) /\ tasks[t].todo # <<>> /\ tasks[t].todo \in Seq(Effect)
  BY <1>1, HeadsAre, Zenon
<1>3. MethodTodo(Tail(tasks[t].todo)) /\ Head(tasks[t].todo) \in Effect
  BY <1>2, TailMethod, Zenon
<1>4. /\ tasks' \in TasksAre /\ tasks'[t].todo = Tail(tasks[t].todo)
      /\ tasks'[t].aborted => tasks[t].aborted
      /\ \A x \in Slots \ {t} : tasks'[x] = tasks[x]
  BY <1>1, <1>2, RestIs, Zenon DEF TasksAre
<1>5. MethodMoves(t, Tail(tasks[t].todo))
  BY <1>2, <1>3, <1>4, Zenon DEF MethodMoves
<1>6. \A x \in Slots : tasks'[x].aborted => tasks[x].aborted
  BY <1>4, Zenon
<1>7. plain => \A x \in Slots \ {t} : ~IsMethod(x)
  BY <1>1, Zenon DEF OneAfterTheOther
<1> QED
  BY <1>2, <1>3, <1>5, <1>6, <1>7, Zenon

(* A method is left with q, and only the outside world and LoginState change. *)
LEMMA MethodStepKeeps ==
  ASSUME LoginInv, NEW t \in Slots, IsMethod(t), NEW q, MethodMoves(t, q),
         \A x \in Slots : tasks'[x].aborted => tasks[x].aborted,
         Tables(st', reused, next_id), st'.users \subseteq st.users,
         UNCHANGED <<next_id, pending_user_cleanups, reused, late, plain>>,
         rundir \subseteq rundir', rundir' \subseteq Uids, dev_owner' \in Uids \cup {Root},
         plain => rundir' \ st'.users \subseteq rundir \ st.users,
         plain => \A i \in DOMAIN q : q[i].op # "remove_session",
         plain => EndsAt(q, dev_owner', Owner(st')),
         \A u \in Uids : ~Has(q, Ensure(u)),
         \A u \in Uids : Has(tasks[t].todo, Ensure(u)) => u \in rundir'
  PROVE  LoginInv'
<1>1. /\ Tables(st, reused, next_id) /\ TasksType /\ WorldType /\ plain \in BOOLEAN
      /\ HandlesAreFresh /\ OneAfterTheOther /\ DirectoryIsKnown
  BY Zenon DEF LoginInv
<1>2. /\ next_id' = next_id /\ pending_user_cleanups' = pending_user_cleanups
      /\ reused' = reused /\ late' = late /\ plain' = plain
  BY Zenon
<1>3. /\ st.users \subseteq Uids /\ st'.users \subseteq Uids
      /\ rundir \subseteq Uids /\ late \subseteq Uids
      /\ pending_user_cleanups \in [Uids -> Slots \cup {None}]
  BY <1>1, UsersAre, Zenon DEF WorldType
<1>4. TasksType'
  BY <1>1, MovesKeepType, Zenon
<1>5. WorldType'
  BY <1>1, <1>2, Zenon DEF WorldType
<1>6. HandlesAreFresh'
  <2>1. \A u \in Uids : pending_user_cleanups'[u] # None =>
           /\ pending_user_cleanups'[u] = pending_user_cleanups[u]
           /\ u \notin st'.users
           /\ tasks'[pending_user_cleanups[u]].aborted => tasks[pending_user_cleanups[u]].aborted
    BY <1>1, <1>2, <1>3, ZenonT(30) DEF HandlesAreFresh
  <2> QED
    BY <1>1, <1>3, <2>1, MovesKeepHandles, Zenon
<1>a. plain' => plain
  BY <1>2
<1>b. plain => \A x \in Slots \ {t} : ~IsMethod(x)
  BY <1>1, Zenon DEF OneAfterTheOther
<1>7. plain' => plain /\ \A x \in Slots \ {t} : ~IsMethod(x)
  BY <1>a, <1>b, Zenon
<1>8. OneAfterTheOther'
  BY <1>1, <1>7, MovesKeepOrder, Zenon
<1>9. DirectoryIsKnown'
  <2>1. \A u \in st'.users : Decided(u) => u \in late'
    BY <1>1, <1>2, Zenon DEF DirectoryIsKnown
  <2>2. \A u \in st'.users : \/ u \in rundir' \cup late' \/ Has(q, Ensure(u))
                              \/ /\ u \in st.users /\ u \notin rundir \cup late
                                 /\ ~Has(tasks[t].todo, Ensure(u))
    BY <1>2, <1>3, Zenon
  <2>3. /\ plain' => rundir' \ st'.users \subseteq rundir \ st.users
        /\ \A x \in Slots, u \in Uids \ st'.users :
            CleanupTodo(tasks[x].todo, u) /\ tasks'[x].aborted => tasks[x].aborted
        /\ plain' => \A u \in Uids : Has(q, Ensure(u)) => u \in st'.users
    BY <1>a, Zenon
  <2> QED
    BY <1>1, <1>3, <1>7, <2>1, <2>2, <2>3, MovesKeepDirectories, Zenon
<1> QED
  BY <1>1, <1>2, <1>4, <1>5, <1>6, <1>8, <1>9, NextInv, Zenon

(* The head of what a method has to do, and the rest. *)
LEMMA HeadAndRest ==
  ASSUME LoginInv, NEW t \in Slots, IsMethod(t), tasks' = Rest(t),
         NEW e, e = Head(tasks[t].todo), NEW q, q = Tail(tasks[t].todo)
  PROVE  /\ \A u \in Uids : ~Has(q, Ensure(u))
         /\ \A u \in Uids : Has(tasks[t].todo, Ensure(u)) => e = Ensure(u)
         /\ plain => \A i \in DOMAIN q : q[i].op # "remove_session"
         /\ plain => e.op # "remove_session"
         /\ plain => EndsAt(q, IF e.op = "chown" THEN e.arg ELSE dev_owner, Owner(st))
         /\ MethodMoves(t, q) /\ e \in Effect
         /\ \A x \in Slots : tasks'[x].aborted => tasks[x].aborted
<1> DEFINE d == tasks[t].todo
<1>1. /\ MethodMoves(t, q) /\ MethodTodo(d) /\ d # <<>> /\ d \in Seq(Effect) /\ e \in Effect
      /\ \A x \in Slots : tasks'[x].aborted => tasks[x].aborted
  BY GoesOn, Zenon
<1>2. \A i \in DOMAIN q : q[i].op # "ensure"
  BY <1>1, TailMethod, Zenon
<1>3. \A u \in Uids : ~Has(q, Ensure(u))
  BY <1>2 DEF Has, Ensure
<1>4. \A u \in Uids : Has(d, Ensure(u)) => e = Ensure(u)
  BY <1>1, <1>3, HasTail, Zenon
<1>5. plain => \A i \in DOMAIN d : d[i].op # "remove_session"
  BY Zenon DEF LoginInv, OneAfterTheOther, Todo
<1>6. e = d[1] /\ 1 \in DOMAIN d /\ \A i \in DOMAIN q : i + 1 \in DOMAIN d /\ q[i] = d[i + 1]
  BY <1>1, Split, Zenon
<1>7. plain => e.op # "remove_session" /\ \A i \in DOMAIN q : q[i].op # "remove_session"
  BY <1>5, <1>6, Zenon
<1>8. plain => EndsAt(d, dev_owner, Owner(st))
  BY Zenon DEF LoginInv, OneAfterTheOther, Todo
<1>9. plain => EndsAt(q, IF e.op = "chown" THEN e.arg ELSE dev_owner, Owner(st))
  BY <1>1, <1>8, EndsTail, Zenon
<1> QED
  BY <1>1, <1>3, <1>4, <1>7, <1>9, Zenon

LEMMA DoingIs ==
  ASSUME NEW t \in Slots, NEW op \in {"ensure", "chown", "finalize_session_removal",
                                      "remove_session"}, Doing(t, op)
  PROVE  IsMethod(t) /\ Head(tasks[t].todo).op = op
BY DEF Doing, IsMethod

LEMMA ensureKeeps ==
  ASSUME LoginInv, NEW t \in Slots, ensure(t)
  PROVE  LoginInv'
<1> DEFINE e == Head(tasks[t].todo)
           q == Tail(tasks[t].todo)
<1>1. /\ IsMethod(t) /\ e.op = "ensure" /\ tasks' = Rest(t) /\ rundir' = rundir \cup {e.arg}
      /\ UNCHANGED <<st, next_id, pending_user_cleanups, dev_owner, plain, reused, late>>
  <2>1. Doing(t, "ensure")
    BY DEF ensure
  <2> QED
    BY <2>1, DoingIs, Zenon DEF ensure, Arg, history
<1>2. /\ \A u \in Uids : ~Has(q, Ensure(u))
      /\ \A u \in Uids : Has(tasks[t].todo, Ensure(u)) => e = Ensure(u)
      /\ plain => \A i \in DOMAIN q : q[i].op # "remove_session"
      /\ plain => EndsAt(q, IF e.op = "chown" THEN e.arg ELSE dev_owner, Owner(st))
      /\ MethodMoves(t, q) /\ e \in Effect
      /\ \A x \in Slots : tasks'[x].aborted => tasks[x].aborted
  BY <1>1, HeadAndRest, Zenon
<1>3. /\ Tables(st, reused, next_id) /\ WorldType /\ DirectoryIsKnown /\ TasksType
  BY DEF LoginInv
<1>4. e.arg \in Uids /\ e = Ensure(e.arg) /\ \A u : Ensure(u).arg = u
  BY <1>1, <1>2, OpArg, Zenon DEF Ensure
<1>5. Has(tasks[t].todo, e)
  <2>1. tasks[t].todo \in Seq(Effect) /\ tasks[t].todo # <<>>
    BY <1>1, <1>3, HeadsAre, Zenon
  <2> QED
    BY <2>1, HasTail, Zenon
<1> HIDE DEF q, e
<1>6. plain => e.arg \in st.users
  BY <1>3, <1>4, <1>5, ZenonT(30) DEF DirectoryIsKnown, Todo
<1>7. /\ Tables(st', reused, next_id) /\ st'.users \subseteq st.users
      /\ UNCHANGED <<next_id, pending_user_cleanups, reused, late, plain>>
      /\ rundir \subseteq rundir' /\ rundir' \subseteq Uids /\ dev_owner' \in Uids \cup {Root}
      /\ plain => rundir' \ st'.users \subseteq rundir \ st.users
  BY <1>1, <1>3, <1>4, <1>6, Zenon DEF WorldType
<1>8. plain => EndsAt(q, dev_owner', Owner(st'))
  BY <1>1, <1>2, Zenon
<1>9. \A u \in Uids : Has(tasks[t].todo, Ensure(u)) => u \in rundir'
  BY <1>1, <1>2, <1>4, Zenon
<1> QED
  BY <1>1, <1>2, <1>7, <1>8, <1>9, MethodStepKeeps, Zenon

LEMMA chownKeeps ==
  ASSUME LoginInv, NEW t \in Slots, chown_session_devices(t)
  PROVE  LoginInv'
<1> DEFINE e == Head(tasks[t].todo)
           q == Tail(tasks[t].todo)
<1>1. /\ IsMethod(t) /\ e.op = "chown" /\ tasks' = Rest(t) /\ dev_owner' = e.arg
      /\ UNCHANGED <<st, next_id, pending_user_cleanups, rundir, plain, reused, late>>
  <2>1. Doing(t, "chown")
    BY DEF chown_session_devices
  <2> QED
    BY <2>1, DoingIs, Zenon DEF chown_session_devices, Arg, history
<1>2. /\ \A u \in Uids : ~Has(q, Ensure(u))
      /\ \A u \in Uids : Has(tasks[t].todo, Ensure(u)) => e = Ensure(u)
      /\ plain => \A i \in DOMAIN q : q[i].op # "remove_session"
      /\ plain => EndsAt(q, IF e.op = "chown" THEN e.arg ELSE dev_owner, Owner(st))
      /\ MethodMoves(t, q) /\ e \in Effect
      /\ \A x \in Slots : tasks'[x].aborted => tasks[x].aborted
  BY <1>1, HeadAndRest, Zenon
<1>3. /\ Tables(st, reused, next_id) /\ WorldType
  BY Zenon DEF LoginInv
<1>4. e.arg \in Uids \cup {Root} /\ \A u : Ensure(u) # e
  <2>1. \A u : Ensure(u).op = "ensure"
    BY Zenon DEF Ensure
  <2> QED
    BY <1>1, <1>2, <2>1, OpArg, Zenon
<1> HIDE DEF q, e
<1>5. /\ Tables(st', reused, next_id) /\ st'.users \subseteq st.users
      /\ UNCHANGED <<next_id, pending_user_cleanups, reused, late, plain>>
      /\ rundir \subseteq rundir' /\ rundir' \subseteq Uids /\ dev_owner' \in Uids \cup {Root}
      /\ plain => rundir' \ st'.users \subseteq rundir \ st.users
  BY <1>1, <1>3, <1>4, Zenon DEF WorldType
<1>6. plain => EndsAt(q, dev_owner', Owner(st'))
  BY <1>1, <1>2, Zenon
<1>7. \A u \in Uids : Has(tasks[t].todo, Ensure(u)) => u \in rundir'
  BY <1>2, <1>4, Zenon
<1> QED
  BY <1>1, <1>2, <1>5, <1>6, <1>7, MethodStepKeeps, Zenon

LEMMA terminateKeeps ==
  ASSUME LoginInv, NEW t \in Slots, terminate(t)
  PROVE  LoginInv'
<1> DEFINE e == Head(tasks[t].todo)
           q == Tail(tasks[t].todo)
<1>1. /\ IsMethod(t) /\ e.op = "remove_session" /\ tasks' = Rest(t)
      /\ st' = remove_session(st, e.arg)
      /\ UNCHANGED <<next_id, pending_user_cleanups, rundir, dev_owner, plain, reused, late>>
  <2>1. Doing(t, "remove_session")
    BY DEF terminate
  <2> QED
    BY <2>1, DoingIs, Zenon DEF terminate, Arg, history
<1>2. /\ \A u \in Uids : ~Has(q, Ensure(u))
      /\ \A u \in Uids : Has(tasks[t].todo, Ensure(u)) => e = Ensure(u)
      /\ plain => e.op # "remove_session"
      /\ MethodMoves(t, q) /\ e \in Effect
      /\ \A x \in Slots : tasks'[x].aborted => tasks[x].aborted
  BY <1>1, HeadAndRest, Zenon
<1>3. /\ Tables(st, reused, next_id) /\ WorldType
  BY Zenon DEF LoginInv
<1>4. \A u : Ensure(u) # e
  BY <1>1, SMTT(30) DEF Ensure
<1> HIDE DEF q, e
<1>5. /\ Tables(st', reused, next_id) /\ st'.users \subseteq st.users
  <2>1. CASE e.arg \in st.sessions
    <3>1. st' = remove_session(st, e.arg)
      BY <1>1, Zenon
    <3>2. Tables(st, reused, next_id)
      BY <1>3, Zenon
    <3>3. Shrinks(st, st', e.arg, reused, next_id)
      BY <2>1, <3>1, <3>2, RemoveShrinks, Zenon
    <3> QED
      BY <3>3, Zenon DEF Shrinks
  <2>2. CASE e.arg \notin st.sessions
    BY <1>1, <1>3, <2>2, Zenon DEF remove_session
  <2> QED
    BY <2>1, <2>2, Zenon
<1>6. /\ UNCHANGED <<next_id, pending_user_cleanups, reused, late, plain>>
      /\ rundir \subseteq rundir' /\ rundir' \subseteq Uids /\ dev_owner' \in Uids \cup {Root}
      /\ ~plain
  BY <1>1, <1>2, <1>3, Zenon DEF WorldType
<1>7. \A u \in Uids : Has(tasks[t].todo, Ensure(u)) => u \in rundir'
  BY <1>2, <1>4, Zenon
<1> QED
  BY <1>1, <1>2, <1>5, <1>6, <1>7, MethodStepKeeps, ZenonT(30)

(* q is c, of length m, and then r, of length n. *)
Joined(q, c, m, r, n) ==
  /\ m \in Nat /\ n \in Nat /\ DOMAIN c = 1..m /\ DOMAIN r = 1..n /\ DOMAIN q = 1..(m + n)
  /\ \A i \in 1..m : q[i] = c[i]
  /\ \A i \in 1..(m + n) : i > m => q[i] = r[i - m] /\ i - m \in 1..n

LEMMA ConcatIs ==
  ASSUME NEW S, NEW c \in Seq(S), NEW r \in Seq(S), NEW q, q = c \o r
  PROVE  q \in Seq(S) /\ \E m, n \in Nat : Joined(q, c, m, r, n)
<1>0. PICK m \in Nat, n \in Nat : m = Len(c) /\ n = Len(r) /\ DOMAIN c = 1..m /\ DOMAIN r = 1..n
  OBVIOUS
<1> USE <1>0
<1>1. q \in Seq(S) /\ Len(q) = m + n
  OBVIOUS
<1>2. \A i \in 1..m : q[i] = c[i]
  OBVIOUS
<1>3. \A i \in 1..(m + n) : i > m => i - m \in 1..n
  OBVIOUS
<1>4. \A i \in 1..(m + n) : i > m => q[i] = r[i - m]
  OBVIOUS
<1>5. DOMAIN q = 1..(m + n)
  BY <1>1
<1>6. Joined(q, c, m, r, n)
  BY ONLY <1>0, <1>2, <1>3, <1>4, <1>5, m \in Nat, n \in Nat, Zenon DEF Joined
<1> QED
  BY <1>1, <1>6, Zenon

OpsIn(q, S) == \A i \in DOMAIN q : q[i].op \in S

LEMMA ChownsFirst ==
  ASSUME NEW c \in Seq(Effect), OpsIn(c, {"chown"}),
         NEW r \in Seq(Effect), OpsIn(r, {"finalize_session_removal"}),
         NEW q, q = c \o r, NEW now, NEW o
  PROVE  /\ MethodTodo(q) /\ OpsIn(q, {"chown", "finalize_session_removal"})
         /\ EndsAt(c, now, o) => EndsAt(q, now, o)
<1>0. /\ \A i \in DOMAIN c : c[i].op = "chown"
      /\ \A i \in DOMAIN r : r[i].op = "finalize_session_removal"
  BY Zenon DEF OpsIn
<1> USE <1>0
<1>1. q \in Seq(Effect) /\ \E m, n \in Nat : Joined(q, c, m, r, n)
  BY ConcatIs, Zenon
<1>2. PICK m \in Nat, n \in Nat :
        /\ DOMAIN c = 1..m /\ DOMAIN r = 1..n /\ DOMAIN q = 1..(m + n)
        /\ \A i \in 1..m : q[i] = c[i]
        /\ \A i \in 1..(m + n) : i > m => q[i] = r[i - m] /\ i - m \in 1..n
  BY <1>1, Zenon DEF Joined
<1>3. /\ \A i \in 1..m : q[i].op = "chown"
      /\ \A i \in 1..(m + n) : i > m => q[i].op = "finalize_session_removal"
      /\ \A i \in 1..(m + n) : i \in 1..m \/ i > m
  <2>1. \A i \in 1..m : q[i].op = "chown"
    BY <1>2, Zenon
  <2>2. ASSUME NEW i \in 1..(m + n), i > m PROVE q[i].op = "finalize_session_removal"
    <3>1. PICK j \in 1..n : q[i] = r[j]
      BY <1>2, <2>2, Zenon
    <3> QED
      BY <1>2, <3>1, Zenon
  <2>3. \A i \in 1..(m + n) : i \in 1..m \/ i > m
    OBVIOUS
  <2> QED
    BY <2>1, <2>2, <2>3, Zenon
<1>4. \A i \in DOMAIN q : q[i].op \in {"chown", "finalize_session_removal"}
  BY <1>2, <1>3, Zenon
<1>5. ASSUME NEW i \in DOMAIN q, q[i].op = "finalize_session_removal", NEW j \in DOMAIN q, j > i
      PROVE  q[j].op = "finalize_session_removal"
  <2>1. i > m
    BY <1>2, <1>3, <1>5, ZenonT(30)
  <2>2. j > m
    BY <1>2, <1>5, <2>1, SMTT(30)
  <2> QED
    BY <1>2, <1>3, <2>2, Zenon
<1>6. MethodTodo(q)
  BY <1>1, <1>4, <1>5, Zenon DEF MethodTodo
<1>7. ASSUME now = o, \A i \in DOMAIN c : c[i].op # "chown" PROVE EndsAt(q, now, o)
  <2>1. m = 0
    <3>1. m # 0 => 1 \in 1..m
      OBVIOUS
    <3> QED
      BY <1>2, <1>7, <3>1, Zenon
  <2>2. \A i \in DOMAIN q : q[i].op # "chown"
    BY <1>2, <1>3, <2>1
  <2> QED
    BY <1>7, <2>2, Zenon DEF EndsAt
<1>8. ASSUME NEW i \in DOMAIN c, c[i].op = "chown", c[i].arg = o,
             \A j \in DOMAIN c : j > i => c[j].op # "chown"
      PROVE  EndsAt(q, now, o)
  <2>1. i \in DOMAIN q /\ q[i] = c[i]
    BY <1>2
  <2>2. \A j \in DOMAIN q : j > i => q[j].op # "chown"
    BY <1>2, <1>3, <1>8, Zenon
  <2> QED
    BY <1>8, <2>1, <2>2, ZenonT(30) DEF EndsAt
<1> QED
  BY <1>4, <1>6, <1>7, <1>8, Zenon DEF EndsAt, OpsIn

(* The chowns of finalize_session_removal. *)
Chowns(x, y, s) ==
  IF s \notin y.active \/ y.uid[s] = uid_of_active(x) THEN <<>> ELSE Handover(uid_of_active(x))

LEMMA ChownsAre ==
  ASSUME NEW n, NEW r, NEW y, Tables(y, r, n), NEW s \in y.sessions,
         NEW x, x = remove_session(y, s), NEW c, c = Chowns(x, y, s), NEW now
  PROVE  /\ c \in Seq(Effect) /\ \A i \in DOMAIN c : c[i].op = "chown"
         /\ now = Owner(y) => EndsAt(c, now, Owner(x))
<1>1. /\ y.uid[s] \in Uids
      /\ s \notin y.active => Owner(x) = Owner(y)
      /\ s \in y.active => Owner(y) = y.uid[s]
      /\ uid_of_active(x) = (IF x.active_session = None THEN None ELSE Owner(x))
      /\ uid_of_active(x) \in Uids \cup {None}
      /\ Tables(x, r, n)
  BY RemoveTables
<1>2. None \notin Uids
  BY LoginAssumption, Zenon
<1> DEFINE new1 == uid_of_active(x)
           e == Chown(Root)
           f == Chown(new1)
<1>3. /\ e \in Effect /\ e.op = "chown" /\ e.arg = Root
      /\ new1 # None => f \in Effect /\ f.op = "chown" /\ f.arg = new1
  BY <1>1, EffectIs, Zenon DEF Chown
<1>4. CASE s \notin y.active \/ y.uid[s] = new1
  <2>1. c = <<>>
    BY <1>4, Zenon DEF Chowns
  <2>2. c \in Seq(Effect) /\ DOMAIN c = {}
    BY <2>1, SMTT(30)
  <2>3. Owner(x) = Owner(y)
    BY <1>1, <1>2, <1>4, Zenon
  <2> QED
    BY <2>2, <2>3, Zenon DEF EndsAt
<1>5. CASE s \in y.active /\ y.uid[s] # new1
  <2>1. c = Handover(new1)
    BY <1>5, Zenon DEF Chowns
  <2>2. CASE new1 = None
    <3>1. c = <<e>> /\ Owner(x) = Root
      <4>1. c = <<e>> \o <<>>
        BY <2>1, <2>2, Zenon DEF Handover
      <4>2. <<e>> \o <<>> = <<e>>
        BY <1>3, PairIs, Zenon
      <4>3. Owner(x) = Root
        <5>1. x.active_session # None => x.active_session \in x.sessions
          BY <1>1, Zenon DEF Tables, SeatTable
        <5>2. x.active_session # None => x.uid[x.active_session] \in Uids
          BY <1>1, <5>1, Zenon DEF Tables, UserTables
        <5>3. x.active_session = None
          BY <1>2, <2>2, <5>2, Zenon DEF uid_of_active
        <5> QED
          BY <5>3, Zenon DEF Owner
      <4> QED
        BY <4>1, <4>2, <4>3, Zenon
    <3> HIDE DEF e, new1
    <3>2. EndsAt(<<e>>, now, Root) /\ <<e>> \in Seq(Effect) /\ DOMAIN <<e>> = {1} /\ <<e>>[1] = e
      <4>1. EndsAt(<<e>>, now, e.arg)
        BY <1>3, EndsWith, Zenon
      <4> QED
        BY <1>3, <4>1
    <3> QED
      BY <1>3, <3>1, <3>2, Zenon
  <2>3. CASE new1 # None
    <3>1. c = <<e, f>> /\ Owner(x) = new1
      <4>1. c = <<e>> \o <<f>>
        BY <2>1, <2>3, Zenon DEF Handover
      <4>2. <<e>> \o <<f>> = <<e, f>>
        BY <1>3, <2>3, PairIs, Zenon
      <4>3. Owner(x) = new1
        BY <1>1, <2>3, Zenon
      <4> QED
        BY <4>1, <4>2, <4>3, Zenon
    <3> HIDE DEF e, f, new1
    <3>2. /\ EndsAt(<<e, f>>, now, new1) /\ <<e, f>> \in Seq(Effect)
          /\ DOMAIN <<e, f>> = {1, 2} /\ <<e, f>>[1] = e /\ <<e, f>>[2] = f
      <4>1. EndsAt(<<e, f>>, now, f.arg)
        BY <1>3, <2>3, EndsWith, ZenonT(30)
      <4> QED
        BY <1>3, <2>3, <4>1
    <3> QED
      BY <1>3, <2>3, <3>1, <3>2, Zenon
  <2> QED
    BY <2>2, <2>3, Zenon
<1> QED
  BY <1>4, <1>5, Zenon

(* The changes of owner in c give the devices from their owner to the next. *)
HandsOver(c, now, from, to) ==
  /\ c \in Seq(Effect) /\ \A i \in DOMAIN c : c[i].op = "chown"
  /\ now = from => EndsAt(c, now, to)

LEMMA ChownsHandOver ==
  ASSUME NEW n, NEW r, NEW y, Tables(y, r, n), NEW s \in y.sessions,
         NEW x, x = remove_session(y, s), NEW c, c = Chowns(x, y, s), NEW now
  PROVE  HandsOver(c, now, Owner(y), Owner(x))
BY ChownsAre DEF HandsOver

RestAfter(t, c) == [Rest(t) EXCEPT ![t].todo = c \o @]

(* r differs from tasks in that q is left to the task in slot t. *)
LeavesTo(t, q, r) ==
  /\ r \in TasksAre /\ r[t].todo = q
  /\ r[t].aborted => tasks[t].aborted
  /\ \A x \in Slots \ {t} : r[x] = tasks[x]

LEMMA RestWith ==
  ASSUME TasksType, NEW t \in Slots, tasks[t].todo # <<>>, NEW c \in Seq(Effect)
  PROVE  LeavesTo(t, c \o Tail(tasks[t].todo), RestAfter(t, c))
<1> DEFINE r == RestAfter(t, c)
<1>1. /\ Rest(t) \in [Slots -> [todo : Seq(Effect), aborted : BOOLEAN]]
      /\ Rest(t)[t].todo = Tail(tasks[t].todo)
      /\ Rest(t)[t].aborted => tasks[t].aborted
      /\ \A x \in Slots \ {t} : Rest(t)[x] = tasks[x]
  BY RestIs, Zenon DEF TasksType
<1> DEFINE k == Rest(t)
           q == c \o Tail(tasks[t].todo)
<1>2. q \in Seq(Effect)
  <2>1. Tail(tasks[t].todo) \in Seq(Effect)
    BY TailIs, Zenon DEF TasksType
  <2> QED
    BY <2>1
<1> HIDE DEF k, q
<1>3. r = [k EXCEPT ![t].todo = q]
  BY <1>1, Zenon DEF k, q, RestAfter
<1>4. /\ k \in [Slots -> [todo : Seq(Effect), aborted : BOOLEAN]]
      /\ k[t].aborted => tasks[t].aborted
      /\ \A x \in Slots \ {t} : k[x] = tasks[x]
  BY <1>1, Zenon DEF k
<1>5. r \in [Slots -> [todo : Seq(Effect), aborted : BOOLEAN]] /\ r[t].todo = q
      /\ r[t].aborted = k[t].aborted /\ \A x \in Slots \ {t} : r[x] = k[x]
  BY <1>2, <1>3, <1>4, Zenon
<1> QED
  BY <1>4, <1>5, Zenon DEF TasksAre, q, LeavesTo

(* The last session of u is removed: the cleanup of u is scheduled in slot c. *)
Schedules(t, q, c, u, r) ==
  /\ IsMethod(t) /\ MethodTodo(q) /\ tasks[c] = Free
  /\ r \in TasksAre /\ r[t].todo = q /\ \A x \in Slots \ {t} : r[x] = tasks[x]
  /\ tasks' = [r EXCEPT ![c] = Task(<<Wake(u), Release(u), Forget(u)>>)]
  /\ pending_user_cleanups' = [pending_user_cleanups EXCEPT ![u] = c]
  /\ Tables(st', reused, next_id) /\ u \notin st'.users /\ st'.users \subseteq st.users
  /\ st.users \ {u} \subseteq st'.users
  /\ UNCHANGED <<next_id, reused, late, plain, rundir, dev_owner>>
  /\ plain => \A i \in DOMAIN q : q[i].op # "remove_session"
  /\ plain => EndsAt(q, dev_owner, Owner(st'))
  /\ \A v \in Uids : ~Has(q, Ensure(v)) /\ ~Has(tasks[t].todo, Ensure(v))

LEMMA CleanupBegins ==
  ASSUME LoginInv, NEW t \in Slots, NEW q, NEW c \in Slots, NEW u \in Uids, NEW r,
         Schedules(t, q, c, u, r)
  PROVE  LoginInv'
<1>a. IsMethod(t) /\ MethodTodo(q) /\ tasks[c] = Free
  BY Zenon DEF Schedules
<1>b. r \in TasksAre /\ r[t].todo = q /\ \A x \in Slots \ {t} : r[x] = tasks[x]
  BY Zenon DEF Schedules
<1>c. /\ tasks' = [r EXCEPT ![c] = Task(<<Wake(u), Release(u), Forget(u)>>)]
      /\ pending_user_cleanups' = [pending_user_cleanups EXCEPT ![u] = c]
  BY Zenon DEF Schedules
<1>d. /\ Tables(st', reused, next_id) /\ u \notin st'.users /\ st'.users \subseteq st.users
      /\ st.users \ {u} \subseteq st'.users
  BY Zenon DEF Schedules
<1>e. /\ plain => \A i \in DOMAIN q : q[i].op # "remove_session"
      /\ plain => EndsAt(q, dev_owner, Owner(st'))
  BY Zenon DEF Schedules
<1>f. \A v \in Uids : ~Has(q, Ensure(v)) /\ ~Has(tasks[t].todo, Ensure(v))
  BY Zenon DEF Schedules
<1>1. /\ Tables(st, reused, next_id) /\ TasksType /\ WorldType /\ plain \in BOOLEAN
      /\ HandlesAreFresh /\ OneAfterTheOther /\ DirectoryIsKnown
  BY Zenon DEF LoginInv
<1>2. /\ next_id' = next_id /\ reused' = reused /\ late' = late /\ plain' = plain
      /\ rundir' = rundir /\ dev_owner' = dev_owner
  BY Zenon DEF Schedules
<1>3. plain' => plain
  BY <1>2, Zenon
<1> DEFINE w == <<Wake(u), Release(u), Forget(u)>>
<1>4. /\ CleanupTodo(w, u) /\ w \in Seq(Effect) /\ w # <<>> /\ ~MethodHead(w) /\ ~MethodTodo(w)
      /\ Has(w, Release(u)) /\ Head(w) = Wake(u) /\ Wake(u).op = "wake"
      /\ \A i \in DOMAIN w : w[i] \in {Wake(u), Release(u), Forget(u)}
  <2>1. CleanupTodo(w, u)
    BY DEF CleanupTodo
  <2>2. w \in Seq(Effect) /\ w # <<>> /\ ~MethodHead(w) /\ ~MethodTodo(w)
    BY <2>1, CleanupIs, Zenon
  <2>3. Head(w) = Wake(u) /\ DOMAIN w = {1, 2, 3} /\ w[2] = Release(u) /\ w[1] = Wake(u) /\ w[3] = Forget(u)
    OBVIOUS
  <2> HIDE DEF w
  <2>4. Has(w, Release(u))
    BY <2>3, Zenon DEF Has
  <2> QED
    BY <2>1, <2>2, <2>3, <2>4, Zenon DEF Wake
<1> HIDE DEF w
<1>5. Task(w) \in [todo : Seq(Effect), aborted : BOOLEAN] /\ Task(w).todo = w /\ Task(w).aborted = FALSE
  BY <1>4, Zenon DEF Task
<1>6. tasks' = [r EXCEPT ![c] = Task(w)]
  BY <1>c, Zenon DEF w
<1>7. tasks[c].todo = <<>> /\ tasks[t].todo # <<>> /\ MethodTodo(tasks[t].todo) /\ c # t
  <2>1. tasks[c].todo = <<>>
    BY <1>a DEF Free
  <2>2. tasks[t].todo # <<>> /\ MethodTodo(tasks[t].todo)
    BY <1>1, <1>a, HeadsAre, Zenon
  <2> QED
    BY <2>1, <2>2, Zenon
<1>8. /\ tasks' \in TasksAre /\ tasks'[t].todo = q
      /\ tasks'[c].todo = w /\ ~tasks'[c].aborted
      /\ \A x \in Slots \ {t, c} : tasks'[x] = tasks[x]
  BY <1>5, <1>6, <1>7, <1>b, Zenon DEF TasksAre
<1>9. TasksType'
  <2>1. \A x \in Slots : MethodTodo(tasks'[x].todo) \/ \E v \in Uids : CleanupTodo(tasks'[x].todo, v)
    BY <1>1, <1>4, <1>8, <1>a, Zenon DEF TasksType, Todo
  <2> QED
    BY <1>8, <2>1, Zenon DEF TasksType, Todo, TasksAre
<1>10. /\ pending_user_cleanups \in [Uids -> Slots \cup {None}]
       /\ pending_user_cleanups' \in [Uids -> Slots \cup {None}] /\ pending_user_cleanups'[u] = c
       /\ \A v \in Uids \ {u} : pending_user_cleanups'[v] = pending_user_cleanups[v]
  BY <1>1, <1>c, Zenon DEF WorldType
<1>11. WorldType'
  BY <1>1, <1>2, <1>10, Zenon DEF WorldType
<1>12. /\ st.users \subseteq Uids /\ st'.users \subseteq Uids /\ rundir \subseteq Uids
  BY <1>1, <1>d, UsersAre, Zenon DEF WorldType
<1>13. ASSUME NEW x \in Slots, NEW v \in Uids, CleanupTodo(tasks[x].todo, v)
       PROVE  x \in Slots \ {t, c}
  BY <1>7, <1>13, EmptyIsMethod, CleanupIs, ZenonT(30)
<1>14. HandlesAreFresh'
  <2> SUFFICES ASSUME NEW v \in Uids, pending_user_cleanups'[v] # None
               PROVE  /\ v \notin st'.users
                      /\ CleanupTodo(tasks'[pending_user_cleanups'[v]].todo, v)
                      /\ ~tasks'[pending_user_cleanups'[v]].aborted
    BY Zenon DEF HandlesAreFresh, CleanupTodo, Todo, Wake, Release, Forget
  <2>1. CASE v = u
    BY <1>4, <1>8, <1>10, <1>d, <2>1, ZenonT(30)
  <2>2. CASE v # u
    <3> DEFINE x == pending_user_cleanups[v]
    <3>1. /\ pending_user_cleanups'[v] = x /\ x \in Slots
      BY <1>10, <2>2, Zenon
    <3>2. v \notin st.users /\ CleanupTodo(tasks[x].todo, v) /\ ~tasks[x].aborted
      BY <1>1, <3>1, Zenon DEF HandlesAreFresh, Todo
    <3> HIDE DEF x
    <3>3. tasks'[x] = tasks[x]
      BY <1>8, <1>13, <3>1, <3>2, Zenon
    <3> QED
      BY <1>d, <3>1, <3>2, <3>3, Zenon
  <2> QED
    BY <2>1, <2>2, Zenon
<1>15. \A x \in Slots : IsMethod(x)' <=> MethodHead(tasks'[x].todo)
  BY Zenon DEF IsMethod, MethodHead
<1>16. \A x \in Slots : IsMethod(x) <=> MethodHead(tasks[x].todo)
  BY Zenon DEF IsMethod, MethodHead
<1>17. /\ \A x \in Slots \ {t} : IsMethod(x)' => IsMethod(x)
       /\ IsMethod(t)' <=> q # <<>>
  <2>1. MethodHead(q) <=> q # <<>>
    BY <1>a, TailMethod, Zenon DEF MethodHead
  <2> QED
    BY <1>4, <1>8, <1>15, <1>16, <2>1, Zenon
<1>18. plain => \A x \in Slots : IsMethod(x) => x = t
  BY <1>1, <1>a, Zenon DEF OneAfterTheOther
<1>19. OneAfterTheOther'
  <2> SUFFICES ASSUME plain'
               PROVE  /\ \A y, x \in Slots : IsMethod(y)' /\ IsMethod(x)' => y = x
                      /\ \A x \in Slots : \A i \in DOMAIN tasks'[x].todo :
                           tasks'[x].todo[i].op # "remove_session"
                      /\ NoMethodRuns' => dev_owner' = Owner(st')
                      /\ \A x \in Slots : IsMethod(x)' =>
                           EndsAt(tasks'[x].todo, dev_owner', Owner(st'))
    BY Zenon DEF OneAfterTheOther, Todo, EndsAt, Owner
  <2>1. plain
    BY <1>3, Zenon
  <2>2. \A x \in Slots : IsMethod(x)' => x = t
    BY <1>17, <1>18, <2>1, ZenonT(30)
  <2>3. \A i \in DOMAIN w : w[i].op # "remove_session"
    BY <1>4, SMTT(30) DEF Wake, Release, Forget
  <2>4. \A x \in Slots : \A i \in DOMAIN tasks'[x].todo : tasks'[x].todo[i].op # "remove_session"
    <3> SUFFICES ASSUME NEW x \in Slots
                 PROVE  \A i \in DOMAIN tasks'[x].todo : tasks'[x].todo[i].op # "remove_session"
      BY Zenon
    <3>1. CASE x = t
      BY <1>8, <1>e, <2>1, <3>1, Zenon
    <3>2. CASE x = c
      BY <1>8, <2>3, <3>2, Zenon
    <3>3. CASE x \notin {t, c}
      <4>1. tasks'[x] = tasks[x]
        BY <1>8, <3>3, Zenon
      <4> QED
        BY <1>1, <2>1, <4>1, Zenon DEF OneAfterTheOther, Todo
    <3> QED
      BY <3>1, <3>2, <3>3, Zenon
  <2>5. EndsAt(q, dev_owner', Owner(st'))
    BY <1>2, <1>e, <2>1, Zenon
  <2>6. NoMethodRuns' => dev_owner' = Owner(st')
    <3>1. NoMethodRuns' => q = <<>>
      BY <1>17, Zenon DEF NoMethodRuns
    <3>2. q = <<>> => DOMAIN q = {}
      OBVIOUS
    <3> QED
      BY <2>5, <3>1, <3>2, EndsNow, Zenon
  <2> QED
    BY <1>8, <2>2, <2>4, <2>5, <2>6, Zenon
<1>20. DirectoryIsKnown'
  <2>1. ASSUME NEW d, MethodTodo(d), NEW v, Has(d, Release(v)) PROVE FALSE
    BY <2>1 DEF MethodTodo, Has, Release
  <2>2. ASSUME plain', NEW v \in rundir', v \notin st'.users
        PROVE  \E x \in Slots : /\ Has(tasks'[x].todo, Release(v))
                                /\ Has(tasks'[x].todo, Wake(v)) => ~tasks'[x].aborted
    <3>1. CASE v = u
      BY <1>4, <1>8, <3>1, Zenon
    <3>2. CASE v # u
      <4>1. v \in rundir \ st.users /\ plain
        BY <1>2, <1>3, <1>d, <2>2, <3>2, Zenon
      <4>2. PICK x \in Slots : /\ Has(tasks[x].todo, Release(v))
                               /\ Has(tasks[x].todo, Wake(v)) => ~tasks[x].aborted
        BY <1>1, <4>1, Zenon DEF DirectoryIsKnown, Todo
      <4>3. x # t /\ x # c
        BY <1>7, <2>1, <4>2, EmptyIsMethod, Zenon
      <4>4. tasks'[x] = tasks[x]
        BY <1>8, <4>3, Zenon
      <4> QED
        BY <4>2, <4>4, Zenon
    <3> QED
      BY <3>1, <3>2, Zenon
  <2>3. ASSUME plain', NEW v \in Uids, NEW x \in Slots, Has(tasks'[x].todo, Ensure(v))
        PROVE  v \in st'.users
    <3>1. x # t
      BY <1>8, <1>f, <2>3, Zenon
    <3>2. PICK y \in Uids : CleanupTodo(tasks'[x].todo, y)
      <4>1. ~IsMethod(x)'
        BY <1>3, <1>17, <1>18, <2>3, <3>1, Zenon
      <4>2. tasks'[x].todo # <<>>
        BY <2>3 DEF Has
      <4>3. ~MethodTodo(tasks'[x].todo)
        BY <1>15, <4>1, <4>2, TailMethod, Zenon
      <4>4. MethodTodo(tasks'[x].todo) \/ \E z \in Uids : CleanupTodo(tasks'[x].todo, z)
        BY <1>1, <1>4, <1>8, <1>a, Zenon DEF TasksType, Todo
      <4> QED
        BY <4>3, <4>4, Zenon
    <3>3. Ensure(v) \in {Wake(y), Release(y), Forget(y)}
      BY <2>3, <3>2, CleanupIs, Zenon
    <3> QED
      BY <3>3, Zenon DEF Ensure, Wake, Release, Forget
  <2>4. ASSUME NEW v \in st'.users
        PROVE  v \in rundir' \cup late' \/ \E x \in Slots : Has(tasks'[x].todo, Ensure(v))
    <3>1. v \in st.users /\ v \in Uids
      BY <1>12, <1>d, Zenon
    <3>2. CASE v \in rundir \cup late
      BY <1>2, <3>2, Zenon
    <3>3. CASE v \notin rundir \cup late
      <4>1. PICK x \in Slots : Has(tasks[x].todo, Ensure(v))
        BY <1>1, <3>1, <3>3, Zenon DEF DirectoryIsKnown, Todo
      <4>2. x # t
        BY <1>f, <3>1, <4>1, Zenon
      <4>3. x # c
        BY <1>7, <4>1, SMTT(30) DEF Has
      <4> QED
        BY <1>8, <4>1, <4>2, <4>3, Zenon
    <3> QED
      BY <3>2, <3>3, Zenon
  <2>5. ASSUME NEW v \in st'.users, Decided(v)' PROVE v \in late'
    <3>1. PICK x \in Slots : tasks'[x].todo # <<>> /\ Head(tasks'[x].todo).op = "release"
                               /\ Head(tasks'[x].todo).arg = v
      BY <2>5, Zenon DEF Decided, Doing, Arg
    <3>2. x # c
      BY <1>4, <1>8, <3>1, Zenon
    <3>3. x # t
      BY <1>8, <1>a, <3>1, TailMethod, Zenon DEF MethodHead
    <3>4. Decided(v)
      BY <1>8, <3>1, <3>2, <3>3, Zenon DEF Decided, Doing, Arg
    <3> QED
      BY <1>1, <1>2, <1>d, <3>4, Zenon DEF DirectoryIsKnown
  <2> QED
    BY <2>2, <2>3, <2>4, <2>5, Zenon DEF DirectoryIsKnown, Todo, Has, Release, Wake, Ensure
<1> QED
  BY <1>1, <1>2, <1>9, <1>11, <1>14, <1>19, <1>20, <1>d, NextInv, Zenon

LEMMA finalizeKeeps ==
  ASSUME LoginInv, NEW t \in Slots, finalize_session_removal(t)
  PROVE  LoginInv'
<1> DEFINE d == tasks[t].todo
           s == Head(d).arg
           u == st.uid[s]
           x == remove_session(st, s)
           c == Chowns(x, st, s)
           r == RestAfter(t, c)
           q == c \o Tail(d)
<1>1. /\ IsMethod(t) /\ Head(d).op = "finalize_session_removal"
      /\ UNCHANGED <<next_id, rundir, dev_owner, plain, reused, late>>
  <2>1. Doing(t, "finalize_session_removal")
    BY Zenon DEF finalize_session_removal
  <2> QED
    BY <2>1, DoingIs, Zenon DEF finalize_session_removal, history
<1>2. \/ tasks' = Rest(t) /\ st' = st /\ pending_user_cleanups' = pending_user_cleanups
      \/ /\ s \in st.sessions /\ st' = x /\ u \in x.users
         /\ tasks' = r /\ pending_user_cleanups' = pending_user_cleanups
      \/ /\ s \in st.sessions /\ st' = x /\ u \notin x.users
         /\ \E k \in Slots :
              /\ tasks[k] = Free
              /\ tasks' = [r EXCEPT ![k] = Task(<<Wake(u), Release(u), Forget(u)>>)]
              /\ pending_user_cleanups' = [pending_user_cleanups EXCEPT ![u] = k]
  BY Zenon DEF finalize_session_removal, Arg, Chowns, RestAfter
<1>3. /\ Tables(st, reused, next_id) /\ TasksType /\ WorldType /\ OneAfterTheOther
  BY Zenon DEF LoginInv
<1>4. MethodTodo(d) /\ d # <<>> /\ d \in Seq(Effect)
  BY <1>1, <1>3, HeadsAre, Zenon
<1>5. /\ Head(d) = d[1] /\ Tail(d) \in Seq(Effect) /\ MethodTodo(Tail(d))
      /\ \A i \in DOMAIN Tail(d) : Tail(d)[i].op = "finalize_session_removal"
  BY <1>1, <1>4, Split, TailMethod, Zenon
<1>6. \A i \in DOMAIN d : d[i].op = "finalize_session_removal"
  <2>1. \A i \in DOMAIN d : i = 1 \/ (i - 1 \in DOMAIN Tail(d) /\ d[i] = Tail(d)[i - 1])
    BY <1>4, Split, Zenon
  <2> QED
    BY <1>1, <1>5, <2>1, Zenon
<1>7. \A v : ~Has(d, Ensure(v)) /\ ~Has(Tail(d), Ensure(v))
  BY <1>5, <1>6 DEF Has, Ensure
<1>8. plain => dev_owner = Owner(st)
  <2>1. \A i \in DOMAIN d : d[i].op # "chown"
    BY <1>6, Zenon
  <2>2. plain => EndsAt(d, dev_owner, Owner(st))
    BY <1>1, <1>3, Zenon DEF OneAfterTheOther, Todo
  <2> QED
    BY <2>1, <2>2, EndsNow, Zenon
<1>9. /\ rundir' = rundir /\ dev_owner' = dev_owner /\ rundir \subseteq Uids
      /\ dev_owner \in Uids \cup {Root}
  BY <1>1, <1>3, Zenon DEF WorldType
<1>10. CASE tasks' = Rest(t) /\ st' = st /\ pending_user_cleanups' = pending_user_cleanups
  <2>1. /\ plain => \A i \in DOMAIN Tail(d) : Tail(d)[i].op # "remove_session"
        /\ plain => EndsAt(Tail(d), dev_owner, Owner(st))
    <3>1. \A i \in DOMAIN Tail(d) : Tail(d)[i].op # "remove_session" /\ Tail(d)[i].op # "chown"
      BY <1>5, Zenon
    <3> QED
      BY <1>8, <3>1, EndsNow, Zenon
  <2>2. MethodMoves(t, Tail(d)) /\ \A k \in Slots : tasks'[k].aborted => tasks[k].aborted
    BY <1>1, <1>10, GoesOn, Zenon
  <2>3. /\ UNCHANGED <<next_id, pending_user_cleanups, reused, late, plain>>
        /\ Tables(st', reused, next_id) /\ st'.users \subseteq st.users
        /\ rundir \subseteq rundir' /\ rundir' \subseteq Uids /\ dev_owner' \in Uids \cup {Root}
        /\ rundir' \ st'.users \subseteq rundir \ st.users
    BY <1>1, <1>3, <1>9, <1>10, Zenon
  <2>4. plain => EndsAt(Tail(d), dev_owner', Owner(st'))
    BY <1>9, <1>10, <2>1, Zenon
  <2> QED
    BY <1>1, <1>7, <2>1, <2>2, <2>3, <2>4, MethodStepKeeps, Zenon
<1>11. ASSUME s \in st.sessions, st' = x
       PROVE  /\ r \in TasksAre /\ r[t].todo = q /\ MethodTodo(q)
              /\ r[t].aborted => tasks[t].aborted
              /\ \A k \in Slots \ {t} : r[k] = tasks[k]
              /\ \A i \in DOMAIN q : q[i].op \in {"chown", "finalize_session_removal"}
              /\ plain => EndsAt(q, dev_owner, Owner(x))
              /\ Tables(x, reused, next_id) /\ u \in Uids
              /\ x.users \subseteq st.users /\ st.users \ {u} \subseteq x.users
  <2> HIDE DEF x
  <2>1. x = remove_session(st, s)
    BY Zenon DEF x
  <2>a. Tables(st, reused, next_id) /\ s \in st.sessions
    BY <1>3, <1>11, Zenon
  <2>b. c = Chowns(x, st, s) /\ u = st.uid[s]
    BY Zenon
  <2> HIDE DEF c, u
  <2>2. /\ c \in Seq(Effect) /\ \A i \in DOMAIN c : c[i].op = "chown"
        /\ dev_owner = Owner(st) => EndsAt(c, dev_owner, Owner(x))
    <3>1. HandsOver(c, dev_owner, Owner(st), Owner(x))
      BY <2>1, <2>a, <2>b, ChownsHandOver, Zenon
    <3> QED
      BY <3>1, Zenon DEF HandsOver
  <2>3. /\ Tables(x, reused, next_id) /\ u \in Uids
        /\ x.users \subseteq st.users /\ st.users \ {u} \subseteq x.users
    <3>1. Shrinks(st, x, s, reused, next_id)
      BY <2>1, <2>a, <2>b, RemoveShrinks, Zenon
    <3> QED
      BY <2>b, <3>1, Zenon DEF Shrinks
  <2> HIDE DEF c
  <2>4. /\ r \in TasksAre /\ r[t].todo = q
        /\ r[t].aborted => tasks[t].aborted
        /\ \A k \in Slots \ {t} : r[k] = tasks[k]
    <3>1. LeavesTo(t, q, r)
      BY <1>3, <1>4, <2>2, RestWith, Zenon
    <3> QED
      BY <3>1, Zenon DEF LeavesTo
  <2> HIDE DEF q, r
  <2>5. q = c \o Tail(d)
    BY Zenon DEF q
  <2>6. /\ MethodTodo(q) /\ \A i \in DOMAIN q : q[i].op \in {"chown", "finalize_session_removal"}
        /\ EndsAt(c, dev_owner, Owner(x)) => EndsAt(q, dev_owner, Owner(x))
    <3>1. OpsIn(c, {"chown"}) /\ OpsIn(Tail(d), {"finalize_session_removal"}) /\ Tail(d) \in Seq(Effect)
      BY <1>5, <2>2, Zenon DEF OpsIn
    <3>2. /\ MethodTodo(q) /\ OpsIn(q, {"chown", "finalize_session_removal"})
          /\ EndsAt(c, dev_owner, Owner(x)) => EndsAt(q, dev_owner, Owner(x))
      BY <2>2, <2>5, <3>1, ChownsFirst, ZenonT(30)
    <3> QED
      BY <3>2, ZenonT(30) DEF OpsIn
  <2> QED
    BY <1>8, <2>2, <2>3, <2>4, <2>6, Zenon
<1> HIDE DEF q, r, x, s, u, d, c
<1>12. ASSUME \A i \in DOMAIN q : q[i].op \in {"chown", "finalize_session_removal"}
       PROVE  (\A v : ~Has(q, Ensure(v))) /\ \A i \in DOMAIN q : q[i].op # "remove_session"
  BY <1>12 DEF Has, Ensure
<1>13. CASE /\ s \in st.sessions /\ st' = x /\ u \in x.users
            /\ tasks' = r /\ pending_user_cleanups' = pending_user_cleanups
  <2>1. /\ r \in TasksAre /\ r[t].todo = q /\ MethodTodo(q)
        /\ r[t].aborted => tasks[t].aborted
        /\ \A k \in Slots \ {t} : r[k] = tasks[k]
        /\ \A i \in DOMAIN q : q[i].op \in {"chown", "finalize_session_removal"}
        /\ plain => EndsAt(q, dev_owner, Owner(x))
        /\ Tables(x, reused, next_id) /\ u \in Uids
        /\ x.users \subseteq st.users /\ st.users \ {u} \subseteq x.users
    BY <1>11, <1>13, Zenon
  <2>2. (\A v : ~Has(q, Ensure(v))) /\ \A i \in DOMAIN q : q[i].op # "remove_session"
    BY <1>12, <2>1, Zenon
  <2>3. \A v \in Uids : ~Has(tasks[t].todo, Ensure(v))
    BY <1>7, Zenon DEF d
  <2>4. MethodMoves(t, q) /\ \A k \in Slots : tasks'[k].aborted => tasks[k].aborted
    <3>1. MethodTodo(tasks[t].todo)
      BY <1>4, Zenon DEF d
    <3> QED
      BY <1>13, <2>1, <3>1, Zenon DEF MethodMoves
  <2>5. /\ Tables(st', reused, next_id) /\ st'.users \subseteq st.users
        /\ UNCHANGED <<next_id, pending_user_cleanups, reused, late, plain>>
        /\ rundir \subseteq rundir' /\ rundir' \subseteq Uids /\ dev_owner' \in Uids \cup {Root}
        /\ rundir' \ st'.users \subseteq rundir \ st.users
        /\ plain => EndsAt(q, dev_owner', Owner(st'))
    BY <1>1, <1>9, <1>13, <2>1, Zenon
  <2> QED
    BY <1>1, <2>2, <2>3, <2>4, <2>5, MethodStepKeeps, Zenon
<1>14. ASSUME s \in st.sessions, st' = x, u \notin x.users, NEW k \in Slots, tasks[k] = Free,
              tasks' = [r EXCEPT ![k] = Task(<<Wake(u), Release(u), Forget(u)>>)],
              pending_user_cleanups' = [pending_user_cleanups EXCEPT ![u] = k]
       PROVE  LoginInv'
  <2>1. /\ r \in TasksAre /\ r[t].todo = q /\ MethodTodo(q)
        /\ r[t].aborted => tasks[t].aborted
        /\ \A y \in Slots \ {t} : r[y] = tasks[y]
        /\ \A i \in DOMAIN q : q[i].op \in {"chown", "finalize_session_removal"}
        /\ plain => EndsAt(q, dev_owner, Owner(x))
        /\ Tables(x, reused, next_id) /\ u \in Uids
        /\ x.users \subseteq st.users /\ st.users \ {u} \subseteq x.users
    BY <1>11, <1>14, Zenon
  <2>2. (\A v : ~Has(q, Ensure(v))) /\ \A i \in DOMAIN q : q[i].op # "remove_session"
    BY <1>12, <2>1, Zenon
  <2>3. \A v \in Uids : ~Has(tasks[t].todo, Ensure(v))
    BY <1>7, ZenonT(30) DEF d
  <2>4. /\ Tables(st', reused, next_id) /\ u \notin st'.users /\ st'.users \subseteq st.users
        /\ st.users \ {u} \subseteq st'.users
        /\ UNCHANGED <<next_id, reused, late, plain, rundir, dev_owner>>
        /\ plain => EndsAt(q, dev_owner, Owner(st'))
    BY <1>1, <1>14, <2>1, Zenon
  <2>5. Schedules(t, q, k, u, r)
    BY <1>1, <1>14, <2>1, <2>2, <2>3, <2>4, Zenon DEF Schedules
  <2> QED
    BY <2>1, <2>5, CleanupBegins, Zenon
<1> QED
  BY <1>2, <1>10, <1>13, <1>14, Zenon

(* The cleanup of u in slot t is left with q to do. *)
CleansUp(t, u, q) ==
  /\ CleanupTodo(tasks[t].todo, u) /\ (q = <<>> \/ CleanupTodo(q, u))
  /\ tasks' \in TasksAre /\ tasks'[t].todo = q
  /\ q # <<>> => tasks'[t].aborted = tasks[t].aborted
  /\ \A x \in Slots \ {t} : tasks'[x] = tasks[x]
  /\ UNCHANGED <<st, next_id, dev_owner, plain, reused, late>>
  /\ rundir' \subseteq rundir /\ rundir \ {u} \subseteq rundir'
  /\ u \in rundir \ rundir' /\ u \in st.users => u \in late
  /\ pending_user_cleanups' \in [Uids -> Slots \cup {None}]
  /\ \A v \in Uids : pending_user_cleanups'[v] # None =>
       /\ pending_user_cleanups'[v] = pending_user_cleanups[v]
       /\ pending_user_cleanups[v] = t => q # <<>>
  /\ u \in rundir' \ st.users /\ Has(tasks[t].todo, Release(u))
         /\ (Has(tasks[t].todo, Wake(u)) => ~tasks[t].aborted)
       => Has(q, Release(u)) /\ (Has(q, Wake(u)) => ~tasks'[t].aborted)
  /\ q # <<>> /\ Head(q).op = "release" /\ u \in st.users => u \in late

LEMMA CleanupStepKeeps ==
  ASSUME LoginInv, NEW t \in Slots, NEW u \in Uids, NEW q, CleansUp(t, u, q)
  PROVE  LoginInv'
<1>a. CleanupTodo(tasks[t].todo, u) /\ (q = <<>> \/ CleanupTodo(q, u))
  BY Zenon DEF CleansUp
<1>b. /\ tasks' \in TasksAre /\ tasks'[t].todo = q
      /\ q # <<>> => tasks'[t].aborted = tasks[t].aborted
      /\ \A x \in Slots \ {t} : tasks'[x] = tasks[x]
  BY Zenon DEF CleansUp
<1>c. /\ rundir' \subseteq rundir /\ rundir \ {u} \subseteq rundir'
      /\ u \in rundir \ rundir' /\ u \in st.users => u \in late
  BY Zenon DEF CleansUp
<1>d. /\ pending_user_cleanups' \in [Uids -> Slots \cup {None}]
      /\ \A v \in Uids : pending_user_cleanups'[v] # None =>
           /\ pending_user_cleanups'[v] = pending_user_cleanups[v]
           /\ pending_user_cleanups[v] = t => q # <<>>
  BY Zenon DEF CleansUp
<1>e. u \in rundir' \ st.users /\ Has(tasks[t].todo, Release(u))
          /\ (Has(tasks[t].todo, Wake(u)) => ~tasks[t].aborted)
        => Has(q, Release(u)) /\ (Has(q, Wake(u)) => ~tasks'[t].aborted)
  BY Zenon DEF CleansUp
<1>f. q # <<>> /\ Head(q).op = "release" /\ u \in st.users => u \in late
  BY Zenon DEF CleansUp
<1>1. /\ Tables(st, reused, next_id) /\ TasksType /\ WorldType /\ plain \in BOOLEAN
      /\ HandlesAreFresh /\ OneAfterTheOther /\ DirectoryIsKnown
  BY Zenon DEF LoginInv
<1>2. /\ st' = st /\ next_id' = next_id /\ reused' = reused /\ late' = late /\ plain' = plain
      /\ dev_owner' = dev_owner
  BY Zenon DEF CleansUp
<1>3. plain' => plain
  BY <1>2, Zenon
<1>4. /\ ~MethodHead(tasks[t].todo) /\ tasks[t].todo # <<>> /\ ~MethodHead(q)
  BY <1>a, CleanupIs, ZenonT(30) DEF MethodHead
<1>5. TasksType'
  <2>1. \A x \in Slots : MethodTodo(tasks'[x].todo) \/ \E v \in Uids : CleanupTodo(tasks'[x].todo, v)
    BY <1>1, <1>a, <1>b, EmptyIsMethod, Zenon DEF TasksType, Todo
  <2> QED
    BY <1>b, <2>1, Zenon DEF TasksType, Todo, TasksAre
<1>6. WorldType'
  BY <1>1, <1>2, <1>c, <1>d, ZenonT(30) DEF WorldType
<1>7. HandlesAreFresh'
  <2> SUFFICES ASSUME NEW v \in Uids, pending_user_cleanups'[v] # None
               PROVE  /\ v \notin st'.users
                      /\ CleanupTodo(tasks'[pending_user_cleanups'[v]].todo, v)
                      /\ ~tasks'[pending_user_cleanups'[v]].aborted
    BY Zenon DEF HandlesAreFresh, CleanupTodo, Todo, Wake, Release, Forget
  <2> DEFINE x == pending_user_cleanups[v]
  <2>1. pending_user_cleanups'[v] = x /\ (x = t => q # <<>>) /\ x # None /\ x \in Slots
    BY <1>1, <1>d, Zenon DEF WorldType
  <2>2. v \notin st'.users /\ CleanupTodo(tasks[x].todo, v) /\ ~tasks[x].aborted
    BY <1>1, <1>2, <2>1, Zenon DEF HandlesAreFresh, Todo
  <2> HIDE DEF x
  <2>3. CASE x # t
    BY <1>b, <2>1, <2>2, <2>3, Zenon
  <2>4. CASE x = t
    <3>1. v = u
      BY <1>a, <2>2, <2>4, CleanupIs, Zenon
    <3> QED
      BY <1>a, <1>b, <2>1, <2>2, <2>4, <3>1, Zenon
  <2> QED
    BY <2>3, <2>4, Zenon
<1>8. \A x \in Slots : IsMethod(x)' <=> IsMethod(x)
  <2>1. \A x \in Slots : IsMethod(x)' <=> MethodHead(tasks'[x].todo)
    BY Zenon DEF IsMethod, MethodHead
  <2>2. \A x \in Slots : IsMethod(x) <=> MethodHead(tasks[x].todo)
    BY Zenon DEF IsMethod, MethodHead
  <2> QED
    BY <1>4, <1>b, <2>1, <2>2, Zenon
<1>9. OneAfterTheOther'
  <2> SUFFICES ASSUME plain'
               PROVE  /\ \A y, x \in Slots : IsMethod(y)' /\ IsMethod(x)' => y = x
                      /\ \A x \in Slots : \A i \in DOMAIN tasks'[x].todo :
                           tasks'[x].todo[i].op # "remove_session"
                      /\ NoMethodRuns' => dev_owner' = Owner(st')
                      /\ \A x \in Slots : IsMethod(x)' =>
                           EndsAt(tasks'[x].todo, dev_owner', Owner(st'))
    BY Zenon DEF OneAfterTheOther, Todo, EndsAt, Owner
  <2>1. plain
    BY <1>3, Zenon
  <2>2. \A i \in DOMAIN q : q[i].op # "remove_session"
    <3>1. CASE q = <<>>
      BY <3>1
    <3>2. CASE CleanupTodo(q, u)
      <4>1. \A i \in DOMAIN q : q[i] \in {Wake(u), Release(u), Forget(u)}
        BY <3>2, CleanupIs, Zenon DEF Has
      <4> QED
        BY <4>1 DEF Wake, Release, Forget
    <3> QED
      BY <1>a, <3>1, <3>2, Zenon
  <2>3. ASSUME NEW x \in Slots
        PROVE  \A i \in DOMAIN tasks'[x].todo : tasks'[x].todo[i].op # "remove_session"
    <3>1. CASE x = t
      BY <1>b, <2>2, <3>1, Zenon
    <3>2. CASE x # t
      <4>1. tasks'[x] = tasks[x]
        BY <1>b, <3>2, Zenon
      <4> QED
        BY <1>1, <2>1, <4>1, Zenon DEF OneAfterTheOther, Todo
    <3> QED
      BY <3>1, <3>2, Zenon
  <2>4. NoMethodRuns' => dev_owner' = Owner(st')
    <3>1. NoMethodRuns' => NoMethodRuns
      BY <1>8, ZenonT(30) DEF NoMethodRuns
    <3> QED
      BY <1>1, <1>2, <2>1, <3>1, Zenon DEF OneAfterTheOther
  <2>5. ASSUME NEW x \in Slots, IsMethod(x)'
        PROVE  EndsAt(tasks'[x].todo, dev_owner', Owner(st'))
    <3>1. IsMethod(x) /\ x # t
      BY <1>4, <1>8, <2>5, ZenonT(30) DEF IsMethod, MethodHead
    <3>2. tasks'[x] = tasks[x]
      BY <1>b, <3>1, Zenon
    <3>3. EndsAt(tasks[x].todo, dev_owner, Owner(st))
      BY <1>1, <2>1, <3>1, Zenon DEF OneAfterTheOther, Todo
    <3> QED
      BY <1>2, <3>2, <3>3, Zenon
  <2>6. \A y, x \in Slots : IsMethod(y)' /\ IsMethod(x)' => y = x
    BY <1>1, <1>8, <2>1, Zenon DEF OneAfterTheOther
  <2> QED
    BY <2>3, <2>4, <2>5, <2>6, Zenon
<1>10. DirectoryIsKnown'
  <2>1. rundir \subseteq Uids /\ st.users \subseteq Uids
    BY <1>1, UsersAre, Zenon DEF WorldType
  <2>2. ASSUME plain', NEW v \in rundir', v \notin st'.users
        PROVE  \E x \in Slots : /\ Has(tasks'[x].todo, Release(v))
                                /\ Has(tasks'[x].todo, Wake(v)) => ~tasks'[x].aborted
    <3>1. v \in rundir \ st.users /\ plain
      BY <1>2, <1>3, <1>c, <2>2, Zenon
    <3>2. PICK x \in Slots : /\ Has(tasks[x].todo, Release(v))
                             /\ Has(tasks[x].todo, Wake(v)) => ~tasks[x].aborted
      BY <1>1, <3>1, Zenon DEF DirectoryIsKnown, Todo
    <3>3. CASE x = t
      <4>1. Release(v) \in {Wake(u), Release(u), Forget(u)}
        BY <1>a, <3>2, <3>3, CleanupIs, Zenon
      <4>2. v = u
        BY <4>1, Zenon DEF Wake, Release, Forget
      <4>3. u \in rundir' \ st.users
        BY <1>2, <2>2, <4>2, Zenon
      <4>4. Has(q, Release(u)) /\ (Has(q, Wake(u)) => ~tasks'[t].aborted)
        BY <1>e, <3>2, <3>3, <4>2, <4>3, Zenon
      <4> QED
        BY <1>b, <4>2, <4>4, Zenon
    <3>4. CASE x # t
      <4>1. tasks'[x] = tasks[x]
        BY <1>b, <3>4, Zenon
      <4> QED
        BY <3>2, <4>1, Zenon
    <3> QED
      BY <3>3, <3>4, Zenon
  <2>3. \A v, y \in Uids : \A d : CleanupTodo(d, y) => ~Has(d, Ensure(v))
    <3> SUFFICES ASSUME NEW v \in Uids, NEW y \in Uids, NEW d, CleanupTodo(d, y), Has(d, Ensure(v))
                 PROVE  FALSE
      BY Zenon
    <3>1. Ensure(v) \in {Wake(y), Release(y), Forget(y)}
      BY CleanupIs, Zenon
    <3> QED
      BY <3>1, Zenon DEF Ensure, Wake, Release, Forget
  <2>4. \A v \in Uids : ~Has(q, Ensure(v)) /\ ~Has(tasks[t].todo, Ensure(v))
    <3>1. \A v \in Uids : q = <<>> => ~Has(q, Ensure(v))
      BY DEF Has
    <3> QED
      BY <1>a, <2>3, <3>1, Zenon
  <2>5. ASSUME plain', NEW v \in Uids, NEW x \in Slots, Has(tasks'[x].todo, Ensure(v))
        PROVE  v \in st'.users
    <3>1. x # t
      BY <1>b, <2>4, <2>5, Zenon
    <3>2. tasks'[x] = tasks[x]
      BY <1>b, <3>1, Zenon
    <3>3. v \in st.users
      BY <1>1, <1>3, <2>5, <3>2, ZenonT(30) DEF DirectoryIsKnown, Todo
    <3> QED
      BY <1>2, <3>3, Zenon
  <2>6. ASSUME NEW v \in st'.users
        PROVE  v \in rundir' \cup late' \/ \E x \in Slots : Has(tasks'[x].todo, Ensure(v))
    <3>1. v \in st.users /\ v \in Uids
      BY <1>2, <2>1, <2>6, Zenon
    <3>2. CASE v \in rundir' \cup late'
      BY <3>2, Zenon
    <3>3. CASE v \notin rundir' \cup late'
      <4>1. v \notin rundir \cup late
        BY <1>2, <1>c, <3>1, <3>3, Zenon
      <4>2. PICK x \in Slots : Has(tasks[x].todo, Ensure(v))
        BY <1>1, <3>1, <4>1, Zenon DEF DirectoryIsKnown, Todo
      <4>3. x # t
        BY <2>4, <3>1, <4>2, Zenon
      <4>4. tasks'[x] = tasks[x]
        BY <1>b, <4>3, Zenon
      <4> QED
        BY <4>2, <4>4, Zenon
    <3> QED
      BY <3>2, <3>3, Zenon
  <2>7. ASSUME NEW v \in st'.users, Decided(v)' PROVE v \in late'
    <3>1. PICK x \in Slots : tasks'[x].todo # <<>> /\ Head(tasks'[x].todo).op = "release"
                               /\ Head(tasks'[x].todo).arg = v
      BY <2>7, Zenon DEF Decided, Doing, Arg
    <3>2. CASE x = t
      <4>1. q # <<>> /\ Head(q).op = "release" /\ Head(q).arg = v
        BY <1>b, <3>1, <3>2, Zenon
      <4>2. v = u
        BY <1>a, <4>1, CleanupIs, ZenonT(30)
      <4> QED
        BY <1>2, <1>f, <2>7, <4>1, <4>2, Zenon
    <3>3. CASE x # t
      <4>1. tasks'[x] = tasks[x]
        BY <1>b, <3>3, Zenon
      <4>2. Decided(v)
        BY <3>1, <4>1, Zenon DEF Decided, Doing, Arg
      <4> QED
        BY <1>1, <1>2, <2>7, <4>2, ZenonT(30) DEF DirectoryIsKnown
    <3> QED
      BY <3>2, <3>3, Zenon
  <2> QED
    BY <2>2, <2>5, <2>6, <2>7, ZenonT(30) DEF DirectoryIsKnown, Todo, Has, Release, Wake, Ensure
<1>11. Tables(st', reused', next_id')
  BY <1>1, <1>2, Zenon
<1> QED
  BY <1>1, <1>2, <1>5, <1>6, <1>7, <1>9, <1>10, <1>11, NextInv, Zenon

LEMMA CleanupOf ==
  ASSUME LoginInv, NEW t \in Slots, NEW op \in {"wake", "release", "forget"}, Doing(t, op)
  PROVE  \E u \in Uids :
           /\ CleanupTodo(tasks[t].todo, u) /\ Arg(t) = u
           /\ op = "wake" => tasks[t].todo = <<Wake(u), Release(u), Forget(u)>>
           /\ op = "release" => tasks[t].todo = <<Release(u), Forget(u)>>
           /\ op = "forget" => tasks[t].todo = <<Forget(u)>>
<1>1. TasksType /\ tasks[t].todo # <<>> /\ Head(tasks[t].todo).op = op
  BY Zenon DEF LoginInv, Doing
<1>2. ~MethodTodo(tasks[t].todo)
  BY <1>1, TailMethod, Zenon DEF MethodHead
<1>3. PICK u \in Uids : CleanupTodo(tasks[t].todo, u)
  BY <1>1, <1>2, Zenon DEF TasksType, Todo
<1>4. /\ Head(tasks[t].todo).arg = u
      /\ Head(tasks[t].todo).op = "wake" => tasks[t].todo = <<Wake(u), Release(u), Forget(u)>>
      /\ Head(tasks[t].todo).op = "release" => tasks[t].todo = <<Release(u), Forget(u)>>
      /\ Head(tasks[t].todo).op = "forget" => tasks[t].todo = <<Forget(u)>>
  BY <1>3, CleanupIs, Zenon
<1> QED
  BY <1>1, <1>3, <1>4, Zenon DEF Arg

LEMMA CleanupTails ==
  ASSUME NEW u \in Uids
  PROVE  /\ Tail(<<Wake(u), Release(u), Forget(u)>>) = <<Release(u), Forget(u)>>
         /\ Tail(<<Release(u), Forget(u)>>) = <<Forget(u)>>
         /\ Tail(<<Forget(u)>>) = <<>>
         /\ CleanupTodo(<<Release(u), Forget(u)>>, u) /\ CleanupTodo(<<Forget(u)>>, u)
         /\ Has(<<Release(u), Forget(u)>>, Release(u)) /\ ~Has(<<Release(u), Forget(u)>>, Wake(u))
         /\ ~Has(<<Forget(u)>>, Release(u))
         /\ Head(<<Release(u), Forget(u)>>).op = "release" /\ Head(<<Forget(u)>>).op = "forget"
<1>1. \A a, b, c : /\ Tail(<<a, b, c>>) = <<b, c>> /\ Tail(<<b, c>>) = <<c>> /\ Tail(<<c>>) = <<>>
                   /\ Head(<<b, c>>) = b /\ Head(<<c>>) = c
                   /\ DOMAIN <<b, c>> = {1, 2} /\ DOMAIN <<c>> = {1}
                   /\ <<b, c>>[1] = b /\ <<b, c>>[2] = c /\ <<c>>[1] = c
  OBVIOUS
<1>2. /\ Wake(u).op = "wake" /\ Release(u).op = "release" /\ Forget(u).op = "forget"
  BY Zenon DEF Wake, Release, Forget
<1>3. CleanupTodo(<<Release(u), Forget(u)>>, u) /\ CleanupTodo(<<Forget(u)>>, u)
  BY Zenon DEF CleanupTodo
<1>4. Has(<<Release(u), Forget(u)>>, Release(u))
  BY <1>1, Zenon DEF Has
<1>5. ~Has(<<Release(u), Forget(u)>>, Wake(u)) /\ ~Has(<<Forget(u)>>, Release(u))
  <2> DEFINE a == Wake(u)
             b == Release(u)
             c == Forget(u)
  <2>1. a # b /\ a # c /\ b # c
    BY <1>2, Zenon
  <2> HIDE DEF a, b, c
  <2>2. ~Has(<<b, c>>, a) /\ ~Has(<<c>>, b)
    BY <2>1 DEF Has
  <2> QED
    BY <2>2, Zenon DEF a, b, c
<1>6. /\ Tail(<<Wake(u), Release(u), Forget(u)>>) = <<Release(u), Forget(u)>>
      /\ Tail(<<Release(u), Forget(u)>>) = <<Forget(u)>>
      /\ Tail(<<Forget(u)>>) = <<>>
  BY <1>1, ZenonT(30)
<1>7. Head(<<Release(u), Forget(u)>>) = Release(u) /\ Head(<<Forget(u)>>) = Forget(u)
  BY <1>1, ZenonT(30)
<1> QED
  BY <1>2, <1>3, <1>4, <1>5, <1>6, <1>7, Zenon

LEMMA CleanupGoesOn ==
  ASSUME LoginInv, NEW t \in Slots, tasks[t].todo # <<>>, tasks' = Rest(t)
  PROVE  /\ tasks' \in TasksAre /\ tasks'[t].todo = Tail(tasks[t].todo)
         /\ tasks'[t].todo # <<>> => tasks'[t].aborted = tasks[t].aborted
         /\ \A x \in Slots \ {t} : tasks'[x] = tasks[x]
<1>1. tasks \in [Slots -> [todo : Seq(Effect), aborted : BOOLEAN]]
  BY Zenon DEF LoginInv, TasksType
<1> QED
  BY <1>1, RestIs, Zenon DEF TasksAre

LEMMA stillGoneKeeps ==
  ASSUME LoginInv, NEW t \in Slots, still_gone(t)
  PROVE  LoginInv'
<1>1. Doing(t, "wake") /\ UNCHANGED <<st, next_id, pending_user_cleanups, rundir, dev_owner, plain, reused, late>>
  BY Zenon DEF still_gone, history
<1>2. PICK u \in Uids : /\ CleanupTodo(tasks[t].todo, u) /\ Arg(t) = u
                        /\ tasks[t].todo = <<Wake(u), Release(u), Forget(u)>>
  BY <1>1, CleanupOf, Zenon
<1>3. tasks' = IF tasks[t].aborted \/ u \in st.users THEN [tasks EXCEPT ![t] = Free] ELSE Rest(t)
  BY <1>2, Zenon DEF still_gone
<1>4. /\ tasks \in TasksAre /\ WorldType /\ HandlesAreFresh
  BY Zenon DEF LoginInv, TasksType, TasksAre
<1>5. tasks[t].todo # <<>>
  BY <1>1, Zenon DEF Doing
<1>6. pending_user_cleanups' \in [Uids -> Slots \cup {None}] /\ pending_user_cleanups' = pending_user_cleanups
  BY <1>1, <1>4, Zenon DEF WorldType
<1>7. CASE tasks[t].aborted \/ u \in st.users
  <2>1. /\ tasks' \in TasksAre /\ tasks'[t].todo = <<>> /\ \A x \in Slots \ {t} : tasks'[x] = tasks[x]
    <3>1. tasks' = [tasks EXCEPT ![t] = Free]
      BY <1>3, <1>7, Zenon
    <3>2. Free \in [todo : Seq(Effect), aborted : BOOLEAN] /\ Free.todo = <<>>
      <4>1. <<>> \in Seq(Effect)
        OBVIOUS
      <4> QED
        BY <4>1, Zenon DEF Free
    <3> QED
      BY <1>4, <3>1, <3>2, Zenon DEF TasksAre
  <2>2. \A v \in Uids : pending_user_cleanups'[v] # None =>
           /\ pending_user_cleanups'[v] = pending_user_cleanups[v]
           /\ pending_user_cleanups[v] # t
    <3> SUFFICES ASSUME NEW v \in Uids, pending_user_cleanups[v] = t, t # None PROVE FALSE
      BY <1>6, Zenon
    <3>1. v \notin st.users /\ CleanupTodo(tasks[t].todo, v) /\ ~tasks[t].aborted
      BY <1>4, Zenon DEF HandlesAreFresh, Todo
    <3>2. v = u
      BY <1>2, <3>1, CleanupIs, Zenon
    <3> QED
      BY <1>7, <3>1, <3>2, Zenon
  <2>3. ~(u \in rundir' \ st.users /\ Has(tasks[t].todo, Release(u))
             /\ (Has(tasks[t].todo, Wake(u)) => ~tasks[t].aborted))
    <3>1. Has(tasks[t].todo, Wake(u))
      <4>1. Head(tasks[t].todo) = Wake(u) /\ tasks[t].todo \in Seq(Effect)
        <5>1. Head(<<Wake(u), Release(u), Forget(u)>>) = Wake(u)
          OBVIOUS
        <5> QED
          BY <1>2, <5>1, CleanupIs, Zenon
      <4> QED
        BY <1>5, <4>1, HasTail, Zenon
    <3> QED
      BY <1>7, <3>1, Zenon
  <2>4. UNCHANGED <<st, next_id, dev_owner, plain, reused, late>> /\ rundir' = rundir
    BY <1>1, Zenon
  <2>5. CleansUp(t, u, <<>>)
    BY <1>2, <1>6, <2>1, <2>2, <2>3, <2>4, Zenon DEF CleansUp
  <2> QED
    BY <2>5, <1>2, CleanupStepKeeps, Zenon
<1>8. CASE ~tasks[t].aborted /\ u \notin st.users
  <2> DEFINE q == <<Release(u), Forget(u)>>
  <2>1. tasks' = Rest(t)
    BY <1>3, <1>8, Zenon
  <2>2. /\ CleanupTodo(q, u) /\ q # <<>> /\ Tail(tasks[t].todo) = q
        /\ Has(q, Release(u)) /\ ~Has(q, Wake(u))
    <3>1. CleanupTodo(q, u) /\ Has(q, Release(u)) /\ ~Has(q, Wake(u)) /\ Tail(tasks[t].todo) = q
      BY <1>2, CleanupTails, Zenon
    <3> QED
      BY <3>1, Zenon
  <2> HIDE DEF q
  <2>3. /\ tasks' \in TasksAre /\ tasks'[t].todo = q
        /\ tasks'[t].aborted = tasks[t].aborted
        /\ \A x \in Slots \ {t} : tasks'[x] = tasks[x]
    BY <1>5, <2>1, <2>2, CleanupGoesOn, Zenon
  <2>4. UNCHANGED <<st, next_id, dev_owner, plain, reused, late>> /\ rundir' = rundir
    BY <1>1
  <2>5. rundir' \subseteq rundir /\ rundir \ {u} \subseteq rundir' /\ ~(u \in rundir \ rundir')
    BY <2>4, Zenon
  <2>6. \A v \in Uids : pending_user_cleanups'[v] # None =>
           /\ pending_user_cleanups'[v] = pending_user_cleanups[v]
           /\ pending_user_cleanups[v] = t => q # <<>>
    BY <1>6, <2>2, Zenon
  <2>7. /\ u \in rundir \ rundir' /\ u \in st.users => u \in late
        /\ q # <<>> /\ Head(q).op = "release" /\ u \in st.users => u \in late
    BY <1>8, ZenonT(30)
  <2>8. CleansUp(t, u, q)
    BY <1>2, <1>6, <2>2, <2>3, <2>4, <2>5, <2>6, <2>7, Zenon DEF CleansUp
  <2> QED
    BY <2>8, <1>2, CleanupStepKeeps, ZenonT(30)
<1> QED
  BY <1>7, <1>8, Zenon

LEMMA rundirReleaseKeeps ==
  ASSUME LoginInv, NEW t \in Slots, release(t)
  PROVE  LoginInv'
<1>1. /\ Doing(t, "release") /\ tasks' = Rest(t) /\ rundir' = rundir \ {Arg(t)}
      /\ UNCHANGED <<st, next_id, pending_user_cleanups, dev_owner, plain, reused, late>>
  BY Zenon DEF release, history
<1>2. PICK u \in Uids : /\ CleanupTodo(tasks[t].todo, u) /\ Arg(t) = u
                        /\ tasks[t].todo = <<Release(u), Forget(u)>>
  BY <1>1, CleanupOf, ZenonT(30)
<1>3. tasks[t].todo # <<>>
  BY <1>1, Zenon DEF Doing
<1> DEFINE q == <<Forget(u)>>
<1>4. CleanupTodo(q, u) /\ q # <<>> /\ Tail(tasks[t].todo) = q /\ Head(q).op # "release"
  <2>1. CleanupTodo(q, u) /\ Tail(tasks[t].todo) = q /\ Head(q).op = "forget"
    BY <1>2, CleanupTails, Zenon
  <2> QED
    BY <2>1, Zenon
<1> HIDE DEF q
<1>5. /\ tasks' \in TasksAre /\ tasks'[t].todo = q
      /\ tasks'[t].aborted = tasks[t].aborted
      /\ \A x \in Slots \ {t} : tasks'[x] = tasks[x]
  BY <1>1, <1>3, <1>4, CleanupGoesOn, ZenonT(30)
<1>6. /\ UNCHANGED <<st, next_id, dev_owner, plain, reused, late>>
      /\ rundir' \subseteq rundir /\ rundir \ {u} \subseteq rundir' /\ u \notin rundir'
  BY <1>1, <1>2, Zenon
<1>7. pending_user_cleanups' \in [Uids -> Slots \cup {None}] /\ pending_user_cleanups' = pending_user_cleanups
  BY <1>1, Zenon DEF LoginInv, WorldType
<1>8. u \in st.users => u \in late
  <2>1. Decided(u)
    BY <1>1, <1>2, Zenon DEF Decided
  <2> QED
    BY <2>1, Zenon DEF LoginInv, DirectoryIsKnown
<1>9. CleansUp(t, u, q)
  BY <1>2, <1>4, <1>5, <1>6, <1>7, <1>8, Zenon DEF CleansUp
<1> QED
  BY <1>9, <1>2, CleanupStepKeeps, Zenon

LEMMA forgetKeeps ==
  ASSUME LoginInv, NEW t \in Slots, forget(t)
  PROVE  LoginInv'
<1>1. /\ Doing(t, "forget") /\ tasks' = Rest(t)
      /\ UNCHANGED <<st, next_id, rundir, dev_owner, plain, reused, late>>
      /\ \/ pending_user_cleanups' = [pending_user_cleanups EXCEPT ![Arg(t)] = None]
         \/ tasks[t].aborted /\ pending_user_cleanups' = pending_user_cleanups
  BY Zenon DEF forget, history
<1>2. PICK u \in Uids : /\ CleanupTodo(tasks[t].todo, u) /\ Arg(t) = u
                        /\ tasks[t].todo = <<Forget(u)>>
  BY <1>1, CleanupOf, ZenonT(30)
<1>3. tasks[t].todo # <<>>
  BY <1>1, Zenon DEF Doing
<1>4. Tail(tasks[t].todo) = <<>> /\ ~Has(tasks[t].todo, Release(u))
  BY <1>2, CleanupTails, Zenon
<1>5. /\ tasks' \in TasksAre /\ tasks'[t].todo = <<>> /\ \A x \in Slots \ {t} : tasks'[x] = tasks[x]
  BY <1>1, <1>3, <1>4, CleanupGoesOn, Zenon
<1>6. /\ UNCHANGED <<st, next_id, dev_owner, plain, reused, late>>
      /\ rundir' \subseteq rundir /\ rundir \ {u} \subseteq rundir' /\ ~(u \in rundir \ rundir')
  BY <1>1, Zenon
<1>7. /\ pending_user_cleanups \in [Uids -> Slots \cup {None}] /\ HandlesAreFresh
  BY Zenon DEF LoginInv, WorldType
<1>8. pending_user_cleanups' \in [Uids -> Slots \cup {None}]
  BY <1>1, <1>2, <1>7, Zenon
<1>9. ASSUME NEW v \in Uids, pending_user_cleanups'[v] # None
      PROVE  pending_user_cleanups'[v] = pending_user_cleanups[v] /\ pending_user_cleanups[v] # t
  <2>1. pending_user_cleanups'[v] = pending_user_cleanups[v]
    BY <1>1, <1>2, <1>7, <1>9, Zenon
  <2>2. ASSUME pending_user_cleanups[v] = t PROVE FALSE
    <3>1. CleanupTodo(tasks[t].todo, v) /\ ~tasks[t].aborted
      BY <1>7, <1>9, <2>1, <2>2, Zenon DEF HandlesAreFresh, Todo
    <3>2. v = u
      BY <1>2, <3>1, CleanupIs, Zenon
    <3> QED
      BY <1>1, <1>2, <1>7, <1>9, <3>1, <3>2, Zenon
  <2> QED
    BY <2>1, <2>2, Zenon
<1>10. \A v \in Uids : pending_user_cleanups'[v] # None =>
           /\ pending_user_cleanups'[v] = pending_user_cleanups[v]
           /\ pending_user_cleanups[v] = t => <<>> # <<>>
  BY <1>9, Zenon
<1>11. CleansUp(t, u, <<>>)
  BY <1>2, <1>4, <1>5, <1>6, <1>8, <1>10, Zenon DEF CleansUp
<1> QED
  BY <1>11, <1>2, CleanupStepKeeps, Zenon

-----------------------------------------------------------------------------
(* logind starts with no session, no user and no task. *)
LEMMA InitIsFine ==
  ASSUME Init
  PROVE  LoginInv
<1>1. /\ st = new /\ next_id = 1 /\ reused = {} /\ late = {} /\ plain = TRUE /\ rundir = {}
      /\ dev_owner = Root /\ tasks = [t \in Slots |-> Free]
      /\ pending_user_cleanups = [u \in Uids |-> None]
  BY Zenon DEF Init
<1>2. <<>> \in Seq(Ids) /\ <<>> \in Seq(Effect) /\ DOMAIN <<>> = {}
  OBVIOUS
<1>3. IsInjective(<<>>) /\ Range(<<>>) = {}
  BY <1>2, Zenon DEF IsInjective, Range
<1>4. /\ st.sessions = {} /\ st.active = {} /\ st.uid = [s \in Ids |-> None]
      /\ st.leader_pid = [s \in Ids |-> None] /\ st.seat = <<>> /\ st.active_session = None
      /\ st.users = {} /\ st.user_sessions = [u \in Uids |-> <<>>]
      /\ st.user_state = [u \in Uids |-> "Online"]
      /\ st.display_session = [u \in Uids |-> None] /\ st.pid_to_session = [p \in Pids |-> None]
  BY <1>1, Zenon DEF new
<1>5. st \in LoginState
  <2>1. /\ [s \in Ids |-> None] \in [Ids -> Uids \cup {None}]
        /\ [s \in Ids |-> None] \in [Ids -> Pids \cup {None}]
        /\ [u \in Uids |-> None] \in [Uids -> Ids \cup {None}]
        /\ [p \in Pids |-> None] \in [Pids -> Ids \cup {None}]
        /\ [u \in Uids |-> "Online"] \in [Uids -> {"Online", "Active"}]
    BY Zenon
  <2>2. [u \in Uids |-> <<>>] \in [Uids -> Seq(Ids)]
    BY <1>2, Zenon
  <2> QED
    BY <1>1, <1>2, <2>1, <2>2, Zenon DEF new, LoginState
<1>6. Tables(st, reused, next_id)
  <2>1. SeatTable(st)
    BY <1>3, <1>4, Zenon DEF SeatTable
  <2>2. UserTables(st)
    BY <1>3, <1>4, ZenonT(30) DEF UserTables
  <2>3. PidTable(st, reused)
    BY <1>4, Zenon DEF PidTable
  <2>4. next_id \in 1..(MaxSessions + 1)
    BY <1>1, LoginAssumption
  <2> QED
    BY <1>4, <1>5, <2>1, <2>2, <2>3, <2>4, Zenon DEF Tables
<1>7. \A t \in Slots : tasks[t].todo = <<>>
  BY <1>1, Zenon DEF Free
<1>8. TasksType
  <2>1. Free \in [todo : Seq(Effect), aborted : BOOLEAN]
    BY <1>2, Zenon DEF Free
  <2> QED
    BY <1>1, <1>7, <2>1, EmptyIsMethod, Zenon DEF TasksType, Todo
<1>9. WorldType /\ HandlesAreFresh
  BY <1>1, Zenon DEF WorldType, HandlesAreFresh
<1>10. OneAfterTheOther
  <2>1. \A t \in Slots : ~IsMethod(t)
    BY <1>7, Zenon DEF IsMethod
  <2>2. Owner(st) = Root
    BY <1>4, Zenon DEF Owner
  <2> QED
    BY <1>1, <1>2, <1>7, <2>1, <2>2, Zenon DEF OneAfterTheOther, Todo
<1>11. DirectoryIsKnown
  <2>1. \A t \in Slots : \A e : ~Has(Todo(t), e)
    BY <1>2, <1>7, Zenon DEF Has, Todo
  <2> QED
    BY <1>1, <1>4, <2>1, Zenon DEF DirectoryIsKnown
<1> QED
  BY <1>1, <1>6, <1>8, <1>9, <1>10, <1>11, Zenon DEF LoginInv

LEMMA LoginStuttersKeep ==
  ASSUME LoginInv, UNCHANGED vars
  PROVE  LoginInv'
<1>1. /\ st' = st /\ next_id' = next_id /\ tasks' = tasks /\ rundir' = rundir
      /\ pending_user_cleanups' = pending_user_cleanups /\ dev_owner' = dev_owner
      /\ plain' = plain /\ reused' = reused /\ late' = late
  BY Zenon DEF vars, history
<1>2. /\ Tables(st, reused, next_id) /\ TasksType /\ WorldType /\ plain \in BOOLEAN
      /\ HandlesAreFresh /\ OneAfterTheOther /\ DirectoryIsKnown
  BY Zenon DEF LoginInv
<1>3. Tables(st', reused', next_id') /\ plain' \in BOOLEAN
  BY <1>1, <1>2, Zenon
<1>4. TasksType' /\ WorldType' /\ HandlesAreFresh'
  BY <1>1, <1>2, Zenon DEF TasksType, WorldType, HandlesAreFresh, Todo
<1>5. \A t \in Slots : (IsMethod(t)' <=> IsMethod(t)) /\ Todo(t)' = Todo(t)
  BY <1>1, Zenon DEF IsMethod, Todo
<1>6. (NoMethodRuns' <=> NoMethodRuns) /\ Owner(st') = Owner(st)
  BY <1>1, <1>5, Zenon DEF NoMethodRuns
<1>7. \A u : Decided(u)' <=> Decided(u)
  BY <1>1, Zenon DEF Decided, Doing, Arg
<1>8. plain' => plain
  BY <1>1, Zenon
<1>9. OneAfterTheOther'
  BY <1>1, <1>2, <1>5, <1>6, <1>8, ZenonT(30) DEF OneAfterTheOther
<1>10. DirectoryIsKnown'
  BY <1>1, <1>2, <1>5, <1>7, <1>8, Zenon DEF DirectoryIsKnown
<1> QED
  BY <1>2, <1>3, <1>4, <1>9, <1>10, NextInv, Zenon

LEMMA LoginNextKeeps ==
  ASSUME LoginInv, [Next]_vars
  PROVE  LoginInv'
<1>1. CASE UNCHANGED vars
  BY <1>1, LoginStuttersKeep, Zenon
<1>2. CASE CreateSession
  BY <1>2, CreateKeeps, Zenon
<1>3. CASE ReleaseSession
  BY <1>3, ReleaseKeeps, Zenon
<1>4. CASE ActivateSession
  BY <1>4, ActivateKeeps, Zenon
<1>5. CASE ObjectMethods
  BY <1>5, ObjectMethodsKeep, Zenon
<1>6. ASSUME NEW t \in Slots, TaskStep(t) PROVE LoginInv'
  <2>1. CASE terminate(t)
    BY <2>1, terminateKeeps, Zenon
  <2>2. CASE ensure(t)
    BY <2>2, ensureKeeps, Zenon
  <2>3. CASE chown_session_devices(t)
    BY <2>3, chownKeeps, Zenon
  <2>4. CASE finalize_session_removal(t)
    BY <2>4, finalizeKeeps, Zenon
  <2>5. CASE still_gone(t)
    BY <2>5, stillGoneKeeps
  <2>6. CASE release(t)
    BY <2>6, rundirReleaseKeeps
  <2>7. CASE forget(t)
    BY <2>7, forgetKeeps
  <2> QED
    BY <1>6, <2>1, <2>2, <2>3, <2>4, <2>5, <2>6, <2>7, Zenon DEF TaskStep
<1> QED
  BY <1>1, <1>2, <1>3, <1>4, <1>5, <1>6, Zenon DEF Next

(***************************************************************************)
(* LoginInv is an invariant of logind (login1.rs, state.rs,                *)
(* runtime_dir.rs).                                                        *)
(***************************************************************************)
THEOREM LoginInvariance == Spec => []LoginInv
<1>1. Init => LoginInv
  BY InitIsFine, Zenon
<1>2. LoginInv /\ [Next]_vars => LoginInv'
  BY LoginNextKeeps, Zenon
<1> QED
  BY <1>1, <1>2, PTL DEF Spec

(***************************************************************************)
(* Whenever no method is under way, the seat's devices belong to the user  *)
(* of the active session, and to root when there is none (device.rs), if   *)
(* the Manager's methods were called one after the other: the chowns that  *)
(* a login, a switch or a removal leaves to do after dropping the mutex    *)
(* end at the right owner whatever the cleanup tasks do in between.        *)
(***************************************************************************)
THEOREM DevicesGoWithTheSeat == Spec => []DevicesFollowActive
<1>1. LoginInv => DevicesFollowActive
  <2> SUFFICES ASSUME LoginInv, NoMethodRuns, plain
               PROVE  dev_owner = IF st.active_session = None THEN Root ELSE uid_of_active(st)
    BY Zenon DEF DevicesFollowActive
  <2>1. dev_owner = Owner(st)
    BY Zenon DEF LoginInv, OneAfterTheOther
  <2> QED
    BY <2>1, Zenon DEF Owner, uid_of_active
<1> QED
  BY <1>1, LoginInvariance, PTL

(***************************************************************************)
(* /run/user/$UID follows its user (runtime_dir.rs): a directory left      *)
(* behind has a cleanup task that will still look at it and that nobody    *)
(* aborted, although handles are overwritten and cleared by older tasks;   *)
(* and a user who is logged in has the directory, unless they came back    *)
(* after the cleanup had decided.                                          *)
(***************************************************************************)
THEOREM DirectoryGoesWithTheUser == Spec => []RuntimeDirFollowsUser
<1>1. ASSUME LoginInv PROVE RuntimeDirFollowsUser
  <2>1. DirectoryIsKnown /\ TasksType /\ WorldType /\ st \in LoginState
    BY <1>1, Zenon DEF LoginInv, Tables
  <2>2. \A t \in Slots : \A e : Has(Todo(t), e) <=> e \in Range(tasks[t].todo)
    BY Zenon DEF Has, Range, Todo
  <2>3. ASSUME plain, NEW u \in rundir \ st.users PROVE \E t \in Slots : WillRelease(t, u)
    <3>1. PICK t \in Slots : /\ Has(Todo(t), Release(u))
                             /\ Has(Todo(t), Wake(u)) => ~tasks[t].aborted
      BY <2>1, <2>3, Zenon DEF DirectoryIsKnown
    <3>2. ASSUME Doing(t, "wake") PROVE ~tasks[t].aborted
      <4>1. PICK v \in Uids : /\ CleanupTodo(tasks[t].todo, v)
                              /\ tasks[t].todo = <<Wake(v), Release(v), Forget(v)>>
        BY <1>1, <3>2, CleanupOf, Zenon
      <4>2. Release(u) \in {Wake(v), Release(v), Forget(v)}
        BY <3>1, <4>1, CleanupIs, Zenon DEF Todo
      <4>3. v = u
        BY <4>2, Zenon DEF Wake, Release, Forget
      <4>4. Has(Todo(t), Wake(u))
        <5>1. Head(tasks[t].todo) = Wake(v)
          BY <4>1
        <5>2. tasks[t].todo \in Seq(Effect) /\ tasks[t].todo # <<>>
          BY <4>1, CleanupIs, Zenon
        <5> QED
          BY <4>3, <5>1, <5>2, HasTail, ZenonT(30) DEF Todo
      <4> QED
        BY <3>1, <4>4, Zenon
    <3> QED
      BY <2>2, <3>1, <3>2, Zenon DEF WillRelease
  <2>4. ASSUME NEW u \in st.users PROVE LogsIn(u) \/ u \in rundir \cup late
    BY <2>1, <2>2, Zenon DEF DirectoryIsKnown, LogsIn
  <2> QED
    BY <2>3, <2>4, ZenonT(30) DEF RuntimeDirFollowsUser
<1> QED
  BY <1>1, LoginInvariance, PTL

-----------------------------------------------------------------------------
FST == INSTANCE FiniteSetTheorems

(* A list without repetitions is as long as the set of its members. *)
LEMMA OnceEach ==
  ASSUME NEW S, NEW q \in Seq(S), IsInjective(q)
  PROVE  Len(q) = Cardinality(Range(q))
<1>1. PICK n \in Nat : n = Len(q) /\ DOMAIN q = 1..n /\ q \in [1..n -> S]
  OBVIOUS
<1>2. q \in FST!Bijection(1..n, Range(q))
  <2>1. q \in [1..n -> Range(q)] /\ \A y \in Range(q) : \E i \in 1..n : q[i] = y
    BY <1>1, Zenon DEF Range
  <2>2. \A i, j \in 1..n : q[i] = q[j] => i = j
    BY <1>1, Zenon DEF IsInjective
  <2> QED
    BY <2>1, <2>2, Zenon DEF FST!Bijection, FST!Injection, FST!Surjection, FST!IsInjective
<1>3. FST!ExistsBijection(1..n, Range(q))
  BY <1>2, Zenon DEF FST!ExistsBijection
<1>4. FST!Cardinality(Range(q)) = n
  BY <1>3, FST!FS_CountingElements, Zenon
<1>5. Cardinality(Range(q)) = FST!Cardinality(Range(q))
  BY Zenon DEF Cardinality, FST!Cardinality
<1> QED
  BY <1>1, <1>4, <1>5, Zenon

(***************************************************************************)
(* The tables of LoginState (state.rs) agree after every method: the seat  *)
(* lists each session once and the active one is among them, every user's  *)
(* list holds exactly that user's sessions, and pid_to_session finds the   *)
(* newest session a pid leads, or nothing only when that pid led two.      *)
(***************************************************************************)
THEOREM LoginTablesAgree == Spec => []TablesAgree
<1>1. ASSUME LoginInv PROVE TablesAgree
  <2>1. /\ SeatTable(st) /\ UserTables(st) /\ PidTable(st, reused) /\ st \in LoginState
        /\ next_id \in 1..(MaxSessions + 1) /\ WorldType /\ plain \in BOOLEAN
    BY <1>1, Zenon DEF LoginInv, Tables
  <2>2. TypeOK
    BY <2>1, Zenon DEF TypeOK, WorldType
  <2>3. st.seat \in Seq(Ids) /\ st.user_sessions \in [Uids -> Seq(Ids)]
    BY <2>1, Zenon DEF LoginState
  <2>4. SeatAgrees
    <3>1. Len(st.seat) = Cardinality(Range(st.seat))
      BY <2>1, <2>3, OnceEach, Zenon DEF SeatTable
    <3> QED
      BY <2>1, <3>1, Zenon DEF SeatTable, SeatAgrees
  <2>5. UsersAgree
    <3>1. ASSUME NEW u \in Uids
          PROVE  Len(st.user_sessions[u]) = Cardinality(Range(st.user_sessions[u]))
      <4>1. st.user_sessions[u] \in Seq(Ids) /\ IsInjective(st.user_sessions[u])
        BY <2>1, <2>3, Zenon DEF UserTables
      <4> QED
        BY <4>1, OnceEach, Zenon
    <3> QED
      BY <2>1, <3>1, Zenon DEF UserTables, UsersAgree
  <2>6. PidsAgree
    <3> SUFFICES ASSUME NEW p \in Pids
                 PROVE  LET found == st.pid_to_session[p] IN
                        /\ found # None => found \in LedBy(p) /\ \A s \in LedBy(p) : s <= found
                        /\ found = None => LedBy(p) = {} \/ p \in reused
      BY Zenon DEF PidsAgree
    <3> QED
      BY <2>1, Zenon DEF PidTable, LedBy
  <2> QED
    BY <2>2, <2>4, <2>5, <2>6, Zenon DEF TablesAgree
<1> QED
  BY <1>1, LoginInvariance, PTL
============================================================================

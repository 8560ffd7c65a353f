----------------------------- MODULE LoopProofs -----------------------------
(***************************************************************************)
(* Proofs about the two loops that keep the machine under control: the     *)
(* manager's loop over the connections of its control socket               *)
(* (ControlSocket), and the epoll loop of PID 1, which watches the manager *)
(* (InitLoop).                                                             *)
(***************************************************************************)
EXTENDS ControlSocket, InitLoop, TLAPS

(***************************************************************************)
(* The control socket keeps the promises of ControlService, for any number *)
(* of clients of the three kinds, any sizes of messages and any number of  *)
(* crashes: every step of ControlSocket is a step of ControlService under  *)
(* the refinement mapping, or changes nothing that a caller can tell.      *)
(***************************************************************************)
Conn ==
  [client : {"idle", "sending", "reading", "leaving", "returned"},
   body : {None, "encoded", "command", "shutdown"},
   unsent : Nat, up : Nat, filled : Nat,
   resp : {None, "Ack", "answer"}, rsize : Nat, unwritten : Nat,
   down : Nat, got : Nat, copen : BOOLEAN, sopen : BOOLEAN,
   told : {"nothing", "ok", "answer", "error"}]

Distinct(s) == \A i, j \in 1..Len(s) : s[i] = s[j] => i = j

TypeOK ==
  /\ conn \in [Calls -> Conn]
  /\ backlog \in Seq(Calls) /\ actions \in Seq(Calls)
  /\ Distinct(backlog) /\ Distinct(actions)
  /\ performed \subseteq Calls

(* What a caller has been told, and by when. *)
ClientOK(r) ==
  /\ r.client = "idle" => r.body = None /\ ~r.sopen /\ ~r.copen
  /\ r.copen <=> r.client \in {"sending", "reading", "leaving"}
  /\ r.client = "sending" => r.unsent > 0
  /\ r.told = "nothing" <=> r.client # "returned"

(* svmgr closes its end when it has written a response to the last piece.   *)
ServerOK(r) ==
  /\ r.sopen => r.body # None /\ ~Written(r)
  /\ Written(r) => r.body # None

(* The pieces on their way to the client, and those it has. *)
PiecesOK(r) ==
  /\ r.sopen /\ r.resp = None => r.got + r.down = 0
  /\ r.copen /\ r.resp # None => r.got + r.down + r.unwritten <= r.rsize
  /\ r.copen /\ r.resp = None => r.got + r.down = 0 \/ r.got + r.down < r.rsize

(* The bookkeeping of svmgr: a connection is in the backlog as long as it   *)
(* is open; what is queued or performed has been acknowledged.              *)
QueuesOK(c) ==
  /\ conn[c].sopen <=> c \in Range(backlog)
  /\ c \in performed \cup Range(actions) => Written(conn[c]) /\ conn[c].resp = "Ack"
  /\ ~(c \in performed /\ c \in Range(actions))

EndsOK(r) == ClientOK(r) /\ ServerOK(r) /\ PiecesOK(r)

CallOK(c) == EndsOK(conn[c]) /\ QueuesOK(c)

CInv == TypeOK /\ (server = "dispatch" => actions # <<>>) /\ \A c \in Calls : CallOK(c)

-----------------------------------------------------------------------------
(* Facts about sequences without repetition. *)
LEMMA RangeAppend ==
  ASSUME NEW S, NEW s \in Seq(S), NEW x \in S
  PROVE  /\ Append(s, x) \in Seq(S) /\ Range(Append(s, x)) = Range(s) \cup {x}
         /\ Distinct(s) /\ x \notin Range(s) => Distinct(Append(s, x))
<1> DEFINE t == Append(s, x)
<1>1. /\ t \in Seq(S) /\ Len(s) \in Nat /\ Len(t) = Len(s) + 1
      /\ DOMAIN s = 1..Len(s) /\ DOMAIN t = 1..Len(t)
      /\ t[Len(s) + 1] = x /\ \A i \in 1..Len(s) : t[i] = s[i]
  OBVIOUS
<1> HIDE DEF t
<1>2. \A i \in 1..Len(t) : i \in 1..Len(s) \/ i = Len(s) + 1
  BY <1>1
<1>3. \A i \in 1..Len(s) : i \in 1..Len(t)
  BY <1>1
<1>4. Len(s) + 1 \in 1..Len(t)
  BY <1>1
<1>5. Range(t) = Range(s) \cup {x}
  BY <1>1, <1>2, <1>3, <1>4, Zenon DEF Range
<1>6. ASSUME Distinct(s), x \notin Range(s) PROVE Distinct(t)
  <2>1. \A i \in 1..Len(s) : s[i] # x
    BY <1>1, <1>6, Zenon DEF Range
  <2> QED
    BY <1>1, <1>2, <1>6, <2>1, Zenon DEF Distinct
<1> QED
  BY <1>1, <1>5, <1>6, Zenon DEF t

LEMMA RangeEmpty == Range(<<>>) = {} /\ Distinct(<<>>)
BY DEF Range, Distinct

LEMMA RangeTail ==
  ASSUME NEW S, NEW s \in Seq(S), s # <<>>, Distinct(s)
  PROVE  /\ Tail(s) \in Seq(S) /\ Distinct(Tail(s))
         /\ Head(s) \in S /\ Head(s) \in Range(s)
         /\ Range(Tail(s)) = Range(s) \ {Head(s)}
<1>1. Tail(s) \in Seq(S) /\ Head(s) = s[1] /\ Head(s) \in S /\ Len(s) \in Nat /\ Len(s) >= 1
  OBVIOUS
<1>2. Len(Tail(s)) = Len(s) - 1 /\ \A i \in 1..(Len(s) - 1) : Tail(s)[i] = s[i + 1]
  OBVIOUS
<1>3. Distinct(Tail(s))
  BY <1>1, <1>2 DEF Distinct
<1>4. /\ Range(s) = {s[i] : i \in 1..Len(s)}
      /\ Range(Tail(s)) = {Tail(s)[i] : i \in 1..(Len(s) - 1)}
  <2>1. DOMAIN s = 1..Len(s) /\ DOMAIN Tail(s) = 1..(Len(s) - 1)
    BY <1>1, <1>2
  <2> QED
    BY <2>1, Zenon DEF Range
<1>5. ASSUME NEW x \in Range(Tail(s)) PROVE x \in Range(s) \ {Head(s)}
  BY <1>1, <1>2, <1>4 DEF Distinct
<1>6. ASSUME NEW x \in Range(s) \ {Head(s)} PROVE x \in Range(Tail(s))
  <2>1. PICK i \in 1..Len(s) : x = s[i] /\ i # 1
    BY <1>1, <1>4
  <2>2. i - 1 \in 1..(Len(s) - 1) /\ Tail(s)[i - 1] = s[i]
    BY <1>1, <1>2, <2>1
  <2> QED
    BY <1>4, <2>1, <2>2, Zenon
<1> QED
  BY <1>1, <1>3, <1>4, <1>5, <1>6

-----------------------------------------------------------------------------
(* What the updates of a connection do to its fields. *)
LEMMA ReturnedFields ==
  ASSUME NEW r \in Conn, NEW what \in {"ok", "answer", "error"}
  PROVE  LET q == Returned(r, what) IN
         /\ q \in Conn
         /\ q.client = "returned" /\ ~q.copen /\ q.told = what
         /\ q.sopen = r.sopen /\ q.resp = r.resp /\ q.body = r.body
         /\ q.unwritten = r.unwritten
         /\ q.got = 0 /\ q.down = 0
BY ZenonT(30) DEF Returned, Conn

LEMMA UnconnectedFields ==
  /\ Unconnected \in Conn
  /\ ClientOK(Unconnected) /\ ServerOK(Unconnected) /\ PiecesOK(Unconnected)
  /\ ~Unconnected.sopen /\ ~Written(Unconnected)
BY Zenon DEF Unconnected, Conn, ClientOK, ServerOK, PiecesOK, Written

LEMMA ConnectedFields ==
  ASSUME NEW c
  PROVE  LET q == Connected(c) IN
         /\ q \in Conn
         /\ q.client \in {"sending", "reading"} /\ q.copen /\ q.told = "nothing"
         /\ q.client = "sending" => q.unsent > 0
         /\ q.sopen /\ q.resp = None /\ q.body = "encoded"
         /\ q.got = 0 /\ q.down = 0
BY DEF Connected, Conn, RequestSize

(* Closed, when svmgr has not closed the connection before. *)
LEMMA ClosedFields ==
  ASSUME NEW r \in Conn
  PROVE  LET q == Closed(r) IN
         /\ q \in Conn
         /\ q.client = r.client /\ q.copen = r.copen /\ q.told = r.told
         /\ q.unsent = r.unsent /\ q.down = r.down /\ q.got = r.got
         /\ ~q.sopen
         /\ ~r.sopen => q = r
         /\ Written(r) => q.resp = r.resp /\ q.unwritten = 0
                          /\ q.body = r.body /\ q.rsize = r.rsize
         /\ r.sopen /\ ~Written(r) =>
              q.resp = None /\ q.body = "encoded" /\ (r.copen => q.rsize = r.rsize)
<1>1. CASE ~r.sopen
  BY <1>1 DEF Closed, Conn, Written
<1>2. CASE r.sopen /\ Written(r)
  BY <1>2, ZenonT(30) DEF Closed, Unanswered, Conn, Written
<1>3. CASE r.sopen /\ ~Written(r)
  BY <1>3, ZenonT(30) DEF Closed, Unanswered, Conn, Written
<1> QED
  BY <1>1, <1>2, <1>3, ZenonT(30)

-----------------------------------------------------------------------------
LEMMA InitCInv == Init => CInv
<1> SUFFICES ASSUME Init PROVE CInv
  OBVIOUS
<1>1. conn \in [Calls -> Conn] /\ \A c \in Calls : conn[c] = Unconnected
  BY UnconnectedFields DEF Init
<1>2. TypeOK
  BY <1>1, RangeEmpty DEF Init, TypeOK
<1>3. \A c \in Calls : CallOK(c)
  BY <1>1, UnconnectedFields, RangeEmpty, Zenon DEF Init, CallOK, EndsOK, QueuesOK
<1> QED
  BY <1>2, <1>3 DEF CInv, Init

LEMMA SetOne ==
  ASSUME CInv, NEW c \in Calls, NEW q \in Conn, Set(c, q)
  PROVE  /\ conn[c] \in Conn /\ EndsOK(conn[c]) /\ QueuesOK(c)
         /\ conn' \in [Calls -> Conn] /\ conn'[c] = q
         /\ \A d \in Calls \ {c} : conn'[d] = conn[d]
BY DEF CInv, TypeOK, CallOK, Set

(* The two records stand for the same fate of their call. *)
SameFate(r, q) ==
  /\ q.body = None <=> r.body = None
  /\ q.resp # None /\ q.unwritten = 0 <=> r.resp # None /\ r.unwritten = 0
  /\ Written(r) => q.resp = r.resp
  /\ q.sopen <=> r.sopen

LEMMA FateDepends ==
  ASSUME NEW r, NEW q, SameFate(r, q), NEW done, NEW queued
  PROVE  Fate(q, done, queued) = Fate(r, done, queued)
BY Zenon DEF SameFate, Fate, Written

(* A step that changes nothing but the pieces on their way, or the client's *)
(* end, changes no fate.                                                    *)
LEMMA QuietStep ==
  ASSUME CInv, NEW c \in Calls, NEW q \in Conn, Set(c, q),
         EndsOK(q), SameFate(conn[c], q),
         UNCHANGED <<server, backlog, actions, performed>>
  PROVE  /\ CInv'
         /\ \A d \in Calls : FateOf(d)' = FateOf(d)
         /\ \A d \in Calls : conn'[d].told = IF d = c THEN q.told ELSE conn[d].told
<1>1. /\ conn[c] \in Conn /\ conn' \in [Calls -> Conn] /\ conn'[c] = q
      /\ \A d \in Calls \ {c} : conn'[d] = conn[d]
  BY SetOne, Zenon
<1>2. TypeOK'
  BY <1>1, Zenon DEF CInv, TypeOK
<1>3. ASSUME NEW d \in Calls PROVE CallOK(d)'
  <2>1. EndsOK(conn[d])'
    BY <1>1, Zenon DEF CInv, CallOK
  <2>2. QueuesOK(d)'
    BY <1>1, ZenonT(30) DEF CInv, CallOK, QueuesOK, SameFate, Written
  <2> QED
    BY <2>1, <2>2, ZenonT(30) DEF CallOK
<1>4. ASSUME NEW d \in Calls PROVE FateOf(d)' = FateOf(d)
  BY <1>1, FateDepends DEF FateOf
<1> QED
  BY <1>1, <1>2, <1>3, <1>4, Zenon DEF CInv

-----------------------------------------------------------------------------
(* How the steps look from outside. *)
Abstract == [Control!AbsNext]_(Control!absvars)

LEMMA Stutter ==
  ASSUME \A d \in Calls : FateOf(d)' = FateOf(d) /\ conn'[d].told = conn[d].told,
         UNCHANGED actions
  PROVE  Abstract
BY DEF Abstract, Control!absvars

LEMMA Tells ==
  ASSUME NEW c \in Calls, NEW what, conn[c].told = "nothing",
         \A d \in Calls : FateOf(d)' = FateOf(d),
         \A d \in Calls : conn'[d].told = IF d = c THEN what ELSE conn[d].told,
         UNCHANGED actions,
         \/ what = "ok" /\ FateOf(c) \in {"accepted", "performed", "lost"}
         \/ what = "answer" /\ FateOf(c) = "answered"
         \/ what = "error"
  PROVE  Abstract
<1> DEFINE told == [d \in Calls |-> conn[d].told]
<1>1. told[c] = "nothing"
  OBVIOUS
<1>2. told' = [told EXCEPT ![c] = what]
  BY Zenon
<1>3. UNCHANGED <<actions, [d \in Calls |-> FateOf(d)]>>
  OBVIOUS
<1>4. Control!Tell(c)
  BY <1>1, <1>2, <1>3, Zenon DEF Control!Tell
<1> QED
  BY <1>4, Zenon DEF Abstract, Control!AbsNext

LEMMA ReturnedEnds ==
  ASSUME NEW r \in Conn, EndsOK(r), NEW what \in {"ok", "answer", "error"}
  PROVE  /\ Returned(r, what) \in Conn /\ EndsOK(Returned(r, what))
         /\ Returned(r, what).told = what /\ SameFate(r, Returned(r, what))
<1> DEFINE q == Returned(r, what)
<1>1. /\ q \in Conn
      /\ q.client = "returned" /\ ~q.copen /\ q.told = what
      /\ q.sopen = r.sopen /\ q.resp = r.resp /\ q.body = r.body
      /\ q.unwritten = r.unwritten
      /\ q.got = 0 /\ q.down = 0
  BY ReturnedFields, Zenon
<1> HIDE DEF q
<1>2. ClientOK(q)
  BY <1>1, Zenon DEF EndsOK, ClientOK
<1>3. ServerOK(q)
  BY <1>1, Zenon DEF EndsOK, ServerOK, Written
<1>4. PiecesOK(q)
  BY <1>1 DEF EndsOK, PiecesOK
<1>5. SameFate(r, q)
  BY <1>1, Zenon DEF SameFate, Written
<1> QED
  BY <1>1, <1>2, <1>3, <1>4, <1>5, Zenon DEF EndsOK, q

(* A client that gives up, for whatever reason. *)
LEMMA Fails ==
  ASSUME CInv, NEW c \in Calls, conn[c].client # "returned",
         Set(c, Returned(conn[c], "error")),
         UNCHANGED <<server, backlog, actions, performed>>
  PROVE  CInv' /\ Abstract
<1> DEFINE q == Returned(conn[c], "error")
<1>1. conn[c] \in Conn /\ EndsOK(conn[c]) /\ conn[c].told = "nothing"
  BY Zenon DEF CInv, TypeOK, CallOK, EndsOK, ClientOK
<1>2. q \in Conn /\ EndsOK(q) /\ q.told = "error" /\ SameFate(conn[c], q)
  BY <1>1, ReturnedEnds, Zenon
<1> HIDE DEF q
<1>3. /\ CInv'
      /\ \A d \in Calls : FateOf(d)' = FateOf(d)
      /\ \A d \in Calls : conn'[d].told = IF d = c THEN q.told ELSE conn[d].told
  BY <1>2, QuietStep, Zenon DEF q
<1> QED
  BY <1>1, <1>2, <1>3, Tells, Zenon

-----------------------------------------------------------------------------
(* The clients' steps. *)
LEMMA SendStep ==
  ASSUME CInv, NEW c \in Calls, Send(c)
  PROVE  CInv' /\ Abstract
<1> DEFINE r == conn[c]
<1>1. r \in Conn /\ EndsOK(r) /\ r.client = "sending" /\ r.unsent > 0
  BY DEF CInv, TypeOK, CallOK, EndsOK, ClientOK, Send
<1>2. CASE ~r.sopen
  BY <1>1, <1>2, Fails, Zenon DEF Send
<1>3. CASE r.sopen
  <2> DEFINE client == IF r.unsent = 1 THEN "reading" ELSE r.client
  <2>1. r.up + 1 \in Nat /\ r.unsent - 1 \in Nat /\ client \in {"sending", "reading"}
        /\ (client = "sending" => r.unsent - 1 > 0)
    BY <1>1 DEF Conn
  <2>2. PICK up \in Nat, unsent \in Nat : up = r.up + 1 /\ unsent = r.unsent - 1
    BY <2>1
  <2> DEFINE q == [r EXCEPT !.up = up, !.unsent = unsent, !.client = client]
  <2>3. Set(c, q) /\ UNCHANGED <<server, backlog, actions, performed>>
    BY <1>3, <2>2, Zenon DEF Send
  <2> HIDE DEF r, client
  <2>4. /\ q \in Conn
        /\ q.client \in {"sending", "reading"} /\ q.copen = r.copen /\ q.told = r.told
        /\ q.client = "sending" => q.unsent > 0
        /\ q.sopen = r.sopen /\ q.resp = r.resp /\ q.body = r.body
        /\ q.unwritten = r.unwritten /\ q.rsize = r.rsize
        /\ q.got = r.got /\ q.down = r.down
    BY <1>1, <2>1, <2>2, ZenonT(60) DEF Conn
  <2> HIDE DEF q
  <2>5. ClientOK(q) /\ ServerOK(q) /\ PiecesOK(q)
    BY <1>1, <2>4, ZenonT(30) DEF EndsOK, ClientOK, ServerOK, PiecesOK, Written
  <2>6. SameFate(r, q)
    BY <2>4, Zenon DEF SameFate
  <2>7. /\ CInv'
        /\ \A d \in Calls : FateOf(d)' = FateOf(d)
        /\ \A d \in Calls : conn'[d].told = IF d = c THEN q.told ELSE conn[d].told
    BY <2>3, <2>4, <2>5, <2>6, QuietStep, Zenon DEF EndsOK, r
  <2> QED
    BY <2>3, <2>4, <2>7, Stutter, Zenon DEF r
<1> QED
  BY <1>2, <1>3, Zenon

LEMMA TimeoutStep ==
  ASSUME CInv, NEW c \in Calls, Timeout(c)
  PROVE  CInv' /\ Abstract
<1> DEFINE r == conn[c]
           q == [r EXCEPT !.client = "leaving"]
<1>1. r \in Conn /\ EndsOK(r) /\ r.client = "reading"
  BY DEF CInv, TypeOK, CallOK, Timeout
<1>2. Set(c, q) /\ UNCHANGED <<server, backlog, actions, performed>>
  BY DEF Timeout
<1> HIDE DEF r
<1>3. /\ q \in Conn
      /\ q.client = "leaving" /\ q.copen = r.copen /\ q.told = r.told
      /\ q.sopen = r.sopen /\ q.resp = r.resp /\ q.body = r.body
      /\ q.unwritten = r.unwritten /\ q.rsize = r.rsize
      /\ q.got = r.got /\ q.down = r.down
  BY <1>1, Zenon DEF Conn
<1> HIDE DEF q
<1>4. ClientOK(q) /\ ServerOK(q) /\ PiecesOK(q)
  BY <1>1, <1>3, Zenon DEF EndsOK, ClientOK, ServerOK, PiecesOK, Written
<1>5. SameFate(r, q)
  BY <1>3, Zenon DEF SameFate
<1>6. /\ CInv'
      /\ \A d \in Calls : FateOf(d)' = FateOf(d)
      /\ \A d \in Calls : conn'[d].told = IF d = c THEN q.told ELSE conn[d].told
  BY <1>2, <1>3, <1>4, <1>5, QuietStep, Zenon DEF EndsOK, r
<1> QED
  BY <1>2, <1>3, <1>6, Stutter, Zenon DEF r

(* dynamodctl believes a response, and the others do, only when it is whole *)
(* and svmgr has therefore written it to the last piece.                    *)
LEMMA ReadStep ==
  ASSUME CInv, NEW c \in Calls, Read(c)
  PROVE  CInv' /\ Abstract
<1> DEFINE r == conn[c]
<1>1. r \in Conn /\ EndsOK(r) /\ QueuesOK(c) /\ r.client = "reading" /\ r.down > 0
      /\ r.copen /\ r.told = "nothing"
  BY DEF CInv, TypeOK, CallOK, EndsOK, ClientOK, Read
<1>2. PICK n \in 1..r.down : Set(c, AfterRead(c, [r EXCEPT !.down = @ - n, !.got = @ + n]))
  BY Zenon DEF Read
<1>3. UNCHANGED <<server, backlog, actions, performed>>
  BY Zenon DEF Read
<1>4. r.down - n \in Nat /\ r.got + n \in Nat
  BY <1>1 DEF Conn
<1>5. PICK down \in Nat, got \in Nat : down = r.down - n /\ got = r.got + n
  BY <1>4
<1> DEFINE q == [r EXCEPT !.down = down, !.got = got]
<1>6. Set(c, AfterRead(c, q))
  BY <1>2, <1>5, Zenon
<1> HIDE DEF r
<1>7. /\ q \in Conn
      /\ q.client = "reading" /\ q.copen = r.copen /\ q.told = r.told
      /\ q.sopen = r.sopen /\ q.resp = r.resp /\ q.body = r.body
      /\ q.unwritten = r.unwritten /\ q.rsize = r.rsize
      /\ q.got + q.down = r.got + r.down /\ q.got > 0
  <2>1. got + down = r.got + r.down /\ got > 0
    BY <1>1, <1>5 DEF Conn
  <2> QED
    BY <1>1, <2>1, Zenon DEF Conn
<1> HIDE DEF q
<1>8. ClientOK(q) /\ ServerOK(q)
  BY <1>1, <1>7, Zenon DEF EndsOK, ClientOK, ServerOK, Written
<1>9. PiecesOK(q)
  BY <1>1, <1>7, ZenonT(30) DEF EndsOK, PiecesOK, Conn
<1>10. SameFate(r, q)
  BY <1>7, ZenonT(30) DEF SameFate
<1>11. ASSUME NEW what \in {"ok", "answer", "error"}, Set(c, Returned(q, what)),
             \/ what = "ok" /\ FateOf(c) \in {"accepted", "performed", "lost"}
             \/ what = "answer" /\ FateOf(c) = "answered"
             \/ what = "error"
      PROVE  CInv' /\ Abstract
  <2> DEFINE t == Returned(q, what)
  <2>1. t \in Conn /\ EndsOK(t) /\ t.told = what /\ SameFate(q, t)
    BY <1>7, <1>8, <1>9, ReturnedEnds, Zenon DEF EndsOK
  <2> HIDE DEF t
  <2>2. SameFate(r, t)
    BY <1>10, <2>1, Zenon DEF SameFate, Written
  <2>3. /\ CInv'
        /\ \A d \in Calls : FateOf(d)' = FateOf(d)
        /\ \A d \in Calls : conn'[d].told = IF d = c THEN t.told ELSE conn[d].told
    BY <1>3, <1>11, <2>1, <2>2, QuietStep, Zenon DEF r, t
  <2> QED
    BY <1>1, <1>3, <1>11, <2>1, <2>3, Tells, Zenon DEF r
<1>12. CASE decode(q.got, q.rsize) = "Ok"
  <2>1. q.got >= q.rsize
    BY <1>7, <1>12, SMTT(30) DEF decode, Conn
  <2>2. r.resp # None /\ r.unwritten = 0 /\ r.body # None
    BY <1>1, <1>7, <2>1 DEF EndsOK, PiecesOK, ServerOK, Written, Conn
  <2>3. CASE r.resp = "Ack"
    <3>1. FateOf(c) \in {"accepted", "performed", "lost"}
      BY <2>2, <2>3, Zenon DEF FateOf, Fate, Written, r
    <3>2. AfterRead(c, q) = Returned(q, "ok")
      BY <1>7, <1>12, <2>3, Zenon DEF AfterRead, outcome
    <3> QED
      BY <1>6, <1>11, <3>1, <3>2, Zenon
  <2>4. CASE r.resp # "Ack"
    <3>1. c \notin performed /\ c \notin Range(actions)
      BY <1>1, <2>4, Zenon DEF QueuesOK, r
    <3>2. FateOf(c) = "answered"
      BY <2>2, <2>4, <3>1, Zenon DEF FateOf, Fate, Written, r
    <3>3. AfterRead(c, q) = Returned(q, "answer")
      BY <1>7, <1>12, <2>4, Zenon DEF AfterRead, outcome
    <3> QED
      BY <1>6, <1>11, <3>2, <3>3, Zenon
  <2> QED
    BY <2>3, <2>4, Zenon
<1>13. CASE decode(q.got, q.rsize) # "Ok" /\ c \in Ctl
  <2>1. Set(c, q)
    BY <1>6, <1>13, Zenon DEF AfterRead
  <2>2. /\ CInv'
        /\ \A d \in Calls : FateOf(d)' = FateOf(d)
        /\ \A d \in Calls : conn'[d].told = IF d = c THEN q.told ELSE conn[d].told
    BY <1>3, <1>7, <1>8, <1>9, <1>10, <2>1, QuietStep, Zenon DEF EndsOK, r
  <2> QED
    BY <1>3, <1>7, <2>2, Stutter, Zenon DEF r
<1>14. CASE decode(q.got, q.rsize) # "Ok" /\ c \notin Ctl
  BY <1>6, <1>11, <1>14, Zenon DEF AfterRead
<1> QED
  BY <1>12, <1>13, <1>14, Zenon

LEMMA Goes ==
  ASSUME NEW c \in Calls, NEW from, NEW to, FateOf(c) = from, FateOf(c)' = to,
         \A d \in Calls \ {c} : FateOf(d)' = FateOf(d)
  PROVE  Control!Goes(c, from, to)
<1> DEFINE fate == [d \in Calls |-> FateOf(d)]
<1>1. fate[c] = from
  OBVIOUS
<1>2. fate' = [fate EXCEPT ![c] = to]
  BY Zenon
<1> QED
  BY <1>1, <1>2, Zenon DEF Control!Goes

LEMMA ConnectStep ==
  ASSUME CInv, NEW c \in Calls, Connect(c)
  PROVE  CInv' /\ Abstract
<1>1. conn[c] \in Conn /\ EndsOK(conn[c]) /\ QueuesOK(c) /\ conn[c].client = "idle"
  BY Zenon DEF CInv, TypeOK, CallOK, Connect
<1>2. conn[c].body = None /\ ~conn[c].sopen /\ conn[c].told = "nothing"
  BY <1>1, Zenon DEF EndsOK, ClientOK
<1>3. CASE ~Listening
  BY <1>1, <1>3, Fails, Zenon DEF Connect
<1>4. CASE Listening
  <2> DEFINE q == Connected(c)
  <2>1. /\ q \in Conn
        /\ q.client \in {"sending", "reading"} /\ q.copen /\ q.told = "nothing"
        /\ q.client = "sending" => q.unsent > 0
        /\ q.sopen /\ q.resp = None /\ q.body = "encoded"
        /\ q.got = 0 /\ q.down = 0
    BY ConnectedFields, Zenon
  <2>2. /\ Set(c, q) /\ backlog' = Append(backlog, c)
        /\ UNCHANGED <<server, actions, performed>>
    BY <1>4, Zenon DEF Connect
  <2> HIDE DEF q
  <2>3. ClientOK(q) /\ ServerOK(q) /\ PiecesOK(q)
    BY <2>1, NoneAssumption DEF ClientOK, ServerOK, PiecesOK, Written
  <2>4. /\ conn' \in [Calls -> Conn] /\ conn'[c] = q
        /\ \A d \in Calls \ {c} : conn'[d] = conn[d]
    BY <2>1, <2>2, SetOne, Zenon
  <2>5. c \notin Range(backlog) /\ c \notin performed /\ c \notin Range(actions)
    BY <1>1, <1>2, Zenon DEF QueuesOK, EndsOK, ServerOK
  <2>6. /\ backlog' \in Seq(Calls) /\ Distinct(backlog')
        /\ Range(backlog') = Range(backlog) \cup {c}
    BY <2>2, <2>5, RangeAppend DEF CInv, TypeOK
  <2>7. TypeOK'
    BY <2>2, <2>4, <2>6, Zenon DEF CInv, TypeOK
  <2>8. ASSUME NEW d \in Calls PROVE CallOK(d)'
    <3>1. EndsOK(conn[d])'
      BY <2>3, <2>4, Zenon DEF CInv, CallOK, EndsOK
    <3>2. CASE d = c
      BY <2>1, <2>2, <2>4, <2>5, <2>6, <3>1, <3>2, Zenon DEF CallOK, QueuesOK
    <3>3. CASE d # c
      BY <2>2, <2>4, <2>6, <3>1, <3>3, Zenon DEF CInv, CallOK, QueuesOK
    <3> QED
      BY <3>2, <3>3, Zenon
  <2>9. CInv'
    BY <2>2, <2>7, <2>8, Zenon DEF CInv
  <2>10. FateOf(c) = "none"
    BY <1>2, Zenon DEF FateOf, Fate
  <2>11. FateOf(c)' = "pending"
    BY <2>1, <2>2, <2>4, <2>5, NoneAssumption, Zenon DEF FateOf, Fate, Written
  <2>12. \A d \in Calls \ {c} : FateOf(d)' = FateOf(d)
    BY <2>2, <2>4, Zenon DEF FateOf
  <2>13. Control!Goes(c, "none", "pending")
    BY <2>10, <2>11, <2>12, Goes, Zenon
  <2>14. UNCHANGED [d \in Calls |-> conn[d].told]
    BY <1>2, <2>1, <2>4, Zenon
  <2>15. Control!Issue(c)
    BY <2>2, <2>13, <2>14, Zenon DEF Control!Issue
  <2> QED
    BY <2>9, <2>15, Zenon DEF Abstract, Control!AbsNext
<1> QED
  BY <1>3, <1>4, Zenon

-----------------------------------------------------------------------------
(* svmgr's steps. *)
LEMMA Served ==
  ASSUME CInv, NEW c \in Calls, Serves(c)
  PROVE  /\ conn[c] \in Conn /\ EndsOK(conn[c]) /\ QueuesOK(c)
         /\ conn[c].sopen /\ conn[c].body # None /\ ~Written(conn[c])
         /\ c \notin performed /\ c \notin Range(actions)
         /\ FateOf(c) = "pending"
<1>1. conn[c] \in Conn /\ EndsOK(conn[c]) /\ QueuesOK(c)
  BY Zenon DEF CInv, TypeOK, CallOK
<1>2. c \in Range(backlog)
  BY RangeTail, Zenon DEF CInv, TypeOK, Serves
<1>3. conn[c].sopen /\ conn[c].body # None /\ ~Written(conn[c])
  BY <1>1, <1>2, Zenon DEF QueuesOK, EndsOK, ServerOK
<1>4. c \notin performed /\ c \notin Range(actions)
  BY <1>1, <1>3, Zenon DEF QueuesOK
<1>5. FateOf(c) = "pending"
  BY <1>3, <1>4, Zenon DEF FateOf, Fate
<1> QED
  BY <1>1, <1>3, <1>4, <1>5, Zenon

LEMMA ClosedEnds ==
  ASSUME NEW q \in Conn, ClientOK(q), PiecesOK(q), q.sopen, q.body # None
  PROVE  /\ Closed(q) \in Conn /\ EndsOK(Closed(q)) /\ ~Closed(q).sopen
         /\ Closed(q).body # None /\ Closed(q).told = q.told
         /\ Written(q) => Written(Closed(q)) /\ Closed(q).resp = q.resp
         /\ ~Written(q) => ~Written(Closed(q))
<1> DEFINE t == Closed(q)
<1>1. /\ t \in Conn
      /\ t.client = q.client /\ t.copen = q.copen /\ t.told = q.told
      /\ t.unsent = q.unsent /\ t.down = q.down /\ t.got = q.got
      /\ ~t.sopen
      /\ Written(q) => t.resp = q.resp /\ t.unwritten = 0
                       /\ t.body = q.body /\ t.rsize = q.rsize
      /\ ~Written(q) => t.resp = None /\ t.body = "encoded" /\ (q.copen => t.rsize = q.rsize)
  BY ClosedFields, Zenon
<1> HIDE DEF t
<1>2. CASE Written(q)
  <2>1. ClientOK(t)
    BY <1>1, <1>2, Zenon DEF ClientOK
  <2>2. ServerOK(t) /\ Written(t)
    BY <1>1, <1>2, Zenon DEF ServerOK, Written
  <2>3. PiecesOK(t)
    BY <1>1, <1>2, Zenon DEF PiecesOK, Written, Conn
  <2> QED
    BY <1>1, <1>2, <2>1, <2>2, <2>3, Zenon DEF EndsOK, t
<1>3. CASE ~Written(q)
  <2>1. ClientOK(t)
    <3>1. q.client # "idle"
      BY Zenon DEF ClientOK
    <3> QED
      BY <1>1, <3>1, Zenon DEF ClientOK
  <2>2. ServerOK(t) /\ ~Written(t)
    BY <1>1, <1>3, Zenon DEF ServerOK, Written
  <2>3. PiecesOK(t)
    BY <1>1, <1>3 DEF PiecesOK, Written, Conn
  <2> QED
    BY <1>1, <1>3, <2>1, <2>2, <2>3, NoneAssumption, Zenon DEF EndsOK, t
<1> QED
  BY <1>2, <1>3, Zenon

(* The connection is closed and leaves the backlog. *)
LEMMA HangsUp ==
  ASSUME CInv, NEW c \in Calls, Serves(c), NEW q \in Conn, ClientOK(q), PiecesOK(q),
         q.sopen, q.body # None, Hangup(c, q)
  PROVE  /\ conn' \in [Calls -> Conn] /\ conn'[c] = Closed(q)
         /\ \A d \in Calls \ {c} : conn'[d] = conn[d]
         /\ backlog' \in Seq(Calls) /\ Distinct(backlog')
         /\ \A d \in Calls : EndsOK(conn'[d]) /\ (conn'[d].sopen <=> d \in Range(backlog'))
<1>1. Closed(q) \in Conn /\ EndsOK(Closed(q)) /\ ~Closed(q).sopen
  BY ClosedEnds, Zenon
<1>2. /\ conn' \in [Calls -> Conn] /\ conn'[c] = Closed(q)
      /\ \A d \in Calls \ {c} : conn'[d] = conn[d]
  BY <1>1, SetOne, Zenon DEF Hangup
<1>3. /\ backlog' \in Seq(Calls) /\ Distinct(backlog')
      /\ Range(backlog') = Range(backlog) \ {c}
  BY RangeTail, Zenon DEF CInv, TypeOK, Serves, Hangup
<1>4. ASSUME NEW d \in Calls
      PROVE  EndsOK(conn'[d]) /\ (conn'[d].sopen <=> d \in Range(backlog'))
  BY <1>1, <1>2, <1>3, Zenon DEF CInv, CallOK, QueuesOK
<1> QED
  BY <1>2, <1>3, <1>4, Zenon

LEMMA Drops ==
  ASSUME CInv, NEW c \in Calls, Serves(c), NEW q \in Conn, ClientOK(q), PiecesOK(q),
         q.sopen, q.body # None, ~Written(q), q.told = conn[c].told,
         Hangup(c, q), UNCHANGED <<server, actions, performed>>
  PROVE  CInv' /\ Abstract
<1>1. /\ conn' \in [Calls -> Conn] /\ conn'[c] = Closed(q)
      /\ \A d \in Calls \ {c} : conn'[d] = conn[d]
      /\ backlog' \in Seq(Calls) /\ Distinct(backlog')
      /\ \A d \in Calls : EndsOK(conn'[d]) /\ (conn'[d].sopen <=> d \in Range(backlog'))
  BY HangsUp, Zenon
<1>2. /\ ~Closed(q).sopen /\ Closed(q).body # None /\ Closed(q).told = q.told
      /\ ~Written(Closed(q))
  BY ClosedEnds, Zenon
<1>3. c \notin performed /\ c \notin Range(actions) /\ FateOf(c) = "pending"
  BY Served, Zenon
<1>4. TypeOK'
  BY <1>1, Zenon DEF CInv, TypeOK
<1>5. ASSUME NEW d \in Calls PROVE QueuesOK(d)'
  <2>1. CASE d = c
    BY <1>1, <1>3, <2>1, Zenon DEF QueuesOK
  <2>2. CASE d # c
    BY <1>1, <2>2, Zenon DEF CInv, CallOK, QueuesOK
  <2> QED
    BY <2>1, <2>2, Zenon
<1>6. CInv'
  BY <1>1, <1>4, <1>5, Zenon DEF CInv, CallOK
<1>7. FateOf(c)' = "dropped"
  BY <1>1, <1>2, <1>3, Zenon DEF FateOf, Fate
<1>8. \A d \in Calls \ {c} : FateOf(d)' = FateOf(d)
  BY <1>1, Zenon DEF FateOf
<1>9. UNCHANGED [d \in Calls |-> conn[d].told]
  BY <1>1, <1>2, Zenon
<1>10. Control!Drop(c)
  BY <1>3, <1>7, <1>8, <1>9, Goes, Zenon DEF Control!Drop
<1> QED
  BY <1>6, <1>10, Zenon DEF Abstract, Control!AbsNext, Control!Settle

LEMMA GiveUpStep ==
  ASSUME CInv, NEW c \in Calls, GiveUp(c)
  PROVE  CInv' /\ Abstract
<1>1. Serves(c) /\ Hangup(c, conn[c]) /\ UNCHANGED <<server, actions, performed>>
  BY Zenon DEF GiveUp
<1>2. /\ conn[c] \in Conn /\ ClientOK(conn[c]) /\ PiecesOK(conn[c])
      /\ conn[c].sopen /\ conn[c].body # None /\ ~Written(conn[c])
  BY <1>1, Served, Zenon DEF EndsOK
<1> QED
  BY <1>1, <1>2, Drops, Zenon

(* The response has at least one piece: nothing is settled by reading. *)
LEMMA handle_requestFits ==
  ASSUME NEW c, NEW body \in RequestsOf(c), c \in Calls, NEW resp \in handle_request(body)
  PROVE  /\ resp.kind \in {"Ack", "answer"} /\ resp.size \in Nat /\ resp.size > 0
         /\ resp = Ack => body \in {"command", "shutdown"}
<1>1. body \in {"command", "query", "shutdown"}
  BY DEF RequestsOf, Calls, CtlRequests, LogindRequests, BridgeRequests, UnitMethods,
         UnitQueries, ManagerMethods, UnitObject, UnitProperties
<1>2. resp \in {Ack, Answer(1), Answer(MaxPieces), Answer(MaxPieces + 1)}
  BY <1>1, Zenon DEF handle_request
<1>3. resp = Ack => body # "query"
  BY <1>1, SMTT(30) DEF handle_request, Ack, Answer
<1> QED
  BY <1>1, <1>2, <1>3, PiecesAssumption DEF Ack, Answer

LEMMA ServerReadStep ==
  ASSUME CInv, NEW c \in Calls, ServerRead(c)
  PROVE  CInv' /\ Abstract
<1> DEFINE r == conn[c]
<1>1. Serves(c) /\ r.resp = None /\ r.up > 0 /\ UNCHANGED <<server, actions, performed>>
  BY Zenon DEF ServerRead
<1>2. r \in Conn /\ EndsOK(r) /\ r.sopen /\ r.body # None
  BY <1>1, Served, Zenon
<1>3. PICK n \in 1..r.up :
        LET q == [r EXCEPT !.up = @ - n, !.filled = @ + n]
        IN IF decode(q.filled, RequestSize(c)) = "Incomplete"
           THEN Set(c, q) /\ UNCHANGED backlog
           ELSE \E body \in RequestsOf(c) :
                \E resp \in handle_request(body) :
                  IF TooLarge(resp.size) THEN Hangup(c, q)
                  ELSE /\ Set(c, [q EXCEPT
                                !.resp = resp.kind, !.rsize = resp.size,
                                !.unwritten = resp.size,
                                !.body = IF resp = Ack THEN body ELSE @])
                       /\ UNCHANGED backlog
  BY Zenon DEF ServerRead
<1>4. r.up - n \in Nat /\ r.filled + n \in Nat
  BY <1>2 DEF Conn
<1>5. PICK up \in Nat, filled \in Nat : up = r.up - n /\ filled = r.filled + n
  BY <1>4, Zenon
<1> DEFINE q == [r EXCEPT !.up = up, !.filled = filled]
<1>6. \/ Set(c, q) /\ UNCHANGED backlog
      \/ \E body \in RequestsOf(c) : \E resp \in handle_request(body) :
           \/ Hangup(c, q)
           \/ /\ Set(c, [q EXCEPT !.resp = resp.kind, !.rsize = resp.size,
                                 !.unwritten = resp.size,
                                 !.body = IF resp = Ack THEN body ELSE q.body])
              /\ UNCHANGED backlog
  BY <1>3, <1>5, Zenon
<1> HIDE DEF r
<1>7. /\ q \in Conn
      /\ q.client = r.client /\ q.copen = r.copen /\ q.told = r.told
      /\ q.unsent = r.unsent
      /\ q.sopen = r.sopen /\ q.resp = r.resp /\ q.body = r.body
      /\ q.unwritten = r.unwritten /\ q.rsize = r.rsize
      /\ q.got = r.got /\ q.down = r.down
  BY <1>2, ZenonT(30) DEF Conn
<1> HIDE DEF q
<1>8. ClientOK(q) /\ ServerOK(q) /\ PiecesOK(q) /\ ~Written(q)
  BY <1>1, <1>2, <1>7, Zenon DEF EndsOK, ClientOK, ServerOK, PiecesOK, Written
<1>9. ASSUME NEW t \in Conn, Set(c, t), UNCHANGED backlog, EndsOK(t),
             SameFate(r, t), t.told = r.told
      PROVE  CInv' /\ Abstract
  <2>1. /\ CInv'
        /\ \A d \in Calls : FateOf(d)' = FateOf(d)
        /\ \A d \in Calls : conn'[d].told = IF d = c THEN t.told ELSE conn[d].told
    BY <1>1, <1>9, QuietStep, Zenon DEF r
  <2> QED
    BY <1>1, <1>9, <2>1, Stutter, Zenon DEF r
<1>10. CASE Set(c, q) /\ UNCHANGED backlog
  <2>1. SameFate(r, q)
    BY <1>7, Zenon DEF SameFate
  <2> QED
    BY <1>7, <1>8, <1>9, <1>10, <2>1, Zenon DEF EndsOK
<1>11. CASE Hangup(c, q)
  BY <1>1, <1>2, <1>7, <1>8, <1>11, Drops, Zenon DEF r
<1>12. ASSUME NEW body \in RequestsOf(c), NEW resp \in handle_request(body),
              Set(c, [q EXCEPT !.resp = resp.kind, !.rsize = resp.size,
                               !.unwritten = resp.size,
                               !.body = IF resp = Ack THEN body ELSE q.body]),
              UNCHANGED backlog
       PROVE  CInv' /\ Abstract
  <2>1. /\ resp.kind \in {"Ack", "answer"} /\ resp.size \in Nat /\ resp.size > 0
        /\ resp = Ack => body \in {"command", "shutdown"}
    BY handle_requestFits, Zenon
  <2>2. PICK kind \in {"Ack", "answer"}, size \in Nat : kind = resp.kind /\ size = resp.size
    BY <2>1, Zenon
  <2>3. PICK what \in {None, "encoded", "command", "shutdown"} :
          what = (IF resp = Ack THEN body ELSE q.body) /\ what # None
    BY <1>2, <1>7, <2>1, NoneAssumption, Zenon DEF Conn
  <2> DEFINE t == [q EXCEPT !.resp = kind, !.rsize = size, !.unwritten = size, !.body = what]
  <2>4. Set(c, t)
    BY <1>12, <2>2, <2>3, Zenon
  <2>5. /\ t \in Conn
        /\ t.client = q.client /\ t.copen = q.copen /\ t.told = q.told
        /\ t.unsent = q.unsent
        /\ t.sopen = q.sopen /\ t.resp = kind /\ t.body = what
        /\ t.unwritten = size /\ t.rsize = size
        /\ t.got = q.got /\ t.down = q.down
    BY <1>7, ZenonT(30) DEF Conn
  <2> HIDE DEF t
  <2>6. size > 0 /\ kind # None /\ what # None
    BY <2>1, <2>2, <2>3, NoneAssumption
  <2>7. q.client # "idle"
    BY <1>2, <1>7, <1>8, Zenon DEF ClientOK
  <2>8. ClientOK(t) /\ ~Written(t)
    BY <1>8, <2>5, <2>6, <2>7, SMTT(30) DEF ClientOK, Written
  <2>9. ServerOK(t)
    BY <2>5, <2>6, <2>8, ZenonT(30) DEF ServerOK
  <2>10. PiecesOK(t)
    BY <1>1, <1>2, <1>7, <1>8, <2>5, <2>6, SMTT(30) DEF PiecesOK, Conn
  <2>11. SameFate(r, t)
    BY <1>1, <1>2, <1>7, <2>5, <2>6, SMTT(30) DEF SameFate, Written
  <2> QED
    BY <1>7, <1>9, <1>12, <2>4, <2>5, <2>8, <2>9, <2>10, <2>11, Zenon DEF EndsOK
<1> QED
  BY <1>6, <1>10, <1>11, <1>12, ZenonT(60)

(* With its last piece the response is out, and the call is settled: an     *)
(* acknowledged one is queued in the same step.                             *)
LEMMA WriteStep ==
  ASSUME CInv, NEW c \in Calls, Write(c)
  PROVE  CInv' /\ Abstract
<1> DEFINE r == conn[c]
<1>1. Serves(c) /\ r.resp # None /\ UNCHANGED <<server, performed>>
  BY Zenon DEF Write
<1>2. /\ r \in Conn /\ EndsOK(r) /\ r.sopen /\ r.body # None /\ ~Written(r)
      /\ c \notin performed /\ c \notin Range(actions) /\ FateOf(c) = "pending"
  BY <1>1, Served, ZenonT(30)
<1>3. r.unwritten - 1 \in Nat /\ r.down + 1 \in Nat
  BY <1>1, <1>2 DEF Conn, Written
<1>4. PICK unwritten \in Nat, down \in Nat : unwritten = r.unwritten - 1 /\ down = r.down + 1
  BY <1>3, Zenon
<1> DEFINE q == [r EXCEPT !.unwritten = unwritten, !.down = down]
<1>5. \/ Hangup(c, r) /\ UNCHANGED actions
      \/ r.copen /\ q.unwritten > 0 /\ Set(c, q) /\ UNCHANGED <<backlog, actions>>
      \/ r.copen /\ q.unwritten = 0 /\ Hangup(c, q) /\ actions' = Collected(c)
  BY <1>4, Zenon DEF Write
<1> HIDE DEF r
<1>6. /\ q \in Conn
      /\ q.client = r.client /\ q.copen = r.copen /\ q.told = r.told
      /\ q.unsent = r.unsent
      /\ q.sopen = r.sopen /\ q.resp = r.resp /\ q.body = r.body
      /\ q.unwritten = unwritten /\ q.rsize = r.rsize
      /\ q.got = r.got /\ q.down = down
  BY <1>2, ZenonT(30) DEF Conn
<1> HIDE DEF q
<1>7. ClientOK(q)
  BY <1>2, <1>6, Zenon DEF EndsOK, ClientOK
<1>8. PiecesOK(q)
  <2>1. down + unwritten = r.down + r.unwritten
    BY <1>2, <1>4 DEF Conn
  <2> QED
    BY <1>1, <1>2, <1>6, <2>1, SMTT(30) DEF EndsOK, PiecesOK, Conn
<1>9. CASE Hangup(c, r) /\ UNCHANGED actions
  BY <1>1, <1>2, <1>9, Drops, Zenon DEF EndsOK, r
<1>10. CASE r.copen /\ q.unwritten > 0 /\ Set(c, q) /\ UNCHANGED <<backlog, actions>>
  <2>1. ServerOK(q) /\ SameFate(r, q)
    BY <1>2, <1>6, <1>10 DEF EndsOK, ServerOK, SameFate, Written
  <2>2. /\ CInv'
        /\ \A d \in Calls : FateOf(d)' = FateOf(d)
        /\ \A d \in Calls : conn'[d].told = IF d = c THEN q.told ELSE conn[d].told
    BY <1>1, <1>6, <1>7, <1>8, <1>10, <2>1, QuietStep, Zenon DEF EndsOK, r
  <2> QED
    BY <1>6, <1>10, <2>2, Stutter, ZenonT(30) DEF r
<1>11. CASE r.copen /\ q.unwritten = 0 /\ Hangup(c, q) /\ actions' = Collected(c)
  <2>1. /\ conn' \in [Calls -> Conn] /\ conn'[c] = Closed(q)
        /\ \A d \in Calls \ {c} : conn'[d] = conn[d]
        /\ backlog' \in Seq(Calls) /\ Distinct(backlog')
        /\ \A d \in Calls : EndsOK(conn'[d]) /\ (conn'[d].sopen <=> d \in Range(backlog'))
    BY <1>1, <1>2, <1>6, <1>7, <1>8, <1>11, HangsUp, Zenon
  <2>2. Written(q)
    BY <1>1, <1>6, <1>11, Zenon DEF Written
  <2>3. /\ Closed(q).body # None /\ Closed(q).told = r.told
        /\ Written(Closed(q)) /\ Closed(q).resp = r.resp
    BY <1>2, <1>6, <1>7, <1>8, <2>2, ClosedEnds, Zenon
  <2>4. r.told = "nothing"
    BY <1>2, <1>11, Zenon DEF EndsOK, ClientOK
  <2>5. \A d \in Calls \ {c} : d \in Range(actions') <=> d \in Range(actions)
    BY <1>11, RangeAppend, SMTT(30) DEF Collected, CInv, TypeOK
  <2>6. /\ actions' \in Seq(Calls) /\ Distinct(actions')
        /\ c \in Range(actions') <=> r.resp = "Ack"
    BY <1>2, <1>11, RangeAppend DEF Collected, CInv, TypeOK, r
  <2>7. TypeOK'
    BY <1>1, <2>1, <2>6, Zenon DEF CInv, TypeOK
  <2>8. ASSUME NEW d \in Calls PROVE QueuesOK(d)'
    <3>1. CASE d = c
      BY <1>1, <1>2, <2>1, <2>3, <2>6, <3>1, Zenon DEF QueuesOK
    <3>2. CASE d # c
      BY <1>1, <2>1, <2>5, <3>2, Zenon DEF CInv, CallOK, QueuesOK
    <3> QED
      BY <3>1, <3>2, Zenon
  <2>9. CInv'
    BY <1>1, <2>1, <2>7, <2>8, Zenon DEF CInv, CallOK, Serves
  <2>10. \A d \in Calls \ {c} : FateOf(d)' = FateOf(d)
    BY <1>1, <2>1, <2>5, Zenon DEF FateOf, Fate
  <2>11. UNCHANGED [d \in Calls |-> conn[d].told]
    BY <2>1, <2>3, Zenon DEF r
  <2>12. [d \in Calls |-> conn[d].told][c] = "nothing"
    BY <2>4, Zenon DEF r
  <2>13. CASE r.resp = "Ack"
    <3>1. FateOf(c)' = "accepted"
      BY <1>1, <1>2, <2>1, <2>3, <2>6, <2>13, Zenon DEF FateOf, Fate
    <3>2. actions' = Append(actions, c)
      BY <1>11, <2>13, Zenon DEF Collected, r
    <3>3. Control!Goes(c, "pending", "accepted")
      BY <1>2, <2>10, <3>1, Goes, Zenon
    <3>4. Control!Accept(c)
      BY <2>11, <2>12, <3>2, <3>3, Zenon DEF Control!Accept
    <3> QED
      BY <2>9, <3>4, Zenon DEF Abstract, Control!AbsNext, Control!Settle
  <2>14. CASE r.resp # "Ack"
    <3>1. FateOf(c)' = "answered"
      BY <1>1, <1>2, <2>1, <2>3, <2>6, <2>14, Zenon DEF FateOf, Fate
    <3>2. actions' = actions
      BY <1>11, <2>14, Zenon DEF Collected, r
    <3>3. Control!Goes(c, "pending", "answered")
      BY <1>2, <2>10, <3>1, Goes, Zenon
    <3>4. Control!Answer(c)
      BY <2>11, <2>12, <3>2, <3>3, Zenon DEF Control!Answer
    <3> QED
      BY <2>9, <3>4, Zenon DEF Abstract, Control!AbsNext, Control!Settle
  <2> QED
    BY <2>13, <2>14, Zenon
<1> QED
  BY <1>5, <1>9, <1>10, <1>11, Zenon

(* Steps that concern svmgr's loop only. *)
LEMMA LoopStep ==
  ASSUME CInv, PollEnds \/ bind
  PROVE  CInv' /\ Abstract
<1>1. UNCHANGED <<conn, backlog, actions, performed>>
  BY Zenon DEF PollEnds, bind
<1>2. TypeOK' /\ \A d \in Calls : CallOK(d)'
  BY <1>1, Zenon DEF CInv, TypeOK, CallOK, QueuesOK
<1>3. server' = "dispatch" => actions' # <<>>
  BY <1>1, Zenon DEF PollEnds, bind
<1>4. \A d \in Calls : FateOf(d)' = FateOf(d)
  BY <1>1, Zenon DEF FateOf
<1> QED
  BY <1>1, <1>2, <1>3, <1>4, Stutter, Zenon DEF CInv

-----------------------------------------------------------------------------
(* svmgr goes down. *)
LEMMA DiesStep ==
  ASSUME CInv, NEW how, how # "dispatch", Dies(how), NEW doing \in SUBSET Range(actions),
         performed' = performed \cup doing
  PROVE  /\ CInv'
         /\ \A d \in Calls : conn'[d].told = conn[d].told
         /\ \A d \in Calls : FateOf(d)' =
              IF FateOf(d) = "pending" THEN "dropped"
              ELSE IF d \in doing THEN "performed"
              ELSE IF FateOf(d) = "accepted" THEN "lost" ELSE FateOf(d)
<1>1. ASSUME NEW d \in Calls
      PROVE  /\ conn[d] \in Conn /\ EndsOK(conn[d]) /\ QueuesOK(d)
             /\ Closed(conn[d]) \in Conn /\ EndsOK(Closed(conn[d])) /\ ~Closed(conn[d]).sopen
             /\ Closed(conn[d]).told = conn[d].told
             /\ Closed(conn[d]).body = None <=> conn[d].body = None
             /\ Written(Closed(conn[d])) <=> Written(conn[d])
             /\ Written(conn[d]) => Closed(conn[d]).resp = conn[d].resp
  <2>1. conn[d] \in Conn /\ EndsOK(conn[d]) /\ QueuesOK(d)
    BY ZenonT(30) DEF CInv, TypeOK, CallOK
  <2>2. CASE ~conn[d].sopen
    <3>1. Closed(conn[d]) = conn[d]
      BY <2>1, <2>2, ClosedFields, Zenon
    <3> QED
      BY <2>1, <2>2, <3>1, Zenon
  <2>3. CASE conn[d].sopen
    BY <2>1, <2>3, ClosedEnds, ZenonT(30) DEF EndsOK, ServerOK
  <2> QED
    BY <2>1, <2>2, <2>3, Zenon
<1>2. \A d \in Calls : conn'[d] = Closed(conn[d])
  BY Zenon DEF Dies
<1>3. conn' \in [Calls -> Conn]
  BY <1>1, Zenon DEF Dies
<1>4. backlog' = <<>> /\ actions' = <<>> /\ Range(backlog') = {} /\ Range(actions') = {}
  BY RangeEmpty, Zenon DEF Dies
<1>5. Range(actions) \subseteq Calls
  BY DEF CInv, TypeOK, Range
<1>6. TypeOK'
  BY <1>3, <1>4, <1>5, RangeEmpty DEF CInv, TypeOK
<1>7. ASSUME NEW d \in Calls PROVE CallOK(d)'
  BY <1>1, <1>2, <1>4, Zenon DEF CallOK, QueuesOK
<1>8. CInv'
  BY <1>6, <1>7, Zenon DEF CInv, Dies
<1>9. ASSUME NEW d \in Calls
      PROVE  FateOf(d)' = IF FateOf(d) = "pending" THEN "dropped"
                          ELSE IF d \in doing THEN "performed"
                          ELSE IF FateOf(d) = "accepted" THEN "lost" ELSE FateOf(d)
  <2> DEFINE r == conn[d]
             q == Closed(conn[d])
  <2>1. /\ EndsOK(r) /\ QueuesOK(d) /\ ~q.sopen
        /\ q.body = None <=> r.body = None
        /\ Written(q) <=> Written(r)
        /\ Written(r) => q.resp = r.resp
    BY <1>1, Zenon
  <2>2. FateOf(d)' = Fate(q, d \in performed \cup doing, d \in {})
    BY <1>2, <1>4, Zenon DEF FateOf
  <2>3. d \in performed \cup Range(actions) => Written(r) /\ r.resp = "Ack" /\ r.body # None
    BY <2>1, Zenon DEF QueuesOK, EndsOK, ServerOK
  <2> HIDE DEF r, q
  <2>4. FateOf(d) = Fate(r, d \in performed, d \in Range(actions))
    BY Zenon DEF FateOf, r
  <2>5. CASE d \in performed \cup Range(actions)
    BY <2>1, <2>2, <2>3, <2>4, <2>5, Zenon DEF Fate
  <2>6. CASE d \notin performed \cup Range(actions)
    BY <2>1, <2>2, <2>4, <2>6, Zenon DEF Fate
  <2> QED
    BY <2>5, <2>6, Zenon
<1> QED
  BY <1>1, <1>2, <1>8, <1>9, Zenon

LEMMA CrashStep ==
  ASSUME CInv, Crash
  PROVE  CInv' /\ Abstract
<1>1. /\ CInv'
      /\ \A d \in Calls : conn'[d].told = conn[d].told
      /\ \A d \in Calls : FateOf(d)' =
           IF FateOf(d) = "pending" THEN "dropped"
           ELSE IF d \in {} THEN "performed"
           ELSE IF FateOf(d) = "accepted" THEN "lost" ELSE FateOf(d)
  <2>1. Dies("down") /\ "down" # "dispatch"
    BY Zenon DEF Crash
  <2>2. {} \in SUBSET Range(actions) /\ performed' = performed \cup {}
    BY Zenon DEF Crash
  <2> QED
    BY <2>1, <2>2, DiesStep, Zenon
<1>2. actions' = <<>> /\ UNCHANGED [d \in Calls |-> conn[d].told]
  BY <1>1 DEF Crash, Dies
<1>3. Control!GoDown({})
  BY <1>1, <1>2, Zenon DEF Control!GoDown
<1> QED
  BY <1>1, <1>3, Zenon DEF Abstract, Control!AbsNext, Control!Down

LEMMA dispatchStep ==
  ASSUME CInv, dispatch_control_actions
  PROVE  CInv' /\ Abstract
<1>1. server = "dispatch" /\ actions # <<>>
  BY Zenon DEF CInv, dispatch_control_actions
<1>2. PICK c \in Calls : c = Head(actions) /\ c \in Range(actions)
  BY <1>1, RangeTail, Zenon DEF CInv, TypeOK
<1>3. server = "dispatch" /\ actions # <<>> /\ performed' = performed \cup {c}
  BY <1>1, <1>2, Zenon DEF dispatch_control_actions
<1>4. QueuesOK(c) /\ EndsOK(conn[c])
  BY <1>2, Zenon DEF CInv, CallOK
<1>5. c \notin performed /\ Written(conn[c]) /\ conn[c].resp = "Ack" /\ conn[c].body # None
  BY <1>2, <1>4, Zenon DEF QueuesOK, EndsOK, ServerOK
<1>6. FateOf(c) = "accepted"
  BY <1>2, <1>5, Zenon DEF FateOf, Fate
<1>7. CASE conn[c].body = "shutdown"
  <2>1. Dies("exited") /\ "exited" # "dispatch"
    BY <1>2, <1>7, Zenon DEF dispatch_control_actions
  <2>2. {c} \in SUBSET Range(actions)
    BY <1>2
  <2>3. /\ CInv'
        /\ \A d \in Calls : conn'[d].told = conn[d].told
        /\ \A d \in Calls : FateOf(d)' =
             IF FateOf(d) = "pending" THEN "dropped"
             ELSE IF d \in {c} THEN "performed"
             ELSE IF FateOf(d) = "accepted" THEN "lost" ELSE FateOf(d)
    BY <1>3, <2>1, <2>2, DiesStep, Zenon
  <2>4. actions' = <<>> /\ UNCHANGED [d \in Calls |-> conn[d].told]
    BY <2>1, <2>3, Zenon DEF Dies
  <2>5. Control!GoDown({c})
    BY <1>6, <2>3, <2>4, Zenon DEF Control!GoDown
  <2> QED
    BY <1>2, <1>3, <2>3, <2>5, Zenon DEF Abstract, Control!AbsNext, Control!Down
<1>8. CASE conn[c].body # "shutdown"
  <2>1. /\ actions' = Tail(actions) /\ UNCHANGED <<conn, backlog>>
        /\ server' = IF Len(actions) = 1 THEN "poll" ELSE "dispatch"
    BY <1>2, <1>8, Zenon DEF dispatch_control_actions
  <2>2. /\ actions' \in Seq(Calls) /\ Distinct(actions')
        /\ Range(actions') = Range(actions) \ {c}
    BY <1>2, <1>3, <2>1, RangeTail, Zenon DEF CInv, TypeOK
  <2>3. server' = "dispatch" => actions' # <<>>
    <3>1. actions \in Seq(Calls)
      BY Zenon DEF CInv, TypeOK
    <3>2. Len(actions) # 1 => Len(Tail(actions)) # 0
      BY <1>3, <3>1
    <3>3. Len(<<>>) = 0
      BY Zenon
    <3> QED
      BY <2>1, <3>2, <3>3, Zenon
  <2>4. TypeOK'
    BY <1>2, <1>3, <2>1, <2>2, Zenon DEF CInv, TypeOK
  <2>5. ASSUME NEW d \in Calls PROVE CallOK(d)'
    BY <1>2, <1>3, <1>5, <2>1, <2>2, Zenon DEF CInv, CallOK, QueuesOK
  <2>6. CInv'
    BY <2>3, <2>4, <2>5, Zenon DEF CInv
  <2>7. FateOf(c)' = "performed"
    BY <1>3, <1>5, <2>1, Zenon DEF FateOf, Fate
  <2>8. \A d \in Calls \ {c} : FateOf(d)' = FateOf(d)
    BY <1>3, <2>1, <2>2, Zenon DEF FateOf, Fate
  <2>9. Control!Goes(c, "accepted", "performed")
    BY <1>2, <1>6, <2>7, <2>8, Goes, Zenon
  <2>10. UNCHANGED [d \in Calls |-> conn[d].told]
    BY <2>1, Zenon
  <2>11. Control!Perform
    BY <1>2, <1>3, <2>1, <2>9, <2>10, Zenon DEF Control!Perform
  <2> QED
    BY <2>6, <2>11, Zenon DEF Abstract, Control!AbsNext
<1> QED
  BY <1>7, <1>8, Zenon

-----------------------------------------------------------------------------
LEMMA NextStep ==
  ASSUME CInv, [Next]_vars
  PROVE  CInv' /\ Abstract
<1>1. ASSUME NEW c \in Calls, Leave(c) \/ Killed(c) \/ ReadEof(c)
      PROVE  CInv' /\ Abstract
  BY <1>1, Fails, Zenon DEF Leave, Killed, ReadEof
<1>2. CASE UNCHANGED vars
  <2>1. CInv'
    BY <1>2, Zenon DEF CInv, TypeOK, CallOK, QueuesOK, vars
  <2>2. \A d \in Calls : FateOf(d)' = FateOf(d)
    BY <1>2, Zenon DEF FateOf, vars
  <2> QED
    BY <1>2, <2>1, <2>2, Stutter, Zenon DEF vars
<1>3. CASE Next
  BY <1>1, <1>3, ConnectStep, SendStep, ReadStep, TimeoutStep, ServerReadStep,
     GiveUpStep, WriteStep, LoopStep, dispatchStep, CrashStep, SMTT(30)
     DEF Next, Client, Serve
<1> QED
  BY <1>2, <1>3, Zenon

(***************************************************************************)
(* What is on the two ends of a connection and in svmgr's queue always     *)
(* agrees: a call that is queued or has been performed was acknowledged to *)
(* the last piece, it is not both, and the connections that svmgr has open *)
(* are those that poll has still to serve (handle_connection, poll and     *)
(* dispatch_control_actions).                                              *)
(***************************************************************************)
THEOREM ConnectionsAgree == Spec => []CInv
<1>1. CInv /\ [Next]_vars => CInv'
  BY NextStep
<1> QED
  BY <1>1, InitCInv, PTL DEF Spec

(***************************************************************************)
(* The control socket keeps the promises of ControlService for every set   *)
(* of clients, size of messages and number of crashes: what is             *)
(* acknowledged is performed at most once, in order, or lost with svmgr;   *)
(* and no caller is told otherwise (poll, handle_connection and            *)
(* dispatch_control_actions against the clients' reads and timeouts).      *)
(***************************************************************************)
THEOREM KeepsPromises == Spec => ImplementsControl
<1>1. Init => Control!AbsInit
  <2> SUFFICES ASSUME Init PROVE Control!AbsInit
    OBVIOUS
  <2>1. ASSUME NEW d \in Calls PROVE FateOf(d) = "none" /\ conn[d].told = "nothing"
    BY DEF Init, Unconnected, FateOf, Fate
  <2> QED
    BY <2>1, Zenon DEF Init, Control!AbsInit
<1>2. CInv /\ [Next]_vars => [Control!AbsNext]_(Control!absvars)
  BY NextStep, Zenon DEF Abstract
<1> QED
  BY <1>1, <1>2, ConnectionsAgree, PTL DEF Spec, ImplementsControl, Control!AbsSpec

-----------------------------------------------------------------------------
(***************************************************************************)
(* PID 1, for every crash-loop threshold, any faults and any number of     *)
(* signals and messages.                                                   *)
(***************************************************************************)

(* The types, by what changes together. *)
ManagerType ==
  /\ svmgr \in Managers /\ stopping \in Kinds \cup {NoKind}
  /\ to_init \in Seq(Messages) /\ Len(to_init) <= MaxMessages + 1
  /\ svmgr \in {"boot", "main", "draining"} => Len(to_init) <= MaxMessages

ClockType == age \in 0..2 /\ seen \in 0..2 /\ shells \in 0..2

ChildType ==
  /\ rapid_failure_count \in 0..Threshold
  /\ backoff_ms \in svmgr_restart_initial_ms..svmgr_restart_max_ms
  /\ registered \in SUBSET {"svmgr_pidfd", "init_sock"}

LoopType ==
  /\ sigs \in SUBSET Signals /\ sent \in 0..MaxSignals /\ fault_set \in Faults
  /\ pc \in {"wait", "batch", "shell", "term", "off"}
  /\ events \in Seq({"signal_fd", "svmgr_pidfd", "init_sock"})
  /\ shutdown_requested \in Kinds \cup {NoKind}

FlagsType ==
  /\ to_svmgr \in BOOLEAN /\ has_pid \in BOOLEAN /\ intentional_stop \in BOOLEAN
  /\ post_emergency_armed \in BOOLEAN /\ pending_emergency \in BOOLEAN
  /\ asked \in BOOLEAN

Types == ManagerType /\ ClockType /\ ChildType /\ LoopType /\ FlagsType

(***************************************************************************)
(* What init has on record about the child: it is kept from the spawn to   *)
(* the exit that init handles, it is watched that long, and it is dropped  *)
(* before the shell is entered.                                            *)
(***************************************************************************)
ChildIsKnown ==
  /\ Alive => has_pid
  /\ has_pid => registered = registerSvmgr /\ rapid_failure_count < Threshold
  /\ ~has_pid => registered = {}
  /\ pc = "shell" => ~has_pid

IsPidfd(i) == events[i] = "svmgr_pidfd"

(* An event of the pidfd in the batch is about the child on record, which  *)
(* is dead: the batch holds it once, and nothing replaces the child before *)
(* its turn comes.                                                         *)
EventsAreDue ==
  \A i \in DOMAIN events : IsPidfd(i) =>
    /\ pidfd_ok /\ has_pid /\ ~Alive
    /\ \A j \in DOMAIN events : IsPidfd(j) => j = i

(***************************************************************************)
(* As long as the wall clock shows the real uptime: between the shell and  *)
(* the first svmgr to outlive the grace period, the guard against a second *)
(* shell is armed.                                                         *)
(***************************************************************************)
Armed == pc # "shell" => post_emergency_armed

ShellsAreCounted ==
  "clock_is_set" \notin fault_set =>
    /\ seen = age /\ shells <= 1
    /\ shells = 1 => age < 2 /\ Armed

LoopInv == Types /\ ChildIsKnown /\ EventsAreDue /\ ShellsAreCounted

-----------------------------------------------------------------------------
LEMMA Bounds ==
  /\ Threshold \in Nat /\ 0 < Threshold /\ MaxMessages \in Nat /\ 0 < MaxMessages
  /\ MaxSignals \in Nat
BY InitLoopAssumption

LEMMA InitLoopInv == LoopInit => LoopInv
<1> SUFFICES ASSUME LoopInit PROVE LoopInv
  OBVIOUS
<1>1. Types
  <2>1. ManagerType
    BY Bounds DEF LoopInit, ManagerType, Managers, Live
  <2>2. ClockType /\ LoopType
    BY Bounds DEF LoopInit, ClockType, LoopType
  <2>3. ChildType
    BY Bounds DEF LoopInit, ChildType, registerSvmgr, svmgr_restart_initial_ms, svmgr_restart_max_ms
  <2>4. FlagsType
    BY Zenon DEF LoopInit, FlagsType
  <2> QED
    BY <2>1, <2>2, <2>3, <2>4, Zenon DEF Types
<1>2. ChildIsKnown
  BY Bounds, Zenon DEF LoopInit, ChildIsKnown, Alive, Live
<1>3. EventsAreDue
  BY DEF LoopInit, EventsAreDue
<1>4. ShellsAreCounted
  <2>1. seen = 0 /\ age = 0 /\ shells = 0
    BY Zenon DEF LoopInit
  <2> QED
    BY <2>1 DEF ShellsAreCounted
<1> QED
  BY <1>1, <1>2, <1>3, <1>4, Zenon DEF LoopInv

(* Parts of the invariant a step does not touch. *)
LEMMA SameManager ==
  ASSUME ManagerType, UNCHANGED <<svmgr, stopping, to_init>> PROVE ManagerType'
BY Zenon DEF ManagerType

LEMMA SameClock ==
  ASSUME ClockType, ShellsAreCounted, UNCHANGED <<fault_set, seen, age, shells>>,
         pc' = pc \/ pc # "shell", post_emergency_armed' = post_emergency_armed
  PROVE  ClockType' /\ ShellsAreCounted'
<1>1. Armed => Armed'
  BY Zenon DEF Armed
<1> QED
  BY <1>1, Zenon DEF ClockType, ShellsAreCounted

LEMMA SameChild == ASSUME ChildType, UNCHANGED child PROVE ChildType'
BY Zenon DEF ChildType, child

(* A step that leaves the child and the batch alone, and starts no svmgr. *)
LEMMA SameRelations ==
  ASSUME ChildIsKnown, EventsAreDue, UNCHANGED <<child, fault_set, events, pc>>, Alive' => Alive
  PROVE  ChildIsKnown' /\ EventsAreDue'
BY Zenon DEF ChildIsKnown, EventsAreDue, IsPidfd, child, registerSvmgr, pidfd_ok

(* The steps of svmgr, of the operator and of time. *)
LEMMA SvmgrStepsKeeps == ASSUME LoopInv, SvmgrSteps PROVE LoopInv'
<1>1. ManagerType'
  <2> USE DEF LoopInv, Types, ManagerType
  <2>1. CASE svmgr = "boot" /\ svmgr' = "main" /\ UNCHANGED <<stopping, to_init>>
    BY <2>1, Zenon DEF Managers, Live
  <2>2. CASE svmgr = "main" /\ Len(to_init) < MaxMessages /\ to_init' = Append(to_init, "Heartbeat")
             /\ UNCHANGED <<svmgr, stopping>>
    BY <2>2, Bounds DEF Messages
  <2>3. CASE svmgr = "main" /\ svmgr' = "draining" /\ stopping' = NoKind /\ to_init' = to_init
    BY <2>3, Zenon DEF Managers, Live
  <2>4. CASE svmgr = "draining" /\ svmgr' = "leaving" /\ stopping' = NoKind
             /\ to_init' = to_init \o (IF stopping = NoKind THEN <<>> ELSE <<stopping>>)
    <3>1. CASE stopping = NoKind
      BY <2>4, <3>1, Bounds, SMTT(30) DEF Managers, Live
    <3>2. CASE stopping # NoKind
      <4>1. stopping \in Messages /\ to_init' = Append(to_init, stopping)
        BY <2>4, <3>2 DEF Messages
      <4> QED
        BY <2>4, <4>1, Bounds DEF Managers, Live
    <3> QED
      BY <3>1, <3>2, Zenon
  <2> QED
    BY <2>1, <2>2, <2>3, <2>4, Zenon DEF SvmgrSteps
<1>2. ClockType' /\ ShellsAreCounted'
  BY SameClock, Zenon DEF SvmgrSteps, LoopInv, Types, flags
<1>3. ChildType'
  BY SameChild, Zenon DEF SvmgrSteps, LoopInv, Types
<1>4. LoopType'
  BY DEF SvmgrSteps, LoopInv, Types, LoopType, flags
<1>5. FlagsType'
  BY Zenon DEF SvmgrSteps, LoopInv, Types, FlagsType, child, flags
<1>6. ChildIsKnown' /\ EventsAreDue'
  BY SameRelations, Zenon DEF SvmgrSteps, LoopInv, Types, Alive, Live
<1> QED
  BY <1>1, <1>2, <1>3, <1>4, <1>5, <1>6, Zenon DEF LoopInv, Types

LEMMA OutsideKeeps ==
  ASSUME LoopInv, Dynamodctl \/ SvmgrExits \/ \E s \in Signals : Signal(s)
  PROVE  LoopInv'
<1> USE DEF Dynamodctl, SvmgrExits, Signal, manager, LoopInv, Types
<1>1. ManagerType'
  BY Zenon DEF ManagerType, Managers, Alive, Live
<1>2. ClockType' /\ ShellsAreCounted'
  BY SameClock, Zenon DEF flags
<1>3. ChildType'
  BY SameChild, Zenon
<1>4. LoopType'
  <2>1. sigs' \in SUBSET Signals
    BY Zenon DEF LoopType, Signals
  <2>2. sent' \in 0..MaxSignals
    BY Bounds DEF LoopType
  <2> QED
    BY <2>1, <2>2, Zenon DEF LoopType, flags
<1>5. FlagsType'
  BY Zenon DEF FlagsType, child, flags
<1>6. ChildIsKnown' /\ EventsAreDue'
  BY SameRelations DEF Alive, Live
<1> QED
  BY <1>1, <1>2, <1>3, <1>4, <1>5, <1>6, Zenon

LEMMA TimeKeeps == ASSUME LoopInv, Tick \/ ClockIsSet PROVE LoopInv'
<1> USE DEF LoopInv, Types
<1>1. UNCHANGED <<svmgr, stopping, to_init, to_svmgr, sigs, fault_set, child, pc, events, flags, asked>>
  BY Zenon DEF Tick, ClockIsSet
<1>2. ManagerType'
  BY <1>1, SameManager, Zenon
<1>3. ClockType' /\ ShellsAreCounted'
  <2>1. CASE Tick
    <3>1. /\ age < 2 /\ age' = age + 1
          /\ seen' = IF seen < 2 THEN seen + 1 ELSE seen
          /\ shells' = IF age' = 2 THEN 0 ELSE shells
      BY <2>1, Zenon DEF Tick
    <3>2. Armed' = Armed
      BY <1>1, Zenon DEF Armed, flags
    <3> QED
      BY <1>1, <3>1, <3>2 DEF ClockType, ShellsAreCounted
  <2>2. CASE ClockIsSet
    <3>1. "clock_is_set" \in fault_set /\ seen' \in 0..2 /\ UNCHANGED <<age, shells>>
      BY <2>2, Zenon DEF ClockIsSet
    <3> QED
      BY <1>1, <3>1, Zenon DEF ClockType, ShellsAreCounted
  <2> QED
    BY <2>1, <2>2, Zenon
<1>4. ChildType'
  BY <1>1, SameChild, Zenon
<1>5. LoopType'
  <2>1. sent' = sent \/ (sent < MaxSignals /\ sent' = sent + 1)
    BY Zenon DEF Tick, ClockIsSet
  <2>2. sent' \in 0..MaxSignals
    BY <2>1, Bounds DEF LoopType
  <2> QED
    BY <1>1, <2>2, Zenon DEF LoopType, flags
<1>6. FlagsType'
  BY <1>1, Zenon DEF FlagsType, child, flags
<1>7. ChildIsKnown' /\ EventsAreDue'
  BY <1>1, SameRelations, Zenon DEF Alive
<1> QED
  BY <1>2, <1>3, <1>4, <1>5, <1>6, <1>7, Zenon

-----------------------------------------------------------------------------
(* What spawn and Gone leave behind. *)
LEMMA SpawnLeaves ==
  ASSUME LoopInv, spawn, fault_set' = fault_set,
         rapid_failure_count' \in Nat, rapid_failure_count' < Threshold, pc' # "shell",
         \A i \in DOMAIN events' : ~IsPidfd(i)'
  PROVE  ManagerType' /\ ChildType' /\ ChildIsKnown' /\ EventsAreDue'
<1>1. /\ svmgr' = "boot" /\ stopping' = NoKind /\ to_init' = <<>>
      /\ has_pid' = TRUE /\ registered' = registerSvmgr
      /\ backoff_ms' = svmgr_restart_initial_ms
  BY Zenon DEF spawn
<1>2. ManagerType'
  BY <1>1, Bounds DEF ManagerType, Managers, Live
<1>3. ChildType'
  BY <1>1, Bounds DEF ChildType, registerSvmgr, svmgr_restart_initial_ms, svmgr_restart_max_ms
<1>4. registerSvmgr' = registerSvmgr
  BY Zenon DEF registerSvmgr, pidfd_ok
<1>5. ChildIsKnown'
  BY <1>1, <1>4, Zenon DEF ChildIsKnown
<1>6. EventsAreDue'
  BY Zenon DEF EventsAreDue
<1> QED
  BY <1>2, <1>3, <1>5, <1>6, Zenon

LEMMA GoneLeaves ==
  ASSUME LoopInv, NEW corpse \in {"zombie", "gone"}, Gone(corpse),
         rapid_failure_count' \in 0..Threshold, \A i \in DOMAIN events' : ~IsPidfd(i)'
  PROVE  ManagerType' /\ ChildType' /\ ChildIsKnown' /\ EventsAreDue'
<1>1. /\ svmgr' = corpse /\ stopping' = NoKind /\ to_init' = <<>>
      /\ has_pid' = FALSE /\ registered' = {} /\ backoff_ms' = onExitBackoff
  BY Zenon DEF Gone
<1>2. ManagerType'
  BY <1>1, Bounds DEF ManagerType, Managers, Live
<1>3. backoff_ms' \in svmgr_restart_initial_ms..svmgr_restart_max_ms
  <2>1. /\ svmgr_restart_initial_ms \in Nat /\ svmgr_restart_max_ms \in Nat
        /\ svmgr_restart_initial_ms <= svmgr_restart_max_ms
    BY SMT DEF svmgr_restart_initial_ms, svmgr_restart_max_ms
  <2> QED
    BY <1>1, <2>1 DEF LoopInv, Types, ChildType, onExitBackoff
<1>4. ChildType'
  BY <1>1, <1>3, Zenon DEF ChildType
<1>5. ChildIsKnown'
  BY <1>1, Zenon DEF ChildIsKnown, Alive, Live
<1>6. EventsAreDue'
  BY Zenon DEF EventsAreDue
<1> QED
  BY <1>2, <1>4, <1>5, <1>6, Zenon

(* Every way handleSvmgrExit takes. *)
LEMMA ExitKeeps ==
  ASSUME LoopInv, has_pid, NEW corpse \in {"zombie", "gone"}, handleSvmgrExit(corpse),
         UNCHANGED <<fault_set, asked>>, \A i \in DOMAIN events' : ~IsPidfd(i)'
  PROVE  /\ ManagerType' /\ ChildType' /\ ChildIsKnown' /\ EventsAreDue'
         /\ ClockType' /\ ShellsAreCounted' /\ FlagsType'
         /\ pc' \in {pc, "shell"} /\ shutdown_requested' \in Kinds \cup {NoKind}
<1>0. rapid_failure_count' = onExitCount /\ intentional_stop' = FALSE
  BY Zenon DEF handleSvmgrExit
<1>1. onExitCount \in 0..Threshold
  BY Bounds DEF LoopInv, Types, ChildType, ChildIsKnown, onExitCount
<1>2. pc # "shell"
  BY Zenon DEF LoopInv, ChildIsKnown
<1>3. ("clock_is_set" \notin fault_set /\ (post_emergency_armed => ~WithinGrace)) => shells = 0
  BY <1>2 DEF LoopInv, Types, ClockType, ShellsAreCounted, Armed, WithinGrace
<1>4. CASE pending_emergency /\ pc' = "shell" /\ shells' = 0 /\ Gone(corpse)
           /\ pending_emergency' = FALSE /\ UNCHANGED <<shutdown_requested, post_emergency_armed>>
  <2>1. ManagerType' /\ ChildType' /\ ChildIsKnown' /\ EventsAreDue'
    BY <1>0, <1>1, <1>4, GoneLeaves, Zenon
  <2>2. ClockType' /\ ShellsAreCounted'
    BY <1>4 DEF Gone, ClockType, ShellsAreCounted
  <2>3. FlagsType'
    BY <1>0, <1>4, Zenon DEF Gone, LoopInv, Types, FlagsType
  <2> QED
    BY <1>4, <2>1, <2>2, <2>3, Zenon DEF LoopInv, Types, LoopType
<1>5. CASE post_emergency_armed /\ shutdown_requested' = "reboot" /\ Gone(corpse)
           /\ UNCHANGED <<pc, post_emergency_armed, pending_emergency, shells>>
  <2>1. ManagerType' /\ ChildType' /\ ChildIsKnown' /\ EventsAreDue'
    BY <1>0, <1>1, <1>5, GoneLeaves, Zenon
  <2>2. ClockType' /\ ShellsAreCounted'
    BY <1>5 DEF Gone, LoopInv, Types, ClockType, ShellsAreCounted, Armed
  <2>3. FlagsType'
    BY <1>0, <1>5, Zenon DEF Gone, LoopInv, Types, FlagsType
  <2> QED
    BY <1>5, <2>1, <2>2, <2>3, Zenon DEF Kinds
<1>6. CASE /\ post_emergency_armed => ~WithinGrace
           /\ post_emergency_armed' = FALSE
           /\ pc' = "shell" /\ shells' = (IF shells < 2 THEN shells + 1 ELSE 2)
           /\ Gone(corpse) /\ UNCHANGED <<shutdown_requested, pending_emergency>>
  <2>1. ManagerType' /\ ChildType' /\ ChildIsKnown' /\ EventsAreDue'
    BY <1>0, <1>1, <1>6, GoneLeaves, ZenonT(30)
  <2>2. ClockType' /\ ShellsAreCounted'
    BY <1>3, <1>6 DEF Gone, LoopInv, Types, ClockType, ShellsAreCounted, Armed
  <2>3. FlagsType'
    BY <1>0, <1>6, Zenon DEF Gone, LoopInv, Types, FlagsType
  <2> QED
    BY <1>6, <2>1, <2>2, <2>3, Zenon DEF LoopInv, Types, LoopType
<1>7. CASE /\ post_emergency_armed => ~WithinGrace
           /\ post_emergency_armed' = FALSE /\ ~isInCrashLoop(onExitCount)
           /\ spawn \/ Gone(corpse)
           /\ UNCHANGED <<pc, shells, shutdown_requested, pending_emergency>>
  <2>1. onExitCount < Threshold
    BY <1>1, <1>7, Bounds, SMTT(30) DEF isInCrashLoop
  <2>2. ManagerType' /\ ChildType' /\ ChildIsKnown' /\ EventsAreDue'
    BY <1>0, <1>1, <1>2, <1>7, <2>1, Bounds, GoneLeaves, SpawnLeaves, SMTT(30)
  <2>3. ClockType' /\ ShellsAreCounted'
    BY <1>3, <1>7 DEF Gone, spawn, LoopInv, Types, ClockType, ShellsAreCounted
  <2>4. FlagsType'
    BY <1>0, <1>7, Zenon DEF Gone, spawn, LoopInv, Types, FlagsType
  <2> QED
    BY <1>7, <2>2, <2>3, <2>4, Zenon DEF LoopInv, Types, LoopType
<1> QED
  BY <1>4, <1>5, <1>6, <1>7, Zenon DEF handleSvmgrExit

(* What is left of a batch after its first event. *)
LEMMA RestOfBatch ==
  ASSUME LoopInv, events # <<>>, events' = Tail(events)
  PROVE  /\ events' \in Seq({"signal_fd", "svmgr_pidfd", "init_sock"})
         /\ \A i \in DOMAIN events' : i + 1 \in DOMAIN events /\ events'[i] = events[i + 1]
         /\ Head(events) = events[1] /\ 1 \in DOMAIN events
BY DEF LoopInv, Types, LoopType

LEMMA NextEvent ==
  ASSUME LoopInv, events # <<>>, events' = Tail(events), UNCHANGED <<fault_set, has_pid, svmgr>>
  PROVE  EventsAreDue'
<1>1. SUFFICES ASSUME NEW i \in DOMAIN events', IsPidfd(i)'
               PROVE  /\ pidfd_ok /\ has_pid /\ ~Alive
                      /\ \A j \in DOMAIN events' : IsPidfd(j)' => j = i
  BY Zenon DEF EventsAreDue, pidfd_ok, Alive
<1>2. i + 1 \in DOMAIN events /\ IsPidfd(i + 1)
  BY <1>1, RestOfBatch, Zenon DEF IsPidfd
<1>3. ASSUME NEW j \in DOMAIN events', IsPidfd(j)' PROVE j = i
  <2>1. j + 1 \in DOMAIN events /\ IsPidfd(j + 1)
    BY <1>3, RestOfBatch, Zenon DEF IsPidfd
  <2>2. j + 1 = i + 1
    BY <1>2, <2>1, Zenon DEF LoopInv, EventsAreDue
  <2>3. i \in Nat /\ j \in Nat
    BY RestOfBatch, SMTT(30)
  <2> QED
    BY <2>2, <2>3
<1> QED
  BY <1>2, <1>3, Zenon DEF LoopInv, EventsAreDue

(* The handlers of the two ways to learn of an exit. *)
LEMMA PidfdKeeps == ASSUME LoopInv, svmgr_pidfd PROVE LoopInv'
<1>1. /\ pc = "batch" /\ events # <<>> /\ Head(events) = "svmgr_pidfd" /\ events' = Tail(events)
      /\ handleSvmgrExit(svmgr) /\ UNCHANGED <<sigs, sent, fault_set, asked>>
  BY Zenon DEF svmgr_pidfd, Handling
<1>2. 1 \in DOMAIN events /\ IsPidfd(1)
  BY <1>1, RestOfBatch, Zenon DEF IsPidfd
<1>3. has_pid /\ ~Alive
  BY <1>2, Zenon DEF LoopInv, EventsAreDue
<1>4. svmgr \in {"zombie", "gone"}
  BY <1>3, Zenon DEF LoopInv, Types, ManagerType, Managers, Alive
<1>5. ASSUME NEW i \in DOMAIN events' PROVE ~IsPidfd(i)'
  <2>1. i + 1 \in DOMAIN events /\ events'[i] = events[i + 1] /\ i \in Nat /\ i > 0
    BY <1>1, RestOfBatch DEF LoopInv, Types, LoopType
  <2>2. IsPidfd(i + 1) => i + 1 = 1
    BY <1>2, <2>1, Zenon DEF LoopInv, EventsAreDue
  <2> QED
    BY <2>1, <2>2, SMTT(30) DEF IsPidfd
<1>6. /\ ManagerType' /\ ChildType' /\ ChildIsKnown' /\ EventsAreDue'
      /\ ClockType' /\ ShellsAreCounted' /\ FlagsType'
      /\ pc' \in {pc, "shell"} /\ shutdown_requested' \in Kinds \cup {NoKind}
  BY <1>1, <1>3, <1>4, <1>5, ExitKeeps, Zenon
<1>7. LoopType'
  BY <1>1, <1>6, RestOfBatch, Zenon DEF LoopInv, Types, LoopType
<1> QED
  BY <1>6, <1>7, Zenon DEF LoopInv, Types

LEMMA ChildExitedKeeps == ASSUME LoopInv, child_exited PROVE LoopInv'
<1>1. sigs' = sigs \ {"CHLD"} /\ UNCHANGED <<sent, fault_set, events, asked>>
  BY Zenon DEF child_exited
<1>2. CASE ~getPidfd /\ has_pid /\ ~Alive /\ handleSvmgrExit("gone")
  <2>1. ASSUME NEW i \in DOMAIN events' PROVE ~IsPidfd(i)'
    BY <1>1, <1>2, Zenon DEF LoopInv, EventsAreDue, IsPidfd, getPidfd
  <2>2. /\ ManagerType' /\ ChildType' /\ ChildIsKnown' /\ EventsAreDue'
        /\ ClockType' /\ ShellsAreCounted' /\ FlagsType'
        /\ pc' \in {pc, "shell"} /\ shutdown_requested' \in Kinds \cup {NoKind}
    BY <1>1, <1>2, <2>1, ExitKeeps, Zenon
  <2>3. LoopType'
    BY <1>1, <2>2, Zenon DEF LoopInv, Types, LoopType
  <2> QED
    BY <2>2, <2>3, Zenon DEF LoopInv, Types
<1>3. CASE svmgr' = Reaped
           /\ UNCHANGED <<stopping, to_init, to_svmgr, age, seen, child, pc, flags, shells>>
  <2>1. ManagerType' /\ (Alive' => Alive)
    BY <1>3, Zenon DEF LoopInv, Types, ManagerType, Managers, Live, Reaped, Alive
  <2>2. ClockType' /\ ShellsAreCounted'
    BY <1>1, <1>3, SameClock, Zenon DEF LoopInv, Types, flags
  <2>3. ChildType'
    BY <1>3, SameChild, Zenon DEF LoopInv, Types
  <2>4. LoopType'
    BY <1>1, <1>3, Zenon DEF LoopInv, Types, LoopType, flags
  <2>5. FlagsType'
    BY <1>1, <1>3, Zenon DEF LoopInv, Types, FlagsType, child, flags
  <2>6. ChildIsKnown' /\ EventsAreDue'
    BY <1>1, <1>3, <2>1, SameRelations, Zenon DEF LoopInv
  <2> QED
    BY <2>1, <2>2, <2>3, <2>4, <2>5, <2>6, Zenon DEF LoopInv, Types
<1> QED
  BY <1>2, <1>3, Zenon DEF child_exited

LEMMA SignalKeeps ==
  ASSUME LoopInv, NEW s, NEW kind \in Kinds, shutdown_signal(s, kind)
  PROVE  LoopInv'
<1>1. /\ sigs' = sigs \ {s} /\ to_svmgr' = (to_svmgr \/ (has_pid /\ Alive))
      /\ shutdown_requested' = kind
      /\ UNCHANGED <<svmgr, stopping, to_init, age, seen, sent, fault_set, child, pc, events,
                     post_emergency_armed, pending_emergency, shells, asked>>
  BY Zenon DEF shutdown_signal
<1>2. ManagerType'
  BY <1>1, SameManager, Zenon DEF LoopInv, Types
<1>3. ClockType' /\ ShellsAreCounted'
  BY <1>1, SameClock, Zenon DEF LoopInv, Types
<1>4. ChildType'
  BY <1>1, SameChild, Zenon DEF LoopInv, Types
<1>5. LoopType'
  BY <1>1 DEF LoopInv, Types, LoopType
<1>6. FlagsType'
  BY <1>1, Zenon DEF LoopInv, Types, FlagsType, child
<1>7. ChildIsKnown' /\ EventsAreDue'
  BY <1>1, SameRelations, Zenon DEF LoopInv, Alive
<1> QED
  BY <1>2, <1>3, <1>4, <1>5, <1>6, <1>7, Zenon DEF LoopInv, Types

LEMMA User2Keeps == ASSUME LoopInv, user2 PROVE LoopInv'
<1>1. /\ sigs' = sigs \ {"USR2"} /\ pc = "batch"
      /\ UNCHANGED <<manager, sent, fault_set, has_pid, rapid_failure_count, backoff_ms, registered,
                     events, shutdown_requested, post_emergency_armed, asked>>
      /\ \/ has_pid /\ intentional_stop' = TRUE /\ pending_emergency' = TRUE /\ UNCHANGED <<pc, shells>>
         \/ ~has_pid /\ pc' = "shell" /\ shells' = 0
             /\ UNCHANGED <<intentional_stop, pending_emergency>>
  BY Zenon DEF user2, Handling
<1>2. ManagerType'
  BY <1>1, SameManager, Zenon DEF LoopInv, Types, manager
<1>3. ClockType' /\ ShellsAreCounted'
  <2>1. CASE UNCHANGED <<pc, shells>>
    BY <1>1, <2>1, SameClock, ZenonT(30) DEF LoopInv, Types, manager
  <2>2. CASE shells' = 0
    BY <1>1, <2>2 DEF LoopInv, Types, ClockType, ShellsAreCounted, manager
  <2> QED
    BY <1>1, <2>1, <2>2, Zenon
<1>4. ChildType'
  BY <1>1, Zenon DEF LoopInv, Types, ChildType
<1>5. LoopType'
  BY <1>1 DEF LoopInv, Types, LoopType
<1>6. FlagsType'
  BY <1>1, Zenon DEF LoopInv, Types, FlagsType, manager
<1>7. ChildIsKnown'
  BY <1>1, Zenon DEF LoopInv, ChildIsKnown, Alive, manager, registerSvmgr, pidfd_ok
<1>8. EventsAreDue'
  BY <1>1, Zenon DEF LoopInv, EventsAreDue, IsPidfd, Alive, manager, pidfd_ok
<1> QED
  BY <1>2, <1>3, <1>4, <1>5, <1>6, <1>7, <1>8, Zenon DEF LoopInv, Types

(* The loop goes on, to the next event or out of the batch. *)
LEMMA LoopKeeps ==
  ASSUME LoopInv, SignalsDone \/ BatchDone \/ execute
  PROVE  LoopInv'
<1>1. /\ UNCHANGED <<stopping, to_init, to_svmgr, age, seen, sigs, sent, fault_set, child, flags,
                     shells, asked>>
      /\ pc # "shell" /\ svmgr' \in {svmgr, "gone"}
  BY Zenon DEF SignalsDone, BatchDone, execute, Handling, manager
<1>2. \/ events # <<>> /\ events' = Tail(events) /\ svmgr' = svmgr
      \/ events' = events
  BY Zenon DEF SignalsDone, BatchDone, execute, Handling, manager
<1>3. pc' \in {"wait", "batch", "term", "off"}
  BY Zenon DEF SignalsDone, BatchDone, execute, Handling
<1>4. ManagerType' /\ (Alive' => Alive)
  BY <1>1, Zenon DEF LoopInv, Types, ManagerType, Managers, Live, Alive
<1>5. ClockType' /\ ShellsAreCounted'
  BY <1>1, SameClock, Zenon DEF LoopInv, Types, flags
<1>6. ChildType'
  BY <1>1, SameChild, Zenon DEF LoopInv, Types
<1>7. events' \in Seq({"signal_fd", "svmgr_pidfd", "init_sock"})
  BY <1>2, RestOfBatch, Zenon DEF LoopInv, Types, LoopType
<1>8. LoopType'
  BY <1>1, <1>3, <1>7, Zenon DEF LoopInv, Types, LoopType, flags
<1>9. FlagsType'
  BY <1>1, Zenon DEF LoopInv, Types, FlagsType, child, flags
<1>10. ChildIsKnown'
  BY <1>1, <1>3, <1>4, Zenon DEF LoopInv, ChildIsKnown, child, registerSvmgr, pidfd_ok
<1>11. EventsAreDue'
  <2>1. CASE events' = events
    BY <1>1, <1>4, <2>1, Zenon DEF LoopInv, EventsAreDue, IsPidfd, child, pidfd_ok
  <2>2. CASE events # <<>> /\ events' = Tail(events) /\ svmgr' = svmgr
    BY <1>1, <2>2, NextEvent, Zenon DEF child
  <2> QED
    BY <1>2, <2>1, <2>2, Zenon
<1> QED
  BY <1>4, <1>5, <1>6, <1>8, <1>9, <1>10, <1>11, Zenon DEF LoopInv, Types

LEMMA MessageKeeps == ASSUME LoopInv, handleSvmgrMessage PROVE LoopInv'
<1>1. /\ pc = "batch" /\ events # <<>> /\ events' = Tail(events)
      /\ to_init' = IF has_pid THEN <<>> ELSE to_init
      /\ UNCHANGED <<svmgr, stopping, to_svmgr, age, seen, sigs, sent, fault_set, child, pc,
                     post_emergency_armed, pending_emergency, shells, asked>>
  BY Zenon DEF handleSvmgrMessage, Handling
<1>2. shutdown_requested' \in Kinds \cup {NoKind}
  BY Zenon DEF handleSvmgrMessage, LoopInv, Types, LoopType
<1>3. ManagerType'
  BY <1>1, Bounds DEF LoopInv, Types, ManagerType
<1>4. ClockType' /\ ShellsAreCounted'
  BY <1>1, SameClock, Zenon DEF LoopInv, Types
<1>5. ChildType'
  BY <1>1, SameChild, Zenon DEF LoopInv, Types
<1>6. LoopType'
  BY <1>1, <1>2, RestOfBatch, Zenon DEF LoopInv, Types, LoopType
<1>7. FlagsType'
  BY <1>1, Zenon DEF LoopInv, Types, FlagsType, child
<1>8. ChildIsKnown'
  BY <1>1, Zenon DEF LoopInv, ChildIsKnown, child, Alive, registerSvmgr, pidfd_ok
<1>9. EventsAreDue'
  BY <1>1, NextEvent, Zenon DEF child
<1> QED
  BY <1>3, <1>4, <1>5, <1>6, <1>7, <1>8, <1>9, Zenon DEF LoopInv, Types

LEMMA EmergencyKeeps == ASSUME LoopInv, enterEmergencyMode PROVE LoopInv'
<1>1. /\ pc = "shell" /\ pc' = "batch" /\ rapid_failure_count' = 0 /\ post_emergency_armed' = TRUE
      /\ UNCHANGED <<sigs, sent, fault_set, intentional_stop, events, pending_emergency, shells, asked>>
  BY Zenon DEF enterEmergencyMode
<1>2. ~has_pid
  BY <1>1, Zenon DEF LoopInv, ChildIsKnown
<1>3. \A i \in DOMAIN events' : ~IsPidfd(i)'
  BY <1>1, <1>2, Zenon DEF LoopInv, EventsAreDue, IsPidfd
<1>4. EventsAreDue'
  BY <1>3, Zenon DEF EventsAreDue
<1>5. CASE spawn /\ UNCHANGED shutdown_requested
  <2>1. ManagerType' /\ ChildType' /\ ChildIsKnown'
    BY <1>1, <1>3, <1>5, Bounds, SpawnLeaves, ZenonT(30)
  <2>2. ClockType' /\ ShellsAreCounted'
    BY <1>1, <1>5 DEF spawn, LoopInv, Types, ClockType, ShellsAreCounted, Armed
  <2>3. LoopType'
    BY <1>1, <1>5, Zenon DEF LoopInv, Types, LoopType
  <2>4. FlagsType'
    BY <1>1, <1>5, Zenon DEF spawn, LoopInv, Types, FlagsType
  <2> QED
    BY <1>4, <2>1, <2>2, <2>3, <2>4, Zenon DEF LoopInv, Types
<1>6. CASE /\ shutdown_requested' = "reboot" /\ svmgr' = "gone"
           /\ backoff_ms' = svmgr_restart_initial_ms
           /\ UNCHANGED <<stopping, to_init, to_svmgr, age, seen, has_pid, registered>>
  <2>1. ManagerType'
    BY <1>6, Zenon DEF LoopInv, Types, ManagerType, Managers, Live
  <2>2. ChildType'
    <3>1. svmgr_restart_initial_ms \in svmgr_restart_initial_ms..svmgr_restart_max_ms
      BY SMT DEF svmgr_restart_initial_ms, svmgr_restart_max_ms
    <3> QED
      BY <1>1, <1>6, <3>1, Bounds DEF LoopInv, Types, ChildType
  <2>3. ChildIsKnown'
    BY <1>1, <1>2, <1>6, Zenon DEF LoopInv, ChildIsKnown, Alive, Live
  <2>4. ClockType' /\ ShellsAreCounted'
    BY <1>1, <1>6, Zenon DEF LoopInv, Types, ClockType, ShellsAreCounted, Armed
  <2>5. LoopType'
    BY <1>1, <1>6, Zenon DEF LoopInv, Types, LoopType, Kinds
  <2>6. FlagsType'
    BY <1>1, <1>6, Zenon DEF LoopInv, Types, FlagsType
  <2> QED
    BY <1>4, <2>1, <2>2, <2>3, <2>4, <2>5, <2>6, Zenon DEF LoopInv, Types
<1> QED
  BY <1>5, <1>6, Zenon DEF enterEmergencyMode

-----------------------------------------------------------------------------
FST == INSTANCE FiniteSetTheorems

(* The kernel reports finitely many events, each once. *)
LEMMA ReadyIsFinite == Cardinality(Ready) \in Nat
<1>1. FST!IsFiniteSet({"signal_fd", "svmgr_pidfd", "init_sock"})
  <2>1. FST!IsFiniteSet({})
    BY FST!FS_EmptySet, Zenon
  <2>2. FST!IsFiniteSet({} \cup {"signal_fd"})
    BY <2>1, FST!FS_AddElement, Zenon
  <2>3. FST!IsFiniteSet(({} \cup {"signal_fd"}) \cup {"svmgr_pidfd"})
    BY <2>2, FST!FS_AddElement, Zenon
  <2>4. FST!IsFiniteSet((({} \cup {"signal_fd"}) \cup {"svmgr_pidfd"}) \cup {"init_sock"})
    BY <2>3, FST!FS_AddElement, Zenon
  <2>5. (({} \cup {"signal_fd"}) \cup {"svmgr_pidfd"}) \cup {"init_sock"}
          = {"signal_fd", "svmgr_pidfd", "init_sock"}
    BY Zenon
  <2> QED
    BY <2>4, <2>5, Zenon
<1>2. Ready \in SUBSET {"signal_fd", "svmgr_pidfd", "init_sock"}
  BY Zenon DEF Ready
<1>3. FST!Cardinality(Ready) \in Nat
  BY <1>1, <1>2, FST!FS_Subset, FST!FS_CardinalityType, Zenon
<1>4. Cardinality(Ready) = FST!Cardinality(Ready)
  BY Zenon DEF Cardinality, FST!Cardinality
<1> QED
  BY <1>3, <1>4, Zenon

LEMMA FunctionIsSeq ==
  ASSUME NEW n \in Nat, NEW R, NEW S, R \subseteq S, NEW f \in [1..n -> R]
  PROVE  f \in Seq(S)
<1>1. f \in [1..n -> S]
  BY Zenon
<1> QED
  BY <1>1

LEMMA WaitKeeps == ASSUME LoopInv, epoll_pwait PROVE LoopInv'
<1>1. /\ pc = "wait" /\ pc' = "batch" /\ events' \in Batches
      /\ UNCHANGED <<manager, sigs, sent, fault_set, child, flags, shells, asked>>
  BY Zenon DEF epoll_pwait
<1>2. PICK n \in Nat : n = Cardinality(Ready)
  BY ReadyIsFinite, Zenon
<1>3. /\ events' \in [1..n -> Ready]
      /\ \A i, j \in 1..n : i # j => events'[i] # events'[j]
  BY <1>1, <1>2, ZenonT(30) DEF Batches, Injection, IsInjective
<1>4. Ready \subseteq {"signal_fd", "svmgr_pidfd", "init_sock"}
  BY Zenon DEF Ready
<1>5. "svmgr_pidfd" \in Ready => "svmgr_pidfd" \in registered /\ ~Alive
  BY Zenon DEF Ready
<1>6. LoopType'
  <2>1. events' \in Seq({"signal_fd", "svmgr_pidfd", "init_sock"})
    BY <1>3, <1>4, FunctionIsSeq, Zenon
  <2> QED
    BY <1>1, <2>1, Zenon DEF LoopInv, Types, LoopType, flags
<1>7. EventsAreDue'
  <2>1. SUFFICES ASSUME NEW i \in 1..n, events'[i] = "svmgr_pidfd"
                 PROVE  /\ pidfd_ok /\ has_pid /\ ~Alive
                        /\ \A j \in 1..n : events'[j] = "svmgr_pidfd" => j = i
    BY <1>1, <1>3, Zenon DEF EventsAreDue, IsPidfd, pidfd_ok, Alive, manager, child
  <2>2. "svmgr_pidfd" \in registered /\ ~Alive
    BY <1>3, <1>5, <2>1, Zenon
  <2>3. has_pid /\ pidfd_ok
    BY <2>2 DEF LoopInv, ChildIsKnown, registerSvmgr
  <2> QED
    BY <1>3, <2>1, <2>2, <2>3, Zenon
<1>8. ManagerType'
  BY <1>1, SameManager, Zenon DEF LoopInv, Types, manager
<1>9. ClockType' /\ ShellsAreCounted'
  BY <1>1, SameClock, Zenon DEF LoopInv, Types, manager, flags
<1>10. ChildType'
  BY <1>1, SameChild, Zenon DEF LoopInv, Types
<1>11. FlagsType'
  BY <1>1, Zenon DEF LoopInv, Types, FlagsType, manager, child, flags
<1>12. ChildIsKnown'
  BY <1>1, Zenon DEF LoopInv, ChildIsKnown, manager, child, Alive, registerSvmgr, pidfd_ok
<1> QED
  BY <1>6, <1>7, <1>8, <1>9, <1>10, <1>11, <1>12, Zenon DEF LoopInv, Types

LEMMA NextKeeps == ASSUME LoopInv, [LoopNext]_loop_vars PROVE LoopInv'
<1>1. CASE UNCHANGED loop_vars
  <2> USE <1>1 DEF loop_vars, manager, child, flags, LoopInv, Types
  <2>1. ManagerType' /\ ClockType' /\ ChildType' /\ ShellsAreCounted'
    BY SameManager, SameClock, SameChild, Zenon
  <2>2. LoopType'
    BY Zenon DEF LoopType
  <2>3. FlagsType'
    BY Zenon DEF FlagsType
  <2>4. ChildIsKnown' /\ EventsAreDue'
    BY SameRelations, Zenon DEF Alive
  <2> QED
    BY <2>1, <2>2, <2>3, <2>4, Zenon
<1>2. CASE InitSteps
  <2>1. "poweroff" \in Kinds /\ "reboot" \in Kinds
    BY Zenon DEF Kinds
  <2> QED
    BY <1>2, <2>1, WaitKeeps, ChildExitedKeeps, User2Keeps, LoopKeeps, SignalKeeps, PidfdKeeps,
       MessageKeeps, Zenon DEF InitSteps
<1> QED
  BY <1>1, <1>2, EmergencyKeeps, SvmgrStepsKeeps, OutsideKeeps, TimeKeeps, Zenon DEF LoopNext

(***************************************************************************)
(* In every state of the loop of PID 1, for every crash-loop threshold and *)
(* any faults: the child on record is the one being watched, an exit in    *)
(* the batch is that of the child on record, and the shells are accounted  *)
(* for (event_loop.zig, child.zig).                                        *)
(***************************************************************************)
THEOREM LoopInvariance == LoopSpec => []LoopInv
BY InitLoopInv, NextKeeps, PTL DEF LoopSpec

(***************************************************************************)
(* A running svmgr is one that init knows, watches, and that is not in a   *)
(* crash loop (registerSvmgr, handleSvmgrExit, enterEmergencyMode).        *)
(***************************************************************************)
THEOREM ManagerIsWatched == LoopSpec => []LiveManagerIsWatched
<1>1. LoopInv => LiveManagerIsWatched
  <2> SUFFICES ASSUME LoopInv PROVE LiveManagerIsWatched
    BY Zenon
  <2>1. LoopTypeOK
    BY Zenon DEF LoopInv, Types, ManagerType, ClockType, ChildType, LoopType, FlagsType, LoopTypeOK
  <2>2. Alive => has_pid /\ registered = registerSvmgr /\ rapid_failure_count < Threshold
    BY Zenon DEF LoopInv, ChildIsKnown
  <2> QED
    BY <2>1, <2>2, Zenon DEF LiveManagerIsWatched
<1> QED
  BY <1>1, LoopInvariance, PTL

(***************************************************************************)
(* Crashes alone lead to the emergency shell at most once until an svmgr   *)
(* outlives the grace period, for every threshold, as long as nobody sets  *)
(* the wall clock (post_emergency_armed in handleSvmgrExit).               *)
(***************************************************************************)
THEOREM OneShell == LoopSpec => []NoEmergencyLoop
<1>1. LoopInv => NoEmergencyLoop
  BY Zenon DEF LoopInv, ShellsAreCounted, NoEmergencyLoop
<1> QED
  BY <1>1, LoopInvariance, PTL

(* A child that outlived the grace period is not answered with a reboot. *)
LEMMA ExitIsDue ==
  ASSUME LoopInv, has_pid, NEW corpse, handleSvmgrExit(corpse), post_emergency_armed, age = 2,
         "clock_is_set" \notin fault_set
  PROVE  shutdown_requested' = shutdown_requested
<1>1. ~WithinGrace
  BY DEF LoopInv, ShellsAreCounted, WithinGrace
<1> QED
  BY <1>1, Zenon DEF handleSvmgrExit

LEMMA StepIsDue == ASSUME LoopInv, [LoopNext]_loop_vars PROVE [ReplacesWhenDue]_loop_vars
<1>1. CASE child_exited
  <2>1. CASE has_pid /\ ~Alive /\ handleSvmgrExit("gone")
    BY <2>1, ExitIsDue, Zenon DEF ReplacesWhenDue
  <2>2. CASE svmgr' = Reaped /\ UNCHANGED child
    BY <2>2, Zenon DEF ReplacesWhenDue, Reaped, child
  <2> QED
    BY <1>1, <2>1, <2>2, Zenon DEF child_exited
<1>2. CASE svmgr_pidfd
  <2>1. events # <<>> /\ Head(events) = "svmgr_pidfd" /\ handleSvmgrExit(svmgr)
    BY <1>2, Zenon DEF svmgr_pidfd, Handling
  <2>2. 1 \in DOMAIN events /\ IsPidfd(1)
    BY <2>1 DEF IsPidfd, LoopInv, Types, LoopType
  <2>3. has_pid /\ ~Alive
    BY <2>2, Zenon DEF LoopInv, EventsAreDue
  <2> QED
    BY <2>1, <2>3, ExitIsDue, Zenon DEF ReplacesWhenDue
<1>3. CASE enterEmergencyMode
  BY <1>3, Zenon DEF enterEmergencyMode, LoopInv, ChildIsKnown, ReplacesWhenDue
<1>4. CASE LoopNext /\ ~child_exited /\ ~svmgr_pidfd /\ ~enterEmergencyMode
  <2>1. has_pid' = has_pid
    BY <1>4, Zenon DEF LoopNext, InitSteps, epoll_pwait, user2, SignalsDone, shutdown_signal, handleSvmgrMessage,
                BatchDone, execute, SvmgrSteps, Dynamodctl, SvmgrExits, Signal, Tick, ClockIsSet, child
  <2>2. svmgr' \in {svmgr, "main", "draining", "leaving", "zombie", "gone"}
    BY <1>4, Zenon DEF LoopNext, InitSteps, epoll_pwait, user2, SignalsDone, shutdown_signal, handleSvmgrMessage,
                BatchDone, execute, SvmgrSteps, Dynamodctl, SvmgrExits, Signal, Tick, ClockIsSet, manager
  <2> QED
    BY <2>1, <2>2, Zenon DEF ReplacesWhenDue
<1> QED
  BY <1>1, <1>2, <1>3, <1>4, Zenon

(***************************************************************************)
(* No step spawns a second svmgr beside a live one, and none answers the   *)
(* exit of an svmgr that outlived the grace period with a reboot           *)
(* (handleSvmgrExit, enterEmergencyMode), as long as nobody sets the wall  *)
(* clock.                                                                  *)
(***************************************************************************)
THEOREM ReplacedInTime == LoopSpec => ReplacedWhenDue
<1>1. LoopInv /\ [LoopNext]_loop_vars => [ReplacesWhenDue]_loop_vars
  BY StepIsDue, Zenon
<1> QED
  BY <1>1, LoopInvariance, PTL DEF LoopSpec, ReplacedWhenDue
=============================================================================

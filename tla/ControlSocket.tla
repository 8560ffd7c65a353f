---------------------------- MODULE ControlSocket ----------------------------
(***************************************************************************)
(* The control socket of dynamod-svmgr                                     *)
(* (rust/dynamod-svmgr/src/ipc/control.rs) and its three kinds of clients: *)
(* dynamodctl, dynamod-logind (svmgr_client.rs) and the D-Bus bridge       *)
(* dynamod-sd1bridge.  A connection carries one request and one response,  *)
(* framed by rust/dynamod-common/src/protocol.rs.                          *)
(*                                                                         *)
(* The bytes of a frame are counted in pieces, what one write or one read  *)
(* moves at least: "kernel may split writes".  Neither end has a clock     *)
(* here: a read with a timeout may give up whenever nothing is there to    *)
(* read.  svmgr serves the connections one after the other inside its main *)
(* loop and performs what it has acknowledged only when no connection is   *)
(* left to accept.                                                         *)
(***************************************************************************)
EXTENDS Naturals, Sequences, Functions

CONSTANTS
  Ctl,            \* the calls of dynamodctl
  Logind,         \* the calls of dynamod-logind
  Bridge,         \* the calls of dynamod-sd1bridge
  Unreliable,     \* calls whose client may hang before it sends, or be killed
  MaxPieces,      \* MAX_MESSAGE_SIZE, in pieces
  MaxFaults,      \* bound: crashes of svmgr and failing accepts
  None

ASSUME NoneAssumption == None \notin {"Ack", "answer", "encoded", "command", "shutdown"}
ASSUME PiecesAssumption == MaxPieces \in Nat \ {0}    \* an answer has a piece

Calls == Ctl \cup Logind \cup Bridge

VARIABLES
  conn,      \* of each call, both ends of its connection
  server,    \* where svmgr is
  backlog,   \* the connections, oldest first: poll accepts the first one
  actions,   \* what poll has collected
  performed, \* history: the calls whose action has been executed
  faults

vars == <<conn, server, backlog, actions, performed, faults>>

-----------------------------------------------------------------------------
(* The requests.  "command" stands for start, stop, restart and reload,     *)
(* "query" for a status, a list or the tree.  Which of them a call makes is *)
(* left open until svmgr decodes it: nothing depends on it before.          *)
CtlRequests == {"command", "query", "shutdown"}
LogindRequests == {"shutdown"}
UnitMethods == {"command"}
UnitQueries == {"query"}
ManagerMethods == {"command", "shutdown"}
UnitObject == {"command"}
UnitProperties == {"query"}
BridgeRequests ==
  UnitMethods \cup UnitQueries \cup ManagerMethods \cup UnitObject \cup UnitProperties

RequestsOf(c) ==
  CASE c \in Ctl -> CtlRequests [] c \in Logind -> LogindRequests
    [] c \in Bridge -> BridgeRequests

(* handle_request: an Ack and an action, or an answer: the error that a     *)
(* service is unknown, or the data asked for, which may be long.            *)
Ack == [kind |-> "Ack", size |-> 1]
Answer(size) == [kind |-> "answer", size |-> size]

handle_request(body) ==
  CASE body = "command" -> {Ack, Answer(1)}
    [] body = "shutdown" -> {Ack}
    [] body = "query" -> {Answer(1), Answer(MaxPieces), Answer(MaxPieces + 1)}

(* The request of an unreliable client arrives in two pieces, if at all. *)
RequestSize(c) == IF c \in Unreliable THEN 2 ELSE 1
TooLarge(size) == size > MaxPieces
decode(filled, size) == IF filled < size THEN "Incomplete" ELSE "Ok"

(* What a client makes of a whole response. *)
outcome(resp) == IF resp = "Ack" THEN "ok" ELSE "answer"

Unconnected ==
  [client |-> "idle", body |-> None, unsent |-> 0, up |-> 0, filled |-> 0,
   resp |-> None, rsize |-> 0, unwritten |-> 0, down |-> 0, got |-> 0,
   copen |-> FALSE, sopen |-> FALSE, told |-> "nothing"]

Listening == server \in {"poll", "dispatch"}

Set(c, r) == conn' = [conn EXCEPT ![c] = r]

(* The client's end is closed, and its caller told. *)
Returned(r, what) ==
  [r EXCEPT !.client = "returned", !.copen = FALSE, !.told = what,
            !.unsent = 0, !.down = 0, !.got = 0, !.rsize = 0]

-----------------------------------------------------------------------------
(* Clients.  The bridge makes every call with its one SvmgrClient locked.   *)
BridgeIsFree(c) ==
  c \in Bridge => \A d \in Bridge : conn[d].client \in {"idle", "returned"}

(* connect succeeds while the listener exists, accepted or not, and a       *)
(* reliable client has written its request right afterwards.                *)
Connected(c) ==
  LET slow == c \in Unreliable IN
  [client |-> IF slow THEN "sending" ELSE "reading", body |-> "encoded",
   unsent |-> IF slow THEN RequestSize(c) ELSE 0,
   up |-> IF slow THEN 0 ELSE RequestSize(c), filled |-> 0,
   resp |-> None, rsize |-> 0, unwritten |-> 0, down |-> 0, got |-> 0,
   copen |-> TRUE, sopen |-> TRUE, told |-> "nothing"]

Connect(c) ==
  /\ conn[c].client = "idle" /\ BridgeIsFree(c)
  /\ IF Listening
     THEN /\ Set(c, Connected(c))
          /\ backlog' = Append(backlog, c)
     ELSE /\ Set(c, Returned(conn[c], "error"))
          /\ UNCHANGED backlog
  /\ UNCHANGED <<server, actions, performed, faults>>

Send(c) ==
  LET r == conn[c] IN
  /\ r.client = "sending"
  /\ Set(c, IF ~r.sopen THEN Returned(r, "error")
            ELSE [r EXCEPT !.up = @ + 1, !.unsent = @ - 1,
                           !.client = IF r.unsent = 1 THEN "reading" ELSE @])
  /\ UNCHANGED <<server, backlog, actions, performed, faults>>

(* dynamodctl reads until it has a whole message; the others read once. *)
AfterRead(c, r) ==
  IF decode(r.got, r.rsize) = "Ok" THEN Returned(r, outcome(r.resp))
  ELSE IF c \in Ctl THEN r ELSE Returned(r, "error")

Read(c) ==
  LET r == conn[c] IN
  /\ r.client = "reading" /\ r.down > 0
  /\ \E n \in 1..r.down :
       Set(c, AfterRead(c, [r EXCEPT !.down = @ - n, !.got = @ + n]))
  /\ UNCHANGED <<server, backlog, actions, performed, faults>>

ReadEofGoesOn(c) ==    \* a mutant: a read of no bytes is tried again
  /\ conn[c].client = "reading" /\ conn[c].down = 0 /\ ~conn[c].sopen
  /\ UNCHANGED vars

ReadEof(c) ==
  LET r == conn[c] IN
  /\ r.client = "reading" /\ r.down = 0 /\ ~r.sopen
  /\ Set(c, Returned(r, "error"))
  /\ UNCHANGED <<server, backlog, actions, performed, faults>>

(* The read timeout of 10 seconds; the connection is closed a moment later. *)
Timeout(c) ==
  LET r == conn[c] IN
  /\ r.client = "reading" /\ r.down = 0 /\ r.sopen
  /\ Set(c, [r EXCEPT !.client = "leaving"])
  /\ UNCHANGED <<server, backlog, actions, performed, faults>>

Leave(c) ==
  /\ conn[c].client = "leaving"
  /\ Set(c, Returned(conn[c], "error"))
  /\ UNCHANGED <<server, backlog, actions, performed, faults>>

Killed(c) ==
  /\ c \in Unreliable /\ conn[c].client \in {"sending", "reading"}
  /\ Set(c, Returned(conn[c], "error"))
  /\ UNCHANGED <<server, backlog, actions, performed, faults>>

-----------------------------------------------------------------------------
(* svmgr.  handle_connection works on the first connection of the backlog   *)
(* and drops the stream whenever it returns.                                *)
Serves(c) == server = "poll" /\ backlog # <<>> /\ c = Head(backlog)

(* A response that was not written whole is as good as none. *)
Unanswered(r) ==
  IF r.resp # None /\ r.unwritten = 0 THEN r
  ELSE [r EXCEPT !.resp = None, !.unwritten = 0, !.body = "encoded",
                 !.rsize = IF r.copen THEN @ ELSE 0]

Closed(r) ==
  IF ~r.sopen THEN r ELSE [Unanswered(r) EXCEPT !.sopen = FALSE, !.up = 0, !.filled = 0]

Hangup(c, r) ==
  /\ Set(c, Closed(r))
  /\ backlog' = Tail(backlog)

ServerRead(c) ==
  LET r == conn[c] IN
  /\ Serves(c) /\ r.resp = None /\ r.up > 0
  /\ \E n \in 1..r.up :
       LET q == [r EXCEPT !.up = @ - n, !.filled = @ + n]
       IN IF decode(q.filled, RequestSize(c)) = "Incomplete"
          THEN Set(c, q) /\ UNCHANGED backlog
          ELSE \E body \in RequestsOf(c) :
               \E resp \in handle_request(body) :
                 IF TooLarge(resp.size) THEN Hangup(c, q)
                 ELSE /\ Set(c, [q EXCEPT
                               !.resp = resp.kind, !.rsize = resp.size,
                               !.unwritten = resp.size,
                               !.body = IF resp = Ack THEN body ELSE @])
                      /\ UNCHANGED backlog
  /\ UNCHANGED <<server, actions, performed, faults>>

(* End of file, whether a part of the request is there or not, or the read  *)
(* timeout of 5 seconds.                                                    *)
GiveUp(c) ==
  /\ Serves(c) /\ conn[c].resp = None /\ conn[c].up = 0
  /\ Hangup(c, conn[c])
  /\ UNCHANGED <<server, actions, performed, faults>>

Collected(c) == IF conn[c].resp = "Ack" THEN Append(actions, c) ELSE actions

WriteKeepsAction(c) ==    \* a mutant: the action survives a failed write
  LET r == conn[c]
      q == [r EXCEPT !.unwritten = @ - 1, !.down = @ + 1]
  IN
  /\ Serves(c) /\ r.resp # None
  /\ IF r.copen /\ q.unwritten > 0
     THEN Set(c, q) /\ UNCHANGED <<backlog, actions>>
     ELSE Hangup(c, IF r.copen THEN q ELSE r) /\ actions' = Collected(c)
  /\ UNCHANGED <<server, performed, faults>>

(* write_all.  A failed write loses the action; when the whole response is  *)
(* written, poll collects it.                                               *)
Write(c) ==
  LET r == conn[c]
      q == [r EXCEPT !.unwritten = @ - 1, !.down = @ + 1]
  IN
  /\ Serves(c) /\ r.resp # None
  /\ \/ ~r.copen /\ Hangup(c, r) /\ UNCHANGED actions
     \/ r.copen /\ q.unwritten > 0 /\ Set(c, q) /\ UNCHANGED <<backlog, actions>>
     \/ r.copen /\ q.unwritten = 0 /\ Hangup(c, q) /\ actions' = Collected(c)
  /\ UNCHANGED <<server, performed, faults>>

(* Nothing is left to accept, or accept fails. *)
PollEnds ==
  /\ server = "poll" /\ actions # <<>>
  /\ \/ backlog = <<>> /\ UNCHANGED faults
     \/ /\ backlog # <<>> /\ conn[Head(backlog)].filled = 0
        /\ conn[Head(backlog)].resp = None
        /\ faults < MaxFaults /\ faults' = faults + 1
  /\ server' = "dispatch"
  /\ UNCHANGED <<conn, backlog, actions, performed>>

(* The process ends: every connection is closed and the rest is forgotten. *)
Dies(how) ==
  /\ server' = how
  /\ conn' = [c \in Calls |-> Closed(conn[c])]
  /\ backlog' = <<>> /\ actions' = <<>>

(* A shutdown does not return: process::exit(0). *)
dispatch_control_actions ==
  /\ server = "dispatch"
  /\ LET c == Head(actions) IN
       /\ performed' = performed \cup {c}
       /\ IF conn[c].body = "shutdown" THEN Dies("exited")
          ELSE /\ actions' = Tail(actions)
               /\ server' = IF Len(actions) = 1 THEN "poll" ELSE "dispatch"
               /\ UNCHANGED <<conn, backlog>>
  /\ UNCHANGED faults

Crash ==
  /\ Listening /\ faults < MaxFaults /\ faults' = faults + 1
  /\ Dies("down") /\ UNCHANGED performed

(* init starts svmgr again, which removes the stale socket and binds a new  *)
(* one; when that fails it goes on without.                                 *)
bind ==
  /\ server = "down"
  /\ server' \in {"poll", "deaf"}
  /\ UNCHANGED <<conn, backlog, actions, performed, faults>>

-----------------------------------------------------------------------------
Init ==
  /\ conn = [c \in Calls |-> Unconnected]
  /\ server = "down" /\ backlog = <<>> /\ actions = <<>>
  /\ performed = {} /\ faults = 0

Client(c) == Read(c) \/ ReadEof(c) \/ Timeout(c) \/ Leave(c)

Serve ==
  \/ \E c \in Calls : ServerRead(c) \/ GiveUp(c) \/ Write(c)
  \/ PollEnds \/ dispatch_control_actions \/ bind

Next ==
  \/ \E c \in Calls : Connect(c) \/ Send(c) \/ Client(c) \/ Killed(c)
  \/ Serve \/ Crash

(***************************************************************************)
(* svmgr's loop and the clients are running processes, and their timeouts  *)
(* expire.  An unreliable client need not send what it has to send.        *)
(***************************************************************************)
Spec ==
  /\ Init /\ [][Next]_vars
  /\ WF_vars(Serve)
  /\ \A c \in Calls : WF_vars(Client(c))

-----------------------------------------------------------------------------
(***************************************************************************)
(* The refinement mapping.  A response that has been written to the last   *)
(* piece has decided the call; a connection that svmgr has closed before   *)
(* that was dropped.                                                       *)
(***************************************************************************)
Written(r) == r.resp # None /\ r.unwritten = 0

Fate(r, done, queued) ==
  IF r.body = None THEN "none"
  ELSE IF done THEN "performed"
  ELSE IF queued THEN "accepted"
  ELSE IF Written(r) THEN (IF r.resp = "Ack" THEN "lost" ELSE "answered")
  ELSE IF r.sopen THEN "pending" ELSE "dropped"

FateOf(c) == Fate(conn[c], c \in performed, c \in Range(actions))

Control == INSTANCE ControlService WITH
  Calls <- Calls,
  fate <- [c \in Calls |-> FateOf(c)],
  queue <- actions,
  told <- [c \in Calls |-> conn[c].told]

(***************************************************************************)
(* The socket keeps the promises of ControlService, whatever is split,     *)
(* delayed, killed or timed out: an acknowledged command is performed, in  *)
(* the order of acknowledgement, unless svmgr goes down before it gets to  *)
(* it; it is performed at most once, and never for a caller that had given *)
(* up before svmgr came to the request (the response is written before the *)
(* action is queued, and a failed write drops it); an error response means *)
(* that nothing is performed.                                              *)
(***************************************************************************)
ImplementsControl == Control!AbsSpec

(***************************************************************************)
(* Every call returns, although svmgr serves one connection at a time and  *)
(* other clients may hang or be killed half-way through their request, and *)
(* although svmgr may drop the connection, or go down with it: the         *)
(* timeouts at both ends and the handling of end of file see to it.  Nor   *)
(* does what svmgr has acknowledged stay in its queue for ever.            *)
(***************************************************************************)
CallsReturn ==
  /\ []<>(\A c \in Calls \ Unreliable : conn[c].client \in {"idle", "returned"})
  /\ []<>(actions = <<>>)
=============================================================================

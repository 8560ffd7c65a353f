---------------------------- MODULE PowerActions ----------------------------
(***************************************************************************)
(* Power actions and inhibitor locks in dynamod-logind (power.rs,          *)
(* inhibitor.rs, the dispatch of acpi.rs, and the Suspend and PowerOff     *)
(* family of manager.rs).                                                  *)
(*                                                                         *)
(* A call announces the action (PrepareForSleep or PrepareForShutdown),    *)
(* waits for delay inhibitors, and acts.  Calls are tasks: D-Bus calls run *)
(* side by side, ACPI events one after the other.  An announcement is a    *)
(* task of its own, which the runtime runs when it gets to it.             *)
(***************************************************************************)
EXTENDS Naturals, Sequences, Functions

CONSTANTS
  Calls,         \* D-Bus calls and ACPI events, each at most once
  InhibitorIds,  \* bound: inhibitors listed at one time
  Locks,         \* the locks clients take: what they inhibit, and the mode
  Kinds          \* a subset of {"sleep", "shutdown"}

ASSUME PowerAssumption ==
  /\ "sleep" \in Kinds /\ Kinds \subseteq {"sleep", "shutdown"}
  /\ Locks \subseteq [what : SUBSET Kinds, mode : {"block", "delay"}]

VARIABLES
  inhibitors,  \* LoginState.inhibitors: the lock of each one listed
  open,        \* the inhibitors whose pipe the client holds open
  call,        \* the progress of each call
  rx,          \* the ACPI events the dispatcher has not received yet
  emitting,    \* announcements handed to the runtime and not yet emitted
  announced    \* announcements on the bus

power_vars == <<inhibitors, open, call, rx, emitting, announced>>

Sources == {"dbus", "acpi"}
Announcement == [by : Calls, on : BOOLEAN]

(* is_released polls the pipe; retain drops the inhibitors it says so of. *)
is_released(i) == i \notin open

Retained == Restrict(inhibitors, {i \in DOMAIN inhibitors : ~is_released(i)})

Wants(lock, mode, kind) == lock.mode = mode /\ kind \in lock.what

-----------------------------------------------------------------------------
(* inhibit lists a lock and gives the client the other end of its pipe. *)
inhibit(i) ==
  /\ i \notin DOMAIN inhibitors \cup open
  /\ \E lock \in Locks :
       inhibitors' = [j \in DOMAIN inhibitors \cup {i} |-> IF j = i THEN lock ELSE inhibitors[j]]
  /\ open' = open \cup {i}
  /\ UNCHANGED <<call, rx, emitting, announced>>

ClientCloses(i) ==
  /\ i \in open /\ open' = open \ {i}
  /\ UNCHANGED <<inhibitors, call, rx, emitting, announced>>

(* The collector that runs every five seconds. *)
CollectGarbage ==
  /\ inhibitors' = Retained /\ inhibitors' # inhibitors
  /\ UNCHANGED <<open, call, rx, emitting, announced>>

-----------------------------------------------------------------------------
At(c, pc) == call[c].pc = pc
Goto(c, pc) == [call EXCEPT ![c].pc = pc]

(* A D-Bus call goes straight to the handshake; the reader of an input      *)
(* device hands an event that has an action to the dispatcher.              *)
Begin(c) ==
  /\ At(c, "idle")
  /\ \E kind \in Kinds, source \in Sources :
       /\ call' = [call EXCEPT ![c] = [kind |-> kind, source |-> source, late |-> FALSE,
                                       pc |-> IF source = "dbus" THEN "prepare" ELSE "queued"]]
       /\ rx' = IF source = "acpi" THEN Append(rx, c) ELSE rx
  /\ UNCHANGED <<inhibitors, open, emitting, announced>>

Dispatching == \E c \in Calls : call[c].source = "acpi" /\ ~At(c, "queued") /\ ~At(c, "done")

Receive(c) ==
  /\ rx # <<>> /\ Head(rx) = c /\ ~Dispatching
  /\ rx' = Tail(rx)

(* The dispatcher takes the next event, and run_action drops it when a      *)
(* block inhibitor is held.                                                 *)
has_block_inhibitor(c) ==
  /\ Receive(c)
  /\ inhibitors' = Retained
  /\ call' = Goto(c, IF \E i \in DOMAIN Retained : Wants(Retained[i], "block", call[c].kind)
                     THEN "done" ELSE "prepare")
  /\ UNCHANGED <<open, emitting, announced>>

prepare(c) ==
  /\ At(c, "prepare")
  /\ emitting' = emitting \cup {[by |-> c, on |-> TRUE]}
  /\ call' = Goto(c, "wait")
  /\ UNCHANGED <<inhibitors, open, rx, announced>>

Emit ==
  /\ \E a \in emitting : emitting' = emitting \ {a} /\ announced' = announced \cup {a}
  /\ UNCHANGED <<inhibitors, open, call, rx>>

Deadline(c) ==
  /\ At(c, "wait") /\ ~call[c].late /\ call' = [call EXCEPT ![c].late = TRUE]
  /\ UNCHANGED <<inhibitors, open, rx, emitting, announced>>

WaitForever(c) ==    \* a mutant: the deadline is not looked at
  /\ At(c, "wait")
  /\ inhibitors' = Retained
  /\ ~\E i \in DOMAIN Retained : Wants(Retained[i], "delay", call[c].kind)
  /\ call' = Goto(c, "act")
  /\ UNCHANGED <<open, rx, emitting, announced>>

WaitForBlockers(c) ==    \* a mutant: it waits for the wrong inhibitors
  /\ At(c, "wait")
  /\ inhibitors' = Retained
  /\ (\E i \in DOMAIN Retained : Wants(Retained[i], "block", call[c].kind)) => call[c].late
  /\ call' = Goto(c, "act")
  /\ UNCHANGED <<open, rx, emitting, announced>>

(* The iteration of the loop that ends it. *)
wait_for_delay_inhibitors(c) ==
  /\ At(c, "wait")
  /\ inhibitors' = Retained
  /\ (\E i \in DOMAIN Retained : Wants(Retained[i], "delay", call[c].kind)) => call[c].late
  /\ call' = Goto(c, "act")
  /\ UNCHANGED <<open, rx, emitting, announced>>

(* The write to /sys/power/state, or the request to svmgr, runs on a        *)
(* blocking thread; it may also fail.                                       *)
Act(c) ==
  /\ At(c, "act")
  /\ call' = Goto(c, IF call[c].kind = "sleep" THEN "resume" ELSE "done")
  /\ UNCHANGED <<inhibitors, open, rx, emitting, announced>>

ResumeQuietly(c) ==    \* a mutant: a write that failed is not announced
  /\ At(c, "resume") /\ call' = Goto(c, "done")
  /\ UNCHANGED <<inhibitors, open, rx, emitting, announced>>

resume(c) ==
  /\ At(c, "resume")
  /\ emitting' = emitting \cup {[by |-> c, on |-> FALSE]}
  /\ call' = Goto(c, "done")
  /\ UNCHANGED <<inhibitors, open, rx, announced>>

-----------------------------------------------------------------------------
PowerInit ==
  /\ inhibitors = <<>> /\ open = {}
  /\ call = [c \in Calls |-> [kind |-> "sleep", source |-> "dbus", late |-> FALSE,
                              pc |-> "idle"]]
  /\ rx = <<>> /\ emitting = {} /\ announced = {}

CallStep(c) ==
  \/ has_block_inhibitor(c) \/ prepare(c) \/ Deadline(c)
  \/ wait_for_delay_inhibitors(c) \/ Act(c) \/ resume(c)

PowerNext ==
  \/ \E i \in InhibitorIds : inhibit(i) \/ ClientCloses(i)
  \/ CollectGarbage \/ Emit
  \/ \E c \in Calls : Begin(c) \/ CallStep(c)

(* The runtime runs every task that can run, and the deadline passes.       *)
PowerSpec ==
  /\ PowerInit /\ [][PowerNext]_power_vars
  /\ WF_power_vars(Emit) /\ \A c \in Calls : WF_power_vars(CallStep(c))

-----------------------------------------------------------------------------
PowerTypeOK ==
  /\ DOMAIN inhibitors \cup open \subseteq InhibitorIds
  /\ Range(inhibitors) \subseteq [what : SUBSET Kinds, mode : {"block", "delay"}]
  /\ call \in [Calls -> [kind : Kinds, source : Sources, late : BOOLEAN,
                         pc : {"idle", "queued", "prepare", "wait", "act", "resume", "done"}]]
  /\ rx \in Seq(Calls) /\ Range(rx) = {c \in Calls : At(c, "queued")}
  /\ emitting \subseteq Announcement /\ announced \subseteq Announcement
  /\ emitting \cap announced = {}

Held(mode, kind) == \E i \in open : Wants(inhibitors[i], mode, kind)

CountsInhibitors ==
  /\ PowerTypeOK' /\ open' \subseteq DOMAIN inhibitors'
  /\ \A c \in Calls :
       /\ At(c, "wait") /\ call'[c].pc = "act" /\ ~call[c].late => ~Held("delay", call[c].kind)
       /\ At(c, "queued") /\ call'[c].pc = "done" => Held("block", call[c].kind)

(***************************************************************************)
(* Inhibitors count while they are held, whatever the collectors in        *)
(* list_inhibitors, the power handshake and the timer do meanwhile: one    *)
(* whose pipe is open is in the list; a call that goes on to act before    *)
(* its deadline leaves no delay inhibitor of its action held               *)
(* (wait_for_delay_inhibitors); and an event that has an action is dropped *)
(* only under a block that is held, not one that was released              *)
(* (has_block_inhibitor).                                                  *)
(***************************************************************************)
InhibitorsCount == [][CountsInhibitors]_power_vars

(* No inhibitor holds up a call for ever (the deadline of                   *)
(* wait_for_delay_inhibitors), nor the events queued behind it.             *)
CallsFinish == \A c \in Calls : ~At(c, "idle") ~> At(c, "done")

(* "We still need to release inhibitors waiting on the resume signal"       *)
(* (power.rs): every announced sleep is followed by PrepareForSleep(false). *)
ResumeAnnounced ==
  \A c \in Calls : (call[c].kind = "sleep" /\ [by |-> c, on |-> TRUE] \in announced)
                     ~> [by |-> c, on |-> FALSE] \in announced
=============================================================================

-------------------------- MODULE RestartIntensity --------------------------
(***************************************************************************)
(* The restart intensity of a supervisor                                   *)
(* (rust/dynamod-svmgr/src/supervisor/intensity.rs): a queue of            *)
(* timestamps, evicted from the front when a restart is recorded, decides  *)
(* whether the supervisor gives up.                                        *)
(*                                                                         *)
(* Time is counted in whole ticks.  Instant is monotonic, and on Linux a   *)
(* subtraction that goes below its origin is still representable, so       *)
(* checked_sub never falls back to `now`.                                  *)
(***************************************************************************)
EXTENDS Integers, Sequences, FiniteSets

CONSTANTS
  max_restarts, window,
  MaxRecords,           \* bound: restarts recorded
  MaxTime               \* bound: the clock

ASSUME IntensityAssumption == max_restarts \in Nat /\ window \in Nat

VARIABLES
  now,
  timestamps,   \* the queue, oldest first
  exceeded,     \* what the last record_restart returned
  log           \* history: when each restart was recorded

vars == <<now, timestamps, exceeded, log>>

Init == now = 0 /\ timestamps = <<>> /\ exceeded = FALSE /\ log = <<>>

Tick ==
  /\ now < MaxTime
  /\ now' = now + 1
  /\ UNCHANGED <<timestamps, exceeded, log>>

EvictEqual(ts, cutoff) ==    \* a mutant: <= where the code has <
  LET old == {i \in 1..Len(ts) : \A j \in 1..i : ts[j] <= cutoff}
  IN  SubSeq(ts, Cardinality(old) + 1, Len(ts))

(* Pop from the front while the front is older than the cutoff. *)
Evict(ts, cutoff) ==
  LET old == {i \in 1..Len(ts) : \A j \in 1..i : ts[j] < cutoff}
  IN  SubSeq(ts, Cardinality(old) + 1, Len(ts))

record_restart ==
  /\ Len(log) < MaxRecords
  /\ log' = Append(log, now)
  /\ timestamps' = Evict(Append(timestamps, now), now - window)
  /\ exceeded' = (Len(timestamps') > max_restarts)
  /\ UNCHANGED now

Next == Tick \/ record_restart

Spec == Init /\ [][Next]_vars

-----------------------------------------------------------------------------
TypeOK ==
  /\ now \in Nat
  /\ timestamps \in Seq(Nat) /\ log \in Seq(Nat)
  /\ exceeded \in BOOLEAN

(***************************************************************************)
(* The answer is that of the whole history: the supervisor gives up on a   *)
(* restart exactly when more than max_restarts restarts, this one          *)
(* included, lie in the window that ends with it, and the queue holds just *)
(* those.  Evicting only when something is recorded loses nothing.         *)
(***************************************************************************)
InWindow(t) == {i \in 1..Len(log) : log[i] >= t - window}

AnswerIsExact ==
  /\ TypeOK
  /\ log # <<>> =>
       LET recent == InWindow(log[Len(log)])
       IN  /\ exceeded <=> Cardinality(recent) > max_restarts
           /\ timestamps = SubSeq(log, Len(log) - Cardinality(recent) + 1, Len(log))

=============================================================================

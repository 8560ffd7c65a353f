-------------------------- MODULE SupervisorProofs --------------------------
(***************************************************************************)
(* Proofs about Supervisor for any tree of supervisors and workers, any    *)
(* strategies, limits and policies, any number of processes, and any       *)
(* nesting of the calls in progress.                                       *)
(***************************************************************************)
EXTENDS Supervisor, TLAPS

Nodes == Workers \cup Supervisors

(* The frames of the call stack. *)
ReapFrame == [call : {"reap_and_handle_exits"}]
ExecuteFrame ==
  [call : {"execute_strategy_action"}, sup : Supervisors, to_start : Seq(Nodes)]
RestartFrame ==
  [call : {"RestartService"}, name : Workers, old_pid : Pids \cup {None}]
ReloadFrame ==
  [call : {"reload_services"}, add : SUBSET Workers, remove : SUBSET Workers]
Frame == ReapFrame \cup ExecuteFrame \cup RestartFrame \cup ReloadFrame

(***************************************************************************)
(* The inductive invariant.  BookInv is BookAgrees with the pids that are  *)
(* free being those of nobody.  TreeInv: every worker of the tree is below *)
(* its parent, and only workers of the tree have processes.  StackInv: a   *)
(* strategy starts children of its supervisor, and only one at a time if   *)
(* that is one-for-one; what an operator restarts is in the tree and has   *)
(* been commanded.                                                         *)
(***************************************************************************)
BookInv ==
  /\ \A p \in Pids : pid_map[p] = owner[p]
  /\ \A p \in Pids : kernel[p] = "free" <=> owner[p] = None
  /\ \A w \in Workers : pid[w] # None => owner[pid[w]] = w
  /\ \A w \in Workers : state[w] \in {"Running", "Stopping"} => pid[w] # None

TreeInv ==
  /\ \A s \in Supervisors : \A w \in Workers \cap Range(children[s]) : Parent[w] = s
  /\ \A p \in Pids : owner[p] # None => owner[p] \in all_workers

FrameInv(f, sg, ch, workers, done) ==
  /\ f.call = "execute_strategy_action" =>
       /\ Range(f.to_start) \subseteq Range(ch[f.sup])
       /\ sg[f.sup] = "OneForOne" => Len(f.to_start) <= 1
  /\ f.call = "RestartService" => f.name \in workers \cap done

StackInv ==
  /\ stack \in Seq(Frame)
  /\ \A i \in 1..Len(stack) : FrameInv(stack[i], strategy, children, all_workers, commanded)

(***************************************************************************)
(* A service that nobody but its one-for-one supervisor starts has one     *)
(* process, or one call that is about to start it, or neither.             *)
(***************************************************************************)
Starts(f, w) == f.call = "execute_strategy_action" /\ w \in Range(f.to_start)

OwnsOne(w) == \A p, q \in Pids : owner[p] = w /\ owner[q] = w => p = q

StartsOne(w) ==
  \A i \in 1..Len(stack) : Starts(stack[i], w) =>
    /\ \A p \in Pids : owner[p] # w
    /\ \A j \in 1..Len(stack) : Starts(stack[j], w) => i = j

Alone(w) == strategy[Parent[w]] = "OneForOne" /\ w \notin commanded

OneInv == \A w \in Workers : Alone(w) => OwnsOne(w) /\ StartsOne(w)

IInv == TypeOK /\ BookInv /\ TreeInv /\ StackInv /\ OneInv /\ PermanentIsNotForgotten

-----------------------------------------------------------------------------
(* Sequences as stacks and as lists of children. *)
LEMMA Pushed ==
  ASSUME NEW S, NEW s \in Seq(S), NEW f \in S
  PROVE  /\ Append(s, f) \in Seq(S)
         /\ Len(s) \in Nat /\ Len(Append(s, f)) = Len(s) + 1
         /\ Append(s, f)[Len(s) + 1] = f
         /\ \A i \in 1..Len(s) : Append(s, f)[i] = s[i]
OBVIOUS

LEMMA Popped ==
  ASSUME NEW S, NEW s \in Seq(S), s # <<>>
  PROVE  /\ SubSeq(s, 1, Len(s) - 1) \in Seq(S)
         /\ Len(s) \in Nat \ {0} /\ Len(SubSeq(s, 1, Len(s) - 1)) = Len(s) - 1
         /\ \A i \in 1..(Len(s) - 1) : SubSeq(s, 1, Len(s) - 1)[i] = s[i]
<1>1. Len(s) \in Nat /\ Len(s) # 0
  OBVIOUS
<1> DEFINE n == Len(s) - 1
<1>2. n \in Nat /\ n = Len(s) - 1 /\ \A i \in 1..n : s[i] \in S
  BY <1>1
<1> HIDE DEF n
<1>3. SubSeq(s, 1, n) \in Seq(S) /\ \A i \in 1..n : SubSeq(s, 1, n)[i] = s[i]
  BY <1>2
<1>4. Len(SubSeq(s, 1, n)) = n
  BY <1>2
<1> QED
  BY <1>1, <1>2, <1>3, <1>4

LEMMA RangeOfSeq ==
  ASSUME NEW S, NEW s \in Seq(S)
  PROVE  /\ Range(s) \subseteq S
         /\ \A x : x \in Range(s) <=> \E i \in 1..Len(s) : s[i] = x
         /\ s # <<>> => /\ Head(s) \in Range(s) /\ Tail(s) \in Seq(S)
                        /\ Range(s) = {Head(s)} \cup Range(Tail(s))
                        /\ Len(Tail(s)) = Len(s) - 1
         /\ Len(s) \in Nat
<1>1. DOMAIN s = 1..Len(s) /\ Len(s) \in Nat /\ \A i \in 1..Len(s) : s[i] \in S
  OBVIOUS
<1>2. \A x : x \in Range(s) <=> \E i \in 1..Len(s) : s[i] = x
  BY <1>1 DEF Range
<1>3. ASSUME s # <<>>
      PROVE  /\ Head(s) \in Range(s) /\ Tail(s) \in Seq(S)
             /\ Range(s) = {Head(s)} \cup Range(Tail(s))
             /\ Len(Tail(s)) = Len(s) - 1
  <2>1. Len(s) # 0 /\ Head(s) = s[1] /\ Tail(s) \in Seq(S) /\ Len(Tail(s)) = Len(s) - 1
    BY <1>3
  <2>2. \A i \in 1..(Len(s) - 1) : Tail(s)[i] = s[i + 1]
    BY <1>3
  <2>3. DOMAIN Tail(s) = 1..(Len(s) - 1)
    BY <2>1
  <2>4. \A x : x \in Range(Tail(s)) <=> \E i \in 1..(Len(s) - 1) : s[i + 1] = x
    BY <2>2, <2>3, Zenon DEF Range
  <2>5. \A i \in 1..Len(s) : i = 1 \/ (i - 1 \in 1..(Len(s) - 1) /\ (i - 1) + 1 = i)
    BY <1>1
  <2>6. \A x : x \in Range(s) => x = Head(s) \/ x \in Range(Tail(s))
    BY <1>2, <2>1, <2>4, <2>5, Zenon
  <2>7. \A x : x = Head(s) \/ x \in Range(Tail(s)) => x \in Range(s)
    BY <1>1, <1>2, <2>1, <2>4
  <2> QED
    BY <2>1, <2>6, <2>7
<1> QED
  BY <1>1, <1>2, <1>3

LEMMA RangeOfAppend ==
  ASSUME NEW S, NEW s \in Seq(S), NEW x \in S
  PROVE  Range(Append(s, x)) = Range(s) \cup {x}
<1>1. Len(s) \in Nat /\ Append(s, x) \in Seq(S)
  OBVIOUS
<1>2. \A y : y \in Range(Append(s, x)) <=> \E i \in 1..(Len(s) + 1) : Append(s, x)[i] = y
  <2>1. Len(Append(s, x)) = Len(s) + 1
    BY Pushed
  <2> QED
    BY <1>1, <2>1, RangeOfSeq, Zenon
<1>3. \A y : y \in Range(s) <=> \E i \in 1..Len(s) : s[i] = y
  BY RangeOfSeq
<1>4. \A i \in 1..(Len(s) + 1) : i \in 1..Len(s) \/ i = Len(s) + 1
  BY <1>1
<1> QED
  BY <1>1, <1>2, <1>3, <1>4, Pushed

-----------------------------------------------------------------------------
(* What the frames hold. *)
LEMMA Frames ==
  /\ ReapCall \in Frame /\ ReapCall.call = "reap_and_handle_exits"
  /\ \A sup \in Supervisors, seq \in Seq(Nodes) :
       /\ ExecuteCall(sup, seq) \in Frame
       /\ ExecuteCall(sup, seq).call = "execute_strategy_action"
       /\ ExecuteCall(sup, seq).sup = sup /\ ExecuteCall(sup, seq).to_start = seq
  /\ \A w \in Workers, p \in Pids \cup {None} :
       /\ RestartCall(w, p) \in Frame
       /\ RestartCall(w, p).call = "RestartService" /\ RestartCall(w, p).name = w
  /\ \A add, remove \in SUBSET Workers :
       /\ ReloadCall(add, remove) \in Frame
       /\ ReloadCall(add, remove).call = "reload_services"
BY DEF Frame, ReapFrame, ExecuteFrame, RestartFrame, ReloadFrame, ReapCall, ExecuteCall,
       RestartCall, ReloadCall

IsExecuteCall(f, sup, seq) ==
  f.call = "execute_strategy_action" /\ f.sup = sup /\ f.to_start = seq

LEMMA ExecuteCallIs ==
  ASSUME NEW sup \in Supervisors, NEW seq \in Seq(Nodes), NEW f, f = ExecuteCall(sup, seq)
  PROVE  IsExecuteCall(f, sup, seq)
BY Frames DEF IsExecuteCall

LEMMA OneIsShort == ASSUME NEW w PROVE Len(<<w>>) <= 1
OBVIOUS

LEMMA FrameFields ==
  ASSUME NEW f \in Frame
  PROVE  /\ f.call = "execute_strategy_action"
              => f.sup \in Supervisors /\ f.to_start \in Seq(Nodes)
         /\ f.call = "RestartService" => f.name \in Workers
         /\ f.call = "reload_services" => f.add \subseteq Workers /\ f.remove \subseteq Workers
BY DEF Frame, ReapFrame, ExecuteFrame, RestartFrame, ReloadFrame

-----------------------------------------------------------------------------
(***************************************************************************)
(* How a step may change the calls in progress.  No call that starts w     *)
(* comes new; no call that will start w is lost.                           *)
(***************************************************************************)
Intends(f, w) == Starts(f, w) \/ (f.call = "RestartService" /\ f.name = w)

NoNewStart(w) ==
  \A i \in 1..Len(stack') : Starts(stack'[i], w) => i \in 1..Len(stack) /\ Starts(stack[i], w)

NoLostStart(w) ==
  \A i \in 1..Len(stack) : Intends(stack[i], w) => i \in 1..Len(stack') /\ Intends(stack'[i], w)

LEMMA KeptAboutToStart ==
  ASSUME NEW w, NoLostStart(w), AboutToStart(w)
  PROVE  AboutToStart(w)'
BY DEF NoLostStart, Intends, Starts, AboutToStart

LEMMA KeptStartsOne ==
  ASSUME NEW w, NoNewStart(w), StartsOne(w), \A p \in Pids : owner'[p] = w => owner[p] = w
  PROVE  StartsOne(w)'
BY Zenon DEF NoNewStart, StartsOne

(* What a frame is about stays true while the tree grows. *)
Grows ==
  /\ strategy' = strategy
  /\ all_workers \subseteq all_workers' /\ commanded \subseteq commanded'
  /\ \A s \in Supervisors : Range(children[s]) \subseteq Range(children'[s])

FrameInvNext(f) == FrameInv(f, strategy', children', all_workers', commanded')

LEMMA KeptFrame ==
  ASSUME NEW f \in Frame, FrameInv(f, strategy, children, all_workers, commanded), Grows
  PROVE  FrameInvNext(f)
BY FrameFields, Zenon DEF FrameInv, FrameInvNext, Grows

LEMMA KeptFrames ==
  ASSUME StackInv, Grows
  PROVE  \A i \in 1..Len(stack) : FrameInvNext(stack[i])
BY KeptFrame DEF StackInv

(* The stack of a step, frame by frame. *)
LEMMA PushFrames ==
  ASSUME StackInv, Grows, NEW f \in Frame, FrameInvNext(f), NEW g \in Frame, FrameInvNext(g),
         \/ stack' = Append(stack, f)
         \/ stack' = Append(Append(stack, f), g)
  PROVE  /\ StackInv' /\ \A w : NoLostStart(w)
         /\ \A w : ~Starts(f, w) /\ ~Starts(g, w) => NoNewStart(w)
         /\ Len(stack) + 1 \in 1..Len(stack') /\ stack'[Len(stack) + 1] = f
         /\ \A i \in 1..Len(stack') :
              \/ i \in 1..Len(stack) /\ stack'[i] = stack[i]
              \/ i = Len(stack) + 1
              \/ stack'[i] = g
<1>1. /\ stack' \in Seq(Frame) /\ Len(stack) \in Nat
      /\ Len(stack) + 1 \in 1..Len(stack') /\ stack'[Len(stack) + 1] = f
      /\ \A i \in 1..Len(stack) : i \in 1..Len(stack') /\ stack'[i] = stack[i]
      /\ \A i \in 1..Len(stack') :
           \/ i \in 1..Len(stack) /\ stack'[i] = stack[i]
           \/ i = Len(stack) + 1
           \/ stack'[i] = g
  <2>1. CASE stack' = Append(stack, f)
    <3>1. /\ stack' \in Seq(Frame) /\ Len(stack) \in Nat /\ Len(stack') = Len(stack) + 1
          /\ stack'[Len(stack) + 1] = f /\ \A i \in 1..Len(stack) : stack'[i] = stack[i]
      BY <2>1, Pushed DEF StackInv
    <3> QED
      BY <3>1
  <2>2. CASE stack' = Append(Append(stack, f), g)
    <3> DEFINE s == Append(stack, f)
    <3>1. /\ s \in Seq(Frame) /\ Len(stack) \in Nat /\ Len(s) = Len(stack) + 1
          /\ s[Len(stack) + 1] = f /\ \A i \in 1..Len(stack) : s[i] = stack[i]
      BY Pushed DEF StackInv
    <3>2. stack' = Append(s, g)
      BY <2>2, Zenon
    <3> HIDE DEF s
    <3>3. /\ stack' \in Seq(Frame) /\ Len(stack') = Len(s) + 1
          /\ stack'[Len(s) + 1] = g /\ \A i \in 1..Len(s) : stack'[i] = s[i]
      BY <3>1, <3>2, Pushed
    <3> QED
      BY <3>1, <3>3, SMTT(30)
  <2> QED
    BY <2>1, <2>2, Zenon
<1>2. \A i \in 1..Len(stack') : FrameInvNext(stack'[i])
  BY <1>1, KeptFrames, Zenon
<1>3. StackInv'
  BY <1>1, <1>2 DEF StackInv, FrameInvNext
<1>4. \A w : NoLostStart(w)
  BY <1>1, Zenon DEF NoLostStart
<1>5. ASSUME NEW w, ~Starts(f, w), ~Starts(g, w) PROVE NoNewStart(w)
  BY <1>1, <1>5, Zenon DEF NoNewStart
<1> QED
  BY <1>1, <1>3, <1>4, <1>5, Zenon

LEMMA PopFrame ==
  ASSUME StackInv, Grows, ~Idle, stack' = Callers
  PROVE  /\ StackInv' /\ \A w : NoNewStart(w)
         /\ \A w : ~Intends(Top, w) => NoLostStart(w)
<1>1. /\ stack' \in Seq(Frame) /\ Len(stack) \in Nat \ {0} /\ Len(stack') = Len(stack) - 1
      /\ \A i \in 1..(Len(stack) - 1) : stack'[i] = stack[i]
  BY Popped DEF StackInv, Idle, Callers
<1>2. \A i \in 1..Len(stack) : i \in 1..(Len(stack) - 1) \/ i = Len(stack)
  BY <1>1
<1>3. \A i \in 1..Len(stack') : i \in 1..Len(stack) /\ stack'[i] = stack[i]
  BY <1>1
<1>4. \A i \in 1..Len(stack') : FrameInvNext(stack'[i])
  BY <1>3, KeptFrames, Zenon
<1>5. StackInv'
  BY <1>1, <1>4 DEF StackInv, FrameInvNext
<1>6. \A w : NoNewStart(w)
  BY <1>3, Zenon DEF NoNewStart
<1>7. ASSUME NEW w, ~Intends(Top, w) PROVE NoLostStart(w)
  <2>1. \A i \in 1..Len(stack) : i \in 1..Len(stack') \/ stack[i] = Top
    BY <1>1, <1>2, Zenon DEF Top
  <2> QED
    BY <1>3, <1>7, <2>1, Zenon DEF NoLostStart
<1> QED
  BY <1>5, <1>6, <1>7, Zenon

LEMMA ReplaceFrame ==
  ASSUME StackInv, Grows, ~Idle, NEW f \in Frame, FrameInvNext(f), stack' = Replace(f)
  PROVE  /\ StackInv'
         /\ \A w : (Starts(f, w) => Starts(Top, w)) => NoNewStart(w)
         /\ \A w : (Intends(Top, w) => Intends(f, w)) => NoLostStart(w)
         /\ Len(stack') = Len(stack) /\ stack'[Len(stack')] = f
         /\ \A i \in 1..Len(stack) : i # Len(stack) => stack'[i] = stack[i]
<1>1. /\ Callers \in Seq(Frame) /\ Len(stack) \in Nat \ {0} /\ Len(Callers) = Len(stack) - 1
      /\ \A i \in 1..(Len(stack) - 1) : Callers[i] = stack[i]
  BY Popped, Zenon DEF StackInv, Idle, Callers
<1>2. /\ stack' \in Seq(Frame) /\ Len(stack') = (Len(stack) - 1) + 1
      /\ stack'[(Len(stack) - 1) + 1] = f
      /\ \A i \in 1..(Len(stack) - 1) : stack'[i] = Callers[i]
  BY <1>1, Pushed DEF Replace
<1>3. Len(stack') = Len(stack) /\ stack'[Len(stack)] = f
  BY <1>1, <1>2
<1>4. \A i \in 1..Len(stack) : i = Len(stack) \/ stack'[i] = stack[i]
  BY <1>1, <1>2, SMTT(30)
<1>5. \A i \in 1..Len(stack') : FrameInvNext(stack'[i])
  BY <1>3, <1>4, KeptFrames, Zenon
<1>6. StackInv'
  BY <1>2, <1>5 DEF StackInv, FrameInvNext
<1>7. ASSUME NEW w, Starts(f, w) => Starts(Top, w) PROVE NoNewStart(w)
  BY <1>3, <1>4, <1>7, Zenon DEF NoNewStart, Top
<1>8. ASSUME NEW w, Intends(Top, w) => Intends(f, w) PROVE NoLostStart(w)
  BY <1>3, <1>4, <1>8, Zenon DEF NoLostStart, Top
<1> QED
  BY <1>3, <1>4, <1>6, <1>7, <1>8, Zenon

LEMMA SameFrames ==
  ASSUME StackInv, Grows, stack' = stack
  PROVE  StackInv' /\ \A w : NoNewStart(w) /\ NoLostStart(w)
<1>1. StackInv'
  BY KeptFrames, Zenon DEF StackInv, FrameInvNext
<1> QED
  BY <1>1, Zenon DEF NoNewStart, NoLostStart

-----------------------------------------------------------------------------
(* The two parts of the invariant that are about one worker. *)
Remembered(w) ==
  restart_policy[w] = "Permanent" /\ pid[w] = None
    => state[w] = "Abandoned" \/ w \in spawn_failed \/ AboutToStart(w)

LEMMA RememberedIs == PermanentIsNotForgotten <=> \A w \in all_workers : Remembered(w)
BY DEF PermanentIsNotForgotten, Remembered

LEMMA RememberedIsNext ==
  PermanentIsNotForgotten' <=> \A w \in all_workers' : Remembered(w)'
BY Zenon DEF PermanentIsNotForgotten, Remembered

LEMMA KeptRemembered ==
  ASSUME NEW w, Remembered(w), NoLostStart(w),
         pid'[w] = None => /\ pid[w] = None
                           /\ state[w] = "Abandoned" => state'[w] = "Abandoned"
                           /\ w \in spawn_failed => w \in spawn_failed'
  PROVE  Remembered(w)'
BY KeptAboutToStart, Zenon DEF Remembered

LEMMA KeptOne ==
  ASSUME NEW w \in Workers, OneInv, NoNewStart(w), strategy' = strategy,
         commanded \subseteq commanded', \A p \in Pids : owner'[p] = w => owner[p] = w
  PROVE  Alone(w)' => OwnsOne(w)' /\ StartsOne(w)'
<1> SUFFICES ASSUME Alone(w)' PROVE OwnsOne(w)' /\ StartsOne(w)'
  BY Zenon
<1>1. Alone(w)
  BY DEF Alone
<1>2. OwnsOne(w) /\ StartsOne(w)
  BY <1>1, Zenon DEF OneInv
<1> QED
  BY <1>2, KeptStartsOne, Zenon DEF OwnsOne

LEMMA SameTree ==
  ASSUME strategy' = strategy, children' = children, commanded \subseteq commanded'
  PROVE  Grows /\ all_workers' = all_workers
BY Zenon DEF Grows, all_workers

-----------------------------------------------------------------------------
(* A step of the calls in progress alone. *)
LEMMA OnlyStack ==
  ASSUME IInv, UNCHANGED <<tree, os, spawn_failed, commanded>>, on_disk' \subseteq Workers,
         StackInv', \A w \in Workers : NoNewStart(w) /\ NoLostStart(w)
  PROVE  IInv'
<1>1. /\ strategy' = strategy /\ children' = children /\ state' = state /\ pid' = pid
      /\ pid_map' = pid_map /\ recent' = recent /\ kernel' = kernel /\ owner' = owner
      /\ termed' = termed /\ spawn_failed' = spawn_failed /\ commanded' = commanded
  BY Zenon DEF tree, os
<1>2. all_workers' = all_workers
  BY <1>1 DEF all_workers
<1>3. TypeOK'
  BY <1>1, Zenon DEF IInv, TypeOK
<1>4. BookInv' /\ TreeInv'
  BY <1>1, <1>2 DEF IInv, BookInv, TreeInv
<1>5. OneInv'
  <2>1. ASSUME NEW w \in Workers PROVE Alone(w)' => OwnsOne(w)' /\ StartsOne(w)'
    BY <1>1, KeptOne DEF IInv
  <2> QED
    BY <2>1, Zenon DEF OneInv
<1>6. PermanentIsNotForgotten'
  <2>1. ASSUME NEW w \in all_workers PROVE Remembered(w)'
    <3>1. w \in Workers /\ Remembered(w)
      BY RememberedIs, Zenon DEF IInv, all_workers
    <3> QED
      BY <3>1, <1>1, KeptRemembered, Zenon
  <2> QED
    BY <2>1, <1>2, RememberedIsNext, Zenon
<1> QED
  BY <1>3, <1>4, <1>5, <1>6, Zenon DEF IInv

(* stop_worker, wherever it is called from. *)
LEMMA OnlyStop ==
  ASSUME IInv, NEW v \in Workers, stop_worker(v),
         UNCHANGED <<strategy, children, pid, pid_map, recent, kernel, owner, on_disk,
                     spawn_failed>>,
         commanded \subseteq commanded', commanded' \subseteq Workers,
         StackInv', \A w \in Workers : NoNewStart(w) /\ NoLostStart(w)
  PROVE  IInv'
<1>1. /\ strategy' = strategy /\ children' = children /\ pid' = pid
      /\ pid_map' = pid_map /\ recent' = recent /\ kernel' = kernel /\ owner' = owner
      /\ spawn_failed' = spawn_failed /\ on_disk' = on_disk
  BY Zenon
<1>2. all_workers' = all_workers
  BY <1>1, Zenon DEF all_workers
<1>3. termed' \subseteq Pids
  BY Zenon DEF IInv, TypeOK, stop_worker, Sigterm
<1>4. /\ state' \in [Workers -> {"Stopped", "Running", "Stopping", "Failed", "Abandoned"}]
      /\ \A w \in Workers : pid[w] = None => state'[w] = state[w]
  BY DEF IInv, TypeOK, stop_worker
<1>5. TypeOK'
  BY <1>1, <1>3, <1>4, ZenonT(30) DEF IInv, TypeOK
<1>6. BookInv' /\ TreeInv'
  BY <1>1, <1>2, <1>4 DEF IInv, BookInv, TreeInv
<1>7. OneInv'
  <2>1. ASSUME NEW w \in Workers PROVE Alone(w)' => OwnsOne(w)' /\ StartsOne(w)'
    BY <1>1, KeptOne, Zenon DEF IInv
  <2> QED
    BY <2>1, Zenon DEF OneInv
<1>8. PermanentIsNotForgotten'
  <2>1. ASSUME NEW w \in all_workers PROVE Remembered(w)'
    <3>1. w \in Workers /\ Remembered(w)
      BY RememberedIs DEF IInv, all_workers
    <3> QED
      BY <3>1, <1>1, <1>4, KeptRemembered, Zenon
  <2> QED
    BY <2>1, <1>2, RememberedIsNext, Zenon
<1> QED
  BY <1>5, <1>6, <1>7, <1>8, Zenon DEF IInv

(***************************************************************************)
(* start_worker: the new process is one of v, and nobody else's book       *)
(* changes.                                                                *)
(***************************************************************************)
Started(v) ==
  /\ state' \in [Workers -> {"Stopped", "Running", "Stopping", "Failed", "Abandoned"}]
  /\ pid' \in [Workers -> Pids \cup {None}]
  /\ pid_map' \in [Pids -> Workers \cup {None}]
  /\ kernel' \in [Pids -> {"free", "alive", "ok", "bad"}]
  /\ owner' \in [Pids -> Workers \cup {None}]
  /\ termed' = termed
  /\ spawn_failed' \subseteq Workers
  /\ BookInv'
  /\ \A w \in Workers \ {v} : /\ pid'[w] = pid[w] /\ state'[w] = state[w]
                              /\ w \in spawn_failed <=> w \in spawn_failed'
  /\ pid'[v] # None \/ v \in spawn_failed'
  /\ \A p \in Pids : owner'[p] = owner[p] \/ owner'[p] = v
  /\ (\A p \in Pids : owner[p] # v) => OwnsOne(v)'

LEMMA StartsProcess == ASSUME IInv, NEW v \in Workers, start_worker(v) PROVE Started(v)
<1>1. CASE /\ spawned < MaxSpawns
           /\ \E p \in Pids :
                /\ kernel[p] = "free"
                /\ kernel' = [kernel EXCEPT ![p] = "alive"]
                /\ owner' = [owner EXCEPT ![p] = v]
                /\ register_pid(v, p)
           /\ spawned' = spawned + 1
           /\ spawn_failed' = spawn_failed \ {v}
           /\ UNCHANGED termed
  <2>1. PICK p \in Pids :
          /\ kernel[p] = "free"
          /\ kernel' = [kernel EXCEPT ![p] = "alive"]
          /\ owner' = [owner EXCEPT ![p] = v]
          /\ register_pid(v, p)
    BY <1>1, Zenon
  <2>2. p # None /\ v # None
    BY SupervisorAssumption, Zenon
  <2>3. /\ pid' = [pid EXCEPT ![v] = p] /\ state' = [state EXCEPT ![v] = "Running"]
        /\ pid_map' = [pid_map EXCEPT ![p] = v]
    BY <2>1 DEF register_pid
  <2>4. /\ state' \in [Workers -> {"Stopped", "Running", "Stopping", "Failed", "Abandoned"}]
        /\ pid' \in [Workers -> Pids \cup {None}]
        /\ pid_map' \in [Pids -> Workers \cup {None}]
        /\ kernel' \in [Pids -> {"free", "alive", "ok", "bad"}]
        /\ owner' \in [Pids -> Workers \cup {None}]
    BY <2>1, <2>3, Zenon DEF IInv, TypeOK
  <2>5. /\ owner'[p] = v /\ pid_map'[p] = v /\ kernel'[p] = "alive"
        /\ pid'[v] = p /\ owner[p] = None
    BY <2>1, <2>3 DEF IInv, TypeOK, BookInv
  <2>6. \A q \in Pids \ {p} : owner'[q] = owner[q] /\ pid_map'[q] = pid_map[q]
                              /\ kernel'[q] = kernel[q]
    BY <2>1, <2>3 DEF IInv, TypeOK
  <2>7. \A w \in Workers \ {v} : pid'[w] = pid[w] /\ state'[w] = state[w]
    BY <2>3, Zenon DEF IInv, TypeOK
  <2>8. \A w \in Workers : pid[w] = None \/ (pid[w] \in Pids /\ pid[w] # p)
    BY <2>5, SupervisorAssumption DEF IInv, TypeOK, BookInv
  <2>9. BookInv'
    <3>1. \A q \in Pids : pid_map'[q] = owner'[q] /\ (kernel'[q] = "free" <=> owner'[q] = None)
      <4> TAKE q \in Pids
      <4>1. CASE q = p
        BY <4>1, <2>2, <2>5
      <4>2. CASE q # p
        BY <4>2, <2>6, Zenon DEF IInv, BookInv
      <4> QED
        BY <4>1, <4>2, Zenon
    <3>2. \A w \in Workers : pid'[w] # None => owner'[pid'[w]] = w
      <4> SUFFICES ASSUME NEW w \in Workers, pid'[w] # None PROVE owner'[pid'[w]] = w
        BY Zenon
      <4>1. CASE w = v
        BY <4>1, <2>5, Zenon
      <4>2. CASE w # v
        <5>1. pid'[w] = pid[w] /\ pid[w] \in Pids \ {p}
          BY <4>2, <2>7, <2>8, Zenon
        <5> QED
          BY <5>1, <2>6, ZenonT(30) DEF IInv, BookInv
      <4> QED
        BY <4>1, <4>2, ZenonT(30)
    <3>3. \A w \in Workers : state'[w] \in {"Running", "Stopping"} => pid'[w] # None
      BY <2>2, <2>5, <2>7, ZenonT(30) DEF IInv, BookInv
    <3> QED
      BY <3>1, <3>2, <3>3, ZenonT(30) DEF BookInv
  <2>10. \A w \in Workers \ {v} : w \in spawn_failed <=> w \in spawn_failed'
    BY <1>1, Zenon
  <2>11. (\A q \in Pids : owner[q] # v) => OwnsOne(v)'
    BY <2>5, <2>6, Zenon DEF OwnsOne
  <2>12. spawn_failed' \subseteq Workers /\ termed' = termed
    BY <1>1, Zenon DEF IInv, TypeOK
  <2> QED
    BY <2>2, <2>4, <2>5, <2>6, <2>7, <2>9, <2>10, <2>11, <2>12, Zenon DEF Started
<1>2. CASE /\ state' = [state EXCEPT ![v] = "Failed"]
           /\ spawn_failed' = spawn_failed \cup {v}
           /\ UNCHANGED <<pid, pid_map, os>>
  <2>1. /\ pid' = pid /\ pid_map' = pid_map /\ kernel' = kernel /\ owner' = owner
        /\ termed' = termed
    BY <1>2 DEF os
  <2>2. /\ state' \in [Workers -> {"Stopped", "Running", "Stopping", "Failed", "Abandoned"}]
        /\ state'[v] = "Failed" /\ \A w \in Workers \ {v} : state'[w] = state[w]
    BY <1>2, Zenon DEF IInv, TypeOK
  <2>3. BookInv'
    BY <2>1, <2>2, Zenon DEF IInv, BookInv
  <2>4. \A w \in Workers \ {v} : w \in spawn_failed <=> w \in spawn_failed'
    BY <1>2, Zenon
  <2>5. v \in spawn_failed' /\ spawn_failed' \subseteq Workers
    BY <1>2, Zenon DEF IInv, TypeOK
  <2>6. (\A q \in Pids : owner[q] # v) => OwnsOne(v)'
    BY <2>1, Zenon DEF OwnsOne
  <2>7. /\ pid' \in [Workers -> Pids \cup {None}]
        /\ pid_map' \in [Pids -> Workers \cup {None}]
        /\ kernel' \in [Pids -> {"free", "alive", "ok", "bad"}]
        /\ owner' \in [Pids -> Workers \cup {None}]
    BY <2>1 DEF IInv, TypeOK
  <2> QED
    BY <2>1, <2>2, <2>3, <2>4, <2>5, <2>6, <2>7, Zenon DEF Started
<1> QED
  BY <1>1, <1>2, Zenon DEF start_worker

(* start_worker, wherever it is called from. *)
LEMMA StartedRemembered ==
  ASSUME IInv, NEW v \in Workers, Started(v), all_workers' = all_workers \cup {v},
         \A w \in Workers \ {v} : NoLostStart(w)
  PROVE  PermanentIsNotForgotten'
<1>1. ASSUME NEW w \in all_workers \ {v} PROVE Remembered(w)'
  <2>1. w \in Workers \ {v} /\ Remembered(w)
    BY RememberedIs, Zenon DEF IInv, all_workers
  <2>2. pid'[w] = pid[w] /\ state'[w] = state[w] /\ (w \in spawn_failed <=> w \in spawn_failed')
    BY <2>1, Zenon DEF Started
  <2> QED
    BY <2>1, <2>2, KeptRemembered, Zenon
<1>2. Remembered(v)'
  BY DEF Started, Remembered
<1> QED
  BY <1>1, <1>2, RememberedIsNext, Zenon

LEMMA StartedOne ==
  ASSUME IInv, NEW v \in Workers, Started(v), strategy' = strategy,
         commanded \subseteq commanded', \A w \in Workers : NoNewStart(w),
         Alone(v)' => /\ \A p \in Pids : owner[p] # v
                      /\ \A i \in 1..Len(stack') : ~Starts(stack'[i], v)
  PROVE  OneInv'
<1>1. ASSUME NEW w \in Workers \ {v} PROVE Alone(w)' => OwnsOne(w)' /\ StartsOne(w)'
  <2>1. \A p \in Pids : owner'[p] = w => owner[p] = w
    BY DEF Started
  <2> QED
    BY <2>1, KeptOne, ZenonT(30) DEF IInv
<1>2. Alone(v)' => OwnsOne(v)' /\ StartsOne(v)'
  BY Zenon DEF Started, StartsOne
<1> QED
  BY <1>1, <1>2, Zenon DEF OneInv

LEMMA OnlyStart ==
  ASSUME IInv, NEW v \in Workers, start_worker(v), UNCHANGED <<strategy, recent, on_disk>>,
         commanded \subseteq commanded', commanded' \subseteq Workers,
         children' \in [Supervisors -> Seq(Workers \cup Supervisors)],
         \A s \in Supervisors : IsInjective(children'[s]),
         \A s \in Supervisors : \A w \in Workers \cap Range(children'[s]) : Parent[w] = s,
         all_workers' = all_workers \cup {v},
         StackInv', \A w \in Workers : NoNewStart(w), \A w \in Workers \ {v} : NoLostStart(w),
         Alone(v)' => /\ \A p \in Pids : owner[p] # v
                      /\ \A i \in 1..Len(stack') : ~Starts(stack'[i], v)
  PROVE  IInv'
<1>0. Started(v)
  BY StartsProcess, Zenon
<1>1. TypeOK'
  BY <1>0, Zenon DEF Started, IInv, TypeOK
<1>2. BookInv'
  BY <1>0, Zenon DEF Started
<1>3. TreeInv'
  <2>1. \A p \in Pids : owner'[p] # None => owner'[p] \in all_workers'
    BY <1>0, Zenon DEF Started, IInv, TreeInv
  <2> QED
    BY <2>1, Zenon DEF TreeInv
<1>4. OneInv'
  BY <1>0, StartedOne, Zenon
<1>5. PermanentIsNotForgotten'
  BY <1>0, StartedRemembered, Zenon
<1> QED
  BY <1>1, <1>2, <1>3, <1>4, <1>5, Zenon DEF IInv

-----------------------------------------------------------------------------
(* The top of the stack. *)
LEMMA TopFrame ==
  ASSUME StackInv, ~Idle
  PROVE  /\ Len(stack) \in 1..Len(stack) /\ Top \in Frame
         /\ FrameInv(Top, strategy, children, all_workers, commanded)
<1>1. Len(stack) \in Nat \ {0}
  BY DEF StackInv, Idle
<1> QED
  BY <1>1 DEF StackInv, Top

LEMMA InitIInv == Init => IInv
<1> SUFFICES ASSUME Init PROVE IInv
  BY Zenon
<1>1. /\ pid \in [Workers -> Pids \cup {None}]
      /\ \A w \in Workers : pid[w] = None <=> w \notin LoadedWorkers
      /\ \A v, w \in LoadedWorkers : pid[v] = pid[w] => v = w
  BY Zenon DEF Init
<1>2. all_workers = LoadedWorkers /\ LoadedWorkers \subseteq Workers
  BY DEF Init, all_workers, LoadedWorkers
<1>3. /\ pid_map = [p \in Pids |-> IF \E w \in Workers : pid[w] = p
                                   THEN CHOOSE w \in Workers : pid[w] = p ELSE None]
      /\ owner = pid_map
      /\ kernel = [p \in Pids |-> IF owner[p] = None THEN "free" ELSE "alive"]
      /\ state = [w \in Workers |-> IF pid[w] = None THEN "Stopped" ELSE "Running"]
  BY Zenon DEF Init
<1>4. ASSUME NEW p \in Pids
      PROVE  \/ owner[p] = None /\ \A w \in Workers : pid[w] # p
             \/ owner[p] \in Workers /\ pid[owner[p]] = p
  BY <1>3
<1>5. \A p \in Pids : owner[p] \in Workers \cup {None}
  BY <1>4, Zenon
<1>6. TypeOK
  <2>1. pid_map \in [Pids -> Workers \cup {None}]
    BY <1>3, <1>5, Zenon
  <2>2. /\ children \in [Supervisors -> Seq(Workers \cup Supervisors)]
        /\ \A s \in Supervisors : IsInjective(children[s])
    BY SupervisorAssumption, Zenon DEF Init
  <2>3. /\ kernel \in [Pids -> {"free", "alive", "ok", "bad"}]
        /\ state \in [Workers -> {"Stopped", "Running", "Stopping", "Failed", "Abandoned"}]
        /\ owner \in [Pids -> Workers \cup {None}]
    BY <1>3, <2>1
  <2> QED
    BY <1>1, <1>2, <2>1, <2>2, <2>3, Zenon DEF Init, TypeOK
<1>7. BookInv
  <2>1. \A w \in Workers : pid[w] # None => pid[w] \in Pids /\ owner[pid[w]] = w
    BY <1>1, <1>4, SupervisorAssumption, Zenon
  <2> QED
    BY <1>3, <2>1, Zenon DEF BookInv
<1>8. TreeInv
  <2>1. \A s \in Supervisors : \A w \in Workers \cap Range(children[s]) : Parent[w] = s
    BY SupervisorAssumption, Zenon DEF Init
  <2>2. \A p \in Pids : owner[p] # None => owner[p] \in all_workers
    BY <1>1, <1>2, <1>4, SupervisorAssumption
  <2> QED
    BY <2>1, <2>2, Zenon DEF TreeInv
<1>9. stack = <<>> /\ Len(stack) = 0 /\ stack \in Seq(Frame)
  BY DEF Init
<1>10. StackInv
  BY <1>9 DEF StackInv
<1>11. OneInv
  <2>1. \A p, q \in Pids : owner[p] = owner[q] => p = q \/ owner[p] = None
    BY <1>4, Zenon
  <2>2. \A w \in Workers : w # None
    BY SupervisorAssumption, Zenon
  <2> QED
    BY <1>9, <2>1, <2>2 DEF OneInv, OwnsOne, StartsOne
<1>12. PermanentIsNotForgotten
  BY <1>1, <1>2, Zenon DEF PermanentIsNotForgotten
<1> QED
  BY <1>6, <1>7, <1>8, <1>10, <1>11, <1>12, Zenon DEF IInv

(* A process exits. *)
LEMMA ExitIInv == ASSUME IInv, NEW p \in Pids, Exit(p) PROVE IInv'
<1>1. PICK status \in {"ok", "bad"} : kernel' = [kernel EXCEPT ![p] = status]
  BY Zenon DEF Exit
<1>2. /\ strategy' = strategy /\ children' = children /\ state' = state /\ pid' = pid
      /\ pid_map' = pid_map /\ recent' = recent /\ stack' = stack /\ owner' = owner
      /\ on_disk' = on_disk /\ spawn_failed' = spawn_failed /\ commanded' = commanded
      /\ termed' = termed \ {p} /\ kernel[p] = "alive"
  BY DEF Exit, tree
<1>3. Grows /\ all_workers' = all_workers
  BY <1>2, SameTree, Zenon
<1>4. StackInv' /\ \A w : NoNewStart(w) /\ NoLostStart(w)
  BY <1>2, <1>3, SameFrames, Zenon DEF IInv
<1>5. /\ kernel' \in [Pids -> {"free", "alive", "ok", "bad"}]
      /\ \A q \in Pids : kernel'[q] = "free" <=> kernel[q] = "free"
  BY <1>1, <1>2, Zenon DEF IInv, TypeOK
<1>6. TypeOK'
  BY <1>2, <1>5, Zenon DEF IInv, TypeOK
<1>7. BookInv' /\ TreeInv'
  BY <1>2, <1>3, <1>5 DEF IInv, BookInv, TreeInv
<1>8. OneInv'
  <2>1. ASSUME NEW w \in Workers PROVE Alone(w)' => OwnsOne(w)' /\ StartsOne(w)'
    BY <1>2, <1>4, KeptOne, Zenon DEF IInv
  <2> QED
    BY <2>1, Zenon DEF OneInv
<1>9. PermanentIsNotForgotten'
  <2>1. ASSUME NEW w \in all_workers PROVE Remembered(w)'
    BY <1>2, <1>4, RememberedIs, KeptRemembered, Zenon DEF IInv
  <2> QED
    BY <2>1, <1>3, RememberedIsNext, Zenon
<1> QED
  BY <1>4, <1>6, <1>7, <1>8, <1>9, Zenon DEF IInv

(* Frames that start nobody. *)
LEMMA OtherFrames ==
  /\ FrameInvNext(ReapCall)
  /\ \A w : ~Starts(ReapCall, w) /\ ~Intends(ReapCall, w)
  /\ \A w \in Workers, p \in Pids \cup {None} : \A v : ~Starts(RestartCall(w, p), v)
  /\ \A add, remove \in SUBSET Workers :
       /\ FrameInvNext(ReloadCall(add, remove))
       /\ \A w : ~Starts(ReloadCall(add, remove), w) /\ ~Intends(ReloadCall(add, remove), w)
BY Frames, Zenon DEF FrameInvNext, FrameInv, Starts, Intends

(* Calls that begin and end without touching a worker. *)
LEMMA EditConfigIInv == ASSUME IInv, EditConfig PROVE IInv'
<1>1. UNCHANGED <<tree, os, spawn_failed, commanded>> /\ stack' = stack
  BY DEF EditConfig
<1>2. Grows
  BY <1>1, SameTree, Zenon DEF tree
<1>3. on_disk' \subseteq Workers
  BY DEF EditConfig
<1> QED
  BY <1>1, <1>2, <1>3, SameFrames, OnlyStack, Zenon DEF IInv

LEMMA MainLoopReapsIInv == ASSUME IInv, MainLoopReaps PROVE IInv'
<1>1. UNCHANGED <<tree, os, spawn_failed, commanded>> /\ on_disk' \subseteq Workers
  BY DEF MainLoopReaps, IInv, TypeOK
<1>2. Grows
  BY <1>1, SameTree, Zenon DEF tree
<1>3. stack' = Append(stack, ReapCall)
  BY SMTT(30) DEF MainLoopReaps, Idle
<1>4. StackInv' /\ \A w : NoNewStart(w) /\ NoLostStart(w)
  BY <1>2, <1>3, PushFrames, OtherFrames, Frames, Zenon DEF IInv
<1> QED
  BY <1>1, <1>4, OnlyStack, Zenon

LEMMA RestartWaitsIInv == ASSUME IInv, RestartWaits PROVE IInv'
<1>1. UNCHANGED <<tree, os, spawn_failed, commanded>> /\ on_disk' \subseteq Workers
  BY DEF RestartWaits, IInv, TypeOK
<1>2. Grows
  BY <1>1, SameTree DEF tree
<1>3. stack' = Append(stack, ReapCall)
  BY Zenon DEF RestartWaits
<1>4. StackInv' /\ \A w : NoNewStart(w) /\ NoLostStart(w)
  BY <1>2, <1>3, PushFrames, OtherFrames, Frames, Zenon DEF IInv
<1> QED
  BY <1>1, <1>4, OnlyStack, Zenon

LEMMA ReloadIInv == ASSUME IInv, Reload PROVE IInv'
<1>1. UNCHANGED <<tree, os, spawn_failed, commanded>> /\ on_disk' \subseteq Workers
  BY Zenon DEF Reload, IInv, TypeOK
<1>2. Grows
  BY <1>1, SameTree DEF tree
<1> DEFINE f == ReloadCall(on_disk \ all_workers, all_workers \ on_disk)
<1>3. on_disk \ all_workers \subseteq Workers /\ all_workers \ on_disk \subseteq Workers
  BY DEF IInv, TypeOK, all_workers
<1>4. f \in Frame /\ FrameInvNext(f) /\ \A w : ~Starts(f, w)
  BY <1>3, Frames, OtherFrames, Zenon
<1>5. stack' = Append(stack, f)
  BY DEF Reload, Receive, Idle
<1> HIDE DEF f
<1>6. StackInv' /\ \A w : NoNewStart(w) /\ NoLostStart(w)
  BY <1>2, <1>4, <1>5, PushFrames, Zenon DEF IInv
<1> QED
  BY <1>1, <1>6, OnlyStack

LEMMA ReturnIInv ==
  ASSUME IInv, StillAlive \/ ExecuteDone \/ ReloadDone
  PROVE  IInv'
<1>1. /\ UNCHANGED <<tree, os, spawn_failed, commanded>> /\ on_disk' \subseteq Workers
      /\ ~Idle /\ stack' = Callers
  BY Zenon DEF StillAlive, ExecuteDone, ReloadDone, In, IInv, TypeOK
<1>2. Grows
  BY <1>1, SameTree DEF tree
<1>3. \A w : ~Intends(Top, w)
  <2>1. CASE StillAlive \/ ReloadDone
    BY <2>1, Zenon DEF StillAlive, ReloadDone, In, Intends, Starts
  <2>2. CASE ExecuteDone
    <3>1. Range(Top.to_start) = {}
      BY <2>2 DEF ExecuteDone, Range
    <3> QED
      BY <2>2, <3>1, Zenon DEF ExecuteDone, In, Intends, Starts
  <2> QED
    BY <2>1, <2>2, Zenon
<1>4. StackInv' /\ \A w : NoNewStart(w) /\ NoLostStart(w)
  BY <1>1, <1>2, <1>3, PopFrame, Zenon DEF IInv
<1> QED
  BY <1>1, <1>4, OnlyStack, Zenon

-----------------------------------------------------------------------------
(* The calls that stop a worker. *)
LEMMA StopServiceIInv == ASSUME IInv, NEW v \in Workers, StopService(v) PROVE IInv'
<1>1. /\ stop_worker(v) /\ stack' = stack /\ commanded' = commanded
      /\ UNCHANGED <<strategy, children, pid, pid_map, recent, kernel, owner, on_disk,
                     spawn_failed>>
  BY Zenon DEF StopService
<1>2. Grows /\ commanded' \subseteq Workers /\ commanded \subseteq commanded'
  BY <1>1, SameTree DEF IInv, TypeOK
<1>3. StackInv' /\ \A w : NoNewStart(w) /\ NoLostStart(w)
  BY <1>1, <1>2, SameFrames, Zenon DEF IInv
<1> QED
  BY <1>1, <1>2, <1>3, OnlyStop, Zenon

LEMMA ReloadRemovesIInv == ASSUME IInv, ReloadRemoves PROVE IInv'
<1>1. /\ In("reload_services")
      /\ UNCHANGED <<strategy, children, pid, pid_map, recent, kernel, owner, on_disk,
                     spawn_failed>>
      /\ commanded' = commanded
  BY Zenon DEF ReloadRemoves
<1>2. PICK v \in Top.remove :
        stop_worker(v) /\ stack' = Replace(ReloadCall(Top.add, Top.remove \ {v}))
  BY SMTT(30) DEF ReloadRemoves
<1>3. Top.call = "reload_services" /\ ~Idle
  BY <1>1, Zenon DEF In
<1>4. Top.add \subseteq Workers /\ Top.remove \subseteq Workers
  BY <1>3, TopFrame, FrameFields DEF IInv
<1> DEFINE f == ReloadCall(Top.add, Top.remove \ {v})
<1>5. f \in Frame /\ FrameInvNext(f) /\ \A w : ~Starts(f, w)
  BY <1>4, Frames, OtherFrames, Zenon
<1>6. \A w : ~Intends(Top, w)
  BY <1>3 DEF Intends, Starts
<1>7. stack' = Replace(f)
  BY <1>2, Zenon
<1> HIDE DEF f
<1>8. Grows /\ commanded' \subseteq Workers /\ commanded \subseteq commanded'
  BY <1>1, SameTree, Zenon DEF IInv, TypeOK
<1>9. StackInv' /\ \A w : NoNewStart(w) /\ NoLostStart(w)
  BY <1>3, <1>5, <1>6, <1>7, <1>8, ReplaceFrame, Zenon DEF IInv
<1> QED
  BY <1>1, <1>2, <1>4, <1>8, <1>9, OnlyStop, Zenon

LEMMA RestartServiceIInv == ASSUME IInv, NEW v \in Workers, RestartService(v) PROVE IInv'
<1>1. /\ stop_worker(v) /\ stack = <<>> /\ v \in all_workers
      /\ UNCHANGED <<strategy, children, pid, pid_map, recent, kernel, owner, on_disk,
                     spawn_failed>>
      /\ commanded' = commanded \cup {v}
      /\ stack' = IF pid[v] = None THEN <<RestartCall(v, None)>>
                  ELSE <<RestartCall(v, pid[v]), ReapCall>>
  BY DEF RestartService, Receive, Idle
<1>2. /\ Grows /\ all_workers' = all_workers
      /\ commanded' \subseteq Workers /\ commanded \subseteq commanded'
  BY <1>1, SameTree, Zenon DEF IInv, TypeOK
<1> DEFINE f == RestartCall(v, pid[v])
<1>3. f \in Frame /\ \A w : ~Starts(f, w)
  BY Frames, OtherFrames, Zenon DEF IInv, TypeOK
<1>4. FrameInvNext(f)
  <2>1. f.call = "RestartService" /\ f.name = v
    BY Zenon DEF RestartCall
  <2>2. v \in all_workers' \cap commanded'
    BY <1>1, <1>2, Zenon
  <2> QED
    BY <2>1, <2>2, Zenon DEF FrameInvNext, FrameInv
<1>5. stack' = Append(stack, f) \/ stack' = Append(Append(stack, f), ReapCall)
  BY <1>1, SMTT(30)
<1> HIDE DEF f
<1>6. StackInv' /\ \A w : NoNewStart(w) /\ NoLostStart(w)
  BY <1>2, <1>3, <1>4, <1>5, PushFrames, OtherFrames, Frames, ZenonT(60) DEF IInv
<1> QED
  BY <1>1, <1>2, <1>6, OnlyStop, Zenon

-----------------------------------------------------------------------------
(* The calls that start a worker. *)
LEMMA StartServiceIInv == ASSUME IInv, NEW v \in Workers, StartService(v) PROVE IInv'
<1>1. /\ start_worker(v) /\ v \in all_workers /\ stack' = stack
      /\ strategy' = strategy /\ recent' = recent /\ on_disk' = on_disk
      /\ children' = children /\ commanded' = commanded \cup {v}
  BY Zenon DEF StartService
<1>2. /\ Grows /\ all_workers' = all_workers \cup {v}
      /\ commanded' \subseteq Workers /\ commanded \subseteq commanded'
  BY <1>1, SameTree, Zenon DEF IInv, TypeOK
<1>3. StackInv' /\ \A w : NoNewStart(w) /\ NoLostStart(w)
  BY <1>1, <1>2, SameFrames, Zenon DEF IInv
<1>4. ~Alone(v)'
  BY <1>1, Zenon DEF Alone
<1>5. /\ children' \in [Supervisors -> Seq(Workers \cup Supervisors)]
      /\ \A s \in Supervisors : IsInjective(children'[s])
      /\ \A s \in Supervisors : \A w \in Workers \cap Range(children'[s]) : Parent[w] = s
  BY <1>1, Zenon DEF IInv, TypeOK, TreeInv
<1> QED
  BY <1>1, <1>2, <1>3, <1>4, <1>5, OnlyStart, Zenon

LEMMA RestartStartsIInv == ASSUME IInv, RestartStarts PROVE IInv'
<1>0. Top.call = "RestartService" /\ ~Idle
  BY Zenon DEF RestartStarts, In
<1>v. PICK v \in Workers : v = Top.name
  BY <1>0, TopFrame, FrameFields DEF IInv
<1>1. /\ start_worker(v) /\ stack' = Callers
      /\ strategy' = strategy /\ recent' = recent /\ on_disk' = on_disk
      /\ children' = children /\ commanded' = commanded
  BY <1>v, Zenon DEF RestartStarts
<1>2. v \in all_workers /\ v \in commanded
  BY <1>0, <1>v, TopFrame, Zenon DEF IInv, FrameInv
<1>3. \A w : w # v => ~Intends(Top, w)
  BY <1>0, <1>v, Zenon DEF Intends, Starts
<1>4. /\ Grows /\ all_workers' = all_workers \cup {v}
      /\ commanded' \subseteq Workers /\ commanded \subseteq commanded'
  BY <1>1, <1>2, SameTree, Zenon DEF IInv, TypeOK
<1>5. StackInv' /\ (\A w : NoNewStart(w)) /\ (\A w : w # v => NoLostStart(w))
  BY <1>0, <1>1, <1>3, <1>4, PopFrame, Zenon DEF IInv
<1>6. ~Alone(v)'
  BY <1>1, <1>2, Zenon DEF Alone
<1>7. /\ children' \in [Supervisors -> Seq(Workers \cup Supervisors)]
      /\ \A s \in Supervisors : IsInjective(children'[s])
      /\ \A s \in Supervisors : \A w \in Workers \cap Range(children'[s]) : Parent[w] = s
  BY <1>1 DEF IInv, TypeOK, TreeInv
<1> QED
  BY <1>1, <1>2, <1>4, <1>5, <1>6, <1>7, OnlyStart, Zenon

(* A child at the end of the list of its supervisor. *)
LEMMA AddsChild ==
  ASSUME IInv, NEW v \in Workers, add_worker(v)
  PROVE  /\ children' \in [Supervisors -> Seq(Workers \cup Supervisors)]
         /\ \A s \in Supervisors : IsInjective(children'[s])
         /\ \A s \in Supervisors : \A w \in Workers \cap Range(children'[s]) : Parent[w] = s
         /\ all_workers' = all_workers \cup {v} /\ v \notin all_workers
         /\ \A s \in Supervisors : Range(children[s]) \subseteq Range(children'[s])
<1> DEFINE up == Parent[v]  old == children[up]
<1>1. up \in Supervisors
  BY SupervisorAssumption
<1>2. /\ children \in [Supervisors -> Seq(Workers \cup Supervisors)]
      /\ \A s \in Supervisors : IsInjective(children[s])
  BY Zenon DEF IInv, TypeOK
<1>3. children' = [children EXCEPT ![up] = Append(old, v)] /\ v \notin all_workers
  BY DEF add_worker
<1>4. \A s \in Supervisors : v \notin Range(children[s])
  BY <1>3, Zenon DEF all_workers
<1>5. old \in Seq(Workers \cup Supervisors) /\ IsInjective(old) /\ v \notin Range(old)
  BY <1>1, <1>2, <1>4, Zenon
<1>6. children'[up] = Append(old, v) /\ \A s \in Supervisors \ {up} : children'[s] = children[s]
  BY <1>1, <1>2, <1>3, Zenon
<1>7. Append(old, v) \in Seq(Workers \cup Supervisors)
  BY <1>5, SMTT(30)
<1>8. Range(Append(old, v)) = Range(old) \cup {v}
  BY <1>5, RangeOfAppend
<1>9. IsInjective(Append(old, v))
  <2> HIDE DEF old
  <2>1. /\ DOMAIN old = 1..Len(old) /\ Len(old) \in Nat
        /\ DOMAIN Append(old, v) = 1..(Len(old) + 1)
        /\ Append(old, v)[Len(old) + 1] = v /\ \A i \in 1..Len(old) : Append(old, v)[i] = old[i]
    BY <1>5
  <2>2. \A i \in 1..Len(old) : old[i] # v
    BY <1>5, <2>1, Zenon DEF Range
  <2>3. \A i, j \in 1..Len(old) : old[i] = old[j] => i = j
    BY <1>5, <2>1, Zenon DEF IsInjective
  <2>4. \A i \in 1..(Len(old) + 1) : i \in 1..Len(old) \/ i = Len(old) + 1
    BY <2>1
  <2> QED
    BY <2>1, <2>2, <2>3, <2>4, Zenon DEF IsInjective
<1>10. /\ children' \in [Supervisors -> Seq(Workers \cup Supervisors)]
       /\ \A s \in Supervisors : IsInjective(children'[s])
  BY <1>1, <1>2, <1>3, <1>6, <1>7, <1>9, Zenon
<1>11. \A s \in Supervisors : Range(children'[s]) =
         IF s = up THEN Range(children[s]) \cup {v} ELSE Range(children[s])
  BY <1>6, <1>8, Zenon
<1> HIDE DEF old
<1>12. \A s \in Supervisors : \A w \in Workers \cap Range(children'[s]) : Parent[w] = s
  BY <1>11, ZenonT(30) DEF IInv, TreeInv
<1>13. all_workers' = all_workers \cup {v}
  BY <1>1, <1>11, ZenonT(60) DEF all_workers
<1> QED
  BY <1>3, <1>10, <1>11, <1>12, <1>13, ZenonT(30)

LEMMA ReloadAddsIInv == ASSUME IInv, ReloadAdds PROVE IInv'
<1>0. Top.call = "reload_services" /\ ~Idle
  BY Zenon DEF ReloadAdds, In
<1>1. PICK v \in Top.add :
        /\ add_worker(v) /\ start_worker(v)
        /\ stack' = Replace(ReloadCall(Top.add \ {v}, Top.remove))
  BY Zenon DEF ReloadAdds
<1>2. strategy' = strategy /\ recent' = recent /\ on_disk' = on_disk /\ commanded' = commanded
  BY DEF ReloadAdds
<1>3. Top.add \subseteq Workers /\ Top.remove \subseteq Workers
  BY <1>0, TopFrame, FrameFields, Zenon DEF IInv
<1> DEFINE f == ReloadCall(Top.add \ {v}, Top.remove)
<1>4. f \in Frame /\ FrameInvNext(f) /\ \A w : ~Starts(f, w)
  BY <1>3, Frames, OtherFrames, Zenon
<1>5. \A w : ~Intends(Top, w)
  BY <1>0, Zenon DEF Intends, Starts
<1>6. stack' = Replace(f) /\ v \in Workers
  BY <1>1, <1>3, Zenon
<1> HIDE DEF f
<1>7. Grows /\ commanded' \subseteq Workers /\ commanded \subseteq commanded'
  <2>1. /\ all_workers' = all_workers \cup {v}
        /\ \A s \in Supervisors : Range(children[s]) \subseteq Range(children'[s])
    BY <1>1, <1>6, AddsChild, Zenon
  <2>2. commanded \subseteq Workers
    BY Zenon DEF IInv, TypeOK
  <2> QED
    BY <1>2, <2>1, <2>2, Zenon DEF Grows
<1>8. StackInv' /\ \A w : NoNewStart(w) /\ NoLostStart(w)
  BY <1>0, <1>4, <1>5, <1>6, <1>7, ReplaceFrame, Zenon DEF IInv
<1>9. \A p \in Pids : owner[p] # v
  <2>1. v \notin all_workers /\ v # None
    BY <1>1, <1>6, AddsChild, SupervisorAssumption, Zenon
  <2> QED
    BY <2>1, Zenon DEF IInv, TreeInv
<1>10. \A i \in 1..Len(stack') : ~Starts(stack'[i], v)
  <2>1. ASSUME NEW i \in 1..Len(stack), Starts(stack[i], v) PROVE FALSE
    <3>1. stack[i] \in Frame /\ FrameInv(stack[i], strategy, children, all_workers, commanded)
      BY DEF IInv, StackInv
    <3>2. stack[i].sup \in Supervisors /\ v \in Range(children[stack[i].sup])
      BY <2>1, <3>1, FrameFields, Zenon DEF Starts, FrameInv
    <3>3. v \in all_workers
      BY <1>6, <3>2, Zenon DEF all_workers
    <3> QED
      BY <3>3, <1>1, <1>6, AddsChild, Zenon
  <2> QED
    BY <1>8, <2>1, Zenon DEF NoNewStart
<1>11. /\ children' \in [Supervisors -> Seq(Workers \cup Supervisors)]
       /\ \A s \in Supervisors : IsInjective(children'[s])
       /\ \A s \in Supervisors : \A w \in Workers \cap Range(children'[s]) : Parent[w] = s
       /\ all_workers' = all_workers \cup {v}
  BY <1>1, <1>6, AddsChild, Zenon
<1> QED
  BY <1>1, <1>2, <1>6, <1>7, <1>8, <1>9, <1>10, <1>11, OnlyStart, Zenon

-----------------------------------------------------------------------------
(* A strategy starts the next of its children. *)
LEMMA ExecuteStartsIInv == ASSUME IInv, ExecuteStarts PROVE IInv'
<1>0. Top.call = "execute_strategy_action" /\ ~Idle /\ Top.to_start # <<>>
  BY DEF ExecuteStarts, In
<1>1. /\ strategy' = strategy /\ recent' = recent /\ on_disk' = on_disk
      /\ children' = children /\ commanded' = commanded
      /\ stack' = Replace(ExecuteCall(Top.sup, Tail(Top.to_start)))
  BY Zenon DEF ExecuteStarts
<1>2. /\ Top \in Frame /\ Len(stack) \in 1..Len(stack)
      /\ FrameInv(Top, strategy, children, all_workers, commanded)
      /\ Top.sup \in Supervisors /\ Top.to_start \in Seq(Nodes)
  BY <1>0, TopFrame, FrameFields, Zenon DEF IInv
<1>3. PICK v \in Nodes : v = Head(Top.to_start)
  BY <1>0, <1>2
<1>4. PICK sup \in Supervisors : sup = Top.sup
  BY <1>2
<1>5. PICK rest \in Seq(Nodes) : rest = Tail(Top.to_start)
  <2>1. Tail(Top.to_start) \in Seq(Nodes)
    BY <1>0, <1>2, RangeOfSeq, Zenon
  <2> QED
    BY <2>1, Zenon
<1>6. /\ Range(Top.to_start) = {v} \cup Range(rest)
      /\ Len(rest) = Len(Top.to_start) - 1 /\ Len(Top.to_start) \in Nat
  BY <1>0, <1>2, <1>3, <1>5, RangeOfSeq, Zenon
<1>7. /\ Range(Top.to_start) \subseteq Range(children[sup])
      /\ strategy[sup] = "OneForOne" => Len(Top.to_start) <= 1
  BY <1>0, <1>2, <1>4, Zenon DEF FrameInv
<1> DEFINE f == ExecuteCall(sup, rest)
<1>8. /\ f \in Frame /\ f.call = "execute_strategy_action" /\ f.sup = sup
      /\ f.to_start = rest
  BY Frames
<1>9. stack' = Replace(f)
  BY <1>1, <1>4, <1>5, Zenon
<1> HIDE DEF f
<1>10. /\ Grows /\ all_workers' = all_workers
       /\ commanded' \subseteq Workers /\ commanded \subseteq commanded'
  BY <1>1, SameTree, Zenon DEF IInv, TypeOK
<1>11. FrameInvNext(f)
  <2>1. Range(f.to_start) \subseteq Range(children'[f.sup])
    BY <1>1, <1>6, <1>7, <1>8, ZenonT(30)
  <2>2. strategy'[f.sup] = "OneForOne" => Len(f.to_start) <= 1
    <3>1. Len(Top.to_start) <= 1 => Len(rest) <= 1
      BY ONLY <1>6
    <3> QED
      BY <1>1, <1>7, <1>8, <3>1, Zenon
  <2> QED
    BY <1>8, <2>1, <2>2, ZenonT(30) DEF FrameInvNext, FrameInv
<1>12. /\ \A w : Starts(f, w) <=> w \in Range(rest)
       /\ \A w : Intends(f, w) <=> w \in Range(rest)
       /\ \A w : Starts(Top, w) <=> w \in Range(Top.to_start)
       /\ \A w : Intends(Top, w) <=> w \in Range(Top.to_start)
  BY <1>0, <1>8, Zenon DEF Starts, Intends
<1>13. /\ \A w : Starts(f, w) => Starts(Top, w)
       /\ \A w : w # v => (Intends(Top, w) => Intends(f, w))
  BY <1>6, <1>12, Zenon
<1>14. /\ StackInv' /\ \A w : NoNewStart(w)
       /\ \A w : w # v => NoLostStart(w)
       /\ Len(stack') = Len(stack) /\ stack'[Len(stack')] = f
  BY <1>0, <1>8, <1>9, <1>10, <1>11, <1>13, ReplaceFrame, Zenon DEF IInv
<1>15. v \in Workers => v \in all_workers /\ Parent[v] = sup
  BY <1>6, <1>7, Zenon DEF all_workers, IInv, TreeInv
<1>16. CASE v \in all_workers
  <2>1. v \in Workers /\ start_worker(v)
    BY <1>3, <1>16, Zenon DEF ExecuteStarts, all_workers
  <2>2. ASSUME Alone(v)'
        PROVE  /\ \A p \in Pids : owner[p] # v
               /\ \A i \in 1..Len(stack') : ~Starts(stack'[i], v)
    <3>1. Alone(v)
      BY <1>1, <2>2, Zenon DEF Alone
    <3>2. Starts(stack[Len(stack)], v)
      BY <1>6, <1>12, Zenon DEF Top
    <3>3. /\ \A p \in Pids : owner[p] # v
          /\ \A j \in 1..Len(stack) : Starts(stack[j], v) => Len(stack) = j
      BY <1>2, <2>1, <3>1, <3>2, Zenon DEF IInv, OneInv, StartsOne
    <3>4. ~Starts(f, v)
      <4>1. Len(rest) <= 0
        BY <1>6, <1>7, <1>15, <2>1, <3>1 DEF Alone
      <4>2. \A x : x \in Range(rest) <=> \E i \in 1..Len(rest) : rest[i] = x
        BY RangeOfSeq, ZenonT(30)
      <4>3. Len(rest) \in Nat
        OBVIOUS
      <4> QED
        BY <4>1, <4>2, <4>3, <1>12
    <3>5. ASSUME NEW i \in 1..Len(stack'), Starts(stack'[i], v) PROVE FALSE
      <4>1. i \in 1..Len(stack) /\ Starts(stack[i], v)
        BY <1>14, <3>5 DEF NoNewStart
      <4>2. i = Len(stack')
        BY <1>14, <3>3, <4>1, Zenon
      <4> QED
        BY <1>14, <3>4, <3>5, <4>2, Zenon
    <3> QED
      BY <3>3, <3>5, Zenon
  <2>3. /\ children' \in [Supervisors -> Seq(Workers \cup Supervisors)]
        /\ \A s \in Supervisors : IsInjective(children'[s])
        /\ \A s \in Supervisors : \A w \in Workers \cap Range(children'[s]) : Parent[w] = s
    BY <1>1, Zenon DEF IInv, TypeOK, TreeInv
  <2>4. all_workers' = all_workers \cup {v}
    BY <1>10, <1>16
  <2> QED
    BY <1>1, <1>10, <1>14, <2>1, <2>2, <2>3, <2>4, OnlyStart, Zenon
<1>17. CASE v \notin all_workers
  <2>1. UNCHANGED <<state, pid, pid_map, os, spawn_failed>>
    BY <1>3, <1>17, Zenon DEF ExecuteStarts
  <2>2. UNCHANGED <<tree, os, spawn_failed, commanded>> /\ on_disk' \subseteq Workers
    BY <1>1, <2>1, Zenon DEF tree, IInv, TypeOK
  <2>3. \A w \in Workers : NoNewStart(w) /\ NoLostStart(w)
    BY <1>14, <1>15, <1>17, Zenon
  <2> QED
    BY <1>14, <2>2, <2>3, OnlyStack, Zenon
<1> QED
  BY <1>16, <1>17, Zenon

-----------------------------------------------------------------------------
(***************************************************************************)
(* handle_child_exit.  The strategies start the child that has exited,     *)
(* children of its supervisor only, and one-for-one nobody else.           *)
(***************************************************************************)
LEMMA StrategyStarts ==
  ASSUME TypeOK, NEW sup \in Supervisors, NEW w \in Range(children[sup])
  PROVE  /\ StrategyAction(sup, w).to_start \in Seq(Nodes)
         /\ Range(StrategyAction(sup, w).to_start) \subseteq Range(children[sup])
         /\ w \in Range(StrategyAction(sup, w).to_start)
         /\ strategy[sup] = "OneForOne" => StrategyAction(sup, w).to_start = <<w>>
<1> DEFINE ch == children[sup]
<1>1. ch \in Seq(Nodes) /\ Range(ch) \subseteq Nodes /\ w \in Nodes
  BY RangeOfSeq, ZenonT(30) DEF TypeOK, Nodes
<1>2. strategy[sup] \in {"OneForOne", "OneForAll", "RestForOne"}
  BY SupervisorAssumption DEF TypeOK
<1> HIDE DEF ch
<1>3. CASE strategy[sup] = "OneForOne"
  <2>1. StrategyAction(sup, w).to_start = <<w>>
    BY <1>3 DEF StrategyAction, apply_one_for_one
  <2>2. <<w>> \in Seq(Nodes) /\ Range(<<w>>) = {w}
    BY <1>1 DEF Range
  <2> QED
    BY <2>1, <2>2
<1>4. CASE strategy[sup] = "OneForAll"
  <2>1. StrategyAction(sup, w).to_start = ch
    BY <1>4, Zenon DEF StrategyAction, apply_one_for_all, ch
  <2> QED
    BY <1>1, <1>4, <2>1, Zenon DEF ch
<1>5. CASE strategy[sup] = "RestForOne"
  <2> DEFINE k == CHOOSE i \in 1..Len(ch) : ch[i] = w
  <2>1. k \in 1..Len(ch) /\ ch[k] = w
    <3>1. \E i \in 1..Len(ch) : ch[i] = w
      BY <1>1, RangeOfSeq, ZenonT(30) DEF ch
    <3> QED
      BY <3>1, ZenonT(30)
  <2>2. StrategyAction(sup, w).to_start = SubSeq(ch, k, Len(ch))
    BY <1>5, Zenon DEF StrategyAction, apply_rest_for_one, ch
  <2> HIDE DEF k
  <2>3. Len(ch) \in Nat /\ k \in Nat \ {0} /\ k <= Len(ch) /\ \A i \in 1..Len(ch) : ch[i] \in Nodes
    BY <1>1, <2>1
  <2>4. SubSeq(ch, k, Len(ch)) \in Seq(Nodes)
    BY <1>1, <2>3
  <2>5. /\ Len(SubSeq(ch, k, Len(ch))) = Len(ch) - k + 1
        /\ \A i \in 1..(Len(ch) - k + 1) : SubSeq(ch, k, Len(ch))[i] = ch[k + i - 1]
    BY <1>1, <2>3
  <2>6. SubSeq(ch, k, Len(ch))[1] = w /\ 1 \in 1..(Len(ch) - k + 1)
    BY <2>1, <2>3, <2>5
  <2>7. \A i \in 1..(Len(ch) - k + 1) : k + i - 1 \in 1..Len(ch)
    BY <2>3
  <2>8. \A x : x \in Range(ch) <=> \E i \in 1..Len(ch) : ch[i] = x
    BY <1>1, RangeOfSeq
  <2>9. \A x : x \in Range(SubSeq(ch, k, Len(ch)))
               <=> \E i \in 1..Len(SubSeq(ch, k, Len(ch))) : SubSeq(ch, k, Len(ch))[i] = x
    BY <2>4, RangeOfSeq, ZenonT(30)
  <2>10. Range(SubSeq(ch, k, Len(ch))) \subseteq Range(ch)
    BY <2>5, <2>7, <2>8, <2>9, ZenonT(30)
  <2>11. w \in Range(SubSeq(ch, k, Len(ch)))
    BY <2>5, <2>6, <2>9, Zenon
  <2> QED
    BY <1>5, <2>2, <2>4, <2>10, <2>11, Zenon DEF ch
<1> QED
  BY <1>2, <1>3, <1>4, <1>5, Zenon

(***************************************************************************)
(* The process p of w is gone from the books.                              *)
(***************************************************************************)
Reaped(p, w) ==
  /\ w \in all_workers /\ Parent[w] \in Supervisors /\ w \in Range(children[Parent[w]])
  /\ owner[p] = w
  /\ kernel' \in [Pids -> {"free", "alive", "ok", "bad"}]
  /\ owner' \in [Pids -> Workers \cup {None}]
  /\ pid_map' \in [Pids -> Workers \cup {None}]
  /\ pid' \in [Workers -> Pids \cup {None}]
  /\ \A q \in Pids \ {p} : /\ owner'[q] = owner[q] /\ pid_map'[q] = pid_map[q]
                           /\ kernel'[q] = kernel[q]
  /\ owner'[p] = None /\ pid_map'[p] = None /\ kernel'[p] = "free"
  /\ pid'[w] = None /\ \A v \in Workers \ {w} : pid'[v] = pid[v]
  /\ \A q \in Pids : \A v \in Workers : owner'[q] = v => owner[q] = v /\ q # p
  /\ strategy' = strategy /\ children' = children /\ on_disk' = on_disk
  /\ spawn_failed' = spawn_failed /\ commanded' = commanded

LEMMA Deregisters ==
  ASSUME IInv, NEW p \in Pids, Zombie(p), NEW w, w = pid_map[p], Deregister(p, w)
  PROVE  w \in Workers /\ w # None /\ Reaped(p, w)
<1>1. kernel[p] # "free" /\ pid_map[p] = owner[p]
  BY Zenon DEF Zombie, IInv, BookInv
<1>2. owner[p] = w /\ w \in Workers /\ w # None
  BY <1>1, ZenonT(30) DEF IInv, BookInv, TypeOK
<1>3. w \in all_workers
  BY <1>2, ZenonT(30) DEF IInv, TreeInv
<1>4. Parent[w] \in Supervisors /\ w \in Range(children[Parent[w]])
  BY <1>2, <1>3, SupervisorAssumption DEF all_workers, IInv, TreeInv
<1>5. /\ kernel' = [kernel EXCEPT ![p] = "free"] /\ owner' = [owner EXCEPT ![p] = None]
      /\ pid_map' = [pid_map EXCEPT ![p] = None] /\ pid' = [pid EXCEPT ![w] = None]
  BY <1>2 DEF Deregister, unregister_pid
<1>6. /\ kernel' \in [Pids -> {"free", "alive", "ok", "bad"}]
      /\ owner' \in [Pids -> Workers \cup {None}]
      /\ pid_map' \in [Pids -> Workers \cup {None}]
      /\ pid' \in [Workers -> Pids \cup {None}]
  BY <1>5, Zenon DEF IInv, TypeOK
<1>7. \A q \in Pids \ {p} : /\ owner'[q] = owner[q] /\ pid_map'[q] = pid_map[q]
                            /\ kernel'[q] = kernel[q]
  BY <1>5, Zenon DEF IInv, TypeOK
<1>8. owner'[p] = None /\ pid_map'[p] = None /\ kernel'[p] = "free"
  BY <1>5, Zenon DEF IInv, TypeOK
<1>9. pid'[w] = None /\ \A v \in Workers \ {w} : pid'[v] = pid[v]
  BY <1>2, <1>5 DEF IInv, TypeOK
<1>10. /\ strategy' = strategy /\ children' = children /\ on_disk' = on_disk
       /\ spawn_failed' = spawn_failed /\ commanded' = commanded
  BY Zenon DEF Deregister
<1>11. \A q \in Pids : \A v \in Workers : owner'[q] = v => owner[q] = v /\ q # p
  BY <1>7, <1>8, SupervisorAssumption, Zenon
<1> QED
  BY <1>2, <1>3, <1>4, <1>6, <1>7, <1>8, <1>9, <1>10, <1>11, Zenon DEF Reaped

LEMMA ReapedBooks ==
  ASSUME IInv, NEW p \in Pids, NEW w \in Workers, Reaped(p, w),
         state'[w] \notin {"Running", "Stopping"},
         \A v \in Workers \ {w} : pid[v] = None => state'[v] \in {state[v], "Abandoned"}
  PROVE  BookInv' /\ TreeInv' /\ all_workers' = all_workers
<1>1. \A q \in Pids : pid_map'[q] = owner'[q] /\ (kernel'[q] = "free" <=> owner'[q] = None)
  BY DEF Reaped, IInv, BookInv
<1>2. ASSUME NEW v \in Workers, pid'[v] # None PROVE owner'[pid'[v]] = v
  <2>1. v # w /\ pid'[v] = pid[v]
    BY <1>2, Zenon DEF Reaped
  <2>2. pid[v] \in Pids /\ owner[pid[v]] = v
    <3>1. pid[v] \in Pids
      BY <1>2, <2>1, Zenon DEF IInv, TypeOK
    <3>2. owner[pid[v]] = v
      BY <1>2, <2>1, Zenon DEF IInv, BookInv
    <3> QED
      BY <3>1, <3>2, Zenon
  <2>3. pid[v] # p
    BY <2>1, <2>2, ZenonT(30) DEF Reaped
  <2> QED
    BY <2>1, <2>2, <2>3, ZenonT(30) DEF Reaped
<1>3. ASSUME NEW v \in Workers, state'[v] \in {"Running", "Stopping"} PROVE pid'[v] # None
  <2>1. v # w /\ pid'[v] = pid[v]
    BY <1>3, ZenonT(30) DEF Reaped
  <2> QED
    BY <1>3, <2>1, Zenon DEF IInv, BookInv
<1>4. BookInv'
  BY <1>1, <1>2, <1>3, Zenon DEF BookInv
<1>5. all_workers' = all_workers /\ children' = children
  BY SMTT(30) DEF Reaped, all_workers
<1>6. \A q \in Pids : owner'[q] # None => owner'[q] \in all_workers
  BY Zenon DEF Reaped, IInv, TreeInv
<1>7. TreeInv'
  BY <1>5, <1>6, Zenon DEF IInv, TreeInv
<1> QED
  BY <1>4, <1>5, <1>7, ZenonT(30)

LEMMA ReapedRemembered ==
  ASSUME IInv, NEW p \in Pids, NEW w \in Workers, Reaped(p, w), Remembered(w)',
         all_workers' = all_workers,
         \A v \in Workers \ {w} : pid[v] = None => state'[v] \in {state[v], "Abandoned"},
         \A v \in Workers : NoLostStart(v)
  PROVE  PermanentIsNotForgotten'
<1>1. ASSUME NEW v \in all_workers, v # w PROVE Remembered(v)'
  <2>1. v \in Workers /\ Remembered(v)
    BY RememberedIs, Zenon DEF IInv, all_workers
  <2>2. pid'[v] = pid[v] /\ spawn_failed' = spawn_failed
    BY <1>1, <2>1, Zenon DEF Reaped
  <2> QED
    BY <1>1, <2>1, <2>2, KeptRemembered, Zenon
<1> QED
  BY <1>1, RememberedIsNext, Zenon

(* Who has one process still has one, and nobody is about to start it. *)
LEMMA ReapedOne ==
  ASSUME IInv, NEW p \in Pids, NEW w \in Workers, Reaped(p, w), NEW v \in Workers,
         NoNewStart(v)
  PROVE  Alone(v)' => OwnsOne(v)' /\ StartsOne(v)'
<1>1. /\ strategy' = strategy /\ commanded \subseteq commanded'
      /\ \A q \in Pids : owner'[q] = v => owner[q] = v
  BY DEF Reaped
<1> QED
  BY <1>1, KeptOne, ZenonT(30) DEF IInv

(***************************************************************************)
(* What is left to show of an exit once the books are in order.            *)
(***************************************************************************)
Handled(w) ==
  /\ state' \in [Workers -> {"Stopped", "Running", "Stopping", "Failed", "Abandoned"}]
  /\ state'[w] \notin {"Running", "Stopping"}
  /\ \A v \in Workers \ {w} : pid[v] = None => state'[v] \in {state[v], "Abandoned"}
  /\ recent' \in [Supervisors -> Nat] /\ termed' \subseteq Pids

LEMMA OnlyExit ==
  ASSUME IInv, NEW p \in Pids, NEW w \in Workers, Reaped(p, w), Handled(w),
         StackInv', \A v \in Workers : NoLostStart(v), OneInv', Remembered(w)'
  PROVE  IInv'
<1>1. TypeOK'
  BY Zenon DEF Reaped, Handled, IInv, TypeOK
<1>2. BookInv' /\ TreeInv' /\ all_workers' = all_workers
  BY ReapedBooks, Zenon DEF Handled
<1>3. PermanentIsNotForgotten'
  BY <1>2, ReapedRemembered, Zenon DEF Handled
<1> QED
  BY <1>1, <1>2, <1>3, Zenon DEF IInv

LEMMA NoRestartIInv ==
  ASSUME IInv, NEW p \in Pids, NEW w \in Workers, Reaped(p, w), w # None,
         ~should_restart(restart_policy[w], kernel[p] = "ok"), NoRestart(p, w)
  PROVE  IInv'
<1>1. /\ state' = [state EXCEPT ![w] = IF kernel[p] = "ok" THEN "Stopped" ELSE "Failed"]
      /\ recent' = recent /\ stack' = stack /\ termed' = termed
  BY Zenon DEF NoRestart, AfterExit
<1>2. Handled(w)
  BY <1>1, Zenon DEF Handled, IInv, TypeOK
<1>3. Grows
  BY SameTree, Zenon DEF Reaped
<1>4. StackInv' /\ \A v : NoNewStart(v) /\ NoLostStart(v)
  BY <1>1, <1>3, SameFrames, Zenon DEF IInv
<1>5. ASSUME NEW v \in Workers PROVE Alone(v)' => OwnsOne(v)' /\ StartsOne(v)'
  BY <1>4, ReapedOne, Zenon
<1>6. OneInv'
  BY <1>5, Zenon DEF OneInv
<1>7. Remembered(w)'
  BY Zenon DEF Remembered, should_restart
<1> QED
  BY <1>2, <1>4, <1>6, <1>7, OnlyExit, Zenon

(* The numbers of restarts in a window. *)
LEMMA AfterRestartNat ==
  ASSUME IInv, NEW sup \in Supervisors
  PROVE  AfterRestart(sup) \subseteq Nat /\ max_restarts[sup] + 1 \in Nat
BY SupervisorAssumption, SMTT(30) DEF IInv, TypeOK, AfterRestart

LEMMA GiveUpIInv ==
  ASSUME IInv, NEW p \in Pids, NEW w \in Workers, Reaped(p, w), GiveUp(p, w, Parent[w])
  PROVE  IInv'
<1>1. PICK sup \in Supervisors : sup = Parent[w]
  BY Zenon DEF Reaped
<1>2. w \in Range(children[sup]) /\ GiveUp(p, w, sup)
  BY <1>1, Zenon DEF Reaped
<1>3. /\ state' = [v \in Workers |-> IF v \in Range(children[sup]) THEN "Abandoned"
                                      ELSE AfterExit(p, w)[v]]
      /\ stack' = stack /\ termed' = termed
      /\ recent' = [recent EXCEPT ![sup] = max_restarts[sup] + 1]
  BY <1>2, Zenon DEF GiveUp, escalate_failure
<1>4. \A v \in Workers :
        /\ AfterExit(p, w)[v] \in {"Stopped", "Running", "Stopping", "Failed", "Abandoned"}
        /\ v # w => AfterExit(p, w)[v] = state[v]
  BY Zenon DEF AfterExit, IInv, TypeOK
<1>5. /\ state' \in [Workers -> {"Stopped", "Running", "Stopping", "Failed", "Abandoned"}]
      /\ state'[w] = "Abandoned"
      /\ \A v \in Workers \ {w} : state'[v] \in {state[v], "Abandoned"}
  BY <1>2, <1>3, <1>4, Zenon
<1>6. recent' \in [Supervisors -> Nat] /\ termed' \subseteq Pids
  BY <1>3, AfterRestartNat, Zenon DEF IInv, TypeOK
<1>7. Handled(w)
  BY <1>5, <1>6, Zenon DEF Handled
<1>8. Grows
  BY SameTree, ZenonT(60) DEF Reaped
<1>9. StackInv' /\ \A v : NoNewStart(v) /\ NoLostStart(v)
  BY <1>3, <1>8, SameFrames, Zenon DEF IInv
<1>10. ASSUME NEW v \in Workers PROVE Alone(v)' => OwnsOne(v)' /\ StartsOne(v)'
  BY <1>9, ReapedOne
<1>11. OneInv'
  BY <1>10, Zenon DEF OneInv
<1>12. Remembered(w)'
  BY <1>5 DEF Remembered
<1> QED
  BY <1>7, <1>9, <1>11, <1>12, OnlyExit, Zenon

(***************************************************************************)
(* Supervise pushes the call that starts the children of the strategy.     *)
(* Under one-for-one that is w alone, whose only process is gone.          *)
(***************************************************************************)
Pushes(f) ==
  /\ StackInv' /\ \A v : NoLostStart(v)
  /\ \A v : ~Starts(f, v) => NoNewStart(v)
  /\ Len(stack) + 1 \in 1..Len(stack') /\ stack'[Len(stack) + 1] = f
  /\ \A i \in 1..Len(stack') : \A v :
       Starts(stack'[i], v) => \/ i \in 1..Len(stack) /\ Starts(stack[i], v)
                               \/ i = Len(stack) + 1

LEMMA PushesExecute ==
  ASSUME IInv, Grows, NEW f \in Frame, FrameInvNext(f),
         stack' = Append(stack, f) \/ stack' = Append(Append(stack, f), ReapCall)
  PROVE  Pushes(f)
<1>1. ReapCall \in Frame /\ FrameInvNext(ReapCall) /\ \A v : ~Starts(ReapCall, v)
  BY Frames, Zenon DEF FrameInvNext, FrameInv, Starts
<1>2. /\ StackInv' /\ \A v : NoLostStart(v)
      /\ \A v : ~Starts(f, v) /\ ~Starts(ReapCall, v) => NoNewStart(v)
      /\ Len(stack) + 1 \in 1..Len(stack') /\ stack'[Len(stack) + 1] = f
      /\ \A i \in 1..Len(stack') :
           \/ i \in 1..Len(stack) /\ stack'[i] = stack[i]
           \/ i = Len(stack) + 1
           \/ stack'[i] = ReapCall
  BY <1>1, PushFrames, Zenon DEF IInv
<1> QED
  BY <1>1, <1>2, Zenon DEF Pushes

LEMMA SupervisesOne ==
  ASSUME IInv, NEW p \in Pids, NEW w \in Workers, Reaped(p, w),
         NEW f \in Frame, Pushes(f), NEW v \in Workers,
         Starts(f, v) /\ Alone(v) => v = w
  PROVE  Alone(v)' => OwnsOne(v)' /\ StartsOne(v)'
<1>1. CASE ~Starts(f, v)
  BY <1>1, ReapedOne, Zenon DEF Pushes
<1>2. CASE Starts(f, v)
  <2> SUFFICES ASSUME Alone(v)' PROVE OwnsOne(v)' /\ StartsOne(v)'
    BY Zenon
  <2>1. Alone(v) /\ v = w
    BY <1>2, Zenon DEF Alone, Reaped
  <2>2. OwnsOne(v) /\ StartsOne(v)
    BY <2>1, Zenon DEF IInv, OneInv
  <2>3. owner[p] = v /\ \A q \in Pids : owner'[q] = v => owner[q] = v /\ q # p
    BY <2>1, Zenon DEF Reaped
  <2>4. \A q \in Pids : owner'[q] # v
    BY <2>2, <2>3, Zenon DEF OwnsOne
  <2>5. \A i \in 1..Len(stack) : ~Starts(stack[i], v)
    BY <2>2, <2>3, Zenon DEF StartsOne
  <2>6. \A i \in 1..Len(stack') : Starts(stack'[i], v) => i = Len(stack) + 1
    BY <2>5, Zenon DEF Pushes
  <2>7. StartsOne(v)'
    BY <2>4, <2>6, Zenon DEF StartsOne
  <2> QED
    BY <2>4, <2>7 DEF OwnsOne
<1> QED
  BY <1>1, <1>2, Zenon

LEMMA SuperviseIInv ==
  ASSUME IInv, NEW p \in Pids, NEW w \in Workers, Reaped(p, w), Supervise(p, w, Parent[w])
  PROVE  IInv'
<1>1. PICK sup \in Supervisors : sup = Parent[w]
  BY Zenon DEF Reaped
<1>2. PICK act : act = StrategyAction(sup, w)
  BY Zenon
<1>3. PICK stops : stops = {v \in (Range(act.to_stop) \cap Workers) \ {w} : IsRunning(v)}
  BY Zenon
<1>4. /\ \E n \in AfterRestart(sup) : recent' = [recent EXCEPT ![sup] = n]
      /\ termed' = Sigterm({pid[v] : v \in stops})
      /\ state' = [v \in Workers |-> IF v \in stops THEN "Stopping" ELSE AfterExit(p, w)[v]]
      /\ \/ stack' = Append(stack, ExecuteCall(sup, act.to_start))
         \/ stack' = Append(Append(stack, ExecuteCall(sup, act.to_start)), ReapCall)
  BY <1>1, <1>2, <1>3, Zenon DEF Supervise
<1>5. /\ act.to_start \in Seq(Nodes) /\ Range(act.to_start) \subseteq Range(children[sup])
      /\ w \in Range(act.to_start)
      /\ strategy[sup] = "OneForOne" => act.to_start = <<w>>
  <2>1. w \in Range(children[sup])
    BY <1>1, Zenon DEF Reaped
  <2> QED
    BY <1>2, <2>1, StrategyStarts, Zenon DEF IInv
<1>6. Handled(w)
  <2>1. \A v \in Workers : /\ v \in stops => v # w /\ state[v] = "Running"
                           /\ v # w => AfterExit(p, w)[v] = state[v]
    BY <1>3, Zenon DEF IsRunning, AfterExit, IInv, TypeOK
  <2>2. /\ AfterExit(p, w) \in [Workers -> {"Stopped", "Running", "Stopping", "Failed", "Abandoned"}]
        /\ AfterExit(p, w)[w] \in {"Stopped", "Failed"}
    BY Zenon DEF AfterExit, IInv, TypeOK
  <2>3. state' \in [Workers -> {"Stopped", "Running", "Stopping", "Failed", "Abandoned"}]
    BY <1>4, <2>2, Zenon
  <2>4. state'[w] \notin {"Running", "Stopping"}
    BY <1>4, <2>1, <2>2, Zenon
  <2>5. \A v \in Workers \ {w} : pid[v] = None => state'[v] = state[v]
    BY <1>4, <2>1, Zenon DEF IInv, BookInv
  <2>6. recent' \in [Supervisors -> Nat]
    <3>1. PICK n \in AfterRestart(sup) : recent' = [recent EXCEPT ![sup] = n]
      BY <1>4, Zenon
    <3>2. n \in Nat
      BY AfterRestartNat, Zenon
    <3> QED
      BY <3>1, <3>2, Zenon DEF IInv, TypeOK
  <2>7. termed' \subseteq Pids
    BY <1>4, Zenon DEF Sigterm, IInv, TypeOK
  <2> QED
    BY <2>3, <2>4, <2>5, <2>6, <2>7, Zenon DEF Handled
<1>7. PICK f \in Frame : f = ExecuteCall(sup, act.to_start)
  BY <1>5, Frames, Zenon
<1>8. f.call = "execute_strategy_action" /\ f.sup = sup /\ f.to_start = act.to_start
  <2>1. act.to_start \in Seq(Nodes)
    BY <1>5, Zenon
  <2>2. IsExecuteCall(f, sup, act.to_start)
    BY <1>7, <2>1, ExecuteCallIs, Zenon
  <2> QED
    BY <2>2, Zenon DEF IsExecuteCall
<1>9. Grows
  BY SameTree, Zenon DEF Reaped
<1>10. FrameInvNext(f)
  <2>1. strategy[sup] = "OneForOne" => Len(act.to_start) <= 1
    BY <1>5, OneIsShort, Zenon
  <2>2. children' = children /\ strategy' = strategy
    BY Zenon DEF Reaped
  <2> QED
    BY <1>5, <1>8, <2>1, <2>2, Zenon DEF FrameInvNext, FrameInv
<1>11. Pushes(f)
  BY <1>4, <1>7, <1>9, <1>10, PushesExecute, Zenon
<1>12. ASSUME NEW v \in Workers PROVE Alone(v)' => OwnsOne(v)' /\ StartsOne(v)'
  <2>1. ASSUME Starts(f, v), Alone(v) PROVE v = w
    <3>1. v \in Range(act.to_start) /\ strategy[Parent[v]] = "OneForOne"
      BY <1>8, <2>1, Zenon DEF Starts, Alone
    <3>2. Parent[v] = sup
      BY <1>5, <3>1, Zenon DEF IInv, TreeInv
    <3>3. v \in Range(<<w>>)
      BY <1>5, <3>1, <3>2, Zenon
    <3> QED
      BY <3>3, SMTT(30) DEF Range
  <2> QED
    BY <1>11, <2>1, SupervisesOne, Zenon
<1>13. OneInv'
  BY <1>12, Zenon DEF OneInv
<1>14. Remembered(w)'
  <2>1. AboutToStart(w)'
    BY <1>5, <1>8, <1>11, Zenon DEF AboutToStart, Pushes
  <2> QED
    BY <2>1, Zenon DEF Remembered
<1> QED
  BY <1>6, <1>11, <1>13, <1>14, OnlyExit, Zenon DEF Pushes

LEMMA WaitpidIInv ==
  ASSUME IInv, Waitpid
  PROVE  IInv'
<1>1. PICK p \in Pids : Zombie(p) /\ handle_child_exit(p)
  BY DEF Waitpid
<1>2. PICK w : w = pid_map[p]
  BY Zenon
<1>3. /\ Deregister(p, w)
      /\ IF w = None \/ ~should_restart(restart_policy[w], kernel[p] = "ok")
         THEN NoRestart(p, w)
         ELSE GiveUp(p, w, Parent[w]) \/ Supervise(p, w, Parent[w])
  BY <1>1, <1>2, Zenon DEF handle_child_exit
<1>4. w \in Workers /\ w # None /\ Reaped(p, w)
  BY <1>1, <1>2, <1>3, Deregisters, Zenon
<1>5. CASE ~should_restart(restart_policy[w], kernel[p] = "ok")
  BY <1>3, <1>4, <1>5, NoRestartIInv, Zenon
<1>6. CASE should_restart(restart_policy[w], kernel[p] = "ok")
  <2>1. CASE GiveUp(p, w, Parent[w])
    BY <1>4, <2>1, GiveUpIInv, Zenon
  <2>2. CASE Supervise(p, w, Parent[w])
    BY <1>4, <2>2, SuperviseIInv, Zenon
  <2> QED
    BY <1>3, <1>4, <1>6, <2>1, <2>2, Zenon
<1> QED
  BY <1>5, <1>6, Zenon

-----------------------------------------------------------------------------
LEMMA StutterIInv == ASSUME IInv, UNCHANGED vars PROVE IInv'
<1>1. /\ UNCHANGED <<tree, os, spawn_failed, commanded>> /\ stack' = stack
      /\ on_disk' = on_disk
  BY Zenon DEF vars, tree, os
<1>2. Grows /\ on_disk' \subseteq Workers
  BY <1>1, SameTree, Zenon DEF tree, IInv, TypeOK
<1> QED
  BY <1>1, <1>2, SameFrames, OnlyStack, Zenon DEF IInv

LEMMA NextIInv == IInv /\ [Next]_vars => IInv'
<1> SUFFICES ASSUME IInv, [Next]_vars PROVE IInv'
  OBVIOUS
<1>1. ASSUME Svmgr PROVE IInv'
  <2>1. CASE MainLoopReaps
    BY <2>1, MainLoopReapsIInv, Zenon
  <2>2. CASE Waitpid
    BY <2>2, WaitpidIInv
  <2>3. CASE StillAlive \/ ExecuteDone \/ ReloadDone
    BY <2>3, ReturnIInv, Zenon
  <2>4. CASE ExecuteStarts
    BY <2>4, ExecuteStartsIInv
  <2>5. CASE RestartWaits
    BY <2>5, RestartWaitsIInv
  <2>6. CASE RestartStarts
    BY <2>6, RestartStartsIInv
  <2>7. CASE ReloadAdds
    BY <2>7, ReloadAddsIInv
  <2>8. CASE ReloadRemoves
    BY <2>8, ReloadRemovesIInv
  <2> QED
    BY <1>1, <2>1, <2>2, <2>3, <2>4, <2>5, <2>6, <2>7, <2>8, Zenon DEF Svmgr
<1>2. ASSUME Operator PROVE IInv'
  <2>1. ASSUME NEW w \in Workers, StartService(w) PROVE IInv'
    BY <2>1, StartServiceIInv
  <2>2. ASSUME NEW w \in Workers, StopService(w) PROVE IInv'
    BY <2>2, StopServiceIInv, Zenon
  <2>3. ASSUME NEW w \in Workers, RestartService(w) PROVE IInv'
    BY <2>3, RestartServiceIInv
  <2>4. CASE Reload
    BY <2>4, ReloadIInv
  <2> QED
    BY <1>2, <2>1, <2>2, <2>3, <2>4, Zenon DEF Operator
<1>3. CASE EditConfig
  BY <1>3, EditConfigIInv
<1>4. ASSUME NEW p \in Pids, Exit(p) PROVE IInv'
  BY <1>4, ExitIInv
<1>5. CASE UNCHANGED vars
  BY <1>5, StutterIInv, Zenon
<1> QED
  BY <1>1, <1>2, <1>3, <1>4, <1>5, Zenon DEF Next

LEMMA SupervisorInvariance == Spec => []IInv
BY InitIInv, NextIInv, PTL DEF Spec

(***************************************************************************)
(* svmgr's pid_map and pid fields agree with the kernel's process table in *)
(* every reachable state, for any tree and any number of processes,        *)
(* although pids are reused as soon as handle_child_exit has reaped them.  *)
(***************************************************************************)
THEOREM ProcessBookAgrees == Spec => []BookAgrees
<1>1. IInv => BookAgrees
  <2> SUFFICES ASSUME IInv PROVE BookAgrees
    BY ZenonT(30)
  <2>1. \A w \in Workers : pid[w] # None => kernel[pid[w]] # "free" /\ owner[pid[w]] = w
    BY SupervisorAssumption DEF IInv, TypeOK, BookInv
  <2> QED
    BY <2>1, Zenon DEF IInv, BookInv, BookAgrees
<1> QED
  BY <1>1, SupervisorInvariance, PTL

(***************************************************************************)
(* No nesting of exits, strategies and operator commands makes svmgr       *)
(* forget a permanent service: without a process it is abandoned, failed   *)
(* to start, or is on the list of a call in progress.                      *)
(***************************************************************************)
THEOREM PermanentIsRemembered == Spec => []PermanentIsNotForgotten
<1>1. IInv => PermanentIsNotForgotten
  BY ZenonT(30) DEF IInv
<1> QED
  BY <1>1, SupervisorInvariance, PTL

(***************************************************************************)
(* start_worker never looks whether the service runs; even so a service of *)
(* a one-for-one supervisor that no operator has started or restarted has  *)
(* at most one process.                                                    *)
(***************************************************************************)
THEOREM SupervisesOneInstance == Spec => []AtMostOneInstance
<1>1. IInv => AtMostOneInstance
  BY DEF IInv, OneInv, Alone, OwnsOne, Instances, AtMostOneInstance
<1> QED
  BY <1>1, SupervisorInvariance, PTL
=============================================================================

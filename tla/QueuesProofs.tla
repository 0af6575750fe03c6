---------------------------- MODULE QueuesProofs ----------------------------
(***************************************************************************)
(* Queue and SizedQueue for any number of threads and any bound on their   *)
(* length.  QInv, on top of the invariant of the threads, says who is on   *)
(* the two queues of waiting threads, and that who can still fall asleep   *)
(* in a pop or a push is on one.  WInv, for programs in which nobody is    *)
(* interrupted, says that enough of the waiting threads were woken.        *)
(***************************************************************************)
EXTENDS Queues, ThreadsProofs

-----------------------------------------------------------------------------
(* The inductive invariant. *)

QueueTyped ==
    /\ sized \in BOOLEAN /\ closed \in BOOLEAN
    /\ length \in 0..MaxLength /\ max \in 1..MaxLength
    /\ waitq \in Seq(Thread) /\ pushq \in Seq(Thread)
    /\ num_waiting \in Nat /\ num_waiting_push \in Nat

\* The living threads in a pop, or in a push.
In(f) == {t \in living : frame[t] = f}

\* The ensure clause takes a thread off its queue: who is on one is in its call.
Queued(q, f) == IsInjective(q) /\ ToSet(q) \subseteq In(f)

\* A thread sleeps, or has not been kept from doing so.
MaySleepOn(t) == Slumbering(t) \/ (pc[t] = "check" /\ status[t] = SleepStatus(frame[t]))

\* Then the next push, or pop, finds it.
QueuedFits(t) ==
    MaySleepOn(t) => /\ frame[t] = "pop" => t \in ToSet(waitq)
                     /\ frame[t] = "push" => t \in ToSet(pushq)

QInv ==
    /\ TInv /\ QueueTyped
    /\ num_waiting = Cardinality(In("pop")) /\ num_waiting_push = Cardinality(In("push"))
    /\ Queued(waitq, "pop") /\ Queued(pushq, "push")
    /\ closed => waitq = <<>> /\ pushq = <<>>
    /\ \A t \in Thread : frame[t] = "push" => sized
    /\ signals = 0 => \A t \in Thread : QueuedFits(t)

-----------------------------------------------------------------------------
(* The steps of module Threads. *)

\* What such a step may do to a thread u in a pop or a push.
Quiet(u) ==
    /\ \A f \in {"pop", "push"} : u \in In(f)' <=> u \in In(f)
    /\ \A f \in {"pop", "push"} : frame'[u] = f <=> frame[u] = f
    /\ signals' = 0 /\ frame[u] \in {"pop", "push"} /\ MaySleepOn(u)' =>
           signals = 0 /\ MaySleepOn(u)

\* It keeps the invariant.
LEMMA QuietKeeps ==
    ASSUME QInv, TInv', \A u \in Thread : Quiet(u), UNCHANGED queueVars
    PROVE  QInv'
  <1>1. In("pop")' = In("pop") /\ In("push")' = In("push")
    BY DEF Quiet, In, QInv, TInv, Typed
  <1>2. QueueTyped'
    BY DEF QInv, QueueTyped, queueVars
  <1>3. Queued(waitq, "pop")' /\ Queued(pushq, "push")'
    BY <1>1 DEF QInv, Queued, queueVars
  <1>4. \A t \in Thread : frame'[t] = "push" => sized'
    BY DEF QInv, Quiet, queueVars
  <1>5. signals' = 0 => \A t \in Thread : QueuedFits(t)'
    <2> SUFFICES ASSUME signals' = 0, NEW t \in Thread PROVE QueuedFits(t)'
      OBVIOUS
    <2>1. Quiet(t)  OBVIOUS
    <2>2. signals = 0 => QueuedFits(t)  BY DEF QInv
    <2> QED  BY <2>1, <2>2 DEF QueuedFits, Quiet, queueVars
  <1>6. (num_waiting = Cardinality(In("pop")) /\ num_waiting_push = Cardinality(In("push")))'
    BY <1>1 DEF QInv, queueVars
  <1>7. (closed => waitq = <<>> /\ pushq = <<>>)'
    BY DEF QInv, queueVars
  <1> QED  BY <1>2, <1>3, <1>4, <1>5, <1>6, <1>7 DEF QInv

\* A step of t that lets the others be is quiet if it is so for t.
LEMMA QuietStep ==
    ASSUME TInv, NEW t \in Thread, Others(t), UNCHANGED <<trap, signals, living>>,
           \/ frame'[t] = frame[t]
           \/ frame[t] \notin {"pop", "push"} /\ frame'[t] \notin {"pop", "push"},
           frame[t] \in {"pop", "push"} /\ MaySleepOn(t)' => MaySleepOn(t)
    PROVE  \A u \in Thread : Quiet(u)
  <1> SUFFICES ASSUME NEW u \in Thread PROVE Quiet(u)
    OBVIOUS
  <1>1. CASE u = t  BY <1>1 DEF Quiet, In
  <1>2. CASE u # t
    <2>1. Bystander(u)  BY <1>2 DEF Others
    <2>2. ASSUME MaySleepOn(u)' PROVE MaySleepOn(u)
      <3>1. CASE Slumbering(u)'
        BY <2>1, <3>1 DEF Bystander, MaySleepOn, Slumbering, RUBY_VM_INTERRUPTED
      <3>2. CASE pc'[u] = "check" /\ status'[u] = SleepStatus(frame'[u])
        BY <2>1, <3>2 DEF Bystander, MaySleepOn, SleepStatus
      <3> QED  BY <2>2, <3>1, <3>2 DEF MaySleepOn
    <2> QED  BY <2>1, <2>2 DEF Quiet, Bystander, In
  <1> QED  BY <1>1, <1>2

\* CHECK_INTS and the sleep functions.
LEMMA SleepsQuiet ==
    ASSUME TInv, NEW t \in Thread,
           \/ RaiseInterrupt(t) \/ CheckIntsInCode(t) \/ NativeSleep(t, {}, NoThread)
           \/ InterruptedWakeUp(t) \/ TimeoutWakeUp(t) \/ SpuriousWakeUp(t) \/ SleepEnd(t)
    PROVE  \A u \in Thread : Quiet(u)
  <1> USE DEF TInv
  <1>1. CASE RaiseInterrupt(t)
    <2>1. Others(t) /\ pc'[t] = "unwind"
      BY <1>1 DEF RaiseInterrupt, Deliver, Others, Bystander, Typed
    <2>2. UNCHANGED <<frame, trap, signals, living>>
      BY <1>1 DEF RaiseInterrupt, Deliver
    <2>3. ~MaySleepOn(t)'  BY <2>1 DEF MaySleepOn, Slumbering
    <2> QED  BY <2>1, <2>2, <2>3, QuietStep
  <1>2. CASE CheckIntsInCode(t)
    <2>1. /\ Others(t) /\ pc'[t] \in {"run", "trap"}
          /\ UNCHANGED <<frame, trap, signals, living>>
      BY <1>2 DEF CheckIntsInCode, Others, Bystander, Typed
    <2>2. ~MaySleepOn(t)'  BY <2>1 DEF MaySleepOn, Slumbering
    <2> QED  BY <2>1, <2>2, QuietStep
  <1>3. CASE NativeSleep(t, {}, NoThread)
    <2> DEFINE fl == [flag EXCEPT ![t] = FALSE]
    <2>1. /\ IF frame[t] \in Deadlockable
             THEN rb_check_deadlock(t, status, fl, sleeper + 1, living, {}, NoThread, 0)
             ELSE flag' = fl /\ UNCHANGED <<pending, sleeper, fatal>>
          /\ pc' = [pc EXCEPT ![t] = "asleep"]
          /\ UNCHANGED <<frame, status, trap, saved, signals, living, join_list, target>>
      BY <1>3 DEF NativeSleep
    <2>2. fl \in [Thread -> BOOLEAN] /\ \A u \in Thread \ {t} : fl[u] = flag[u]
      BY DEF Typed
    <2> HIDE DEF fl
    <2>3. \A u \in Thread : fl[u] => flag'[u]
      BY <2>1, <2>2, CheckDeadlockType
    <2>4. Others(t)  BY <2>1, <2>2, <2>3 DEF Others, Bystander, Typed
    <2>5. frame[t] \in {"pop", "push"} => MaySleepOn(t)
      BY <1>3 DEF NativeSleep, MaySleepOn, SpuriousCheck
    <2> QED  BY <2>1, <2>4, <2>5, QuietStep
  <1>4. CASE InterruptedWakeUp(t) \/ TimeoutWakeUp(t) \/ SpuriousWakeUp(t) \/ SleepEnd(t)
    <2>1. Others(t) /\ pc'[t] \in {"woken", "back"} /\ UNCHANGED <<frame, trap, signals, living>>
      BY <1>4 DEF InterruptedWakeUp, TimeoutWakeUp, SpuriousWakeUp, WakeUp, SleepEnd, Others,
                  Bystander, Typed
    <2>2. ~MaySleepOn(t)'  BY <2>1 DEF MaySleepOn, Slumbering
    <2> QED  BY <2>1, <2>2, QuietStep
  <1> QED  BY <1>1, <1>2, <1>3, <1>4

\* The other sleeps, and joins, begin and end.
LEMMA CallsQuiet ==
    ASSUME TInv, NEW t \in Thread,
           \/ rb_thread_stop(t) \/ rb_f_sleep(t) \/ SleepReturn(t) \/ JoinAgain(t) \/ JoinReturn(t)
           \/ UnwindSleep(t) \/ Rescue(t)
           \/ \E u \in Thread : thread_join(t, u) \/ thread_join_ended(t, u)
    PROVE  \A u \in Thread : Quiet(u)
  <1> USE DEF TInv
  <1>1. frame[t] \notin {"pop", "push"} /\ frame'[t] \notin {"pop", "push"}
    <2>0. CASE CallRaises(t)  BY <2>0 DEF CallRaises, Idle, Typed, Places, PlaceFits, At
    <2>1. CASE ~CallRaises(t) /\ (rb_thread_stop(t) \/ rb_f_sleep(t))
      <3>1. PICK f \in {"stop", "sleep", "timed_sleep"} : SleepBegin(t, f) /\ pc[t] = "run"
        BY <2>1 DEF rb_thread_stop, rb_f_sleep, Idle
      <3> QED  BY <3>1 DEF SleepBegin, Typed, Places, PlaceFits, At
    <2>2. CASE SleepReturn(t) \/ JoinAgain(t) \/ JoinReturn(t)
      BY <2>2 DEF SleepReturn, JoinAgain, SleepBegin, JoinReturn, remove_from_join_list, Typed
    <2>3. CASE UnwindSleep(t) \/ Rescue(t)
      BY <2>3 DEF UnwindSleep, Rescue, remove_from_join_list, Typed
    <2>4. ASSUME NEW u \in Thread, thread_join(t, u)
          PROVE  frame[t] = "none" /\ frame'[t] \in {"join", "timed_join"}
      BY <2>4 DEF thread_join, SleepBegin, Idle, Typed, Places, PlaceFits, At
    <2> QED  BY <2>0, <2>1, <2>2, <2>3, <2>4 DEF thread_join_ended
  <1>2. Others(t) /\ UNCHANGED <<trap, signals, living>>
    <2>0. CASE CallRaises(t)  BY <2>0 DEF CallRaises, RaiseError, Others, Bystander, Typed
    <2>1. CASE ~CallRaises(t) /\ (rb_thread_stop(t) \/ rb_f_sleep(t) \/ SleepReturn(t) \/ JoinAgain(t))
      BY <2>1 DEF rb_thread_stop, rb_f_sleep, SleepBegin, SleepReturn, JoinAgain, Others,
                  Bystander, Typed
    <2>2. CASE JoinReturn(t) \/ UnwindSleep(t) \/ Rescue(t)
      BY <2>2 DEF JoinReturn, RaiseError, UnwindSleep, Rescue, remove_from_join_list, Others,
                  Bystander, Typed
    <2>3. CASE \E u \in Thread : thread_join(t, u)
      BY <2>3 DEF thread_join, SleepBegin, Others, Bystander, Typed
    <2> QED  BY <2>0, <2>1, <2>2, <2>3 DEF thread_join_ended
  <1> QED  BY <1>1, <1>2, QuietStep

\* What one thread does to another, and Thread.new.
LEMMA ProgramQuiet ==
    ASSUME TInv, NEW t \in Thread, Program(t)
    PROVE  \A u \in Thread : Quiet(u)
  <1> USE DEF TInv
  <1>1. ASSUME NEW u \in Thread,
               rb_thread_wakeup(t, u) \/ rb_threadptr_raise(t, u) \/ rb_thread_kill(t, u)
        PROVE  \A v \in Thread : Quiet(v)
    <2>1. pc[t] = "run" /\ UNCHANGED <<frame, trap, signals, living>>
      BY <1>1 DEF rb_thread_wakeup, rb_threadptr_raise, rb_thread_kill, Idle
    <2>2. Others(t) /\ pc'[t] \in {"run", "unwind"}
      <3>1. CASE rb_thread_wakeup(t, u) \/ rb_threadptr_raise(t, u)
        BY <2>1, <3>1 DEF rb_thread_wakeup, rb_threadptr_raise, rb_threadptr_interrupt,
                          Others, Bystander, Typed
      <3>2. CASE rb_thread_kill(t, u)
        BY <2>1, <3>2 DEF rb_thread_kill, rb_threadptr_interrupt, Others, Bystander, Typed
      <3> QED  BY <1>1, <3>1, <3>2
    <2>3. ~MaySleepOn(t)'  BY <2>2 DEF MaySleepOn, Slumbering
    <2> QED  BY <2>1, <2>2, <2>3, QuietStep
  <1>2. ASSUME NEW u \in Thread, thread_create_core(t, u)
        PROVE  \A v \in Thread : Quiet(v)
    <2>1. /\ pc[u] = "new" /\ pc' = [pc EXCEPT ![u] = "run"] /\ living' = living \cup {u}
          /\ UNCHANGED <<frame, status, flag, trap, signals>>
      BY <1>2 DEF thread_create_core
    <2>2. frame[u] = "none"  BY <2>1 DEF Places, PlaceFits, At
    <2> QED
      BY <2>1, <2>2 DEF Quiet, In, MaySleepOn, Slumbering, RUBY_VM_INTERRUPTED, Typed
  <1>3. CASE \/ rb_thread_stop(t) \/ rb_f_sleep(t) \/ Rescue(t)
             \/ \E u \in Thread : thread_join(t, u) \/ thread_join_ended(t, u)
    BY <1>3, CallsQuiet
  <1> QED  BY <1>1, <1>2, <1>3 DEF Program

\* The end of a thread.
LEMMA EndQuiet ==
    ASSUME TInv, NEW t \in Thread, NEW abort \in BOOLEAN, ThreadEnd(t, abort, {}, {}, NoThread)
    PROVE  \A u \in Thread : Quiet(u)
  <1>1. EndEffect(t)  BY ThreadEndEffect, Zenon
  <1>2. frame[t] = "none"  BY DEF ThreadEnd
  <1> SUFFICES ASSUME NEW u \in Thread PROVE Quiet(u)
    OBVIOUS
  <1>3. CASE u = t  BY <1>1, <1>2, <1>3 DEF EndEffect, Quiet, In
  <1>4. CASE u # t
    <2>1. /\ pc'[u] = pc[u] /\ frame'[u] = frame[u] /\ (u \in living' <=> u \in living)
          /\ UNCHANGED <<trap, signals>>
          /\ status'[u] \in {status[u], "RUNNABLE"} /\ (flag[u] => flag'[u])
      BY <1>1, <1>4 DEF EndEffect
    <2>2. ASSUME MaySleepOn(u)' PROVE MaySleepOn(u)
      <3>1. CASE Slumbering(u)'
        BY <2>1, <3>1 DEF MaySleepOn, Slumbering, RUBY_VM_INTERRUPTED
      <3>2. CASE pc'[u] = "check" /\ status'[u] = SleepStatus(frame'[u])
        BY <2>1, <3>2 DEF MaySleepOn, SleepStatus
      <3> QED  BY <2>2, <3>1, <3>2 DEF MaySleepOn
    <2> QED  BY <2>1, <2>2 DEF Quiet, In
  <1> QED  BY <1>3, <1>4

\* Signals and the main thread's termination of the others.
LEMMA MainQuiet ==
    ASSUME TInv, Signalled \/ TerminateAll({}) \/ TerminateLoop
    PROVE  \A u \in Thread : Quiet(u)
  <1> USE DEF TInv
  <1>0. Main \in Thread  BY ThreadsAssumption
  <1>1. CASE Signalled
    <2>1. signals' # 0 /\ UNCHANGED <<frame, living>>
      BY <1>1 DEF Signalled, threadptr_trap_interrupt, TrapEnter, TrapReturn, Typed, Places
    <2> QED  BY <2>1 DEF Quiet, In
  <1>2. CASE TerminateAll({}) \/ TerminateLoop
    <2>1. /\ pc'[Main] \in {"term", "terminated"} /\ UNCHANGED <<frame, trap, signals, living>>
          /\ \A u \in Thread \ {Main} : pc'[u] = pc[u] /\ (flag[u] => flag'[u]) /\ status'[u] = status[u]
      BY <1>0, <1>2 DEF TerminateAll, TerminateLoop, rb_threadptr_interrupt, Typed
    <2>2. target' = target  BY <1>2 DEF TerminateAll, TerminateLoop
    <2>3. Others(Main)  BY <2>1, <2>2 DEF Others, Bystander
    <2>4. ~MaySleepOn(Main)'  BY <2>1 DEF MaySleepOn, Slumbering
    <2> QED  BY <1>0, <2>1, <2>3, <2>4, QuietStep
  <1> QED  BY <1>1, <1>2

\* The steps of the threads outside of pop and push.
OtherStep ==
    \/ \E t \in Thread : ThreadStep(t)
    \/ Signalled \/ TerminateAll({}) \/ TerminateLoop
    \/ UNCHANGED core

\* They keep the invariant of the threads and are quiet.
LEMMA OtherStepQuiet ==
    ASSUME TInv, OtherStep
    PROVE  TInv' /\ \A u \in Thread : Quiet(u)
  <1>1. CASE UNCHANGED core
    <2>1. \A u \in Thread : Quiet(u)
      BY <1>1 DEF core, Quiet, In, MaySleepOn, Slumbering, RUBY_VM_INTERRUPTED
    <2> QED  BY <1>1, <2>1, SameTInv
  <1>2. ASSUME NEW t \in Thread, ThreadStep(t) PROVE TInv' /\ \A u \in Thread : Quiet(u)
    <2>1. Next  BY <1>2 DEF ThreadStep, Next
    <2>2. TInv'  BY <2>1, NextTInv
    <2>3. CASE Proceed(t) \/ SpuriousWakeUp(t)
      BY <2>2, <2>3, SleepsQuiet, CallsQuiet DEF Proceed
    <2>4. CASE Program(t)  BY <2>2, <2>4, ProgramQuiet
    <2>5. CASE End(t)
      <3>1. PICK abort \in BOOLEAN : ThreadEnd(t, abort, {}, {}, NoThread)
        BY <2>5, Zenon DEF End
      <3>2. \A u \in Thread : Quiet(u)  BY <3>1, EndQuiet, Zenon
      <3> QED  BY <2>2, <3>2
    <2> QED  BY <1>2, <2>3, <2>4, <2>5 DEF ThreadStep
  <1>3. CASE Signalled \/ TerminateAll({}) \/ TerminateLoop
    <2>1. TInv'  BY <1>3, NextTInv DEF Next
    <2> QED  BY <1>3, <2>1, MainQuiet
  <1> QED  BY <1>1, <1>2, <1>3 DEF OtherStep

-----------------------------------------------------------------------------
(* The steps of Queue and SizedQueue. *)

\* Who is on a queue has not ended.
LEMMA QueuedAlive ==
    ASSUME QInv
    PROVE  \A t \in ToSet(waitq) \cup ToSet(pushq) : t \in Thread /\ status[t] # "KILLED"
  BY DEF QInv, Queued, In, TInv, Typed, Places, PlaceFits, At

\* One thread comes into a call, leaves it, or neither.
LEMMA InCount ==
    ASSUME TInv, NEW t \in living, NEW f, living' = living,
           \A u \in Thread \ {t} : frame'[u] = frame[u]
    PROVE  /\ IsFiniteSet(In(f)) /\ Cardinality(In(f)) \in Nat
           /\ frame[t] # f /\ frame'[t] = f =>
                  In(f)' = In(f) \cup {t} /\ Cardinality(In(f)') = Cardinality(In(f)) + 1
           /\ frame[t] = f /\ frame'[t] # f =>
                  In(f)' = In(f) \ {t} /\ Cardinality(In(f)') = Cardinality(In(f)) - 1
           /\ (frame[t] = f <=> frame'[t] = f) => In(f)' = In(f)
  <1>1. living \subseteq Thread /\ IsFiniteSet(living)
    BY CountedFinite DEF TInv, Typed
  <1>2. IsFiniteSet(In(f)) /\ Cardinality(In(f)) \in Nat
    BY <1>1, FS_Subset, FS_CardinalityType DEF In
  <1>3. ASSUME frame[t] # f, frame'[t] = f
        PROVE  In(f)' = In(f) \cup {t} /\ Cardinality(In(f)') = Cardinality(In(f)) + 1
    <2>1. In(f)' = In(f) \cup {t} /\ t \notin In(f)  BY <1>1, <1>3 DEF In
    <2> QED  BY <1>2, <2>1, FS_AddElement
  <1>4. ASSUME frame[t] = f, frame'[t] # f
        PROVE  In(f)' = In(f) \ {t} /\ Cardinality(In(f)') = Cardinality(In(f)) - 1
    <2>1. In(f)' = In(f) \ {t} /\ t \in In(f)  BY <1>1, <1>4 DEF In
    <2> QED  BY <1>2, <2>1, FS_RemoveElement
  <1>5. (frame[t] = f <=> frame'[t] = f) => In(f)' = In(f)  BY <1>1 DEF In
  <1> QED  BY <1>2, <1>3, <1>4, <1>5

\* The change a step of t makes to the queue q of the threads in call f, and to its
\* counter: t gets on it when it goes to sleep, and who is taken off is woken.
Moves(t, q, qq, n, nn, f) ==
    /\ qq \in Seq(Thread) /\ IsInjective(qq)
    /\ ToSet(qq) \subseteq ToSet(q) \cup {t}
    /\ t \in ToSet(qq) => frame'[t] = f
    /\ \A u \in ToSet(q) : u = t \/ u \in ToSet(qq) \/ ~MaySleepOn(u)'
    /\ nn = n - (IF frame[t] = f THEN 1 ELSE 0) + (IF frame'[t] = f THEN 1 ELSE 0)

\* Such steps keep the invariant.
LEMMA MovesKeep ==
    ASSUME QInv, TInv', NEW t \in living, Others(t), UNCHANGED <<trap, signals, living, sized>>,
           length' \in 0..MaxLength, max' \in 1..MaxLength, closed' \in BOOLEAN,
           Moves(t, waitq, waitq', num_waiting, num_waiting', "pop"),
           Moves(t, pushq, pushq', num_waiting_push, num_waiting_push', "push"),
           MaySleepOn(t)' => /\ frame'[t] = "pop" => t \in ToSet(waitq')
                             /\ frame'[t] = "push" => t \in ToSet(pushq'),
           closed' => waitq' = <<>> /\ pushq' = <<>>,
           frame'[t] = "push" => sized
    PROVE  QInv'
  <1>0. t \in Thread /\ living \subseteq Thread  BY DEF QInv, TInv, Typed
  <1>1. \A u \in Thread \ {t} : frame'[u] = frame[u]  BY DEF Others, Bystander
  <1>2. ASSUME NEW q, NEW qq, NEW n, NEW nn, NEW f, Moves(t, q, qq, n, nn, f), Queued(q, f),
               n = Cardinality(In(f))
        PROVE  /\ IsInjective(qq) /\ ToSet(qq) \subseteq In(f)'
               /\ nn = Cardinality(In(f)') /\ nn \in Nat
    <2> DEFINE c == Cardinality(In(f))
               cc == Cardinality(In(f)')
    <2>1. /\ c \in Nat
          /\ frame[t] # f /\ frame'[t] = f => In(f)' = In(f) \cup {t} /\ cc = c + 1
          /\ frame[t] = f /\ frame'[t] # f => In(f)' = In(f) \ {t} /\ cc = c - 1
          /\ (frame[t] = f <=> frame'[t] = f) => In(f)' = In(f)
      BY <1>1, InCount DEF QInv
    <2>2. cc \in Nat
      <3>1. IsFiniteSet(In(f)')
        <4>1. IsFiniteSet(Thread)  BY ThreadsAssumption
        <4>2. In(f)' \subseteq Thread  BY <1>0 DEF In
        <4> QED  BY <4>1, <4>2, FS_Subset
      <3> QED  BY <3>1, FS_CardinalityType
    <2>3. nn = cc
      <3>1. nn = n - (IF frame[t] = f THEN 1 ELSE 0) + (IF frame'[t] = f THEN 1 ELSE 0)
        BY <1>2 DEF Moves
      <3>2. n = c  BY <1>2
      <3>3. (frame[t] = f <=> frame'[t] = f) => cc = c  BY <2>1
      <3> HIDE DEF c, cc
      <3> QED  BY <2>1, <3>1, <3>2, <3>3
    <2>4. ToSet(qq) \subseteq In(f)'
      <3>1. ToSet(qq) \subseteq ToSet(q) \cup {t} /\ (t \in ToSet(qq) => frame'[t] = f)
        BY <1>2 DEF Moves
      <3>2. ToSet(q) \subseteq In(f)  BY <1>2 DEF Queued
      <3> QED  BY <1>0, <1>1, <3>1, <3>2 DEF In
    <2> QED  BY <1>2, <2>2, <2>3, <2>4 DEF Moves
  <1>3. /\ IsInjective(waitq') /\ ToSet(waitq') \subseteq In("pop")'
        /\ num_waiting' = Cardinality(In("pop")') /\ num_waiting' \in Nat
    BY <1>2 DEF QInv
  <1>4. /\ IsInjective(pushq') /\ ToSet(pushq') \subseteq In("push")'
        /\ num_waiting_push' = Cardinality(In("push")') /\ num_waiting_push' \in Nat
    BY <1>2 DEF QInv
  <1>5. QueueTyped'
    BY <1>3, <1>4 DEF QInv, QueueTyped, Moves
  <1>6. \A u \in Thread : frame'[u] = "push" => sized'
    BY <1>1 DEF QInv
  <1>7. signals' = 0 => \A u \in Thread : QueuedFits(u)'
    <2> SUFFICES ASSUME signals' = 0, NEW u \in Thread, MaySleepOn(u)'
                 PROVE  /\ frame'[u] = "pop" => u \in ToSet(waitq')
                        /\ frame'[u] = "push" => u \in ToSet(pushq')
      BY DEF QueuedFits
    <2>1. CASE u = t  BY <2>1
    <2>2. CASE u # t
      <3>1. Bystander(u)  BY <2>2 DEF Others
      <3>2. MaySleepOn(u)
        <4>1. CASE Slumbering(u)'
          BY <3>1, <4>1 DEF Bystander, MaySleepOn, Slumbering, RUBY_VM_INTERRUPTED
        <4>2. CASE pc'[u] = "check" /\ status'[u] = SleepStatus(frame'[u])
          BY <3>1, <4>2 DEF Bystander, MaySleepOn, SleepStatus
        <4> QED  BY <4>1, <4>2 DEF MaySleepOn
      <3>3. QueuedFits(u)  BY DEF QInv
      <3>4. /\ frame[u] = "pop" => u \in ToSet(waitq)
            /\ frame[u] = "push" => u \in ToSet(pushq)
        BY <3>2, <3>3 DEF QueuedFits
      <3> QED  BY <1>1, <2>2, <3>4 DEF Moves
    <2> QED  BY <2>1, <2>2
  <1> QED
    BY <1>3, <1>4, <1>5, <1>6, <1>7 DEF QInv, Queued

\* The queue a thread that calls, or has slept, finds in the loop of pop or push: its
\* own node is off, and it is not counted.
Off(t, q, wq, n, m, f) ==
    /\ wq \in Seq(Thread) /\ IsInjective(wq) /\ ToSet(wq) \subseteq ToSet(q)
    /\ ToSet(q) \subseteq ToSet(wq) \cup {t} /\ t \notin ToSet(wq)
    /\ m = n - (IF frame[t] = f THEN 1 ELSE 0) /\ n \in Nat

\* That is so at a call, and after the ensure clause.
LEMMA OffQueue ==
    ASSUME QInv, NEW t \in Thread
    PROVE  /\ frame[t] # "pop" => Off(t, waitq, waitq, num_waiting, num_waiting, "pop")
           /\ frame[t] = "pop" => Off(t, waitq, Without(waitq, t), num_waiting, num_waiting - 1, "pop")
           /\ frame[t] # "push" => Off(t, pushq, pushq, num_waiting_push, num_waiting_push, "push")
           /\ frame[t] = "push" =>
                  Off(t, pushq, Without(pushq, t), num_waiting_push, num_waiting_push - 1, "push")
  <1> DEFINE w == Without(waitq, t)
             p == Without(pushq, t)
  <1>1. waitq \in Seq(Thread) /\ pushq \in Seq(Thread) /\ num_waiting \in Nat /\ num_waiting_push \in Nat
    BY DEF QInv, QueueTyped
  <1>2. /\ IsInjective(waitq) /\ IsInjective(pushq)
        /\ frame[t] # "pop" => t \notin ToSet(waitq)
        /\ frame[t] # "push" => t \notin ToSet(pushq)
    BY DEF QInv, Queued, In
  <1>3. /\ w \in Seq(Thread) /\ ToSet(w) \subseteq ToSet(waitq) /\ ToSet(waitq) \subseteq ToSet(w) \cup {t}
        /\ IsInjective(w) /\ t \notin ToSet(w)
    BY <1>1, <1>2, RemoveFirstElements DEF Without
  <1>4. /\ p \in Seq(Thread) /\ ToSet(p) \subseteq ToSet(pushq) /\ ToSet(pushq) \subseteq ToSet(p) \cup {t}
        /\ IsInjective(p) /\ t \notin ToSet(p)
    BY <1>1, <1>2, RemoveFirstElements DEF Without
  <1> HIDE DEF w, p
  <1>5. frame[t] = "pop" => Off(t, waitq, w, num_waiting, num_waiting - 1, "pop")
    BY <1>1, <1>3 DEF Off
  <1>6. frame[t] = "push" => Off(t, pushq, p, num_waiting_push, num_waiting_push - 1, "push")
    BY <1>1, <1>4 DEF Off
  <1>7. /\ frame[t] # "pop" => Off(t, waitq, waitq, num_waiting, num_waiting, "pop")
        /\ frame[t] # "push" => Off(t, pushq, pushq, num_waiting_push, num_waiting_push, "push")
    BY <1>1, <1>2 DEF Off
  <1> QED  BY <1>5, <1>6, <1>7 DEF w, p

\* It stays off, or gets on.
LEMMA OffMoves ==
    ASSUME NEW t \in Thread, NEW q, NEW wq, NEW n, NEW m, NEW f, Off(t, q, wq, n, m, f)
    PROVE  /\ frame'[t] # f => Moves(t, q, wq, n, m, f)
           /\ frame'[t] = f => /\ Moves(t, q, Append(wq, t), n, m + 1, f)
                               /\ t \in ToSet(Append(wq, t))
  <1> DEFINE a == Append(wq, t)
  <1>1. /\ a \in Seq(Thread) /\ ToSet(a) = ToSet(wq) \cup {t} /\ IsInjective(a)
    BY AppendElements DEF Off
  <1> HIDE DEF a
  <1>2. frame'[t] # f => Moves(t, q, wq, n, m, f)  BY DEF Off, Moves
  <1>3. frame'[t] = f => Moves(t, q, a, n, m + 1, f) /\ t \in ToSet(a)  BY <1>1 DEF Off, Moves
  <1> QED  BY <1>2, <1>3 DEF a

\* Others are taken off and woken.
LEMMA WakeMoves ==
    ASSUME NEW t \in Thread, NEW q, NEW qq \in Seq(Thread), NEW n \in Nat, NEW f, NEW ts,
           IsInjective(qq), ToSet(qq) \subseteq ToSet(q), t \notin ToSet(q),
           frame[t] # f, frame'[t] # f, \A u \in ToSet(q) : u \in ts \/ u \in ToSet(qq),
           \A u \in ts : ~MaySleepOn(u)'
    PROVE  Moves(t, q, qq, n, n, f)
  BY DEF Moves

\* The call of t goes on or ends, and the threads of ts are woken.
LEMMA AwakeQueueStep ==
    ASSUME TInv, NEW t \in Thread, NEW p \in {"run", "unwind"}, NEW ts \in SUBSET Thread,
           \A u \in ts : status[u] # "KILLED",
           pc[t] \in {"run", "back", "unwind"}, frame[t] \in {"none", "pop", "push"},
           pc' = [pc EXCEPT ![t] = p], frame' = [frame EXCEPT ![t] = "none"], Woken(ts),
           running' \in Thread \cup {NoThread}, exc' \in [Thread -> {"none", "raise", "kill"}],
           UNCHANGED <<trap, saved, signals, pending, to_kill, sleeper, living, join_list, target,
                       fatal>>
    PROVE  /\ TInv' /\ Others(t) /\ t \in living /\ frame'[t] = "none" /\ ~MaySleepOn(t)'
           /\ \A u \in ts : ~MaySleepOn(u)'
  <1> USE DEF TInv
  <1>1. /\ flag' \in [Thread -> BOOLEAN] /\ status' \in [Thread -> Status]
        /\ \A u \in Thread : /\ flag[u] => flag'[u]
                             /\ u \in ts => flag'[u] /\ status'[u] = "RUNNABLE"
                             /\ u \notin ts => status'[u] = status[u]
    BY DEF Woken, rb_threadptr_interrupt, Typed, Status
  <1>2. Typed'  BY <1>1 DEF Typed, Place, Frame
  <1>3. pc'[t] = p /\ frame'[t] = "none"  BY DEF Typed
  <1>4. Others(t)  BY <1>1 DEF Others, Bystander, Typed
  <1>5. status[t] # "KILLED" /\ t \in living  BY DEF Places, PlaceFits
  <1>6. status'[t] # "KILLED"  BY <1>1, <1>5
  <1>7. PlaceFits(t)'  BY <1>3, <1>6 DEF Places, PlaceFits, At
  <1>8. TInv'  BY <1>2, <1>3, <1>4, <1>5, <1>6, <1>7, AwakeStep DEF Joining
  <1>9. \A u \in ts : ~MaySleepOn(u)'
    BY <1>1 DEF MaySleepOn, Slumbering, RUBY_VM_INTERRUPTED, SleepStatus
  <1>10. ~MaySleepOn(t)'  BY <1>3 DEF MaySleepOn, Slumbering
  <1> QED  BY <1>3, <1>4, <1>5, <1>8, <1>9, <1>10

\* t begins to sleep in a pop or a push.
LEMMA SleepQueueStep ==
    ASSUME TInv, NEW t \in Thread, NEW f \in {"pop", "push"},
           pc[t] \in {"run", "back"}, frame[t] \in {"none", "pop", "push"}, SleepBegin(t, f),
           UNCHANGED <<flag, trap, saved, signals, pending, exc, to_kill, sleeper, living, join_list,
                       target, fatal>>
    PROVE  TInv' /\ Others(t) /\ t \in living /\ frame'[t] = f
  <1> USE DEF TInv
  <1>1. status[t] # "KILLED" /\ t \in living  BY DEF Places, PlaceFits
  <1>2. TInv'
    BY <1>1, SleepBeginInv DEF SleepFrame, Frame, Joining, Typed
  <1> QED  BY <1>1, <1>2 DEF SleepBegin, Others, Bystander, Typed

\* The empty sequence is the one of length zero.
LEMMA EmptyByLength ==
    ASSUME NEW S, NEW q \in Seq(S)
    PROVE  q = <<>> <=> Len(q) = 0
  BY EmptySeq

\* A queue that nobody is on is empty.
LEMMA NoElements ==
    ASSUME NEW S, NEW q \in Seq(S), ToSet(q) = {}
    PROVE  q = <<>>
  <1>1. Len(q) \in Nat /\ \A i \in 1..Len(q) : q[i] \in ToSet(q)
    BY ToSetElements
  <1>2. Len(q) = 0  BY <1>1
  <1> QED  BY <1>2, EmptySeq

\* Woken of nobody.
LEMMA NobodyWoken ==
    ASSUME TInv, UNCHANGED <<flag, status>>
    PROVE  Woken({})
  <1>1. flag \in [Thread -> BOOLEAN] /\ status \in [Thread -> Status]  BY DEF TInv, Typed
  <1> QED  BY <1>1, Zenon DEF Woken, rb_threadptr_interrupt

\* What a thread in the loop of pop or push is like.
AtLoop(t) ==
    /\ t \in Thread /\ pc[t] \in {"run", "back"} /\ frame[t] \in {"none", "pop", "push"}
    /\ pc[t] = "run" => frame[t] = "none"

\* The loop of Queue#pop and SizedQueue#pop.
LEMMA DoPopInv ==
    ASSUME QInv, NEW t \in Thread, NEW wq, NEW n, AtLoop(t), frame[t] # "push",
           Off(t, waitq, wq, num_waiting, n, "pop"), queue_do_pop(t, wq, n)
    PROVE  QInv'
  <1>0. /\ TInv /\ QueueTyped /\ (closed => waitq = <<>> /\ pushq = <<>>)
        /\ Queued(pushq, "push")
    BY DEF QInv
  <1>1. UNCHANGED <<closed, max, num_waiting_push, trap, saved, signals, pending, to_kill, sleeper,
                    living, join_list, target, fatal, sized>>
    BY DEF queue_do_pop, restOfCore
  <1>2. /\ t \notin ToSet(pushq) /\ IsInjective(pushq) /\ pushq \in Seq(Thread)
        /\ num_waiting_push \in Nat /\ n \in Int
        /\ Off(t, pushq, pushq, num_waiting_push, num_waiting_push, "push")
    BY <1>0, OffQueue DEF Queued, In, QueueTyped, Off
  <1>3. CASE length = 0 /\ ~closed
    <2>1. /\ waitq' = Append(wq, t) /\ num_waiting' = n + 1 /\ SleepBegin(t, "pop")
          /\ UNCHANGED <<length, pushq, flag, exc>>
      BY <1>3 DEF queue_do_pop
    <2>2. TInv' /\ Others(t) /\ t \in living /\ frame'[t] = "pop"
      BY <1>0, <1>1, <2>1, SleepQueueStep DEF AtLoop
    <2>3. Moves(t, waitq, waitq', num_waiting, num_waiting', "pop") /\ t \in ToSet(waitq')
      BY <2>1, <2>2, OffMoves
    <2>4. Moves(t, pushq, pushq', num_waiting_push, num_waiting_push', "push")
      BY <1>1, <1>2, <2>1, <2>2, OffMoves
    <2>5. /\ length' \in 0..MaxLength /\ max' \in 1..MaxLength /\ closed' \in BOOLEAN
          /\ ~closed'
      BY <1>0, <1>1, <1>3, <2>1 DEF QueueTyped
    <2> QED  BY <1>1, <2>2, <2>3, <2>4, <2>5, MovesKeep
  <1>4. CASE ~(length = 0 /\ ~closed)
    <2>1. /\ length' = IF length = 0 THEN 0 ELSE length - 1
          /\ waitq' = wq /\ num_waiting' = n /\ Finish(t)
          /\ IF sized /\ length' < max
             THEN Woken(wakeup_one(pushq)) /\ pushq' = AfterWakeupOne(pushq)
             ELSE UNCHANGED <<flag, status, pushq>>
      BY <1>4 DEF queue_do_pop
    <2>2. PICK ts \in SUBSET ToSet(pushq) :
             /\ Woken(ts) /\ \A u \in ts : status[u] # "KILLED"
             /\ pushq' \in Seq(Thread) /\ ToSet(pushq') \subseteq ToSet(pushq) /\ IsInjective(pushq')
             /\ \A u \in ToSet(pushq) : u \in ts \/ u \in ToSet(pushq')
      <3>1. CASE sized /\ length' < max
        BY <1>0, <1>2, <2>1, <3>1, WakeupOne, QueuedAlive
      <3>2. CASE ~(sized /\ length' < max)
        BY <1>0, <1>2, <2>1, <3>2, NobodyWoken
      <3> QED  BY <3>1, <3>2
    <2>3. /\ TInv' /\ Others(t) /\ t \in living /\ frame'[t] = "none" /\ ~MaySleepOn(t)'
          /\ \A u \in ts : ~MaySleepOn(u)'
      <3>1. ts \in SUBSET Thread  BY <1>2, ToSetElements
      <3>2. exc \in [Thread -> {"none", "raise", "kill"}]  BY <1>0 DEF TInv, Typed
      <3> QED  BY <1>0, <1>1, <2>1, <2>2, <3>1, <3>2, AwakeQueueStep DEF AtLoop, Finish
    <2>4. Moves(t, waitq, waitq', num_waiting, num_waiting', "pop")
      BY <2>1, <2>3, OffMoves
    <2>5. Moves(t, pushq, pushq', num_waiting_push, num_waiting_push', "push")
      BY <1>1, <1>2, <2>2, <2>3, WakeMoves
    <2>6. length' \in 0..MaxLength /\ max' \in 1..MaxLength /\ closed' \in BOOLEAN
      BY <1>0, <1>1, <2>1, QueuesAssumption DEF QueueTyped
    <2>7. closed' => waitq' = <<>> /\ pushq' = <<>>
      <3> SUFFICES ASSUME closed' PROVE waitq' = <<>> /\ pushq' = <<>>
        OBVIOUS
      <3>1. waitq = <<>> /\ pushq = <<>>  BY <1>0, <1>1
      <3>2. ToSet(waitq) = {} /\ ToSet(pushq) = {}  BY <3>1, EmptyElements
      <3>3. waitq' \in Seq(Thread) /\ ToSet(waitq') = {}
        BY <2>1, <3>2 DEF Off
      <3>4. pushq' \in Seq(Thread) /\ ToSet(pushq') = {}
        BY <2>2, <3>2
      <3> QED  BY <3>3, <3>4, NoElements
    <2> QED  BY <1>1, <2>3, <2>4, <2>5, <2>6, <2>7, MovesKeep
  <1> QED  BY <1>3, <1>4

\* The loop of Queue#push and SizedQueue#push.
LEMMA DoPushInv ==
    ASSUME QInv, NEW t \in Thread, NEW pq, NEW n, AtLoop(t), frame[t] # "pop",
           Off(t, pushq, pq, num_waiting_push, n, "push"), ~sized => length < MaxLength,
           rb_szqueue_push(t, pq, n)
    PROVE  QInv'
  <1>0. /\ TInv /\ QueueTyped /\ (closed => waitq = <<>> /\ pushq = <<>>)
        /\ Queued(waitq, "pop")
    BY DEF QInv
  <1>1. UNCHANGED <<closed, max, num_waiting, trap, saved, signals, pending, to_kill, sleeper,
                    living, join_list, target, fatal, sized>>
    BY DEF rb_szqueue_push, restOfCore
  <1>2. /\ t \notin ToSet(waitq) /\ IsInjective(waitq) /\ waitq \in Seq(Thread)
        /\ num_waiting \in Nat /\ n \in Int
        /\ Off(t, waitq, waitq, num_waiting, num_waiting, "pop")
    BY <1>0, OffQueue DEF Queued, In, QueueTyped, Off
  <1>3. exc \in [Thread -> {"none", "raise", "kill"}]  BY <1>0 DEF TInv, Typed
  <1>4. CASE sized /\ length >= max /\ ~closed
    <2>1. /\ pushq' = Append(pq, t) /\ num_waiting_push' = n + 1 /\ SleepBegin(t, "push")
          /\ UNCHANGED <<length, waitq, flag, exc>>
      BY <1>4 DEF rb_szqueue_push
    <2>2. TInv' /\ Others(t) /\ t \in living /\ frame'[t] = "push"
      BY <1>0, <1>1, <2>1, SleepQueueStep DEF AtLoop
    <2>3. Moves(t, pushq, pushq', num_waiting_push, num_waiting_push', "push") /\ t \in ToSet(pushq')
      BY <2>1, <2>2, OffMoves
    <2>4. Moves(t, waitq, waitq', num_waiting, num_waiting', "pop")
      BY <1>1, <1>2, <2>1, <2>2, OffMoves
    <2>5. /\ length' \in 0..MaxLength /\ max' \in 1..MaxLength /\ closed' \in BOOLEAN
          /\ ~closed'
      BY <1>0, <1>1, <1>4, <2>1 DEF QueueTyped
    <2> QED  BY <1>1, <1>4, <2>2, <2>3, <2>4, <2>5, MovesKeep
  <1>5. CASE closed
    <2>1. /\ pushq' = pq /\ num_waiting_push' = n /\ RaiseError(t)
          /\ frame' = [frame EXCEPT ![t] = "none"] /\ UNCHANGED <<length, waitq, flag, status>>
      BY <1>5 DEF rb_szqueue_push
    <2>2. /\ exc' = [exc EXCEPT ![t] = "raise"] /\ pc' = [pc EXCEPT ![t] = "unwind"] /\ running' = t
      BY <2>1 DEF RaiseError
    <2>3. /\ TInv' /\ Others(t) /\ t \in living /\ frame'[t] = "none" /\ ~MaySleepOn(t)'
      <3>1. Woken({})  BY <1>0, <2>1, NobodyWoken
      <3>2. exc' \in [Thread -> {"none", "raise", "kill"}]  BY <1>3, <2>2
      <3> QED  BY <1>0, <1>1, <2>1, <2>2, <3>1, <3>2, AwakeQueueStep DEF AtLoop
    <2>4. Moves(t, pushq, pushq', num_waiting_push, num_waiting_push', "push")
      BY <2>1, <2>3, OffMoves
    <2>5. Moves(t, waitq, waitq', num_waiting, num_waiting', "pop")
      BY <1>1, <1>2, <2>1, <2>3, OffMoves
    <2>6. length' \in 0..MaxLength /\ max' \in 1..MaxLength /\ closed' \in BOOLEAN
      BY <1>0, <1>1, <2>1 DEF QueueTyped
    <2>7. waitq' = <<>> /\ pushq' = <<>>
      <3>1. ToSet(pushq) = {}  BY <1>0, <1>5, EmptyElements
      <3>2. pushq' \in Seq(Thread) /\ ToSet(pushq') = {}  BY <2>1, <3>1 DEF Off
      <3> QED  BY <1>0, <1>5, <2>1, <3>2, NoElements
    <2> QED  BY <1>1, <2>3, <2>4, <2>5, <2>6, <2>7, MovesKeep
  <1>6. CASE ~closed /\ ~(sized /\ length >= max)
    <2>1. /\ pushq' = pq /\ num_waiting_push' = n /\ Finish(t) /\ length' = length + 1
          /\ Woken(wakeup_one(waitq)) /\ waitq' = AfterWakeupOne(waitq)
      BY <1>6 DEF rb_szqueue_push
    <2> DEFINE ts == wakeup_one(waitq)
    <2>2. /\ ts \in SUBSET ToSet(waitq) /\ Woken(ts) /\ \A u \in ts : status[u] # "KILLED"
          /\ waitq' \in Seq(Thread) /\ ToSet(waitq') \subseteq ToSet(waitq) /\ IsInjective(waitq')
          /\ \A u \in ToSet(waitq) : u \in ts \/ u \in ToSet(waitq')
      BY <1>0, <1>2, <2>1, WakeupOne, QueuedAlive
    <2> HIDE DEF ts
    <2>3. /\ TInv' /\ Others(t) /\ t \in living /\ frame'[t] = "none" /\ ~MaySleepOn(t)'
          /\ \A u \in ts : ~MaySleepOn(u)'
      <3>1. ts \in SUBSET Thread  BY <1>2, <2>2, ToSetElements
      <3> QED  BY <1>0, <1>1, <1>3, <2>1, <2>2, <3>1, AwakeQueueStep DEF AtLoop, Finish
    <2>4. Moves(t, pushq, pushq', num_waiting_push, num_waiting_push', "push")
      BY <2>1, <2>3, OffMoves
    <2>5. Moves(t, waitq, waitq', num_waiting, num_waiting', "pop")
      BY <1>1, <1>2, <2>2, <2>3, WakeMoves
    <2>6. length' \in 0..MaxLength /\ max' \in 1..MaxLength /\ closed' \in BOOLEAN
      BY <1>0, <1>1, <1>6, <2>1, QueuesAssumption DEF QueueTyped
    <2> QED  BY <1>1, <1>6, <2>3, <2>4, <2>5, <2>6, MovesKeep
  <1> QED  BY <1>4, <1>5, <1>6

\* A thread in Ruby code takes threads off the two queues and wakes them.
LEMMA IdleQueueStep ==
    ASSUME QInv, NEW t \in Thread, pc[t] = "run", NEW ws, NEW ps,
           Woken(ws \cup ps), ws \subseteq ToSet(waitq), ps \subseteq ToSet(pushq),
           waitq' \in Seq(Thread), IsInjective(waitq'), ToSet(waitq') \subseteq ToSet(waitq),
           \A u \in ToSet(waitq) : u \in ws \/ u \in ToSet(waitq'),
           pushq' \in Seq(Thread), IsInjective(pushq'), ToSet(pushq') \subseteq ToSet(pushq),
           \A u \in ToSet(pushq) : u \in ps \/ u \in ToSet(pushq'),
           length' \in 0..MaxLength, max' \in 1..MaxLength, closed' \in BOOLEAN,
           closed' => waitq' = <<>> /\ pushq' = <<>>,
           UNCHANGED <<running, pc, frame, exc, restOfCore, num_waiting, num_waiting_push>>
    PROVE  QInv'
  <1>0. TInv /\ QueueTyped  BY DEF QInv
  <1>1. /\ frame[t] = "none" /\ pc' = [pc EXCEPT ![t] = "run"]
        /\ frame' = [frame EXCEPT ![t] = "none"]
        /\ running' \in Thread \cup {NoThread} /\ exc' \in [Thread -> {"none", "raise", "kill"}]
    BY <1>0 DEF TInv, Typed, Places, PlaceFits, At
  <1>2. UNCHANGED <<trap, saved, signals, pending, to_kill, sleeper, living, join_list, target,
                    fatal, sized, num_waiting, num_waiting_push>>
    BY DEF restOfCore
  <1>3. /\ ws \cup ps \in SUBSET Thread /\ \A u \in ws \cup ps : status[u] # "KILLED"
    BY QueuedAlive
  <1>4. /\ TInv' /\ Others(t) /\ t \in living /\ frame'[t] = "none" /\ ~MaySleepOn(t)'
        /\ \A u \in ws \cup ps : ~MaySleepOn(u)'
    <2> DEFINE ts == ws \cup ps
    <2>1. Woken(ts)  OBVIOUS
    <2> HIDE DEF ts
    <2>2. ts \in SUBSET Thread /\ \A u \in ts : status[u] # "KILLED"  BY <1>3 DEF ts
    <2>3. /\ TInv' /\ Others(t) /\ t \in living /\ frame'[t] = "none" /\ ~MaySleepOn(t)'
          /\ \A u \in ts : ~MaySleepOn(u)'
      BY <1>0, <1>1, <1>2, <2>1, <2>2, AwakeQueueStep
    <2> QED  BY <2>3 DEF ts
  <1>5. t \notin ToSet(waitq) /\ t \notin ToSet(pushq)
    BY <1>1 DEF QInv, Queued, In
  <1>6. num_waiting \in Nat /\ num_waiting_push \in Nat  BY <1>0 DEF QueueTyped
  <1>7. Moves(t, waitq, waitq', num_waiting, num_waiting', "pop")
    BY <1>1, <1>2, <1>4, <1>5, <1>6, WakeMoves
  <1>8. Moves(t, pushq, pushq', num_waiting_push, num_waiting_push', "push")
    BY <1>1, <1>2, <1>4, <1>5, <1>6, WakeMoves
  <1> QED  BY <1>2, <1>4, <1>7, <1>8, MovesKeep

\* close and clear.
LEMMA CloseInv ==
    ASSUME QInv, NEW t \in Thread, rb_queue_close(t) \/ rb_queue_clear(t)
    PROVE  QInv'
  <1>0. /\ TInv /\ QueueTyped /\ waitq \in Seq(Thread) /\ pushq \in Seq(Thread)
        /\ IsInjective(waitq) /\ IsInjective(pushq)
        /\ length \in 0..MaxLength /\ max \in 1..MaxLength /\ closed \in BOOLEAN /\ MaxLength \in Nat
        /\ closed => waitq = <<>> /\ pushq = <<>>
    BY QueuesAssumption DEF QInv, QueueTyped, Queued
  <1> DEFINE ws == wakeup_all(waitq)
             ps == wakeup_all(pushq)
             none == <<>>
  <1>1. /\ ws \subseteq ToSet(waitq) /\ ToSet(waitq) \subseteq ws
        /\ ps \subseteq ToSet(pushq) /\ ToSet(pushq) \subseteq ps
    BY <1>0, WakeupOne, QueuedAlive
  <1>2. none \in Seq(Thread) /\ ToSet(none) = {} /\ IsInjective(none)
    BY EmptyElements
  <1>3. CASE rb_queue_close(t)
    <2>1. /\ pc[t] = "run" /\ closed' = TRUE /\ Woken(ws \cup ps) /\ waitq' = none /\ pushq' = none
          /\ UNCHANGED <<running, pc, frame, exc, restOfCore, length, max, num_waiting,
                         num_waiting_push>>
      BY <1>3 DEF rb_queue_close, Idle
    <2> HIDE DEF ws, ps, restOfCore
    <2>2. closed' => waitq' = <<>> /\ pushq' = <<>>  BY <2>1
    <2> HIDE DEF none
    <2> QED  BY <1>0, <1>1, <1>2, <2>1, <2>2, IdleQueueStep
  <1>4. CASE rb_queue_clear(t)
    <2>1. /\ pc[t] = "run" /\ length' = 0
          /\ IF sized THEN Woken(ps) /\ pushq' = none ELSE UNCHANGED <<flag, status, pushq>>
          /\ UNCHANGED <<running, pc, frame, exc, restOfCore, closed, max, waitq, num_waiting,
                         num_waiting_push>>
      BY <1>4 DEF rb_queue_clear, Idle
    <2>2. closed' => waitq' = <<>> /\ pushq' = <<>>  BY <1>0, <2>1
    <2> HIDE DEF ws, ps, restOfCore, none
    <2>3. PICK qs : /\ Woken(qs) /\ qs \subseteq ToSet(pushq)
                    /\ pushq' \in Seq(Thread) /\ IsInjective(pushq')
                    /\ ToSet(pushq') \subseteq ToSet(pushq)
                    /\ \A u \in ToSet(pushq) : u \in qs \/ u \in ToSet(pushq')
      BY <1>0, <1>1, <1>2, <2>1, NobodyWoken
    <2> DEFINE nobody == {}
    <2>4. nobody \cup qs = qs /\ nobody \subseteq ToSet(waitq)  OBVIOUS
    <2> HIDE DEF nobody
    <2>5. /\ waitq' \in Seq(Thread) /\ IsInjective(waitq') /\ ToSet(waitq') = ToSet(waitq)
          /\ length' \in 0..MaxLength /\ max' \in 1..MaxLength /\ closed' \in BOOLEAN
      BY <1>0, <2>1
    <2>6. Woken(nobody \cup qs)  BY <2>3, <2>4
    <2> QED  BY <2>1, <2>2, <2>3, <2>4, <2>5, <2>6, IdleQueueStep
  <1> QED  BY <1>3, <1>4

\* The smaller of two numbers.
LEMMA MinOfTwo ==
    ASSUME NEW a \in Int, NEW b \in Int
    PROVE  Min({a, b}) = IF a <= b THEN a ELSE b
  BY DEF Min

\* The larger of two.
LEMMA MaxOfTwo ==
    ASSUME NEW a \in Int, NEW b \in Int
    PROVE  Max({a, b}) = IF a >= b THEN a ELSE b
  BY DEF Max

\* SizedQueue#max=.
LEMMA MaxSetInv ==
    ASSUME QInv, NEW t \in Thread, NEW vmax \in 1..MaxLength, rb_szqueue_max_set(t, vmax)
    PROVE  QInv'
  <1>0. /\ TInv /\ QueueTyped /\ waitq \in Seq(Thread) /\ pushq \in Seq(Thread)
        /\ IsInjective(waitq) /\ IsInjective(pushq)
        /\ length \in 0..MaxLength /\ max \in 1..MaxLength /\ closed \in BOOLEAN /\ MaxLength \in Nat
        /\ closed => waitq = <<>> /\ pushq = <<>>
    BY QueuesAssumption DEF QInv, QueueTyped, Queued
  <1> DEFINE diff == Max({0, Min({vmax - max, Len(pushq)})})
             ps == ToSet(SubSeq(pushq, 1, diff))
             rest == SubSeq(pushq, diff + 1, Len(pushq))
  <1>1. /\ pc[t] = "run" /\ max' = vmax /\ Woken(ps) /\ pushq' = rest
        /\ UNCHANGED <<running, pc, frame, exc, restOfCore, length, closed, waitq, num_waiting,
                       num_waiting_push>>
    BY DEF rb_szqueue_max_set, Idle
  <1>2. diff \in 0..Len(pushq)
    <2>1. Len(pushq) \in Nat /\ vmax - max \in Int  BY <1>0, LenProperties
    <2> DEFINE m == Min({vmax - max, Len(pushq)})
    <2>2. m \in Int /\ m <= Len(pushq)  BY <2>1, MinOfTwo
    <2> HIDE DEF m
    <2>3. Max({0, m}) \in {0, m} /\ 0 <= Max({0, m})  BY <2>2, MaxOfTwo
    <2> QED  BY <2>1, <2>2, <2>3 DEF m
  <1> HIDE DEF diff, restOfCore
  <1>3. /\ ps = {pushq[i] : i \in 1..diff} /\ rest \in Seq(Thread) /\ IsInjective(rest)
        /\ ToSet(rest) = {pushq[i] : i \in (diff + 1)..Len(pushq)}
    <2>1. Len(pushq) \in Nat  BY <1>0, LenProperties
    <2>2. 1 \in 1..(Len(pushq) + 1) /\ diff \in 0..Len(pushq) /\ 0 = 1 - 1
          /\ diff + 1 \in 1..(Len(pushq) + 1) /\ Len(pushq) \in ((diff + 1) - 1)..Len(pushq)
      BY <1>2, <2>1
    <2> QED  BY <1>0, <2>2, SubSeqElements
  <1> HIDE DEF ps, rest
  <1>4. /\ ps \subseteq ToSet(pushq) /\ ToSet(rest) \subseteq ToSet(pushq)
        /\ \A u \in ToSet(pushq) : u \in ps \/ u \in ToSet(rest)
    <2>1. /\ Len(pushq) \in Nat
          /\ \A u : u \in ToSet(pushq) <=> \E i \in 1..Len(pushq) : pushq[i] = u
      BY <1>0, ToSetElements
    <2> QED  BY <1>2, <1>3, <2>1
  <1>5. closed' => waitq' = <<>> /\ pushq' = <<>>
    <2> SUFFICES ASSUME closed PROVE waitq = <<>> /\ rest = <<>>
      BY <1>1
    <2>1. waitq = <<>> /\ ToSet(pushq) = {}  BY <1>0, EmptyElements
    <2> QED  BY <1>3, <1>4, <2>1, NoElements
  <1> DEFINE nobody == {}
  <1>6. nobody \cup ps = ps /\ nobody \subseteq ToSet(waitq)  OBVIOUS
  <1> HIDE DEF nobody
  <1>7. /\ waitq' \in Seq(Thread) /\ IsInjective(waitq') /\ ToSet(waitq') = ToSet(waitq)
        /\ length' \in 0..MaxLength /\ max' \in 1..MaxLength /\ closed' \in BOOLEAN
        /\ Woken(nobody \cup ps)
        /\ pushq' \in Seq(Thread) /\ IsInjective(pushq') /\ ToSet(pushq') \subseteq ToSet(pushq)
        /\ \A u \in ToSet(pushq) : u \in ps \/ u \in ToSet(pushq')
    BY <1>0, <1>1, <1>3, <1>4, <1>6
  <1> QED  BY <1>1, <1>4, <1>5, <1>6, <1>7, IdleQueueStep

\* pop(true), push(obj, true), and an exception that leaves a pop or a push.
LEMMA RaisesInv ==
    ASSUME QInv, NEW t \in Thread, PopNonBlock(t) \/ PushNonBlock(t) \/ UnwindQueue(t)
    PROVE  QInv'
  <1>0. /\ TInv /\ QueueTyped /\ (closed => waitq = <<>> /\ pushq = <<>>)
        /\ length \in 0..MaxLength /\ max \in 1..MaxLength /\ closed \in BOOLEAN
        /\ exc \in [Thread -> {"none", "raise", "kill"}]
    BY DEF QInv, QueueTyped, TInv, Typed
  <1>1. UNCHANGED <<trap, saved, signals, pending, to_kill, sleeper, living, join_list, target,
                    fatal, sized, length, closed, max, status, flag>>
    BY DEF PopNonBlock, PushNonBlock, UnwindQueue, restOfCore, queueVars
  <1>2. Woken({})  BY <1>0, <1>1, NobodyWoken
  <1>3. CASE PopNonBlock(t) \/ PushNonBlock(t)
    <2>1. /\ pc[t] = "run" /\ frame' = frame /\ exc' = [exc EXCEPT ![t] = "raise"]
          /\ pc' = [pc EXCEPT ![t] = "unwind"] /\ running' = t
          /\ UNCHANGED <<waitq, pushq, num_waiting, num_waiting_push>>
      BY <1>3 DEF PopNonBlock, PushNonBlock, RaiseError, Idle, queueVars
    <2>2. frame[t] = "none" /\ frame' = [frame EXCEPT ![t] = "none"]
      BY <1>0, <2>1 DEF TInv, Typed, Places, PlaceFits, At
    <2>3. exc' \in [Thread -> {"none", "raise", "kill"}]  BY <1>0, <2>1
    <2>4. /\ TInv' /\ Others(t) /\ t \in living /\ frame'[t] = "none" /\ ~MaySleepOn(t)'
      BY <1>0, <1>1, <1>2, <2>1, <2>2, <2>3, AwakeQueueStep
    <2>5. Moves(t, waitq, waitq', num_waiting, num_waiting', "pop")
      BY <2>1, <2>2, <2>4, OffQueue, OffMoves
    <2>6. Moves(t, pushq, pushq', num_waiting_push, num_waiting_push', "push")
      BY <2>1, <2>2, <2>4, OffQueue, OffMoves
    <2> QED  BY <1>0, <1>1, <2>1, <2>4, <2>5, <2>6, MovesKeep
  <1>4. CASE UnwindQueue(t)
    <2>1. /\ pc[t] = "unwind" /\ frame[t] \in {"pop", "push"}
          /\ IF frame[t] = "pop"
             THEN /\ waitq' = Without(waitq, t) /\ num_waiting' = num_waiting - 1
                  /\ UNCHANGED <<pushq, num_waiting_push>>
             ELSE /\ pushq' = Without(pushq, t) /\ num_waiting_push' = num_waiting_push - 1
                  /\ UNCHANGED <<waitq, num_waiting>>
          /\ frame' = [frame EXCEPT ![t] = "none"] /\ UNCHANGED <<running, pc, exc>>
      BY <1>4 DEF UnwindQueue
    <2>2. pc' = [pc EXCEPT ![t] = "unwind"] /\ running' \in Thread \cup {NoThread}
      BY <1>0, <2>1 DEF TInv, Typed
    <2>3. /\ TInv' /\ Others(t) /\ t \in living /\ frame'[t] = "none" /\ ~MaySleepOn(t)'
      BY <1>0, <1>1, <1>2, <2>1, <2>2, AwakeQueueStep
    <2>4. Off(t, waitq, waitq', num_waiting, num_waiting', "pop")
      BY <2>1, OffQueue
    <2>5. Off(t, pushq, pushq', num_waiting_push, num_waiting_push', "push")
      BY <2>1, OffQueue
    <2>6. Moves(t, waitq, waitq', num_waiting, num_waiting', "pop")
      BY <2>3, <2>4, OffMoves
    <2>7. Moves(t, pushq, pushq', num_waiting_push, num_waiting_push', "push")
      BY <2>3, <2>5, OffMoves
    <2>8. closed' => waitq' = <<>> /\ pushq' = <<>>
      <3> SUFFICES ASSUME closed PROVE waitq' = <<>> /\ pushq' = <<>>
        BY <1>1
      <3>1. ToSet(waitq) = {} /\ ToSet(pushq) = {}  BY <1>0, EmptyElements
      <3>2. /\ waitq' \in Seq(Thread) /\ ToSet(waitq') = {}
            /\ pushq' \in Seq(Thread) /\ ToSet(pushq') = {}
        BY <2>4, <2>5, <3>1 DEF Off
      <3> QED  BY <3>2, NoElements
    <2> QED  BY <1>0, <1>1, <2>3, <2>6, <2>7, <2>8, MovesKeep
  <1> QED  BY <1>3, <1>4

\* Every operation on the queue keeps the invariant.
LEMMA QueueStepInv ==
    ASSUME QInv, NEW t \in Thread, QueueStep(t)
    PROVE  QInv'
  <1>0. /\ \A u \in Thread : frame[u] = "push" => sized
        /\ pc[t] = "run" => frame[t] = "none"
    BY DEF QInv, TInv, Typed, Places, PlaceFits, At
  <1>1. CASE rb_queue_pop(t)
    <2>1. AtLoop(t) /\ frame[t] = "none" /\ queue_do_pop(t, waitq, num_waiting)
      BY <1>0, <1>1 DEF rb_queue_pop, Idle, AtLoop
    <2> QED  BY <2>1, OffQueue, DoPopInv
  <1>2. CASE PopAgain(t)
    <2>1. AtLoop(t) /\ frame[t] = "pop" /\ queue_do_pop(t, Without(waitq, t), num_waiting - 1)
      BY <1>2 DEF PopAgain, AtLoop
    <2> QED  BY <2>1, OffQueue, DoPopInv
  <1>3. CASE rb_queue_push(t)
    <2>1. /\ AtLoop(t) /\ frame[t] = "none" /\ (~sized => length < MaxLength)
          /\ rb_szqueue_push(t, pushq, num_waiting_push)
      BY <1>0, <1>3 DEF rb_queue_push, Idle, AtLoop
    <2> QED  BY <2>1, OffQueue, DoPushInv
  <1>4. CASE PushAgain(t)
    <2>1. /\ AtLoop(t) /\ frame[t] = "push" /\ sized
          /\ rb_szqueue_push(t, Without(pushq, t), num_waiting_push - 1)
      BY <1>0, <1>4 DEF PushAgain, AtLoop
    <2> QED  BY <2>1, OffQueue, DoPushInv
  <1>5. CASE PopNonBlock(t) \/ PushNonBlock(t) \/ UnwindQueue(t)  BY <1>5, RaisesInv
  <1>6. CASE rb_queue_close(t) \/ rb_queue_clear(t)  BY <1>6, CloseInv
  <1>7. CASE \E vmax \in 1..MaxLength : rb_szqueue_max_set(t, vmax)  BY <1>7, MaxSetInv
  <1> QED  BY <1>1, <1>2, <1>3, <1>4, <1>5, <1>6, <1>7 DEF QueueStep

\* The next-state relation is made of operations on the queue and of other steps.
LEMMA QueueNextSplit ==
    ASSUME [QueueNext]_vars
    PROVE  (OtherStep /\ UNCHANGED queueVars) \/ \E t \in Thread : QueueStep(t)
  BY DEF QueueNext, OtherStep, vars

\* The invariant holds at the start: nobody waits.
LEMMA InitQInv == QueueInit => QInv
  <1> SUFFICES ASSUME QueueInit PROVE QInv
    OBVIOUS
  <1>1. TInv  BY InitTInv DEF QueueInit
  <1>2. QueueTyped
    <2>1. waitq \in Seq(Thread) /\ pushq \in Seq(Thread)
      BY EmptyElements DEF QueueInit
    <2>2. max \in 1..MaxLength /\ 0 \in 0..MaxLength
      BY QueuesAssumption DEF QueueInit
    <2> QED  BY <2>1, <2>2 DEF QueueInit, QueueTyped
  <1>3. In("pop") = {} /\ In("push") = {}
    BY <1>1 DEF In, QueueInit, Init, TInv, Typed
  <1>4. num_waiting = Cardinality(In("pop")) /\ num_waiting_push = Cardinality(In("push"))
    BY <1>3, FS_EmptySet DEF QueueInit
  <1>5. Queued(waitq, "pop") /\ Queued(pushq, "push")
    BY EmptyElements DEF QueueInit, Queued
  <1>6. \A t \in Thread : frame[t] = "none"  BY DEF QueueInit, Init
  <1> QED  BY <1>1, <1>2, <1>4, <1>5, <1>6 DEF QInv, QueuedFits, QueueInit

\* Every step keeps it.
LEMMA NextQInv == QInv /\ [QueueNext]_vars => QInv'
  <1> SUFFICES ASSUME QInv, [QueueNext]_vars PROVE QInv'
    OBVIOUS
  <1>1. CASE OtherStep /\ UNCHANGED queueVars
    BY <1>1, OtherStepQuiet, QuietKeeps DEF QInv
  <1>2. CASE \E t \in Thread : QueueStep(t)  BY <1>2, QueueStepInv
  <1> QED  BY <1>1, <1>2, QueueNextSplit

\* The inductive invariant holds in every state of every behaviour of the queue, with
\* signals, Thread#raise and Thread#kill: who waits is on waitq or pushq, and counted.
THEOREM QueuesInvariance == QueueSpec => []QInv
  BY InitQInv, NextQInv, PTL DEF QueueSpec

\* The variables keep their types: num_waiting never goes below zero, and the array of
\* a SizedQueue is never longer than the largest max it may be given.
THEOREM QueueTypeCorrect == QueueSpec => []QueueTypeOK
  <1>1. QInv => QueueTypeOK
    BY TInvTypeOK DEF QInv, QueueTyped, QueueTypeOK
  <1> QED  BY <1>1, QueuesInvariance, PTL

\* Queue#num_waiting and SizedQueue#num_waiting count the threads in pop and push, and
\* the nodes on waitq and pushq are on the stacks of threads that are in those calls,
\* whoever raises in them, kills them or closes the queue.
THEOREM WaitersCounted == QueueSpec => []WaitersAreCounted
  <1>1. QInv => WaitersAreCounted
    BY DEF QInv, Queued, In, WaitersAreCounted, Poppers, Pushers
  <1> QED  BY <1>1, QueuesInvariance, PTL

-----------------------------------------------------------------------------
(* Deadlocks. *)

\* No operation on the queue lets a thread fall asleep at once.
LEMMA QueueStepAsleep ==
    ASSUME TInv, NEW t \in Thread, QueueStep(t)
    PROVE  NoneFallsAsleep
  <1> USE DEF TInv, Typed, NoneFallsAsleep, Stuck, Slumbering, RUBY_VM_INTERRUPTED,
              rb_threadptr_interrupt, restOfCore, queueVars
  <1>1. CASE PopNonBlock(t) \/ PushNonBlock(t)
    BY <1>1 DEF PopNonBlock, PushNonBlock, RaiseError
  <1>2. CASE UnwindQueue(t)  BY <1>2 DEF UnwindQueue
  <1>3. CASE rb_queue_close(t) \/ rb_queue_clear(t)
    BY <1>3 DEF rb_queue_close, rb_queue_clear, Woken
  <1>4. CASE \E vmax \in 1..MaxLength : rb_szqueue_max_set(t, vmax)
    <2>1. PICK ts : Woken(ts) /\ UNCHANGED <<pc, frame, restOfCore>>
      BY <1>4 DEF rb_szqueue_max_set
    <2> QED  BY <2>1 DEF Woken
  <1>5. ASSUME NEW wq, NEW n, queue_do_pop(t, wq, n) PROVE NoneFallsAsleep
    <2>1. CASE length = 0 /\ ~closed
      BY <1>5, <2>1 DEF queue_do_pop, SleepBegin
    <2>2. CASE ~(length = 0 /\ ~closed)
      BY <1>5, <2>2 DEF queue_do_pop, Woken, Finish
    <2> QED  BY <2>1, <2>2
  <1>6. ASSUME NEW pq, NEW n, rb_szqueue_push(t, pq, n) PROVE NoneFallsAsleep
    <2>1. CASE sized /\ length >= max /\ ~closed
      BY <1>6, <2>1 DEF rb_szqueue_push, SleepBegin
    <2>2. CASE ~(sized /\ length >= max /\ ~closed)
      BY <1>6, <2>2 DEF rb_szqueue_push, Woken, Finish, RaiseError
    <2> QED  BY <2>1, <2>2
  <1> QED
    BY <1>1, <1>2, <1>3, <1>4, <1>5, <1>6
       DEF QueueStep, rb_queue_pop, PopAgain, rb_queue_push, PushAgain

\* Threads that wait for each other on a queue are reported: as long as fatal was not
\* raised, some living thread does not sleep for ever.
THEOREM QueueDeadlocksReported == QueueSpec => []DeadlockIsReported
  <1>1. QueueInit => DeadlockIsReported  BY InitReports DEF QueueInit
  <1>2. QInv /\ DeadlockIsReported /\ [QueueNext]_vars => DeadlockIsReported'
    <2> SUFFICES ASSUME TInv, DeadlockIsReported, [QueueNext]_vars PROVE DeadlockIsReported'
      BY DEF QInv
    <2>1. CASE OtherStep
      <3>1. [Next]_core  BY <2>1 DEF OtherStep, ThreadStep, Next
      <3> QED  BY <3>1, NextReports
    <2>2. CASE \E t \in Thread : QueueStep(t)
      BY <2>2, QueueStepAsleep, NoneAsleepReports
    <2> QED  BY <2>1, <2>2, QueueNextSplit
  <1> QED  BY <1>1, <1>2, QueuesInvariance, PTL DEF QueueSpec

-----------------------------------------------------------------------------
(* Elements and waiting threads.                                           *)
(*                                                                         *)
(* A thread that was woken for an element may be interrupted before it     *)
(* takes it, and nobody else is woken then (thread_sync.c:717).  What      *)
(* follows is about the programs in which that cannot happen.              *)

\* No signals, no Thread#raise and no Thread#kill, no abort_on_exception, and no thread
\* that is created once the main thread has begun to terminate the others.
Peaceful == MaxPending = 0 /\ MaxSignal = 0 /\ Calls \cap {"kill", "abort", "start"} = {}

\* The main thread has begun to terminate the others.
Ended == status[Main] = "KILLED"

\* A thread that the main thread terminates stays awake.
Doomed(t) == (pending[t] = <<"kill">> /\ flag[t]) \/ (exc[t] = "kill" /\ pc[t] = "unwind")

\* Until then nothing is raised in it but by itself, outside of its calls.
Undisturbed(t) == pending[t] = <<>> /\ (pc[t] = "unwind" => frame[t] = "none")

\* num_waiting - Len(waitq) threads were taken off the queue and have not come back:
\* there are as many of them as there are elements, or as much as there is space.
EnoughWoken ==
    /\ num_waiting - Len(waitq) >= length \/ waitq = <<>>
    /\ sized => num_waiting_push - Len(pushq) >= max - length \/ pushq = <<>>

\* rb_check_deadlock has raised fatal and the main thread has not left its call.
FatalComing == pending[Main] # <<>> \/ (pc[Main] = "unwind" /\ frame[Main] # "none")

\* A thread that waits for what nobody is there to do.
WaitsOn(u) ==
    /\ pc[u] \in {"check", "asleep", "woken", "back"} /\ frame[u] \in Deadlockable
    /\ frame[u] = "stop" => pc[u] # "back" /\ status[u] = "STOPPED_FOREVER"
    /\ frame[u] = "join" => target[u] \in living
    /\ frame[u] = "pop" => length = 0 /\ ~closed
    /\ frame[u] = "push" => length >= max /\ ~closed

\* Meanwhile all others wait, and the main thread was not woken for an element.
FatalWindow ==
    /\ \A u \in living \ {Main} : WaitsOn(u)
    /\ \/ pc[Main] \in {"asleep", "woken"} /\ flag[Main] /\ Len(pending[Main]) = 1
       \/ pc[Main] = "unwind" /\ pending[Main] = <<>>
    /\ frame[Main] \in Deadlockable
    /\ frame[Main] = "pop" => Main \in ToSet(waitq)
    /\ frame[Main] = "push" => Main \in ToSet(pushq)

WInv ==
    /\ \A t \in Thread : pc[t] # "lock_sleep"
    /\ Ended => \A t \in living \ {Main} : Doomed(t)
    /\ ~Ended => /\ \A t \in Thread \ {Main} : Undisturbed(t)
                 /\ EnoughWoken
                 /\ FatalComing => FatalWindow

\* Who is in a call and off its queue was taken off it, and is counted.
LEMMA OffCount ==
    ASSUME QInv
    PROVE  /\ Cardinality(In("pop") \ ToSet(waitq)) = num_waiting - Len(waitq)
           /\ Cardinality(In("push") \ ToSet(pushq)) = num_waiting_push - Len(pushq)
           /\ IsFiniteSet(In("pop")) /\ IsFiniteSet(In("push"))
           /\ Len(waitq) \in Nat /\ Len(pushq) \in Nat
           /\ num_waiting \in Nat /\ num_waiting_push \in Nat
  <1>1. waitq \in Seq(Thread) /\ pushq \in Seq(Thread) /\ num_waiting \in Nat /\ num_waiting_push \in Nat
    BY DEF QInv, QueueTyped
  <1>2. IsInjective(waitq) /\ IsInjective(pushq)  BY DEF QInv, Queued
  <1>3. In("pop") \cap ToSet(waitq) = ToSet(waitq) /\ In("push") \cap ToSet(pushq) = ToSet(pushq)
    BY DEF QInv, Queued
  <1>4. IsFiniteSet(In("pop")) /\ IsFiniteSet(In("push"))
    <2>1. IsFiniteSet(living)  BY CountedFinite DEF QInv, TInv
    <2> QED  BY <2>1, FS_Subset DEF In
  <1>5. Cardinality(ToSet(waitq)) = Len(waitq) /\ Cardinality(ToSet(pushq)) = Len(pushq)
    BY <1>1, <1>2, InjectiveCount
  <1>6. Len(waitq) \in Nat /\ Len(pushq) \in Nat  BY <1>1, LenProperties
  <1>7. num_waiting = Cardinality(In("pop")) /\ num_waiting_push = Cardinality(In("push"))
    BY DEF QInv
  <1>8. /\ Cardinality(In("pop") \ ToSet(waitq))
             = Cardinality(In("pop")) - Cardinality(In("pop") \cap ToSet(waitq))
        /\ Cardinality(In("push") \ ToSet(pushq))
             = Cardinality(In("push")) - Cardinality(In("push") \cap ToSet(pushq))
    BY <1>4, FS_Difference
  <1> QED  BY <1>1, <1>3, <1>4, <1>5, <1>6, <1>7, <1>8

\* The waiters of a queue, those of ps, are awake if they are off q.
LEMMA AwakeCount ==
    ASSUME NEW ps, NEW q, NEW n \in Int, IsFiniteSet(ps),
           ps \ ToSet(q) \subseteq Awake(ps), Awake(ps) \subseteq ps,
           Cardinality(ps \ ToSet(q)) >= n \/ ToSet(q) = {}
    PROVE  Cardinality(Awake(ps)) >= n \/ Awake(ps) = ps
  <1>1. CASE ToSet(q) = {}  BY <1>1
  <1>2. CASE Cardinality(ps \ ToSet(q)) >= n
    <2>1. IsFiniteSet(Awake(ps))  BY FS_Subset
    <2>2. IsFiniteSet(ps \ ToSet(q)) /\ Cardinality(ps \ ToSet(q)) <= Cardinality(Awake(ps))
      BY <2>1, FS_Subset
    <2>3. Cardinality(Awake(ps)) \in Nat /\ Cardinality(ps \ ToSet(q)) \in Nat
      BY <2>1, <2>2, FS_CardinalityType
    <2> QED  BY <1>2, <2>2, <2>3
  <1> QED  BY <1>1, <1>2

\* So enough of them are awake.
LEMMA WInvWakes ==
    ASSUME QInv, WInv, signals = 0
    PROVE  QueueWakesWaiters
  <1>1. /\ Poppers = In("pop") /\ Pushers = In("push")
        /\ IsFiniteSet(In("pop")) /\ IsFiniteSet(In("push"))
    BY OffCount DEF Poppers, Pushers, In
  <1>2. length \in Int /\ max \in Int /\ living \subseteq Thread /\ Main \in Thread
    BY ThreadsAssumption DEF QInv, QueueTyped, TInv, Typed
  <1>3. \A u \in Thread : QueuedFits(u)  BY DEF QInv
  <1>4. /\ Awake(In("pop")) \subseteq In("pop") /\ Awake(In("push")) \subseteq In("push")
        /\ In("pop") \ ToSet(waitq) \subseteq Awake(In("pop"))
        /\ In("push") \ ToSet(pushq) \subseteq Awake(In("push"))
    BY <1>2, <1>3 DEF Awake, In, QueuedFits, MaySleepOn
  <1>5. closed => Awake(Poppers \cup Pushers) = Poppers \cup Pushers
    <2> SUFFICES ASSUME closed PROVE Awake(In("pop") \cup In("push")) = In("pop") \cup In("push")
      BY <1>1
    <2>1. ToSet(waitq) = {} /\ ToSet(pushq) = {}  BY EmptyElements DEF QInv
    <2>2. Awake(In("pop")) = In("pop") /\ Awake(In("push")) = In("push")  BY <1>4, <2>1
    <2> QED  BY <2>2 DEF Awake
  <1>6. CASE Ended
    <2>1. frame[Main] = "none"
      BY <1>2, <1>6 DEF Ended, QInv, TInv, Places, PlaceFits, At
    <2>2. \A u \in living \ {Main} : ~Slumbering(u)
      BY <1>6 DEF WInv, Doomed, Slumbering, RUBY_VM_INTERRUPTED
    <2>3. Awake(In("pop")) = In("pop") /\ Awake(In("push")) = In("push")
      BY <2>1, <2>2 DEF Awake, In
    <2> QED  BY <1>1, <1>5, <2>3 DEF QueueWakesWaiters
  <1>7. CASE ~Ended
    <2>1. EnoughWoken  BY <1>7 DEF WInv
    <2>2. Cardinality(In("pop") \ ToSet(waitq)) >= length \/ ToSet(waitq) = {}
      BY <2>1, OffCount, EmptyElements DEF EnoughWoken
    <2>3. sized => Cardinality(In("push") \ ToSet(pushq)) >= max - length \/ ToSet(pushq) = {}
      BY <2>1, OffCount, EmptyElements DEF EnoughWoken
    <2>4. Cardinality(Awake(In("pop"))) >= length \/ Awake(In("pop")) = In("pop")
      BY <1>1, <1>2, <1>4, <2>2, AwakeCount
    <2>5. sized => \/ Cardinality(Awake(In("push"))) >= max - length
                   \/ Awake(In("push")) = In("push")
      BY <1>1, <1>2, <1>4, <2>3, AwakeCount
    <2> QED  BY <1>1, <1>5, <2>4, <2>5 DEF QueueWakesWaiters
  <1> QED  BY <1>6, <1>7

\* If nobody was taken off a queue without having come back, there is nothing to wait
\* for any more on it.
LEMMA NothingLeft ==
    ASSUME QInv, EnoughWoken, signals = 0,
           \A u \in living : frame[u] \in {"pop", "push"} => MaySleepOn(u)
    PROVE  \A u \in living :
              /\ frame[u] = "pop" => u \in ToSet(waitq) /\ length = 0 /\ ~closed
              /\ frame[u] = "push" => u \in ToSet(pushq) /\ length >= max /\ ~closed
  <1>1. /\ length \in Nat /\ max \in Nat /\ living \subseteq Thread
        /\ (closed => waitq = <<>> /\ pushq = <<>>)
        /\ \A u \in Thread : frame[u] = "push" => sized
    BY QueuesAssumption DEF QInv, QueueTyped, TInv, Typed
  <1>2. In("pop") \ ToSet(waitq) = {} /\ In("push") \ ToSet(pushq) = {}
    BY <1>1 DEF QInv, QueuedFits, In
  <1>3. num_waiting - Len(waitq) = 0 /\ num_waiting_push - Len(pushq) = 0
    BY <1>2, OffCount, FS_EmptySet
  <1> SUFFICES ASSUME NEW u \in living
               PROVE  /\ frame[u] = "pop" => u \in ToSet(waitq) /\ length = 0 /\ ~closed
                      /\ frame[u] = "push" => u \in ToSet(pushq) /\ length >= max /\ ~closed
    OBVIOUS
  <1>4. ASSUME frame[u] = "pop" PROVE u \in ToSet(waitq) /\ length = 0 /\ ~closed
    <2>1. u \in ToSet(waitq)  BY <1>2, <1>4 DEF In
    <2>2. waitq # <<>>  BY <2>1, EmptyElements
    <2>3. 0 >= length  BY <1>3, <2>2 DEF EnoughWoken
    <2> QED  BY <1>1, <2>1, <2>2, <2>3
  <1>5. ASSUME frame[u] = "push" PROVE u \in ToSet(pushq) /\ length >= max /\ ~closed
    <2>1. u \in ToSet(pushq) /\ sized  BY <1>1, <1>2, <1>5 DEF In
    <2>2. pushq # <<>>  BY <2>1, EmptyElements
    <2>3. 0 >= max - length  BY <1>3, <2>1, <2>2 DEF EnoughWoken
    <2> QED  BY <1>1, <2>1, <2>2, <2>3
  <1> QED  BY <1>4, <1>5

-----------------------------------------------------------------------------
(* rb_check_deadlock tells the truth. *)

\* A thread that may sleep in a join waits for a living one, on its list.
LEMMA JoinTarget ==
    ASSUME TInv, signals = 0, NEW u \in Thread, frame[u] = "join", MaySleepOn(u)
    PROVE  target[u] \in living /\ u \in join_list[target[u]]
  <1> USE DEF TInv
  <1>1. SeesEnd(u)  BY DEF JoinersSeeEnd
  <1>2. status[target[u]] # "KILLED"
    BY <1>1 DEF SeesEnd, MaySleepOn, SleepStatus, Deadlockable
  <1>3. target[u] \in Thread /\ u \in join_list[target[u]]
    BY <1>2 DEF JoinLists, Joining
  <1>4. pc[target[u]] # "new"  BY <1>3 DEF JoinLists
  <1> QED  BY <1>2, <1>3, <1>4 DEF Places, PlaceFits

\* All sleep, for ever, and have nothing to wait for; fatal is on its way.
Deadlocked ==
    /\ \A u \in living' : /\ pc'[u] = "asleep" /\ frame'[u] \in Deadlockable
                          /\ status'[u] = "STOPPED_FOREVER"
                          /\ frame'[u] = "join" => target'[u] \in living'
                          /\ frame'[u] = "pop" => u \in ToSet(waitq') /\ length' = 0 /\ ~closed'
                          /\ frame'[u] = "push" => u \in ToSet(pushq') /\ length' >= max' /\ ~closed'
    /\ Main \in living' /\ flag'[Main] /\ Len(pending'[Main]) = 1
    /\ \A u \in Thread \ {Main} : pending'[u] = pending[u]

\* Into an empty queue an interrupt goes alone.
LEMMA EnqueEmpty ==
    ASSUME NEW pq, NEW ts, NEW err, NEW u \in Thread, u \in ts, pq[u] = <<>>
    PROVE  Enque(pq, ts, err)[u] = <<err>>
  <1> DEFINE old == pq[u]
             new == Append(old, err)
  <1>1. Enque(pq, ts, err)[u] =
           IF u \notin ts \/ \E i \in DOMAIN old : old[i] = "kill" THEN old ELSE new
    BY DEF Enque
  <1>2. ~\E i \in DOMAIN old : old[i] = "kill"
    <2>1. DOMAIN old = {}  OBVIOUS
    <2> QED  BY <2>1
  <1>3. new = <<err>>  OBVIOUS
  <1> HIDE DEF old, new
  <1> QED  BY <1>1, <1>2, <1>3

\* rb_check_deadlock puts fatal into the main thread's empty queue.
LEMMA FatalEnqueued ==
    ASSUME TInv, pending[Main] = <<>>, NEW fl, pending' = Enque(pending, {Main}, "fatal"),
           flag' = rb_threadptr_interrupt(fl, {Main})
    PROVE  /\ flag'[Main] /\ Len(pending'[Main]) = 1
           /\ \A u \in Thread \ {Main} : pending'[u] = pending[u]
  <1>0. Main \in Thread  BY ThreadsAssumption
  <1>1. pending'[Main] = <<"fatal">>  BY <1>0, EnqueEmpty
  <1>2. Len(<<"fatal">>) = 1  OBVIOUS
  <1>3. \A u \in Thread \ {Main} : pending'[u] = pending[u]  BY DEF Enque
  <1>4. flag'[Main]  BY <1>0 DEF rb_threadptr_interrupt
  <1> QED  BY <1>1, <1>2, <1>3, <1>4

\* No fatal is on its way when rb_check_deadlock finds nobody awake.
LEMMA NoFatalYet ==
    ASSUME WInv, ~Ended, NEW fl, ~RUBY_VM_INTERRUPTED(Main, fl),
           fl[Main] = flag[Main] \/ pending[Main] = <<>>, pc[Main] # "unwind"
    PROVE  ~FatalComing
  BY DEF WInv, FatalComing, FatalWindow, RUBY_VM_INTERRUPTED

\* The last thread to fall asleep.
LEMMA NativeSleepFatal ==
    ASSUME QInv, WInv, signals = 0, NEW t \in Thread, NativeSleep(t, {}, NoThread),
           UNCHANGED queueVars, frame[t] \in Deadlockable,
           NoLiveThreadLeft(t, status, [flag EXCEPT ![t] = FALSE], sleeper + 1, living, {}, NoThread)
    PROVE  Deadlocked /\ ~Ended /\ ~FatalComing
  <1> USE DEF TInv
  <1> DEFINE fl == [flag EXCEPT ![t] = FALSE]
  <1>0. /\ TInv /\ Main \in Thread /\ Main \in living /\ living \subseteq Thread /\ ~trap
        /\ \A u \in Thread : frame[u] = "push" => sized
    BY ThreadsAssumption DEF QInv, Places, Typed
  <1>1. /\ Cardinality(living) <= sleeper + 1
        /\ \A u \in living : status[u] = "STOPPED_FOREVER" /\ ~RUBY_VM_INTERRUPTED(u, fl)
    BY DEF NoLiveThreadLeft
  <1>2. /\ pc[t] = "check" \/ (pc[t] = "woken" /\ frame[t] \in SpuriousCheck)
        /\ t \in living /\ MayPass(t) /\ pc' = [pc EXCEPT ![t] = "asleep"]
        /\ rb_check_deadlock(t, status, fl, sleeper + 1, living, {}, NoThread, 0)
        /\ UNCHANGED <<frame, status, living, target>>
    BY <1>0 DEF NativeSleep, Places
  <1>3. ~Ended  BY <1>0, <1>1 DEF Ended
  <1>4. Counted = living \ {t}
    <2>1. Counted \subseteq living \ {t}  BY <1>2 DEF Counted, Counts
    <2>2. IsFiniteSet(living) /\ Cardinality(living \ {t}) = Cardinality(living) - 1
      BY <1>0, <1>2, CountedFinite, FS_RemoveElement
    <2>3. IsFiniteSet(living \ {t})  BY <2>2, FS_Subset
    <2>4. sleeper <= Cardinality(Counted) /\ Cardinality(Counted) \in Nat /\ sleeper \in Int
          /\ Cardinality(living) \in Nat
      BY <1>0, CountedFinite DEF SleeperCount
    <2>5. Cardinality(living \ {t}) <= Cardinality(Counted)  BY <1>1, <2>2, <2>4
    <2>6. Cardinality(Counted) <= Cardinality(living \ {t})  BY <2>1, <2>3, FS_Subset
    <2>7. Cardinality(Counted) = Cardinality(living \ {t})  BY <2>2, <2>4, <2>5, <2>6
    <2> QED  BY <2>1, <2>3, <2>7, FS_Subset
  <1>5. \A u \in living \ {t} : pc[u] = "asleep" /\ frame[u] \in Deadlockable /\ Slumbering(u)
    <2> SUFFICES ASSUME NEW u \in living \ {t}
                 PROVE  pc[u] = "asleep" /\ frame[u] \in Deadlockable /\ Slumbering(u)
      OBVIOUS
    <2>1. Counts(u) /\ pc[u] # "lock_sleep"  BY <1>0, <1>4 DEF Counted, WInv
    <2>2. ~flag[u]
      <3>1. fl[u] = flag[u]  BY <1>0 DEF Typed
      <3> QED  BY <1>1, <3>1 DEF RUBY_VM_INTERRUPTED
    <2> QED  BY <1>0, <2>1, <2>2 DEF Counts, Slumbering, RUBY_VM_INTERRUPTED
  <1>6. ~FatalComing /\ pending[Main] = <<>>
    <2>1. CASE t = Main
      BY <1>1, <1>2, <1>3, <2>1, NoFatalYet, <1>0 DEF MayPass, Due, BlockingCheck, FatalComing
    <2>2. CASE t # Main
      <3>1. fl[Main] = flag[Main] /\ pc[Main] # "unwind"  BY <1>0, <1>5, <2>2 DEF Typed
      <3> QED  BY <1>0, <1>1, <1>3, <3>1, NoFatalYet DEF FatalComing
    <2> QED  BY <2>1, <2>2
  <1>7. \A u \in living : frame[u] \in {"pop", "push", "join"} => MaySleepOn(u)
    <2>1. frame[t] \in {"pop", "push", "join"} => pc[t] = "check" /\ status[t] = SleepStatus(frame[t])
      BY <1>1, <1>2 DEF SleepStatus, SpuriousCheck
    <2> QED  BY <1>5, <2>1 DEF MaySleepOn
  <1>8. \A u \in living :
              /\ frame[u] = "pop" => u \in ToSet(waitq) /\ length = 0 /\ ~closed
              /\ frame[u] = "push" => u \in ToSet(pushq) /\ length >= max /\ ~closed
              /\ frame[u] = "join" => target[u] \in living
    BY <1>0, <1>3, <1>7, NothingLeft, JoinTarget DEF WInv
  <1>9. /\ flag'[Main] /\ Len(pending'[Main]) = 1
        /\ \A u \in Thread \ {Main} : pending'[u] = pending[u]
    <2>1. pending' = Enque(pending, {Main}, "fatal") /\ flag' = rb_threadptr_interrupt(fl, {Main})
      BY <1>2 DEF rb_check_deadlock
    <2> HIDE DEF fl
    <2> QED  BY <1>0, <1>6, <2>1, FatalEnqueued
  <1>10. \A u \in living' : pc'[u] = "asleep"  BY <1>0, <1>2, <1>5 DEF Typed
  <1> QED
    BY <1>0, <1>1, <1>2, <1>3, <1>5, <1>6, <1>8, <1>9, <1>10 DEF Deadlocked, queueVars

\* A thread that ends and leaves only sleepers behind.
LEMMA ThreadEndFatal ==
    ASSUME QInv, WInv, signals = 0, NEW t \in Thread, ThreadEnd(t, FALSE, {}, {}, NoThread),
           UNCHANGED queueVars, pending' # pending \/ (~fatal /\ fatal')
    PROVE  Deadlocked /\ ~Ended /\ ~FatalComing
  <1> USE DEF TInv
  <1> DEFINE joiners == join_list[t]
             last == IF status[Main] = "KILLED" /\ Cardinality(living \ {t}) = 1 THEN {Main} ELSE {}
             st == [u \in Thread |->
                      IF u = t THEN "KILLED"
                      ELSE IF u \in joiners /\ status[u] \in {"STOPPED", "STOPPED_FOREVER"}
                           THEN "RUNNABLE" ELSE status[u]]
             fl == rb_threadptr_interrupt(flag, joiners \cup last \cup {} \cup {})
  <1>0. /\ TInv /\ Main \in Thread /\ Main \in living /\ living \subseteq Thread /\ ~trap
    BY ThreadsAssumption DEF QInv, Places, Typed
  <1>1. /\ t # Main /\ frame[t] = "none" /\ pc[t] \in {"run", "unwind"}
        /\ living' = living \ {t} /\ status' = st /\ pc' = [pc EXCEPT ![t] = "dead"]
        /\ rb_check_deadlock(t, st, fl, sleeper, living \ {t}, {}, NoThread, 0)
        /\ UNCHANGED <<frame, target>>
    BY DEF ThreadEnd
  <1>2. NoLiveThreadLeft(t, st, fl, sleeper, living \ {t}, {}, NoThread)
    BY <1>1 DEF rb_check_deadlock
  <1>3. /\ pending' = Enque(pending, {Main}, "fatal") /\ flag' = rb_threadptr_interrupt(fl, {Main})
    BY <1>1, <1>2 DEF rb_check_deadlock
  <1>4. /\ Cardinality(living \ {t}) <= sleeper
        /\ \A u \in living \ {t} : st[u] = "STOPPED_FOREVER" /\ ~RUBY_VM_INTERRUPTED(u, fl)
    <2> HIDE DEF st, fl
    <2> QED  BY <1>2 DEF NoLiveThreadLeft
  <1>5. \A u \in living \ {t} : /\ status[u] = "STOPPED_FOREVER" /\ ~flag[u] /\ u \notin join_list[t]
    <2> SUFFICES ASSUME NEW u \in living \ {t}
                 PROVE  status[u] = "STOPPED_FOREVER" /\ ~flag[u] /\ u \notin join_list[t]
      OBVIOUS
    <2>1. st[u] = "STOPPED_FOREVER" /\ ~fl[u]  BY <1>4 DEF RUBY_VM_INTERRUPTED
    <2>2. ~flag[u] /\ u \notin join_list[t]  BY <1>0, <2>1 DEF rb_threadptr_interrupt
    <2> QED  BY <1>0, <2>1, <2>2
  <1>6. ~Ended  BY <1>0, <1>1, <1>5 DEF Ended
  <1>7. Counted = living \ {t}
    <2>1. Counted \subseteq living \ {t}  BY <1>1 DEF Counted, Counts
    <2>2. IsFiniteSet(living \ {t}) /\ Cardinality(living \ {t}) \in Nat
      BY <1>0, CountedFinite, FS_Subset, FS_CardinalityType
    <2>3. sleeper <= Cardinality(Counted) /\ Cardinality(Counted) \in Nat /\ sleeper \in Int
      BY <1>0, CountedFinite DEF SleeperCount
    <2>4. Cardinality(Counted) <= Cardinality(living \ {t})  BY <2>1, <2>2, FS_Subset
    <2>5. Cardinality(Counted) = Cardinality(living \ {t})  BY <1>4, <2>2, <2>3, <2>4
    <2> QED  BY <2>1, <2>2, <2>5, FS_Subset
  <1>8. \A u \in living \ {t} : pc[u] = "asleep" /\ frame[u] \in Deadlockable /\ Slumbering(u)
    <2> SUFFICES ASSUME NEW u \in living \ {t}
                 PROVE  pc[u] = "asleep" /\ frame[u] \in Deadlockable /\ Slumbering(u)
      OBVIOUS
    <2>1. Counts(u) /\ pc[u] # "lock_sleep"  BY <1>0, <1>7 DEF Counted, WInv
    <2> QED  BY <1>0, <1>5, <2>1 DEF Counts, Slumbering, RUBY_VM_INTERRUPTED
  <1>9. ~FatalComing /\ pending[Main] = <<>>
    BY <1>0, <1>1, <1>5, <1>6, <1>8, NoFatalYet DEF FatalComing, RUBY_VM_INTERRUPTED
  <1>10. \A u \in living \ {t} :
              /\ frame[u] = "pop" => u \in ToSet(waitq) /\ length = 0 /\ ~closed
              /\ frame[u] = "push" => u \in ToSet(pushq) /\ length >= max /\ ~closed
              /\ frame[u] = "join" => target[u] \in living \ {t}
    <2>1. \A u \in living : frame[u] \in {"pop", "push"} => MaySleepOn(u)
      BY <1>1, <1>8 DEF MaySleepOn
    <2>2. \A u \in living \ {t} : frame[u] = "join" =>
             target[u] \in living /\ u \in join_list[target[u]]
      BY <1>0, <1>8, JoinTarget DEF MaySleepOn
    <2>3. \A u \in living \ {t} : frame[u] = "join" => target[u] # t
      BY <1>5, <2>2
    <2> QED  BY <1>6, <2>1, <2>2, <2>3, NothingLeft DEF WInv
  <1>11. /\ flag'[Main] /\ Len(pending'[Main]) = 1
         /\ \A u \in Thread \ {Main} : pending'[u] = pending[u]
    <2> HIDE DEF fl
    <2> QED  BY <1>0, <1>3, <1>9, FatalEnqueued
  <1>12. \A u \in living' : pc'[u] = "asleep" /\ status'[u] = "STOPPED_FOREVER"
    <2> HIDE DEF st
    <2> QED  BY <1>0, <1>1, <1>4, <1>8 DEF Typed
  <1> HIDE DEF st, fl
  <1> QED
    BY <1>0, <1>1, <1>6, <1>8, <1>9, <1>10, <1>11, <1>12 DEF Deadlocked, queueVars

\* After the step that raises fatal the main thread's window is open.
LEMMA DeadlockedWindow ==
    ASSUME QInv, WInv, ~Ended, Deadlocked, UNCHANGED queueVars,
           \A u \in Thread \ living' : pc'[u] \notin {"lock_sleep", "unwind"}
    PROVE  WInv'
  <1>1. Main \in living' /\ Main \in Thread /\ pc'[Main] = "asleep"
    BY ThreadsAssumption DEF Deadlocked
  <1>2. ~Ended'  BY DEF Ended, Deadlocked
  <1>3. \A u \in Thread : pc'[u] # "lock_sleep" /\ pc'[u] # "unwind"  BY DEF Deadlocked
  <1>4. \A u \in Thread \ {Main} : Undisturbed(u)'
    BY <1>3 DEF WInv, Undisturbed, Deadlocked
  <1>5. EnoughWoken'  BY DEF WInv, EnoughWoken, queueVars
  <1>6. FatalWindow'
    BY <1>1 DEF FatalWindow, WaitsOn, Deadlocked, queueVars
  <1> QED  BY <1>2, <1>3, <1>4, <1>5, <1>6 DEF WInv

-----------------------------------------------------------------------------
(* The steps of the threads in a program of this kind. *)

\* The program's own choices that are left.
PeacefulProgram(t) ==
    \/ rb_thread_stop(t) \/ rb_f_sleep(t) \/ Rescue(t)
    \/ \E u \in Thread : \/ rb_thread_wakeup(t, u) \/ thread_join(t, u) \/ thread_join_ended(t, u)
                         \/ thread_create_core(t, u) /\ ~Ended

PeacefulStep ==
    \/ \E t \in Thread : \/ Proceed(t) \/ SpuriousWakeUp(t) \/ PeacefulProgram(t)
                         \/ ThreadEnd(t, FALSE, {}, {}, NoThread)
    \/ TerminateAll({}) \/ TerminateLoop
    \/ UNCHANGED core

\* Nothing else happens.
LEMMA OtherIsPeaceful ==
    ASSUME Peaceful, TInv, OtherStep
    PROVE  PeacefulStep /\ signals = 0 /\ ~trap /\ pc[Main] # "trap"
  <1>1. signals = 0 /\ ~trap /\ pc[Main] # "trap"
    BY DEF Peaceful, TInv, Typed, Places
  <1>2. ~Signalled
    BY <1>1 DEF Signalled, threadptr_trap_interrupt, TrapEnter, TrapReturn, Peaceful
  <1>3. ASSUME NEW t \in Thread, NEW u \in Thread
        PROVE  ~rb_threadptr_raise(t, u) /\ ~rb_thread_kill(t, u)
    <2>1. pending[u] \in Seq({"raise", "kill", "fatal"})  BY DEF TInv, Typed
    <2>2. Len(pending[u]) \in Nat  BY <2>1, LenProperties
    <2> QED  BY <2>2 DEF rb_threadptr_raise, rb_thread_kill, Peaceful
  <1>4. ASSUME NEW t \in Thread, Program(t) PROVE PeacefulProgram(t)
    BY <1>3, <1>4 DEF Program, PeacefulProgram, thread_create_core, Ended, Peaceful
  <1>5. ASSUME NEW t \in Thread, End(t) PROVE ThreadEnd(t, FALSE, {}, {}, NoThread)
    <2>1. PICK abort \in BOOLEAN : ThreadEnd(t, abort, {}, {}, NoThread)
      BY <1>5, Zenon DEF End
    <2>2. abort = FALSE
      <3>1. abort => "abort" \in Calls  BY <2>1, Zenon DEF ThreadEnd
      <3>2. "abort" \notin Calls  BY DEF Peaceful
      <3> QED  BY <3>1, <3>2, Zenon
    <2> QED  BY <2>1, <2>2, Zenon
  <1> QED  BY <1>1, <1>2, <1>4, <1>5 DEF OtherStep, ThreadStep, PeacefulStep

\* What leaves the termination of a thread on its way.
KeepsDoom(u) ==
    /\ pending'[u] = pending[u] /\ (flag[u] => flag'[u])
    /\ pc[u] = "unwind" /\ exc[u] = "kill" => pc'[u] = "unwind" /\ exc'[u] = "kill"

\* Only CHECK_INTS takes it further.
LEMMA DoomedStep ==
    ASSUME TInv, ~trap, NEW t \in Thread, Doomed(t),
           Proceed(t) \/ SpuriousWakeUp(t) \/ PeacefulProgram(t)
    PROVE  Doomed(t)'
  <1> USE DEF TInv
  <1>0. pending[t] = <<"kill">> => pending[t] # <<>> /\ Head(pending[t]) = "kill"  OBVIOUS
  <1>1. CASE RaiseInterrupt(t)
    <2>1. pc[t] # "unwind" /\ pending[t] = <<"kill">>
      BY <1>1 DEF RaiseInterrupt, BlockingCheck, Doomed
    <2>2. exc'[t] = "kill" /\ pc'[t] = "unwind"
      BY <1>0, <1>1, <2>1 DEF RaiseInterrupt, Deliver, Typed
    <2> QED  BY <2>2 DEF Doomed
  <1>2. ~CheckIntsInCode(t) /\ ~NativeSleep(t, {}, NoThread) /\ ~SleepEnd(t)
    BY <1>0 DEF CheckIntsInCode, NativeSleep, SleepEnd, MayPass, Due, BlockingCheck, Doomed
  <1>3. CASE InterruptedWakeUp(t) \/ TimeoutWakeUp(t) \/ SpuriousWakeUp(t)
    <2>1. KeepsDoom(t)
      BY <1>3 DEF InterruptedWakeUp, TimeoutWakeUp, SpuriousWakeUp, WakeUp, KeepsDoom
    <2> QED  BY <2>1 DEF KeepsDoom, Doomed
  <1>4. CASE SleepReturn(t) \/ JoinAgain(t) \/ JoinReturn(t) \/ UnwindSleep(t)
    <2>1. KeepsDoom(t)
      BY <1>4 DEF SleepReturn, JoinAgain, JoinReturn, UnwindSleep, KeepsDoom
    <2> QED  BY <2>1 DEF KeepsDoom, Doomed
  <1>5. CASE PeacefulProgram(t)
    <2>0. CASE CallRaises(t)  BY <2>0 DEF CallRaises, Idle, Doomed
    <2>1. CASE ~CallRaises(t) /\ (rb_thread_stop(t) \/ rb_f_sleep(t) \/ Rescue(t))
      BY <2>1 DEF rb_thread_stop, rb_f_sleep, Rescue, Idle, KeepsDoom, Doomed
    <2>2. ASSUME NEW u \in Thread, rb_thread_wakeup(t, u) PROVE Doomed(t)'
      BY <2>2 DEF rb_thread_wakeup, rb_threadptr_interrupt, Idle, Doomed
    <2>3. ASSUME NEW u \in Thread, thread_join(t, u) PROVE Doomed(t)'
      BY <2>3 DEF thread_join, Idle, Doomed
    <2>4. ASSUME NEW u \in Thread, thread_create_core(t, u) PROVE Doomed(t)'
      BY <2>4 DEF thread_create_core, Idle, Doomed
    <2> QED  BY <1>5, <2>0, <2>1, <2>2, <2>3, <2>4 DEF PeacefulProgram, thread_join_ended
  <1> QED  BY <1>1, <1>2, <1>3, <1>4, <1>5 DEF Proceed

\* The others' is left alone.
SparesOthers(t) ==
    /\ living' = living
    /\ \A u \in Thread \ {t} : KeepsDoom(u) /\ (u = Main => status'[u] = status[u])

\* No step of a thread calls off the termination of another one.
LEMMA DoomedOthers ==
    ASSUME TInv, ~trap, NEW t \in Thread, Doomed(t) \/ t = Main, Ended,
           Proceed(t) \/ SpuriousWakeUp(t) \/ PeacefulProgram(t)
    PROVE  SparesOthers(t)
  <1> USE DEF TInv, SparesOthers
  <1>0. pending[t] = <<"kill">> => pending[t] # <<>>  OBVIOUS
  <1>1. CASE RaiseInterrupt(t)
    BY <1>1 DEF RaiseInterrupt, Deliver, KeepsDoom, Typed
  <1>2. CASE CheckIntsInCode(t) \/ SleepEnd(t)
    BY <1>2 DEF CheckIntsInCode, SleepEnd, KeepsDoom, Typed
  <1>3. ~NativeSleep(t, {}, NoThread)
    BY <1>0 DEF NativeSleep, MayPass, Due, BlockingCheck, Doomed, Ended, Places, PlaceFits
  <1>4. CASE InterruptedWakeUp(t) \/ TimeoutWakeUp(t) \/ SpuriousWakeUp(t)
    BY <1>4 DEF InterruptedWakeUp, TimeoutWakeUp, SpuriousWakeUp, WakeUp, KeepsDoom, Typed
  <1>5. CASE SleepReturn(t) \/ JoinAgain(t) \/ JoinReturn(t) \/ UnwindSleep(t)
    BY <1>5 DEF SleepReturn, JoinAgain, SleepBegin, JoinReturn, RaiseError, UnwindSleep, KeepsDoom,
                Typed
  <1>6. CASE PeacefulProgram(t)
    <2>0. CASE CallRaises(t)  BY <2>0 DEF CallRaises, RaiseError, KeepsDoom, Typed
    <2>1. CASE ~CallRaises(t) /\ (rb_thread_stop(t) \/ rb_f_sleep(t) \/ Rescue(t))
      BY <2>1 DEF rb_thread_stop, rb_f_sleep, SleepBegin, Rescue, KeepsDoom, Typed
    <2>2. ASSUME NEW v \in Thread, rb_thread_wakeup(t, v)
          PROVE  SparesOthers(t)
      BY <2>2 DEF rb_thread_wakeup, rb_threadptr_interrupt, KeepsDoom, Ended, Typed
    <2>3. ASSUME NEW v \in Thread, thread_join(t, v)
          PROVE  SparesOthers(t)
      BY <2>3 DEF thread_join, SleepBegin, KeepsDoom, Typed
    <2> QED  BY <1>6, <2>0, <2>1, <2>2, <2>3 DEF PeacefulProgram, thread_join_ended
  <1> QED  BY <1>1, <1>2, <1>3, <1>4, <1>5, <1>6 DEF Proceed

\* Nobody gets into rb_mutex_lock.
LEMMA NoLockSleep ==
    ASSUME TInv, PeacefulStep, \A u \in Thread : pc[u] # "lock_sleep"
    PROVE  \A u \in Thread : pc'[u] # "lock_sleep"
  <1> USE DEF TInv, Typed
  <1>1. ASSUME NEW t \in Thread, NEW p, p # "lock_sleep", pc' = [pc EXCEPT ![t] = p]
        PROVE  \A u \in Thread : pc'[u] # "lock_sleep"
    BY <1>1
  <1>2. ASSUME NEW t \in Thread, Proceed(t) \/ SpuriousWakeUp(t)
        PROVE  \A u \in Thread : pc'[u] # "lock_sleep"
    <2>1. CASE RaiseInterrupt(t) \/ CheckIntsInCode(t) \/ NativeSleep(t, {}, NoThread) \/ SleepEnd(t)
      BY <1>1, <2>1 DEF RaiseInterrupt, Deliver, CheckIntsInCode, NativeSleep, SleepEnd
    <2>2. CASE InterruptedWakeUp(t) \/ TimeoutWakeUp(t) \/ SpuriousWakeUp(t)
      BY <1>1, <2>2 DEF InterruptedWakeUp, TimeoutWakeUp, SpuriousWakeUp, WakeUp
    <2>3. CASE SleepReturn(t) \/ JoinAgain(t) \/ JoinReturn(t) \/ UnwindSleep(t)
      BY <1>1, <2>3 DEF SleepReturn, JoinAgain, SleepBegin, JoinReturn, RaiseError, UnwindSleep
    <2> QED  BY <1>2, <2>1, <2>2, <2>3 DEF Proceed
  <1>3. ASSUME NEW t \in Thread, PeacefulProgram(t)
        PROVE  \A u \in Thread : pc'[u] # "lock_sleep"
    BY <1>1, <1>3 DEF PeacefulProgram, rb_thread_stop, CallRaises, RaiseError, rb_f_sleep, SleepBegin,
         Rescue, rb_thread_wakeup, thread_join, thread_join_ended, thread_create_core
  <1>4. ASSUME NEW t \in Thread, ThreadEnd(t, FALSE, {}, {}, NoThread)
        PROVE  \A u \in Thread : pc'[u] # "lock_sleep"
    BY <1>1, <1>4 DEF ThreadEnd
  <1>5. CASE TerminateAll({}) \/ TerminateLoop
    BY <1>5, ThreadsAssumption DEF TerminateAll, TerminateLoop
  <1>6. CASE UNCHANGED core  BY <1>6 DEF core
  <1> QED  BY <1>2, <1>3, <1>4, <1>5, <1>6 DEF PeacefulStep

\* While the main thread terminates the others.
LEMMA EndedStep ==
    ASSUME TInv, TInv', WInv, Ended, ~trap, PeacefulStep
    PROVE  WInv'
  <1> USE DEF TInv
  <1>0. /\ Main \in Thread /\ Main \in living /\ living \subseteq Thread
        /\ pc[Main] \in {"term", "terminated"}
        /\ \A u \in living \ {Main} : Doomed(u)
    BY ThreadsAssumption DEF Places, PlaceFits, Typed, Ended, WInv
  <1>1. \A u \in Thread : pc'[u] # "lock_sleep"  BY NoLockSleep DEF WInv
  <1> SUFFICES Ended' /\ \A u \in living' \ {Main} : Doomed(u)'
    BY <1>1 DEF WInv
  <1>2. ASSUME NEW u, KeepsDoom(u), Doomed(u) PROVE Doomed(u)'
    BY <1>2 DEF KeepsDoom, Doomed
  <1>3. ASSUME NEW t \in Thread, Proceed(t) \/ SpuriousWakeUp(t) \/ PeacefulProgram(t)
        PROVE  Ended' /\ \A u \in living' \ {Main} : Doomed(u)'
    <2>1. pc[t] \notin {"new", "dead", "term", "terminated"}
      BY <1>3 DEF Proceed, PeacefulProgram, RaiseInterrupt, CheckIntsInCode, NativeSleep,
           InterruptedWakeUp, TimeoutWakeUp, SpuriousWakeUp, WakeUp, SleepEnd, SleepReturn, JoinAgain,
           JoinReturn, UnwindSleep, rb_thread_stop, CallRaises, rb_f_sleep, Rescue, rb_thread_wakeup,
           thread_join, thread_join_ended, thread_create_core, Idle, BlockingCheck
    <2>2. t # Main /\ t \in living /\ Doomed(t)  BY <1>0, <2>1 DEF Places
    <2>3. SparesOthers(t) /\ Doomed(t)'  BY <1>3, <2>2, DoomedStep, DoomedOthers
    <2> QED  BY <1>0, <1>2, <2>2, <2>3 DEF SparesOthers, Ended
  <1>4. ASSUME NEW t \in Thread, ThreadEnd(t, FALSE, {}, {}, NoThread)
        PROVE  Ended' /\ \A u \in living' \ {Main} : Doomed(u)'
    <2> DEFINE st == status'
    <2>1. EndEffect(t) /\ t # Main
      <3>1. FALSE \in BOOLEAN  OBVIOUS
      <3>2. EndEffect(t)  BY <1>4, <3>1, ThreadEndEffect, Zenon
      <3> QED  BY <1>4, <3>2 DEF ThreadEnd
    <2>2. status'[Main] = "KILLED"
      BY <1>0, <2>1 DEF EndEffect, Ended
    <2>3. pending' = pending /\ exc' = [exc EXCEPT ![t] = "none"]
      <3>1. PICK fl : rb_check_deadlock(t, st, fl, sleeper, living \ {t}, {}, NoThread, 0)
        BY <1>4 DEF ThreadEnd
      <3>2. ~NoLiveThreadLeft(t, st, fl, sleeper, living \ {t}, {}, NoThread)
        BY <1>0, <2>1, <2>2 DEF NoLiveThreadLeft
      <3> QED  BY <1>4, <3>1, <3>2 DEF rb_check_deadlock, ThreadEnd
    <2>4. \A u \in living' \ {Main} : KeepsDoom(u) /\ Doomed(u)
      BY <1>0, <2>1, <2>3 DEF EndEffect, KeepsDoom, Typed
    <2> QED  BY <1>2, <2>2, <2>4 DEF Ended
  <1>5. ~TerminateAll({})  BY <1>0 DEF TerminateAll
  <1>6. CASE TerminateLoop
    <2>1. CASE pending[Main] # <<>>
      <3> DEFINE pq == [pending EXCEPT ![Main] = Tail(@)]
      <3>1. /\ pending' = Enque(pq, living \ {Main}, "kill")
            /\ flag' = [rb_threadptr_interrupt(flag, living \ {Main}) EXCEPT ![Main] = FALSE]
            /\ UNCHANGED <<status, living, exc, pc>>
        BY <1>6, <2>1 DEF TerminateLoop
      <3>2. \A u \in Thread \ {Main} : pq[u] = pending[u]  BY DEF Typed
      <3> HIDE DEF pq
      <3> SUFFICES ASSUME NEW u \in living \ {Main} PROVE Doomed(u)'
        BY <3>1 DEF Ended
      <3>3. flag'[u]  BY <1>0, <3>1 DEF rb_threadptr_interrupt
      <3>4. CASE pending[u] = <<>>
        BY <1>0, <3>1, <3>2, <3>3, <3>4, EnqueEmpty DEF Doomed
      <3>5. CASE pending[u] = <<"kill">>
        <4>1. \E i \in DOMAIN pq[u] : pq[u][i] = "kill"
          <5>1. 1 \in DOMAIN <<"kill">> /\ <<"kill">>[1] = "kill"  OBVIOUS
          <5> QED  BY <1>0, <3>2, <3>5, <5>1
        <4>2. pending'[u] = pq[u]  BY <1>0, <3>1, <4>1 DEF Enque
        <4> QED  BY <1>0, <3>2, <3>3, <3>5, <4>2 DEF Doomed
      <3>6. CASE pending[u] # <<>> /\ pending[u] # <<"kill">>
        <4>1. exc[u] = "kill" /\ pc[u] = "unwind"  BY <1>0, <3>6 DEF Doomed
        <4> QED  BY <3>1, <4>1 DEF Doomed
      <3> QED  BY <3>4, <3>5, <3>6
    <2>2. CASE pending[Main] = <<>>
      BY <1>0, <1>2, <1>6, <2>2 DEF TerminateLoop, KeepsDoom, Ended, Typed
    <2> QED  BY <2>1, <2>2
  <1>7. CASE UNCHANGED core
    BY <1>0, <1>7 DEF core, Ended, Doomed
  <1> QED  BY <1>3, <1>4, <1>5, <1>6, <1>7 DEF PeacefulStep

\* A step that raises nothing.
Calm ==
    /\ pending' = pending /\ ~Ended'
    /\ \A u \in Thread : pc'[u] = "unwind" =>
           frame'[u] = "none" \/ (pc[u] = "unwind" /\ frame'[u] = frame[u])

\* No step of a thread that has nothing pending raises, but by rb_check_deadlock.
LEMMA CalmSteps ==
    ASSUME TInv, TInv', ~Ended, NEW t \in Thread, pending[t] = <<>>, pc[t] # "lock_sleep",
           \/ Proceed(t) \/ SpuriousWakeUp(t) \/ PeacefulProgram(t)
           \/ ThreadEnd(t, FALSE, {}, {}, NoThread),
           pending' = pending
    PROVE  Calm
  <1> USE DEF TInv
  <1>0. Main \in Thread  BY ThreadsAssumption
  <1>1. /\ \A u \in Thread : pc'[u] = "unwind" =>
               frame'[u] = "none" \/ (pc[u] = "unwind" /\ frame'[u] = frame[u])
        /\ status'[Main] # "KILLED"
    <2>1. ~RaiseInterrupt(t)  BY DEF RaiseInterrupt, Deliver, MustRaise, Due
    <2>2. CASE CheckIntsInCode(t) \/ NativeSleep(t, {}, NoThread) \/ SleepEnd(t)
      BY <1>0, <2>2 DEF CheckIntsInCode, NativeSleep, SleepEnd, Ended, Typed
    <2>3. CASE InterruptedWakeUp(t) \/ TimeoutWakeUp(t) \/ SpuriousWakeUp(t)
      BY <1>0, <2>3 DEF InterruptedWakeUp, TimeoutWakeUp, SpuriousWakeUp, WakeUp, Ended, Typed
    <2>4. CASE SleepReturn(t) \/ JoinAgain(t) \/ JoinReturn(t) \/ UnwindSleep(t)
      BY <1>0, <2>4 DEF SleepReturn, JoinAgain, SleepBegin, SleepStatus, JoinReturn, RaiseError, UnwindSleep,
           remove_from_join_list, Ended, Typed
    <2>5. CASE PeacefulProgram(t)
      <3>0. CASE CallRaises(t)
        BY <1>0, <3>0 DEF CallRaises, RaiseError, Idle, Ended, Typed, Places, PlaceFits, At
      <3>1. CASE ~CallRaises(t) /\ (rb_thread_stop(t) \/ rb_f_sleep(t) \/ Rescue(t))
        BY <1>0, <3>1 DEF rb_thread_stop, rb_f_sleep, SleepBegin, SleepStatus, Rescue, Ended, Typed
      <3>2. CASE \E u \in Thread : rb_thread_wakeup(t, u)
        BY <1>0, <3>2 DEF rb_thread_wakeup, Ended, Typed
      <3>3. CASE \E u \in Thread : thread_join(t, u)
        BY <1>0, <3>3 DEF thread_join, SleepBegin, SleepStatus, Ended, Typed
      <3>4. CASE \E u \in Thread : thread_create_core(t, u)
        BY <1>0, <3>4 DEF thread_create_core, Ended, Typed
      <3> QED  BY <2>5, <3>0, <3>1, <3>2, <3>3, <3>4 DEF PeacefulProgram, thread_join_ended
    <2>6. CASE ThreadEnd(t, FALSE, {}, {}, NoThread)
      <3>1. FALSE \in BOOLEAN  OBVIOUS
      <3>2. EndEffect(t)  BY <2>6, <3>1, ThreadEndEffect, Zenon
      <3>3. t # Main  BY <2>6 DEF ThreadEnd
      <3> QED  BY <1>0, <3>2, <3>3 DEF EndEffect, Ended, Typed
    <2> QED  BY <2>1, <2>2, <2>3, <2>4, <2>5, <2>6 DEF Proceed
  <1> QED  BY <1>1 DEF Calm, Ended

\* What a calm step leaves as it was.
LEMMA CalmKeeps ==
    ASSUME WInv, ~Ended, ~FatalComing, Calm, \A u \in Thread : pc'[u] # "lock_sleep", EnoughWoken'
    PROVE  WInv'
  <1>0. Main \in Thread  BY ThreadsAssumption
  <1>1. \A u \in Thread \ {Main} : Undisturbed(u)'
    BY DEF WInv, Undisturbed, Calm
  <1>2. ~FatalComing'  BY <1>0 DEF FatalComing, Calm
  <1>3. ~Ended'  BY DEF Calm
  <1> QED  BY <1>1, <1>2, <1>3 DEF WInv

\* The main thread begins to terminate the others.
LEMMA TerminateAllDooms ==
    ASSUME TInv, WInv, ~Ended, TerminateAll({}), \A u \in Thread : pc'[u] # "lock_sleep"
    PROVE  WInv'
  <1>0. Main \in Thread /\ living \subseteq Thread  BY ThreadsAssumption DEF TInv, Typed
  <1>1. /\ status' = [status EXCEPT ![Main] = "KILLED"]
        /\ pending' = Enque(TakeOne(Main), living \ {Main}, "kill")
        /\ flag' = rb_threadptr_interrupt([flag EXCEPT ![Main] = FALSE], (living \ {Main}) \cup {})
        /\ living' = living
    BY DEF TerminateAll
  <1>2. Ended'  BY <1>0, <1>1 DEF Ended, TInv, Typed
  <1>3. ASSUME NEW u \in living \ {Main} PROVE Doomed(u)'
    <2>1. TakeOne(Main)[u] = <<>>  BY <1>0 DEF WInv, Undisturbed, TakeOne, TInv, Typed
    <2>2. pending'[u] = <<"kill">>  BY <1>0, <1>1, <2>1, EnqueEmpty
    <2>3. flag'[u]  BY <1>0, <1>1 DEF rb_threadptr_interrupt
    <2> QED  BY <2>2, <2>3 DEF Doomed
  <1> QED  BY <1>1, <1>2, <1>3 DEF WInv

\* Until then, and while no fatal is on its way.
LEMMA RunningStep ==
    ASSUME QInv, TInv', WInv, ~Ended, ~FatalComing, signals = 0, ~trap, PeacefulStep,
           UNCHANGED queueVars
    PROVE  WInv'
  <1>0. /\ TInv /\ Main \in Thread /\ Main \in living /\ living \subseteq Thread
        /\ \A u \in Thread : pending[u] = <<>> /\ pc[u] # "lock_sleep"
    BY ThreadsAssumption DEF QInv, TInv, Typed, Places, WInv, Undisturbed, FatalComing
  <1>1. \A u \in Thread : pc'[u] # "lock_sleep"  BY <1>0, NoLockSleep
  <1>2. EnoughWoken'  BY DEF WInv, EnoughWoken, queueVars
  <1>3. ASSUME NEW t \in Thread,
               \/ Proceed(t) \/ SpuriousWakeUp(t) \/ PeacefulProgram(t)
               \/ ThreadEnd(t, FALSE, {}, {}, NoThread),
               pending' = pending
        PROVE  WInv'
    BY <1>0, <1>1, <1>2, <1>3, CalmSteps, CalmKeeps
  <1>4. ASSUME NEW t \in Thread, NativeSleep(t, {}, NoThread), pending' # pending
        PROVE  WInv'
    <2> DEFINE fl == [flag EXCEPT ![t] = FALSE]
    <2>1. /\ frame[t] \in Deadlockable
          /\ rb_check_deadlock(t, status, fl, sleeper + 1, living, {}, NoThread, 0)
      BY <1>4 DEF NativeSleep
    <2>2. NoLiveThreadLeft(t, status, fl, sleeper + 1, living, {}, NoThread)
      BY <1>4, <2>1 DEF rb_check_deadlock
    <2>3. Deadlocked  BY <1>4, <2>1, <2>2, NativeSleepFatal
    <2>4. \A u \in Thread \ living' : pc'[u] \notin {"lock_sleep", "unwind"}
      BY DEF TInv, Places
    <2> QED  BY <2>3, <2>4, DeadlockedWindow
  <1>5. ASSUME NEW t \in Thread, ThreadEnd(t, FALSE, {}, {}, NoThread), pending' # pending
        PROVE  WInv'
    <2>1. Deadlocked  BY <1>5, ThreadEndFatal
    <2>2. \A u \in Thread \ living' : pc'[u] \notin {"lock_sleep", "unwind"}
      BY DEF TInv, Places
    <2> QED  BY <2>1, <2>2, DeadlockedWindow
  <1>6. ASSUME NEW t \in Thread, Proceed(t) \/ SpuriousWakeUp(t) \/ PeacefulProgram(t),
               ~NativeSleep(t, {}, NoThread)
        PROVE  pending' = pending
    <2>1. ~RaiseInterrupt(t)  BY <1>0 DEF RaiseInterrupt, Deliver, MustRaise, Due
    <2>2. CASE PeacefulProgram(t)
      BY <2>2 DEF PeacefulProgram, rb_thread_stop, CallRaises, rb_f_sleep, Rescue, rb_thread_wakeup,
           thread_join, thread_join_ended, thread_create_core
    <2>3. CASE Proceed(t) \/ SpuriousWakeUp(t)
      BY <1>6, <2>1, <2>3 DEF Proceed, CheckIntsInCode, SleepEnd, InterruptedWakeUp, TimeoutWakeUp,
           SpuriousWakeUp, WakeUp, SleepReturn, JoinAgain, JoinReturn, UnwindSleep
    <2> QED  BY <1>6, <2>2, <2>3
  <1>7. CASE TerminateAll({})  BY <1>0, <1>1, <1>7, TerminateAllDooms
  <1>8. ~TerminateLoop
    BY <1>0 DEF TerminateLoop, TInv, Places, PlaceFits, Ended
  <1>9. CASE UNCHANGED core
    <2>1. Calm  BY <1>9 DEF core, Calm, Ended
    <2> QED  BY <1>1, <1>2, <2>1, CalmKeeps
  <1> QED  BY <1>3, <1>4, <1>5, <1>6, <1>7, <1>8, <1>9 DEF PeacefulStep

\* A step of t leaves the others where they are.
OthersStay(t) ==
    /\ living' = living /\ (t # Main => pending' = pending /\ (flag[Main] => flag'[Main]))
    /\ \A u \in Thread \ {t} : /\ pc'[u] = pc[u] /\ frame'[u] = frame[u] /\ status'[u] = status[u]
                               /\ target'[u] = target[u] /\ (u # Main => pending'[u] = pending[u])

\* One that waits goes round in its loop, while fatal is on its way.
LEMMA WaiterKeeps ==
    ASSUME TInv, WInv, ~Ended, FatalComing, NEW t \in Thread \ {Main}, OthersStay(t), WaitsOn(t)',
           UNCHANGED <<length, max, closed>>, EnoughWoken',
           frame[Main] = "pop" /\ Main \in ToSet(waitq) => Main \in ToSet(waitq'),
           frame[Main] = "push" /\ Main \in ToSet(pushq) => Main \in ToSet(pushq')
    PROVE  WInv'
  <1>0. Main \in Thread /\ Main # t /\ living \subseteq Thread
    BY ThreadsAssumption DEF TInv, Typed
  <1>1. FatalWindow /\ \A u \in Thread \ {Main} : Undisturbed(u)  BY DEF WInv
  <1>2. ~Ended'  BY <1>0 DEF OthersStay, Ended
  <1>3. \A u \in living' \ {Main} : WaitsOn(u)'
    <2> SUFFICES ASSUME NEW u \in living \ {Main}, u # t PROVE WaitsOn(u)'
      BY DEF OthersStay
    <2>1. WaitsOn(u)  BY <1>1 DEF FatalWindow
    <2> QED  BY <1>0, <2>1 DEF WaitsOn, OthersStay
  <1>4. FatalWindow'
    <2>1. /\ pc'[Main] = pc[Main] /\ frame'[Main] = frame[Main] /\ pending' = pending
          /\ (flag[Main] => flag'[Main])
      BY <1>0 DEF OthersStay
    <2> QED  BY <1>1, <1>3, <2>1 DEF FatalWindow
  <1>5. \A u \in Thread \ {Main} : Undisturbed(u)'
    BY <1>0, <1>1 DEF Undisturbed, OthersStay, WaitsOn
  <1>6. \A u \in Thread : pc'[u] # "lock_sleep"
    BY <1>0 DEF WInv, OthersStay, WaitsOn
  <1> QED  BY <1>2, <1>4, <1>5, <1>6 DEF WInv

\* The main thread wakes up for it, raises it, or has left its call with it.
LEMMA MainKeeps ==
    ASSUME TInv, WInv, ~Ended, FatalComing, OthersStay(Main), EnoughWoken',
           UNCHANGED <<length, max, closed>>, status'[Main] # "KILLED",
           \/ /\ frame'[Main] = frame[Main] /\ UNCHANGED <<waitq, pushq>>
              /\ \/ pc'[Main] \in {"asleep", "woken"} /\ flag'[Main] /\ Len(pending'[Main]) = 1
                 \/ pc'[Main] = "unwind" /\ pending'[Main] = <<>>
           \/ frame'[Main] = "none" /\ pc'[Main] = "unwind" /\ pending'[Main] = <<>>
    PROVE  WInv'
  <1>0. Main \in Thread /\ living \subseteq Thread
    BY ThreadsAssumption DEF TInv, Typed
  <1>1. FatalWindow /\ \A u \in Thread \ {Main} : Undisturbed(u)  BY DEF WInv
  <1>2. ~Ended'  BY DEF Ended
  <1>3. \A u \in living' \ {Main} : WaitsOn(u)'
    <2> SUFFICES ASSUME NEW u \in living \ {Main} PROVE WaitsOn(u)'
      BY DEF OthersStay
    <2>1. WaitsOn(u)  BY <1>1 DEF FatalWindow
    <2> QED  BY <1>0, <2>1 DEF WaitsOn, OthersStay
  <1>4. \A u \in Thread \ {Main} : Undisturbed(u)'
    BY <1>0, <1>1 DEF Undisturbed, OthersStay
  <1>5. \A u \in Thread : pc'[u] # "lock_sleep"
    BY <1>0 DEF WInv, OthersStay
  <1>6. FatalComing' => FatalWindow'
    <2>1. CASE frame'[Main] = "none" /\ pc'[Main] = "unwind" /\ pending'[Main] = <<>>
      BY <2>1 DEF FatalComing
    <2>2. CASE /\ frame'[Main] = frame[Main] /\ UNCHANGED <<waitq, pushq>>
               /\ \/ pc'[Main] \in {"asleep", "woken"} /\ flag'[Main] /\ Len(pending'[Main]) = 1
                  \/ pc'[Main] = "unwind" /\ pending'[Main] = <<>>
      BY <1>1, <1>3, <2>2 DEF FatalWindow
    <2> QED  BY <2>1, <2>2
  <1> QED  BY <1>2, <1>4, <1>5, <1>6 DEF WInv

\* The steps while fatal is on its way.
LEMMA WindowStep ==
    ASSUME QInv, TInv', WInv, ~Ended, FatalComing, signals = 0, ~trap, pc[Main] # "trap",
           PeacefulStep, UNCHANGED queueVars
    PROVE  WInv'
  <1>0. /\ TInv /\ Main \in Thread /\ Main \in living /\ living \subseteq Thread
        /\ FatalWindow /\ \A u \in Thread \ {Main} : Undisturbed(u)
    BY ThreadsAssumption DEF QInv, TInv, Typed, Places, WInv
  <1>1. EnoughWoken' /\ UNCHANGED <<length, max, closed, waitq, pushq>>
    BY DEF WInv, EnoughWoken, queueVars
  <1>2. /\ pc[Main] \in {"asleep", "woken", "unwind"} /\ frame[Main] \in Deadlockable
        /\ pc[Main] # "unwind" => flag[Main] /\ Len(pending[Main]) = 1 /\ pending[Main] # <<>>
        /\ pc[Main] = "unwind" => pending[Main] = <<>>
        /\ frame[Main] # "none"
    <2>1. Len(<<>>) # 1  OBVIOUS
    <2> QED  BY <1>0, <2>1 DEF FatalWindow, Deadlockable
  <1>3. \A u \in living \ {Main} : /\ WaitsOn(u) /\ pending[u] = <<>>
                                   /\ pc[u] \in {"check", "asleep", "woken", "back"}
    BY <1>0 DEF FatalWindow, Undisturbed, WaitsOn
  <1>4. \A u \in Thread : pc[u] \in {"new", "dead", "check", "asleep", "woken", "back"} \/ u = Main
    BY <1>0, <1>3 DEF TInv, Places
  <1>5. ASSUME NEW t \in Thread
        PROVE  ~CheckIntsInCode(t) /\ ~PeacefulProgram(t) /\ ~ThreadEnd(t, FALSE, {}, {}, NoThread)
    <2>1. ~Idle(t) /\ ~CheckIntsInCode(t)  BY <1>2, <1>4 DEF Idle, CheckIntsInCode
    <2>2. ~Rescue(t)  BY <1>2, <1>4 DEF Rescue
    <2>3. ~ThreadEnd(t, FALSE, {}, {}, NoThread)  BY <1>2, <1>4 DEF ThreadEnd
    <2> QED  BY <2>1, <2>2, <2>3 DEF PeacefulProgram, rb_thread_stop, CallRaises, rb_f_sleep,
                  rb_thread_wakeup, thread_join, thread_join_ended, thread_create_core
  <1>6. ~TerminateAll({}) /\ ~TerminateLoop  BY <1>2 DEF TerminateAll, TerminateLoop
  <1>7. ASSUME NEW t \in Thread, OthersStay(t), t # Main, WaitsOn(t)' PROVE WInv'
    BY <1>0, <1>1, <1>7, WaiterKeeps
  <1>8. ASSUME NEW t \in Thread, RaiseInterrupt(t) PROVE WInv'
    <2>1. t = Main /\ pc[Main] = "woken"
      BY <1>2, <1>3, <1>4, <1>8 DEF RaiseInterrupt, BlockingCheck, Deliver, MustRaise, Due, TInv, Places
    <2> DEFINE tail == Tail(pending[Main])
    <2>2. tail = <<>>
      <3>1. pending[Main] \in Seq({"raise", "kill", "fatal"}) /\ Len(pending[Main]) = 1
        BY <1>0, <1>2, <2>1 DEF TInv, Typed
      <3>2. pending[Main] # <<>>  BY <1>2, <2>1
      <3>3. tail \in Seq({"raise", "kill", "fatal"}) /\ Len(tail) = Len(pending[Main]) - 1
        BY <3>1, <3>2, HeadTailProperties
      <3> HIDE DEF tail
      <3>4. Len(tail) = 0  BY <3>1, <3>3
      <3> QED  BY <3>3, <3>4, EmptyByLength
    <2>3. /\ pending' = [pending EXCEPT ![Main] = IF Head(pending[Main]) = "kill" THEN <<>> ELSE tail]
          /\ pc' = [pc EXCEPT ![Main] = "unwind"] /\ UNCHANGED <<frame, living, target>>
          /\ \A u \in Thread \ {Main} : status'[u] = status[u]
      BY <1>0, <1>8, <2>1 DEF RaiseInterrupt, Deliver, TInv, Typed
    <2> HIDE DEF tail
    <2>4. pending'[Main] = <<>> /\ pc'[Main] = "unwind" /\ frame'[Main] = frame[Main]
      BY <1>0, <2>2, <2>3 DEF TInv, Typed
    <2>5. OthersStay(Main)  BY <1>0, <2>3 DEF OthersStay, TInv, Typed
    <2>6. status'[Main] # "KILLED"  BY <1>0, <2>4 DEF TInv, Places, PlaceFits
    <2> QED  BY <1>0, <1>1, <2>4, <2>5, <2>6, MainKeeps
  <1>9. ASSUME NEW t \in Thread, InterruptedWakeUp(t) \/ TimeoutWakeUp(t) \/ SpuriousWakeUp(t)
        PROVE  WInv'
    <2>1. /\ pc[t] = "asleep" /\ pc' = [pc EXCEPT ![t] = "woken"]
          /\ UNCHANGED <<frame, status, flag, pending, living, target>>
      BY <1>9 DEF InterruptedWakeUp, TimeoutWakeUp, SpuriousWakeUp, WakeUp
    <2>2. OthersStay(t) /\ pc'[t] = "woken"  BY <1>0, <2>1 DEF OthersStay, TInv, Typed
    <2>3. CASE t = Main
      <3>1. status'[Main] # "KILLED"  BY <2>1 DEF Ended
      <3> QED  BY <1>0, <1>1, <1>2, <2>1, <2>2, <2>3, <3>1, MainKeeps
    <2>4. CASE t # Main
      <3>1. WaitsOn(t)  BY <1>0, <1>3, <2>1, <2>4 DEF TInv, Places
      <3>2. WaitsOn(t)'  BY <1>1, <2>1, <2>2, <3>1 DEF WaitsOn
      <3> QED  BY <1>7, <2>2, <2>4, <3>2
    <2> QED  BY <2>3, <2>4
  <1>10. ASSUME NEW t \in Thread, NativeSleep(t, {}, NoThread) PROVE WInv'
    <2> DEFINE fl == [flag EXCEPT ![t] = FALSE]
    <2>1. /\ pc[t] \in {"check", "woken"} /\ MayPass(t) /\ pc' = [pc EXCEPT ![t] = "asleep"]
          /\ IF frame[t] \in Deadlockable
             THEN rb_check_deadlock(t, status, fl, sleeper + 1, living, {}, NoThread, 0)
             ELSE flag' = fl /\ UNCHANGED <<pending, sleeper, fatal>>
          /\ UNCHANGED <<frame, status, living, target>>
      BY <1>10 DEF NativeSleep
    <2>2. t # Main /\ t \in living
      BY <1>0, <1>2, <2>1 DEF MayPass, Due, BlockingCheck, TInv, Places
    <2>3. WaitsOn(t)  BY <1>3, <2>2
    <2>4. ~NoLiveThreadLeft(t, status, fl, sleeper + 1, living, {}, NoThread)
      BY <1>10, <2>3, NativeSleepFatal DEF WaitsOn
    <2>5. pending' = pending /\ flag' = fl
      BY <2>1, <2>4 DEF rb_check_deadlock
    <2>6. OthersStay(t) /\ pc'[t] = "asleep"
      BY <1>0, <2>1, <2>2, <2>5 DEF OthersStay, TInv, Typed
    <2>7. WaitsOn(t)'  BY <1>1, <2>1, <2>3, <2>6 DEF WaitsOn
    <2> QED  BY <1>7, <2>2, <2>6, <2>7
  <1>11. ASSUME NEW t \in Thread, SleepEnd(t) PROVE WInv'
    <2>1. /\ pc[t] \in {"check", "woken"} /\ MayPass(t) /\ pc' = [pc EXCEPT ![t] = "back"]
          /\ \/ status[t] # SleepStatus(frame[t])
             \/ pc[t] = "woken" /\ frame[t] \notin SpuriousCheck \ Timed
          /\ flag' = [flag EXCEPT ![t] = FALSE] /\ status' = [status EXCEPT ![t] = "RUNNABLE"]
          /\ UNCHANGED <<frame, pending, living, target>>
      BY <1>11 DEF SleepEnd
    <2>2. t # Main /\ t \in living
      BY <1>0, <1>2, <2>1 DEF MayPass, Due, BlockingCheck, TInv, Places
    <2>3. WaitsOn(t)  BY <1>3, <2>2
    <2>4. frame[t] # "stop"
      BY <2>1, <2>3 DEF WaitsOn, SleepStatus, Deadlockable, SpuriousCheck, Timed
    <2>5. OthersStay(t) /\ pc'[t] = "back"
      BY <1>0, <2>1, <2>2 DEF OthersStay, TInv, Typed
    <2>6. WaitsOn(t)'  BY <1>1, <2>1, <2>3, <2>4, <2>5 DEF WaitsOn
    <2> QED  BY <1>7, <2>2, <2>5, <2>6
  <1>12. ASSUME NEW t \in Thread, SleepReturn(t) \/ JoinReturn(t) PROVE FALSE
    <2>1. pc[t] = "back" /\ t # Main /\ t \in living
      BY <1>0, <1>2, <1>12 DEF SleepReturn, JoinReturn, TInv, Places
    <2>2. WaitsOn(t)  BY <1>3, <2>1
    <2>3. frame[t] = "join" => status[target[t]] # "KILLED"
      BY <1>0, <2>2 DEF WaitsOn, TInv, Places, PlaceFits, Ended
    <2> QED  BY <1>12, <2>1, <2>2, <2>3 DEF SleepReturn, JoinReturn, WaitsOn, Deadlockable
  <1>13. ASSUME NEW t \in Thread, JoinAgain(t) PROVE WInv'
    <2>1. /\ pc[t] = "back" /\ frame[t] \in {"join", "timed_join"}
          /\ pc' = [pc EXCEPT ![t] = "check"] /\ frame' = [frame EXCEPT ![t] = frame[t]]
          /\ \A u \in Thread \ {t} : status'[u] = status[u]
          /\ UNCHANGED <<flag, pending, living, target>>
      BY <1>0, <1>13 DEF JoinAgain, SleepBegin, TInv, Typed
    <2>2. t # Main /\ t \in living  BY <1>0, <1>2, <2>1 DEF TInv, Places
    <2>3. WaitsOn(t)  BY <1>3, <2>2
    <2>4. OthersStay(t) /\ pc'[t] = "check" /\ frame'[t] = frame[t]
      BY <1>0, <2>1, <2>2 DEF OthersStay, TInv, Typed
    <2>5. WaitsOn(t)'  BY <1>1, <2>1, <2>3, <2>4 DEF WaitsOn
    <2> QED  BY <1>7, <2>2, <2>4, <2>5
  <1>14. ASSUME NEW t \in Thread, UnwindSleep(t) PROVE WInv'
    <2>1. t = Main /\ pc[Main] = "unwind"  BY <1>4, <1>14 DEF UnwindSleep
    <2>2. /\ frame' = [frame EXCEPT ![Main] = "none"] /\ UNCHANGED <<pc, status, flag, pending, living>>
          /\ \A u \in Thread \ {Main} : target'[u] = target[u]
      BY <1>0, <1>14, <2>1 DEF UnwindSleep, remove_from_join_list, TInv, Typed
    <2>3. OthersStay(Main) /\ frame'[Main] = "none"
      BY <1>0, <2>2 DEF OthersStay, TInv, Typed
    <2> QED  BY <1>0, <1>1, <1>2, <2>1, <2>2, <2>3, MainKeeps DEF Ended
  <1>15. CASE UNCHANGED core
    BY <1>0, <1>1, <1>15 DEF core, WInv, Ended, FatalComing, FatalWindow, WaitsOn, Undisturbed
  <1> QED
    BY <1>5, <1>6, <1>8, <1>9, <1>10, <1>11, <1>12, <1>13, <1>14, <1>15 DEF PeacefulStep, Proceed

-----------------------------------------------------------------------------
(* The operations on the queue wake as many as they make room or work for. *)

\* The numbers of a queue.
Numbers ==
    /\ length \in Nat /\ max \in Nat /\ num_waiting \in Nat /\ num_waiting_push \in Nat
    /\ Len(waitq) \in Nat /\ Len(pushq) \in Nat
    /\ waitq = <<>> <=> Len(waitq) = 0
    /\ pushq = <<>> <=> Len(pushq) = 0
    /\ num_waiting - Len(waitq) >= 0 /\ num_waiting_push - Len(pushq) >= 0

\* They are natural numbers, and the counters are not less than the queues.
LEMMA QueueNumbers == QInv => Numbers
  <1> SUFFICES ASSUME QInv PROVE Numbers
    OBVIOUS
  <1>1. /\ length \in Nat /\ max \in Nat /\ waitq \in Seq(Thread) /\ pushq \in Seq(Thread)
    BY QueuesAssumption DEF QInv, QueueTyped
  <1>2. /\ waitq = <<>> <=> Len(waitq) = 0
        /\ pushq = <<>> <=> Len(pushq) = 0
    BY <1>1, EmptyByLength
  <1>3. /\ Cardinality(In("pop") \ ToSet(waitq)) \in Nat
        /\ Cardinality(In("push") \ ToSet(pushq)) \in Nat
    BY OffCount, FS_Difference, FS_CardinalityType
  <1>4. num_waiting - Len(waitq) \in Nat /\ num_waiting_push - Len(pushq) \in Nat
    BY <1>3, OffCount
  <1> QED  BY <1>1, <1>2, <1>4, OffCount DEF Numbers

\* wakeup_one takes one thread off, as nobody on the queue has ended.
LEMMA WakeupOneLength ==
    ASSUME NEW q \in Seq(Thread), \A u \in ToSet(q) : status[u] # "KILLED"
    PROVE  Len(AfterWakeupOne(q)) = IF Len(q) = 0 THEN 0 ELSE Len(q) - 1
  <1>1. Len(q) \in Nat /\ DOMAIN q = 1..Len(q) /\ \A i \in 1..Len(q) : q[i] \in ToSet(q) /\ q[i] \in Thread
    BY ToSetElements, ElementOfSeq
  <1>2. LivingWaiters(q) = 1..Len(q)  BY <1>1 DEF LivingWaiters
  <1>3. CASE Len(q) = 0
    <2>1. AfterWakeupOne(q) = <<>>  BY <1>2, <1>3 DEF AfterWakeupOne
    <2> QED  BY <1>3, <2>1
  <1>4. CASE Len(q) # 0
    <2> DEFINE I == 1..Len(q)
    <2>1. I # {} /\ I \subseteq Nat /\ 1 \in I  BY <1>1, <1>4
    <2>2. Min(I) = 1
      <3>1. Min(I) \in I /\ \A y \in I : Min(I) <= y
        <4> HIDE DEF I
        <4> QED  BY <2>1, MinProperties
      <3> QED  BY <2>1, <3>1
    <2> DEFINE r == SubSeq(q, 2, Len(q))
    <2>3. AfterWakeupOne(q) = r  BY <1>2, <2>1, <2>2 DEF AfterWakeupOne
    <2>4. Len(r) = IF 2 <= Len(q) THEN Len(q) - 2 + 1 ELSE 0
      <3>1. \A i \in 2..Len(q) : q[i] \in Thread  BY <1>1
      <3> QED  BY <1>1, <3>1, SubSeqProperties
    <2> HIDE DEF r
    <2>5. (IF 2 <= Len(q) THEN Len(q) - 2 + 1 ELSE 0) = Len(q) - 1  BY <1>1, <1>4
    <2> QED  BY <1>4, <2>3, <2>4, <2>5
  <1> QED  BY <1>3, <1>4

\* A thread that comes back and finds itself off the queue was one of those woken.
LEMMA OffLength ==
    ASSUME QInv, NEW t \in Thread
    PROVE  /\ Len(Without(waitq, t)) = IF t \in ToSet(waitq) THEN Len(waitq) - 1 ELSE Len(waitq)
           /\ Len(Without(pushq, t)) = IF t \in ToSet(pushq) THEN Len(pushq) - 1 ELSE Len(pushq)
           /\ t \in ToSet(waitq) => Len(waitq) # 0
           /\ t \in ToSet(pushq) => Len(pushq) # 0
  <1>1. waitq \in Seq(Thread) /\ pushq \in Seq(Thread)  BY DEF QInv, QueueTyped
  <1>2. /\ t \in ToSet(waitq) => waitq # <<>>
        /\ t \in ToSet(pushq) => pushq # <<>>
    BY EmptyElements
  <1> QED  BY <1>1, <1>2, RemoveFirstLength, EmptyByLength DEF Without

\* wq and n are what is left of a queue and its counter in the loop.
Came(q, wq, n, m) ==
    /\ Len(wq) \in Nat /\ m \in Int
    /\ Len(q) = 0 => Len(wq) = 0
    /\ m - Len(wq) >= n - Len(q) - 1

\* That is so at a call, and after the ensure clause.
LEMMA CameBack ==
    ASSUME QInv, NEW t \in Thread
    PROVE  /\ Came(waitq, waitq, num_waiting, num_waiting)
           /\ Came(waitq, Without(waitq, t), num_waiting, num_waiting - 1)
           /\ Came(pushq, pushq, num_waiting_push, num_waiting_push)
           /\ Came(pushq, Without(pushq, t), num_waiting_push, num_waiting_push - 1)
  <1>1. /\ Len(waitq) \in Nat /\ Len(pushq) \in Nat /\ num_waiting \in Nat /\ num_waiting_push \in Nat
    BY QueueNumbers DEF Numbers
  <1> DEFINE w == Len(Without(waitq, t))
             p == Len(Without(pushq, t))
  <1>2. /\ w \in Nat /\ (w = Len(waitq) \/ w = Len(waitq) - 1) /\ (Len(waitq) = 0 => w = 0)
        /\ p \in Nat /\ (p = Len(pushq) \/ p = Len(pushq) - 1) /\ (Len(pushq) = 0 => p = 0)
    BY <1>1, OffLength
  <1> HIDE DEF w, p
  <1>3. /\ num_waiting - 1 - w >= num_waiting - Len(waitq) - 1
        /\ num_waiting_push - 1 - p >= num_waiting_push - Len(pushq) - 1
    BY <1>1, <1>2
  <1> QED  BY <1>1, <1>2, <1>3 DEF Came, w, p

\* Of woken threads there are enough, in numbers.
Enough(w, n, k) == n - w >= k \/ w = 0

EnoughInNumbers ==
    /\ Enough(Len(waitq), num_waiting, length)
    /\ sized => Enough(Len(pushq), num_waiting_push, max - length)

\* That is the same.
LEMMA EnoughEither == QInv => (EnoughWoken <=> EnoughInNumbers)
  <1> SUFFICES ASSUME QInv PROVE EnoughWoken <=> EnoughInNumbers
    OBVIOUS
  <1>1. Numbers  BY QueueNumbers
  <1> QED  BY <1>1 DEF Numbers, EnoughWoken, EnoughInNumbers, Enough

\* One was woken for one more.
LEMMA EnoughOneMore ==
    ASSUME NEW w \in Nat, NEW n \in Nat, NEW k \in Int, Enough(w, n, k)
    PROVE  Enough(IF w = 0 THEN 0 ELSE w - 1, n, k + 1)
  <1>1. CASE w = 0  BY <1>1 DEF Enough
  <1>2. CASE w # 0
    <2>1. n - (w - 1) >= k + 1  BY <1>2 DEF Enough
    <2> QED  BY <1>2, <2>1 DEF Enough
  <1> QED  BY <1>1, <1>2

\* One came for one.
LEMMA EnoughOneCame ==
    ASSUME NEW q, NEW wq, NEW n \in Nat, NEW m, NEW k \in Int, Came(q, wq, n, m), Len(q) \in Nat,
           Enough(Len(q), n, k)
    PROVE  Enough(Len(wq), m, k - 1)
  <1>1. CASE Len(q) = 0  BY <1>1 DEF Enough, Came
  <1>2. CASE Len(q) # 0
    <2> DEFINE a == Len(q)
               b == Len(wq)
    <2>1. a \in Nat /\ b \in Nat /\ m \in Int /\ m - b >= n - a - 1 /\ n - a >= k
      BY <1>2 DEF Enough, Came
    <2> HIDE DEF a, b
    <2>2. m - b >= k - 1  BY <2>1
    <2> QED  BY <2>2 DEF Enough, b
  <1> QED  BY <1>1, <1>2

\* Nothing to wait for.
LEMMA EnoughForNone ==
    ASSUME NEW w \in Nat, NEW n \in Nat, NEW k \in Int, n - w >= 0, k <= 0
    PROVE  Enough(w, n, k)
  BY DEF Enough

\* No space to wait for.
LEMMA NoSpaceEnough ==
    ASSUME NEW w \in Nat, NEW n \in Nat, NEW a \in Nat, NEW b \in Nat, n - w >= 0, b >= a
    PROVE  Enough(w, n, a - b)
  BY DEF Enough

\* A closed queue is empty.
LEMMA ClosedEnough == QInv /\ closed => EnoughWoken
  BY DEF QInv, EnoughWoken

\* A pop.
LEMMA PopEnough ==
    ASSUME QInv, QInv', EnoughWoken, NEW t \in Thread, NEW wq, NEW n,
           Came(waitq, wq, num_waiting, n), queue_do_pop(t, wq, n)
    PROVE  EnoughWoken'
  <1>1. Numbers /\ EnoughInNumbers  BY QueueNumbers, EnoughEither
  <1>2. Numbers'  BY QueueNumbers, PTL
  <1>3. (EnoughWoken <=> EnoughInNumbers)'  BY EnoughEither, PTL
  <1>4. UNCHANGED <<max, num_waiting_push, sized, closed>>
    BY DEF queue_do_pop, restOfCore
  <1>5. CASE closed
    <2>1. closed'  BY <1>4, <1>5
    <2> QED  BY <2>1, ClosedEnough, PTL
  <1>6. CASE ~closed /\ length = 0
    <2>1. length' = 0 /\ pushq' = pushq  BY <1>6 DEF queue_do_pop
    <2>2. Enough(Len(waitq)', num_waiting', length')
      BY <1>2, <2>1, EnoughForNone DEF Numbers
    <2>3. EnoughInNumbers'  BY <1>1, <1>4, <1>6, <2>1, <2>2 DEF EnoughInNumbers
    <2> QED  BY <1>3, <2>3
  <1>7. CASE ~closed /\ length # 0
    <2>1. /\ length' = length - 1 /\ waitq' = wq /\ num_waiting' = n
          /\ IF sized /\ length' < max THEN pushq' = AfterWakeupOne(pushq) ELSE pushq' = pushq
      BY <1>7 DEF queue_do_pop
    <2>2. Enough(Len(waitq)', num_waiting', length')
      BY <1>1, <2>1, EnoughOneCame DEF Numbers, EnoughInNumbers
    <2>3. ASSUME sized PROVE Enough(Len(pushq)', num_waiting_push', max' - length')
      <3>1. CASE length' >= max
        <4>1. max \in Nat /\ length' \in Nat  BY <1>1, <1>2 DEF Numbers
        <4>2. Enough(Len(pushq)', num_waiting_push', max - length')
          BY <1>2, <3>1, <4>1, NoSpaceEnough DEF Numbers
        <4> QED  BY <1>4, <4>2
      <3>2. CASE length' < max
        <4>1. pushq' = AfterWakeupOne(pushq)  BY <2>1, <2>3, <3>2
        <4>2. Len(pushq') = IF Len(pushq) = 0 THEN 0 ELSE Len(pushq) - 1
          BY <4>1, WakeupOneLength, QueuedAlive DEF QInv, QueueTyped
        <4>3. max - length \in Int /\ max' - length' = (max - length) + 1
          BY <1>1, <1>4, <2>1 DEF Numbers
        <4>4. Enough(IF Len(pushq) = 0 THEN 0 ELSE Len(pushq) - 1, num_waiting_push,
                     (max - length) + 1)
          BY <1>1, <2>3, <4>3, EnoughOneMore DEF Numbers, EnoughInNumbers
        <4> QED  BY <1>4, <4>2, <4>3, <4>4
      <3> QED  BY <1>1, <1>2, <3>1, <3>2 DEF Numbers
    <2>4. EnoughInNumbers'  BY <1>4, <2>2, <2>3 DEF EnoughInNumbers
    <2> QED  BY <1>3, <2>4
  <1> QED  BY <1>5, <1>6, <1>7

\* A push.
LEMMA PushEnough ==
    ASSUME QInv, QInv', EnoughWoken, NEW t \in Thread, NEW pq, NEW n,
           Came(pushq, pq, num_waiting_push, n), rb_szqueue_push(t, pq, n)
    PROVE  EnoughWoken'
  <1>1. Numbers /\ EnoughInNumbers  BY QueueNumbers, EnoughEither
  <1>2. Numbers'  BY QueueNumbers, PTL
  <1>3. (EnoughWoken <=> EnoughInNumbers)'  BY EnoughEither, PTL
  <1>4. UNCHANGED <<max, num_waiting, sized, closed>>
    BY DEF rb_szqueue_push, restOfCore
  <1>5. CASE closed
    <2>1. closed'  BY <1>4, <1>5
    <2> QED  BY <2>1, ClosedEnough, PTL
  <1>6. CASE ~closed /\ sized /\ length >= max
    <2>1. length' = length /\ waitq' = waitq  BY <1>6 DEF rb_szqueue_push
    <2>2. max' - length' \in Int /\ max' - length' <= 0
      <3>1. max \in Nat /\ length \in Nat /\ max' = max /\ length' = length /\ length >= max
        BY <1>1, <1>4, <1>6, <2>1 DEF Numbers
      <3> QED  BY <3>1
    <2>3. Enough(Len(pushq)', num_waiting_push', max' - length')
      BY <1>2, <2>2, EnoughForNone DEF Numbers
    <2>4. EnoughInNumbers'  BY <1>1, <1>4, <2>1, <2>3 DEF EnoughInNumbers
    <2> QED  BY <1>3, <2>4
  <1>7. CASE ~closed /\ ~(sized /\ length >= max)
    <2>1. /\ length' = length + 1 /\ pushq' = pq /\ num_waiting_push' = n
          /\ waitq' = AfterWakeupOne(waitq)
      BY <1>7 DEF rb_szqueue_push
    <2>2. Len(waitq') = IF Len(waitq) = 0 THEN 0 ELSE Len(waitq) - 1
      BY <2>1, WakeupOneLength, QueuedAlive DEF QInv, QueueTyped
    <2>3. Enough(IF Len(waitq) = 0 THEN 0 ELSE Len(waitq) - 1, num_waiting, length + 1)
      BY <1>1, EnoughOneMore DEF Numbers, EnoughInNumbers
    <2>4. max - length \in Int /\ max' - length' = (max - length) - 1
      BY <1>1, <1>4, <2>1 DEF Numbers
    <2>5. sized => Enough(Len(pq), n, (max - length) - 1)
      BY <1>1, <2>4, EnoughOneCame DEF Numbers, EnoughInNumbers
    <2>6. EnoughInNumbers'  BY <1>4, <2>1, <2>2, <2>3, <2>4, <2>5 DEF EnoughInNumbers
    <2> QED  BY <1>3, <2>6
  <1> QED  BY <1>5, <1>6, <1>7

\* close, clear, max= and the calls that do not block.
LEMMA OthersEnough ==
    ASSUME QInv, QInv', EnoughWoken, NEW t \in Thread,
           \/ rb_queue_close(t) \/ rb_queue_clear(t) \/ PopNonBlock(t) \/ PushNonBlock(t)
    PROVE  EnoughWoken'
  <1>1. CASE rb_queue_close(t)  BY <1>1 DEF rb_queue_close, EnoughWoken
  <1>2. CASE rb_queue_clear(t)
    <2>1. Numbers'  BY QueueNumbers, PTL
    <2>2. /\ length' = 0 /\ waitq' = waitq /\ (sized => pushq' = <<>>)
          /\ UNCHANGED <<max, num_waiting, sized>>
      BY <1>2 DEF rb_queue_clear, restOfCore
    <2>3. num_waiting' - Len(waitq') >= length'  BY <2>1, <2>2 DEF Numbers
    <2> QED  BY <2>2, <2>3 DEF EnoughWoken
  <1>3. CASE PopNonBlock(t) \/ PushNonBlock(t)
    BY <1>3 DEF PopNonBlock, PushNonBlock, EnoughWoken, queueVars
  <1> QED  BY <1>1, <1>2, <1>3

\* max= wakes a thread for every slot that is new.
LEMMA MaxSetEnough ==
    ASSUME QInv, QInv', EnoughWoken, NEW t \in Thread, NEW vmax \in 1..MaxLength,
           rb_szqueue_max_set(t, vmax)
    PROVE  EnoughWoken'
  <1>1. Numbers /\ EnoughInNumbers  BY QueueNumbers, EnoughEither
  <1>2. Numbers'  BY QueueNumbers, PTL
  <1>3. (EnoughWoken <=> EnoughInNumbers)'  BY EnoughEither, PTL
  <1> DEFINE p == Len(pushq)
             m == Min({vmax - max, p})
             diff == Max({0, m})
             rest == SubSeq(pushq, diff + 1, p)
  <1>4. /\ sized /\ max' = vmax /\ pushq' = rest
        /\ UNCHANGED <<length, waitq, num_waiting, num_waiting_push, sized>>
    BY DEF rb_szqueue_max_set, restOfCore
  <1>5. p \in Nat /\ max \in Nat /\ vmax \in Nat /\ vmax - max \in Int /\ num_waiting_push \in Nat
        /\ length \in Nat
    BY <1>1, QueuesAssumption DEF Numbers
  <1>6. m = IF vmax - max <= p THEN vmax - max ELSE p
    <2> HIDE DEF p
    <2> QED  BY <1>5, MinOfTwo
  <1>7. m \in Int
    <2> HIDE DEF p, m
    <2> QED  BY <1>5, <1>6
  <1>8. diff = IF 0 >= m THEN 0 ELSE m
    <2> HIDE DEF m
    <2> QED  BY <1>7, MaxOfTwo
  <1>9. diff \in Nat /\ diff <= p /\ (diff >= vmax - max \/ diff = p)
    <2> HIDE DEF p, m, diff
    <2> QED  BY <1>5, <1>6, <1>7, <1>8
  <1>10. Len(rest) = p - diff
    <2> HIDE DEF m, diff
    <2>1. Len(pushq) \in Nat /\ \A i \in 1..Len(pushq) : pushq[i] \in Thread
      BY ElementOfSeq, LenProperties DEF QInv, QueueTyped
    <2>2. diff + 1 \in Nat /\ \A i \in (diff + 1)..p : pushq[i] \in Thread
      BY <1>9, <2>1
    <2>3. Len(rest) = IF diff + 1 <= p THEN p - (diff + 1) + 1 ELSE 0
      BY <1>5, <2>2, SubSeqProperties
    <2> HIDE DEF rest, p
    <2> QED  BY <1>5, <1>9, <2>3
  <1> HIDE DEF p, m, diff, rest
  <1>11. Enough(p, num_waiting_push, max - length)
    BY <1>1, <1>4 DEF EnoughInNumbers, p
  <1>12. Enough(p - diff, num_waiting_push, vmax - length)
    BY <1>5, <1>9, <1>11 DEF Enough
  <1>13. EnoughInNumbers'
    BY <1>1, <1>4, <1>10, <1>12 DEF EnoughInNumbers
  <1> QED  BY <1>3, <1>13

-----------------------------------------------------------------------------
(* The operations on the queue and fatal. *)

\* What an operation on the queue does to the threads.
QueueEffect(t) ==
    /\ pc[t] \in {"run", "back", "unwind"} /\ pc'[t] \in {"run", "check", "unwind"}
    /\ UNCHANGED <<pending, living, target, fatal>>
    /\ \A u \in Thread : flag[u] => flag'[u]
    /\ \A u \in Thread \ {t} : pc'[u] = pc[u] /\ frame'[u] = frame[u] /\ exc'[u] = exc[u]
    /\ pc[t] = "unwind" => UnwindQueue(t) /\ pc' = pc /\ exc' = exc /\ UNCHANGED status
    /\ pc[t] = "back" => PopAgain(t) \/ PushAgain(t)
    /\ pc'[t] = "unwind" => frame'[t] = "none"

\* That holds for each of them.
LEMMA QueueStepEffect ==
    ASSUME TInv, NEW t \in Thread, QueueStep(t)
    PROVE  QueueEffect(t)
  <1>0. /\ pc \in [Thread -> Place] /\ frame \in [Thread -> Frame]
        /\ exc \in [Thread -> {"none", "raise", "kill"}] /\ flag \in [Thread -> BOOLEAN]
        /\ pc[t] = "run" => frame[t] = "none"
    BY DEF TInv, Typed, Places, PlaceFits, At
  <1>1. ASSUME NEW ts, Woken(ts) PROVE \A u \in Thread : flag[u] => flag'[u]
    BY <1>1 DEF Woken, rb_threadptr_interrupt
  <1>2. CASE PopNonBlock(t) \/ PushNonBlock(t)
    BY <1>0, <1>2 DEF PopNonBlock, PushNonBlock, RaiseError, Idle, restOfCore, QueueEffect
  <1>3. CASE UnwindQueue(t)
    BY <1>0, <1>3 DEF UnwindQueue, restOfCore, QueueEffect
  <1>4. CASE rb_queue_close(t) \/ rb_queue_clear(t)
    BY <1>0, <1>1, <1>4 DEF rb_queue_close, rb_queue_clear, Idle, restOfCore, QueueEffect
  <1>5. CASE \E vmax \in 1..MaxLength : rb_szqueue_max_set(t, vmax)
    <2>1. PICK ts : Woken(ts) /\ UNCHANGED <<pc, frame, exc, restOfCore>> /\ pc[t] = "run"
      BY <1>5 DEF rb_szqueue_max_set, Idle
    <2> QED  BY <1>0, <1>1, <2>1 DEF restOfCore, QueueEffect
  <1>6. ASSUME NEW wq, NEW n, queue_do_pop(t, wq, n), pc[t] = "run" \/ PopAgain(t)
        PROVE  QueueEffect(t)
    <2>0. pc[t] \in {"run", "back"}  BY <1>6 DEF PopAgain
    <2>1. CASE length = 0 /\ ~closed
      BY <1>0, <1>6, <2>0, <2>1 DEF queue_do_pop, SleepBegin, restOfCore, QueueEffect
    <2>2. CASE ~(length = 0 /\ ~closed)
      BY <1>0, <1>1, <1>6, <2>0, <2>2 DEF queue_do_pop, Finish, restOfCore, QueueEffect
    <2> QED  BY <2>1, <2>2
  <1>7. ASSUME NEW pq, NEW n, rb_szqueue_push(t, pq, n), pc[t] = "run" \/ PushAgain(t)
        PROVE  QueueEffect(t)
    <2>0. pc[t] \in {"run", "back"}  BY <1>7 DEF PushAgain
    <2>1. CASE sized /\ length >= max /\ ~closed
      BY <1>0, <1>7, <2>0, <2>1 DEF rb_szqueue_push, SleepBegin, restOfCore, QueueEffect
    <2>2. CASE ~(sized /\ length >= max /\ ~closed)
      BY <1>0, <1>1, <1>7, <2>0, <2>2
         DEF rb_szqueue_push, Finish, RaiseError, restOfCore, QueueEffect
    <2> QED  BY <2>1, <2>2
  <1> QED
    BY <1>2, <1>3, <1>4, <1>5, <1>6, <1>7
       DEF QueueStep, rb_queue_pop, PopAgain, rb_queue_push, PushAgain, Idle

\* While the main thread terminates the others.
LEMMA QueueStepEnded ==
    ASSUME TInv, TInv', WInv, Ended, NEW t \in Thread, QueueStep(t)
    PROVE  WInv'
  <1>0. /\ Main \in Thread /\ living \subseteq Thread /\ QueueEffect(t)
        /\ pc[Main] \in {"term", "terminated"} /\ \A u \in living \ {Main} : Doomed(u)
    BY ThreadsAssumption, QueueStepEffect DEF TInv, Places, PlaceFits, Typed, Ended, WInv
  <1>1. t # Main /\ pc'[Main] = pc[Main]  BY <1>0 DEF QueueEffect
  <1>2. Ended'  BY <1>0, <1>1 DEF Ended, TInv, Places, PlaceFits
  <1>3. \A u \in living : KeepsDoom(u)  BY <1>0 DEF QueueEffect, KeepsDoom
  <1>4. \A u \in living' \ {Main} : Doomed(u)'
    BY <1>0, <1>3 DEF QueueEffect, KeepsDoom, Doomed
  <1>5. \A u \in Thread : pc'[u] # "lock_sleep"  BY <1>0 DEF QueueEffect, WInv
  <1> QED  BY <1>2, <1>4, <1>5 DEF WInv

\* Enough are woken after every operation that does not leave its call with an exception.
LEMMA QueueStepEnough ==
    ASSUME QInv, QInv', EnoughWoken, NEW t \in Thread, QueueStep(t), pc[t] # "unwind"
    PROVE  EnoughWoken'
  <1>1. CASE rb_queue_pop(t) \/ PopAgain(t)
    BY <1>1, CameBack, PopEnough DEF rb_queue_pop, PopAgain
  <1>2. CASE rb_queue_push(t) \/ PushAgain(t)
    BY <1>2, CameBack, PushEnough DEF rb_queue_push, PushAgain
  <1>3. CASE \E vmax \in 1..MaxLength : rb_szqueue_max_set(t, vmax)
    BY <1>3, MaxSetEnough
  <1>4. ~UnwindQueue(t)  BY DEF UnwindQueue
  <1> QED  BY <1>1, <1>2, <1>3, <1>4, OthersEnough DEF QueueStep

\* While no fatal is on its way.
LEMMA QueueStepRunning ==
    ASSUME QInv, QInv', WInv, ~Ended, ~FatalComing, NEW t \in Thread, QueueStep(t)
    PROVE  WInv'
  <1>0. TInv /\ TInv' /\ Main \in Thread /\ QueueEffect(t)
    BY ThreadsAssumption, QueueStepEffect DEF QInv
  <1>1. pc[t] # "unwind"
    <2>1. pc[t] = "unwind" => frame[t] = "none"
      BY DEF WInv, Undisturbed, FatalComing
    <2>2. pc[t] = "unwind" => frame[t] \in {"pop", "push"}
      BY <1>0 DEF QueueEffect, UnwindQueue
    <2> QED  BY <2>1, <2>2
  <1>2. EnoughWoken'  BY <1>1, QueueStepEnough DEF WInv
  <1>3. Calm
    <2>1. ~Ended'
      BY <1>0 DEF QueueEffect, Ended, TInv, Places, PlaceFits
    <2> QED  BY <1>0, <2>1 DEF QueueEffect, Calm
  <1>4. \A u \in Thread : pc'[u] # "lock_sleep"  BY <1>0 DEF QueueEffect, WInv
  <1> QED  BY <1>2, <1>3, <1>4, CalmKeeps

\* The main thread leaves a pop or a push with fatal: it was not one of the woken ones.
LEMMA UnwindEnough ==
    ASSUME QInv, QInv', EnoughWoken, NEW t \in Thread, UnwindQueue(t),
           frame[t] = "pop" => t \in ToSet(waitq), frame[t] = "push" => t \in ToSet(pushq)
    PROVE  EnoughWoken'
  <1>1. Numbers /\ EnoughInNumbers  BY QueueNumbers, EnoughEither
  <1>2. (EnoughWoken <=> EnoughInNumbers)'  BY EnoughEither, PTL
  <1>3. UNCHANGED <<length, max, sized>> /\ frame[t] \in {"pop", "push"}
    BY DEF UnwindQueue, restOfCore
  <1>4. ASSUME NEW w \in Nat, NEW n \in Nat, NEW k \in Int, Enough(w, n, k), w # 0
        PROVE  Enough(w - 1, n - 1, k)
    BY <1>4 DEF Enough
  <1>5. max - length \in Int  BY <1>1 DEF Numbers
  <1>6. CASE frame[t] = "pop"
    <2>1. /\ waitq' = Without(waitq, t) /\ num_waiting' = num_waiting - 1
          /\ UNCHANGED <<pushq, num_waiting_push>>
      BY <1>6 DEF UnwindQueue
    <2>2. Len(waitq') = Len(waitq) - 1 /\ Len(waitq) # 0  BY <1>6, <2>1, OffLength
    <2>3. Enough(Len(waitq) - 1, num_waiting - 1, length)
      BY <1>1, <1>4, <2>2 DEF Numbers, EnoughInNumbers
    <2>4. EnoughInNumbers'  BY <1>1, <1>3, <2>1, <2>2, <2>3 DEF EnoughInNumbers
    <2> QED  BY <1>2, <2>4
  <1>7. CASE frame[t] = "push"
    <2>1. /\ pushq' = Without(pushq, t) /\ num_waiting_push' = num_waiting_push - 1
          /\ UNCHANGED <<waitq, num_waiting>>
      BY <1>7 DEF UnwindQueue
    <2>2. Len(pushq') = Len(pushq) - 1 /\ Len(pushq) # 0  BY <1>7, <2>1, OffLength
    <2>3. sized => Enough(Len(pushq) - 1, num_waiting_push - 1, max - length)
      BY <1>1, <1>4, <1>5, <2>2 DEF Numbers, EnoughInNumbers
    <2>4. EnoughInNumbers'  BY <1>1, <1>3, <2>1, <2>2, <2>3 DEF EnoughInNumbers
    <2> QED  BY <1>2, <2>4
  <1> QED  BY <1>3, <1>6, <1>7

\* While fatal is on its way: the others go to sleep again, the main thread leaves.
LEMMA QueueStepWindow ==
    ASSUME QInv, QInv', WInv, ~Ended, FatalComing, NEW t \in Thread, QueueStep(t)
    PROVE  WInv'
  <1>0. /\ TInv /\ Main \in Thread /\ living \subseteq Thread /\ QueueEffect(t)
        /\ FatalWindow /\ EnoughWoken /\ waitq \in Seq(Thread) /\ pushq \in Seq(Thread)
        /\ frame \in [Thread -> Frame]
    BY ThreadsAssumption, QueueStepEffect DEF QInv, QueueTyped, TInv, Typed, WInv
  <1>1. t \in living  BY <1>0 DEF QueueEffect, TInv, Places
  <1>2. CASE t = Main
    <2>1. pc[Main] = "unwind" /\ pending[Main] = <<>>
      BY <1>0, <1>2 DEF FatalWindow, QueueEffect
    <2>2. /\ UnwindQueue(Main) /\ pc' = pc /\ UNCHANGED <<status, living, target, pending>>
      BY <1>0, <1>2, <2>1 DEF QueueEffect
    <2>3. frame' = [frame EXCEPT ![Main] = "none"] /\ UNCHANGED <<length, closed, max>>
      BY <2>2 DEF UnwindQueue
    <2>4. EnoughWoken'  BY <1>0, <2>2, UnwindEnough DEF FatalWindow
    <2>5. OthersStay(Main)  BY <1>0, <2>2, <2>3 DEF OthersStay
    <2>6. frame'[Main] = "none" /\ status'[Main] # "KILLED"
      BY <1>0, <2>2, <2>3 DEF Ended
    <2> QED  BY <1>0, <2>1, <2>2, <2>3, <2>4, <2>5, <2>6, MainKeeps
  <1>3. CASE t # Main
    <2>1. WaitsOn(t) /\ pc[t] = "back"
      BY <1>0, <1>1, <1>3 DEF FatalWindow, WaitsOn, QueueEffect
    <2>2. EnoughWoken'  BY <1>0, <2>1, QueueStepEnough
    <2>3. CASE PopAgain(t)
      <3> DEFINE w == Without(waitq, t)
                 a == Append(w, t)
      <3>1. /\ frame[t] = "pop" /\ length = 0 /\ ~closed /\ waitq' = a /\ SleepBegin(t, "pop")
            /\ UNCHANGED <<length, max, closed, pushq, flag>>
        BY <2>1, <2>3 DEF PopAgain, queue_do_pop, WaitsOn
      <3>2. w \in Seq(Thread) /\ ToSet(waitq) \subseteq ToSet(w) \cup {t}
        BY <1>0, RemoveFirstElements DEF Without
      <3>3. ToSet(a) = ToSet(w) \cup {t}
        <4> HIDE DEF w
        <4> QED  BY <3>2, AppendElements
      <3> HIDE DEF w, a
      <3>4. Main \in ToSet(waitq) => Main \in ToSet(waitq')  BY <1>3, <3>1, <3>2, <3>3
      <3>5. OthersStay(t) /\ WaitsOn(t)'
        BY <1>0, <3>1 DEF QueueEffect, OthersStay, SleepBegin, WaitsOn, Deadlockable, TInv, Typed
      <3> QED  BY <1>0, <1>3, <2>2, <3>1, <3>4, <3>5, WaiterKeeps
    <2>4. CASE PushAgain(t)
      <3> DEFINE w == Without(pushq, t)
                 a == Append(w, t)
      <3>1. /\ frame[t] = "push" /\ length >= max /\ ~closed /\ sized
        BY <2>1, <2>4 DEF PushAgain, WaitsOn, QInv
      <3>2. /\ pushq' = a /\ SleepBegin(t, "push")
            /\ UNCHANGED <<length, max, closed, waitq, flag>>
        BY <2>4, <3>1 DEF PushAgain, rb_szqueue_push
      <3>3. w \in Seq(Thread) /\ ToSet(pushq) \subseteq ToSet(w) \cup {t}
        BY <1>0, RemoveFirstElements DEF Without
      <3>4. ToSet(a) = ToSet(w) \cup {t}
        <4> HIDE DEF w
        <4> QED  BY <3>3, AppendElements
      <3> HIDE DEF w, a
      <3>5. Main \in ToSet(pushq) => Main \in ToSet(pushq')  BY <1>3, <3>2, <3>3, <3>4
      <3>6. OthersStay(t) /\ WaitsOn(t)'
        BY <1>0, <3>1, <3>2 DEF QueueEffect, OthersStay, SleepBegin, WaitsOn, Deadlockable, TInv, Typed
      <3> QED  BY <1>0, <1>3, <2>2, <3>2, <3>5, <3>6, WaiterKeeps
    <2> QED  BY <1>0, <2>1, <2>3, <2>4 DEF QueueEffect
  <1> QED  BY <1>2, <1>3

\* Every step of such a program keeps the invariant.
LEMMA NextWInv ==
    ASSUME Peaceful, QInv, QInv', WInv, [QueueNext]_vars
    PROVE  WInv'
  <1>0. TInv /\ TInv'  BY DEF QInv
  <1>1. CASE OtherStep /\ UNCHANGED queueVars
    <2>1. PeacefulStep /\ signals = 0 /\ ~trap /\ pc[Main] # "trap"
      BY <1>0, <1>1, OtherIsPeaceful
    <2> QED  BY <1>0, <1>1, <2>1, EndedStep, RunningStep, WindowStep
  <1>2. CASE \E t \in Thread : QueueStep(t)
    BY <1>0, <1>2, QueueStepEnded, QueueStepRunning, QueueStepWindow
  <1> QED  BY <1>1, <1>2, QueueNextSplit

\* It holds at the start: nobody waits, and nothing is pending.
LEMMA InitWInv == QueueInit => WInv
  <1> SUFFICES ASSUME QueueInit PROVE WInv
    OBVIOUS
  <1>1. Main \in Thread  BY ThreadsAssumption
  <1>2. /\ \A t \in Thread : pc[t] \in {"run", "new"} /\ pending[t] = <<>> /\ frame[t] = "none"
        /\ status[Main] # "KILLED"
    BY <1>1 DEF QueueInit, Init
  <1>3. waitq = <<>> /\ pushq = <<>>  BY DEF QueueInit
  <1> QED  BY <1>1, <1>2, <1>3 DEF WInv, Ended, Undisturbed, EnoughWoken, FatalComing

\* In such a program fatal is raised only when all sleep and have nothing to wait for.
LEMMA FatalMeansDeadlocked ==
    ASSUME Peaceful, QInv, WInv, [QueueNext]_vars, ~fatal, fatal'
    PROVE  Deadlocked
  <1>0. TInv  BY DEF QInv
  <1>1. ~\E t \in Thread : QueueStep(t)
    BY <1>0, QueueStepEffect DEF QueueEffect
  <1>2. OtherStep /\ UNCHANGED queueVars  BY <1>1, QueueNextSplit
  <1>3. PeacefulStep /\ signals = 0  BY <1>0, <1>2, OtherIsPeaceful
  <1>4. ASSUME NEW t \in Thread, Proceed(t) \/ SpuriousWakeUp(t) \/ PeacefulProgram(t)
        PROVE  NativeSleep(t, {}, NoThread)
    BY <1>4 DEF Proceed, PeacefulProgram, RaiseInterrupt, Deliver, CheckIntsInCode, InterruptedWakeUp,
         TimeoutWakeUp, SpuriousWakeUp, WakeUp, SleepEnd, SleepReturn, JoinAgain, JoinReturn,
         UnwindSleep, rb_thread_stop, CallRaises, rb_f_sleep, Rescue, rb_thread_wakeup, thread_join,
         thread_join_ended, thread_create_core
  <1>5. ASSUME NEW t \in Thread, NativeSleep(t, {}, NoThread) PROVE Deadlocked
    <2> DEFINE fl == [flag EXCEPT ![t] = FALSE]
    <2>1. /\ frame[t] \in Deadlockable
          /\ rb_check_deadlock(t, status, fl, sleeper + 1, living, {}, NoThread, 0)
      BY <1>5 DEF NativeSleep
    <2>2. NoLiveThreadLeft(t, status, fl, sleeper + 1, living, {}, NoThread)
      BY <2>1 DEF rb_check_deadlock
    <2> QED  BY <1>2, <1>3, <1>5, <2>1, <2>2, NativeSleepFatal
  <1>6. ASSUME NEW t \in Thread, ThreadEnd(t, FALSE, {}, {}, NoThread) PROVE Deadlocked
    BY <1>2, <1>3, <1>6, ThreadEndFatal
  <1>7. ~TerminateAll({}) /\ ~TerminateLoop /\ ~UNCHANGED core
    BY DEF TerminateAll, TerminateLoop, core
  <1> QED  BY <1>3, <1>4, <1>5, <1>6, <1>7 DEF PeacefulStep

\* So it holds in every state of such a program.
LEMMA WakesInvariance == ASSUME Peaceful PROVE QueueSpec => []WInv
  <1>1. QInv /\ QInv' /\ WInv /\ [QueueNext]_vars => WInv'  BY NextWInv
  <1> QED  BY <1>1, InitWInv, QueuesInvariance, PTL DEF QueueSpec

\* Where nobody is interrupted, a thread sleeps in pop or push only if those who were
\* woken before it take all elements, or all of the space, that there are: no push, pop,
\* clear, close or max= loses a wakeup, in whatever order they and the sleeps are.
THEOREM WaitersWoken == ASSUME Peaceful PROVE QueueSpec => []QueueWakesWaiters
  <1>1. QInv => signals = 0  BY DEF Peaceful, QInv, TInv, Typed
  <1>2. QInv /\ WInv => QueueWakesWaiters  BY <1>1, WInvWakes
  <1> QED  BY <1>2, QueuesInvariance, WakesInvariance, PTL

\* And rb_check_deadlock raises fatal only when every living thread sleeps and the queue
\* has neither an element for those in pop nor space for those in push.
THEOREM QueueDeadlocksReal == ASSUME Peaceful PROVE QueueSpec => QueueDeadlockIsReal
  <1> DEFINE A == (~fatal /\ fatal') =>
                     \A t \in living' : /\ pc'[t] = "asleep"
                                        /\ frame'[t] = "pop" => length' = 0 /\ ~closed'
                                        /\ frame'[t] = "push" => length' >= max' /\ ~closed'
  <1>1. QInv /\ WInv /\ [QueueNext]_vars => [A]_vars
    BY FatalMeansDeadlocked DEF Deadlocked
  <1>2. QueueSpec => [][A]_vars
    BY <1>1, QueuesInvariance, WakesInvariance, PTL DEF QueueSpec
  <1> QED  BY <1>2 DEF QueueDeadlockIsReal
=============================================================================

--------------------------- MODULE MutexesProofs ---------------------------
(***************************************************************************)
(* The safety properties of Mutexes, for any finite set of threads, any    *)
(* set of mutexes, any number of signals and any set of calls.             *)
(*                                                                         *)
(* The inductive invariant MInv adds to TInv of ThreadsProofs and to       *)
(* KeepingIsOwned                                                          *)
(*   - WantFits: who is in rb_mutex_lock or rb_mutex_sleep wants a mutex,  *)
(*     which it does not have while it is in the latter: what the ensure   *)
(*     clause relies on;                                                   *)
(*   - LockSleepFits and WaitersFit: who sleeps in rb_mutex_lock is on the *)
(*     queue of its mutex until it is interrupted, and nobody else is, so  *)
(*     rb_check_deadlock sees who is about to get a mutex;                 *)
(*   - PatrolSleeps: patrol_thread is a thread in that sleep;              *)
(*   - CondvarFits: a thread in ConditionVariable#wait that sleeps, or has *)
(*     not been kept from it since its last status test, is on the queue.  *)
(* The steps of module Threads change nothing of this (Quiet); a step of   *)
(* this module changes it for one thread (MutexStepInv).                   *)
(***************************************************************************)
EXTENDS Mutexes, ThreadsProofs

-----------------------------------------------------------------------------
(* The inductive invariant. *)

\* The frames of rb_mutex_lock and of rb_mutex_sleep.
LockFrame == {"lock", "synchronize"}
MutexSleepFrame == {"mutex_sleep", "mutex_timed_sleep"}
MutexFrame == LockFrame \cup MutexSleepFrame

\* MutexTypeOK but for TypeOK.
MutexTyped ==
    /\ owner \in [Mutex -> Thread \cup {NoThread}]
    /\ waitq \in [Mutex -> Seq(Thread)]
    /\ keeping \in [Thread -> Seq(Mutex)]
    /\ locking \in [Thread -> Mutex \cup {NoMutex}]
    /\ patrol \in Thread \cup {NoThread}
    /\ want \in [Thread -> Mutex \cup {NoMutex}]
    /\ blocks \in [Thread -> Seq(Mutex)]
    /\ cvq \in Seq(Thread)
    /\ waiting \subseteq Thread

\* What the call a thread is in says about the mutex it wants.
WantFits(t) ==
    /\ frame[t] \in MutexFrame => want[t] \in Mutex
    /\ frame[t] \in MutexSleepFrame => owner[want[t]] # t
    /\ t \in waiting => frame[t] \in {"lock"} \cup MutexSleepFrame

\* What is known of a thread in the native_sleep of rb_mutex_lock: it does not have
\* the mutex, and as long as it was not interrupted it is on the queue.
LockSleepFits(t) ==
    /\ pc[t] # "lock_sleep" => locking[t] = NoMutex
    /\ pc[t] = "lock_sleep" =>
         /\ locking[t] = want[t] /\ owner[want[t]] # t
         /\ status[t] \in {"RUNNABLE", "STOPPED_FOREVER"}
         /\ ~flag[t] => status[t] = "STOPPED_FOREVER" /\ t \in ToSet(waitq[want[t]])

\* Only in the child of a fork are ended threads left on a queue, or patrol_thread.
Gone(t) == pc[t] = "dead" /\ "fork" \in Calls

WaitersFit(m) ==
    /\ IsInjective(waitq[m])
    /\ \A t \in ToSet(waitq[m]) : (pc[t] = "lock_sleep" /\ want[t] = m) \/ Gone(t)

PatrolSleeps == patrol # NoThread => pc[patrol] = "lock_sleep" \/ Gone(patrol)

\* A thread sleeps, or has not been kept from doing so.
MaySleepOn(t) == Slumbering(t) \/ (pc[t] = "check" /\ status[t] = SleepStatus(frame[t]))

\* Then it can be signalled, if it is in ConditionVariable#wait.
CondvarFits(t) == t \in waiting /\ MaySleepOn(t) => t \in ToSet(cvq)

MInv ==
    /\ TInv /\ MutexTyped /\ KeepingIsOwned
    /\ \A t \in Thread : WantFits(t) /\ LockSleepFits(t)
    /\ \A m \in Mutex : WaitersFit(m)
    /\ PatrolSleeps
    /\ signals = 0 => \A t \in Thread : CondvarFits(t)
-----------------------------------------------------------------------------
(* The steps of module Threads. *)

\* What such a step may do to a thread u that has to do with mutexes.
Quiet(u) ==
    /\ pc'[u] = "lock_sleep" <=> pc[u] = "lock_sleep"
    /\ pc[u] = "lock_sleep" => /\ flag[u] => flag'[u]
                               /\ status'[u] = status[u] \/ (status'[u] = "RUNNABLE" /\ flag'[u])
    /\ pc[u] = "dead" => pc'[u] = "dead"
    /\ frame'[u] = frame[u] \/ (frame[u] \notin MutexFrame /\ frame'[u] \notin MutexFrame)
    /\ status'[u] = "KILLED" /\ u # Main => status[u] = "KILLED"
    /\ signals' = 0 /\ frame'[u] \in MutexSleepFrame /\ MaySleepOn(u)' =>
           signals = 0 /\ MaySleepOn(u)

\* It keeps the invariant.
LEMMA QuietKeeps ==
    ASSUME MInv, TInv', \A u \in Thread : Quiet(u), UNCHANGED lockVars
    PROVE  MInv'
  <1> USE DEF MInv, lockVars
  <1>1. MutexTyped'  BY DEF MutexTyped
  <1>2. KeepingIsOwned'  BY DEF KeepingIsOwned, Quiet
  <1>3. \A u \in Thread : WantFits(u)'
    <2> SUFFICES ASSUME NEW u \in Thread PROVE WantFits(u)'
      OBVIOUS
    <2>1. WantFits(u) /\ Quiet(u)  OBVIOUS
    <2> QED  BY <2>1 DEF WantFits, Quiet, MutexFrame, LockFrame, MutexSleepFrame
  <1>4. \A u \in Thread : LockSleepFits(u)'
    <2> SUFFICES ASSUME NEW u \in Thread PROVE LockSleepFits(u)'
      OBVIOUS
    <2>1. LockSleepFits(u) /\ Quiet(u)  OBVIOUS
    <2> QED  BY <2>1 DEF LockSleepFits, Quiet
  <1>5. \A m \in Mutex : WaitersFit(m)'
    <2> SUFFICES ASSUME NEW m \in Mutex PROVE WaitersFit(m)'
      OBVIOUS
    <2>1. ToSet(waitq[m]) \subseteq Thread  BY ToSetElements DEF MutexTyped
    <2> QED  BY <2>1 DEF WaitersFit, Gone, Quiet
  <1>6. PatrolSleeps'  BY DEF PatrolSleeps, Gone, Quiet, MutexTyped
  <1>7. signals' = 0 => \A u \in Thread : CondvarFits(u)'
    <2> SUFFICES ASSUME signals' = 0, NEW u \in Thread, u \in waiting', MaySleepOn(u)'
                 PROVE  u \in ToSet(cvq)
      BY DEF CondvarFits
    <2>1. frame'[u] \in MutexSleepFrame
      BY <1>3 DEF WantFits, MaySleepOn, Slumbering, TInv, Places, PlaceFits, At, SleepFrame
    <2>2. signals = 0 /\ MaySleepOn(u)  BY <2>1 DEF Quiet
    <2> QED  BY <2>2 DEF CondvarFits
  <1> QED  BY <1>1, <1>2, <1>3, <1>4, <1>5, <1>6, <1>7

\* Steps of a thread outside the calls of this module are quiet if they wake others at most.
LEMMA QuietStep ==
    ASSUME MInv, NEW t \in Thread, Others(t), UNCHANGED <<trap, signals>>,
           pc[t] \notin {"lock_sleep", "dead"}, pc'[t] # "lock_sleep",
           \/ frame'[t] = frame[t]
           \/ frame[t] \notin MutexFrame /\ frame'[t] \notin MutexFrame,
           status'[t] = "KILLED" => t = Main,
           frame'[t] \in MutexSleepFrame /\ MaySleepOn(t)' => MaySleepOn(t)
    PROVE  \A u \in Thread : Quiet(u)
  <1> SUFFICES ASSUME NEW u \in Thread PROVE Quiet(u)
    OBVIOUS
  <1>1. CASE u = t  BY <1>1 DEF Quiet
  <1>2. CASE u # t
    <2>1. Bystander(u)  BY <1>2 DEF Others
    <2>2. MaySleepOn(u)' => MaySleepOn(u)
      <3> SUFFICES ASSUME MaySleepOn(u)' PROVE MaySleepOn(u)
        OBVIOUS
      <3>1. CASE Slumbering(u)'
        BY <2>1, <3>1 DEF Bystander, MaySleepOn, Slumbering, RUBY_VM_INTERRUPTED
      <3>2. CASE pc'[u] = "check" /\ status'[u] = SleepStatus(frame'[u])
        BY <2>1, <3>2 DEF Bystander, MaySleepOn, SleepStatus
      <3> QED  BY <3>1, <3>2 DEF MaySleepOn
    <2> QED  BY <2>1, <2>2 DEF Quiet, Bystander
  <1> QED  BY <1>1, <1>2

\* CHECK_INTS.
LEMMA ChecksKeep ==
    ASSUME MInv, NEW t \in Thread, UNCHANGED lockVars,
           RaiseInterrupt(t) \/ CheckIntsInCode(t)
    PROVE  MInv'
  <1>1. TInv'  BY ProceedInv DEF MInv
  <1> USE DEF MInv, TInv
  <1>2. CASE RaiseInterrupt(t)
    <2>1. Others(t) /\ pc'[t] = "unwind"
      BY <1>2 DEF RaiseInterrupt, Deliver, Others, Bystander, Typed
    <2>2. /\ pc[t] \notin {"lock_sleep", "dead"} /\ (status[t] # "KILLED" \/ t = Main)
          /\ frame'[t] = frame[t] /\ UNCHANGED <<trap, signals>>
      BY <1>2 DEF RaiseInterrupt, BlockingCheck, Deliver, Places, PlaceFits
    <2>3. status'[t] = "KILLED" => t = Main
      BY <1>2, <2>2 DEF RaiseInterrupt, Deliver, Typed, Places, PlaceFits
    <2>4. ~MaySleepOn(t)'  BY <2>1 DEF MaySleepOn, Slumbering
    <2>5. pc[t] \notin {"lock_sleep", "dead"}  BY <1>2 DEF RaiseInterrupt, BlockingCheck
    <2> QED  BY <1>1, <2>1, <2>2, <2>3, <2>4, <2>5, QuietStep, QuietKeeps
  <1>3. CASE CheckIntsInCode(t)
    <2>1. /\ Others(t) /\ pc' = pc /\ pc[t] \in {"run", "trap"} /\ frame' = frame /\ status' = status
          /\ UNCHANGED <<trap, signals>>
      BY <1>3 DEF CheckIntsInCode, Others, Bystander, Typed
    <2>2. status'[t] = "KILLED" => t = Main  BY <2>1 DEF Places, PlaceFits
    <2>3. ~MaySleepOn(t)'  BY <2>1 DEF MaySleepOn, Slumbering
    <2> QED  BY <1>1, <2>1, <2>2, <2>3, QuietStep, QuietKeeps
  <1> QED  BY <1>2, <1>3

\* A thread that goes into native_sleep lets the others be, but for fatal.
LEMMA NativeSleepOthers ==
    ASSUME TInv, NEW t \in Thread, NEW served, NEW pat, NativeSleep(t, served, pat)
    PROVE  /\ Others(t) /\ pc'[t] = "asleep" /\ UNCHANGED <<frame, status, trap, signals>>
  <1> DEFINE fl == [flag EXCEPT ![t] = FALSE]
  <1>1. /\ IF frame[t] \in Deadlockable
           THEN rb_check_deadlock(t, status, fl, sleeper + 1, living, served, pat, 0)
           ELSE flag' = fl /\ UNCHANGED <<pending, sleeper, fatal>>
        /\ pc' = [pc EXCEPT ![t] = "asleep"]
        /\ UNCHANGED <<frame, status, trap, saved, signals, living, join_list, target>>
    BY DEF NativeSleep
  <1>2. fl \in [Thread -> BOOLEAN] /\ \A u \in Thread \ {t} : fl[u] = flag[u]
    BY DEF TInv, Typed
  <1> HIDE DEF fl
  <1>3. \A u \in Thread : fl[u] => flag'[u]
    BY <1>1, <1>2, CheckDeadlockType
  <1> QED  BY <1>1, <1>2, <1>3 DEF Others, Bystander, TInv, Typed

\* The sleep functions.
LEMMA SleepsKeep ==
    ASSUME MInv, NEW t \in Thread, NEW served, NEW pat, UNCHANGED lockVars,
           \/ NativeSleep(t, served, pat) \/ InterruptedWakeUp(t) \/ TimeoutWakeUp(t)
           \/ SpuriousWakeUp(t) \/ SleepEnd(t)
    PROVE  MInv'
  <1>1. TInv'  BY ProceedInv, NativeSleepInv DEF MInv
  <1> USE DEF MInv, TInv
  <1>2. CASE NativeSleep(t, served, pat)
    <2>1. Others(t) /\ pc'[t] = "asleep" /\ status'[t] = status[t] /\ frame'[t] = frame[t]
          /\ UNCHANGED <<trap, signals>>
      BY <1>2, NativeSleepOthers
    <2>2. pc[t] = "check" \/ (pc[t] = "woken" /\ frame[t] \in SpuriousCheck)
      BY <1>2 DEF NativeSleep
    <2>3. status'[t] # "KILLED"  BY <2>1, <2>2 DEF Places, PlaceFits
    <2>4. frame'[t] \in MutexSleepFrame => MaySleepOn(t)
      BY <1>2, <2>1, <2>2 DEF NativeSleep, MaySleepOn, MutexSleepFrame, SpuriousCheck
    <2> QED  BY <1>1, <2>1, <2>2, <2>3, <2>4, QuietStep, QuietKeeps
  <1>3. CASE InterruptedWakeUp(t) \/ TimeoutWakeUp(t) \/ SpuriousWakeUp(t) \/ SleepEnd(t)
    <2>1. /\ Others(t) /\ pc[t] \in {"check", "asleep", "woken"} /\ pc'[t] \in {"woken", "back"}
          /\ frame'[t] = frame[t] /\ UNCHANGED <<trap, signals>>
          /\ status'[t] = status[t] \/ status'[t] = "RUNNABLE"
      BY <1>3 DEF InterruptedWakeUp, TimeoutWakeUp, SpuriousWakeUp, WakeUp, SleepEnd, Others,
                  Bystander, Typed
    <2>2. status'[t] # "KILLED"  BY <2>1 DEF Places, PlaceFits
    <2>3. ~MaySleepOn(t)'  BY <2>1 DEF MaySleepOn, Slumbering
    <2> QED  BY <1>1, <2>1, <2>2, <2>3, QuietStep, QuietKeeps
  <1> QED  BY <1>2, <1>3

\* Thread.stop, Kernel#sleep and Thread#join begin and end.
LEMMA CallsKeep ==
    ASSUME MInv, NEW t \in Thread, UNCHANGED lockVars,
           \/ rb_thread_stop(t) \/ rb_f_sleep(t) \/ SleepReturn(t) \/ JoinAgain(t) \/ JoinReturn(t)
           \/ UnwindSleep(t) \/ Rescue(t)
           \/ \E u \in Thread : thread_join(t, u) \/ thread_join_ended(t, u)
    PROVE  MInv'
  <1>1. TInv'  BY ProceedInv, ProgramInv DEF MInv, Program
  <1> USE DEF MInv, TInv
  <1>2. /\ pc[t] \in {"run", "back", "unwind"} /\ pc'[t] \in {"check", "run", "unwind"}
        /\ frame[t] \notin MutexFrame /\ frame'[t] \notin MutexFrame
        /\ UNCHANGED <<trap, signals>>
    <2>0. CASE CallRaises(t)
      BY <2>0 DEF CallRaises, RaiseError, Idle, Typed, Places, PlaceFits, At,
           MutexFrame, LockFrame, MutexSleepFrame
    <2>1. CASE ~CallRaises(t) /\ (rb_thread_stop(t) \/ rb_f_sleep(t))
      <3>1. pc[t] = "run" /\ UNCHANGED <<trap, signals>>
        BY <2>1 DEF rb_thread_stop, rb_f_sleep, Idle
      <3>2. PICK f \in {"stop", "sleep", "timed_sleep"} : SleepBegin(t, f)
        BY <2>1 DEF rb_thread_stop, rb_f_sleep
      <3>3. frame[t] = "none" /\ pc'[t] = "check" /\ frame'[t] = f
        BY <3>1, <3>2 DEF SleepBegin, Typed, Places, PlaceFits, At
      <3> QED  BY <3>1, <3>3 DEF MutexFrame, LockFrame, MutexSleepFrame
    <2>2. CASE SleepReturn(t) \/ JoinAgain(t) \/ JoinReturn(t)
      BY <2>2 DEF SleepReturn, JoinAgain, SleepBegin, JoinReturn, RaiseError,
           remove_from_join_list, Typed, MutexFrame, LockFrame, MutexSleepFrame
    <2>3. CASE UnwindSleep(t) \/ Rescue(t)
      BY <2>3 DEF UnwindSleep, Rescue, remove_from_join_list, Typed,
           MutexFrame, LockFrame, MutexSleepFrame
    <2>4. ASSUME NEW u \in Thread, thread_join(t, u)
          PROVE  /\ pc[t] = "run" /\ pc'[t] = "check" /\ UNCHANGED <<trap, signals>>
                 /\ frame[t] = "none" /\ frame'[t] \in {"join", "timed_join"}
      BY <2>4 DEF thread_join, SleepBegin, Idle, Typed, Places, PlaceFits, At
    <2> QED
      BY <2>0, <2>1, <2>2, <2>3, <2>4 DEF thread_join_ended, MutexFrame, LockFrame, MutexSleepFrame
  <1>3. Others(t)
    <2>0. CASE CallRaises(t)  BY <2>0 DEF CallRaises, RaiseError, Others, Bystander, Typed
    <2>1. CASE ~CallRaises(t) /\ (rb_thread_stop(t) \/ rb_f_sleep(t) \/ SleepReturn(t) \/ JoinAgain(t))
      BY <2>1 DEF rb_thread_stop, rb_f_sleep, SleepBegin, SleepReturn, JoinAgain, Others, Bystander, Typed
    <2>2. CASE JoinReturn(t) \/ UnwindSleep(t) \/ Rescue(t)
      BY <2>2 DEF JoinReturn, RaiseError, UnwindSleep, Rescue, remove_from_join_list, Others,
           Bystander, Typed
    <2>3. CASE \E u \in Thread : thread_join(t, u)
      BY <2>3 DEF thread_join, SleepBegin, Others, Bystander, Typed
    <2> QED  BY <2>0, <2>1, <2>2, <2>3 DEF thread_join_ended
  <1>4. frame'[t] \notin MutexSleepFrame  BY <1>2 DEF MutexFrame
  <1>5. status'[t] = "KILLED" => t = Main
    BY <1>1, <1>2 DEF Places, PlaceFits
  <1> QED  BY <1>1, <1>2, <1>3, <1>4, <1>5, QuietStep, QuietKeeps

\* Thread#wakeup, Thread#raise, Thread#kill and Thread.new.
LEMMA ProgramKeeps ==
    ASSUME MInv, NEW t \in Thread, UNCHANGED lockVars, Program(t)
    PROVE  MInv'
  <1>1. TInv'  BY ProgramInv DEF MInv
  <1> USE DEF MInv, TInv
  <1>2. ASSUME NEW u \in Thread, rb_thread_wakeup(t, u) \/ rb_threadptr_raise(t, u) \/ rb_thread_kill(t, u)
        PROVE  MInv'
    <2>1. pc[t] = "run" /\ UNCHANGED <<frame, trap, signals>>
      BY <1>2 DEF rb_thread_wakeup, rb_threadptr_raise, rb_thread_kill, Idle
    <2>2. Others(t) /\ pc'[t] \in {"run", "unwind"}
      <3>1. CASE rb_thread_wakeup(t, u) \/ rb_threadptr_raise(t, u)
        BY <2>1, <3>1 DEF rb_thread_wakeup, rb_threadptr_raise, rb_threadptr_interrupt,
                          Others, Bystander, Typed
      <3>2. CASE rb_thread_kill(t, u)
        BY <2>1, <3>2 DEF rb_thread_kill, rb_threadptr_interrupt, Others, Bystander, Typed
      <3> QED  BY <1>2, <3>1, <3>2
    <2>3. status'[t] = "KILLED" => t = Main  BY <1>1, <2>2 DEF Places, PlaceFits
    <2>4. ~MaySleepOn(t)'  BY <2>2 DEF MaySleepOn, Slumbering
    <2> QED  BY <1>1, <2>1, <2>2, <2>3, <2>4, QuietStep, QuietKeeps
  <1>3. ASSUME NEW u \in Thread, thread_create_core(t, u)
        PROVE  MInv'
    <2>1. /\ pc[u] = "new" /\ pc' = [pc EXCEPT ![u] = "run"]
          /\ UNCHANGED <<frame, status, flag, trap, signals>>
      BY <1>3 DEF thread_create_core
    <2>2. \A v \in Thread : Quiet(v)
      BY <2>1 DEF Quiet, MaySleepOn, Slumbering, RUBY_VM_INTERRUPTED, Typed
    <2> QED  BY <1>1, <2>2, QuietKeeps
  <1>4. CASE \/ rb_thread_stop(t) \/ rb_f_sleep(t) \/ Rescue(t)
             \/ \E u \in Thread : thread_join(t, u) \/ thread_join_ended(t, u)
    BY <1>4, CallsKeep
  <1> QED  BY <1>2, <1>3, <1>4 DEF Program

\* Signals and the loop of rb_thread_terminate_all.
LEMMA MainKeeps ==
    ASSUME MInv, UNCHANGED lockVars, Signalled \/ TerminateLoop
    PROVE  MInv'
  <1>1. TInv'  BY SignalledInv, TerminateLoopInv DEF MInv
  <1> USE DEF MInv, TInv
  <1>2. Main \in Thread  BY ThreadsAssumption
  <1>3. CASE threadptr_trap_interrupt
    <2>1. UNCHANGED <<pc, frame, status, flag>> /\ signals' # 0
      BY <1>3 DEF threadptr_trap_interrupt, Typed
    <2>2. \A u \in Thread : Quiet(u)  BY <2>1 DEF Quiet
    <2> QED  BY <1>1, <2>2, QuietKeeps
  <1>4. CASE TrapEnter \/ TrapReturn
    <2>1. /\ signals' # 0 /\ UNCHANGED frame
          /\ pc[Main] \in {"run", "check", "woken", "lock_check", "trap"}
          /\ pc'[Main] \in {"run", "check", "woken", "lock_check", "trap"}
          /\ \A u \in Thread \ {Main} : pc'[u] = pc[u] /\ flag'[u] = flag[u] /\ status'[u] = status[u]
      BY <1>2, <1>4 DEF TrapEnter, TrapReturn, BlockingCheck, Typed, Places
    <2>2. \A u \in Thread : Quiet(u)  BY <2>1 DEF Quiet
    <2> QED  BY <1>1, <2>2, QuietKeeps
  <1>5. CASE TerminateLoop
    <2>1. /\ pc[Main] = "term" /\ pc'[Main] \in {"term", "terminated"}
          /\ UNCHANGED <<frame, status, trap, signals>>
          /\ \A u \in Thread \ {Main} : pc'[u] = pc[u] /\ (flag[u] => flag'[u])
      BY <1>2, <1>5 DEF TerminateLoop, rb_threadptr_interrupt, Typed
    <2>2. Others(Main)
      <3>1. target' = target  BY <1>5 DEF TerminateLoop
      <3> QED  BY <2>1, <3>1 DEF Others, Bystander
    <2>3. ~MaySleepOn(Main)'  BY <2>1 DEF MaySleepOn, Slumbering
    <2> QED  BY <1>1, <1>2, <2>1, <2>2, <2>3, QuietStep, QuietKeeps
  <1> QED  BY <1>3, <1>4, <1>5 DEF Signalled
-----------------------------------------------------------------------------
(* The steps of this module. *)

\* What a step of thread t leaves alone.
Beside(t) ==
    /\ Others(t)
    /\ \A u \in Thread \ {t} :
         want'[u] = want[u] /\ locking'[u] = locking[u] /\ (u \in waiting' <=> u \in waiting)
    /\ \A m \in Mutex : owner'[m] = owner[m] \/ owner'[m] \in {t, NoThread}
    /\ UNCHANGED <<trap, signals>>

\* Who leaves the queue of a mutex is interrupted; t is on a queue while it sleeps.
QueuesKept(t) ==
    \A m \in Mutex :
        /\ IsInjective(waitq'[m])
        /\ \A u \in ToSet(waitq'[m]) \ {t} : u \in ToSet(waitq[m])
        /\ \A u \in ToSet(waitq[m]) \ {t} : u \in ToSet(waitq'[m]) \/ flag'[u]
        /\ t \in ToSet(waitq'[m]) => pc'[t] = "lock_sleep" /\ want'[t] = m

\* Who leaves the queue of the condition variable is woken, or has ended.
CondvarKept(t) ==
    \A u \in ToSet(cvq) \ {t} :
        u \in ToSet(cvq') \/ (flag'[u] /\ status'[u] = "RUNNABLE") \/ status[u] = "KILLED"

\* A step of t keeps the invariant if it keeps what concerns t.
LEMMA MutexStepInv ==
    ASSUME MInv, TInv', MutexTyped', KeepingIsOwned', NEW t \in Thread,
           Beside(t), QueuesKept(t), CondvarKept(t), WantFits(t)', LockSleepFits(t)',
           patrol' \in {patrol, t, NoThread}, patrol' = t => pc'[t] = "lock_sleep",
           signals = 0 => CondvarFits(t)'
    PROVE  MInv'
  <1> USE DEF MInv, Beside
  <1>0. \A m \in Mutex : ToSet(waitq[m]) \subseteq Thread /\ ToSet(waitq'[m]) \subseteq Thread
    BY ToSetElements DEF MutexTyped
  <1>1. ASSUME NEW u \in Thread \ {t} PROVE WantFits(u)'
    <2>1. WantFits(u) /\ Bystander(u)  BY DEF Others
    <2>2. u # NoThread  BY ThreadsAssumption
    <2> QED  BY <2>1, <2>2 DEF WantFits, Bystander, MutexFrame
  <1>2. ASSUME NEW u \in Thread \ {t} PROVE LockSleepFits(u)'
    <2>1. LockSleepFits(u) /\ WantFits(u) /\ Bystander(u)  BY DEF Others
    <2>2. pc[u] = "lock_sleep" => want[u] \in Mutex
      BY <2>1 DEF WantFits, TInv, Places, PlaceFits, At, MutexFrame, LockFrame
    <2>3. u # NoThread  BY ThreadsAssumption
    <2>4. pc[u] = "lock_sleep" /\ u \in ToSet(waitq[want[u]]) =>
             u \in ToSet(waitq'[want[u]]) \/ flag'[u]
      BY <2>2 DEF QueuesKept
    <2> QED  BY <2>1, <2>2, <2>3, <2>4 DEF LockSleepFits, Bystander
  <1>3. ASSUME NEW m \in Mutex PROVE WaitersFit(m)'
    <2>1. ASSUME NEW u \in ToSet(waitq'[m]), u # t
          PROVE  (pc'[u] = "lock_sleep" /\ want'[u] = m) \/ Gone(u)'
      <3>1. u \in ToSet(waitq[m]) /\ u \in Thread  BY <1>0, <2>1 DEF QueuesKept
      <3>2. Bystander(u)  BY <2>1, <3>1 DEF Others
      <3> QED  BY <2>1, <3>1, <3>2 DEF WaitersFit, Gone, Bystander
    <2> QED  BY <2>1 DEF WaitersFit, QueuesKept
  <1>4. PatrolSleeps'
    <2>1. CASE patrol' = patrol /\ patrol \in Thread \ {t}
      <3>1. Bystander(patrol)  BY <2>1 DEF Others
      <3> QED  BY <2>1, <3>1 DEF PatrolSleeps, Gone, Bystander
    <2> QED  BY <2>1 DEF PatrolSleeps, MutexTyped
  <1>5. ASSUME signals' = 0, NEW u \in Thread \ {t} PROVE CondvarFits(u)'
    <2>1. CondvarFits(u) /\ Bystander(u)  BY <1>5 DEF Others
    <2> SUFFICES ASSUME u \in waiting', MaySleepOn(u)' PROVE u \in ToSet(cvq')
      BY DEF CondvarFits
    <2>2. /\ MaySleepOn(u) /\ status[u] # "KILLED"
          /\ ~(flag'[u] /\ status'[u] = "RUNNABLE")
      <3>1. CASE Slumbering(u)'
        <4>1. Slumbering(u)  BY <2>1, <3>1 DEF Bystander, Slumbering, RUBY_VM_INTERRUPTED
        <4>2. ~flag'[u]  BY <3>1 DEF Slumbering, RUBY_VM_INTERRUPTED
        <4> QED  BY <4>1, <4>2 DEF MaySleepOn, Slumbering, TInv, Places, PlaceFits
      <3>2. CASE pc'[u] = "check" /\ status'[u] = SleepStatus(frame'[u])
        BY <2>1, <3>2 DEF Bystander, MaySleepOn, SleepStatus, TInv, Places, PlaceFits
      <3> QED  BY <3>1, <3>2 DEF MaySleepOn
    <2>3. u \in ToSet(cvq)  BY <2>1, <2>2 DEF CondvarFits
    <2> QED  BY <2>2, <2>3 DEF CondvarKept
  <1> QED  BY <1>1, <1>2, <1>3, <1>4, <1>5

\* The owner and the list of kept mutexes, when t changes only what is its own.
LEMMA KeepingStep ==
    ASSUME MInv, TInv', NEW t \in Thread, Others(t),
           \A u \in Thread \ {t} : keeping'[u] = keeping[u],
           IsInjective(keeping'[t]),
           \A m \in Mutex : /\ owner'[m] = t <=> m \in ToSet(keeping'[t])
                            /\ \/ owner'[m] = owner[m]
                               \/ owner[m] \in {t, NoThread} /\ owner'[m] \in {t, NoThread},
           pc'[t] = "dead" => keeping'[t] = <<>>
    PROVE  KeepingIsOwned'
  <1> USE DEF MInv
  <1>1. ASSUME NEW u \in Thread \ {t}
        PROVE  /\ \A m \in Mutex : owner'[m] = u <=> m \in ToSet(keeping'[u])
               /\ IsInjective(keeping'[u])
               /\ status'[u] = "KILLED" /\ u # Main => keeping'[u] = <<>>
    <2>1. u # NoThread /\ Bystander(u)  BY ThreadsAssumption DEF Others
    <2> QED  BY <2>1 DEF KeepingIsOwned, Bystander
  <1>2. status'[t] = "KILLED" /\ t # Main => keeping'[t] = <<>>
    BY DEF TInv, Places, PlaceFits
  <1> QED  BY <1>1, <1>2 DEF KeepingIsOwned
-----------------------------------------------------------------------------
(* Threads that do not sleep in rb_mutex_lock. *)

\* A step after which t is in none of the calls of this module.
LEMMA AwayStepInv ==
    ASSUME MInv, TInv', MutexTyped', KeepingIsOwned', NEW t \in Thread,
           Beside(t), QueuesKept(t), CondvarKept(t),
           pc[t] \notin {"lock_sleep", "dead"}, pc'[t] # "lock_sleep",
           frame'[t] \notin MutexFrame, t \notin waiting', UNCHANGED <<locking, patrol>>
    PROVE  MInv'
  <1> USE DEF MInv
  <1>1. WantFits(t)'  BY DEF WantFits, MutexFrame
  <1>2. LockSleepFits(t)'
    <2>1. LockSleepFits(t)  OBVIOUS
    <2> QED  BY <2>1 DEF LockSleepFits
  <1>3. patrol # t  BY ThreadsAssumption DEF PatrolSleeps, Gone
  <1>4. CondvarFits(t)'  BY DEF CondvarFits
  <1> QED  BY <1>1, <1>2, <1>3, <1>4, MutexStepInv

\* A thread that does not sleep is on no queue of a mutex.
LEMMA NotQueued ==
    ASSUME MInv, NEW t \in Thread, pc[t] \notin {"lock_sleep", "dead"}
    PROVE  \A m \in Mutex : t \notin ToSet(waitq[m])
  BY DEF MInv, WaitersFit, Gone

\* The queues of mutexes as they were.
LEMMA SameQueues ==
    ASSUME MInv, NEW t \in Thread, pc[t] \notin {"lock_sleep", "dead"}, UNCHANGED waitq
    PROVE  QueuesKept(t)
  BY NotQueued DEF MInv, WaitersFit, QueuesKept

\* delete_from_waitq.
LEMMA LeaveCondvarKeeps ==
    ASSUME MInv, NEW t \in Thread, LeaveCondvar(t)
    PROVE  /\ cvq' \in Seq(Thread) /\ waiting' \subseteq Thread /\ t \notin waiting'
           /\ \A u \in Thread \ {t} : u \in waiting' <=> u \in waiting
           /\ CondvarKept(t)
  <1>1. cvq \in Seq(Thread) /\ waiting \subseteq Thread  BY DEF MInv, MutexTyped
  <1>2. cvq' \in Seq(Thread) /\ \A u \in ToSet(cvq) \ {t} : u \in ToSet(cvq')
    BY <1>1, RemoveFirstElements DEF LeaveCondvar
  <1> QED  BY <1>1, <1>2 DEF LeaveCondvar, CondvarKept

\* A call of running code, or the end of a blocking one.
LEMMA AwakeTInv ==
    ASSUME TInv, NEW t \in Thread, NEW p \in {"run", "unwind"},
           pc[t] \in {"run", "lock_check", "back", "unwind"}, ~Joining(t),
           pc' = [pc EXCEPT ![t] = p], frame' = [frame EXCEPT ![t] = "none"],
           flag' \in [Thread -> BOOLEAN], \A u \in Thread \ {t} : flag[u] => flag'[u],
           running' \in Thread \cup {NoThread}, exc' \in [Thread -> {"none", "raise", "kill"}],
           UNCHANGED <<status, trap, saved, signals, pending, to_kill, sleeper, living,
                       join_list, target, fatal>>
    PROVE  TInv' /\ Others(t) /\ pc'[t] = p /\ frame'[t] = "none"
  <1> USE DEF TInv
  <1>1. Typed'  BY DEF Typed, Place, Frame
  <1>2. Others(t) /\ pc'[t] = p /\ frame'[t] = "none"  BY DEF Others, Bystander, Typed
  <1>3. PlaceFits(t)'  BY <1>2 DEF Places, PlaceFits, At
  <1> QED  BY <1>1, <1>2, <1>3, AwakeStep DEF Joining

\* mutex_locked.
LEMMA LockedKeeps ==
    ASSUME MInv, NEW t \in Thread, NEW m \in Mutex, owner[m] = NoThread, mutex_locked(t, m)
    PROVE  /\ owner' \in [Mutex -> Thread \cup {NoThread}] /\ keeping' \in [Thread -> Seq(Mutex)]
           /\ owner'[m] = t
           /\ \A n \in Mutex : owner'[n] = owner[n] \/ (owner[n] = NoThread /\ owner'[n] = t)
           /\ TInv' /\ Others(t) /\ pc'[t] # "dead" => KeepingIsOwned'
  <1> USE DEF MInv
  <1> DEFINE new == <<m>> \o keeping[t]
  <1>1. keeping[t] \in Seq(Mutex) /\ t # NoThread  BY ThreadsAssumption DEF MutexTyped
  <1>2. m \notin ToSet(keeping[t]) /\ IsInjective(keeping[t])
    BY <1>1 DEF KeepingIsOwned
  <1>3. new \in Seq(Mutex) /\ ToSet(new) = ToSet(keeping[t]) \cup {m} /\ IsInjective(new)
    BY <1>1, <1>2, ConsElements
  <1>4. keeping' = [keeping EXCEPT ![t] = new] /\ owner' = [owner EXCEPT ![m] = t]
    BY DEF mutex_locked
  <1> HIDE DEF new
  <1>5. keeping' \in [Thread -> Seq(Mutex)] /\ keeping'[t] = new
        /\ \A u \in Thread \ {t} : keeping'[u] = keeping[u]
    BY <1>3, <1>4 DEF MutexTyped
  <1>6. /\ owner' \in [Mutex -> Thread \cup {NoThread}] /\ owner'[m] = t
        /\ \A n \in Mutex \ {m} : owner'[n] = owner[n]
    BY <1>4 DEF MutexTyped
  <1>7. \A n \in Mutex : owner'[n] = t <=> n \in ToSet(keeping'[t])
    BY <1>3, <1>5, <1>6 DEF KeepingIsOwned
  <1>8. TInv' /\ Others(t) /\ pc'[t] # "dead" => KeepingIsOwned'
    BY <1>3, <1>5, <1>6, <1>7, KeepingStep
  <1> QED  BY <1>5, <1>6, <1>8

\* Nobody locks or unlocks.
LEMMA SameKeeping ==
    ASSUME MInv, TInv', NEW t \in Thread, Others(t), pc'[t] # "dead", UNCHANGED <<owner, keeping>>
    PROVE  KeepingIsOwned'
  BY KeepingStep DEF MInv, KeepingIsOwned

\* rb_mutex_unlock_th.
LEMMA UnlockedKeeps ==
    ASSUME MInv, NEW t \in Thread, NEW ms \in SUBSET Mutex, NEW rest \in Seq(Mutex),
           pc[t] \notin {"lock_sleep", "dead"},
           rb_mutex_unlock_th(t, ms, rest), \A m \in ms : owner[m] = t,
           IsInjective(rest), ToSet(rest) = ToSet(keeping[t]) \ ms,
           \A u \in FirstWaiters(ms) : flag'[u]
    PROVE  /\ owner' \in [Mutex -> Thread \cup {NoThread}] /\ keeping' \in [Thread -> Seq(Mutex)]
           /\ waitq' \in [Mutex -> Seq(Thread)]
           /\ \A m \in Mutex : owner'[m] = owner[m] \/ (owner[m] = t /\ owner'[m] = NoThread)
           /\ \A m \in ms : owner'[m] = NoThread
           /\ QueuesKept(t)
           /\ TInv' /\ Others(t) /\ (pc'[t] = "dead" => rest = <<>>) => KeepingIsOwned'
  <1> USE DEF MInv
  <1>1. t # NoThread /\ waitq \in [Mutex -> Seq(Thread)]  BY ThreadsAssumption DEF MutexTyped
  <1>2. /\ owner' = [m \in Mutex |-> IF m \in ms THEN NoThread ELSE owner[m]]
        /\ keeping' = [keeping EXCEPT ![t] = rest]
    BY DEF rb_mutex_unlock_th
  <1>3. owner' \in [Mutex -> Thread \cup {NoThread}]
        /\ \A m \in Mutex : owner'[m] = IF m \in ms THEN NoThread ELSE owner[m]
    BY <1>2 DEF MutexTyped
  <1>4. keeping' \in [Thread -> Seq(Mutex)] /\ keeping'[t] = rest
        /\ \A u \in Thread \ {t} : keeping'[u] = keeping[u]
    BY <1>2 DEF MutexTyped
  <1>5. \A m \in Mutex : owner'[m] = t <=> m \in ToSet(keeping'[t])
    BY <1>1, <1>3, <1>4 DEF KeepingIsOwned
  <1>6. TInv' /\ Others(t) /\ (pc'[t] = "dead" => rest = <<>>) => KeepingIsOwned'
    BY <1>3, <1>4, <1>5, KeepingStep
  <1> DEFINE gone(m) == m \in ms /\ waitq[m] # <<>>
             new(m) == Tail(waitq[m])
  <1>7. ASSUME NEW m \in Mutex, gone(m)
        PROVE  /\ new(m) \in Seq(Thread) /\ ToSet(new(m)) \subseteq ToSet(waitq[m])
               /\ IsInjective(waitq[m]) => IsInjective(new(m))
               /\ \A u \in ToSet(waitq[m]) : u \in ToSet(new(m)) \/ flag'[u]
    <2>1. waitq[m] \in Seq(Thread) /\ waitq[m] # <<>>  BY <1>1, <1>7
    <2>2. flag'[Head(waitq[m])]  BY <1>7 DEF FirstWaiters
    <2> QED  BY <2>1, <2>2, TailElements
  <1>8. waitq' = [m \in Mutex |-> IF gone(m) THEN new(m) ELSE waitq[m]]
    BY DEF rb_mutex_unlock_th
  <1> HIDE DEF gone, new
  <1>9. waitq' \in [Mutex -> Seq(Thread)]  BY <1>1, <1>7, <1>8
  <1>10. QueuesKept(t)
    <2> SUFFICES ASSUME NEW m \in Mutex
                 PROVE  /\ IsInjective(waitq'[m])
                        /\ ToSet(waitq'[m]) \subseteq ToSet(waitq[m])
                        /\ \A u \in ToSet(waitq[m]) \ {t} : u \in ToSet(waitq'[m]) \/ flag'[u]
      BY NotQueued DEF QueuesKept
    <2>1. IsInjective(waitq[m])  BY DEF WaitersFit
    <2>2. CASE gone(m)  BY <1>7, <1>8, <2>1, <2>2
    <2>3. CASE ~gone(m)  BY <1>8, <2>1, <2>3
    <2> QED  BY <2>2, <2>3
  <1> QED  BY <1>3, <1>4, <1>6, <1>9, <1>10

\* It unlocks one mutex.
LEMMA UnlockOneKeeps ==
    ASSUME MInv, NEW t \in Thread, NEW m \in Mutex, owner[m] = t, pc[t] \notin {"lock_sleep", "dead"},
           rb_mutex_unlock_th(t, {m}, RemoveFirst(keeping[t], m)),
           flag' = rb_threadptr_interrupt(flag, FirstWaiters({m}))
    PROVE  /\ owner' \in [Mutex -> Thread \cup {NoThread}] /\ keeping' \in [Thread -> Seq(Mutex)]
           /\ waitq' \in [Mutex -> Seq(Thread)]
           /\ owner'[m] = NoThread
           /\ \A n \in Mutex : owner'[n] = owner[n] \/ owner'[n] = NoThread
           /\ QueuesKept(t)
           /\ flag' \in [Thread -> BOOLEAN] /\ (\A u \in Thread : flag[u] => flag'[u])
           /\ TInv' /\ Others(t) /\ pc'[t] # "dead" => KeepingIsOwned'
  <1> USE DEF MInv
  <1> DEFINE rest == RemoveFirst(keeping[t], m)
  <1>1. keeping[t] \in Seq(Mutex) /\ IsInjective(keeping[t])  BY DEF MutexTyped, KeepingIsOwned
  <1>2. /\ rest \in Seq(Mutex) /\ IsInjective(rest)
        /\ ToSet(rest) = ToSet(keeping[t]) \ {m}
    BY <1>1, RemoveFirstElements
  <1>3. \A u \in FirstWaiters({m}) : u \in Thread
    <2>1. waitq[m] \in Seq(Thread)  BY DEF MutexTyped
    <2>2. waitq[m] # <<>> => Head(waitq[m]) \in Thread  BY <2>1, HeadTailProperties
    <2> QED  BY <2>2 DEF FirstWaiters
  <1>4. /\ flag' \in [Thread -> BOOLEAN] /\ (\A u \in Thread : flag[u] => flag'[u])
        /\ \A u \in FirstWaiters({m}) : flag'[u]
    BY <1>3 DEF rb_threadptr_interrupt
  <1>5. {m} \in SUBSET Mutex /\ \A n \in {m} : owner[n] = t  OBVIOUS
  <1>6. rb_mutex_unlock_th(t, {m}, rest)  OBVIOUS
  <1> HIDE DEF rest
  <1> QED  BY <1>2, <1>4, <1>5, <1>6, UnlockedKeeps

\* The mutex is the caller's, and the call returns.
LEMMA LockReturnInv ==
    ASSUME MInv, NEW t \in Thread, NEW m \in Mutex, NEW f, LockReturn(t, m, f),
           pc[t] \in {"run", "lock_check", "back", "unwind"}, ~Joining(t),
           \/ owner[m] = NoThread /\ mutex_locked(t, m)
           \/ UNCHANGED <<owner, keeping>>,
           flag' \in [Thread -> BOOLEAN], \A u \in Thread \ {t} : flag[u] => flag'[u],
           UNCHANGED <<waitq, locking, patrol>>,
           UNCHANGED <<exc, status, trap, saved, signals, pending, to_kill, sleeper, living,
                       join_list, target, fatal>>
    PROVE  MInv'
  <1> USE DEF MInv
  <1>1. PICK p \in {"run", "unwind"} :
            pc' = [pc EXCEPT ![t] = p] /\ running' \in Thread \cup {NoThread}
    BY DEF LockReturn, Return
  <1>2. /\ frame' = [frame EXCEPT ![t] = "none"] /\ want' = [want EXCEPT ![t] = NoMutex]
        /\ LeaveCondvar(t)
    BY DEF LockReturn, Return
  <1>3. exc' \in [Thread -> {"none", "raise", "kill"}]  BY DEF TInv, Typed
  <1>4. TInv' /\ Others(t) /\ pc'[t] = p /\ frame'[t] = "none"
    BY <1>1, <1>2, <1>3, AwakeTInv
  <1>5. /\ cvq' \in Seq(Thread) /\ waiting' \subseteq Thread /\ t \notin waiting'
        /\ \A u \in Thread \ {t} : u \in waiting' <=> u \in waiting
        /\ CondvarKept(t)
    BY <1>2, LeaveCondvarKeeps
  <1>6. /\ owner' \in [Mutex -> Thread \cup {NoThread}] /\ keeping' \in [Thread -> Seq(Mutex)]
        /\ KeepingIsOwned'
        /\ \A n \in Mutex : owner'[n] = owner[n] \/ owner'[n] = t
    <2>1. CASE owner[m] = NoThread /\ mutex_locked(t, m)
      BY <1>4, <2>1, LockedKeeps
    <2>2. CASE UNCHANGED <<owner, keeping>>
      BY <1>4, <2>2, SameKeeping DEF MutexTyped
    <2> QED  BY <2>1, <2>2
  <1>7. blocks' \in [Thread -> Seq(Mutex)]
    <2> DEFINE new == <<m>> \o blocks[t]
    <2>1. new \in Seq(Mutex)  BY ConsElements DEF MutexTyped
    <2>2. blocks' = IF f = "synchronize" THEN [blocks EXCEPT ![t] = new] ELSE blocks
      BY DEF LockReturn
    <2> HIDE DEF new
    <2> QED  BY <2>1, <2>2 DEF MutexTyped
  <1>8. want' \in [Thread -> Mutex \cup {NoMutex}] /\ \A u \in Thread \ {t} : want'[u] = want[u]
    BY <1>2 DEF MutexTyped
  <1>9. MutexTyped'  BY <1>5, <1>6, <1>7, <1>8 DEF MutexTyped
  <1>10. Beside(t)  BY <1>4, <1>5, <1>6, <1>8 DEF Beside
  <1>11. QueuesKept(t)  BY SameQueues
  <1>12. frame'[t] \notin MutexFrame  BY <1>4 DEF MutexFrame, LockFrame, MutexSleepFrame
  <1> QED  BY <1>4, <1>5, <1>6, <1>9, <1>10, <1>11, <1>12, AwayStepInv
-----------------------------------------------------------------------------
(* The sleep of rb_mutex_lock. *)

\* A thread goes into that sleep: one more sleeper is counted.
LEMMA LockSleepTInv ==
    ASSUME TInv, NEW t \in Thread, NEW f \in LockFrame,
           pc[t] \in {"run", "lock_check", "back", "unwind"}, ~Joining(t),
           frame' = [frame EXCEPT ![t] = f], status' = [status EXCEPT ![t] = "STOPPED_FOREVER"],
           sleeper' = sleeper + 1, pc' = [pc EXCEPT ![t] = "lock_sleep"], running' = NoThread,
           flag' \in [Thread -> BOOLEAN], \A u \in Thread \ {t} : flag[u] => flag'[u],
           UNCHANGED <<trap, saved, signals, pending, exc, to_kill, living, join_list, target, fatal>>
    PROVE  TInv' /\ Others(t)
  <1> USE DEF TInv
  <1>1. Typed'  BY DEF Typed, Place, Frame, Status, LockFrame
  <1>2. /\ Others(t) /\ pc'[t] = "lock_sleep" /\ frame'[t] = f /\ status'[t] = "STOPPED_FOREVER"
    BY DEF Others, Bystander, Typed
  <1>3. PlaceFits(t)' /\ ~Joining(t)'  BY <1>2 DEF PlaceFits, At, LockFrame, Joining
  <1>4. status[t] # "KILLED" /\ t \in living  BY DEF Places, PlaceFits
  <1>5. Places'  BY <1>1, <1>2, <1>3, PlacesKept
  <1>6. JoinLists'  BY <1>2, <1>3, <1>4, JoinListsKept
  <1>7. JoinersSeeEnd'
    <2>1. SeesEnd(t)'  BY <1>2 DEF SeesEnd, Slumbering
    <2> QED  BY <1>2, <1>3, <1>4, <2>1, SeesEndKept
  <1>8. WakeupReachesSleeper'  BY <1>2, WakeupKept DEF Slumbering
  <1>9. SleeperCount'
    <2>1. ~Counts(t) /\ Counts(t)' /\ \A u \in Thread \ {t} : Counts(u)' <=> Counts(u)
      BY <1>2 DEF Counts, Others, Bystander
    <2>2. Cardinality(Counted') = Cardinality(Counted) + 1  BY <1>4, <2>1, OneMoreCounted
    <2>3. Cardinality(Counted) \in Nat  BY CountedFinite
    <2> QED  BY <2>2, <2>3 DEF SleeperCount
  <1> QED  BY <1>1, <1>2, <1>5, <1>6, <1>7, <1>8, <1>9

\* It is on the queue of the mutex then.
LEMMA LockSleepInv ==
    ASSUME MInv, NEW t \in Thread, NEW m \in Mutex, NEW f \in LockFrame, LockSleep(t, m, f),
           owner[m] # t, t \in waiting => f = "lock",
           pc[t] \in {"run", "lock_check", "back", "unwind"}, ~Joining(t),
           flag' \in [Thread -> BOOLEAN], \A u \in Thread \ {t} : flag[u] => flag'[u],
           UNCHANGED <<owner, keeping, blocks, cvq, waiting>>,
           UNCHANGED <<trap, saved, signals, pending, exc, to_kill, living, join_list, target, fatal>>
    PROVE  MInv'
  <1> USE DEF MInv
  <1> DEFINE new == Append(waitq[m], t)
  <1>1. /\ frame' = [frame EXCEPT ![t] = f] /\ status' = [status EXCEPT ![t] = "STOPPED_FOREVER"]
        /\ sleeper' = sleeper + 1 /\ pc' = [pc EXCEPT ![t] = "lock_sleep"] /\ running' = NoThread
        /\ want' = [want EXCEPT ![t] = m] /\ locking' = [locking EXCEPT ![t] = m]
        /\ waitq' = [waitq EXCEPT ![m] = new]
        /\ patrol' \in {patrol, t}
    BY DEF LockSleep
  <1>2. /\ new \in Seq(Thread) /\ ToSet(new) = ToSet(waitq[m]) \cup {t}
        /\ IsInjective(new)
    <2>1. waitq[m] \in Seq(Thread)  BY DEF MutexTyped
    <2>2. t \notin ToSet(waitq[m]) /\ IsInjective(waitq[m])  BY NotQueued DEF WaitersFit
    <2> QED  BY <2>1, <2>2, AppendElements
  <1> HIDE DEF new
  <1>3. TInv' /\ Others(t)  BY <1>1, LockSleepTInv
  <1>4. /\ pc'[t] = "lock_sleep" /\ frame'[t] = f /\ status'[t] = "STOPPED_FOREVER"
        /\ want'[t] = m /\ locking'[t] = m
        /\ \A u \in Thread \ {t} : want'[u] = want[u] /\ locking'[u] = locking[u]
    BY <1>1 DEF MutexTyped, TInv, Typed
  <1>5. waitq'[m] = new /\ \A n \in Mutex \ {m} : waitq'[n] = waitq[n]
    BY <1>1 DEF MutexTyped
  <1>6. MutexTyped'  BY <1>1, <1>2 DEF MutexTyped
  <1>7. KeepingIsOwned'  BY <1>3, <1>4, SameKeeping
  <1>8. Beside(t)  BY <1>3, <1>4 DEF Beside
  <1>9. QueuesKept(t)
    <2> SUFFICES ASSUME NEW n \in Mutex
                 PROVE  /\ IsInjective(waitq'[n])
                        /\ \A u \in ToSet(waitq'[n]) \ {t} : u \in ToSet(waitq[n])
                        /\ \A u \in ToSet(waitq[n]) \ {t} : u \in ToSet(waitq'[n]) \/ flag'[u]
                        /\ t \in ToSet(waitq'[n]) => pc'[t] = "lock_sleep" /\ want'[t] = n
      BY DEF QueuesKept
    <2>1. CASE n = m  BY <1>2, <1>4, <1>5, <2>1
    <2>2. CASE n # m  BY <1>5, <2>2, NotQueued DEF WaitersFit
    <2> QED  BY <2>1, <2>2
  <1>10. CondvarKept(t)  BY DEF CondvarKept
  <1>11. WantFits(t)'
    BY <1>4 DEF WantFits, MutexFrame, LockFrame, MutexSleepFrame
  <1>12. LockSleepFits(t)'
    BY <1>2, <1>4, <1>5 DEF LockSleepFits
  <1>13. CondvarFits(t)'
    BY <1>4 DEF CondvarFits, MaySleepOn, Slumbering
  <1> QED  BY <1>1, <1>3, <1>4, <1>6, <1>7, <1>8, <1>9, <1>10, <1>11, <1>12, <1>13, MutexStepInv

\* A thread comes back from that sleep, which the patrol thread may do with fatal raised.
LEMMA LockWakeUpTInv ==
    ASSUME MInv, NEW t \in Thread, NEW cause \in BOOLEAN, LockWakeUp(t, cause)
    PROVE  /\ TInv' /\ Others(t) /\ pc[t] = "lock_sleep" /\ pc'[t] = "lock_check"
           /\ frame'[t] = frame[t]
  <1> USE DEF MInv, TInv
  <1> DEFINE ow == [owner EXCEPT ![want[t]] = IF @ = NoThread THEN t ELSE @]
             served == Served(ow, list_del(t, want[t]), [locking EXCEPT ![t] = NoMutex])
  <1>1. /\ pc[t] = "lock_sleep" /\ pc' = [pc EXCEPT ![t] = "lock_check"] /\ running' = NoThread
        /\ status' = [status EXCEPT ![t] = IF @ = "STOPPED_FOREVER" THEN "RUNNABLE" ELSE @]
        /\ \/ rb_check_deadlock(t, status, flag, sleeper, living, served, NoThread, 1)
           \/ sleeper' = sleeper - 1 /\ UNCHANGED <<pending, flag, fatal>>
        /\ UNCHANGED <<frame, trap, saved, signals, exc, to_kill, living, join_list, target>>
    BY DEF LockWakeUp
  <1> HIDE DEF served
  <1>2. /\ pending' \in [Thread -> Seq({"raise", "kill", "fatal"})]
        /\ flag' \in [Thread -> BOOLEAN] /\ (\A u \in Thread : flag[u] => flag'[u])
        /\ fatal' \in BOOLEAN
    <2>1. CASE rb_check_deadlock(t, status, flag, sleeper, living, served, NoThread, 1)
      <3>1. flag \in [Thread -> BOOLEAN]  BY DEF Typed
      <3> QED  BY <2>1, <3>1, CheckDeadlockType
    <2>2. CASE UNCHANGED <<pending, flag, fatal>>
      BY <2>2 DEF Typed
    <2> QED  BY <1>1, <2>1, <2>2
  <1>3. Typed'  BY <1>1, <1>2 DEF Typed, Place, Status
  <1>4. /\ pc'[t] = "lock_check" /\ frame'[t] = frame[t] /\ Others(t)
    BY <1>1, <1>2 DEF Others, Bystander, Typed
  <1>5. status[t] # "KILLED" /\ status'[t] # "KILLED" /\ t \in living /\ frame[t] \in LockFrame
    BY <1>1 DEF Places, PlaceFits, At, LockFrame, Typed
  <1>6. PlaceFits(t)' /\ ~Joining(t) /\ ~Joining(t)'
    BY <1>4, <1>5 DEF PlaceFits, At, LockFrame, Joining
  <1>7. Places'  BY <1>1, <1>3, <1>4, <1>6, PlacesKept
  <1>8. JoinLists'  BY <1>1, <1>4, <1>5, <1>6, JoinListsKept
  <1>9. JoinersSeeEnd'
    <2>1. SeesEnd(t)'  BY <1>4 DEF SeesEnd, Slumbering
    <2> QED  BY <1>1, <1>4, <1>5, <1>6, <2>1, SeesEndKept
  <1>10. WakeupReachesSleeper'  BY <1>1, <1>4, WakeupKept DEF Slumbering
  <1>11. SleeperCount'
    <2>1. Counts(t) /\ ~Counts(t)' /\ \A u \in Thread \ {t} : Counts(u)' <=> Counts(u)
      BY <1>1, <1>4 DEF Counts, Others, Bystander
    <2>2. Cardinality(Counted') = Cardinality(Counted) - 1  BY <1>1, <1>5, <2>1, OneLessCounted
    <2>3. /\ Cardinality(Counted) \in Nat /\ Cardinality(living) \in Nat
          /\ Cardinality(Counted) <= Cardinality(living)
      BY CountedFinite
    <2>4. CASE sleeper' = sleeper - 1 /\ UNCHANGED fatal
      BY <2>2, <2>3, <2>4 DEF SleeperCount
    <2>5. CASE rb_check_deadlock(t, status, flag, sleeper, living, served, NoThread, 1)
      <3>0. Cardinality(Counted') \in Nat
        <4>1. Counted' \subseteq living  BY <1>1 DEF Counted
        <4> QED  BY <4>1, CountedFinite, FS_Subset, FS_CardinalityType
      <3>1. /\ sleeper \in Int /\ 1 \in Nat
            /\ sleeper - 1 \in {Cardinality(Counted'), Cardinality(Counted') - 1}
            /\ ~fatal => sleeper - 1 = Cardinality(Counted')
            /\ Cardinality(Counted') + 1 <= Cardinality(living)
        BY <2>2, <2>3, <3>0 DEF SleeperCount
      <3> QED  BY <2>3, <2>5, <3>0, <3>1, CheckedCount
    <2> QED  BY <1>1, <2>4, <2>5
  <1> QED  BY <1>1, <1>3, <1>4, <1>7, <1>8, <1>9, <1>10, <1>11

\* It has left the queue then, and has the mutex if that was free.
LEMMA LockWakeUpInv ==
    ASSUME MInv, NEW t \in Thread, NEW cause \in BOOLEAN, LockWakeUp(t, cause)
    PROVE  MInv'
  <1> USE DEF MInv
  <1> DEFINE m == want[t]
             new == RemoveFirst(waitq[m], t)
  <1>1. /\ TInv' /\ Others(t) /\ pc[t] = "lock_sleep" /\ pc'[t] = "lock_check"
        /\ frame'[t] = frame[t]
    BY LockWakeUpTInv
  <1>2. m \in Mutex /\ frame[t] \in LockFrame
    <2>1. frame[t] \in LockFrame  BY <1>1 DEF TInv, Places, PlaceFits, At, LockFrame
    <2>2. WantFits(t)  OBVIOUS
    <2> QED  BY <2>1, <2>2 DEF WantFits, MutexFrame
  <1>3. owner[m] # t
    <2>1. LockSleepFits(t)  OBVIOUS
    <2> QED  BY <1>1, <2>1 DEF LockSleepFits
  <1>4. /\ waitq' = [waitq EXCEPT ![m] = new]
        /\ locking' = [locking EXCEPT ![t] = NoMutex]
        /\ patrol' = IF patrol = t THEN NoThread ELSE patrol
        /\ UNCHANGED <<trap, signals, want, blocks, cvq, waiting>>
    BY DEF LockWakeUp, list_del
  <1>5. \/ owner[m] = NoThread /\ mutex_locked(t, m)
        \/ UNCHANGED <<owner, keeping>>
    <2> DEFINE ow == [owner EXCEPT ![m] = IF @ = NoThread THEN t ELSE @]
    <2>1. owner' = ow /\ keeping' = IF ow[m] = t THEN [keeping EXCEPT ![t] = <<m>> \o @] ELSE keeping
      BY DEF LockWakeUp
    <2>2. CASE owner[m] = NoThread
      <3>1. ow = [owner EXCEPT ![m] = t] /\ ow[m] = t  BY <1>2, <2>2 DEF MutexTyped
      <3> QED  BY <2>1, <2>2, <3>1 DEF mutex_locked
    <2>3. CASE owner[m] # NoThread
      <3>1. ow = owner  BY <2>3 DEF MutexTyped
      <3> QED  BY <1>3, <2>1, <3>1
    <2> QED  BY <2>2, <2>3
  <1>6. /\ new \in Seq(Thread) /\ ToSet(new) = ToSet(waitq[m]) \ {t} /\ IsInjective(new)
    <2>1. waitq[m] \in Seq(Thread) /\ IsInjective(waitq[m])  BY <1>2 DEF MutexTyped, WaitersFit
    <2> QED  BY <2>1, RemoveFirstElements
  <1> HIDE DEF m, new
  <1>7. /\ owner' \in [Mutex -> Thread \cup {NoThread}] /\ keeping' \in [Thread -> Seq(Mutex)]
        /\ KeepingIsOwned'
        /\ \A n \in Mutex : owner'[n] = owner[n] \/ owner'[n] = t
    <2>1. CASE owner[m] = NoThread /\ mutex_locked(t, m)
      BY <1>1, <1>2, <2>1, LockedKeeps
    <2>2. CASE UNCHANGED <<owner, keeping>>
      BY <1>1, <2>2, SameKeeping DEF MutexTyped
    <2> QED  BY <1>5, <2>1, <2>2
  <1>8. MutexTyped'  BY <1>4, <1>6, <1>7 DEF MutexTyped
  <1>9. Beside(t)  BY <1>1, <1>4, <1>7 DEF Beside, MutexTyped
  <1>10. QueuesKept(t)
    <2> SUFFICES ASSUME NEW n \in Mutex
                 PROVE  /\ IsInjective(waitq'[n])
                        /\ \A u \in ToSet(waitq'[n]) \ {t} : u \in ToSet(waitq[n])
                        /\ \A u \in ToSet(waitq[n]) \ {t} : u \in ToSet(waitq'[n]) \/ flag'[u]
                        /\ t \notin ToSet(waitq'[n])
      BY DEF QueuesKept
    <2>0. waitq'[m] = new /\ \A k \in Mutex \ {m} : waitq'[k] = waitq[k]
      BY <1>2, <1>4 DEF MutexTyped
    <2>1. CASE n = m  BY <1>6, <2>0, <2>1
    <2>2. CASE n # m
      <3>1. t \notin ToSet(waitq[n])  BY <1>1, <2>2 DEF WaitersFit, Gone, m
      <3> QED  BY <2>0, <2>2, <3>1 DEF WaitersFit
    <2> QED  BY <2>1, <2>2
  <1>11. CondvarKept(t)  BY <1>4 DEF CondvarKept
  <1>12. WantFits(t)'
    <2>1. WantFits(t)  OBVIOUS
    <2> QED  BY <1>1, <1>2, <1>4, <2>1 DEF WantFits, MutexFrame, LockFrame, MutexSleepFrame
  <1>13. LockSleepFits(t)'  BY <1>1, <1>4 DEF LockSleepFits, MutexTyped
  <1>14. CondvarFits(t)'  BY <1>1 DEF CondvarFits, MaySleepOn, Slumbering
  <1>15. patrol' \in {patrol, t, NoThread} /\ patrol' # t  BY <1>4, ThreadsAssumption
  <1> QED
    BY <1>1, <1>7, <1>8, <1>9, <1>10, <1>11, <1>12, <1>13, <1>14, <1>15, MutexStepInv
-----------------------------------------------------------------------------
(* The operations. *)

\* Whoever is outside all calls, or in rb_mutex_lock, waits for no thread.
LEMMA InNoJoin ==
    ASSUME TInv, NEW t \in Thread,
           \/ pc[t] \in {"run", "lock_sleep", "lock_check"}
           \/ frame[t] \in {"none"} \cup MutexFrame
    PROVE  ~Joining(t)
  BY DEF TInv, Places, PlaceFits, At, Joining, MutexFrame, LockFrame, MutexSleepFrame

\* Outside the calls of this module, t waits neither for a mutex nor for a signal.
LEMMA OutsideCalls ==
    ASSUME MInv, NEW t \in Thread, frame[t] = "none"
    PROVE  t \notin waiting
  <1>1. WantFits(t)  BY DEF MInv
  <1> QED  BY <1>1 DEF WantFits, MutexSleepFrame

\* The caller raises ThreadError.
LEMMA ThreadErrorInv ==
    ASSUME MInv, NEW t \in Thread, RaiseError(t), pc[t] \in {"run", "unwind"}, frame[t] = "none",
           UNCHANGED <<frame, status, flag, trap, saved, signals, pending, to_kill, sleeper, living,
                       join_list, target, fatal>>,
           blocks' \in [Thread -> Seq(Mutex)],
           UNCHANGED <<owner, waitq, keeping, locking, patrol, want, cvq, waiting>>
    PROVE  MInv'
  <1> USE DEF MInv
  <1>1. /\ pc' = [pc EXCEPT ![t] = "unwind"] /\ running' \in Thread \cup {NoThread}
        /\ exc' \in [Thread -> {"none", "raise", "kill"}]
    BY DEF RaiseError, TInv, Typed
  <1>2. /\ frame' = [frame EXCEPT ![t] = "none"]
        /\ flag' \in [Thread -> BOOLEAN] /\ \A u \in Thread \ {t} : flag[u] => flag'[u]
    BY DEF TInv, Typed
  <1>3. ~Joining(t)  BY InNoJoin
  <1>4. TInv' /\ Others(t) /\ pc'[t] = "unwind" /\ frame'[t] = "none"
    BY <1>1, <1>2, <1>3, AwakeTInv
  <1>5. MutexTyped'  BY DEF MutexTyped
  <1>6. KeepingIsOwned'  BY <1>4, SameKeeping
  <1>7. QueuesKept(t)  BY SameQueues
  <1>8. Beside(t) /\ CondvarKept(t)  BY <1>4 DEF Beside, CondvarKept
  <1>9. frame'[t] \notin MutexFrame /\ t \notin waiting'
    BY <1>4, OutsideCalls DEF MutexFrame, LockFrame, MutexSleepFrame
  <1> QED  BY <1>4, <1>5, <1>6, <1>7, <1>8, <1>9, AwayStepInv

\* Mutex#lock and Mutex#synchronize.
LEMMA LockInv ==
    ASSUME MInv, NEW t \in Thread, NEW m \in Mutex, rb_mutex_lock(t, m)
    PROVE  MInv'
  <1> USE DEF MInv
  <1>1. PICK f \in Calls \cap {"lock", "synchronize"} :
          \/ /\ owner[m] = NoThread
             /\ mutex_locked(t, m)
             /\ LockReturn(t, m, f)
             /\ UNCHANGED <<waitq, locking, patrol, status, flag, sleeper, exc>>
          \/ /\ owner[m] = t
             /\ RaiseError(t)
             /\ UNCHANGED <<lockVars, status, frame, flag, sleeper>>
          \/ /\ owner[m] \notin {t, NoThread}
             /\ LockSleep(t, m, f)
             /\ UNCHANGED <<owner, keeping, blocks, cvq, waiting, flag, exc>>
    BY DEF rb_mutex_lock
  <1>2. /\ pc[t] = "run"
        /\ UNCHANGED <<trap, saved, signals, pending, to_kill, living, join_list, target, fatal>>
    BY DEF rb_mutex_lock, Idle
  <1>3. ~Joining(t) /\ frame[t] = "none" /\ flag \in [Thread -> BOOLEAN] /\ t \notin waiting
    <2>1. frame[t] = "none"  BY <1>2 DEF TInv, Places, PlaceFits, At
    <2> QED  BY <1>2, <2>1, InNoJoin, OutsideCalls DEF TInv, Typed
  <1>4. CASE /\ owner[m] = NoThread
             /\ mutex_locked(t, m)
             /\ LockReturn(t, m, f)
             /\ UNCHANGED <<waitq, locking, patrol, status, flag, sleeper, exc>>
    BY <1>2, <1>3, <1>4, LockReturnInv
  <1>5. CASE RaiseError(t) /\ UNCHANGED <<lockVars, status, frame, flag, sleeper>>
    <2>1. blocks' \in [Thread -> Seq(Mutex)]  BY <1>5 DEF lockVars, MutexTyped
    <2> QED  BY <1>2, <1>3, <1>5, <2>1, ThreadErrorInv DEF lockVars
  <1>6. CASE /\ owner[m] \notin {t, NoThread}
             /\ LockSleep(t, m, f)
             /\ UNCHANGED <<owner, keeping, blocks, cvq, waiting, flag, exc>>
    BY <1>1, <1>2, <1>3, <1>6, LockSleepInv DEF LockFrame
  <1> QED  BY <1>1, <1>4, <1>5, <1>6

\* Mutex#try_lock.
LEMMA TryLockInv ==
    ASSUME MInv, NEW t \in Thread, NEW m \in Mutex, rb_mutex_trylock(t, m)
    PROVE  MInv'
  <1> USE DEF MInv
  <1>1. /\ pc[t] = "run" /\ owner[m] = NoThread /\ mutex_locked(t, m)
        /\ UNCHANGED core /\ UNCHANGED <<waitq, locking, patrol, want, blocks, cvq, waiting>>
    BY DEF rb_mutex_trylock, Idle
  <1>2. TInv'  BY <1>1, SameTInv
  <1>3. Others(t) /\ pc'[t] = "run" /\ UNCHANGED <<trap, signals>> /\ frame'[t] = "none"
    BY <1>1 DEF core, Others, Bystander, TInv, Places, PlaceFits, At
  <1>4. /\ owner' \in [Mutex -> Thread \cup {NoThread}] /\ keeping' \in [Thread -> Seq(Mutex)]
        /\ \A n \in Mutex : owner'[n] = owner[n] \/ owner'[n] = t
        /\ KeepingIsOwned'
    BY <1>1, <1>2, <1>3, LockedKeeps
  <1>5. MutexTyped'  BY <1>1, <1>4 DEF MutexTyped
  <1>6. Beside(t) /\ CondvarKept(t)  BY <1>1, <1>3, <1>4 DEF Beside, CondvarKept
  <1>7. QueuesKept(t)  BY <1>1, SameQueues
  <1>8. frame'[t] \notin MutexFrame /\ t \notin waiting'
    BY <1>1, <1>3, OutsideCalls DEF MutexFrame, LockFrame, MutexSleepFrame, core
  <1> QED  BY <1>1, <1>2, <1>3, <1>4, <1>5, <1>6, <1>7, <1>8, AwayStepInv

\* The CHECK_INTS of rb_mutex_lock passes.
LEMMA LockCheckInv ==
    ASSUME MInv, NEW t \in Thread, LockCheck(t)
    PROVE  MInv'
  <1> USE DEF MInv
  <1>1. /\ pc[t] = "lock_check" /\ flag' = [flag EXCEPT ![t] = FALSE]
        /\ UNCHANGED <<trap, saved, signals, pending, exc, to_kill, living, join_list, target,
                       fatal, owner, keeping>>
    BY DEF LockCheck
  <1>2. /\ flag' \in [Thread -> BOOLEAN] /\ \A u \in Thread \ {t} : flag[u] => flag'[u]
    BY <1>1 DEF TInv, Typed
  <1>3. ~Joining(t) /\ frame[t] \in LockFrame
    BY <1>1, InNoJoin DEF TInv, Places, PlaceFits, At, LockFrame
  <1>4. want[t] \in Mutex /\ (t \in waiting => frame[t] = "lock")
    <2>1. WantFits(t)  OBVIOUS
    <2> QED  BY <1>3, <2>1 DEF WantFits, MutexFrame, LockFrame, MutexSleepFrame
  <1>5. CASE owner[want[t]] = t
    <2>1. LockReturn(t, want[t], frame[t]) /\ UNCHANGED <<status, sleeper, waitq, locking, patrol>>
      BY <1>5 DEF LockCheck
    <2> QED  BY <1>1, <1>2, <1>3, <1>4, <2>1, LockReturnInv
  <1>6. CASE owner[want[t]] # t
    <2>1. LockSleep(t, want[t], frame[t]) /\ UNCHANGED <<blocks, cvq, waiting>>
      BY <1>6 DEF LockCheck
    <2> QED  BY <1>1, <1>2, <1>3, <1>4, <1>6, <2>1, LockSleepInv
  <1> QED  BY <1>5, <1>6

\* An exception leaves rb_mutex_lock.
LEMMA UnwindLockInv ==
    ASSUME MInv, NEW t \in Thread, UnwindLock(t)
    PROVE  MInv'
  <1> USE DEF MInv
  <1>1. /\ pc[t] = "unwind" /\ frame[t] \in LockFrame
        /\ frame' = [frame EXCEPT ![t] = "none"] /\ want' = [want EXCEPT ![t] = NoMutex]
        /\ LeaveCondvar(t)
        /\ UNCHANGED <<running, pc, status, flag, trap, saved, signals, pending, exc, to_kill,
                       sleeper, living, join_list, target, fatal,
                       owner, waitq, keeping, locking, patrol, blocks>>
    BY DEF UnwindLock, LockFrame
  <1>2. /\ pc' = [pc EXCEPT ![t] = "unwind"] /\ running' \in Thread \cup {NoThread}
        /\ exc' \in [Thread -> {"none", "raise", "kill"}]
        /\ flag' \in [Thread -> BOOLEAN] /\ \A u \in Thread \ {t} : flag[u] => flag'[u]
    BY <1>1 DEF TInv, Typed
  <1>3. ~Joining(t)  BY <1>1, InNoJoin DEF MutexFrame
  <1>4. TInv' /\ Others(t) /\ pc'[t] = "unwind" /\ frame'[t] = "none"
    BY <1>1, <1>2, <1>3, AwakeTInv
  <1>5. /\ cvq' \in Seq(Thread) /\ waiting' \subseteq Thread /\ t \notin waiting'
        /\ \A u \in Thread \ {t} : u \in waiting' <=> u \in waiting
        /\ CondvarKept(t)
    BY <1>1, LeaveCondvarKeeps
  <1>6. want' \in [Thread -> Mutex \cup {NoMutex}] /\ \A u \in Thread \ {t} : want'[u] = want[u]
    BY <1>1 DEF MutexTyped
  <1>7. MutexTyped'  BY <1>1, <1>5, <1>6 DEF MutexTyped
  <1>8. KeepingIsOwned'  BY <1>1, <1>4, SameKeeping
  <1>9. Beside(t)  BY <1>1, <1>4, <1>5, <1>6 DEF Beside
  <1>10. QueuesKept(t)  BY <1>1, SameQueues
  <1>11. frame'[t] \notin MutexFrame  BY <1>4 DEF MutexFrame, LockFrame, MutexSleepFrame
  <1> QED  BY <1>1, <1>4, <1>5, <1>7, <1>8, <1>9, <1>10, <1>11, AwayStepInv

\* rb_mutex_unlock, or the ThreadError it raises.
LEMMA UnlockInv ==
    ASSUME MInv, NEW t \in Thread, NEW m \in Mutex, Unlock(t, m), pc[t] \in {"run", "unwind"},
           frame[t] = "none", blocks' \in [Thread -> Seq(Mutex)],
           UNCHANGED <<frame, status, trap, saved, signals, pending, to_kill, sleeper, living,
                       join_list, target, fatal, locking, patrol, want, cvq, waiting>>
    PROVE  MInv'
  <1> USE DEF MInv
  <1>1. CASE owner[m] # t
    <2>1. RaiseError(t) /\ UNCHANGED <<owner, waitq, keeping, flag>>
      BY <1>1 DEF Unlock
    <2> QED  BY <2>1, ThreadErrorInv
  <1>2. CASE owner[m] = t
    <2>1. /\ rb_mutex_unlock_th(t, {m}, RemoveFirst(keeping[t], m))
          /\ flag' = rb_threadptr_interrupt(flag, FirstWaiters({m}))
          /\ UNCHANGED <<exc, pc, running>>
      BY <1>2 DEF Unlock
    <2>2. /\ owner' \in [Mutex -> Thread \cup {NoThread}] /\ keeping' \in [Thread -> Seq(Mutex)]
          /\ waitq' \in [Mutex -> Seq(Thread)]
          /\ \A n \in Mutex : owner'[n] = owner[n] \/ owner'[n] = NoThread
          /\ QueuesKept(t)
          /\ flag' \in [Thread -> BOOLEAN] /\ (\A u \in Thread : flag[u] => flag'[u])
          /\ TInv' /\ Others(t) /\ pc'[t] # "dead" => KeepingIsOwned'
      BY <1>2, <2>1, UnlockOneKeeps
    <2>3. /\ pc' = [pc EXCEPT ![t] = pc[t]] /\ frame' = [frame EXCEPT ![t] = "none"]
          /\ running' \in Thread \cup {NoThread}
          /\ exc' \in [Thread -> {"none", "raise", "kill"}]
      BY <2>1 DEF TInv, Typed
    <2>4. ~Joining(t)  BY InNoJoin
    <2>5. TInv' /\ Others(t) /\ pc'[t] = pc[t] /\ frame'[t] = "none"
      BY <2>2, <2>3, <2>4, AwakeTInv
    <2>6. MutexTyped'  BY <2>2 DEF MutexTyped
    <2>7. Beside(t) /\ CondvarKept(t)  BY <2>2, <2>5 DEF Beside, CondvarKept
    <2>8. frame'[t] \notin MutexFrame /\ t \notin waiting'
      BY <2>5, OutsideCalls DEF MutexFrame, LockFrame, MutexSleepFrame
    <2> QED  BY <2>2, <2>5, <2>6, <2>7, <2>8, AwayStepInv
  <1> QED  BY <1>1, <1>2

\* Mutex#unlock, and the end of Mutex#synchronize.
LEMMA UnlocksInv ==
    ASSUME MInv, NEW t \in Thread,
           rb_mutex_synchronize(t) \/ \E m \in Mutex : rb_mutex_unlock(t, m)
    PROVE  MInv'
  <1> USE DEF MInv
  <1>1. ASSUME NEW m \in Mutex, rb_mutex_unlock(t, m) PROVE MInv'
    <2>1. /\ pc[t] = "run" /\ Unlock(t, m)
          /\ UNCHANGED <<frame, status, trap, saved, signals, pending, to_kill, sleeper, living,
                         join_list, target, fatal, locking, patrol, want, blocks, cvq, waiting>>
      BY <1>1 DEF rb_mutex_unlock, Idle
    <2>2. frame[t] = "none" /\ blocks' \in [Thread -> Seq(Mutex)]
      BY <2>1 DEF TInv, Places, PlaceFits, At, MutexTyped
    <2> QED  BY <2>1, <2>2, UnlockInv
  <1>2. CASE rb_mutex_synchronize(t)
    <2> DEFINE m == Head(blocks[t])
               rest == Tail(blocks[t])
    <2>1. /\ pc[t] \in {"run", "unwind"} /\ frame[t] = "none" /\ blocks[t] # <<>> /\ Unlock(t, m)
          /\ blocks' = [blocks EXCEPT ![t] = rest]
          /\ UNCHANGED <<frame, status, trap, saved, signals, pending, to_kill, sleeper, living,
                         join_list, target, fatal, locking, patrol, want, cvq, waiting>>
      BY <1>2 DEF rb_mutex_synchronize
    <2>2. m \in Mutex /\ rest \in Seq(Mutex)
      BY <2>1, HeadTailProperties DEF MutexTyped
    <2> HIDE DEF m, rest
    <2>3. blocks' \in [Thread -> Seq(Mutex)]  BY <2>1, <2>2 DEF MutexTyped
    <2> QED  BY <2>1, <2>2, <2>3, UnlockInv
  <1> QED  BY <1>1, <1>2

\* Mutex#sleep and ConditionVariable#wait: the caller can be signalled from now on.
LEMMA MutexSleepInv ==
    ASSUME MInv, NEW t \in Thread, NEW m \in Mutex, NEW cv \in BOOLEAN, rb_mutex_sleep(t, m, cv)
    PROVE  MInv'
  <1> USE DEF MInv
  <1>1. /\ pc[t] = "run"
        /\ UNCHANGED <<trap, saved, signals, pending, to_kill, sleeper, living, join_list,
                       target, fatal, locking, patrol, blocks>>
    BY DEF rb_mutex_sleep, Idle
  <1>2. frame[t] = "none"  BY <1>1 DEF TInv, Places, PlaceFits, At
  <1>3. ~Joining(t) /\ t \notin waiting /\ status[t] # "KILLED"
    BY <1>1, <1>2, InNoJoin, OutsideCalls DEF TInv, Places, PlaceFits
  <1>4. CASE owner[m] # t
    <2>1. /\ RaiseError(t)
          /\ UNCHANGED <<owner, waitq, keeping, flag, want, status, frame, cvq, waiting>>
      BY <1>4 DEF rb_mutex_sleep
    <2>2. blocks' \in [Thread -> Seq(Mutex)]  BY <1>1 DEF MutexTyped
    <2> QED  BY <1>1, <1>2, <2>1, <2>2, ThreadErrorInv
  <1>5. CASE owner[m] = t
    <2>1. PICK f \in Calls \cap {"mutex_sleep", "mutex_timed_sleep"} :
               /\ rb_mutex_unlock_th(t, {m}, RemoveFirst(keeping[t], m))
               /\ flag' = rb_threadptr_interrupt(flag, FirstWaiters({m}))
               /\ want' = [want EXCEPT ![t] = m]
               /\ SleepBegin(t, f)
               /\ IF cv THEN cvq' = Append(cvq, t) /\ waiting' = waiting \cup {t}
                        ELSE UNCHANGED <<cvq, waiting>>
               /\ UNCHANGED exc
      BY <1>5, Zenon DEF rb_mutex_sleep
    <2>2. /\ owner' \in [Mutex -> Thread \cup {NoThread}] /\ keeping' \in [Thread -> Seq(Mutex)]
          /\ waitq' \in [Mutex -> Seq(Thread)]
          /\ owner'[m] = NoThread
          /\ \A n \in Mutex : owner'[n] = owner[n] \/ owner'[n] = NoThread
          /\ QueuesKept(t)
          /\ flag' \in [Thread -> BOOLEAN] /\ (\A u \in Thread : flag[u] => flag'[u])
          /\ TInv' /\ Others(t) /\ pc'[t] # "dead" => KeepingIsOwned'
      BY <1>1, <1>5, <2>1, UnlockOneKeeps
    <2>3. f \in SleepFrame \ {"join", "timed_join"}  BY DEF SleepFrame, Frame
    <2>4. TInv'  BY <1>1, <1>3, <2>1, <2>2, <2>3, SleepBeginInv
    <2>5. Others(t) /\ pc'[t] = "check" /\ frame'[t] = f
      BY <1>1, <2>1, <2>2 DEF SleepBegin, Others, Bystander, TInv, Typed
    <2>6. want'[t] = m /\ (\A u \in Thread \ {t} : want'[u] = want[u])
          /\ want' \in [Thread -> Mutex \cup {NoMutex}]
      BY <2>1 DEF MutexTyped
    <2>7. /\ cvq' \in Seq(Thread) /\ waiting' \subseteq Thread /\ CondvarKept(t)
          /\ (\A u \in Thread \ {t} : u \in waiting' <=> u \in waiting)
          /\ t \in waiting' => t \in ToSet(cvq')
      <3>1. CASE cv
        <4>1. cvq' = Append(cvq, t) /\ waiting' = waiting \cup {t}  BY <2>1, <3>1
        <4>2. cvq \in Seq(Thread) /\ waiting \subseteq Thread  BY DEF MutexTyped
        <4>3. cvq' \in Seq(Thread) /\ ToSet(cvq') = ToSet(cvq) \cup {t}
          BY <4>1, <4>2, AppendElements
        <4> QED  BY <4>1, <4>2, <4>3 DEF CondvarKept
      <3>2. CASE ~cv
        <4>1. UNCHANGED <<cvq, waiting>>  BY <2>1, <3>2
        <4> QED  BY <1>3, <4>1 DEF MutexTyped, CondvarKept
      <3> QED  BY <3>1, <3>2
    <2>8. MutexTyped'  BY <1>1, <2>2, <2>6, <2>7 DEF MutexTyped
    <2>9. Beside(t)  BY <1>1, <2>2, <2>5, <2>6, <2>7 DEF Beside
    <2>10. WantFits(t)'
      <3>1. t # NoThread  BY ThreadsAssumption
      <3> QED  BY <2>2, <2>5, <2>6, <3>1 DEF WantFits, MutexFrame, MutexSleepFrame
    <2>11. LockSleepFits(t)'
      <3>1. LockSleepFits(t)  OBVIOUS
      <3> QED  BY <1>1, <2>5, <3>1 DEF LockSleepFits
    <2>12. CondvarFits(t)'  BY <2>7 DEF CondvarFits
    <2>13. patrol' = patrol /\ patrol # t  BY <1>1, ThreadsAssumption DEF PatrolSleeps, Gone
    <2> QED
      BY <2>2, <2>4, <2>5, <2>7, <2>8, <2>9, <2>10, <2>11, <2>12, <2>13, MutexStepInv
  <1> QED  BY <1>4, <1>5

\* The ensure clause of Mutex#sleep.
LEMMA RelockInv ==
    ASSUME MInv, NEW t \in Thread, MutexRelock(t)
    PROVE  MInv'
  <1> USE DEF MInv
  <1>1. /\ pc[t] \in {"back", "unwind"} /\ frame[t] \in MutexSleepFrame
        /\ UNCHANGED <<flag, trap, saved, signals, pending, exc, to_kill, living, join_list,
                       target, fatal>>
    BY DEF MutexRelock, MutexSleepFrame
  <1>2. want[t] \in Mutex /\ owner[want[t]] # t
    <2>1. WantFits(t)  OBVIOUS
    <2> QED  BY <1>1, <2>1 DEF WantFits, MutexFrame
  <1>3. ~Joining(t) /\ flag' \in [Thread -> BOOLEAN] /\ \A u \in Thread \ {t} : flag[u] => flag'[u]
    BY <1>1, InNoJoin DEF MutexFrame, TInv, Typed
  <1>4. CASE owner[want[t]] = NoThread
    <2>1. /\ mutex_locked(t, want[t]) /\ LockReturn(t, want[t], "lock")
          /\ UNCHANGED <<waitq, locking, patrol, status, sleeper>>
      BY <1>4 DEF MutexRelock
    <2> QED  BY <1>1, <1>2, <1>3, <1>4, <2>1, LockReturnInv
  <1>5. CASE owner[want[t]] # NoThread
    <2>1. LockSleep(t, want[t], "lock") /\ UNCHANGED <<owner, keeping, blocks, cvq, waiting>>
      BY <1>5 DEF MutexRelock
    <2>2. "lock" \in LockFrame  BY DEF LockFrame
    <2> QED  BY <1>1, <1>2, <1>3, <2>1, <2>2, LockSleepInv
  <1> QED  BY <1>4, <1>5

\* ConditionVariable#signal and #broadcast.
LEMMA CondvarInv ==
    ASSUME MInv, NEW t \in Thread, rb_condvar_signal(t) \/ rb_condvar_broadcast(t)
    PROVE  MInv'
  <1> USE DEF MInv
  <1>1. cvq \in Seq(Thread) /\ ToSet(cvq) \subseteq Thread  BY ToSetElements DEF MutexTyped
  <1>2. PICK ts \in SUBSET Thread, rest \in Seq(Thread) :
          /\ WakeUpCondvar(t, ts, rest)
          /\ \A u \in ts : status[u] # "KILLED"
          /\ \A u \in ToSet(cvq) : status[u] = "KILLED" \/ u \in ts \/ u \in ToSet(rest)
    <2>1. CASE rb_condvar_signal(t)
      <3> DEFINE ts == wakeup_one(cvq)
                 rest == AfterWakeupOne(cvq)
      <3>1. WakeUpCondvar(t, ts, rest)  BY <2>1 DEF rb_condvar_signal
      <3>2. /\ ts \in SUBSET Thread /\ rest \in Seq(Thread) /\ (\A u \in ts : status[u] # "KILLED")
            /\ \A u \in ToSet(cvq) : status[u] = "KILLED" \/ u \in ts \/ u \in ToSet(rest)
        BY <1>1, WakeupOne
      <3> HIDE DEF ts, rest
      <3> QED  BY <3>1, <3>2
    <2>2. CASE rb_condvar_broadcast(t)
      <3> DEFINE ts == wakeup_all(cvq)
      <3>1. WakeUpCondvar(t, ts, <<>>)  BY <2>2 DEF rb_condvar_broadcast
      <3>2. /\ ts \in SUBSET Thread /\ (\A u \in ts : status[u] # "KILLED")
            /\ \A u \in ToSet(cvq) : status[u] = "KILLED" \/ u \in ts
        BY <1>1, WakeupOne
      <3> HIDE DEF ts
      <3> QED  BY <3>1, <3>2, EmptyElements
    <2> QED  BY <2>1, <2>2
  <1>3. /\ pc[t] = "run" /\ cvq' = rest
        /\ flag' = rb_threadptr_interrupt(flag, ts)
        /\ status' = [u \in Thread |-> IF u \in ts THEN "RUNNABLE" ELSE status[u]]
        /\ UNCHANGED <<running, pc, frame, trap, saved, signals, pending, exc, to_kill, sleeper,
                       living, join_list, target, fatal, owner, waitq, keeping, locking, patrol,
                       want, blocks, waiting>>
    BY <1>2 DEF WakeUpCondvar, Woken, Idle
  <1>4. /\ flag' \in [Thread -> BOOLEAN]
        /\ \A u \in Thread : /\ flag[u] => flag'[u]
                             /\ u \in ts => flag'[u] /\ status'[u] = "RUNNABLE"
                             /\ u \notin ts => status'[u] = status[u]
    BY <1>3 DEF rb_threadptr_interrupt
  <1>5. Typed'  BY <1>3, <1>4 DEF TInv, Typed, Status
  <1>6. Others(t)  BY <1>2, <1>3, <1>4 DEF Others, Bystander
  <1>7. /\ frame[t] = "none" /\ status[t] # "KILLED" /\ status'[t] # "KILLED"
        /\ PlaceFits(t)'
    BY <1>3, <1>4 DEF TInv, Places, PlaceFits, At
  <1>8. TInv'  BY <1>3, <1>5, <1>6, <1>7, AwakeStep DEF Joining
  <1>9. MutexTyped'  BY <1>2, <1>3 DEF MutexTyped
  <1>10. KeepingIsOwned'  BY <1>3, <1>6, <1>8, SameKeeping
  <1>11. Beside(t)  BY <1>3, <1>6 DEF Beside
  <1>12. QueuesKept(t)  BY <1>3, SameQueues
  <1>13. CondvarKept(t)  BY <1>1, <1>2, <1>3, <1>4 DEF CondvarKept
  <1>14. frame'[t] \notin MutexFrame /\ t \notin waiting'
    BY <1>3, <1>7, OutsideCalls DEF MutexFrame, LockFrame, MutexSleepFrame
  <1> QED
    BY <1>3, <1>8, <1>9, <1>10, <1>11, <1>12, <1>13, <1>14, AwayStepInv
-----------------------------------------------------------------------------
(* The end of threads, and fork. *)

\* rb_threadptr_unlock_all_locking_mutexes.
LEMMA UnlockAllKeeps ==
    ASSUME MInv, NEW t \in Thread, pc[t] \in {"run", "unwind"}, frame[t] = "none",
           rb_mutex_unlock_th(t, ToSet(keeping[t]), <<>>),
           \A u \in FirstWaiters(ToSet(keeping[t])) \cap Thread : flag'[u],
           TInv', Others(t), pc'[t] # "lock_sleep", frame' = frame,
           UNCHANGED <<trap, signals, locking, patrol, want, blocks, cvq, waiting>>
    PROVE  MInv'
  <1> USE DEF MInv
  <1> DEFINE ms == ToSet(keeping[t])
             rest == <<>>
  <1>1. ms \in SUBSET Mutex /\ \A m \in ms : owner[m] = t
    <2>1. keeping[t] \in Seq(Mutex)  BY DEF MutexTyped
    <2>2. ms \subseteq Mutex  BY <2>1, ToSetElements
    <2> QED  BY <2>2 DEF KeepingIsOwned
  <1>2. \A u \in FirstWaiters(ms) : flag'[u]
    <2> SUFFICES ASSUME NEW m \in ms, waitq[m] # <<>> PROVE flag'[Head(waitq[m])]
      BY DEF FirstWaiters
    <2>1. Head(waitq[m]) \in Thread  BY <1>1, HeadTailProperties DEF MutexTyped
    <2>2. Head(waitq[m]) \in FirstWaiters(ms)  BY DEF FirstWaiters
    <2> QED  BY <2>1, <2>2
  <1>3. rest \in Seq(Mutex) /\ IsInjective(rest) /\ ToSet(rest) = ToSet(keeping[t]) \ ms
    BY EmptyElements
  <1>4. rb_mutex_unlock_th(t, ms, rest) /\ rest = <<>>
    OBVIOUS
  <1> HIDE DEF ms, rest
  <1>5. /\ owner' \in [Mutex -> Thread \cup {NoThread}] /\ keeping' \in [Thread -> Seq(Mutex)]
        /\ waitq' \in [Mutex -> Seq(Thread)]
        /\ \A m \in Mutex : owner'[m] = owner[m] \/ (owner[m] = t /\ owner'[m] = NoThread)
        /\ QueuesKept(t)
        /\ KeepingIsOwned'
    BY <1>1, <1>2, <1>3, <1>4, UnlockedKeeps
  <1>6. MutexTyped'  BY <1>5 DEF MutexTyped
  <1>7. Beside(t) /\ CondvarKept(t)  BY <1>5 DEF Beside, CondvarKept
  <1>8. frame'[t] \notin MutexFrame /\ t \notin waiting'
    BY OutsideCalls DEF MutexFrame, LockFrame, MutexSleepFrame
  <1> QED  BY <1>5, <1>6, <1>7, <1>8, AwayStepInv

\* A thread ends.
LEMMA MutexThreadEndInv ==
    ASSUME MInv, NEW t \in Thread, NEW abort \in BOOLEAN, MutexThreadEnd(t, abort)
    PROVE  MInv'
  <1> USE DEF MInv
  <1> DEFINE kept == ToSet(keeping[t])
             unlocked == FirstWaiters(kept)
             served == Served(owner', waitq', locking)
  <1>1. /\ rb_mutex_unlock_th(t, kept, <<>>) /\ ThreadEnd(t, abort, unlocked, served, patrol)
        /\ UNCHANGED <<locking, patrol, want, blocks, cvq, waiting>>
    BY DEF MutexThreadEnd
  <1> HIDE DEF unlocked, served
  <1>2. TInv' /\ EndEffect(t)  BY <1>1, ThreadEndInv, ThreadEndEffect, Zenon
  <1>3. pc[t] \in {"run", "unwind"} /\ frame[t] = "none"  BY <1>1 DEF ThreadEnd
  <1>4. Others(t) /\ pc'[t] # "lock_sleep" /\ UNCHANGED <<frame, trap, signals>>
    BY <1>2 DEF Others, Bystander, EndEffect
  <1>5. \A u \in unlocked \cap Thread : flag'[u]
    <2> DEFINE last == IF status[Main] = "KILLED" /\ Cardinality(living \ {t}) = 1 THEN {Main} ELSE {}
               raised == IF abort THEN {Main} ELSE {}
               fl == rb_threadptr_interrupt(flag, join_list[t] \cup last \cup raised \cup unlocked)
    <2>1. \/ flag' = fl
          \/ \E st : rb_check_deadlock(t, st, fl, sleeper, living \ {t}, served, patrol, 0)
      BY <1>1 DEF ThreadEnd
    <2>2. fl \in [Thread -> BOOLEAN] /\ \A u \in unlocked \cap Thread : fl[u]
      BY DEF rb_threadptr_interrupt
    <2> HIDE DEF fl
    <2>3. \A u \in Thread : fl[u] => flag'[u]
      <3>1. CASE flag' = fl  BY <3>1
      <3>2. CASE \E st : rb_check_deadlock(t, st, fl, sleeper, living \ {t}, served, patrol, 0)
        BY <2>2, <3>2, CheckDeadlockType
      <3> QED  BY <2>1, <3>1, <3>2
    <2> QED  BY <2>2, <2>3
  <1> QED  BY <1>1, <1>2, <1>3, <1>4, <1>5, UnlockAllKeeps DEF unlocked

\* The main thread begins to terminate the others.
LEMMA MutexTerminateAllInv ==
    ASSUME MInv, MutexTerminateAll
    PROVE  MInv'
  <1> USE DEF MInv
  <1> DEFINE kept == ToSet(keeping[Main])
             unlocked == FirstWaiters(kept)
  <1>0. Main \in Thread  BY ThreadsAssumption
  <1>1. /\ rb_mutex_unlock_th(Main, kept, <<>>) /\ TerminateAll(unlocked)
        /\ UNCHANGED <<locking, patrol, want, blocks, cvq, waiting>>
    BY DEF MutexTerminateAll
  <1> HIDE DEF unlocked
  <1>2. TInv'  BY <1>1, TerminateAllInv
  <1>3. /\ pc[Main] \in {"run", "unwind"} /\ frame[Main] = "none" /\ pc'[Main] = "term"
        /\ UNCHANGED <<frame, trap, signals>>
    BY <1>0, <1>1 DEF TerminateAll, TInv, Typed
  <1>4. /\ \A u \in Thread \ {Main} : flag[u] => flag'[u]
        /\ \A u \in unlocked \cap Thread : flag'[u]
    BY <1>1 DEF TerminateAll, rb_threadptr_interrupt, TInv, Typed
  <1>5. Others(Main)
    BY <1>0, <1>1, <1>4 DEF Others, Bystander, TerminateAll, TInv, Typed
  <1> QED  BY <1>0, <1>1, <1>2, <1>3, <1>4, <1>5, UnlockAllKeeps DEF unlocked

\* The child of a fork.
LEMMA AbandonInv ==
    ASSUME MInv, rb_mutex_abandon_all
    PROVE  MInv'
  <1> USE DEF MInv
  <1> DEFINE gone == living \ {Main}
             abandoned == UNION {ToSet(keeping[t]) : t \in gone}
  <1>0. Main \in Thread /\ NoThread \notin Thread  BY ThreadsAssumption
  <1>1. /\ rb_thread_atfork
        /\ owner' = [m \in Mutex |-> IF m \in abandoned THEN NoThread ELSE owner[m]]
        /\ waitq' = [m \in Mutex |-> IF m \in abandoned THEN <<>> ELSE waitq[m]]
        /\ keeping' = [t \in Thread |-> IF t \in gone THEN <<>> ELSE keeping[t]]
        /\ locking' = [t \in Thread |-> IF t \in gone THEN NoMutex ELSE locking[t]]
        /\ want' = [t \in Thread |-> IF t \in gone THEN NoMutex ELSE want[t]]
        /\ blocks' = [t \in Thread |-> IF t \in gone THEN <<>> ELSE blocks[t]]
        /\ waiting' = waiting \ gone
        /\ UNCHANGED <<patrol, cvq>>
    BY DEF rb_mutex_abandon_all
  <1>2. TInv'  BY <1>1, ForkInv
  <1>3. /\ "fork" \in Calls /\ pc[Main] = "run" /\ frame[Main] = "none"
        /\ \A t \in Thread : t \in gone => pc'[t] = "dead" /\ frame'[t] = "none"
        /\ \A t \in Thread : t \notin gone =>
              pc'[t] = pc[t] /\ frame'[t] = frame[t] /\ status'[t] = status[t]
    BY <1>0, <1>1 DEF rb_thread_atfork, TInv, Typed, Places, PlaceFits, At
  <1>4. \A t \in Thread : t \notin gone => pc[t] \in {"run", "new", "dead"} /\ frame[t] = "none"
    BY <1>3 DEF TInv, Places, PlaceFits, At
  <1>5. \A m \in Mutex : m \in abandoned <=> owner[m] \in gone
    <2>1. gone \subseteq Thread  BY DEF TInv, Typed
    <2> QED  BY <2>1 DEF KeepingIsOwned
  <1> HIDE DEF abandoned
  <1>6. MutexTyped'
    <2>1. <<>> \in Seq(Mutex) /\ <<>> \in Seq(Thread)  BY EmptyElements
    <2>2. owner' \in [Mutex -> Thread \cup {NoThread}] /\ waitq' \in [Mutex -> Seq(Thread)]
      BY <1>1, <2>1 DEF MutexTyped
    <2>3. keeping' \in [Thread -> Seq(Mutex)] /\ blocks' \in [Thread -> Seq(Mutex)]
      BY <1>1, <2>1 DEF MutexTyped
    <2> QED  BY <1>1, <2>2, <2>3 DEF MutexTyped
  <1>7. KeepingIsOwned'
    <2> SUFFICES ASSUME NEW t \in Thread
                 PROVE  /\ \A m \in Mutex : owner'[m] = t <=> m \in ToSet(keeping'[t])
                        /\ IsInjective(keeping'[t])
                        /\ status'[t] = "KILLED" /\ t # Main => keeping'[t] = <<>>
      BY DEF KeepingIsOwned
    <2>1. \A m \in Mutex : owner'[m] = IF owner[m] \in gone THEN NoThread ELSE owner[m]
      BY <1>1, <1>5
    <2>2. CASE t \in gone
      <3>1. keeping'[t] = <<>>  BY <1>1, <2>2
      <3>2. \A m \in Mutex : owner'[m] # t  BY <1>0, <2>1, <2>2
      <3> QED  BY <3>1, <3>2, EmptyElements
    <2>3. CASE t \notin gone
      <3>1. keeping'[t] = keeping[t] /\ status'[t] = status[t]  BY <1>1, <1>3, <2>3
      <3>2. \A m \in Mutex : owner'[m] = t <=> owner[m] = t  BY <1>0, <2>1, <2>3
      <3> QED  BY <3>1, <3>2 DEF KeepingIsOwned
    <2> QED  BY <2>2, <2>3
  <1>8. ASSUME NEW t \in Thread PROVE WantFits(t)' /\ LockSleepFits(t)' /\ CondvarFits(t)'
    <2>1. frame'[t] = "none" /\ pc'[t] \in {"run", "new", "dead"}  BY <1>3, <1>4
    <2>2. t \notin waiting'
      <3>1. CASE t \in gone  BY <1>1, <3>1
      <3>2. CASE t \notin gone  BY <1>1, <1>4, <3>2, OutsideCalls
      <3> QED  BY <3>1, <3>2
    <2>3. locking'[t] = NoMutex
      <3>1. LockSleepFits(t)  OBVIOUS
      <3> QED  BY <1>1, <1>4, <3>1 DEF LockSleepFits
    <2> QED
      BY <2>1, <2>2, <2>3 DEF WantFits, LockSleepFits, CondvarFits, MutexFrame, LockFrame, MutexSleepFrame
  <1>9. \A t \in Thread : pc[t] = "lock_sleep" \/ Gone(t) => Gone(t)'
    BY <1>3, <1>4 DEF Gone
  <1>10. ASSUME NEW m \in Mutex PROVE WaitersFit(m)'
    <2>1. CASE m \in abandoned
      <3>1. waitq'[m] = <<>>  BY <1>1, <2>1
      <3> QED  BY <3>1, EmptyElements DEF WaitersFit
    <2>2. CASE m \notin abandoned
      <3>1. waitq'[m] = waitq[m] /\ ToSet(waitq[m]) \subseteq Thread
        BY <1>1, <2>2, ToSetElements DEF MutexTyped
      <3> QED  BY <1>9, <3>1 DEF WaitersFit
    <2> QED  BY <2>1, <2>2
  <1>11. PatrolSleeps'  BY <1>1, <1>9 DEF PatrolSleeps, MutexTyped
  <1> QED  BY <1>2, <1>6, <1>7, <1>8, <1>10, <1>11
-----------------------------------------------------------------------------
(* The invariant. *)

\* No mutex is locked at first.
LEMMA InitMInv == MutexInit => MInv
  <1> SUFFICES ASSUME MutexInit PROVE MInv
    OBVIOUS
  <1> USE DEF MutexInit
  <1>1. TInv  BY InitTInv
  <1>2. MutexTyped  BY EmptyElements DEF MutexTyped
  <1>3. KeepingIsOwned
    BY EmptyElements, ThreadsAssumption DEF KeepingIsOwned
  <1>4. \A t \in Thread : frame[t] = "none" /\ pc[t] \in {"run", "new"}
    BY DEF Init
  <1>5. \A t \in Thread : WantFits(t) /\ LockSleepFits(t) /\ CondvarFits(t)
    BY <1>4 DEF WantFits, LockSleepFits, CondvarFits, MutexFrame, LockFrame, MutexSleepFrame
  <1>6. \A m \in Mutex : WaitersFit(m)  BY EmptyElements DEF WaitersFit
  <1>7. PatrolSleeps  BY DEF PatrolSleeps
  <1> QED  BY <1>1, <1>2, <1>3, <1>5, <1>6, <1>7 DEF MInv

\* Every step keeps the invariant.
LEMMA NextMInv == MInv /\ [MutexNext]_vars => MInv'
  <1> SUFFICES ASSUME MInv, [MutexNext]_vars PROVE MInv'
    OBVIOUS
  <1>1. ASSUME NEW t \in Thread, ThreadStep(t) PROVE MInv'
    <2>1. UNCHANGED lockVars  BY <1>1 DEF ThreadStep
    <2>2. CASE RaiseInterrupt(t) \/ CheckIntsInCode(t)  BY <2>1, <2>2, ChecksKeep
    <2>3. CASE InterruptedWakeUp(t) \/ TimeoutWakeUp(t) \/ SpuriousWakeUp(t) \/ SleepEnd(t)
      BY <2>1, <2>3, SleepsKeep
    <2>4. CASE NativeSleep(t, Served(owner, waitq, locking), patrol)
      BY <2>1, <2>4, SleepsKeep
    <2>5. CASE SleepReturn(t) \/ JoinAgain(t) \/ JoinReturn(t) \/ UnwindSleep(t)
      BY <2>1, <2>5, CallsKeep
    <2>6. CASE Program(t)  BY <2>1, <2>6, ProgramKeeps
    <2> QED  BY <1>1, <2>2, <2>3, <2>4, <2>5, <2>6 DEF ThreadStep
  <1>2. ASSUME NEW t \in Thread, MutexStep(t) PROVE MInv'
    <2>1. CASE LockInterrupted(t) \/ LockPatrolTimeout(t) \/ LockSpuriousWakeUp(t)
      <3>1. PICK cause \in BOOLEAN : LockWakeUp(t, cause)
        <4>1. /\ RUBY_VM_INTERRUPTED(t, flag) \in BOOLEAN /\ (patrol = t) \in BOOLEAN
              /\ (~RUBY_VM_INTERRUPTED(t, flag) /\ patrol # t) \in BOOLEAN
          BY DEF RUBY_VM_INTERRUPTED
        <4> QED
          BY <2>1, <4>1, Zenon DEF LockInterrupted, LockPatrolTimeout, LockSpuriousWakeUp
      <3> QED  BY <3>1, LockWakeUpInv, Zenon
    <2>2. CASE LockCheck(t)  BY <2>2, LockCheckInv
    <2>3. CASE UnwindLock(t)  BY <2>3, UnwindLockInv
    <2>4. CASE MutexRelock(t)  BY <2>4, RelockInv
    <2>5. CASE rb_mutex_synchronize(t) \/ \E m \in Mutex : rb_mutex_unlock(t, m)
      BY <2>5, UnlocksInv
    <2>6. CASE rb_condvar_signal(t) \/ rb_condvar_broadcast(t)  BY <2>6, CondvarInv
    <2>7. CASE \E m \in Mutex : rb_mutex_lock(t, m) \/ rb_mutex_trylock(t, m)
      BY <2>7, LockInv, TryLockInv
    <2>8. CASE \E m \in Mutex, cv \in BOOLEAN : rb_mutex_sleep(t, m, cv)
      BY <2>8, MutexSleepInv, Zenon
    <2>9. CASE \E abort \in BOOLEAN : MutexThreadEnd(t, abort)
      BY <2>9, MutexThreadEndInv, Zenon
    <2> QED
      BY <1>2, <2>1, <2>2, <2>3, <2>4, <2>5, <2>6, <2>7, <2>8, <2>9, Zenon DEF MutexStep
  <1>3. CASE (Signalled \/ TerminateLoop) /\ UNCHANGED lockVars  BY <1>3, MainKeeps
  <1>4. CASE MutexTerminateAll  BY <1>4, MutexTerminateAllInv
  <1>5. CASE rb_mutex_abandon_all  BY <1>5, AbandonInv
  <1>6. CASE UNCHANGED vars
    <2>1. UNCHANGED core /\ UNCHANGED lockVars  BY <1>6 DEF vars
    <2>2. TInv'  BY <2>1, SameTInv DEF MInv
    <2>3. \A u \in Thread : Quiet(u)
      BY <2>1 DEF core, Quiet, MaySleepOn, Slumbering, RUBY_VM_INTERRUPTED
    <2> QED  BY <2>1, <2>2, <2>3, QuietKeeps
  <1> QED  BY <1>1, <1>2, <1>3, <1>4, <1>5, <1>6 DEF MutexNext

\* The invariant holds of every state.
THEOREM MutexesInvariance == MutexSpec => []MInv
  BY InitMInv, NextMInv, PTL DEF MutexSpec
-----------------------------------------------------------------------------
(* What most steps do not do. *)

\* They raise no fatal, somebody is awake or about to run a trap handler after them,
\* and nobody returns by them from a call of this module.
Plain ==
    /\ fatal' = fatal
    /\ trap' \/ \E t \in Thread : pc'[t] \notin {"new", "asleep", "lock_sleep", "dead"}
    /\ \A u \in Thread : pc'[u] = "run" => frame[u] \notin MutexFrame

\* Who runs Ruby code is in no call.
LEMMA RunsOutside ==
    ASSUME TInv, NEW t \in Thread, pc[t] = "run"
    PROVE  frame[t] \notin MutexFrame
  BY DEF TInv, Places, PlaceFits, At, MutexFrame, LockFrame, MutexSleepFrame

\* A step of t that leaves it awake.
LEMMA PlainStep ==
    ASSUME TInv, NEW t \in Thread, \A u \in Thread \ {t} : pc'[u] = pc[u],
           pc'[t] \notin {"new", "asleep", "lock_sleep", "dead"},
           pc'[t] = "run" => frame[t] \notin MutexFrame, fatal' = fatal
    PROVE  Plain
  BY RunsOutside DEF Plain

\* The steps of a thread in module Threads, but for native_sleep.
LEMMA ThreadStepPlain ==
    ASSUME TInv, NEW t \in Thread,
           \/ RaiseInterrupt(t) \/ CheckIntsInCode(t) \/ InterruptedWakeUp(t)
           \/ TimeoutWakeUp(t) \/ SpuriousWakeUp(t) \/ SleepEnd(t) \/ SleepReturn(t)
           \/ JoinAgain(t) \/ JoinReturn(t) \/ UnwindSleep(t) \/ Program(t)
    PROVE  Plain
  <1> USE DEF TInv, Typed
  <1>1. CASE RaiseInterrupt(t) \/ CheckIntsInCode(t)
    <2>1. /\ fatal' = fatal /\ (\A u \in Thread \ {t} : pc'[u] = pc[u])
          /\ pc'[t] = "unwind" \/ (pc'[t] = pc[t] /\ pc[t] \in {"run", "trap"})
      BY <1>1 DEF RaiseInterrupt, Deliver, CheckIntsInCode
    <2> QED  BY <2>1, PlainStep, RunsOutside
  <1>2. CASE InterruptedWakeUp(t) \/ TimeoutWakeUp(t) \/ SpuriousWakeUp(t) \/ SleepEnd(t)
    <2>1. /\ fatal' = fatal /\ (\A u \in Thread \ {t} : pc'[u] = pc[u])
          /\ pc'[t] \in {"woken", "back"}
      BY <1>2 DEF InterruptedWakeUp, TimeoutWakeUp, SpuriousWakeUp, WakeUp, SleepEnd
    <2> QED  BY <2>1, PlainStep
  <1>3. CASE SleepReturn(t) \/ JoinAgain(t) \/ JoinReturn(t) \/ UnwindSleep(t)
    <2>1. /\ fatal' = fatal /\ (\A u \in Thread \ {t} : pc'[u] = pc[u])
          /\ pc'[t] \in {"run", "check", "unwind"} /\ frame[t] \notin MutexFrame
      BY <1>3 DEF SleepReturn, JoinAgain, SleepBegin, JoinReturn, RaiseError, UnwindSleep,
                  MutexFrame, LockFrame, MutexSleepFrame
    <2> QED  BY <2>1, PlainStep
  <1>4. CASE \/ rb_thread_stop(t) \/ rb_f_sleep(t) \/ Rescue(t)
             \/ \E u \in Thread : thread_join(t, u) \/ thread_join_ended(t, u)
    <2>1. /\ fatal' = fatal /\ (\A u \in Thread \ {t} : pc'[u] = pc[u])
          /\ pc'[t] \in {"check", "unwind"} \/ (pc'[t] = "run" /\ frame[t] = "none")
      BY <1>4 DEF rb_thread_stop, rb_f_sleep, Rescue, thread_join, thread_join_ended, SleepBegin,
                  CallRaises, RaiseError
    <2>2. pc'[t] = "run" => frame[t] \notin MutexFrame
      BY <2>1 DEF MutexFrame, LockFrame, MutexSleepFrame
    <2> QED  BY <2>1, <2>2, PlainStep
  <1>5. ASSUME NEW u \in Thread, rb_thread_wakeup(t, u) \/ rb_threadptr_raise(t, u) \/ rb_thread_kill(t, u)
        PROVE  Plain
    <2>1. /\ fatal' = fatal /\ (\A v \in Thread \ {t} : pc'[v] = pc[v])
          /\ pc[t] = "run" /\ pc'[t] \in {"run", "unwind"}
      BY <1>5 DEF rb_thread_wakeup, rb_threadptr_raise, rb_thread_kill, Idle
    <2> QED  BY <2>1, PlainStep, RunsOutside
  <1>6. ASSUME NEW u \in Thread, thread_create_core(t, u) PROVE Plain
    <2>1. /\ fatal' = fatal /\ pc' = [pc EXCEPT ![u] = "run"] /\ pc[u] = "new"
      BY <1>6 DEF thread_create_core
    <2>2. frame[u] \notin MutexFrame
      BY <2>1 DEF Places, PlaceFits, At, MutexFrame, LockFrame, MutexSleepFrame
    <2>3. pc'[u] = "run" /\ \A v \in Thread \ {u} : pc'[v] = pc[v]  BY <2>1
    <2> QED  BY <2>1, <2>2, <2>3, PlainStep
  <1> QED  BY <1>1, <1>2, <1>3, <1>4, <1>5, <1>6 DEF Program

\* Signals, the end of the main thread and fork.
LEMMA MainStepPlain ==
    ASSUME TInv, Signalled \/ TerminateLoop \/ MutexTerminateAll \/ rb_mutex_abandon_all
    PROVE  Plain
  <1> USE DEF TInv, Typed
  <1>0. Main \in Thread  BY ThreadsAssumption
  <1>1. CASE threadptr_trap_interrupt
    BY <1>1, RunsOutside DEF threadptr_trap_interrupt, Plain
  <1>2. CASE TrapEnter \/ TerminateLoop \/ MutexTerminateAll
    <2>1. /\ fatal' = fatal /\ (\A u \in Thread \ {Main} : pc'[u] = pc[u])
          /\ pc'[Main] \in {"trap", "term", "terminated"}
      BY <1>0, <1>2 DEF TrapEnter, TerminateLoop, MutexTerminateAll, TerminateAll
    <2> QED  BY <1>0, <2>1, PlainStep
  <1>3. CASE TrapReturn
    <2>1. /\ fatal' = fatal /\ (\A u \in Thread \ {Main} : pc'[u] = pc[u])
          /\ pc'[Main] = saved.pc /\ saved.pc \in {"run", "check", "woken", "lock_check"}
          /\ pc[Main] = "trap"
      BY <1>0, <1>3 DEF TrapReturn, Places
    <2>2. pc'[Main] = "run" => frame[Main] \notin MutexFrame
      BY <1>0, <2>1 DEF Places, PlaceFits, At, MutexFrame, LockFrame, MutexSleepFrame
    <2> QED  BY <1>0, <2>1, <2>2, PlainStep
  <1>4. CASE rb_mutex_abandon_all
    <2>1. /\ fatal' = fatal /\ pc[Main] = "run" /\ pc'[Main] = "run"
          /\ \A u \in Thread : pc'[u] \in {pc[u], "dead"}
      BY <1>0, <1>4 DEF rb_mutex_abandon_all, rb_thread_atfork
    <2> QED  BY <1>0, <2>1, RunsOutside DEF Plain
  <1> QED  BY <1>1, <1>2, <1>3, <1>4 DEF Signalled

\* The operations of this module that neither lock nor sleep in rb_mutex_lock.
LEMMA MutexStepPlain ==
    ASSUME TInv, NEW t \in Thread,
           \/ UnwindLock(t) \/ rb_mutex_synchronize(t)
           \/ rb_condvar_signal(t) \/ rb_condvar_broadcast(t)
           \/ \E m \in Mutex : \/ rb_mutex_trylock(t, m) \/ rb_mutex_unlock(t, m)
                               \/ \E cv \in BOOLEAN : rb_mutex_sleep(t, m, cv)
    PROVE  Plain
  <1> USE DEF TInv, Typed
  <1>1. CASE UnwindLock(t)
    <2>1. fatal' = fatal /\ pc' = pc /\ pc[t] = "unwind"  BY <1>1 DEF UnwindLock
    <2> QED  BY <2>1, PlainStep
  <1>2. ASSUME NEW m, Unlock(t, m), fatal' = fatal, pc[t] \in {"run", "unwind"} PROVE Plain
    <2>1. (\A u \in Thread \ {t} : pc'[u] = pc[u]) /\ (pc'[t] = pc[t] \/ pc'[t] = "unwind")
      BY <1>2 DEF Unlock, RaiseError
    <2> QED  BY <1>2, <2>1, PlainStep, RunsOutside
  <1>3. CASE rb_mutex_synchronize(t)
    BY <1>2, <1>3 DEF rb_mutex_synchronize
  <1>4. ASSUME NEW m \in Mutex, rb_mutex_unlock(t, m) PROVE Plain
    BY <1>2, <1>4 DEF rb_mutex_unlock, Idle
  <1>5. CASE rb_condvar_signal(t) \/ rb_condvar_broadcast(t)
    <2>1. fatal' = fatal /\ pc' = pc /\ pc[t] = "run"
      BY <1>5 DEF rb_condvar_signal, rb_condvar_broadcast, WakeUpCondvar, Idle
    <2> QED  BY <2>1, PlainStep, RunsOutside
  <1>6. ASSUME NEW m \in Mutex, rb_mutex_trylock(t, m) PROVE Plain
    <2>1. fatal' = fatal /\ pc' = pc /\ pc[t] = "run"  BY <1>6 DEF rb_mutex_trylock, core, Idle
    <2> QED  BY <2>1, PlainStep, RunsOutside
  <1>7. ASSUME NEW m \in Mutex, NEW cv \in BOOLEAN, rb_mutex_sleep(t, m, cv) PROVE Plain
    <2>1. fatal' = fatal  BY <1>7 DEF rb_mutex_sleep
    <2>2. pc' = [pc EXCEPT ![t] = "check"] \/ pc' = [pc EXCEPT ![t] = "unwind"]
      BY <1>7 DEF rb_mutex_sleep, SleepBegin, RaiseError
    <2>3. (\A u \in Thread \ {t} : pc'[u] = pc[u]) /\ pc'[t] \in {"check", "unwind"}
      BY <2>2
    <2> QED  BY <2>1, <2>3, PlainStep
  <1> QED  BY <1>1, <1>3, <1>4, <1>5, <1>6, <1>7, Zenon

\* The operations that lock or sleep in rb_mutex_lock: who returns has the mutex.
LEMMA LockingStep ==
    ASSUME MInv, NEW t \in Thread,
           LockCheck(t) \/ MutexRelock(t) \/ \E m \in Mutex : rb_mutex_lock(t, m)
    PROVE  /\ fatal' = fatal /\ (\A u \in Thread \ {t} : pc'[u] = pc[u])
           /\ \/ /\ pc'[t] \in {"run", "unwind"}
                 /\ frame[t] \in MutexFrame /\ pc'[t] = "run" => owner'[want[t]] = t
              \/ \E m \in Mutex, f \in LockFrame : LockSleep(t, m, f)
  <1> USE DEF MInv, TInv, Typed
  <1>1. CASE LockCheck(t)
    <2>1. /\ fatal' = fatal /\ owner' = owner /\ pc[t] = "lock_check"
          /\ IF owner[want[t]] = t THEN LockReturn(t, want[t], frame[t])
                                   ELSE LockSleep(t, want[t], frame[t])
      BY <1>1 DEF LockCheck
    <2>2. frame[t] \in LockFrame /\ want[t] \in Mutex
      <3>1. frame[t] \in LockFrame  BY <2>1 DEF Places, PlaceFits, At, LockFrame
      <3>2. WantFits(t)  OBVIOUS
      <3> QED  BY <3>1, <3>2 DEF WantFits, MutexFrame
    <2> QED  BY <2>1, <2>2 DEF LockReturn, Return, LockSleep
  <1>2. CASE MutexRelock(t)
    <2>1. /\ fatal' = fatal /\ frame[t] \in MutexSleepFrame
          /\ \/ mutex_locked(t, want[t]) /\ LockReturn(t, want[t], "lock")
             \/ LockSleep(t, want[t], "lock")
      BY <1>2 DEF MutexRelock, MutexSleepFrame
    <2>2. want[t] \in Mutex /\ "lock" \in LockFrame
      <3>1. WantFits(t)  OBVIOUS
      <3> QED  BY <2>1, <3>1 DEF WantFits, MutexFrame, LockFrame
    <2>3. mutex_locked(t, want[t]) => owner'[want[t]] = t
      BY <2>2 DEF mutex_locked, MutexTyped
    <2>4. CASE mutex_locked(t, want[t]) /\ LockReturn(t, want[t], "lock")
      BY <2>1, <2>3, <2>4 DEF LockReturn, Return
    <2>5. CASE LockSleep(t, want[t], "lock")
      <3>1. \A u \in Thread \ {t} : pc'[u] = pc[u]  BY <2>5 DEF LockSleep
      <3> QED  BY <2>1, <2>2, <2>5, <3>1
    <2> QED  BY <2>1, <2>4, <2>5
  <1>3. ASSUME NEW m \in Mutex, rb_mutex_lock(t, m)
        PROVE  /\ fatal' = fatal /\ (\A u \in Thread \ {t} : pc'[u] = pc[u])
               /\ \/ pc'[t] \in {"run", "unwind"} /\ frame[t] \notin MutexFrame
                  \/ \E f \in LockFrame : LockSleep(t, m, f)
    <2>1. fatal' = fatal /\ pc[t] = "run"  BY <1>3 DEF rb_mutex_lock, Idle
    <2>2. PICK f \in LockFrame : LockReturn(t, m, f) \/ RaiseError(t) \/ LockSleep(t, m, f)
      BY <1>3 DEF rb_mutex_lock, LockFrame
    <2> QED  BY <2>1, <2>2, RunsOutside DEF LockReturn, Return, RaiseError, LockSleep
  <1>4. CASE \E m \in Mutex : rb_mutex_lock(t, m)
    <2>1. PICK m \in Mutex : rb_mutex_lock(t, m)  BY <1>4
    <2>2. /\ fatal' = fatal /\ (\A u \in Thread \ {t} : pc'[u] = pc[u])
          /\ \/ pc'[t] \in {"run", "unwind"} /\ frame[t] \notin MutexFrame
             \/ \E f \in LockFrame : LockSleep(t, m, f)
      BY <1>3, <2>1
    <2> HIDE DEF MInv, TInv, Typed
    <2> QED  BY <2>2
  <1> QED  BY <1>1, <1>2, <1>4
-----------------------------------------------------------------------------
(* What follows from the invariant in every state. *)

\* The counted threads are the sleepers of Threads and those of rb_mutex_lock.
LEMMA CountedSleepers == Counted = Sleepers \cup LockSleepers
  BY DEF Counted, Counts, Sleepers, LockSleepers

\* Types: the owner and the waiters of a mutex are threads, and so on.
THEOREM MutexTypeCorrect == MutexSpec => []MutexTypeOK
  <1>1. MInv => MutexTypeOK
    BY TInvTypeOK DEF MInv, MutexTyped, MutexTypeOK
  <1> QED  BY <1>1, MutexesInvariance, PTL

\* A thread keeps exactly the mutexes whose owner it is, through every unlock, end of
\* a thread and fork: keeping_mutexes can be walked and freed.
THEOREM KeptMutexesAreOwned == MutexSpec => []KeepingIsOwned
  <1>1. MInv => KeepingIsOwned  BY DEF MInv
  <1> QED  BY <1>1, MutexesInvariance, PTL

\* vm->sleeper counts the sleepers of both kinds until fatal is raised, and never
\* exceeds the number of living threads: the rb_bug of rb_check_deadlock is not reached.
THEOREM SleepersAreCounted == MutexSpec => []MutexSleeperCount
  <1>1. MInv => MutexSleeperCount
    BY CountedSleepers, CountedFinite DEF MInv, TInv, SleeperCount, MutexSleeperCount
  <1> QED  BY <1>1, MutexesInvariance, PTL

\* Without fork, the waiters on the queue of a mutex are alive and in the native_sleep of
\* rb_mutex_lock for that mutex: the rb_bug of rb_mutex_unlock_th is not reached, and no
\* list node is that of a returned call.
THEOREM WaitersAreWaiting ==
    ASSUME "fork" \notin Calls
    PROVE  MutexSpec => []WaiterIsWaiting
  <1>1. MInv => WaiterIsWaiting
    <2> SUFFICES ASSUME MInv, NEW m \in Mutex
                 PROVE  /\ IsInjective(waitq[m])
                        /\ \A t \in ToSet(waitq[m]) :
                             /\ status[t] \in {"RUNNABLE", "STOPPED_FOREVER"}
                             /\ pc[t] = "lock_sleep" /\ want[t] = m /\ owner[m] # t
      BY DEF WaiterIsWaiting, WaiterIsAlive
    <2>1. WaitersFit(m) /\ ToSet(waitq[m]) \subseteq Thread
      BY ToSetElements DEF MInv, MutexTyped
    <2>2. ASSUME NEW t \in ToSet(waitq[m])
          PROVE  /\ status[t] \in {"RUNNABLE", "STOPPED_FOREVER"}
                 /\ pc[t] = "lock_sleep" /\ want[t] = m /\ owner[m] # t
      <3>1. LockSleepFits(t)  BY <2>1 DEF MInv
      <3> QED  BY <2>1, <3>1 DEF WaitersFit, Gone, LockSleepFits
    <2> QED  BY <2>1, <2>2 DEF WaitersFit
  <1> QED  BY <1>1, MutexesInvariance, PTL

\* Without signals, no ConditionVariable#signal is spent on a thread that sleeps on:
\* whoever was taken off the queue has been woken.
THEOREM SignalledAreAwake == MutexSpec => []SignalledIsAwake
  <1>1. MInv => SignalledIsAwake
    <2> SUFFICES ASSUME MInv, signals = 0, NEW t \in waiting, Slumbering(t)
                 PROVE  t \in ToSet(cvq)
      BY DEF SignalledIsAwake
    <2>1. t \in Thread  BY DEF MInv, MutexTyped
    <2>2. CondvarFits(t)  BY <2>1 DEF MInv
    <2> QED  BY <2>2 DEF CondvarFits, MaySleepOn
  <1> QED  BY <1>1, MutexesInvariance, PTL
-----------------------------------------------------------------------------
(* Deadlocks are noticed. *)

\* Without fork, the patrol thread is one that sleeps in rb_mutex_lock.
LEMMA PatrolIsSleeper ==
    MInv /\ "fork" \notin Calls /\ patrol # NoThread => patrol \in LockSleepers
  <1> SUFFICES ASSUME MInv, "fork" \notin Calls, patrol # NoThread PROVE patrol \in LockSleepers
    OBVIOUS
  <1>1. patrol \in Thread /\ pc[patrol] = "lock_sleep"
    BY DEF MInv, MutexTyped, PatrolSleeps, Gone
  <1> QED  BY <1>1 DEF MInv, TInv, Places, LockSleepers

\* All living threads are counted, stopped for ever, and about to get no mutex: what
\* rb_check_deadlock tests, but for the patrol thread.
NobodyLeft ==
    /\ Counted = living
    /\ \A u \in living : /\ status[u] = "STOPPED_FOREVER" /\ ~RUBY_VM_INTERRUPTED(u, flag)
                         /\ u \notin Served(owner, waitq, locking)

\* That is so when all are asleep.
LEMMA AllAsleepStuck == MInv /\ AllAsleep => NobodyLeft
  <1> SUFFICES ASSUME MInv, AllAsleep PROVE NobodyLeft
    OBVIOUS
  <1>1. Counted = living  BY DEF AllAsleep, Counted, Counts
  <1>2. ASSUME NEW u \in living
        PROVE  /\ status[u] = "STOPPED_FOREVER" /\ ~RUBY_VM_INTERRUPTED(u, flag)
               /\ u \notin Served(owner, waitq, locking)
    <2>1. u \in Thread /\ LockSleepFits(u)  BY DEF MInv, TInv, Typed
    <2>2. ~RUBY_VM_INTERRUPTED(u, flag) /\ ~flag[u]  BY DEF AllAsleep, RUBY_VM_INTERRUPTED
    <2>3. CASE pc[u] = "asleep" /\ frame[u] \in Deadlockable
      <3>1. status[u] = "STOPPED_FOREVER"
        BY <2>1, <2>2, <2>3 DEF MInv, TInv, WakeupReachesSleeper, Slumbering, SleepStatus
      <3>2. locking[u] = NoMutex  BY <2>1, <2>3 DEF LockSleepFits
      <3> QED  BY <2>2, <3>1, <3>2 DEF Served
    <2>4. CASE pc[u] = "lock_sleep" /\ owner[want[u]] # NoThread
      <3>1. status[u] = "STOPPED_FOREVER" /\ locking[u] = want[u] /\ owner[want[u]] # u
        BY <2>1, <2>2, <2>4 DEF LockSleepFits
      <3> QED  BY <2>2, <2>4, <3>1 DEF Served
    <2> QED  BY <2>3, <2>4 DEF AllAsleep
  <1> QED  BY <1>1, <1>2 DEF NobodyLeft

\* Whoever falls asleep last becomes, or finds, the patrol thread.
LEMMA LockSleepPatrolled ==
    ASSUME MInv, MInv', NEW t \in Thread, NEW m \in Mutex, NEW f \in LockFrame, LockSleep(t, m, f),
           living' = living, ~fatal', AllAsleep'
    PROVE  patrol' # NoThread
  <1>1. /\ sleeper' = sleeper + 1
        /\ patrol' = IF Cardinality(living) = sleeper + 1 /\ patrol = NoThread THEN t ELSE patrol
    BY DEF LockSleep
  <1>2. NobodyLeft'  BY AllAsleepStuck, PTL
  <1>3. sleeper' = Cardinality(Counted')  BY DEF MInv, TInv, SleeperCount
  <1>4. sleeper' = Cardinality(living)  BY <1>2, <1>3 DEF NobodyLeft
  <1> QED  BY <1>1, <1>4, ThreadsAssumption

\* A thread that goes into another sleep finds the deadlock itself, unless there is a
\* patrol thread.
LEMMA NativeSleepPatrolled ==
    ASSUME MInv, MInv', NEW t \in Thread, UNCHANGED lockVars,
           NativeSleep(t, Served(owner, waitq, locking), patrol), ~fatal', AllAsleep'
    PROVE  patrol' # NoThread
  <1> USE DEF MInv, TInv
  <1> DEFINE fl == [flag EXCEPT ![t] = FALSE]
             served == Served(owner, waitq, locking)
  <1>1. /\ IF frame[t] \in Deadlockable
           THEN rb_check_deadlock(t, status, fl, sleeper + 1, living, served, patrol, 0)
           ELSE flag' = fl /\ UNCHANGED <<pending, sleeper, fatal>>
        /\ pc' = [pc EXCEPT ![t] = "asleep"]
        /\ pc[t] \in {"check", "woken"}
        /\ UNCHANGED <<frame, status, trap, living>>
    BY DEF NativeSleep
  <1>2. NobodyLeft'  BY AllAsleepStuck, PTL
  <1> HIDE DEF fl, served
  <1>3. t \in living' /\ pc'[t] = "asleep"  BY <1>1 DEF Places, Typed
  <1>4. rb_check_deadlock(t, status, fl, sleeper + 1, living, served, patrol, 0)
    BY <1>1, <1>3 DEF AllAsleep
  <1>5. ~NoLiveThreadLeft(t, status, fl, sleeper + 1, living, served, patrol)
        /\ flag' = fl /\ sleeper' = (sleeper + 1) - 0
    BY <1>4 DEF rb_check_deadlock
  <1>6. sleeper' = sleeper + 1  BY <1>5, CountedFinite DEF SleeperCount
  <1>7. sleeper' = Cardinality(living) /\ Cardinality(living) \in Nat
    BY <1>1, <1>2, CountedFinite DEF NobodyLeft, SleeperCount
  <1>8. \A u \in living : /\ status[u] = "STOPPED_FOREVER"
                          /\ ~RUBY_VM_INTERRUPTED(u, fl)
                          /\ u \notin served
    BY <1>1, <1>2, <1>5 DEF NobodyLeft, RUBY_VM_INTERRUPTED, lockVars, served
  <1>9. patrol \notin {t, NoThread}
    BY <1>5, <1>6, <1>7, <1>8 DEF NoLiveThreadLeft
  <1> QED  BY <1>9 DEF lockVars

\* So does the end of a thread.
LEMMA ThreadEndPatrolled ==
    ASSUME MInv, MInv', NEW t \in Thread, NEW abort \in BOOLEAN, MutexThreadEnd(t, abort),
           ~fatal', AllAsleep'
    PROVE  patrol' # NoThread
  <1> USE DEF MInv, TInv
  <1> DEFINE kept == ToSet(keeping[t])
             unlocked == FirstWaiters(kept)
             served == Served(owner', waitq', locking)
             alive == living'
             st == status'
  <1>1. ThreadEnd(t, abort, unlocked, served, patrol) /\ UNCHANGED <<locking, patrol>>
    BY DEF MutexThreadEnd
  <1>2. NobodyLeft'  BY AllAsleepStuck, PTL
  <1>3. \A u \in alive : /\ st[u] = "STOPPED_FOREVER"
                         /\ ~RUBY_VM_INTERRUPTED(u, flag)'
                         /\ u \notin served
    BY <1>1, <1>2 DEF NobodyLeft
  <1>4. Cardinality(alive) = sleeper'
    BY <1>2 DEF NobodyLeft, SleeperCount
  <1> HIDE DEF unlocked, served
  <1>5. Typed' /\ EndEffect(t)
    BY <1>1, ThreadEndEffect, Zenon
  <1>6. ~flag'[Main] /\ Main \in Thread
    <2>1. Main \in living'  BY DEF Places
    <2> QED  BY <1>3, <2>1, ThreadsAssumption DEF RUBY_VM_INTERRUPTED
  <1>7. PICK fl \in [Thread -> BOOLEAN] :
            /\ fl = flag' \/ fatal'
            /\ rb_check_deadlock(t, status', fl, sleeper, living', served, patrol, 0)
    <2>1. \/ UNCHANGED <<sleeper, fatal>> /\ flag'[Main]
          \/ EndChecks(t, unlocked, served, patrol)
      BY <1>1, ThreadEndEffect, Zenon
    <2> QED  BY <1>6, <2>1, Zenon DEF EndChecks
  <1>8. rb_check_deadlock(t, st, fl, sleeper, alive, served, patrol, 0) /\ fl = flag'
    BY <1>7
  <1> HIDE DEF st, alive
  <1>9. ~NoLiveThreadLeft(t, st, fl, sleeper, alive, served, patrol) /\ sleeper' = sleeper - 0
    BY <1>8 DEF rb_check_deadlock
  <1>10. sleeper' = sleeper /\ sleeper \in Int
    BY <1>9, CountedFinite DEF SleeperCount
  <1>11. \A u \in alive : ~RUBY_VM_INTERRUPTED(u, fl)
    BY <1>3, <1>5, <1>8 DEF RUBY_VM_INTERRUPTED, EndEffect
  <1>12. patrol \notin {t, NoThread}
    BY <1>3, <1>4, <1>9, <1>10, <1>11 DEF NoLiveThreadLeft
  <1> QED  BY <1>1, <1>12

\* After a plain step not all are asleep.
LEMMA PlainAwake ==
    ASSUME MInv', Plain
    PROVE  ~AllAsleep'
  <1> USE DEF MInv, TInv
  <1>1. CASE trap'
    <2>1. Main \in living'  BY DEF Places
    <2> QED  BY <1>1, <2>1 DEF AllAsleep, RUBY_VM_INTERRUPTED
  <1>2. CASE \E t \in Thread : pc'[t] \notin {"new", "asleep", "lock_sleep", "dead"}
    BY <1>2 DEF AllAsleep, Places
  <1> QED  BY <1>1, <1>2 DEF Plain

\* A step of rb_mutex_lock leaves a patrol thread if it leaves all asleep.
LEMMA LockingPatrolled ==
    ASSUME MInv, MInv', NEW t \in Thread,
           LockCheck(t) \/ MutexRelock(t) \/ \E m \in Mutex : rb_mutex_lock(t, m),
           ~fatal', AllAsleep'
    PROVE  patrol' # NoThread
  <1>1. living' = living  BY DEF LockCheck, MutexRelock, rb_mutex_lock
  <1>2. \/ pc'[t] \in {"run", "unwind"}
        \/ \E m \in Mutex, f \in LockFrame : LockSleep(t, m, f)
    BY LockingStep, Zenon
  <1>3. pc'[t] \notin {"run", "unwind"}  BY DEF AllAsleep, MInv, TInv, Places
  <1> QED  BY <1>1, <1>2, <1>3, LockSleepPatrolled

\* Every step keeps deadlocks patrolled.
LEMMA NextPatrolled ==
    ASSUME "fork" \notin Calls
    PROVE  MInv /\ MInv' /\ DeadlockIsPatrolled /\ [MutexNext]_vars => DeadlockIsPatrolled'
  <1> SUFFICES ASSUME MInv, MInv', DeadlockIsPatrolled, [MutexNext]_vars, AllAsleep', ~fatal'
               PROVE  (patrol \in LockSleepers)'
    BY DEF DeadlockIsPatrolled
  <1>0. TInv /\ ~Plain  BY PlainAwake DEF MInv
  <1>1. patrol' # NoThread => (patrol \in LockSleepers)'
    <2>1. (MInv /\ "fork" \notin Calls /\ patrol # NoThread => patrol \in LockSleepers)'
      BY PatrolIsSleeper, PTL
    <2> QED  BY <2>1
  <1>2. ASSUME NEW t \in Thread, ThreadStep(t) PROVE patrol' # NoThread
    <2>1. NativeSleep(t, Served(owner, waitq, locking), patrol) /\ UNCHANGED lockVars
      BY <1>0, <1>2, ThreadStepPlain DEF ThreadStep
    <2> QED  BY <2>1, NativeSleepPatrolled
  <1>3. ASSUME NEW t \in Thread, MutexStep(t) PROVE patrol' # NoThread
    <2>1. CASE LockInterrupted(t) \/ LockPatrolTimeout(t) \/ LockSpuriousWakeUp(t)
      <3>1. pc'[t] = "lock_check"
        BY <2>1 DEF LockInterrupted, LockPatrolTimeout, LockSpuriousWakeUp, LockWakeUp, MInv, TInv, Typed
      <3> QED  BY <3>1 DEF AllAsleep, MInv, TInv, Places
    <2>2. CASE LockCheck(t) \/ MutexRelock(t) \/ \E m \in Mutex : rb_mutex_lock(t, m)
      BY <2>2, LockingPatrolled
    <2>3. CASE \E abort \in BOOLEAN : MutexThreadEnd(t, abort)
      BY <2>3, ThreadEndPatrolled, Zenon
    <2>4. CASE \/ UnwindLock(t) \/ rb_mutex_synchronize(t)
               \/ rb_condvar_signal(t) \/ rb_condvar_broadcast(t)
               \/ \E m \in Mutex : \/ rb_mutex_trylock(t, m) \/ rb_mutex_unlock(t, m)
                                   \/ \E cv \in BOOLEAN : rb_mutex_sleep(t, m, cv)
      BY <1>0, <2>4, MutexStepPlain, Zenon
    <2> QED  BY <1>3, <2>1, <2>2, <2>3, <2>4, Zenon DEF MutexStep
  <1>4. CASE Signalled \/ TerminateLoop \/ MutexTerminateAll \/ rb_mutex_abandon_all
    BY <1>0, <1>4, MainStepPlain
  <1>5. CASE UNCHANGED vars
    <2>1. AllAsleep /\ ~fatal
      BY <1>5 DEF AllAsleep, RUBY_VM_INTERRUPTED, vars, core, lockVars
    <2>2. patrol \in LockSleepers  BY <2>1 DEF DeadlockIsPatrolled
    <2> QED  BY <1>5, <2>2 DEF LockSleepers, vars, core, lockVars
  <1> QED  BY <1>1, <1>2, <1>3, <1>4, <1>5 DEF MutexNext

\* Without fork, a deadlock through mutexes does not go unnoticed, whatever order the
\* threads fall asleep in: a thread that sleeps in rb_mutex_lock patrols.
THEOREM DeadlocksArePatrolled ==
    ASSUME "fork" \notin Calls
    PROVE  MutexSpec => []DeadlockIsPatrolled
  <1>1. MutexInit => DeadlockIsPatrolled
    BY ThreadsAssumption DEF MutexInit, Init, DeadlockIsPatrolled, AllAsleep
  <1> QED  BY <1>1, MutexesInvariance, NextPatrolled, PTL DEF MutexSpec
-----------------------------------------------------------------------------
(* ConditionVariable#wait. *)

\* A thread that is in ConditionVariable#wait is in the sleep or in the ensure clause.
LEMMA WaitingFrame ==
    ASSUME MInv, NEW t \in waiting
    PROVE  t \in Thread /\ frame[t] \in MutexFrame /\ want[t] \in Mutex /\ pc[t] # "run"
  <1>1. t \in Thread  BY DEF MInv, MutexTyped
  <1>2. WantFits(t)  BY <1>1 DEF MInv
  <1>3. frame[t] \in MutexFrame  BY <1>2 DEF WantFits, MutexFrame, LockFrame
  <1> QED  BY <1>1, <1>2, <1>3, RunsOutside DEF WantFits, MInv

\* The mutex is the thread's again when ConditionVariable#wait returns without an exception.
THEOREM CondvarsReturnLocked == MutexSpec => CondvarReturnsLocked
  <1> DEFINE A == \A t \in waiting : pc'[t] = "run" => \E m \in Mutex : m = want[t] /\ owner'[m] = t
  <1>1. MInv /\ [MutexNext]_vars => [A]_vars
    <2> SUFFICES ASSUME MInv, MutexNext, NEW w \in waiting, pc'[w] = "run"
                 PROVE  owner'[want[w]] = w
      BY WaitingFrame
    <2>0. TInv /\ w \in Thread /\ frame[w] \in MutexFrame /\ pc[w] # "run"
      BY WaitingFrame DEF MInv
    <2>1. ~Plain  BY <2>0 DEF Plain
    <2>2. ASSUME NEW t \in Thread, ThreadStep(t) PROVE FALSE
      <3>1. NativeSleep(t, Served(owner, waitq, locking), patrol)
        BY <2>0, <2>1, <2>2, ThreadStepPlain DEF ThreadStep
      <3> QED  BY <2>0, <3>1 DEF NativeSleep, TInv, Typed
    <2>3. ASSUME NEW t \in Thread, MutexStep(t) PROVE owner'[want[w]] = w
      <3>1. CASE LockInterrupted(t) \/ LockPatrolTimeout(t) \/ LockSpuriousWakeUp(t)
        BY <2>0, <3>1 DEF LockInterrupted, LockPatrolTimeout, LockSpuriousWakeUp, LockWakeUp, TInv, Typed
      <3>2. CASE LockCheck(t) \/ MutexRelock(t) \/ \E m \in Mutex : rb_mutex_lock(t, m)
        <4>1. /\ \A u \in Thread \ {t} : pc'[u] = pc[u]
              /\ \/ /\ pc'[t] \in {"run", "unwind"}
                    /\ frame[t] \in MutexFrame /\ pc'[t] = "run" => owner'[want[t]] = t
                 \/ \E m \in Mutex, f \in LockFrame : LockSleep(t, m, f)
          BY <3>2, LockingStep, Zenon
        <4>2. (\E m \in Mutex, f \in LockFrame : LockSleep(t, m, f)) => pc'[t] = "lock_sleep"
          BY <2>0 DEF LockSleep, TInv, Typed
        <4> QED  BY <2>0, <4>1, <4>2
      <3>3. CASE \E abort \in BOOLEAN : MutexThreadEnd(t, abort)
        BY <2>0, <3>3 DEF MutexThreadEnd, ThreadEnd, TInv, Typed
      <3>4. CASE \/ UnwindLock(t) \/ rb_mutex_synchronize(t)
                 \/ rb_condvar_signal(t) \/ rb_condvar_broadcast(t)
                 \/ \E m \in Mutex : \/ rb_mutex_trylock(t, m) \/ rb_mutex_unlock(t, m)
                                     \/ \E cv \in BOOLEAN : rb_mutex_sleep(t, m, cv)
        BY <2>0, <2>1, <3>4, MutexStepPlain, Zenon
      <3> QED  BY <2>3, <3>1, <3>2, <3>3, <3>4, Zenon DEF MutexStep
    <2>4. CASE Signalled \/ TerminateLoop \/ MutexTerminateAll \/ rb_mutex_abandon_all
      BY <2>0, <2>1, <2>4, MainStepPlain
    <2>5. CASE UNCHANGED vars  BY <2>0, <2>5 DEF vars, core
    <2> QED  BY <2>2, <2>3, <2>4, <2>5 DEF MutexNext
  <1> QED  BY <1>1, MutexesInvariance, PTL DEF MutexSpec, CondvarReturnsLocked
-----------------------------------------------------------------------------
(* fatal is raised for a deadlock only. *)

\* If not fewer threads sleep than live, all that live sleep.
LEMMA AllCounted ==
    ASSUME NEW S, NEW alive, alive \subseteq Thread, S \subseteq alive,
           Cardinality(alive) <= Cardinality(S)
    PROVE  S = alive
  <1>1. IsFiniteSet(alive)  BY ThreadsAssumption, FS_Subset
  <1>2. IsFiniteSet(S) /\ Cardinality(S) <= Cardinality(alive)  BY <1>1, FS_Subset
  <1>3. Cardinality(S) \in Nat /\ Cardinality(alive) \in Nat  BY <1>1, <1>2, FS_CardinalityType
  <1> QED  BY <1>1, <1>2, <1>3, FS_Subset

\* A thread that sleeps in rb_mutex_lock, was not interrupted and is not about to get
\* the mutex waits for an owner.
LEMMA UnservedWaits ==
    ASSUME MInv, NEW u \in Thread, pc[u] = "lock_sleep", ~flag[u],
           NEW ow, NEW wq, NEW lk, lk[u] = locking[u], u \notin Served(ow, wq, lk),
           u \in ToSet(waitq[want[u]]) => wq[want[u]] # <<>>
    PROVE  ow[want[u]] # NoThread
  <1>1. LockSleepFits(u) /\ WantFits(u)  BY DEF MInv
  <1>2. want[u] \in Mutex
    BY <1>1 DEF WantFits, MInv, TInv, Places, PlaceFits, At, MutexFrame, LockFrame
  <1>3. locking[u] = want[u] /\ u \in ToSet(waitq[want[u]])  BY <1>1 DEF LockSleepFits
  <1>4. want[u] # NoMutex  BY <1>2, MutexesAssumption
  <1> QED  BY <1>3, <1>4 DEF Served

\* The empty queue has no waiters.
LEMMA QueuedNotEmpty ==
    ASSUME NEW q, NEW u, u \in ToSet(q)
    PROVE  q # <<>>
  BY EmptyElements

\* A thread that goes into native_sleep finds the deadlock.
LEMMA NativeSleepFinds ==
    ASSUME MInv, NEW t \in Thread, UNCHANGED lockVars,
           NativeSleep(t, Served(owner, waitq, locking), patrol), ~fatal, fatal',
           NEW u \in living'
    PROVE  LeavesStuck(u)
  <1> USE DEF MInv, TInv
  <1> DEFINE fl == [flag EXCEPT ![t] = FALSE]
             served == Served(owner, waitq, locking)
  <1>1. /\ IF frame[t] \in Deadlockable
           THEN rb_check_deadlock(t, status, fl, sleeper + 1, living, served, patrol, 0)
           ELSE flag' = fl /\ UNCHANGED <<pending, sleeper, fatal>>
        /\ pc' = [pc EXCEPT ![t] = "asleep"]
        /\ pc[t] = "check" \/ (pc[t] = "woken" /\ frame[t] \in SpuriousCheck)
        /\ UNCHANGED <<frame, status, trap, signals, living, target>>
    BY DEF NativeSleep
  <1>2. fl \in [Thread -> BOOLEAN] /\ \A v \in Thread \ {t} : fl[v] = flag[v]
    BY DEF Typed
  <1> HIDE DEF fl, served
  <1>3. /\ frame[t] \in Deadlockable
        /\ NoLiveThreadLeft(t, status, fl, sleeper + 1, living, served, patrol)
        /\ flag' = rb_threadptr_interrupt(fl, {Main})
    BY <1>1 DEF rb_check_deadlock
  <1>4. u \in Thread /\ u \in living /\ status[u] = "STOPPED_FOREVER" /\ ~fl[u]
        /\ ~RUBY_VM_INTERRUPTED(u, fl) /\ u \notin served
    BY <1>1, <1>3 DEF NoLiveThreadLeft, RUBY_VM_INTERRUPTED, Typed
  <1>5. pc'[t] = "asleep" /\ \A v \in Thread \ {t} : pc'[v] = pc[v]  BY <1>1 DEF Typed
  <1>6. Counted' = living
    <2>1. t \in living /\ ~Counts(t) /\ Counts(t)' /\ \A v \in Thread \ {t} : Counts(v)' <=> Counts(v)
      BY <1>1, <1>3, <1>5 DEF Counts, Places
    <2>2. Cardinality(Counted') = Cardinality(Counted) + 1  BY <1>1, <2>1, OneMoreCounted
    <2>3. Cardinality(living) <= Cardinality(Counted')
      BY <1>3, <2>2 DEF NoLiveThreadLeft, SleeperCount
    <2>4. Counted' \subseteq living /\ living \subseteq Thread  BY <1>1 DEF Counted, Typed
    <2> DEFINE S == Counted'
    <2> HIDE DEF S
    <2>5. S = living  BY <2>3, <2>4, AllCounted DEF S
    <2> QED  BY <2>5 DEF S
  <1>7. pc'[u] \in {"asleep", "lock_sleep"}  BY <1>1, <1>6 DEF Counted, Counts
  <1>8. u # Main => ~flag'[u]  BY <1>3, <1>4 DEF rb_threadptr_interrupt
  <1>9. pc'[u] = "lock_sleep" => owner'[want'[u]] # NoThread
    <2> SUFFICES ASSUME pc'[u] = "lock_sleep" PROVE owner[want[u]] # NoThread
      BY DEF lockVars
    <2>1. u # t /\ pc[u] = "lock_sleep"  BY <1>4, <1>5
    <2>2. ~flag[u]  BY <1>2, <1>4, <2>1
    <2>3. u \in ToSet(waitq[want[u]]) => waitq[want[u]] # <<>>  BY QueuedNotEmpty
    <2> QED  BY <1>4, <2>1, <2>2, <2>3, UnservedWaits DEF served
  <1>10. pc'[u] = "asleep" /\ frame'[u] = "join" /\ signals' = 0 => status'[target'[u]] # "KILLED"
    <2> SUFFICES ASSUME pc'[u] = "asleep", frame[u] = "join", signals = 0
                 PROVE  status[target[u]] # "KILLED"
      BY <1>1
    <2>1. SeesEnd(u)  BY <1>4 DEF JoinersSeeEnd
    <2>2. CASE u = t
      BY <1>1, <1>4, <2>1, <2>2 DEF SeesEnd, SpuriousCheck
    <2>3. CASE u # t
      BY <1>2, <1>4, <1>5, <2>1, <2>3 DEF SeesEnd, Slumbering, RUBY_VM_INTERRUPTED
    <2> QED  BY <2>2, <2>3
  <1> QED  BY <1>7, <1>8, <1>9, <1>10 DEF LeavesStuck

\* The end of a thread finds the deadlock.
LEMMA ThreadEndFinds ==
    ASSUME MInv, MInv', NEW t \in Thread, NEW abort \in BOOLEAN, MutexThreadEnd(t, abort),
           ~fatal, fatal', NEW u \in living'
    PROVE  LeavesStuck(u)
  <1> USE DEF MInv, TInv
  <1> DEFINE kept == ToSet(keeping[t])
             unlocked == FirstWaiters(kept)
             ow == owner'
             wq == waitq'
             served == Served(ow, wq, locking)
             alive == living'
             st == status'
  <1>1. /\ rb_mutex_unlock_th(t, kept, <<>>) /\ ThreadEnd(t, abort, unlocked, served, patrol)
        /\ UNCHANGED <<locking, patrol, want>>
    BY DEF MutexThreadEnd
  <1>2. /\ t \in living /\ pc[t] \in {"run", "unwind"} /\ status[t] # "KILLED"
    BY <1>1 DEF ThreadEnd, Places, PlaceFits
  <1>3. wq = [m \in Mutex |-> IF m \in kept /\ waitq[m] # <<>> THEN Tail(waitq[m]) ELSE waitq[m]]
    BY <1>1 DEF rb_mutex_unlock_th
  <1> HIDE DEF unlocked, served
  <1>4. Typed' /\ EndEffect(t)
    BY <1>1, ThreadEndEffect, Zenon
  <1>5. PICK fl \in [Thread -> BOOLEAN] :
            /\ \A v \in Thread : flag[v] \/ v \in unlocked => fl[v]
            /\ rb_check_deadlock(t, status', fl, sleeper, living', served, patrol, 0)
    <2>1. \/ UNCHANGED <<sleeper, fatal>> /\ flag'[Main]
          \/ EndChecks(t, unlocked, served, patrol)
      BY <1>1, ThreadEndEffect, Zenon
    <2>2. ~UNCHANGED <<sleeper, fatal>>  OBVIOUS
    <2> QED  BY <2>1, <2>2, Zenon DEF EndChecks
  <1>6. rb_check_deadlock(t, st, fl, sleeper, alive, served, patrol, 0)  BY <1>5
  <1>7. alive = living \ {t} /\ alive \subseteq Thread /\ u \in alive
    BY <1>4 DEF EndEffect, Typed
  <1> HIDE DEF st, alive, ow, wq
  <1>8. NoLiveThreadLeft(t, st, fl, sleeper, alive, served, patrol)
        /\ flag' = rb_threadptr_interrupt(fl, {Main})
    BY <1>6 DEF rb_check_deadlock
  <1>9. u \in Thread /\ u # t /\ st[u] = "STOPPED_FOREVER" /\ ~RUBY_VM_INTERRUPTED(u, fl) /\ ~fl[u]
        /\ u \notin served
    BY <1>7, <1>8 DEF NoLiveThreadLeft, RUBY_VM_INTERRUPTED
  <1>10. ~flag[u] /\ u \notin unlocked  BY <1>5, <1>9
  <1>11. pc'[u] = pc[u] /\ frame'[u] = frame[u] /\ target'[u] = target[u] /\ signals' = signals
    BY <1>4, <1>9 DEF EndEffect
  <1>12. Counted = alive
    <2>1. Counted \subseteq alive
      BY <1>2, <1>7 DEF Counted, Counts
    <2>2. Cardinality(alive) <= Cardinality(Counted)
      BY <1>8 DEF NoLiveThreadLeft, SleeperCount
    <2> QED  BY <1>7, <2>1, <2>2, AllCounted
  <1>13. pc'[u] \in {"asleep", "lock_sleep"}  BY <1>7, <1>11, <1>12 DEF Counted, Counts
  <1>14. u # Main => ~flag'[u]  BY <1>8, <1>9 DEF rb_threadptr_interrupt
  <1>15. pc'[u] = "lock_sleep" => owner'[want'[u]] # NoThread
    <2> SUFFICES ASSUME pc[u] = "lock_sleep" PROVE ow[want[u]] # NoThread
      BY <1>1, <1>11 DEF ow
    <2>1. u \in ToSet(waitq[want[u]]) => wq[want[u]] # <<>>
      <3> SUFFICES ASSUME u \in ToSet(waitq[want[u]]) PROVE u \in ToSet(wq[want[u]])
        BY QueuedNotEmpty
      <3>1. want[u] \in Mutex /\ waitq[want[u]] \in Seq(Thread) /\ waitq[want[u]] # <<>>
        <4>1. WantFits(u)  BY <1>9
        <4>2. want[u] \in Mutex
          BY <1>9, <4>1 DEF WantFits, Places, PlaceFits, At, MutexFrame, LockFrame
        <4> QED  BY <4>2, QueuedNotEmpty DEF MutexTyped
      <3>2. CASE want[u] \in kept
        <4>1. u # Head(waitq[want[u]])
          BY <1>10, <3>1, <3>2 DEF unlocked, FirstWaiters
        <4>2. u \in ToSet(Tail(waitq[want[u]]))  BY <3>1, <4>1, TailElements
        <4> QED  BY <1>3, <3>1, <3>2, <4>2
      <3>3. CASE want[u] \notin kept  BY <1>3, <3>1, <3>3
      <3> QED  BY <3>2, <3>3
    <2> QED  BY <1>9, <1>10, <2>1, UnservedWaits DEF served
  <1>16. pc'[u] = "asleep" /\ frame'[u] = "join" /\ signals' = 0 => status'[target'[u]] # "KILLED"
    <2> SUFFICES ASSUME pc[u] = "asleep", frame[u] = "join", signals = 0
                 PROVE  status'[target[u]] # "KILLED"
      BY <1>11
    <2>1. SeesEnd(u) /\ Slumbering(u)
      BY <1>9, <1>10 DEF JoinersSeeEnd, Slumbering, RUBY_VM_INTERRUPTED
    <2>2. status[target[u]] # "KILLED" /\ target[u] \in Thread
      BY <1>9, <2>1 DEF SeesEnd, JoinLists, Joining
    <2>3. u \notin join_list[t]  BY <1>4, <1>9 DEF EndEffect, st
    <2>4. target[u] # t  BY <1>2, <1>9, <2>3 DEF JoinLists, Joining
    <2> QED  BY <1>4, <2>2, <2>4 DEF EndEffect
  <1> QED  BY <1>13, <1>14, <1>15, <1>16 DEF LeavesStuck

\* The patrol thread finds the deadlock.
LEMMA LockWakeUpFinds ==
    ASSUME MInv, NEW t \in Thread, NEW cause \in BOOLEAN, LockWakeUp(t, cause), ~fatal, fatal',
           PatrolWaitsForOwner, NEW u \in living'
    PROVE  LeavesStuck(u)
  <1> USE DEF MInv, TInv
  <1> DEFINE m == want[t]
             new == RemoveFirst(waitq[m], t)
             wq == [waitq EXCEPT ![m] = new]
             ow == [owner EXCEPT ![m] = IF @ = NoThread THEN t ELSE @]
             lk == [locking EXCEPT ![t] = NoMutex]
             served == Served(ow, wq, lk)
  <1>1. /\ pc[t] = "lock_sleep" /\ pc' = [pc EXCEPT ![t] = "lock_check"]
        /\ owner' = ow
        /\ IF patrol = t /\ ~RUBY_VM_INTERRUPTED(t, flag)
           THEN rb_check_deadlock(t, status, flag, sleeper, living, served, NoThread, 1)
           ELSE sleeper' = sleeper - 1 /\ UNCHANGED <<pending, flag, fatal>>
        /\ status' = [status EXCEPT ![t] = IF @ = "STOPPED_FOREVER" THEN "RUNNABLE" ELSE @]
        /\ UNCHANGED <<frame, trap, signals, living, target, want>>
    BY DEF LockWakeUp, list_del
  <1>2. lk \in [Thread -> Mutex \cup {NoMutex}] /\ \A v \in Thread \ {t} : lk[v] = locking[v]
    BY DEF MutexTyped
  <1>3. \A n \in Mutex, v \in Thread \ {t} : v \in ToSet(waitq[n]) => v \in ToSet(wq[n])
    <2> SUFFICES ASSUME NEW n \in Mutex, NEW v \in Thread \ {t}, v \in ToSet(waitq[n])
                 PROVE  v \in ToSet(wq[n])
      OBVIOUS
    <2>1. waitq[n] \in Seq(Thread)  BY DEF MutexTyped
    <2>2. ToSet(waitq[n]) \subseteq ToSet(RemoveFirst(waitq[n], t)) \cup {t}
      BY <2>1, RemoveFirstElements
    <2>3. wq[n] = IF n = m THEN RemoveFirst(waitq[n], t) ELSE waitq[n]
      BY DEF MutexTyped
    <2> QED  BY <2>2, <2>3
  <1> HIDE DEF served, wq, ow, lk
  <1>4. /\ patrol = t
        /\ NoLiveThreadLeft(t, status, flag, sleeper, living, served, NoThread)
        /\ flag' = rb_threadptr_interrupt(flag, {Main})
    BY <1>1 DEF rb_check_deadlock
  <1>5. CASE u = t
    <2>1. pc'[u] = "lock_check" /\ patrol = u  BY <1>1, <1>4, <1>5 DEF Typed
    <2>2. t \in Thread /\ LockSleepFits(t) /\ WantFits(t)  OBVIOUS
    <2>3. m \in Mutex
      BY <1>1, <2>2 DEF WantFits, Places, PlaceFits, At, MutexFrame, LockFrame
    <2>4. owner[m] \notin {t, NoThread}
      BY <1>1, <1>4, <2>2, ThreadsAssumption DEF LockSleepFits, PatrolWaitsForOwner
    <2>5. owner'[want'[u]] # t  BY <1>1, <1>5, <2>3, <2>4 DEF ow, MutexTyped
    <2> QED  BY <1>5, <2>1, <2>5 DEF LeavesStuck
  <1>6. CASE u # t
    <2>1. u \in Thread /\ u \in living /\ status[u] = "STOPPED_FOREVER" /\ ~flag[u]
          /\ ~RUBY_VM_INTERRUPTED(u, flag) /\ u \notin served
      BY <1>1, <1>4 DEF NoLiveThreadLeft, RUBY_VM_INTERRUPTED, Typed
    <2>2. pc'[u] = pc[u]  BY <1>1, <1>6, <2>1 DEF Typed
    <2>3. Counted = living
      <3>1. Counted \subseteq living /\ living \subseteq Thread  BY DEF Counted, Typed
      <3>2. Cardinality(living) <= Cardinality(Counted)
        BY <1>4 DEF NoLiveThreadLeft, SleeperCount
      <3> QED  BY <3>1, <3>2, AllCounted
    <2>4. pc'[u] \in {"asleep", "lock_sleep"}  BY <2>1, <2>2, <2>3 DEF Counted, Counts
    <2>5. u # Main => ~flag'[u]  BY <1>4, <2>1 DEF rb_threadptr_interrupt
    <2>6. pc'[u] = "lock_sleep" => owner'[want'[u]] # NoThread
      <3> SUFFICES ASSUME pc[u] = "lock_sleep" PROVE ow[want[u]] # NoThread
        BY <1>1, <2>2
      <3>1. want[u] \in Mutex
        <4>1. WantFits(u)  BY <2>1
        <4> QED  BY <2>1, <4>1 DEF WantFits, Places, PlaceFits, At, MutexFrame, LockFrame
      <3>2. u \in ToSet(waitq[want[u]]) => wq[want[u]] # <<>>
        BY <1>3, <1>6, <2>1, <3>1, QueuedNotEmpty
      <3> QED  BY <1>2, <1>6, <2>1, <3>2, UnservedWaits DEF served
    <2>7. pc'[u] = "asleep" /\ frame'[u] = "join" /\ signals' = 0 => status'[target'[u]] # "KILLED"
      <3> SUFFICES ASSUME pc[u] = "asleep", frame[u] = "join", signals = 0
                   PROVE  status'[target[u]] # "KILLED"
        BY <1>1, <2>2
      <3>1. SeesEnd(u) /\ Slumbering(u)  BY <2>1 DEF JoinersSeeEnd, Slumbering
      <3>2. status[target[u]] # "KILLED" /\ target[u] \in Thread
        BY <2>1, <3>1 DEF SeesEnd, JoinLists, Joining
      <3> QED  BY <1>1, <3>2 DEF Typed
    <2> QED  BY <2>4, <2>5, <2>6, <2>7 DEF LeavesStuck
  <1> QED  BY <1>5, <1>6

\* fatal is raised only when every living thread is stuck: no thread is about to get
\* its mutex, the patrol thread that found out has not got its own, none was
\* interrupted, and none joins a thread that has ended; unless the patrol thread was
\* asleep on a free mutex.
THEOREM FatalMeansDeadlock == MutexSpec => FatalFindsAllAsleep
  <1> DEFINE A == ~fatal /\ fatal' /\ PatrolWaitsForOwner => \A t \in living' : LeavesStuck(t)
  <1>1. MInv /\ MInv' /\ [MutexNext]_vars => [A]_vars
    <2> SUFFICES ASSUME MInv, MInv', MutexNext, ~fatal, fatal', PatrolWaitsForOwner, NEW u \in living'
                 PROVE  LeavesStuck(u)
      OBVIOUS
    <2>0. TInv /\ ~Plain  BY DEF Plain, MInv
    <2>1. ASSUME NEW t \in Thread, ThreadStep(t) PROVE LeavesStuck(u)
      <3>1. NativeSleep(t, Served(owner, waitq, locking), patrol) /\ UNCHANGED lockVars
        BY <2>0, <2>1, ThreadStepPlain DEF ThreadStep
      <3> QED  BY <3>1, NativeSleepFinds
    <2>2. ASSUME NEW t \in Thread, MutexStep(t) PROVE LeavesStuck(u)
      <3>1. CASE LockInterrupted(t) \/ LockPatrolTimeout(t) \/ LockSpuriousWakeUp(t)
        <4>1. PICK cause \in BOOLEAN : LockWakeUp(t, cause)
          <5>1. /\ RUBY_VM_INTERRUPTED(t, flag) \in BOOLEAN /\ (patrol = t) \in BOOLEAN
                /\ (~RUBY_VM_INTERRUPTED(t, flag) /\ patrol # t) \in BOOLEAN
            BY DEF RUBY_VM_INTERRUPTED
          <5> QED
            BY <3>1, <5>1, Zenon DEF LockInterrupted, LockPatrolTimeout, LockSpuriousWakeUp
        <4> QED  BY <4>1, LockWakeUpFinds, Zenon
      <3>2. CASE LockCheck(t) \/ MutexRelock(t) \/ \E m \in Mutex : rb_mutex_lock(t, m)
        BY <3>2, LockingStep, Zenon
      <3>3. CASE \E abort \in BOOLEAN : MutexThreadEnd(t, abort)
        BY <3>3, ThreadEndFinds, Zenon
      <3>4. CASE \/ UnwindLock(t) \/ rb_mutex_synchronize(t)
                 \/ rb_condvar_signal(t) \/ rb_condvar_broadcast(t)
                 \/ \E m \in Mutex : \/ rb_mutex_trylock(t, m) \/ rb_mutex_unlock(t, m)
                                     \/ \E cv \in BOOLEAN : rb_mutex_sleep(t, m, cv)
        BY <2>0, <3>4, MutexStepPlain, Zenon
      <3> QED  BY <2>2, <3>1, <3>2, <3>3, <3>4, Zenon DEF MutexStep
    <2>3. CASE Signalled \/ TerminateLoop \/ MutexTerminateAll \/ rb_mutex_abandon_all
      BY <2>0, <2>3, MainStepPlain
    <2>4. CASE UNCHANGED vars  BY <2>4 DEF vars, core
    <2> QED  BY <2>1, <2>2, <2>3, <2>4 DEF MutexNext
  <1> QED  BY <1>1, MutexesInvariance, PTL DEF MutexSpec, FatalFindsAllAsleep
=============================================================================

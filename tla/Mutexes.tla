------------------------------ MODULE Mutexes ------------------------------
(***************************************************************************)
(* Mutex and ConditionVariable (thread_sync.c) on top of the threads of    *)
(* module Threads: the owner of each mutex, its queue of waiters, the list *)
(* of mutexes each thread keeps, the patrol thread that polls for          *)
(* deadlocks, and what becomes of all that when threads end or fork.       *)
(***************************************************************************)
EXTENDS Threads, SequencesExt

CONSTANTS
    Mutex,
    NoMutex,
    MaxBlocks   \* bound: nested blocks of Mutex#synchronize

VARIABLES
    owner,      \* mutex->th
    waitq,      \* mutex->waitq
    keeping,    \* th->keeping_mutexes, linked by next_mutex
    locking,    \* th->locking_mutex
    patrol,     \* patrol_thread
    want,       \* the mutex of the rb_mutex_lock or rb_mutex_sleep a thread is in
    blocks,     \* the blocks of Mutex#synchronize a thread is in, innermost first
    cvq,        \* the waitq of a condition variable
    waiting     \* the threads in ConditionVariable#wait

lockVars == <<owner, waitq, keeping, locking, patrol, want, blocks, cvq, waiting>>
vars == <<core, lockVars>>

ASSUME MutexesAssumption == NoMutex \notin Mutex /\ MaxBlocks \in Nat

MutexInit ==
    /\ Init
    /\ owner = [m \in Mutex |-> NoThread]
    /\ waitq = [m \in Mutex |-> <<>>]
    /\ keeping = [t \in Thread |-> <<>>]
    /\ locking = [t \in Thread |-> NoMutex]
    /\ patrol = NoThread
    /\ want = [t \in Thread |-> NoMutex]
    /\ blocks = [t \in Thread |-> <<>>]
    /\ cvq = <<>>
    /\ waiting = {}
-----------------------------------------------------------------------------
(* Pieces of the operations. *)

\* The threads rb_check_deadlock sees about to get a mutex: theirs already, or
\* free with waiters.
Served(ow, wq, lk) ==
    {t \in Thread : /\ lk[t] # NoMutex
                    /\ \/ ow[lk[t]] = t
                       \/ ow[lk[t]] = NoThread /\ wq[lk[t]] # <<>>}

\* mutex_locked, with the assignment of mutex->th.
mutex_locked(t, m) ==
    /\ owner' = [owner EXCEPT ![m] = t]
    /\ keeping' = [keeping EXCEPT ![t] = <<m>> \o @]

\* The threads rb_mutex_unlock_th interrupts when the mutexes of ms are unlocked:
\* the first waiter of each, which leaves the queue.
FirstWaiters(ms) == {Head(waitq[m]) : m \in {n \in ms : waitq[n] # <<>>}}

\* t unlocks the mutexes of ms and keeps those of rest.  The process aborts (rb_bug)
\* on a waiter that has ended: no step then.
rb_mutex_unlock_th(t, ms, rest) ==
    /\ \A u \in FirstWaiters(ms) : status[u] # "KILLED"
    /\ owner' = [m \in Mutex |-> IF m \in ms THEN NoThread ELSE owner[m]]
    /\ waitq' = [m \in Mutex |->
                    IF m \in ms /\ waitq[m] # <<>> THEN Tail(waitq[m]) ELSE waitq[m]]
    /\ keeping' = [keeping EXCEPT ![t] = rest]

\* Leave a blocking call normally or, if an exception is on its way, with it.
Return(t) ==
    /\ frame' = [frame EXCEPT ![t] = "none"]
    /\ IF exc[t] = "none"
       THEN pc' = [pc EXCEPT ![t] = "run"] /\ running' = NoThread
       ELSE pc' = [pc EXCEPT ![t] = "unwind"] /\ running' = t

\* delete_from_waitq, the ensure clause of ConditionVariable#wait.
LeaveCondvar(t) ==
    /\ waiting' = waiting \ {t}
    /\ cvq' = IF t \in waiting THEN RemoveFirst(cvq, t) ELSE cvq
-----------------------------------------------------------------------------
(* rb_mutex_lock. *)

\* Mutant: the node stays on the queue.
Mut_NoListDel(t, m) == waitq

\* The queues when t has taken its node off that of m.
list_del(t, m) == [waitq EXCEPT ![m] = RemoveFirst(@, t)]

\* Mutant: nobody becomes the patrol thread.
Mut_NoPatrol(t, m, f) ==
    /\ frame' = [frame EXCEPT ![t] = f]
    /\ want' = [want EXCEPT ![t] = m]
    /\ status' = [status EXCEPT ![t] = "STOPPED_FOREVER"]
    /\ locking' = [locking EXCEPT ![t] = m]
    /\ sleeper' = sleeper + 1
    /\ waitq' = [waitq EXCEPT ![m] = Append(@, t)]
    /\ pc' = [pc EXCEPT ![t] = "lock_sleep"]
    /\ running' = NoThread
    /\ UNCHANGED patrol

\* One turn of the loop, up to native_sleep.  A thread that finds itself the last
\* one awake becomes the patrol thread, whose sleep has a timeout.
LockSleep(t, m, f) ==
    /\ frame' = [frame EXCEPT ![t] = f]
    /\ want' = [want EXCEPT ![t] = m]
    /\ status' = [status EXCEPT ![t] = "STOPPED_FOREVER"]
    /\ locking' = [locking EXCEPT ![t] = m]
    /\ sleeper' = sleeper + 1
    /\ patrol' = IF Cardinality(living) = sleeper + 1 /\ patrol = NoThread THEN t ELSE patrol
    /\ waitq' = [waitq EXCEPT ![m] = Append(@, t)]
    /\ pc' = [pc EXCEPT ![t] = "lock_sleep"]
    /\ running' = NoThread

\* What the caller of rb_mutex_lock does when it has the mutex.
LockReturn(t, m, f) ==
    /\ Return(t)
    /\ want' = [want EXCEPT ![t] = NoMutex]
    /\ blocks' = IF f = "synchronize" THEN [blocks EXCEPT ![t] = <<m>> \o @] ELSE blocks
    /\ LeaveCondvar(t)

\* Mutex#lock, or the beginning of Mutex#synchronize.
rb_mutex_lock(t, m) ==
    /\ Idle(t)
    /\ \E f \in Calls \cap {"lock", "synchronize"} :
       /\ f = "synchronize" => Len(blocks[t]) < MaxBlocks
       /\ \/ /\ owner[m] = NoThread
             /\ mutex_locked(t, m)
             /\ LockReturn(t, m, f)
             /\ UNCHANGED <<waitq, locking, patrol, status, flag, sleeper, exc>>
          \/ /\ owner[m] = t
             /\ RaiseError(t)
             /\ UNCHANGED <<lockVars, status, frame, flag, sleeper>>
          \/ /\ owner[m] \notin {t, NoThread}
             /\ LockSleep(t, m, f)
             /\ UNCHANGED <<owner, keeping, blocks, cvq, waiting, flag, exc>>
    /\ UNCHANGED <<trap, saved, signals, pending, to_kill, living, join_list, target, fatal>>

\* Mutex#try_lock succeeds.
rb_mutex_trylock(t, m) ==
    /\ Idle(t)
    /\ "lock" \in Calls
    /\ owner[m] = NoThread
    /\ mutex_locked(t, m)
    /\ UNCHANGED <<core, waitq, locking, patrol, want, blocks, cvq, waiting>>

\* native_sleep returns and the rest of the turn runs, up to CHECK_INTS: take the
\* mutex if it is free; the patrol thread looks for a deadlock if its time is over.
LockWakeUp(t, cause) ==
    /\ CanRun(t)
    /\ pc[t] = "lock_sleep"
    /\ cause
    /\ LET m == want[t]
           wq == list_del(t, m)
           ow == [owner EXCEPT ![m] = IF @ = NoThread THEN t ELSE @]
           lk == [locking EXCEPT ![t] = NoMutex]
       IN  /\ waitq' = wq
           /\ owner' = ow
           /\ locking' = lk
           /\ IF patrol = t /\ ~RUBY_VM_INTERRUPTED(t, flag)
              THEN rb_check_deadlock(t, status, flag, sleeper, living,
                                     Served(ow, wq, lk), NoThread, 1)
              ELSE sleeper' = sleeper - 1 /\ UNCHANGED <<pending, flag, fatal>>
           /\ keeping' = IF ow[m] = t THEN [keeping EXCEPT ![t] = <<m>> \o @] ELSE keeping
    /\ patrol' = IF patrol = t THEN NoThread ELSE patrol
    /\ status' = [status EXCEPT ![t] = IF @ = "STOPPED_FOREVER" THEN "RUNNABLE" ELSE @]
    /\ pc' = [pc EXCEPT ![t] = "lock_check"]
    /\ running' = NoThread
    /\ UNCHANGED <<frame, trap, saved, signals, exc, to_kill, living, join_list, target,
                   want, blocks, cvq, waiting>>

LockInterrupted(t) == LockWakeUp(t, RUBY_VM_INTERRUPTED(t, flag))
LockPatrolTimeout(t) == LockWakeUp(t, patrol = t)
LockSpuriousWakeUp(t) == LockWakeUp(t, ~RUBY_VM_INTERRUPTED(t, flag) /\ patrol # t)

\* CHECK_INTS passes: done if the mutex is ours, otherwise sleep again.
LockCheck(t) ==
    /\ CanRun(t)
    /\ pc[t] = "lock_check"
    /\ MayPass(t)
    /\ flag' = [flag EXCEPT ![t] = FALSE]
    /\ IF owner[want[t]] = t
       THEN /\ LockReturn(t, want[t], frame[t])
            /\ UNCHANGED <<status, sleeper, waitq, locking, patrol>>
       ELSE /\ LockSleep(t, want[t], frame[t])
            /\ UNCHANGED <<blocks, cvq, waiting>>
    /\ UNCHANGED <<trap, saved, signals, pending, exc, to_kill, living, join_list, target,
                   fatal, owner, keeping>>

\* CHECK_INTS raised: the exception leaves rb_mutex_lock, and the sleep it was
\* the ensure clause of, whether the mutex was locked or not.
UnwindLock(t) ==
    /\ pc[t] = "unwind"
    /\ want[t] # NoMutex
    /\ frame[t] \in {"lock", "synchronize"}
    /\ frame' = [frame EXCEPT ![t] = "none"]
    /\ want' = [want EXCEPT ![t] = NoMutex]
    /\ LeaveCondvar(t)
    /\ UNCHANGED <<running, pc, status, flag, trap, saved, signals, pending, exc, to_kill,
                   sleeper, living, join_list, target, fatal,
                   owner, waitq, keeping, locking, patrol, blocks>>

-----------------------------------------------------------------------------
(* Unlocking. *)

\* What rb_mutex_unlock does to the caller and to the first waiter, or its error.
Unlock(t, m) ==
    IF owner[m] = t
    THEN /\ rb_mutex_unlock_th(t, {m}, RemoveFirst(keeping[t], m))
         /\ flag' = rb_threadptr_interrupt(flag, FirstWaiters({m}))
         /\ UNCHANGED <<exc, pc, running>>
    ELSE /\ RaiseError(t)
         /\ UNCHANGED <<owner, waitq, keeping, flag>>

rb_mutex_unlock(t, m) ==
    /\ Idle(t)
    /\ "lock" \in Calls
    /\ Unlock(t, m)
    /\ UNCHANGED <<frame, status, trap, saved, signals, pending, to_kill, sleeper, living,
                   join_list, target, fatal, locking, patrol, want, blocks, cvq, waiting>>

\* A block of Mutex#synchronize is left, normally or by an exception: the ensure
\* clause of rb_mutex_synchronize.
rb_mutex_synchronize(t) ==
    /\ CanRun(t)
    /\ pc[t] \in {"run", "unwind"}
    /\ frame[t] = "none"
    /\ blocks[t] # <<>>
    /\ Unlock(t, Head(blocks[t]))
    /\ blocks' = [blocks EXCEPT ![t] = Tail(@)]
    /\ UNCHANGED <<frame, status, trap, saved, signals, pending, to_kill, sleeper, living,
                   join_list, target, fatal, locking, patrol, want, cvq, waiting>>
-----------------------------------------------------------------------------
(* Mutex#sleep and ConditionVariable. *)

\* Mutex#sleep, up to the first CHECK_INTS of its sleep; cv tells whether
\* ConditionVariable#wait calls it, with the caller on the queue already.
rb_mutex_sleep(t, m, cv) ==
    /\ Idle(t)
    /\ \E f \in Calls \cap {"mutex_sleep", "mutex_timed_sleep"} :
          IF owner[m] = t
          THEN /\ rb_mutex_unlock_th(t, {m}, RemoveFirst(keeping[t], m))
               /\ flag' = rb_threadptr_interrupt(flag, FirstWaiters({m}))
               /\ want' = [want EXCEPT ![t] = m]
               /\ SleepBegin(t, f)
               /\ IF cv THEN cvq' = Append(cvq, t) /\ waiting' = waiting \cup {t}
                        ELSE UNCHANGED <<cvq, waiting>>
               /\ UNCHANGED exc
          ELSE /\ RaiseError(t)
               /\ UNCHANGED <<owner, waitq, keeping, flag, want, status, frame, cvq, waiting>>
    /\ UNCHANGED <<trap, saved, signals, pending, to_kill, sleeper, living, join_list,
                   target, fatal, locking, patrol, blocks>>

\* Mutant: the mutex is locked again only if it is free.
Mut_RelockIfFree(t) ==
    /\ pc[t] \in {"back", "unwind"}
    /\ frame[t] \in {"mutex_sleep", "mutex_timed_sleep"}
    /\ IF owner[want[t]] = NoThread THEN mutex_locked(t, want[t])
                                    ELSE UNCHANGED <<owner, keeping>>
    /\ LockReturn(t, want[t], "lock")
    /\ UNCHANGED <<waitq, locking, patrol, status, sleeper, flag, trap, saved, signals,
                   pending, exc, to_kill, living, join_list, target, fatal>>

\* The sleep is over, or left by an exception: rb_mutex_lock is its ensure clause.
MutexRelock(t) ==
    /\ pc[t] \in {"back", "unwind"}
    /\ frame[t] \in {"mutex_sleep", "mutex_timed_sleep"}
    /\ IF owner[want[t]] = NoThread
       THEN /\ mutex_locked(t, want[t])
            /\ LockReturn(t, want[t], "lock")
            /\ UNCHANGED <<waitq, locking, patrol, status, sleeper>>
       ELSE /\ LockSleep(t, want[t], "lock")
            /\ UNCHANGED <<owner, keeping, blocks, cvq, waiting>>
    /\ UNCHANGED <<flag, trap, saved, signals, pending, exc, to_kill, living, join_list,
                   target, fatal>>

WakeUpCondvar(t, ts, rest) ==
    /\ Idle(t)
    /\ cvq # <<>>
    /\ Woken(ts)
    /\ cvq' = rest
    /\ UNCHANGED <<running, pc, frame, trap, saved, signals, pending, exc, to_kill, sleeper,
                   living, join_list, target, fatal, owner, waitq, keeping, locking, patrol,
                   want, blocks, waiting>>

rb_condvar_signal(t) == WakeUpCondvar(t, wakeup_one(cvq), AfterWakeupOne(cvq))

rb_condvar_broadcast(t) == WakeUpCondvar(t, wakeup_all(cvq), <<>>)
-----------------------------------------------------------------------------
(* The end of a thread, of the main thread, and fork. *)

\* rb_threadptr_unlock_all_locking_mutexes comes first.
MutexThreadEnd(t, abort) ==
    /\ blocks[t] = <<>>
    /\ LET kept == ToSet(keeping[t])
       IN  /\ rb_mutex_unlock_th(t, kept, <<>>)
           /\ ThreadEnd(t, abort, FirstWaiters(kept), Served(owner', waitq', locking), patrol)
    /\ UNCHANGED <<locking, patrol, want, blocks, cvq, waiting>>

MutexTerminateAll ==
    /\ blocks[Main] = <<>>
    /\ LET kept == ToSet(keeping[Main])
       IN  /\ rb_mutex_unlock_th(Main, kept, <<>>)
           /\ TerminateAll(FirstWaiters(kept))
    /\ UNCHANGED <<locking, patrol, want, blocks, cvq, waiting>>

\* Mutant: the mutexes keep their owner.
Mut_ForkKeepsOwner ==
    /\ rb_thread_atfork
    /\ LET gone == living \ {Main}
           Reset(f, v) == [t \in Thread |-> IF t \in gone THEN v ELSE f[t]]
       IN  /\ keeping' = Reset(keeping, <<>>)
           /\ locking' = Reset(locking, NoMutex)
           /\ want' = Reset(want, NoMutex)
           /\ blocks' = Reset(blocks, <<>>)
           /\ waiting' = waiting \ gone
    /\ UNCHANGED <<owner, waitq, patrol, cvq>>

\* The child of a fork: the mutexes that the other threads kept are free and without
\* waiters; patrol_thread, the queues of all other mutexes and those of condition
\* variables are as they were.
rb_mutex_abandon_all ==
    /\ rb_thread_atfork
    /\ LET gone == living \ {Main}
           abandoned == UNION {ToSet(keeping[t]) : t \in gone}
           Reset(f, v) == [t \in Thread |-> IF t \in gone THEN v ELSE f[t]]
       IN  /\ owner' = [m \in Mutex |-> IF m \in abandoned THEN NoThread ELSE owner[m]]
           /\ waitq' = [m \in Mutex |-> IF m \in abandoned THEN <<>> ELSE waitq[m]]
           /\ keeping' = Reset(keeping, <<>>)
           /\ locking' = Reset(locking, NoMutex)
           /\ want' = Reset(want, NoMutex)
           /\ blocks' = Reset(blocks, <<>>)
           /\ waiting' = waiting \ gone
    /\ UNCHANGED <<patrol, cvq>>
-----------------------------------------------------------------------------
\* The steps of module Threads that do not touch mutexes.
ThreadStep(t) ==
    /\ \/ RaiseInterrupt(t) \/ CheckIntsInCode(t) \/ InterruptedWakeUp(t)
       \/ TimeoutWakeUp(t) \/ SpuriousWakeUp(t) \/ SleepEnd(t) \/ SleepReturn(t)
       \/ JoinAgain(t) \/ JoinReturn(t) \/ UnwindSleep(t)
       \/ NativeSleep(t, Served(owner, waitq, locking), patrol)
       \/ Program(t)
    /\ UNCHANGED lockVars

MutexStep(t) ==
    \/ LockInterrupted(t) \/ LockPatrolTimeout(t) \/ LockSpuriousWakeUp(t)
    \/ LockCheck(t) \/ UnwindLock(t) \/ MutexRelock(t) \/ rb_mutex_synchronize(t)
    \/ rb_condvar_signal(t) \/ rb_condvar_broadcast(t)
    \/ \E m \in Mutex : \/ rb_mutex_lock(t, m) \/ rb_mutex_trylock(t, m)
                        \/ rb_mutex_unlock(t, m)
                        \/ \E cv \in BOOLEAN : rb_mutex_sleep(t, m, cv)
    \/ \E abort \in BOOLEAN : MutexThreadEnd(t, abort)

MutexNext ==
    \/ \E t \in Thread : ThreadStep(t) \/ MutexStep(t)
    \/ (Signalled \/ TerminateLoop) /\ UNCHANGED lockVars
    \/ MutexTerminateAll
    \/ rb_mutex_abandon_all
    \/ pc[Main] = "terminated" /\ UNCHANGED vars

MutexSpec == MutexInit /\ [][MutexNext]_vars
-----------------------------------------------------------------------------
(* Properties. *)

MutexTypeOK ==
    /\ TypeOK
    /\ owner \in [Mutex -> Thread \cup {NoThread}]
    /\ waitq \in [Mutex -> Seq(Thread)]
    /\ keeping \in [Thread -> Seq(Mutex)]
    /\ locking \in [Thread -> Mutex \cup {NoMutex}]
    /\ patrol \in Thread \cup {NoThread}
    /\ want \in [Thread -> Mutex \cup {NoMutex}]
    /\ blocks \in [Thread -> Seq(Mutex)]
    /\ cvq \in Seq(Thread)
    /\ waiting \subseteq Thread

\* mutex->th and th->keeping_mutexes agree: a thread keeps exactly the mutexes it
\* owns, each once (rb_mutex_unlock_th walks the list until it finds the mutex, and
\* a mutex linked twice would make the list cyclic), and no ended thread owns one.
KeepingIsOwned ==
    \A t \in Thread :
        /\ \A m \in Mutex : owner[m] = t <=> m \in ToSet(keeping[t])
        /\ IsInjective(keeping[t])
        /\ status[t] = "KILLED" /\ t # Main => keeping[t] = <<>>

\* "unexpected THREAD_STOPPED", "unexpected THREAD_KILLED" (the two rb_bug of
\* rb_mutex_unlock_th): whoever is on the queue of a mutex is alive.
WaiterIsAlive ==
    \A m \in Mutex : \A t \in ToSet(waitq[m]) : status[t] \in {"RUNNABLE", "STOPPED_FOREVER"}

\* The waiters of a mutex, whose list nodes are on their stacks, are in the
\* native_sleep of rb_mutex_lock for that mutex, each once, and alive.
WaiterIsWaiting ==
    /\ WaiterIsAlive
    /\ \A m \in Mutex :
        /\ IsInjective(waitq[m])
        /\ \A t \in ToSet(waitq[m]) : pc[t] = "lock_sleep" /\ want[t] = m /\ owner[m] # t

\* The living threads in the native_sleep of rb_mutex_lock.
LockSleepers == {t \in living : pc[t] = "lock_sleep"}

\* vm->sleeper counts the sleepers of rb_mutex_lock and of the other deadlockable
\* sleeps, in the parent and in the child of a fork, until the first fatal error,
\* and never exceeds the number of living threads (the rb_bug in rb_check_deadlock).
MutexSleeperCount ==
    /\ ~fatal => sleeper = Cardinality(Sleepers \cup LockSleepers)
    /\ sleeper <= Cardinality(living)

\* "Attempts to grab the lock and waits if it isn't available": while a thread sleeps
\* in rb_mutex_lock, the mutex is taken, or about to be by a thread that was woken.
\* The code violates this (thread_sync.c:293); no run checks it.
LockWaitsIfTaken ==
    \A t \in living :
        pc[t] = "lock_sleep" /\ ~RUBY_VM_INTERRUPTED(t, flag) /\ patrol # t =>
            \/ owner[want[t]] # NoThread
            \/ \E u \in living : /\ pc[u] = "lock_sleep" /\ want[u] = want[t]
                                 /\ RUBY_VM_INTERRUPTED(u, flag)

\* All living threads sleep, and nothing but each other can wake them.
AllAsleep ==
    \A t \in living :
        /\ ~RUBY_VM_INTERRUPTED(t, flag)
        /\ \/ pc[t] = "asleep" /\ frame[t] \in Deadlockable
           \/ pc[t] = "lock_sleep" /\ owner[want[t]] # NoThread

\* A deadlock through mutexes does not go unnoticed: one of the sleepers is the
\* patrol thread, which wakes up and looks.
DeadlockIsPatrolled ==
    AllAsleep /\ ~fatal => patrol \in LockSleepers

\* The step leaves t stuck: t sleeps for ever and is not about to get its mutex, nor
\* joins a thread that has ended; or it is the patrol thread, which has woken up to
\* look and has not got its mutex.
LeavesStuck(t) ==
    \/ pc'[t] = "lock_check" /\ patrol = t /\ owner'[want'[t]] # t
    \/ /\ pc'[t] \in {"asleep", "lock_sleep"}
       /\ t # Main => ~flag'[t]
       /\ pc'[t] = "lock_sleep" => owner'[want'[t]] # NoThread
       /\ pc'[t] = "asleep" /\ frame'[t] = "join" /\ signals' = 0 => status'[target'[t]] # "KILLED"

\* "No live threads left. Deadlock?": fatal is raised only when every living thread is
\* stuck.  The code violates this (thread_sync.c:275-284): a patrol thread that slept
\* on a free mutex takes it and then counts itself as stopped.  No run checks it.
FatalOnlyInDeadlock ==
    [][ ~fatal /\ fatal' => \A t \in living' : LeavesStuck(t) ]_vars

\* The patrol thread does not sleep on a free mutex: the flaw that breaks
\* LockWaitsIfTaken has not hit it.
PatrolWaitsForOwner == patrol # NoThread => owner[want[patrol]] # NoThread

\* fatal is raised only when every living thread is stuck, unless the patrol thread
\* sleeps on a free mutex.
FatalFindsAllAsleep ==
    [][ ~fatal /\ fatal' /\ PatrolWaitsForOwner => \A t \in living' : LeavesStuck(t) ]_vars

\* ConditionVariable#wait "reacquires the lock on wakeup", even when the thread is
\* interrupted: without an exception it returns with the mutex.
CondvarReturnsLocked ==
    [][ \A t \in waiting : pc'[t] = "run" => \E m \in Mutex : m = want[t] /\ owner'[m] = t ]_vars

\* A thread in ConditionVariable#wait that is not on the queue any more has been
\* woken, so that no signal is lost on a thread that sleeps.  (A trap handler that
\* runs inside the wait undoes the wakeup: see JoinersAreWoken of Threads.)
SignalledIsAwake ==
    signals = 0 => \A t \in waiting : Slumbering(t) => t \in ToSet(cvq)
=============================================================================

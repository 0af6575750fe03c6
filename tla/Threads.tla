------------------------------ MODULE Threads ------------------------------
(***************************************************************************)
(* Ruby threads above the GVL (thread.c): creation and end, sleeping and   *)
(* waking up, Thread#join, Thread#raise and Thread#kill, signal traps,     *)
(* deadlock detection and the termination of all threads by the main one.  *)
(*                                                                         *)
(* Ruby code runs under the GVL.  running is the thread in the middle of a *)
(* stretch of C code that does not give the GVL up; it is NoThread at the  *)
(* points where another thread may take over: native_sleep, and every      *)
(* CHECK_INTS, where a timer interrupt makes the thread yield.             *)
(***************************************************************************)
EXTENDS Integers, Sequences, FiniteSets, FiniteSetsExt

CONSTANTS
    Thread,      \* all the threads there will ever be
    NoThread,    \* no thread
    Main,        \* vm->main_thread
    MaxPending,  \* bound: interrupts that Thread#raise may leave in a queue
    MaxSignal,   \* bound: signals that arrive
    Calls        \* the calls the program makes: see Frame, and
                 \* "wakeup", "kill", "abort" (an exception in a thread whose
                 \* abort_on_exception is set), "start" and "fork"

ASSUME ThreadsAssumption ==
    /\ IsFiniteSet(Thread) /\ Main \in Thread /\ NoThread \notin Thread
    /\ MaxPending \in Nat /\ MaxSignal \in Nat

VARIABLES
    running,      \* the thread that keeps the GVL between two steps
    pc,           \* where each thread is
    frame,        \* the blocking call each thread is in
    status,       \* th->status
    flag,         \* th->ec->interrupt_flag & PENDING_INTERRUPT_MASK
    trap,         \* main_thread->ec->interrupt_flag & TRAP_INTERRUPT_MASK
    saved,        \* where the main thread runs a trap handler, and its locals
                  \* prev_status and pending_interrupt
    signals,      \* how many signals have arrived
    pending,      \* th->pending_interrupt_queue
    exc,          \* the exception that unwinds the stack of each thread
    to_kill,      \* th->to_kill
    sleeper,      \* vm->sleeper
    living,       \* vm->living_threads
    join_list,    \* th->join_list
    target,       \* the thread each thread joins
    fatal         \* whether rb_check_deadlock has raised fatal (history)

core == <<running, pc, frame, status, flag, trap, saved, signals, pending, exc,
          to_kill, sleeper, living, join_list, target, fatal>>

Status == {"RUNNABLE", "STOPPED", "STOPPED_FOREVER", "KILLED"}

\* The callers of sleep_forever and sleep_timeval: Thread.stop, Kernel#sleep
\* without and with a time, Thread#join without and with a limit, and the callers
\* in thread_sync.c (the frames of the modules that extend this one).
Frame == {"none", "stop", "sleep", "timed_sleep", "join", "timed_join",
          "mutex_sleep", "mutex_timed_sleep", "pop", "push", "lock", "synchronize"}

\* The parameters deadlockable and spurious_check of the two sleep functions, and
\* whether it is sleep_timeval that is called.
Deadlockable == {"stop", "join", "mutex_sleep", "pop", "push"}
SpuriousCheck == {"stop", "sleep", "timed_sleep"}
Timed == {"timed_sleep", "timed_join", "mutex_timed_sleep"}

\* The places of a thread.  "check" and "woken" are the CHECK_INTS before and in
\* the loop of a sleep function, "asleep" its native_sleep, "back" its normal
\* return, "unwind" an exception on its way to the caller, "term" the native_sleep
\* of rb_thread_terminate_all; "lock_sleep" and "lock_check" are the native_sleep
\* and the CHECK_INTS of rb_mutex_lock (module Mutexes).
Place == {"new", "run", "check", "asleep", "woken", "back", "unwind",
          "trap", "term", "terminated", "dead", "lock_sleep", "lock_check"}

Init ==
    /\ running = NoThread
    /\ pc = [t \in Thread |-> IF t = Main THEN "run" ELSE "new"]
    /\ frame = [t \in Thread |-> "none"]
    /\ status = [t \in Thread |-> "RUNNABLE"]
    /\ flag = [t \in Thread |-> FALSE]
    /\ trap = FALSE
    /\ saved = [pc |-> "run", status |-> "RUNNABLE", pending |-> FALSE]
    /\ signals = 0
    /\ pending = [t \in Thread |-> <<>>]
    /\ exc = [t \in Thread |-> "none"]
    /\ to_kill = [t \in Thread |-> FALSE]
    /\ sleeper = 0
    /\ living = {Main}
    /\ join_list = [t \in Thread |-> {}]
    /\ target = [t \in Thread |-> NoThread]
    /\ fatal = FALSE

\* t has the GVL, or may take it.
CanRun(t) == running \in {t, NoThread}
-----------------------------------------------------------------------------
(* Interrupts. *)

RUBY_VM_INTERRUPTED(t, fl) == fl[t] \/ (t = Main /\ trap)

\* rb_threadptr_interrupt on every thread of ts.
rb_threadptr_interrupt(fl, ts) == [t \in Thread |-> fl[t] \/ t \in ts]

\* rb_threadptr_pending_interrupt_enque.  What is queued behind a kill is never
\* seen, because rb_threadptr_to_kill clears the queue, and is left out.
Enque(pq, ts, err) ==
    [t \in Thread |->
        IF t \notin ts \/ \E i \in DOMAIN pq[t] : pq[t][i] = "kill" THEN pq[t]
        ELSE Append(pq[t], err)]

\* The places whose CHECK_INTS is vm_check_ints_blocking.
BlockingCheck == {"check", "woken", "lock_check"}

\* Whether CHECK_INTS has an interrupt to take off the queue.  That of running code
\* (rb_vm_check_ints) looks at the queue only when the flag is set; the blocking one
\* sets the flag itself when the queue is not empty.
Due(t) == pending[t] # <<>> /\ (flag[t] \/ pc[t] \in BlockingCheck)

\* The conditions under which CHECK_INTS runs the trap handler, raises the next
\* pending interrupt, and returns.  A trap handler masks further traps; no mask of
\* Thread.handle_interrupt is set.
MustTrap(t) == t = Main /\ trap /\ pc[t] # "trap"
MustRaise(t) == ~MustTrap(t) /\ Due(t)
MayPass(t) == ~MustTrap(t) /\ ~Due(t)

\* rb_threadptr_execute_interrupts clears the flag and takes one interrupt: a kill
\* (rb_threadptr_to_kill) clears the queue, what waits behind a raise stays in it.
Deliver(t) ==
    /\ CanRun(t)
    /\ MustRaise(t)
    /\ LET kill == Head(pending[t]) = "kill"
       IN  /\ exc' = [exc EXCEPT ![t] = IF kill THEN "kill" ELSE "raise"]
           /\ pending' = [pending EXCEPT ![t] = IF kill THEN <<>> ELSE Tail(@)]
           /\ to_kill' = [to_kill EXCEPT ![t] = @ \/ kill]
           /\ status' = [status EXCEPT ![t] =
                IF kill \/ @ \in {"STOPPED", "STOPPED_FOREVER"} THEN "RUNNABLE" ELSE @]
    /\ flag' = [flag EXCEPT ![t] = FALSE]
    /\ pc' = [pc EXCEPT ![t] = "unwind"]
    /\ running' = t
    /\ UNCHANGED <<frame, trap, saved, signals, sleeper, living, join_list, target, fatal>>

\* A CHECK_INTS in a sleep function, in rb_mutex_lock or in running code raises.
RaiseInterrupt(t) ==
    pc[t] \in BlockingCheck \cup {"run", "trap"} /\ Deliver(t)

\* A CHECK_INTS of running code (or of a trap handler) with nothing to raise.
CheckIntsInCode(t) ==
    /\ CanRun(t)
    /\ pc[t] \in {"run", "trap"}
    /\ MayPass(t)
    /\ flag[t]
    /\ flag' = [flag EXCEPT ![t] = FALSE]
    /\ UNCHANGED <<running, pc, frame, status, trap, saved, signals, pending, exc,
                   to_kill, sleeper, living, join_list, target, fatal>>

\* A signal arrives: the timer thread finds the signal buffer not empty and sets
\* the trap interrupt of the main thread.
threadptr_trap_interrupt ==
    /\ signals < MaxSignal
    /\ pc[Main] \notin {"term", "terminated"}
    /\ signals' = signals + 1
    /\ trap' = TRUE
    /\ UNCHANGED <<running, pc, frame, status, flag, saved, pending, exc, to_kill,
                   sleeper, living, join_list, target, fatal>>

\* CHECK_INTS of the main thread runs the trap handler, with the status set to
\* RUNNABLE; all interrupt bits are taken at once (threadptr_get_interrupts), and
\* what is due is raised after the handler.
TrapEnter ==
    /\ CanRun(Main)
    /\ trap
    /\ pc[Main] \in BlockingCheck \cup {"run"}
    /\ saved' = [pc |-> pc[Main], status |-> status[Main], pending |-> Due(Main)]
    /\ status' = [status EXCEPT ![Main] = "RUNNABLE"]
    /\ trap' = FALSE
    /\ flag' = [flag EXCEPT ![Main] = FALSE]
    /\ pc' = [pc EXCEPT ![Main] = "trap"]
    /\ running' = NoThread
    /\ UNCHANGED <<frame, signals, pending, exc, to_kill, sleeper, living, join_list,
                   target, fatal>>

\* The handler is done and CHECK_INTS goes on: th->status = prev_status, and a
\* pending_interrupt read before the handler is acted on.
TrapReturn ==
    /\ CanRun(Main)
    /\ pc[Main] = "trap"
    /\ status' = [status EXCEPT ![Main] = saved.status]
    /\ flag' = [flag EXCEPT ![Main] = @ \/ saved.pending]
    /\ pc' = [pc EXCEPT ![Main] = saved.pc]
    /\ running' = NoThread
    /\ UNCHANGED <<frame, trap, saved, signals, pending, exc, to_kill, sleeper,
                   living, join_list, target, fatal>>
-----------------------------------------------------------------------------
(* Pieces of the calls of thread_sync.c (modules Mutexes and Queues). *)

\* The threads that wakeup_one and wakeup_all of thread_sync.c wake on the queue q,
\* and what wakeup_one leaves of q: it takes the ended threads before the one it
\* wakes off as well.
LivingWaiters(q) == {i \in DOMAIN q : status[q[i]] # "KILLED"}
wakeup_one(q) == IF LivingWaiters(q) = {} THEN {} ELSE {q[Min(LivingWaiters(q))]}
wakeup_all(q) == {q[i] : i \in LivingWaiters(q)}
AfterWakeupOne(q) ==
    IF LivingWaiters(q) = {} THEN <<>> ELSE SubSeq(q, Min(LivingWaiters(q)) + 1, Len(q))

\* Mutant: the status is set but nobody is interrupted.
Mut_WokenWithoutInterrupt(ts) ==
    /\ status' = [u \in Thread |-> IF u \in ts THEN "RUNNABLE" ELSE status[u]]
    /\ UNCHANGED flag

\* rb_threadptr_interrupt and th->status = THREAD_RUNNABLE for each of ts.
Woken(ts) ==
    /\ flag' = rb_threadptr_interrupt(flag, ts)
    /\ status' = [u \in Thread |-> IF u \in ts THEN "RUNNABLE" ELSE status[u]]

\* The caller raises an exception: ThreadError, ClosedQueueError, or the one that
\* ended the thread it joins.
RaiseError(t) ==
    /\ exc' = [exc EXCEPT ![t] = "raise"]
    /\ pc' = [pc EXCEPT ![t] = "unwind"]
    /\ running' = t
-----------------------------------------------------------------------------
(* Deadlock detection. *)

\* Mutant: off by one in the comparison with vm->sleeper.
Mut_OneMoreSleeper(t, st, fl, sl, alive, served, patrol) ==
    /\ Cardinality(alive) < sl
    /\ patrol \in {t, NoThread}
    /\ \A u \in alive : /\ st[u] = "STOPPED_FOREVER"
                        /\ ~RUBY_VM_INTERRUPTED(u, fl)
                        /\ u \notin served

\* Mutant: a thread that was interrupted but has not run since counts as stopped.
Mut_InterruptedIsStopped(t, st, fl, sl, alive, served, patrol) ==
    /\ Cardinality(alive) <= sl
    /\ patrol \in {t, NoThread}
    /\ \A u \in alive : st[u] = "STOPPED_FOREVER" /\ u \notin served

\* The condition of rb_check_deadlock, called by thread t when st, fl and sl are
\* the values of status, flag and sleeper, alive the living threads, and served
\* the threads that wait for a mutex that is theirs or free to be taken.
NoLiveThreadLeft(t, st, fl, sl, alive, served, patrol) ==
    /\ Cardinality(alive) <= sl
    /\ patrol \in {t, NoThread}
    /\ \A u \in alive : /\ st[u] = "STOPPED_FOREVER"
                        /\ ~RUBY_VM_INTERRUPTED(u, fl)
                        /\ u \notin served

\* rb_check_deadlock: fatal is raised in the main thread.  It is the last thing
\* its callers do to these variables, but for a final decrement of sleeper.
rb_check_deadlock(t, st, fl, sl, alive, served, patrol, decrement) ==
    IF NoLiveThreadLeft(t, st, fl, sl, alive, served, patrol)
    THEN /\ pending' = Enque(pending, {Main}, "fatal")
         /\ flag' = rb_threadptr_interrupt(fl, {Main})
         /\ sleeper' = sl - 1 - decrement
         /\ fatal' = TRUE
    ELSE /\ flag' = fl
         /\ sleeper' = sl - decrement
         /\ UNCHANGED <<pending, fatal>>
-----------------------------------------------------------------------------
(* Sleeping: sleep_forever and sleep_timeval. *)

SleepStatus(f) == IF f \in Deadlockable THEN "STOPPED_FOREVER" ELSE "STOPPED"

\* The call, up to its first CHECK_INTS.
SleepBegin(t, f) ==
    /\ frame' = [frame EXCEPT ![t] = f]
    /\ status' = [status EXCEPT ![t] = SleepStatus(f)]
    /\ pc' = [pc EXCEPT ![t] = "check"]
    /\ running' = NoThread

\* Mutant: th->status is not tested after CHECK_INTS.
Mut_SleepWithoutTest(t, served, patrol) ==
    /\ CanRun(t)
    /\ pc[t] \in {"check", "woken"} /\ (pc[t] = "woken" => frame[t] \in SpuriousCheck)
    /\ MayPass(t)
    /\ flag' = [flag EXCEPT ![t] = FALSE]
    /\ sleeper' = sleeper + (IF frame[t] \in Deadlockable THEN 1 ELSE 0)
    /\ pc' = [pc EXCEPT ![t] = "asleep"]
    /\ running' = NoThread
    /\ UNCHANGED <<frame, status, trap, saved, signals, pending, exc, to_kill, living,
                   join_list, target, fatal>>

\* The loop is entered or gone round: native_sleep gives the GVL up.
NativeSleep(t, served, patrol) ==
    /\ CanRun(t)
    /\ \/ pc[t] = "check"
       \/ pc[t] = "woken" /\ frame[t] \in SpuriousCheck
    /\ MayPass(t)
    /\ status[t] = SleepStatus(frame[t])
    /\ LET fl == [flag EXCEPT ![t] = FALSE]
       IN  IF frame[t] \in Deadlockable
           THEN rb_check_deadlock(t, status, fl, sleeper + 1, living, served, patrol, 0)
           ELSE flag' = fl /\ UNCHANGED <<pending, sleeper, fatal>>
    /\ pc' = [pc EXCEPT ![t] = "asleep"]
    /\ running' = NoThread
    /\ UNCHANGED <<frame, status, trap, saved, signals, exc, to_kill, living, join_list, target>>

\* native_sleep returns: the thread was interrupted, its time is over, or the
\* condition variable woke spuriously.
WakeUp(t, cause) ==
    /\ CanRun(t)
    /\ pc[t] = "asleep"
    /\ cause
    /\ sleeper' = sleeper - (IF frame[t] \in Deadlockable THEN 1 ELSE 0)
    /\ pc' = [pc EXCEPT ![t] = "woken"]
    /\ running' = NoThread
    /\ UNCHANGED <<frame, status, flag, trap, saved, signals, pending, exc, to_kill,
                   living, join_list, target, fatal>>

InterruptedWakeUp(t) == WakeUp(t, RUBY_VM_INTERRUPTED(t, flag))
TimeoutWakeUp(t) == WakeUp(t, frame[t] \in Timed)
SpuriousWakeUp(t) == WakeUp(t, ~RUBY_VM_INTERRUPTED(t, flag) /\ frame[t] \notin Timed)

\* The loop is left: the status was changed by another thread, the caller allows
\* spurious wakeups, or the time is over; th->status = prev_status.
SleepEnd(t) ==
    /\ CanRun(t)
    /\ pc[t] \in {"check", "woken"}
    /\ MayPass(t)
    /\ \/ status[t] # SleepStatus(frame[t])
       \/ pc[t] = "woken" /\ frame[t] \notin SpuriousCheck \ Timed
    /\ flag' = [flag EXCEPT ![t] = FALSE]
    /\ status' = [status EXCEPT ![t] = "RUNNABLE"]
    /\ pc' = [pc EXCEPT ![t] = "back"]
    /\ running' = t
    /\ UNCHANGED <<frame, trap, saved, signals, pending, exc, to_kill, sleeper, living,
                   join_list, target, fatal>>
-----------------------------------------------------------------------------
(* What a thread that runs Ruby code may call. *)

Idle(t) == CanRun(t) /\ pc[t] = "run"

\* A call that raises an exception and does nothing else.
CallRaises(t) ==
    /\ Idle(t)
    /\ RaiseError(t)
    /\ UNCHANGED <<frame, status, flag, trap, saved, signals, pending, to_kill, sleeper, living,
                   join_list, target, fatal>>

\* Thread.stop ("stopping only thread" is an error), Kernel#sleep.
rb_thread_stop(t) ==
    /\ "stop" \in Calls
    /\ IF living = {t}
       THEN CallRaises(t)
       ELSE /\ Idle(t)
            /\ SleepBegin(t, "stop")
            /\ UNCHANGED <<flag, trap, saved, signals, pending, exc, to_kill, sleeper, living,
                           join_list, target, fatal>>

rb_f_sleep(t) ==
    /\ Idle(t)
    /\ \E f \in Calls \cap {"sleep", "timed_sleep"} : SleepBegin(t, f)
    /\ UNCHANGED <<flag, trap, saved, signals, pending, exc, to_kill, sleeper, living,
                   join_list, target, fatal>>

\* The sleep is over: back to the code that called it.
SleepReturn(t) ==
    /\ pc[t] = "back"
    /\ frame[t] \in {"stop", "sleep", "timed_sleep"}
    /\ frame' = [frame EXCEPT ![t] = "none"]
    /\ pc' = [pc EXCEPT ![t] = "run"]
    /\ running' = NoThread
    /\ UNCHANGED <<status, flag, trap, saved, signals, pending, exc, to_kill, sleeper,
                   living, join_list, target, fatal>>

\* Thread#wakeup, Thread#run.
rb_thread_wakeup(t, u) ==
    /\ Idle(t)
    /\ "wakeup" \in Calls
    /\ u \in living
    /\ status[u] # "KILLED"
    /\ flag' = rb_threadptr_interrupt(flag, {u})
    /\ status' = [status EXCEPT ![u] =
            IF @ \in {"STOPPED", "STOPPED_FOREVER"} THEN "RUNNABLE" ELSE @]
    /\ UNCHANGED <<running, pc, frame, trap, saved, signals, pending, exc, to_kill,
                   sleeper, living, join_list, target, fatal>>

\* Thread#raise on another thread.
rb_threadptr_raise(t, u) ==
    /\ Idle(t)
    /\ u \in living \ {t}
    /\ status[u] # "KILLED"
    /\ Len(pending[u]) < MaxPending
    /\ pending' = Enque(pending, {u}, "raise")
    /\ flag' = rb_threadptr_interrupt(flag, {u})
    /\ UNCHANGED <<running, pc, frame, status, trap, saved, signals, exc, to_kill,
                   sleeper, living, join_list, target, fatal>>

\* Mutant: the thread to kill is not interrupted.
Mut_KillWithoutInterrupt(t, u) ==
    /\ Idle(t)
    /\ "kill" \in Calls
    /\ u \in living \ {t, Main}
    /\ ~to_kill[u] /\ status[u] # "KILLED"
    /\ pending' = Enque(pending, {u}, "kill")
    /\ UNCHANGED <<running, pc, exc, to_kill, flag, frame, status, trap, saved, signals,
                   sleeper, living, join_list, target, fatal>>

\* Thread#kill: of another thread, or of the caller itself, which unwinds at once.
rb_thread_kill(t, u) ==
    /\ Idle(t)
    /\ "kill" \in Calls
    /\ u \in living \ {Main}
    /\ ~to_kill[u] /\ status[u] # "KILLED"
    /\ IF u # t
       THEN /\ pending' = Enque(pending, {u}, "kill")
            /\ flag' = rb_threadptr_interrupt(flag, {u})
            /\ UNCHANGED <<running, pc, exc, to_kill>>
       ELSE /\ pending' = [pending EXCEPT ![t] = <<>>]
            /\ to_kill' = [to_kill EXCEPT ![t] = TRUE]
            /\ exc' = [exc EXCEPT ![t] = "kill"]
            /\ pc' = [pc EXCEPT ![t] = "unwind"]
            /\ running' = t
            /\ UNCHANGED flag
    /\ UNCHANGED <<frame, status, trap, saved, signals, sleeper, living, join_list,
                   target, fatal>>

-----------------------------------------------------------------------------
(* Thread#join. *)

\* Mutant: the status of the thread to join is not tested first.
Mut_JoinEnded(t, u) ==
    /\ Idle(t)
    /\ u \notin {t, Main}
    /\ pc[u] # "new"
    /\ \E f \in Calls \cap {"join", "timed_join"} : SleepBegin(t, f)
    /\ join_list' = [join_list EXCEPT ![u] = @ \cup {t}]
    /\ target' = [target EXCEPT ![t] = u]
    /\ UNCHANGED <<flag, trap, saved, signals, pending, exc, to_kill, sleeper, living, fatal>>

\* thread_join of a living thread: the list node is on the stack of the caller.
thread_join(t, u) ==
    /\ Idle(t)
    /\ u \notin {t, Main}
    /\ pc[u] # "new"
    /\ status[u] # "KILLED"
    /\ \E f \in Calls \cap {"join", "timed_join"} : SleepBegin(t, f)
    /\ join_list' = [join_list EXCEPT ![u] = @ \cup {t}]
    /\ target' = [target EXCEPT ![t] = u]
    /\ UNCHANGED <<flag, trap, saved, signals, pending, exc, to_kill, sleeper, living, fatal>>

\* thread_join of a thread that an exception has ended raises that exception.
thread_join_ended(t, u) ==
    /\ Calls \cap {"join", "timed_join"} # {}
    /\ u \notin {t, Main}
    /\ status[u] = "KILLED"
    /\ CallRaises(t)

\* remove_from_join_list, the ensure clause of thread_join.
remove_from_join_list(t) ==
    /\ join_list' = IF status[target[t]] = "KILLED" THEN join_list
                    ELSE [join_list EXCEPT ![target[t]] = @ \ {t}]
    /\ target' = [target EXCEPT ![t] = NoThread]
    /\ frame' = [frame EXCEPT ![t] = "none"]

\* thread_join_sleep after a sleep: sleep again unless the target has ended or the
\* limit has passed.
JoinAgain(t) ==
    /\ pc[t] = "back"
    /\ frame[t] \in {"join", "timed_join"}
    /\ status[target[t]] # "KILLED"
    /\ SleepBegin(t, frame[t])
    /\ UNCHANGED <<flag, trap, saved, signals, pending, exc, to_kill, sleeper, living,
                   join_list, target, fatal>>

\* The join is over: it returns, or raises the exception that ended the target.
JoinReturn(t) ==
    /\ pc[t] = "back"
    /\ \/ frame[t] = "join" /\ status[target[t]] = "KILLED"
       \/ frame[t] = "timed_join"
    /\ remove_from_join_list(t)
    /\ \/ pc' = [pc EXCEPT ![t] = "run"] /\ running' = NoThread /\ UNCHANGED exc
       \/ status[target[t]] = "KILLED" /\ RaiseError(t)
    /\ UNCHANGED <<status, flag, trap, saved, signals, pending, to_kill, sleeper, living, fatal>>

\* An exception leaves the blocking call.
UnwindSleep(t) ==
    /\ pc[t] = "unwind"
    /\ frame[t] \in {"stop", "sleep", "timed_sleep", "join", "timed_join"}
    /\ IF frame[t] \in {"join", "timed_join"}
       THEN remove_from_join_list(t)
       ELSE frame' = [frame EXCEPT ![t] = "none"] /\ UNCHANGED <<join_list, target>>
    /\ UNCHANGED <<running, pc, status, flag, trap, saved, signals, pending, exc,
                   to_kill, sleeper, living, fatal>>

\* The program rescues an exception (a kill cannot be rescued).
Rescue(t) ==
    /\ pc[t] = "unwind"
    /\ frame[t] = "none"
    /\ exc[t] = "raise"
    /\ exc' = [exc EXCEPT ![t] = "none"]
    /\ pc' = [pc EXCEPT ![t] = "run"]
    /\ running' = NoThread
    /\ UNCHANGED <<frame, status, flag, trap, saved, signals, pending, to_kill, sleeper,
                   living, join_list, target, fatal>>
-----------------------------------------------------------------------------
(* Beginning and end. *)

\* Thread.new and Thread.start; only the former asks whether the main thread has
\* begun to terminate the others.
thread_create_core(t, u) ==
    /\ Idle(t)
    /\ pc[u] = "new"
    /\ "start" \in Calls \/ status[Main] # "KILLED"
    /\ pc' = [pc EXCEPT ![u] = "run"]
    /\ living' = living \cup {u}
    /\ UNCHANGED <<running, frame, status, flag, trap, saved, signals, pending, exc,
                   to_kill, sleeper, join_list, target, fatal>>

\* The end of thread_start_func_2, after its block returned or was left by an
\* exception (abort: abort_on_exception hands it to the main thread); unlocked are
\* the threads that rb_threadptr_unlock_all_locking_mutexes interrupts, served as
\* in NoLiveThreadLeft.
ThreadEnd(t, abort, unlocked, served, patrol) ==
    /\ t # Main
    /\ CanRun(t)
    /\ frame[t] = "none"
    /\ abort => "abort" \in Calls /\ status[Main] # "KILLED"
    /\ \/ pc[t] = "run"
       \/ pc[t] = "unwind" /\ (abort => exc[t] = "raise")
    /\ LET alive == living \ {t}
           joiners == join_list[t]
           last == IF status[Main] = "KILLED" /\ Cardinality(alive) = 1 THEN {Main} ELSE {}
           raised == IF abort THEN {Main} ELSE {}
           st == [u \in Thread |->
                    IF u = t THEN "KILLED"
                    ELSE IF u \in joiners /\ status[u] \in {"STOPPED", "STOPPED_FOREVER"}
                         THEN "RUNNABLE" ELSE status[u]]
           fl == rb_threadptr_interrupt(flag, joiners \cup last \cup raised \cup unlocked)
       IN  /\ living' = alive
           /\ status' = st
           /\ IF abort
              THEN /\ pending' = Enque(pending, {Main}, "raise")
                   /\ flag' = fl
                   /\ UNCHANGED <<sleeper, fatal>>
              ELSE rb_check_deadlock(t, st, fl, sleeper, alive, served, patrol, 0)
    /\ pc' = [pc EXCEPT ![t] = "dead"]
    /\ exc' = [exc EXCEPT ![t] = "none"]
    /\ running' = NoThread
    /\ UNCHANGED <<frame, trap, saved, signals, to_kill, join_list, target>>

\* The queues without the next interrupt of t, if there is one.
TakeOne(t) == [pending EXCEPT ![t] = IF @ = <<>> THEN @ ELSE Tail(@)]

\* Mutant: the threads are told but not interrupted.
Mut_TerminateQuietly(unlocked) ==
    /\ CanRun(Main)
    /\ frame[Main] = "none"
    /\ pc[Main] \in {"run", "unwind"} /\ ~trap
    /\ status' = [status EXCEPT ![Main] = "KILLED"]
    /\ exc' = [exc EXCEPT ![Main] = "none"]
    /\ pending' = Enque(TakeOne(Main), living \ {Main}, "kill")
    /\ pc' = [pc EXCEPT ![Main] = "term"]
    /\ running' = NoThread
    /\ UNCHANGED <<frame, flag, trap, saved, signals, to_kill, sleeper, living,
                   join_list, target, fatal>>

\* ruby_cleanup and the first part of rb_thread_terminate_all: the main thread,
\* its code done, interrupts itself, so that its CHECK_INTS takes an interrupt off
\* its queue and drops it, then kills all others and sleeps until they are gone.
TerminateAll(unlocked) ==
    /\ CanRun(Main)
    /\ frame[Main] = "none"
    /\ pc[Main] \in {"run", "unwind"} /\ ~trap
    /\ status' = [status EXCEPT ![Main] = "KILLED"]
    /\ exc' = [exc EXCEPT ![Main] = "none"]
    /\ pending' = Enque(TakeOne(Main), living \ {Main}, "kill")
    /\ flag' = rb_threadptr_interrupt([flag EXCEPT ![Main] = FALSE], (living \ {Main}) \cup unlocked)
    /\ pc' = [pc EXCEPT ![Main] = "term"]
    /\ running' = NoThread
    /\ UNCHANGED <<frame, trap, saved, signals, to_kill, sleeper, living, join_list,
                   target, fatal>>

\* native_sleep with a timeout of a second has returned.  An exception that reached
\* the main thread makes it kill all others again.
TerminateLoop ==
    /\ CanRun(Main)
    /\ pc[Main] = "term"
    /\ IF pending[Main] # <<>>
       THEN /\ pending' = Enque([pending EXCEPT ![Main] = Tail(@)], living \ {Main}, "kill")
            /\ flag' = [rb_threadptr_interrupt(flag, living \ {Main}) EXCEPT ![Main] = FALSE]
            /\ UNCHANGED pc
       ELSE /\ flag' = [flag EXCEPT ![Main] = FALSE]
            /\ pc' = [pc EXCEPT ![Main] = IF living = {Main} THEN "terminated" ELSE @]
            /\ UNCHANGED pending
    /\ UNCHANGED <<running, frame, status, trap, saved, signals, exc, to_kill, sleeper,
                   living, join_list, target, fatal>>

\* Mutant: vm->sleeper is not reset.
Mut_ForkKeepsSleeper ==
    /\ CanRun(Main)
    /\ pc[Main] = "run"
    /\ "fork" \in Calls
    /\ living # {Main}
    /\ LET Reset(f, v) == [t \in Thread |-> IF t \in living \ {Main} THEN v ELSE f[t]]
       IN  /\ pc' = Reset(pc, "dead")
           /\ frame' = Reset(frame, "none")
           /\ status' = Reset(status, "KILLED")
           /\ exc' = Reset(exc, "none")
    /\ living' = {Main}
    /\ join_list' = [join_list EXCEPT ![Main] = {}]
    /\ UNCHANGED <<running, flag, trap, saved, signals, pending, to_kill, sleeper, target, fatal>>

\* The child of a fork by the main thread: the other threads are gone.
rb_thread_atfork ==
    /\ CanRun(Main)
    /\ pc[Main] = "run"
    /\ "fork" \in Calls
    /\ living # {Main}
    /\ LET Reset(f, v) == [t \in Thread |-> IF t \in living \ {Main} THEN v ELSE f[t]]
       IN  /\ pc' = Reset(pc, "dead")
           /\ frame' = Reset(frame, "none")
           /\ status' = Reset(status, "KILLED")
           /\ exc' = Reset(exc, "none")
    /\ living' = {Main}
    /\ sleeper' = 0
    /\ join_list' = [join_list EXCEPT ![Main] = {}]
    /\ UNCHANGED <<running, flag, trap, saved, signals, pending, to_kill, target, fatal>>
-----------------------------------------------------------------------------
\* What a thread does on its own once it is inside the interpreter.
Proceed(t) ==
    \/ RaiseInterrupt(t) \/ CheckIntsInCode(t)
    \/ NativeSleep(t, {}, NoThread) \/ InterruptedWakeUp(t) \/ TimeoutWakeUp(t) \/ SleepEnd(t)
    \/ SleepReturn(t) \/ JoinAgain(t) \/ JoinReturn(t) \/ UnwindSleep(t)

\* What the program chooses to do.
Program(t) ==
    \/ rb_thread_stop(t) \/ rb_f_sleep(t) \/ Rescue(t)
    \/ \E u \in Thread : \/ rb_thread_wakeup(t, u) \/ rb_threadptr_raise(t, u)
                         \/ rb_thread_kill(t, u) \/ thread_join(t, u)
                         \/ thread_join_ended(t, u)
                         \/ thread_create_core(t, u)

\* The end of a thread, and of the main thread.
End(t) == \E abort \in BOOLEAN : ThreadEnd(t, abort, {}, {}, NoThread)

Signalled == threadptr_trap_interrupt \/ TrapEnter \/ TrapReturn

Next ==
    \/ \E t \in Thread : Proceed(t) \/ Program(t) \/ End(t) \/ SpuriousWakeUp(t)
    \/ Signalled \/ TerminateAll({}) \/ TerminateLoop \/ rb_thread_atfork
    \/ pc[Main] = "terminated" /\ UNCHANGED core

Spec == Init /\ [][Next]_core

\* The GVL comes round to every thread that keeps asking for it (TimerThread), so
\* a thread inside the interpreter goes on, running code reaches its CHECK_INTS,
\* and an exception is rescued or ends the thread.  Nothing is assumed of what the
\* program calls, nor of signals and spurious wakeups.
Fairness ==
    /\ \A t \in Thread : /\ SF_core(Proceed(t))
                         /\ SF_core(pc[t] = "unwind" /\ (Rescue(t) \/ End(t)))
    /\ SF_core(pc[Main] = "unwind" /\ TerminateAll({}))
    /\ SF_core(TrapEnter) /\ SF_core(TrapReturn)
    /\ SF_core(TerminateLoop)

FairSpec == Spec /\ Fairness
-----------------------------------------------------------------------------
(* Properties. *)

TypeOK ==
    /\ running \in Thread \cup {NoThread}
    /\ pc \in [Thread -> Place]
    /\ frame \in [Thread -> Frame]
    /\ status \in [Thread -> Status]
    /\ flag \in [Thread -> BOOLEAN]
    /\ trap \in BOOLEAN
    /\ saved \in [pc : Place, status : Status, pending : BOOLEAN]
    /\ signals \in 0..MaxSignal
    /\ pending \in [Thread -> Seq({"raise", "kill", "fatal"})]
    /\ exc \in [Thread -> {"none", "raise", "kill"}]
    /\ to_kill \in [Thread -> BOOLEAN]
    /\ sleeper \in -1..Cardinality(Thread)
    /\ living \subseteq Thread
    /\ join_list \in [Thread -> SUBSET Thread]
    /\ target \in [Thread -> Thread \cup {NoThread}]
    /\ fatal \in BOOLEAN

\* The threads that sleep until another thread wakes them, and the living threads
\* that sleep in a way rb_check_deadlock counts.
Slumbering(t) == pc[t] = "asleep" /\ ~RUBY_VM_INTERRUPTED(t, flag)
Sleepers == {t \in living : pc[t] = "asleep" /\ frame[t] \in Deadlockable}

\* A thread that Thread#wakeup made RUNNABLE does not sleep on: the wakeup cannot
\* fall between the test of th->status in the sleep functions and native_sleep.
WakeupReachesSleeper ==
    \A t \in Thread : Slumbering(t) => status[t] = SleepStatus(frame[t])

\* "Does not return until +thr+ exits": no thread sleeps in Thread#join for a thread
\* that has ended.
JoinWaitsForLiving ==
    \A t \in Thread : Slumbering(t) /\ frame[t] = "join" => status[target[t]] # "KILLED"

\* The same without signals, as a trap handler that runs inside the join undoes the
\* wakeup that the ending thread gave the joiner; and the node that thread_join puts
\* on the join_list of a living thread is on the stack of a thread that is still in
\* that thread_join, so that the ending thread wakes those who wait, however others
\* have left the join before.
JoinersAreWoken ==
    /\ signals = 0 => JoinWaitsForLiving
    /\ \A u \in living : \A t \in join_list[u] :
          target[t] = u /\ frame[t] \in {"join", "timed_join"} /\ t \in living

\* rb_check_deadlock reports each deadlock: never do all living threads sleep for ever.
DeadlockIsReported ==
    ~fatal => \E t \in living : ~(Slumbering(t) /\ frame[t] \in Deadlockable)

\* Thread#join returns once its thread has ended, whatever else interrupted it.
JoinCompletes ==
    \A t, u \in Thread :
        frame[t] = "join" /\ target[t] = u /\ pc[u] = "dead" ~> frame[t] # "join"

\* t runs Ruby code with an interrupt in its queue and its flag clear: it was queued
\* behind the exception t has taken last, and t sees it only when it blocks or is
\* interrupted again.
Unread(t) == pc[t] = "run" /\ pending[t] # <<>> /\ ~flag[t]

\* "Terminates +thr+": a thread that has been sent a kill ends.
KilledThreadEnds ==
    \A t \in Thread : (\E i \in DOMAIN pending[t] : pending[t][i] = "kill") ~> pc[t] = "dead"

\* A killed thread ends, wherever it sleeps and whatever is queued before the kill, if
\* it does not compute for ever with the kill unread.
KillCompletes ==
    \A t \in Thread :
        []<>~Unread(t) =>
            ((\E i \in DOMAIN pending[t] : pending[t][i] = "kill") ~> pc[t] = "dead")

\* Once the main thread is done, the process ends, if no other thread computes for
\* ever with the kill of rb_thread_terminate_all unread.
TerminationCompletes ==
    (\A t \in Thread : []<>~Unread(t)) => (pc[Main] = "term" ~> pc[Main] = "terminated")
=============================================================================

---------------------------- MODULE TimerThread ----------------------------
(***************************************************************************)
(* The timer thread of the pthread build (thread_pthread.c, thread_timer)  *)
(* and all that talks to it: the GVL whose time slices it ends, the signal *)
(* handler, the threads it gets out of blocking system calls (the ubf      *)
(* list), and the stop and restart around every fork and exec.             *)
(*                                                                         *)
(* The timer thread takes neither the GVL nor gvl.lock.  It reads          *)
(* gvl.waiting, the ubf list and the signal buffer without a lock and then *)
(* polls two pipes; who changes one of the three afterwards must write to  *)
(* a pipe.  A pipe is non-blocking and drained at once, so all that counts *)
(* is whether it holds a byte.                                             *)
(***************************************************************************)
EXTENDS Gvl

CONSTANTS
    Handler,        \* the signal handler, which may run in any native thread
    Quanta,         \* limits_us / TIME_QUANTUM_USEC, from the thread's priority
    MaxSignals,     \* bound on the signals in the buffer
    Restarts        \* do threads fork or exec?

ASSUME TimerAssumption ==
    /\ Handler \notin Thread \cup {NoThread}
    /\ Quanta \in Nat \ {0} /\ MaxSignals \in Nat /\ Restarts \in BOOLEAN

VARIABLES
    timer,          \* where the timer thread is in its loop
    normal, low,    \* is there a byte in the pipe?
    open,           \* are the write ends of the pipes open?
    owner_process,  \* does timer_thread_pipe.owner_process name this process?
    system_working, \* system_working > 0
    restart,        \* where the running thread is in before_exec .. after_exec
    write,          \* where each writer is in rb_thread_wakeup_timer_thread
    signal_buff,    \* signal_buff.size
    flags,          \* ec->interrupt_flag of each thread
    running_time,   \* running_time_us of vm->running_thread, in quanta, capped
                    \* where one more reaches the limit
    region,         \* where each thread is in its blocking region
    ubf_list,       \* the threads on ubf_list_head
    ignored         \* history: a wakeup was ignored since the timer thread last
                    \* began its loop

schedVars == <<signal_buff, flags, running_time, region, ubf_list>>
stopVars == <<open, owner_process, system_working, restart>>
vars == <<gvlVars, timer, normal, low, write, ignored, schedVars, stopVars>>

Writer == Thread \cup {Handler}
Idle == [stage |-> "idle", pipe |-> "none", victim |-> NoThread]

\* The writers that timer_thread_pipe.writing counts.
Writing == {a \in Writer : write[a].stage = "write"}

\* gvl.lock is free: gvl_acquire_common writes to the low pipe while it has it.
LockFree == \A t \in Thread : write[t].pipe # "low"

\* A thread that runs Ruby code, not one of the C functions below.
Running(t) ==
    pc[t] = "hold" /\ region[t] = "none" /\ restart = "none" /\ write[t] = Idle

\* th->unblock.func is set: an interrupt of t calls ubf_select.
Unblockable(t) == region[t] # "none"

TimerInit ==
    /\ Init
    /\ main_thread = CHOOSE t \in Thread : TRUE
    /\ timer = "top"
    /\ normal = FALSE /\ low = FALSE
    /\ open = TRUE /\ owner_process = TRUE /\ system_working = TRUE
    /\ restart = "none"
    /\ write = [a \in Writer |-> Idle]
    /\ signal_buff = 0
    /\ flags = [t \in Thread |-> {}]
    /\ running_time = 0
    /\ region = [t \in Thread |-> "none"]
    /\ ubf_list = {}
    /\ ignored = FALSE

-----------------------------------------------------------------------------
(* Waking the timer thread. *)

\* rb_thread_wakeup_timer_thread(_low) is called by a; ubf_select then goes on
\* to send SIGVTALRM to the victim.
WriteTo(a, pipe, victim) ==
    write' = [write EXCEPT ![a] = [stage |-> "test", pipe |-> pipe, victim |-> victim]]

\* pthread_kill of threads ts: it ends a system call that has begun.  A thread
\* that has not got that far yet takes the signal and goes on.
ubf_wakeup_thread(ts) ==
    region' = [t \in Thread |-> IF t \in ts /\ region[t] = "syscall" THEN "after" ELSE region[t]]

Advance(a, stage) ==
    /\ write' = [write EXCEPT ![a].stage = stage]
    /\ UNCHANGED <<gvlVars, timer, normal, low, ignored, schedVars, stopVars>>

\* The end of rb_thread_wakeup_timer_thread, and of ubf_select.
Return(a) ==
    /\ write' = [write EXCEPT ![a] = Idle]
    /\ ubf_wakeup_thread({write[a].victim})
    /\ UNCHANGED <<gvlVars, timer, signal_buff, flags, running_time, ubf_list, stopVars>>

\* "ignore wakeup"
Ignore(a) ==
    /\ Return(a)
    /\ ignored' = TRUE
    /\ UNCHANGED <<normal, low>>

\* The first test of owner_process, before timer_thread_pipe.writing is raised.
OwnerTest(a) ==
    /\ write[a].stage = "test"
    /\ IF owner_process THEN Advance(a, "inc") ELSE Ignore(a)

\* writing is raised, then the descriptor is read and owner_process tested again.
\* What native_stop_timer_thread does between these three does not matter: it waits
\* as soon as writing is raised.
Commit(a) ==
    /\ write[a].stage = "inc"
    /\ IF open /\ owner_process THEN Advance(a, "write") ELSE Ignore(a)

\* write(2) and the decrement of writing.  If the timer thread has closed the read
\* ends it fails with EPIPE and async_bug_fd aborts the process: no step then.
WriteByte(a) ==
    /\ write[a].stage = "write"
    /\ timer # "done"
    /\ Return(a)
    /\ normal' = (normal \/ write[a].pipe = "normal")
    /\ low' = (low \/ write[a].pipe = "low")
    /\ UNCHANGED ignored

rb_thread_wakeup_timer_thread(a) ==
    OwnerTest(a) \/ Commit(a) \/ WriteByte(a)

\* A signal arrives: it is counted, then the timer thread is woken.
sighandler ==
    /\ write[Handler] = Idle
    /\ signal_buff < MaxSignals
    /\ signal_buff' = signal_buff + 1
    /\ WriteTo(Handler, "normal", NoThread)
    /\ UNCHANGED <<gvlVars, timer, normal, low, ignored,
                   flags, running_time, region, ubf_list, stopVars>>

-----------------------------------------------------------------------------
(* The loop of the timer thread. *)

\* Mutant: the signal is sent once only, by ubf_select.
Mut_NoResend ==
    /\ timer = "top"
    /\ system_working
    /\ timer' = "tick"
    /\ ignored' = FALSE
    /\ UNCHANGED <<gvlVars, normal, low, write, schedVars, stopVars>>

\* while (system_working > 0) ubf_wakeup_all_threads(); ...
ubf_wakeup_all_threads ==
    /\ timer = "top"
    /\ system_working
    /\ timer' = "tick"
    /\ ignored' = FALSE
    /\ ubf_wakeup_thread(ubf_list)
    /\ UNCHANGED <<gvlVars, normal, low, write,
                   signal_buff, flags, running_time, ubf_list, stopVars>>

\* The timer thread closes the read ends of the pipes and ends.
CloseReadEnds ==
    /\ timer = "top"
    /\ ~system_working
    /\ timer' = "done"
    /\ UNCHANGED <<gvlVars, normal, low, write, ignored, schedVars, stopVars>>

\* rb_threadptr_interrupt_common of the main thread, if there are signals.  The timer
\* thread's own ubf_select writes to no pipe.
rb_threadptr_check_signal ==
    IF signal_buff > 0 /\ Unblockable(main_thread)
    THEN ubf_list' = ubf_list \cup {main_thread} /\ ubf_wakeup_thread({main_thread})
    ELSE UNCHANGED <<ubf_list, region>>

\* Mutant: the time slice is not ended.
Mut_NoTick ==
    /\ timer = "tick"
    /\ timer' = "ubf_test"
    /\ flags' = [flags EXCEPT ![main_thread] = IF signal_buff > 0 THEN @ \cup {"TRAP"} ELSE @]
    /\ rb_threadptr_check_signal
    /\ UNCHANGED <<gvlVars, normal, low, write, ignored,
                   signal_buff, running_time, stopVars>>

\* The time slice of the running thread ends; signals are passed to the main thread.
timer_thread_function ==
    /\ timer = "tick"
    /\ timer' = "ubf_test"
    /\ flags' = [t \in Thread |->
                    flags[t] \cup (IF t = running_thread THEN {"TIMER"} ELSE {})
                             \cup (IF t = main_thread /\ signal_buff > 0 THEN {"TRAP"} ELSE {})]
    /\ rb_threadptr_check_signal
    /\ UNCHANGED <<gvlVars, normal, low, write, ignored,
                   signal_buff, running_time, stopVars>>

\* timer_thread_sleep: need_polling, then gvl->waiting, each read without a lock.
NeedPolling ==
    /\ timer = "ubf_test"
    /\ timer' = IF ubf_list # {} THEN "poll_quantum" ELSE "waiting_test"
    /\ UNCHANGED <<gvlVars, normal, low, write, ignored, schedVars, stopVars>>

WaitingTest ==
    /\ timer = "waiting_test"
    /\ timer' = IF waiting > 0 THEN "poll_quantum" ELSE "poll_forever"
    /\ UNCHANGED <<gvlVars, normal, low, write, ignored, schedVars, stopVars>>

\* poll returns after the quantum, or fails with EINTR, which is ignored.
PollTimeout ==
    /\ timer = "poll_quantum"
    /\ timer' = "top"
    /\ UNCHANGED <<gvlVars, normal, low, write, ignored, schedVars, stopVars>>

PollInterrupted ==
    /\ timer = "poll_forever"
    /\ timer' = "top"
    /\ UNCHANGED <<gvlVars, normal, low, write, ignored, schedVars, stopVars>>

\* poll returns with a byte to read or at the end of a pipe; the short poll does not
\* look at the low pipe.  Both pipes are drained, with what is written meanwhile.
consume_communication_pipe ==
    /\ \/ timer = "poll_quantum" /\ (normal \/ ~open)
       \/ timer = "poll_forever" /\ (normal \/ low \/ ~open)
    /\ timer' = "top"
    /\ normal' = FALSE /\ low' = FALSE
    /\ UNCHANGED <<gvlVars, write, ignored, schedVars, stopVars>>

thread_timer ==
    \/ ubf_wakeup_all_threads \/ CloseReadEnds \/ timer_thread_function
    \/ NeedPolling \/ WaitingTest
    \/ PollTimeout \/ consume_communication_pipe

-----------------------------------------------------------------------------
(* Stopping and starting the timer thread: before_exec and after_exec, which *)
(* rb_fork_ruby and the failed execs call with the GVL held.                 *)

\* --system_working
StopWorking(t) ==
    /\ Running(t)
    /\ Restarts
    /\ system_working' = FALSE
    /\ restart' = "disown"
    /\ UNCHANGED <<gvlVars, timer, normal, low, write, ignored, schedVars,
                   open, owner_process>>

\* "prevent wakeups from signal handler ASAP"
Disown ==
    /\ restart = "disown"
    /\ owner_process' = FALSE
    /\ restart' = "close"
    /\ UNCHANGED <<gvlVars, timer, normal, low, write, ignored, schedVars,
                   open, system_working>>

\* Mutant: the writers are not waited for.
Mut_NoDrain ==
    /\ restart = "close"
    /\ open' = FALSE
    /\ restart' = "join"
    /\ UNCHANGED <<gvlVars, timer, normal, low, write, ignored, schedVars,
                   owner_process, system_working>>

\* "the FD may already be captured and in the middle of a write while we are running,
\* so wait for that to finish"; then "stop writing ends of pipes so timer thread
\* notices EOF".  No write can begin in between: the pipes are disowned.
CloseWriteEnds ==
    /\ restart = "close"
    /\ Writing = {}
    /\ open' = FALSE
    /\ restart' = "join"
    /\ UNCHANGED <<gvlVars, timer, normal, low, write, ignored, schedVars,
                   owner_process, system_working>>

JoinTimer ==
    /\ restart = "join"
    /\ timer = "done"
    /\ restart' = "start"
    /\ UNCHANGED <<gvlVars, timer, normal, low, write, ignored, schedVars,
                   open, owner_process, system_working>>

\* rb_thread_create_timer_thread: new pipes, a new timer thread ...
rb_thread_create_timer_thread ==
    /\ restart = "start"
    /\ system_working' = TRUE
    /\ open' = TRUE /\ normal' = FALSE /\ low' = FALSE
    /\ timer' = "top"
    /\ restart' = "validate"
    /\ UNCHANGED <<gvlVars, write, ignored, schedVars, owner_process>>

\* ... and, when it runs already, "validate pipe on this process".
ValidatePipe ==
    /\ restart = "validate"
    /\ owner_process' = TRUE
    /\ restart' = "none"
    /\ UNCHANGED <<gvlVars, timer, normal, low, write, ignored, schedVars,
                   open, system_working>>

Restart ==
    \/ Disown \/ CloseWriteEnds \/ JoinTimer
    \/ rb_thread_create_timer_thread \/ ValidatePipe

-----------------------------------------------------------------------------
(* The Ruby threads. *)

\* Mutant: the timer thread is not woken.
Mut_NoLowWakeup(t, A) == LockFree /\ A /\ UNCHANGED write

\* A step of t in a gvl_xxx function, under gvl.lock.  The first thread to wait
\* writes to the low pipe before it lets go of gvl.lock.
GvlStep(t, A) ==
    /\ LockFree
    /\ A
    /\ IF waiting = 0 /\ waiting' = 1 THEN WriteTo(t, "low", NoThread) ELSE UNCHANGED write

gvl_xxx(t) ==
    /\ \/ GvlStep(t, CondRecheck(t) \/ CondTake(t))
       \/ GvlStep(t, SwitchRecheck(t) \/ SwitchDone(t) \/ SchedYieldDone(t))
       \/ GvlStep(t, SwitchWaitRecheck(t) \/ SwitchWaitDone(t))
       \/ GvlStep(t, ThreadExit(t))
    /\ UNCHANGED <<timer, normal, low, ignored, schedVars, stopVars>>

\* A thread that waited and one that was just created come for the GVL.
Acquire(t) ==
    /\ region[t] \in {"none", "after"}
    /\ GvlStep(t, gvl_acquire(t))
    /\ UNCHANGED <<timer, normal, low, ignored, schedVars, stopVars>>

\* rb_thread_set_current restarts the thread's time unless it was the last to run.
SetCurrent(t) ==
    /\ rb_thread_set_current(t)
    /\ running_time' = IF running_thread = t THEN running_time ELSE 0
    /\ UNCHANGED <<timer, normal, low, write, ignored,
                   signal_buff, flags, region, ubf_list, stopVars>>

\* Thread.new, and the end of a thread, which takes its rb_thread_t with it.
Create(t) ==
    /\ \E u \in Thread : Running(u)
    /\ thread_create_core(t)
    /\ UNCHANGED <<timer, normal, low, write, ignored, schedVars, stopVars>>

End(t) ==
    /\ Running(t)
    /\ ThreadEnd(t)
    /\ flags' = [flags EXCEPT ![t] = {}]
    /\ UNCHANGED <<timer, normal, low, write, ignored,
                   signal_buff, running_time, region, ubf_list, stopVars>>

\* rb_threadptr_interrupt of t by the running thread u.
rb_threadptr_interrupt(u, t) ==
    /\ Running(u)
    /\ t # u /\ pc[t] \notin {"dead", "exit"}
    /\ flags' = [flags EXCEPT ![t] = @ \cup {"PENDING"}]
    /\ IF Unblockable(t)
       THEN ubf_list' = ubf_list \cup {t} /\ WriteTo(u, "normal", t)
       ELSE UNCHANGED <<ubf_list, write>>
    /\ UNCHANGED <<gvlVars, timer, normal, low, ignored,
                   signal_buff, running_time, region, stopVars>>

rb_thread_alone(t) == \A u \in Thread \ {t} : pc[u] \in {"dead", "exit"}

\* rb_thread_schedule_limits, at the end of a time slice.
rb_thread_schedule_limits(t) ==
    IF running_time + 1 >= Quanta /\ ~rb_thread_alone(t)
    THEN LockFree /\ gvl_yield(t) /\ UNCHANGED running_time
    ELSE /\ running_time' = IF running_time + 1 >= Quanta THEN running_time ELSE running_time + 1
         /\ UNCHANGED gvlVars

\* rb_threadptr_execute_interrupts: all flags are taken at once; the main thread
\* runs the traps of all signals in the buffer.
CheckInts(t) ==
    /\ Running(t)
    /\ flags[t] # {}
    /\ flags' = [flags EXCEPT ![t] = {}]
    /\ signal_buff' = IF "TRAP" \in flags[t] /\ t = main_thread THEN 0 ELSE signal_buff
    /\ IF "TIMER" \in flags[t] THEN rb_thread_schedule_limits(t)
                               ELSE UNCHANGED <<gvlVars, running_time>>
    /\ UNCHANGED <<timer, normal, low, write, ignored, region, ubf_list, stopVars>>

\* Mutant: unblock_function_set does not look at the interrupts under the lock.
Mut_BlockInterrupted(t) ==
    /\ Running(t)
    /\ LockFree
    /\ gvl_release(t)
    /\ region' = [region EXCEPT ![t] = "before"]
    /\ UNCHANGED <<timer, normal, low, write, ignored,
                   signal_buff, flags, running_time, ubf_list, stopVars>>

\* unblock_function_set insists that no interrupt is left, then the GVL is released.
blocking_region_begin(t) ==
    /\ Running(t)
    /\ flags[t] = {}
    /\ LockFree
    /\ gvl_release(t)
    /\ region' = [region EXCEPT ![t] = "before"]
    /\ UNCHANGED <<timer, normal, low, write, ignored,
                   signal_buff, flags, running_time, ubf_list, stopVars>>

Goto(t, from, to) ==
    /\ region[t] = from
    /\ region' = [region EXCEPT ![t] = to]
    /\ UNCHANGED <<gvlVars, timer, normal, low, write, ignored,
                   signal_buff, flags, running_time, stopVars>>

EnterSyscall(t) == Goto(t, "before", "syscall") /\ UNCHANGED ubf_list
SyscallDone(t) == Goto(t, "syscall", "after") /\ UNCHANGED ubf_list

\* blocking_region_end, when the thread has the GVL again.
unregister_ubf_list(t) ==
    /\ pc[t] = "hold"
    /\ Goto(t, "after", "unregistered")
    /\ ubf_list' = ubf_list \ {t}

unblock_function_clear(t) == Goto(t, "unregistered", "none") /\ UNCHANGED ubf_list

blocking_region_end(t) == unregister_ubf_list(t) \/ unblock_function_clear(t)

-----------------------------------------------------------------------------
TimerNext ==
    \/ thread_timer \/ PollInterrupted \/ sighandler \/ Restart
    \/ \E a \in Writer : rb_thread_wakeup_timer_thread(a)
    \/ \E t \in Thread :
        \/ gvl_xxx(t) \/ Acquire(t) \/ SetCurrent(t) \/ Create(t) \/ End(t)
        \/ CheckInts(t) \/ StopWorking(t)
        \/ blocking_region_begin(t) \/ EnterSyscall(t) \/ SyscallDone(t)
        \/ blocking_region_end(t)
        \/ \E u \in Thread : rb_threadptr_interrupt(u, t)

TimerSpec == TimerInit /\ [][TimerNext]_vars

\* The native threads run: the timer thread, and every Ruby thread in one of the
\* C functions above, goes on; gvl.lock is granted to whoever keeps asking for it;
\* and a thread that runs Ruby code comes to RUBY_VM_CHECK_INTS again and again.
\* Nothing is assumed of system calls, signals and Thread.new.
TimerFairness ==
    /\ WF_vars(thread_timer)
    /\ WF_vars(Restart)
    /\ \A a \in Writer : WF_vars(rb_thread_wakeup_timer_thread(a))
    /\ \A t \in Thread :
        /\ WF_vars((SetCurrent(t) \/ EnterSyscall(t) \/ blocking_region_end(t)))
        /\ SF_vars(gvl_xxx(t))
        /\ SF_vars(CheckInts(t))

TimerFairSpec == TimerSpec /\ TimerFairness

-----------------------------------------------------------------------------
(* Properties. *)

TimerTypeOK ==
    /\ TypeOK
    /\ timer \in {"top", "tick", "ubf_test", "waiting_test",
                  "poll_quantum", "poll_forever", "done"}
    /\ normal \in BOOLEAN /\ low \in BOOLEAN /\ ignored \in BOOLEAN
    /\ open \in BOOLEAN /\ owner_process \in BOOLEAN /\ system_working \in BOOLEAN
    /\ restart \in {"none", "disown", "close", "join", "start", "validate"}
    /\ write \in [Writer -> [stage : {"idle", "test", "inc", "write"},
                             pipe : {"none", "normal", "low"},
                             victim : Thread \cup {NoThread}]]
    /\ signal_buff \in 0..MaxSignals
    /\ flags \in [Thread -> SUBSET {"TIMER", "PENDING", "TRAP"}]
    /\ running_time \in 0..(Quanta - 1)
    /\ region \in [Thread -> {"none", "before", "syscall", "after", "unregistered"}]
    /\ ubf_list \subseteq Thread

\* A wakeup on its way: a byte in the pipe or a writer that has not ignored it yet.
Coming(pipe) ==
    \/ pipe = "normal" /\ normal
    \/ pipe = "low" /\ low
    \/ \E a \in Writer : write[a].pipe = pipe

\* "The timer thread sleeps until woken up by rb_thread_wakeup_timer_thread() if only
\* one Ruby thread is running" (timer_thread_sleep): except while it is being stopped
\* or started, it does not sleep for ever while a thread waits for the GVL.  The code
\* violates this after a restart (thread_pthread.c:1672); no run checks it.
SleepsOnlyWhenAlone ==
    restart = "none" /\ timer = "poll_forever" /\ waiting > 0 => Coming("low") \/ Coming("normal")

\* The same for all it is there for, wherever its three unlocked reads fall: unless
\* a wakeup was ignored because no timer thread owned the pipes, it does not sleep
\* for ever while a thread waits for the GVL, a thread is to be got out of its system
\* call, or a signal was not passed on to the main thread.
WakeupIsSeen ==
    timer = "poll_forever" /\ ~ignored =>
        /\ waiting > 0 => Coming("low") \/ Coming("normal")
        /\ ubf_list # {} => Coming("normal")
        /\ signal_buff > 0 => Coming("normal") \/ "TRAP" \in flags[main_thread]

\* native_stop_timer_thread never closes a pipe under a writer that has read its
\* descriptor and found the process to be the owner.
NoWriteWhileClosing == restart = "join" => \A a \in Writer : write[a].stage # "write"

\* The ubf list.  "The thread 'th' is unblocked. It no longer need to be registered":
\* only the main thread, which the timer thread itself interrupts, can be left on it,
\* and a thread that ends is not, although its list node is freed with it.  And an
\* interrupt is not lost on a thread that goes into a system call: either it was seen
\* by unblock_function_set or it has put the thread on the list.
UbfListIsExact ==
    /\ \A t \in ubf_list : t # main_thread => Unblockable(t)
    /\ \A t \in Thread :
          region[t] \in {"before", "syscall"} /\ flags[t] \cap {"PENDING", "TRAP"} # {}
              => t \in ubf_list

\* A thread that computes does not keep the GVL from the others.
TimeSlice ==
    \A t \in Thread : (pc[t] = "hold" /\ waiting > 0) ~> (pc[t] # "hold")

\* "we repeatedly call ubf_wakeup_thread() until a target thread exit from ubf
\* function" (ubf_select): an interrupted thread gets out of its system call,
\* although the first SIGVTALRM may come before it is in there.
UnblockCompletes ==
    \A t \in Thread :
        (region[t] = "syscall" /\ "PENDING" \in flags[t]) ~> (region[t] # "syscall")
=============================================================================

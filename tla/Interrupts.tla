----------------------------- MODULE Interrupts -----------------------------
(***************************************************************************)
(* Asynchronous exceptions (thread.c): the queue of pending interrupts of  *)
(* a thread, the masks of Thread.handle_interrupt that hold them back, the *)
(* places where a thread looks at them, and how closing a file gets the    *)
(* threads out that are blocked on it.                                     *)
(*                                                                         *)
(* Everything here is done by the thread that has the GVL.  A thread that  *)
(* blocks gives it up; one whose interrupt flag is set comes back from     *)
(* where it blocks (the unblocking functions are modelled in TimerThread). *)
(***************************************************************************)
EXTENDS Sequences, SequencesExt, Integers, FiniteSets

CONSTANTS
    Thread, Main, NoThread,
    Error,       \* the exceptions Thread#raise sends
    Kill,        \* eKillSignal
    Closed,      \* ruby_error_stream_closed
    NoError,
    Fd,          \* files that are open for reading in the beginning
    Classes,     \* what a key of the hash given to handle_interrupt stands for
    MaxPending,  \* bound on the interrupts sent to a thread that are still pending
    MaxFrames    \* bound on the handle_interrupt blocks a thread is in

Pending == Error \cup {Kill, Closed}
Timing == {"immediate", "on_blocking", "never"}

ASSUME InterruptsAssumption ==
    /\ Main \in Thread /\ NoThread \notin Thread
    /\ NoError \notin Pending /\ Kill \notin Error /\ Closed \notin Error
    /\ \A c \in Classes : c \subseteq Pending
    /\ Fd # {} /\ MaxPending \in Nat /\ MaxFrames \in Nat

VARIABLES
    gvl,          \* the thread that has the GVL
    place,        \* where each thread is
    at,           \* the file it is at
    interrupted,  \* the threads whose PENDING_INTERRUPT_MASK bit is set
    queue,        \* th->pending_interrupt_queue
    checked,      \* the threads whose pending_interrupt_queue_checked is set
    masks,        \* th->pending_interrupt_mask_stack
    inherited,    \* how many of its masks a thread got from its creator
    unwinding,    \* the exception that is on its way up the thread's stack
    to_kill,      \* the threads whose th->to_kill is set
    waiting_fds,  \* vm->waiting_fds: th is the thread whose stack the entry is on,
                  \*   told says that its wfd->th is cleared
    open          \* the files that are not closed

vars == <<gvl, place, at, interrupted, queue, checked, masks, inherited, unwinding, to_kill,
          waiting_fds, open>>
asyncVars == <<interrupted, queue, checked, unwinding, to_kill>>

\* "run": runs Ruby code; "io_enter": in rb_thread_io_blocking_region, before it
\* gives the GVL up; "io": blocked in read(); "io_failed": read() has failed because
\* the file is closed; "close": waits for the users of a file.
Place == {"dead", "run", "sleep", "io_enter", "io", "io_failed", "close"}

Init ==
    /\ gvl = Main
    /\ place = [t \in Thread |-> IF t = Main THEN "run" ELSE "dead"]
    /\ at = [t \in Thread |-> CHOOSE fd \in Fd : TRUE]
    /\ interrupted = {} /\ checked = {} /\ to_kill = {}
    /\ queue = [t \in Thread |-> <<>>]
    /\ masks = [t \in Thread |-> <<>>]
    /\ inherited = [t \in Thread |-> 0]
    /\ unwinding = [t \in Thread |-> NoError]
    /\ waiting_fds = {}
    /\ open = Fd

Runs(t) == gvl = t /\ place[t] = "run"
Free(t) == Runs(t) /\ unwinding[t] = NoError
-----------------------------------------------------------------------------
(* The queue and the masks. *)

\* rb_threadptr_pending_interrupt_check_mask: the innermost mask with a class of err.
MaskTiming(ms, err) ==
    LET js == {j \in DOMAIN ms : err \in ms[j].covers}
    IN  IF js = {} THEN "immediate"
        ELSE ms[CHOOSE j \in js : \A k \in js : k <= j].timing

Allowed(ms, err, timing) ==
    \/ MaskTiming(ms, err) = "immediate"
    \/ MaskTiming(ms, err) = "on_blocking" /\ timing = "on_blocking"

Found(q, ms, timing) == {i \in DOMAIN q : Allowed(ms, q[i], timing)}

\* threadptr_pending_interrupt_active_p, and the flag that brings a thread to it: the
\* queue, or a mask, has changed since it was last looked at.  fresh says that the
\* caller has just set the one and cleared the other.
Active(t, q, fresh) == q # <<>> /\ (fresh \/ (t \in interrupted /\ t \notin checked))

Raises(t, q, ms, timing, fresh) == Active(t, q, fresh) /\ Found(q, ms, timing) # {}

\* rb_threadptr_execute_interrupts with q in the queue of the thread: the flag is
\* cleared, and the first interrupt that the masks ms allow is taken
\* (rb_threadptr_pending_interrupt_deque).
rb_threadptr_execute_interrupts(t, q, ms, timing, fresh) ==
    LET found == Found(q, ms, timing)
        first == CHOOSE i \in found : \A j \in found : i <= j
    IN  /\ interrupted' = interrupted \ {t}
        /\ IF Raises(t, q, ms, timing, fresh)
           THEN /\ unwinding' = [unwinding EXCEPT ![t] = q[first]]
                /\ queue' = [queue EXCEPT ![t] = IF q[first] = Kill THEN <<>> ELSE RemoveAt(q, first)]
                /\ to_kill' = IF q[first] = Kill THEN to_kill \cup {t} ELSE to_kill
                /\ checked' = IF fresh THEN checked \ {t} ELSE checked
           ELSE /\ checked' = IF Active(t, q, fresh) THEN checked \cup {t} ELSE checked
                /\ queue' = [queue EXCEPT ![t] = q]
                /\ UNCHANGED <<unwinding, to_kill>>

\* RUBY_VM_CHECK_INTS, which does nothing when the flag is not set.
CheckInts(t) == rb_threadptr_execute_interrupts(t, queue[t], masks[t], "immediate", FALSE)
CheckRaises(t) == Raises(t, queue[t], masks[t], "immediate", FALSE)

\* vm_check_ints_blocking.
vm_check_ints_blocking(t) ==
    rb_threadptr_execute_interrupts(t, queue[t], masks[t], "on_blocking", TRUE)
BlockingRaises(t) == Raises(t, queue[t], masks[t], "on_blocking", TRUE)

\* RUBY_VM_CHECK_INTS in the Ruby code a thread runs, the ensure clauses that an
\* exception passes on its way included: a new exception takes its place.
RUBY_VM_CHECK_INTS(t) ==
    /\ Runs(t)
    /\ t \in interrupted
    /\ CheckInts(t)
    /\ UNCHANGED <<gvl, place, at, masks, inherited, waiting_fds, open>>

Mut_EnterHandleInterrupt(t, covers, timing) ==
    /\ Free(t)
    /\ Len(masks[t]) < inherited[t] + MaxFrames
    /\ masks' = [masks EXCEPT ![t] = Append(@, [covers |-> covers, timing |-> timing])]
    /\ interrupted' = IF queue[t] = <<>> THEN interrupted ELSE interrupted \cup {t}
    /\ UNCHANGED <<gvl, place, at, queue, checked, inherited, unwinding, to_kill, waiting_fds, open>>

\* rb_thread_s_handle_interrupt, up to its block.
EnterHandleInterrupt(t, covers, timing) ==
    /\ Free(t)
    /\ Len(masks[t]) < inherited[t] + MaxFrames
    /\ masks' = [masks EXCEPT ![t] = Append(@, [covers |-> covers, timing |-> timing])]
    /\ IF queue[t] = <<>> THEN UNCHANGED <<checked, interrupted>>
       ELSE checked' = checked \ {t} /\ interrupted' = interrupted \cup {t}
    /\ UNCHANGED <<gvl, place, at, queue, inherited, unwinding, to_kill, waiting_fds, open>>

\* rb_thread_s_handle_interrupt after its block, which ended or was left by an
\* exception: a pending interrupt takes the place of that.
LeaveHandleInterrupt(t) ==
    /\ Runs(t)
    /\ Len(masks[t]) > inherited[t]
    /\ masks' = [masks EXCEPT ![t] = Front(@)]
    /\ rb_threadptr_execute_interrupts(t, queue[t], Front(masks[t]), "immediate", TRUE)
    /\ UNCHANGED <<gvl, place, at, inherited, waiting_fds, open>>

\* The program rescues an exception; it cannot rescue Thread#kill.
Rescue(t) ==
    /\ Runs(t)
    /\ unwinding[t] \notin {NoError, Kill}
    /\ unwinding' = [unwinding EXCEPT ![t] = NoError]
    /\ UNCHANGED <<gvl, place, at, interrupted, queue, checked, masks, inherited, to_kill,
                   waiting_fds, open>>
-----------------------------------------------------------------------------
(* Threads. *)

\* thread_create_core: the new thread has the masks of its creator.
thread_create_core(t, u) ==
    /\ Free(t)
    /\ place[u] = "dead"
    /\ place' = [place EXCEPT ![u] = "run"]
    /\ queue' = [queue EXCEPT ![u] = <<>>]
    /\ checked' = checked \ {u}
    /\ interrupted' = interrupted \ {u}
    /\ to_kill' = to_kill \ {u}
    /\ masks' = [masks EXCEPT ![u] = masks[t]]
    /\ inherited' = [inherited EXCEPT ![u] = Len(masks[t])]
    /\ UNCHANGED <<gvl, at, unwinding, waiting_fds, open>>

\* rb_threadptr_pending_interrupt_enque and rb_threadptr_interrupt.
Enque(us, err) ==
    /\ queue' = [u \in Thread |-> IF u \in us THEN Append(queue[u], err) ELSE queue[u]]
    /\ checked' = checked \ us
    /\ interrupted' = interrupted \cup us

Raisable(u) == place[u] # "dead" /\ Len(queue[u]) < MaxPending

\* thread_start_func_2 after the block of the thread: an exception that left it is raised
\* in the main thread if abort_on_exception is set.
ThreadEnd(t) ==
    /\ Runs(t)
    /\ t # Main
    /\ Len(masks[t]) = inherited[t]
    /\ place' = [place EXCEPT ![t] = "dead"]
    /\ unwinding' = [unwinding EXCEPT ![t] = NoError]
    /\ masks' = [masks EXCEPT ![t] = <<>>]
    /\ inherited' = [inherited EXCEPT ![t] = 0]
    /\ to_kill' = to_kill \ {t}
    /\ \/ /\ queue' = [queue EXCEPT ![t] = <<>>]
          /\ interrupted' = interrupted \ {t}
          /\ checked' = checked \ {t}
       \/ /\ unwinding[t] \notin {NoError, Kill} /\ Raisable(Main)
          /\ queue' = [queue EXCEPT ![t] = <<>>, ![Main] = Append(@, unwinding[t])]
          /\ interrupted' = (interrupted \cup {Main}) \ {t}
          /\ checked' = checked \ {t, Main}
    /\ gvl' = NoThread
    /\ UNCHANGED <<at, waiting_fds, open>>

\* Thread#raise; a thread that raises in itself looks at its interrupts at once.
rb_threadptr_raise(t, u, err) ==
    /\ Free(t)
    /\ Raisable(u)
    /\ IF u = t THEN rb_threadptr_execute_interrupts(t, Append(queue[t], err), masks[t],
                                                    "immediate", TRUE)
       ELSE Enque({u}, err) /\ UNCHANGED <<unwinding, to_kill>>
    /\ UNCHANGED <<gvl, place, at, masks, inherited, waiting_fds, open>>

\* Thread#kill; a thread that kills itself drops what it has pending.
rb_thread_kill(t, u) ==
    /\ Free(t)
    /\ Raisable(u) /\ u # Main /\ u \notin to_kill
    /\ IF u = t
       THEN /\ queue' = [queue EXCEPT ![t] = <<>>]
            /\ to_kill' = to_kill \cup {t}
            /\ unwinding' = [unwinding EXCEPT ![t] = Kill]
            /\ UNCHANGED <<checked, interrupted>>
       ELSE Enque({u}, Kill) /\ UNCHANGED <<unwinding, to_kill>>
    /\ UNCHANGED <<gvl, place, at, masks, inherited, waiting_fds, open>>

\* gvl_yield in rb_thread_schedule_limits, when the time slice is used up, and
\* the return from there.
Yield(t) ==
    /\ gvl = t
    /\ place[t] \in {"run", "io_enter"}
    /\ gvl' = NoThread
    /\ UNCHANGED <<place, at, asyncVars, masks, inherited, waiting_fds, open>>

Resume(t) ==
    /\ gvl = NoThread
    /\ place[t] \in {"run", "io_enter", "close"}
    /\ gvl' = t
    /\ UNCHANGED <<place, at, asyncVars, masks, inherited, waiting_fds, open>>
-----------------------------------------------------------------------------
(* Blocking. *)

Mut_sleep_forever(t) ==
    /\ Free(t)
    /\ CheckInts(t)
    /\ IF CheckRaises(t) THEN UNCHANGED <<gvl, place>>
       ELSE gvl' = NoThread /\ place' = [place EXCEPT ![t] = "sleep"]
    /\ UNCHANGED <<at, masks, inherited, waiting_fds, open>>

\* sleep_forever up to native_sleep.
sleep_forever(t) ==
    /\ Free(t)
    /\ vm_check_ints_blocking(t)
    /\ IF BlockingRaises(t) THEN UNCHANGED <<gvl, place>>
       ELSE gvl' = NoThread /\ place' = [place EXCEPT ![t] = "sleep"]
    /\ UNCHANGED <<at, masks, inherited, waiting_fds, open>>

\* native_sleep is over, because the thread was interrupted or woken: it goes on, or
\* sleeps again if its status did not change.
SleepReturn(t) ==
    /\ gvl = NoThread
    /\ place[t] = "sleep"
    /\ vm_check_ints_blocking(t)
    /\ \/ gvl' = t /\ place' = [place EXCEPT ![t] = "run"]
       \/ ~BlockingRaises(t) /\ UNCHANGED <<gvl, place>>
    /\ UNCHANGED <<at, masks, inherited, waiting_fds, open>>

\* rb_thread_io_blocking_region, up to BLOCKING_REGION.
rb_thread_io_blocking_region(t, fd) ==
    /\ Free(t) /\ fd \in open
    /\ waiting_fds' = waiting_fds \cup {[fd |-> fd, th |-> t, told |-> FALSE]}
    /\ place' = [place EXCEPT ![t] = "io_enter"]
    /\ at' = [at EXCEPT ![t] = fd]
    /\ UNCHANGED <<gvl, asyncVars, masks, inherited, open>>

\* "must be deleted before jump".
Unregister(t) == {w \in waiting_fds : w.th # t}

Mut_blocking_region_begin(t) ==
    /\ gvl = t
    /\ place[t] = "io_enter"
    /\ CheckInts(t)
    /\ IF CheckRaises(t) THEN place' = [place EXCEPT ![t] = "run"] /\ UNCHANGED gvl
       ELSE /\ place' = [place EXCEPT ![t] = IF at[t] \in open THEN "io" ELSE "io_failed"]
            /\ gvl' = NoThread
    /\ UNCHANGED <<at, waiting_fds, masks, inherited, open>>

\* blocking_region_begin: unblock_function_set looks at the interrupts once more.
blocking_region_begin(t) ==
    /\ gvl = t
    /\ place[t] = "io_enter"
    /\ CheckInts(t)
    /\ IF CheckRaises(t)
       THEN place' = [place EXCEPT ![t] = "run"] /\ waiting_fds' = Unregister(t) /\ UNCHANGED gvl
       ELSE /\ place' = [place EXCEPT ![t] = IF at[t] \in open THEN "io" ELSE "io_failed"]
            /\ gvl' = NoThread
            /\ UNCHANGED waiting_fds
    /\ UNCHANGED <<at, masks, inherited, open>>

\* The system call is done, fails or is interrupted, and rb_thread_io_blocking_region
\* returns.
IoReturn(t) ==
    /\ gvl = NoThread
    /\ place[t] \in {"io", "io_failed"}
    /\ gvl' = t
    /\ place' = [place EXCEPT ![t] = "run"]
    /\ waiting_fds' = Unregister(t)
    /\ vm_check_ints_blocking(t)
    /\ UNCHANGED <<at, masks, inherited, open>>
-----------------------------------------------------------------------------
(* Closing a file. *)

Users(fd) == {w.th : w \in {v \in waiting_fds : v.fd = fd}}
Untold(fd) == {w.th : w \in {v \in waiting_fds : v.fd = fd /\ ~v.told}}

Mut_rb_notify_fd_close(fd) ==
    /\ queue' = [u \in Thread |-> IF u \in Untold(fd) THEN Append(queue[u], Closed) ELSE queue[u]]
    /\ checked' = checked \ Untold(fd)
    /\ waiting_fds' = {IF w.fd = fd THEN [w EXCEPT !.told = TRUE] ELSE w : w \in waiting_fds}
    /\ UNCHANGED interrupted

\* rb_notify_fd_close: each of the threads is told once.
rb_notify_fd_close(fd) ==
    /\ Enque(Untold(fd), Closed)
    /\ waiting_fds' = {IF w.fd = fd THEN [w EXCEPT !.told = TRUE] ELSE w : w \in waiting_fds}

\* io_close_fptr: the file is closed whether it has users or not, but they have to be
\* gone before it returns.
io_close_fptr(t, fd) ==
    /\ Free(t) /\ fd \in open
    /\ rb_notify_fd_close(fd)
    /\ open' = open \ {fd}
    /\ IF Users(fd) = {} THEN UNCHANGED <<gvl, place, at>>
       ELSE /\ gvl' = NoThread
            /\ place' = [place EXCEPT ![t] = "close"]
            /\ at' = [at EXCEPT ![t] = fd]
    /\ UNCHANGED <<masks, inherited, unwinding, to_kill>>

\* Its loop, from rb_thread_schedule, which looks at the interrupts of the thread
\* that closes the file, to the next one.
CloseLoop(t) ==
    /\ gvl = t
    /\ place[t] = "close"
    /\ IF CheckRaises(t) \/ t \in interrupted
       THEN /\ CheckInts(t)
            /\ place' = IF CheckRaises(t) THEN [place EXCEPT ![t] = "run"] ELSE place
            /\ UNCHANGED <<gvl, waiting_fds>>
       ELSE /\ rb_notify_fd_close(at[t])
            /\ IF Users(at[t]) = {} THEN place' = [place EXCEPT ![t] = "run"] /\ UNCHANGED gvl
               ELSE gvl' = NoThread /\ UNCHANGED place
            /\ UNCHANGED <<unwinding, to_kill>>
    /\ UNCHANGED <<at, masks, inherited, open>>
-----------------------------------------------------------------------------
Step(t) ==
    \/ RUBY_VM_CHECK_INTS(t) \/ LeaveHandleInterrupt(t) \/ Rescue(t) \/ ThreadEnd(t)
    \/ \E c \in Classes, timing \in Timing : EnterHandleInterrupt(t, c, timing)
    \/ \E u \in Thread : \/ thread_create_core(t, u) \/ rb_thread_kill(t, u)
                         \/ \E err \in Error : rb_threadptr_raise(t, u, err)
    \/ Yield(t) \/ Resume(t) \/ sleep_forever(t) \/ SleepReturn(t)
    \/ \E fd \in Fd : rb_thread_io_blocking_region(t, fd) \/ io_close_fptr(t, fd)
    \/ blocking_region_begin(t) \/ IoReturn(t) \/ CloseLoop(t)

Next == \E t \in Thread : Step(t)

Spec == Init /\ [][Next]_vars

\* Goes on where it blocks or waits for others: read() returns when a signal interrupts
\* it, and may go on for ever otherwise.
Proceed(t) ==
    \/ blocking_region_begin(t)
    \/ IoReturn(t) /\ (t \in interrupted \/ place[t] = "io_failed")
    \/ CloseLoop(t)

\* A thread that runs is made to yield by the timer thread, and one that waits for the
\* GVL gets it (gvl_yield hands it over).
Fairness ==
    \A t \in Thread : WF_vars(Yield(t)) /\ SF_vars(Resume(t)) /\ SF_vars(Proceed(t))

FairSpec == Spec /\ Fairness
-----------------------------------------------------------------------------
TypeOK ==
    /\ gvl \in Thread \cup {NoThread}
    /\ place \in [Thread -> Place] /\ at \in [Thread -> Fd]
    /\ interrupted \subseteq Thread /\ checked \subseteq Thread /\ to_kill \subseteq Thread
    /\ queue \in [Thread -> Seq(Pending)]
    /\ masks \in [Thread -> Seq([covers : Classes, timing : Timing])]
    /\ inherited \in [Thread -> Nat] /\ \A t \in Thread : inherited[t] <= Len(masks[t])
    /\ unwinding \in [Thread -> Pending \cup {NoError}]
    /\ waiting_fds \subseteq [fd : Fd, th : Thread, told : BOOLEAN]
    /\ open \subseteq Fd

\* threadptr_pending_interrupt_active_p skips the queue "if the queue and the thread
\* interrupt mask were not changed since last check": whenever it does, nothing in the
\* queue is allowed by the masks that are in force now, however they were pushed,
\* popped or inherited since.
CheckedMeansNothing ==
    \A t \in checked : Found(queue[t], masks[t], "immediate") = {}

\* A thread sleeps without its interrupt flag only if nothing is pending that its masks
\* let interrupt a blocking operation (vm_check_ints_blocking in sleep_forever).
SleeperSeesPending ==
    \A t \in Thread :
        place[t] = "sleep" /\ t \notin interrupted => Found(queue[t], masks[t], "on_blocking") = {}

\* The entries of vm->waiting_fds are on the stacks of threads that are in
\* rb_thread_io_blocking_region: each such thread has the one entry for its file, and
\* there is no other, whatever exception left that function.
WaitersAreInside ==
    \A t \in Thread :
        LET mine == {w \in waiting_fds : w.th = t}
        IN  IF place[t] \in {"io_enter", "io", "io_failed"}
            THEN \E w \in mine : mine = {w} /\ w.fd = at[t]
            ELSE mine = {}

\* Closing a file reaches every thread that is blocked on it (rb_notify_fd_close): the
\* thread's interrupt flag is set and stays so until it has left read().
BlockedOnClosedIsTold ==
    \A t \in Thread : place[t] = "io" /\ at[t] \notin open => t \in interrupted

\* IO#close comes to an end though other threads use the file, and whatever masks they
\* have: it waits for them in io_close_fptr.
CloseCompletes ==
    \A t \in Thread : place[t] = "close" ~> place[t] # "close"
=============================================================================
